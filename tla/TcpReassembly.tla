---------------------------- MODULE TcpReassembly ----------------------------
(***************************************************************************)
(* capture_packet_reasm_tcp (src/capture.c): SIP messages out of the       *)
(* segments of TCP connections, each of which has one packet in tcp_reasm. *)
(* A segment goes behind what is stored if its sequence number is higher   *)
(* than the last one's, and before it otherwise.                           *)
(***************************************************************************)
EXTENDS SipPayload

CONSTANTS
  Streams,     \* source and destination of a connection
  SeqNumbers   \* 32 bits in the code

ASSUME StreamsAssumption == SeqNumbers \subseteq Nat /\ None \notin Nat

ASSUME NoneAssumption == None \notin [seq : SeqNumbers, payload : Seq(Units)]

VARIABLES
  tcp_reasm,   \* stream -> packet being reassembled [seq, payload], or None
  captured,    \* stream -> units of its segments, as they came
  released,    \* stream -> units that have left tcp_reasm
  returned,    \* the packet returned last: [stream, payload, as], or None
  last_seq     \* stream -> last sequence number while they rise, else None

tcpVars == <<tcp_reasm, captured, released, returned, last_seq>>

Segments ==
  [stream : Streams, seq : SeqNumbers, push : BOOLEAN, payload : Seq(Units), frames : Nat \ {0}]

TcpTypeOK ==
  /\ tcp_reasm \in [Streams -> [seq : SeqNumbers, payload : Seq(Units)] \cup {None}]
  /\ captured \in [Streams -> Seq(Units)]
  /\ released \in [Streams -> Seq(Units)]
  /\ returned \in [stream : Streams, payload : Seq(Units), as : Verdicts \cup {"empty"}] \cup {None}
  /\ last_seq \in [Streams -> Nat \cup {None}]

TcpInit ==
  /\ tcp_reasm = [s \in Streams |-> None]
  /\ captured = [s \in Streams |-> <<>>]
  /\ released = [s \in Streams |-> <<>>]
  /\ returned = None
  /\ last_seq = [s \in Streams |-> 0]

Stored(s) == IF tcp_reasm[s] = None THEN <<>> ELSE tcp_reasm[s].payload

\* The sequence number that decides: that of the last segment appended, and
\* the segment's own if there is none (0 counts as none).
DecidingSeq(seg) ==
  IF tcp_reasm[seg.stream] = None \/ tcp_reasm[seg.stream].seq = 0
  THEN seg.seq ELSE tcp_reasm[seg.stream].seq

\* Faulty variant: the order of the two payloads is reversed.
JoinedReversed(seg) ==
  IF tcp_reasm[seg.stream] = None THEN seg.payload
  ELSE IF DecidingSeq(seg) < seg.seq THEN seg.payload \o Stored(seg.stream)
  ELSE Stored(seg.stream) \o seg.payload

\* The payload with that of the segment.  parse_packet has set the payload of a
\* new packet already; if it has one frame it is set again, else it is joined
\* with itself.
Joined(seg) ==
  LET known == tcp_reasm[seg.stream] # None
      base  == IF known THEN Stored(seg.stream) ELSE seg.payload
  IN IF ~known /\ seg.frames = 1 THEN seg.payload
     ELSE IF DecidingSeq(seg) < seg.seq THEN base \o seg.payload
     ELSE seg.payload \o base

\* Faulty variant: what follows the first n units is dropped.
ReleaseDropsRest(seg, joined, n, as) ==
  /\ tcp_reasm' = [tcp_reasm EXCEPT ![seg.stream] = None]
  /\ released' = [released EXCEPT ![seg.stream] = @ \o SubSeq(joined, 1, n)]
  /\ returned' = IF as = "discarded" THEN None
                 ELSE [stream |-> seg.stream, payload |-> SubSeq(joined, 1, n), as |-> as]

\* The packet leaves tcp_reasm with its first n units; the rest, if any,
\* stays as a packet of its own.
Release(seg, joined, n, as) ==
  LET seq  == IF DecidingSeq(seg) < seg.seq THEN seg.seq ELSE DecidingSeq(seg)
      head == SubSeq(joined, 1, n)
      rest == SubSeq(joined, n + 1, Len(joined))
  IN /\ tcp_reasm' = [tcp_reasm EXCEPT ![seg.stream] =
                        IF n = Len(joined) THEN None ELSE [seq |-> seq, payload |-> rest]]
     /\ released' = [released EXCEPT ![seg.stream] = @ \o head]
     /\ returned' = IF as = "discarded" THEN None
                    ELSE [stream |-> seg.stream, payload |-> head, as |-> as]

Keep(seg, joined) ==
  LET seq == IF DecidingSeq(seg) < seg.seq THEN seg.seq ELSE DecidingSeq(seg)
  IN /\ tcp_reasm' = [tcp_reasm EXCEPT ![seg.stream] = [seq |-> seq, payload |-> joined]]
     /\ UNCHANGED released
     /\ returned' = None

\* What becomes of the joined payload.
Judge(seg, joined) ==
  LET v == Validate(joined)
  IN IF Len(joined) > MaxCaptureLen THEN Release(seg, joined, Len(joined), "discarded")
     ELSE IF v.as \in {"complete", "multiple"} THEN Release(seg, joined, v.length, v.as)
     ELSE IF v.as = "not_sip" /\ seg.push THEN Release(seg, joined, Len(joined), v.as)
     ELSE Keep(seg, joined)

\* A segment without payload is returned as it is.
ReasmTcp(seg) ==
  /\ IF seg.payload = <<>>
     THEN /\ returned' = [stream |-> seg.stream, payload |-> <<>>, as |-> "empty"]
          /\ UNCHANGED <<tcp_reasm, captured, released, last_seq>>
     ELSE /\ Judge(seg, Joined(seg))
          /\ captured' = [captured EXCEPT ![seg.stream] = @ \o seg.payload]
          /\ last_seq' = [last_seq EXCEPT ![seg.stream] =
                            IF @ # None /\ @ < seg.seq /\ seg.frames = 1 THEN seg.seq ELSE None]

TcpNext == \E seg \in Segments : ReasmTcp(seg)
TcpSpec == TcpInit /\ [][TcpNext]_tcpVars

----------------------------------------------------------------------------
(* Properties *)

\* While the sequence numbers of a stream rise (they do not wrap, none is 0,
\* nothing is captured late or twice; gaps do not matter) and its segments come
\* in one frame each, capture_packet_reasm_tcp loses, repeats and reorders
\* nothing: what has left tcp_reasm, followed by what is stored, is what came.
StreamConserved ==
  \A s \in Streams : last_seq[s] # None => released[s] \o Stored(s) = captured[s]

\* What is returned as a SIP message out of a stream captured from its start
\* without gaps is one whole message, wherever the segments were cut and
\* whatever was pushed.
OneMessageEach ==
  returned # None /\ returned.as \in {"complete", "multiple"} =>
    LET s == returned.stream
        u == captured[s]
    IN (/\ last_seq[s] # None
        /\ \A i \in 1 .. Len(u) : u[i] \in MessageUnits
        /\ \A i \in 1 .. Len(u) - 1 :
             IF u[i].part = Parts[u[i].msg] THEN u[i + 1].part = 1
             ELSE u[i + 1] = [u[i] EXCEPT !.part = @ + 1])
       => \E m \in Messages : returned.payload = Whole(m)

==============================================================================
