---------------------------- MODULE MediaStreams ----------------------------
(***************************************************************************)
(* Which call a media packet belongs to: the destinations the SDP of a     *)
(* dialog announces (sip_parse_msg_media in src/sip.c) become streams      *)
(* without a source, and RTP and RTCP packets complete them, open streams  *)
(* of their own for another format or the opposite direction, or are       *)
(* ignored (src/rtp.c).                                                    *)
(*                                                                         *)
(* Messages and packets come in any order, late, again or never, and the   *)
(* user may clear the calls in between.  Media packets are of version 2    *)
(* and long enough; all others leave everything as it is.                  *)
(***************************************************************************)
EXTENDS Integers, SequencesExt, FiniteSets

CONSTANTS
  CallIds,      \* Call-IDs
  Hosts,        \* IP addresses, with the empty one of a stream that has none
  MediaMessages, \* SIP messages: [call, request, invite, src, dst, sdp]
  Packets,      \* media packets: [octet, src, dst, reports]
  IgnoreIncomplete, \* calls.ignore_incomplete: dialogs start with a request
  MaxMessages,  \* bound on the SIP messages captured
  MaxPackets    \* bound on the media packets captured

VARIABLES
  calls_list,    \* calls.list
  call_msgs,     \* call->msgs
  call_streams,  \* call->streams: [type, src, dst, format, rtcp, packets, reverse]
  heard,         \* SIP messages captured so far
  seen           \* media packets captured so far

mediaVars == <<calls_list, call_msgs, call_streams, heard, seen>>

NoAddress == [ip |-> "", port |-> 0]

MaxPort == 65535
Ports == 0..MaxPort

Addresses == [ip : Hosts, port : Ports]

\* The lines of an SDP that are read
SdpLines ==
  [line : {"c"}, ip : Hosts] \cup [line : {"m"}, rtp : BOOLEAN, port : Ports] \cup [line : {"rtcp"}, port : Ports]

\* The blocks of an RTCP packet
Reports ==
  [kind : {"sr"}, whole : BOOLEAN, count : Nat]
    \cup [kind : {"xr"}, whole : BOOLEAN, blocks : Seq([voip : BOOLEAN, value : Nat])]
    \cup [kind : {"rr", "unknown"}, whole : BOOLEAN]

ASSUME MediaAssumption ==
  /\ "" \in Hosts
  /\ \A m \in MediaMessages : m.call \in CallIds /\ {m.src, m.dst} \subseteq Addresses /\ m.sdp \in Seq(SdpLines)
  /\ Packets \subseteq [octet : 0..255, src : Addresses, dst : Addresses, reports : Seq(Reports)]

\* SDP asks for a c= line of the session or of every medium; without one
\* the address is whatever the stack held.
ASSUME AddressGiven ==
  \A m \in MediaMessages : \A i \in DOMAIN m.sdp : m.sdp[i].line = "m" =>
    \E k \in DOMAIN m.sdp : /\ m.sdp[k].line = "c"
                            /\ \A j \in (i + 1)..k : m.sdp[j].line # "m"

-----------------------------------------------------------------------------
(* Streams.  The packets of a stream stand for pktcnt and time; "reverse"  *)
(* only records how a stream was made.                                     *)

stream_create(type, dst) ==
  [type |-> type, src |-> NoAddress, dst |-> dst, format |-> 0,
   rtcp |-> [spc |-> 0, voip |-> 0], packets |-> <<>>, reverse |-> FALSE]

stream_complete(s, src, format) == [s EXCEPT !.src = src, !.format = format]

stream_is_complete(s) == s.packets # <<>>

stream_add_packet(s, p) == [s EXCEPT !.packets = Append(@, p)]

rtp_find_call_exact_stream(ss, src, dst) ==
  SelectLastInSeq(ss, LAMBDA s : s.src = src /\ s.dst = dst)

\* With no source any stream to the destination, else one without packets
\* before one from that source; 0 for none.
rtp_find_call_stream(ss, src, dst) ==
  LET free == SelectLastInSeq(ss, LAMBDA s : s.dst = dst /\ (src.port = 0 \/ ~stream_is_complete(s)))
  IN  IF free # 0 \/ src.port = 0 THEN free ELSE rtp_find_call_exact_stream(ss, src, dst)

-----------------------------------------------------------------------------
(* The SDP of a message.                                                   *)

\* A stream for every line that announces one
AddStreamAlways(ss, s) == Append(ss, s)

AddStream(ss, s) == IF rtp_find_call_stream(ss, NoAddress, s.dst) # 0 THEN ss ELSE Append(ss, s)

\* The pending streams, one after another
AddStreams(ss, pending) ==
  LET added[i \in 0..Len(pending)] == IF i = 0 THEN ss ELSE AddStream(added[i - 1], pending[i])
  IN  added[Len(pending)]

\* The streams of an m= line: to the sender of the message, to the address
\* of the connection, and to the port above for RTCP.
NewStreams(m, dst) ==
  <<stream_create("rtp", [dst EXCEPT !.ip = m.src.ip]),
    stream_create("rtp", dst),
    stream_create("rtcp", [dst EXCEPT !.port = (@ + 1) % (MaxPort + 1)])>>

\* A c= line that only counts for the m= lines below it.
ParseLineBelow(m, st, l) ==
  CASE l.line = "m" /\ l.rtp ->
         LET dst == [st.dst EXCEPT !.port = l.port]
         IN  [dst |-> dst, pending |-> NewStreams(m, dst), ss |-> AddStreams(st.ss, st.pending)]
    [] l.line = "m" /\ ~l.rtp -> [st EXCEPT !.dst.port = l.port]
    [] l.line = "c" -> [st EXCEPT !.dst.ip = l.ip]
    [] l.line = "rtcp" -> IF st.pending = <<>> THEN st ELSE [st EXCEPT !.pending[3].dst.port = l.port]

\* The streams of an m= line wait for the next one; c= and a=rtcp lines
\* change them until then, also those that follow an m= line of another
\* protocol.
ParseLine(m, st, l) ==
  CASE l.line = "m" /\ l.rtp ->
         LET dst == [st.dst EXCEPT !.port = l.port]
         IN  [dst |-> dst, pending |-> NewStreams(m, dst), ss |-> AddStreams(st.ss, st.pending)]
    [] l.line = "m" /\ ~l.rtp -> [st EXCEPT !.dst.port = l.port]
    [] l.line = "c" -> [st EXCEPT !.dst.ip = l.ip,
                          !.pending = [i \in DOMAIN @ |-> IF i = 1 THEN @[i] ELSE [@[i] EXCEPT !.dst.ip = l.ip]]]
    [] l.line = "rtcp" -> IF st.pending = <<>> THEN st ELSE [st EXCEPT !.pending[3].dst.port = l.port]

\* What is known after the first i lines
SdpState(ss, m) ==
  LET parsed[i \in 0..Len(m.sdp)] ==
        IF i = 0 THEN [dst |-> NoAddress, pending |-> <<>>, ss |-> ss]
        ELSE ParseLine(m, parsed[i - 1], m.sdp[i])
  IN  parsed

sip_parse_msg_media(ss, m) ==
  LET end == SdpState(ss, m)[Len(m.sdp)] IN AddStreams(end.ss, end.pending)

\* The same message as the last one between the two addresses
call_msg_retrans_check(ms, m) ==
  LET prev == SelectLastInSeq(ms, LAMBDA p : p.src = m.src /\ p.dst = m.dst)
  IN  prev # 0 /\ ms[prev] = m

\* sip_check_packet; CallStore has the other reasons to skip a message.
SipMessage(m) ==
  LET known == m.call \in Range(calls_list)
      all == Append(call_msgs[m.call], m)
  IN  /\ heard < MaxMessages /\ heard' = heard + 1
      /\ IF ~known /\ IgnoreIncomplete /\ ~m.request THEN UNCHANGED <<calls_list, call_msgs, call_streams>>
         ELSE /\ calls_list' = IF known THEN calls_list ELSE Append(calls_list, m.call)
              /\ call_msgs' = [call_msgs EXCEPT ![m.call] = all]
              /\ call_streams' = IF all[1].invite /\ ~call_msg_retrans_check(call_msgs[m.call], m)
                                  THEN [call_streams EXCEPT ![m.call] = sip_parse_msg_media(@, m)]
                                  ELSE call_streams
      /\ UNCHANGED seen

-----------------------------------------------------------------------------
(* RTP packets.                                                            *)

\* The octet holds the marker bit and the payload type, or the RTCP type.
PayloadType(p) == p.octet % 128
data_is_rtp(p) == PayloadType(p) <= 64 \/ PayloadType(p) >= 96
data_is_rtcp(p) == p.octet \in 192..223

\* RTCP comes from a port that can be answered; a packet from port 0 would
\* be counted in any stream to its destination.
ASSUME SourceAssumption == \A p \in Packets : data_is_rtp(p) \/ p.src.port # 0

\* The streams of all calls, <<call, index>>, newest first
Places(c) == [j \in DOMAIN call_streams[c] |-> <<c, j>>]
Walk == Reverse(FlattenSeq([i \in DOMAIN calls_list |-> Places(calls_list[i])]))
At(place) == call_streams[place[1]][place[2]]

\* A search without a second choice
FindExactOnly(src, dst, format) ==
  LET found == SelectInSeq(Walk, LAMBDA w : /\ At(w).type = "rtp" /\ At(w).dst = dst
                                            /\ stream_is_complete(At(w)) => At(w).src = src /\ At(w).format = format)
  IN  IF found = 0 THEN <<>> ELSE Walk[found]

\* The newest stream of the addresses and format, or without packets to the
\* destination; else the oldest of the addresses in another format.
rtp_find_stream_format(src, dst, format) ==
  LET Exact(w) == LET s == At(w)
                  IN  /\ s.type = "rtp" /\ s.dst = dst
                      /\ stream_is_complete(s) => s.src = src /\ s.format = format
      Candidate(w) == At(w).type = "rtp" /\ At(w).dst = dst /\ At(w).src = src
      exact == SelectInSeq(Walk, Exact)
      candidate == SelectLastInSeq(Walk, Candidate)
  IN  IF exact # 0 THEN Walk[exact] ELSE IF candidate # 0 THEN Walk[candidate] ELSE <<>>

\* A stream that gets its first packet has one for the opposite direction:
\* one that waits for packets to the source, or a new one.
WithReverse(ss, s) ==
  LET back == rtp_find_call_stream(ss, s.dst, s.src)
      wanted == \/ back = 0
                \/ /\ ss[back].src.port # 0 /\ ss[back].src # s.src
                   /\ rtp_find_call_exact_stream(ss, s.dst, s.src) = 0
      reverse == [stream_complete(stream_create("rtp", s.src), s.dst, s.format) EXCEPT !.reverse = TRUE]
  IN  IF wanted THEN Append(ss, reverse) ELSE ss

\* Packets counted whatever their format is
CountedAnyFormat(ss, j, p) ==
  LET s == IF stream_is_complete(ss[j]) THEN ss[j] ELSE stream_complete(ss[j], p.src, PayloadType(p))
      with == [ss EXCEPT ![j] = s]
  IN  [(IF stream_is_complete(ss[j]) THEN with ELSE WithReverse(with, s)) EXCEPT ![j] = stream_add_packet(@, p)]

\* The streams of the call with the packet counted in the j-th
Counted(ss, j, p) ==
  LET format == PayloadType(p)
      other == stream_is_complete(ss[j]) /\ ss[j].format # format
      k == IF other THEN Len(ss) + 1 ELSE j
      first == other \/ ~stream_is_complete(ss[j])
      s == IF first THEN stream_complete(IF other THEN stream_create("rtp", p.dst) ELSE ss[j], p.src, format)
           ELSE ss[j]
      with == IF other THEN Append(ss, s) ELSE [ss EXCEPT ![j] = s]
      all == IF first THEN WithReverse(with, s) ELSE with
  IN  [all EXCEPT ![k] = stream_add_packet(@, p)]

RtpPacket(p) ==
  /\ data_is_rtp(p)
  /\ LET found == rtp_find_stream_format(p.src, p.dst, PayloadType(p))
     IN  call_streams' = IF found = <<>> THEN call_streams
                         ELSE [call_streams EXCEPT ![found[1]] = Counted(@, found[2], p)]

-----------------------------------------------------------------------------
(* RTCP packets.                                                           *)

\* In the newest call whose stream for the packet is one for RTCP
rtp_find_rtcp_stream(src, dst) ==
  LET Newest(c) == rtp_find_call_stream(call_streams[c], src, dst)
      i == SelectLastInSeq(calls_list, LAMBDA c : Newest(c) # 0 /\ call_streams[c][Newest(c)].type = "rtcp")
  IN  IF i = 0 THEN <<>> ELSE <<calls_list[i], Newest(calls_list[i])>>

\* Reports are read up to the first that is cut off or not known.  The
\* metrics come from the first block when any block has some.
ReadReport(info, r) ==
  CASE r.kind = "sr" -> [info EXCEPT !.spc = r.count]
    [] r.kind = "xr" /\ (\E i \in DOMAIN r.blocks : r.blocks[i].voip) -> [info EXCEPT !.voip = r.blocks[1].value]
    [] OTHER -> info

ReadReports(info, rs) ==
  LET stop == SelectInSeq(rs, LAMBDA r : ~r.whole \/ r.kind = "unknown")
      read[i \in 0..(IF stop = 0 THEN Len(rs) ELSE stop - 1)] ==
        IF i = 0 THEN info ELSE ReadReport(read[i - 1], rs[i])
  IN  read[IF stop = 0 THEN Len(rs) ELSE stop - 1]

\* The streams of the call with the packet counted in the j-th
Reported(ss, j, p) ==
  LET s == [ss[j] EXCEPT !.src = p.src, !.rtcp = ReadReports(@, p.reports)]
  IN  [ss EXCEPT ![j] = stream_add_packet(s, p)]

RtcpPacket(p) ==
  /\ ~data_is_rtp(p) /\ data_is_rtcp(p)
  /\ LET found == rtp_find_rtcp_stream(p.src, p.dst)
     IN  call_streams' = IF found = <<>> THEN call_streams
                         ELSE [call_streams EXCEPT ![found[1]] = Reported(@, found[2], p)]

MediaPacket(p) ==
  /\ seen < MaxPackets /\ seen' = seen + 1
  /\ RtpPacket(p) \/ RtcpPacket(p)
  /\ UNCHANGED <<calls_list, call_msgs, heard>>

-----------------------------------------------------------------------------
\* sip_calls_clear; the user may ask for it whenever.
Clear ==
  /\ calls_list' = <<>>
  /\ call_msgs' = [c \in CallIds |-> <<>>]
  /\ call_streams' = [c \in CallIds |-> <<>>]
  /\ UNCHANGED <<heard, seen>>

MediaInit ==
  /\ calls_list = <<>>
  /\ call_msgs = [c \in CallIds |-> <<>>]
  /\ call_streams = [c \in CallIds |-> <<>>]
  /\ heard = 0 /\ seen = 0

MediaNext ==
  \/ \E m \in MediaMessages : SipMessage(m)
  \/ \E p \in Packets : MediaPacket(p)
  \/ Clear

MediaSpec == MediaInit /\ [][MediaNext]_mediaVars

-----------------------------------------------------------------------------
(* Properties.                                                             *)

AllStreams(c) == Range(call_streams[c])

\* What is counted in a stream belongs together: every packet of it came
\* from the stream's source to its destination, is of its kind and, for RTP,
\* of its format, however streams were taken over before their first packet.
StreamsAreUniform ==
  \A c \in CallIds : \A s \in AllStreams(c) : \A p \in Range(s.packets) :
    /\ p.src = s.src /\ p.dst = s.dst
    /\ s.type = "rtp" <=> data_is_rtp(p)
    /\ s.type = "rtp" => PayloadType(p) = s.format

\* The line of an SDP that gives the address of the m= line at i: the last
\* c= line before the next m= line, of whatever protocol.
ConnectionOf(sdp, i) ==
  LET nextM == SelectInSubSeq(sdp, i + 1, Len(sdp), LAMBDA l : l.line = "m")
  IN  SelectLastInSubSeq(sdp, 1, IF nextM = 0 THEN Len(sdp) ELSE nextM - 1, LAMBDA l : l.line = "c")

\* The m= line at i is followed by one of another protocol with a c= line.
Taken(sdp, i) ==
  \E j, k \in DOMAIN sdp : /\ i < j /\ j < k /\ sdp[k].line = "c" /\ sdp[j].line = "m"
                          /\ \A l \in (i + 1)..k : ~(sdp[l].line = "m" /\ sdp[l].rtp)

\* Every RTP medium a dialog announced has a stream to its address and port,
\* in whatever order lines and messages came, unless an m= line of another
\* protocol with a c= line of its own comes next.
AnnouncedHasStream ==
  \A c \in CallIds : \A n \in DOMAIN call_msgs[c] :
    LET sdp == call_msgs[c][n].sdp
    IN  call_msgs[c][1].invite =>
          \A i \in DOMAIN sdp :
            sdp[i].line = "m" /\ sdp[i].rtp /\ ~Taken(sdp, i) =>
              \E s \in AllStreams(c) : s.dst = [ip |-> sdp[ConnectionOf(sdp, i)].ip, port |-> sdp[i].port]

\* A call shows one stream for one source, destination and format, unless
\* one of two was made for the opposite direction of another: a packet from
\* elsewhere takes such a stream over before its own source sends anything.
SplitOnlyByReverse ==
  \A c \in CallIds : \A i, j \in DOMAIN call_streams[c] :
    LET s == call_streams[c][i]
        t == call_streams[c][j]
    IN  /\ i < j /\ s.type = "rtp" /\ t.type = "rtp"
        /\ stream_is_complete(s) /\ stream_is_complete(t)
        /\ s.src = t.src /\ s.dst = t.dst /\ s.format = t.format
        => t.reverse

\* Once an RTP packet was counted, those that follow between the same two
\* addresses are, each in one stream, in any format and whatever was
\* announced since, until the calls are cleared.
CountedForGood ==
  [][ \A p \in Packets :
        LET Known(c, s) == s.type = "rtp" /\ \E q \in Range(s.packets) : q.src = p.src /\ q.dst = p.dst
            Grown(c) == {j \in DOMAIN call_streams'[c] :
                           Len(call_streams'[c][j].packets) >
                             (IF j \in DOMAIN call_streams[c] THEN Len(call_streams[c][j].packets) ELSE 0)}
        IN  MediaPacket(p) /\ data_is_rtp(p) /\ (\E c \in CallIds : \E s \in AllStreams(c) : Known(c, s)) =>
              \E c \in CallIds : /\ Cardinality(Grown(c)) = 1
                               /\ \A d \in CallIds \ {c} : Grown(d) = {}
                               /\ \A j \in Grown(c) : Last(call_streams'[c][j].packets) = p ]_mediaVars
=============================================================================
