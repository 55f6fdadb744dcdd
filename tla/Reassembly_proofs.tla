-------------------------- MODULE Reassembly_proofs --------------------------
(***************************************************************************)
(* Theorems about the reassembly of TCP segments, for segments in any      *)
(* order, and about the reassembly of IP fragments that feeds it.          *)
(***************************************************************************)
EXTENDS Reassembly, SequenceLemmas, SequenceTheorems, FiniteSetTheorems

-----------------------------------------------------------------------------
(* TCP *)

\* The text of a payload is a payload, and not longer.
LEMMA TextType ==
  ASSUME NEW p \in Seq(Units)
  PROVE  Text(p) \in Seq(Units) /\ Len(Text(p)) <= Len(p)
<1> DEFINE nul == First(p, LAMBDA u : u = Zero)
<1>1. CASE nul = {}
  BY <1>1 DEF Text
<1>2. CASE nul # {}
  <2> DEFINE i == CHOOSE i \in nul : TRUE
  <2>1. i \in nul
    BY <1>2
  <2>2. i \in 1 .. Len(p)
    BY <2>1 DEF First
  <2>3. Text(p) = SubSeq(p, 1, i - 1)
    BY <1>2 DEF Text
  <2> HIDE DEF i, nul
  <2>4. i - 1 \in 0 .. Len(p) /\ i - 1 \in Int /\ Len(p) \in Nat
    BY <2>2
  <2>5. SubSeq(p, 1, i - 1) \in Seq(Units) /\ Len(SubSeq(p, 1, i - 1)) = i - 1
    BY <2>4
  <2> QED BY <2>3, <2>4, <2>5
<1> QED BY <1>1, <1>2

\* sip_validate_packet never cuts a payload beyond its end.
LEMMA ValidateLength ==
  ASSUME NEW p \in Seq(Units)
  PROVE  Validate(p) \in [as : Verdicts, length : 0 .. Len(p)]
<1> DEFINE text == Text(p)
           h == CHOOSE i \in HeadersEnd(text) : TRUE
           content == Parts[text[h].msg] - 2
<1>1. text \in Seq(Units) /\ Len(text) <= Len(p) /\ Len(text) \in Nat /\ Len(p) \in Nat
  BY TextType
<1>2. ASSUME HeadersEnd(text) # {}
      PROVE  h \in 1 .. Len(text) /\ content \in Nat
  <2>1. h \in HeadersEnd(text)
    BY <1>2
  <2>2. h \in 1 .. Len(text) /\ IsPart(text[h], 2)
    BY <2>1 DEF HeadersEnd, First
  <2>3. Parts[text[h].msg] \in Nat \ {0, 1}
    BY <2>2, PayloadAssumption DEF IsPart, MessageUnits
  <2> QED BY <2>2, <2>3
<1> HIDE DEF text, h, content
<1>3. ASSUME HeadersEnd(text) # {}, ~(content > Len(text) - h), content # Len(text) - h
      PROVE  h + content \in 0 .. Len(p)
  BY <1>1, <1>2, <1>3
<1>4. 0 \in 0 .. Len(p) /\ Len(p) \in 0 .. Len(p)
  BY <1>1
<1>5. \/ Validate(p) = Verdict("not_sip", 0)
      \/ Validate(p) = Verdict("partial", 0)
      \/ Validate(p) = Verdict("complete", Len(p))
      \/ /\ HeadersEnd(text) # {} /\ ~(content > Len(text) - h) /\ content # Len(text) - h
         /\ Validate(p) = Verdict("multiple", h + content)
  BY DEF Validate, text, h, content
<1>6. CASE Validate(p) \in {Verdict("not_sip", 0), Verdict("partial", 0)}
  BY <1>4, <1>6 DEF Verdict, Verdicts
<1>7. CASE Validate(p) = Verdict("complete", Len(p))
  BY <1>4, <1>7 DEF Verdict, Verdicts
<1>8. CASE /\ HeadersEnd(text) # {} /\ ~(content > Len(text) - h) /\ content # Len(text) - h
           /\ Validate(p) = Verdict("multiple", h + content)
  <2>1. h + content \in 0 .. Len(p)
    BY <1>3, <1>8
  <2> QED BY <1>8, <2>1 DEF Verdict, Verdicts
<1> QED BY <1>5, <1>6, <1>7, <1>8

\* Cutting a payload in two and joining the parts gives it back.
LEMMA CutAndJoin ==
  ASSUME NEW p \in Seq(Units), NEW n \in 0 .. Len(p)
  PROVE  /\ SubSeq(p, 1, n) \in Seq(Units)
         /\ SubSeq(p, n + 1, Len(p)) \in Seq(Units)
         /\ SubSeq(p, 1, n) \o SubSeq(p, n + 1, Len(p)) = p
         /\ n = Len(p) => SubSeq(p, 1, n) = p
<1>1. Len(p) \in Nat /\ n \in Nat
  OBVIOUS
<1>2. SubSeq(p, 1, n) \in Seq(Units) /\ Len(SubSeq(p, 1, n)) = n
  BY <1>1
<1>3. SubSeq(p, n + 1, Len(p)) \in Seq(Units) /\ Len(SubSeq(p, n + 1, Len(p))) = Len(p) - n
  BY <1>1
<1>4. SubSeq(p, 1, n) \o SubSeq(p, n + 1, Len(p)) = SubSeq(p, 1, Len(p))
  <2>1. 1 \in 1 .. Len(p) + 1 /\ n \in 1 - 1 .. Len(p) /\ Len(p) \in n .. Len(p)
    BY <1>1
  <2> QED BY <2>1, ConcatAdjacentSubSeq
<1>5. SubSeq(p, 1, Len(p)) = p
  BY SubSeqFull
<1> QED BY <1>2, <1>3, <1>4, <1>5

LEMMA Associative ==
  \A a, b, c \in Seq(Units) : (a \o b) \o c = a \o (b \o c)
<1> SUFFICES ASSUME NEW a \in Seq(Units), NEW b \in Seq(Units), NEW c \in Seq(Units)
             PROVE  (a \o b) \o c = a \o (b \o c)
  OBVIOUS
<1> QED BY ConcatAssociative

\* While the sequence numbers rise, the one that is stored is the last one.
SeqFollows ==
  \A s \in Streams : last_seq[s] # None /\ tcp_reasm[s] # None =>
    tcp_reasm[s].seq = last_seq[s] /\ last_seq[s] # 0

TcpInv == TcpTypeOK /\ StreamConserved /\ SeqFollows

StoredPacket == [seq : SeqNumbers, payload : Seq(Units)]

LEMMA StoredType ==
  ASSUME TcpTypeOK, NEW s \in Streams
  PROVE  /\ Stored(s) \in Seq(Units)
         /\ tcp_reasm[s] # None => tcp_reasm[s] \in StoredPacket
<1>1. tcp_reasm[s] \in StoredPacket \cup {None}
  BY DEF TcpTypeOK, StoredPacket
<1>2. <<>> \in Seq(Units)
  BY EmptySeq
<1> QED BY <1>1, <1>2 DEF Stored, StoredPacket

LEMMA JoinedType ==
  ASSUME TcpTypeOK, NEW seg \in Segments
  PROVE  /\ Joined(seg) \in Seq(Units)
         /\ DecidingSeq(seg) \in SeqNumbers
<1>1. seg.stream \in Streams /\ seg.payload \in Seq(Units) /\ seg.seq \in SeqNumbers
  BY DEF Segments
<1>2. Stored(seg.stream) \in Seq(Units)
      /\ (tcp_reasm[seg.stream] # None => tcp_reasm[seg.stream] \in StoredPacket)
  BY <1>1, StoredType
<1>3. \A a, b \in Seq(Units) : a \o b \in Seq(Units)
  BY ConcatProperties
<1>4. DecidingSeq(seg) \in SeqNumbers
  BY <1>1, <1>2 DEF DecidingSeq, StoredPacket
<1>5. Joined(seg) \in {seg.payload, Stored(seg.stream) \o seg.payload, seg.payload \o Stored(seg.stream),
                       seg.payload \o seg.payload}
  BY DEF Joined
<1>6. Joined(seg) \in Seq(Units)
  BY <1>1, <1>2, <1>3, <1>5
<1> QED BY <1>4, <1>6

\* A segment whose number is higher than the last one goes to the end.
LEMMA JoinedInOrder ==
  ASSUME TcpInv, NEW seg \in Segments, seg.frames = 1,
         last_seq[seg.stream] # None, last_seq[seg.stream] < seg.seq
  PROVE  Joined(seg) = Stored(seg.stream) \o seg.payload
<1>1. seg.stream \in Streams /\ seg.payload \in Seq(Units)
  BY DEF Segments
<1>2. CASE tcp_reasm[seg.stream] = None
  <2>1. Joined(seg) = seg.payload /\ Stored(seg.stream) = <<>>
    BY <1>2 DEF Joined, Stored
  <2> QED BY <1>1, <2>1, ConcatEmptySeq
<1>3. CASE tcp_reasm[seg.stream] # None
  <2>1. DecidingSeq(seg) = last_seq[seg.stream]
    BY <1>1, <1>3 DEF TcpInv, SeqFollows, DecidingSeq
  <2> QED BY <1>3, <2>1 DEF Joined
<1> QED BY <1>2, <1>3

\* Whatever is decided about a joined payload, each of its units is released
\* or stored, in order, and the other streams are left alone.
LEMMA JudgeConserves ==
  ASSUME TcpTypeOK, NEW seg \in Segments, NEW joined \in Seq(Units), Judge(seg, joined)
  PROVE  /\ tcp_reasm' \in [Streams -> StoredPacket \cup {None}]
         /\ released' \in [Streams -> Seq(Units)]
         /\ returned' \in [stream : Streams, payload : Seq(Units), as : Verdicts \cup {"empty"}] \cup {None}
         /\ released'[seg.stream] \o Stored(seg.stream)' = released[seg.stream] \o joined
         /\ tcp_reasm'[seg.stream] # None =>
              tcp_reasm'[seg.stream].seq =
                IF DecidingSeq(seg) < seg.seq THEN seg.seq ELSE DecidingSeq(seg)
         /\ \A t \in Streams \ {seg.stream} :
              released'[t] = released[t] /\ tcp_reasm'[t] = tcp_reasm[t]
<1> DEFINE s == seg.stream
           n == Len(joined)
           seq == IF DecidingSeq(seg) < seg.seq THEN seg.seq ELSE DecidingSeq(seg)
<1>1. s \in Streams /\ seg.payload \in Seq(Units) /\ seg.seq \in SeqNumbers
  BY DEF Segments
<1>2. seq \in SeqNumbers
  BY <1>1, JoinedType
<1>3. tcp_reasm \in [Streams -> StoredPacket \cup {None}] /\ released \in [Streams -> Seq(Units)]
  BY DEF TcpTypeOK, StoredPacket
<1>4. released[s] \in Seq(Units) /\ n \in Nat /\ n \in 0 .. n
  BY <1>1, <1>3
<1>5. ASSUME NEW k \in 0 .. n, NEW as \in Verdicts \cup {"discarded"}, Release(seg, joined, k, as)
      PROVE  /\ tcp_reasm' \in [Streams -> StoredPacket \cup {None}]
             /\ released' \in [Streams -> Seq(Units)]
             /\ returned' \in [stream : Streams, payload : Seq(Units), as : Verdicts \cup {"empty"}] \cup {None}
             /\ released'[s] \o Stored(s)' = released[s] \o joined
             /\ tcp_reasm'[s] # None => tcp_reasm'[s].seq = seq
             /\ \A t \in Streams \ {s} : released'[t] = released[t] /\ tcp_reasm'[t] = tcp_reasm[t]
  <2> DEFINE head == SubSeq(joined, 1, k)
             rest == SubSeq(joined, k + 1, Len(joined))
             pkt  == [seq |-> seq, payload |-> rest]
  <2>1. head \in Seq(Units) /\ rest \in Seq(Units) /\ head \o rest = joined
        /\ (k = n => head = joined)
    BY CutAndJoin
  <2>2. /\ tcp_reasm' = [tcp_reasm EXCEPT ![s] = IF k = n THEN None ELSE pkt]
        /\ released' = [released EXCEPT ![s] = @ \o head]
        /\ returned' = IF as = "discarded" THEN None
                       ELSE [stream |-> s, payload |-> head, as |-> as]
    BY <1>5 DEF Release
  <2> HIDE DEF head, rest
  <2>3. pkt \in StoredPacket /\ pkt # None
    BY <1>2, <2>1, NoneAssumption DEF StoredPacket
  <2>4. released[s] \o head \in Seq(Units)
    BY <1>4, <2>1, ConcatProperties
  <2>5. /\ tcp_reasm'[s] = (IF k = n THEN None ELSE pkt)
        /\ released'[s] = released[s] \o head
    BY <1>1, <1>3, <2>2
  <2>6. released'[s] \o Stored(s)' = released[s] \o joined
    <3>1. CASE k = n
      <4>1. Stored(s)' = <<>>
        BY <2>5, <3>1 DEF Stored
      <4>2. released'[s] = released[s] \o joined /\ released'[s] \in Seq(Units)
        BY <2>1, <2>4, <2>5, <3>1
      <4> QED BY <4>1, <4>2, ConcatEmptySeq
    <3>2. CASE k # n
      <4>1. Stored(s)' = rest
        BY <2>3, <2>5, <3>2 DEF Stored
      <4>2. (released[s] \o head) \o rest = released[s] \o (head \o rest)
        BY <1>4, <2>1, Associative, Zenon
      <4> QED BY <2>1, <2>5, <4>1, <4>2
    <3> QED BY <3>1, <3>2
  <2>7. returned' \in [stream : Streams, payload : Seq(Units), as : Verdicts \cup {"empty"}] \cup {None}
    BY <1>1, <2>1, <2>2
  <2>8. tcp_reasm' \in [Streams -> StoredPacket \cup {None}] /\ released' \in [Streams -> Seq(Units)]
    BY <1>1, <1>3, <2>2, <2>3, <2>4
  <2>9. \A t \in Streams \ {s} : released'[t] = released[t] /\ tcp_reasm'[t] = tcp_reasm[t]
    BY <1>3, <2>2
  <2> QED BY <2>5, <2>6, <2>7, <2>8, <2>9
<1>6. CASE Keep(seg, joined)
  <2> DEFINE pkt == [seq |-> seq, payload |-> joined]
  <2>1. /\ tcp_reasm' = [tcp_reasm EXCEPT ![s] = pkt]
        /\ released' = released /\ returned' = None
    BY <1>6 DEF Keep
  <2>2. pkt \in StoredPacket /\ pkt # None
    BY <1>2, NoneAssumption DEF StoredPacket
  <2>3. tcp_reasm'[s] = pkt
    BY <1>1, <1>3, <2>1
  <2>4. Stored(s)' = joined
    BY <2>2, <2>3 DEF Stored
  <2> QED BY <1>1, <1>3, <2>1, <2>2, <2>3, <2>4
<1>7. Validate(joined) \in [as : Verdicts, length : 0 .. n]
  BY ValidateLength
<1>8. \/ Release(seg, joined, n, "discarded")
      \/ Release(seg, joined, Validate(joined).length, Validate(joined).as)
      \/ Release(seg, joined, n, Validate(joined).as)
      \/ Keep(seg, joined)
  BY DEF Judge
<1>9. Validate(joined).as \in Verdicts /\ Validate(joined).length \in 0 .. n
  BY <1>7
<1>10. CASE Release(seg, joined, n, "discarded")
  BY <1>4, <1>5, <1>10
<1>11. CASE Release(seg, joined, Validate(joined).length, Validate(joined).as)
  BY <1>5, <1>9, <1>11
<1>12. CASE Release(seg, joined, n, Validate(joined).as)
  BY <1>4, <1>5, <1>9, <1>12
<1> QED BY <1>6, <1>8, <1>10, <1>11, <1>12

LEMMA TcpInit_Inv == TcpInit => TcpInv
<1> SUFFICES ASSUME TcpInit PROVE TcpInv
  OBVIOUS
<1>1. <<>> \in Seq(Units) /\ <<>> \o <<>> = <<>>
  BY EmptySeq, ConcatEmptySeq
<1> QED BY <1>1 DEF TcpInit, TcpInv, TcpTypeOK, StreamConserved, SeqFollows, Stored

LEMMA TcpNext_Inv == TcpInv /\ [TcpNext]_tcpVars => TcpInv'
<1> SUFFICES ASSUME TcpInv, [TcpNext]_tcpVars PROVE TcpInv'
  OBVIOUS
<1> USE DEF TcpInv
<1>1. CASE UNCHANGED tcpVars
  BY <1>1 DEF tcpVars, TcpTypeOK, StreamConserved, SeqFollows, Stored
<1>2. ASSUME NEW seg \in Segments, ReasmTcp(seg) PROVE TcpInv'
  <2> DEFINE s == seg.stream
  <2>1. s \in Streams /\ seg.payload \in Seq(Units) /\ seg.seq \in SeqNumbers /\ seg.seq \in Nat
    BY StreamsAssumption DEF Segments
  <2>2. CASE seg.payload = <<>>
    <3>1. /\ UNCHANGED <<tcp_reasm, captured, released, last_seq>>
          /\ returned' = [stream |-> s, payload |-> <<>>, as |-> "empty"]
      BY <1>2, <2>2 DEF ReasmTcp
    <3>2. <<>> \in Seq(Units)
      BY EmptySeq
    <3> QED BY <2>1, <3>1, <3>2 DEF TcpTypeOK, StreamConserved, SeqFollows, Stored
  <2>3. CASE seg.payload # <<>>
    <3> DEFINE joined == Joined(seg)
               rising == last_seq[s] # None /\ last_seq[s] < seg.seq /\ seg.frames = 1
    <3>1. /\ Judge(seg, joined)
          /\ captured' = [captured EXCEPT ![s] = @ \o seg.payload]
          /\ last_seq' = [last_seq EXCEPT ![s] = IF rising THEN seg.seq ELSE None]
      BY <1>2, <2>3 DEF ReasmTcp
    <3>2. joined \in Seq(Units) /\ DecidingSeq(seg) \in SeqNumbers
      BY JoinedType
    <3> HIDE DEF joined
    <3>3. /\ tcp_reasm' \in [Streams -> StoredPacket \cup {None}]
          /\ released' \in [Streams -> Seq(Units)]
          /\ returned' \in [stream : Streams, payload : Seq(Units), as : Verdicts \cup {"empty"}] \cup {None}
          /\ released'[s] \o Stored(s)' = released[s] \o joined
          /\ tcp_reasm'[s] # None =>
               tcp_reasm'[s].seq = IF DecidingSeq(seg) < seg.seq THEN seg.seq ELSE DecidingSeq(seg)
          /\ \A t \in Streams \ {s} : released'[t] = released[t] /\ tcp_reasm'[t] = tcp_reasm[t]
      BY <3>1, <3>2, JudgeConserves
    <3>4. captured[s] \in Seq(Units) /\ released[s] \in Seq(Units) /\ Stored(s) \in Seq(Units)
      BY <2>1, StoredType DEF TcpTypeOK
    <3>5. /\ captured' \in [Streams -> Seq(Units)]
          /\ captured'[s] = captured[s] \o seg.payload
          /\ \A t \in Streams \ {s} : captured'[t] = captured[t]
      <4>1. captured[s] \o seg.payload \in Seq(Units)
        BY <2>1, <3>4, ConcatProperties
      <4> QED BY <2>1, <3>1, <4>1 DEF TcpTypeOK
    <3>6. /\ last_seq' \in [Streams -> Nat \cup {None}]
          /\ last_seq'[s] = IF rising THEN seg.seq ELSE None
          /\ \A t \in Streams \ {s} : last_seq'[t] = last_seq[t]
      BY <2>1, <3>1 DEF TcpTypeOK
    <3> HIDE DEF rising
    <3>7. TcpTypeOK'
      BY <3>3, <3>5, <3>6 DEF TcpTypeOK, StoredPacket
    <3>8. ASSUME last_seq'[s] # None
          PROVE  /\ released'[s] \o Stored(s)' = captured'[s]
                 /\ tcp_reasm'[s] # None => tcp_reasm'[s].seq = last_seq'[s] /\ last_seq'[s] # 0
      <4>1. rising /\ last_seq'[s] = seg.seq
        BY <3>6, <3>8
      <4>2. last_seq[s] \in Nat /\ last_seq[s] # None /\ last_seq[s] < seg.seq /\ seg.frames = 1
        BY <2>1, <4>1 DEF rising, TcpTypeOK
      <4>3. joined = Stored(s) \o seg.payload
        BY <4>2, JoinedInOrder DEF joined
      <4>4. released[s] \o Stored(s) = captured[s]
        BY <2>1, <4>2 DEF StreamConserved
      <4>5. released[s] \o (Stored(s) \o seg.payload) = (released[s] \o Stored(s)) \o seg.payload
        BY <2>1, <3>4, Associative, Zenon
      <4>6. (IF DecidingSeq(seg) < seg.seq THEN seg.seq ELSE DecidingSeq(seg)) = seg.seq
        <5>1. DecidingSeq(seg) \in {seg.seq, last_seq[s]}
          BY <2>1, <4>2 DEF DecidingSeq, SeqFollows
        <5> QED BY <2>1, <4>2, <5>1
      <4>7. seg.seq # 0
        BY <2>1, <4>2
      <4> QED BY <3>3, <3>5, <4>1, <4>3, <4>4, <4>5, <4>6, <4>7
    <3>9. \A t \in Streams \ {s} : Stored(t)' = Stored(t)
      BY <3>3 DEF Stored
    <3>10. StreamConserved'
      <4> SUFFICES ASSUME NEW t \in Streams, last_seq'[t] # None
                   PROVE  released'[t] \o Stored(t)' = captured'[t]
        BY DEF StreamConserved
      <4>1. CASE t = s
        BY <3>8, <4>1
      <4>2. CASE t # s
        <5>1. /\ released'[t] = released[t] /\ captured'[t] = captured[t]
              /\ last_seq'[t] = last_seq[t] /\ Stored(t)' = Stored(t)
          BY <3>3, <3>5, <3>6, <3>9, <4>2
        <5> QED BY <5>1 DEF StreamConserved
      <4> QED BY <4>1, <4>2
    <3>11. SeqFollows'
      <4> SUFFICES ASSUME NEW t \in Streams, last_seq'[t] # None, tcp_reasm'[t] # None
                   PROVE  tcp_reasm'[t].seq = last_seq'[t] /\ last_seq'[t] # 0
        BY DEF SeqFollows
      <4>1. CASE t = s
        BY <3>8, <4>1
      <4>2. CASE t # s
        BY <3>3, <3>6, <4>2 DEF SeqFollows
      <4> QED BY <4>1, <4>2
    <3> QED BY <3>7, <3>10, <3>11
  <2> QED BY <2>2, <2>3
<1> HIDE DEF TcpInv
<1> QED BY <1>1, <1>2 DEF TcpNext

\* The packets that capture_packet_reasm_tcp keeps stay well formed, for
\* segments of any stream, number, length and order.
THEOREM TcpTypeCorrect == TcpSpec => []TcpTypeOK
<1>1. TcpInv => TcpTypeOK
  BY DEF TcpInv
<1> QED BY <1>1, TcpInit_Inv, TcpNext_Inv, PTL DEF TcpSpec

\* Nothing is lost, repeated or reordered in a stream whose sequence numbers
\* rise and whose segments come in one frame each, wherever they were cut,
\* whatever was pushed, and whatever happens in other streams.
THEOREM Conserved == TcpSpec => []StreamConserved
<1>1. TcpInv => StreamConserved
  BY DEF TcpInv
<1> QED BY <1>1, TcpInit_Inv, TcpNext_Inv, PTL DEF TcpSpec

-----------------------------------------------------------------------------
(* Whole messages *)

\* The units u are those of messages that follow one another without gaps.
Flow(u) ==
  /\ \A i \in 1 .. Len(u) : u[i] \in MessageUnits
  /\ \A i \in 1 .. Len(u) - 1 :
       IF u[i].part = Parts[u[i].msg] THEN u[i + 1].part = 1
       ELSE u[i + 1] = [u[i] EXCEPT !.part = @ + 1]

LEMMA FlowSuffix ==
  ASSUME NEW a \in Seq(Units), NEW b \in Seq(Units), Flow(a \o b)
  PROVE  Flow(b)
<1> DEFINE u == a \o b
           n == Len(a)
<1>1. /\ u \in Seq(Units) /\ Len(u) = n + Len(b) /\ n \in Nat /\ Len(b) \in Nat
      /\ \A i \in 1 .. Len(b) : u[n + i] = b[i]
  OBVIOUS
<1>2. \A i \in 1 .. Len(b) : n + i \in 1 .. Len(u)
  BY <1>1
<1>3. \A i \in 1 .. Len(b) - 1 :
        /\ n + i \in 1 .. Len(u) - 1 /\ n + (i + 1) = (n + i) + 1
        /\ i \in 1 .. Len(b) /\ i + 1 \in 1 .. Len(b)
  BY <1>1
<1> HIDE DEF u, n
<1>4. Flow(u)
  BY DEF u
<1>5. \A i \in 1 .. Len(b) : b[i] \in MessageUnits
  BY <1>1, <1>2, <1>4 DEF Flow
<1>6. ASSUME NEW i \in 1 .. Len(b) - 1
      PROVE  IF b[i].part = Parts[b[i].msg] THEN b[i + 1].part = 1
             ELSE b[i + 1] = [b[i] EXCEPT !.part = @ + 1]
  <2>1. u[n + i] = b[i] /\ u[(n + i) + 1] = b[i + 1] /\ n + i \in 1 .. Len(u) - 1
    BY <1>1, <1>3
  <2> QED BY <1>4, <2>1 DEF Flow
<1> QED BY <1>5, <1>6 DEF Flow

\* From the first unit of a message on, its units are in their places.
LEMMA FlowMessage ==
  ASSUME NEW p \in Seq(Units), Flow(p), p # <<>>, p[1].part = 1
  PROVE  /\ p[1].msg \in Messages
         /\ \A i \in 1 .. Len(p) : i <= Parts[p[1].msg] => p[i] = [msg |-> p[1].msg, part |-> i]
<1> DEFINE m == p[1].msg
           n == Len(p)
           G == {i \in 0 .. n : 1 <= i /\ i <= Parts[m] => p[i] = [msg |-> m, part |-> i]}
<1>1. n \in Nat /\ 1 \in 1 .. n
  OBVIOUS
<1>2. p[1] \in MessageUnits
  BY <1>1 DEF Flow
<1>3. m \in Messages /\ p[1] = [msg |-> m, part |-> 1]
  BY <1>2 DEF MessageUnits
<1>4. Parts[m] \in Nat
  BY <1>3, PayloadAssumption
<1> HIDE DEF m, n
<1>5. 0 \in G
  BY <1>1
<1>6. ASSUME NEW i \in 1 .. n, i - 1 \in G PROVE i \in G
  <2>1. CASE i = 1
    BY <1>3, <2>1
  <2>2. CASE i # 1 /\ i <= Parts[m]
    <3>1. i - 1 \in 1 .. n - 1 /\ (i - 1) + 1 = i /\ i - 1 <= Parts[m] /\ 1 <= i - 1 /\ i - 1 # Parts[m]
      BY <1>1, <1>4, <2>2
    <3>2. p[i - 1] = [msg |-> m, part |-> i - 1]
      BY <1>6, <3>1
    <3>3. p[i - 1].part # Parts[p[i - 1].msg] /\ p[i - 1].part + 1 = i
      BY <3>1, <3>2
    <3>4. p[i] = [p[i - 1] EXCEPT !.part = i]
      BY <3>1, <3>3 DEF Flow, n
    <3>5. p[i] = [msg |-> m, part |-> i]
      BY <3>2, <3>4
    <3> QED BY <3>5
  <2>3. CASE i # 1 /\ ~(i <= Parts[m])
    BY <2>3
  <2> QED BY <2>1, <2>2, <2>3
<1>7. \A i \in 0 .. n : i \in G
  <2> HIDE DEF G
  <2> QED BY <1>1, <1>5, <1>6, UpTo
<1>8. \A i \in 1 .. n : i <= Parts[m] => p[i] = [msg |-> m, part |-> i]
  BY <1>7
<1> QED BY <1>3, <1>8 DEF m, n

\* In a flow, sip_validate_packet finds the first message whole or not at all.
LEMMA ValidateWhole ==
  ASSUME NEW p \in Seq(Units), Flow(p), Validate(p).as \in {"complete", "multiple"}
  PROVE  \E m \in Messages : SubSeq(p, 1, Validate(p).length) = Whole(m)
<1> DEFINE h == CHOOSE i \in HeadersEnd(p) : TRUE
           content == Parts[p[h].msg] - 2
           body == Len(p) - h
           m == p[1].msg
<1>1. Text(p) = p
  <2> DEFINE nul == First(p, LAMBDA u : u = Zero)
  <2>1. nul = {}
    <3> SUFFICES ASSUME NEW i \in nul PROVE FALSE
      OBVIOUS
    <3>1. i \in 1 .. Len(p) /\ p[i] = Zero
      BY DEF First
    <3>2. p[i] \in MessageUnits
      BY <3>1 DEF Flow
    <3> QED BY <3>1, <3>2, UnitsAssumption
  <2> QED BY <2>1 DEF Text
<1>2. /\ p # <<>> /\ IsPart(p[1], 1) /\ HeadersEnd(p) # {} /\ ~(content > body)
      /\ \/ content = body /\ Validate(p).length = Len(p)
         \/ Validate(p).length = h + content
  <2>1. Validate(p) =
          IF p = <<>> \/ Len(p) > MaxSipPayload THEN Verdict("not_sip", 0)
          ELSE IF ~IsPart(p[1], 1) THEN Verdict("not_sip", 0)
          ELSE IF HeadersEnd(p) = {} \/ content > body THEN Verdict("partial", 0)
          ELSE IF content = body THEN Verdict("complete", Len(p))
          ELSE IF EndsLine(p[h + content]) THEN Verdict("multiple", h + content)
          ELSE Verdict("not_sip", 0)
    BY <1>1 DEF Validate
  <2> HIDE DEF h, content, body
  <2>2. \A n : Verdict("not_sip", n).as \notin {"complete", "multiple"} /\ Verdict("partial", n).as \notin {"complete", "multiple"}
    BY DEF Verdict
  <2>3. \A n : Verdict("complete", n).length = n /\ Verdict("multiple", n).length = n
    BY DEF Verdict
  <2> QED BY <2>1, <2>2, <2>3
<1>3. h \in 1 .. Len(p) /\ IsPart(p[h], 2) /\ \A j \in 1 .. h - 1 : ~IsPart(p[j], 2)
  <2>1. h \in HeadersEnd(p)
    BY <1>2
  <2> HIDE DEF h
  <2> QED BY <2>1 DEF HeadersEnd, First
<1>4. p[1].part = 1
  BY <1>2 DEF IsPart
<1>5. m \in Messages /\ \A i \in 1 .. Len(p) : i <= Parts[m] => p[i] = [msg |-> m, part |-> i]
  BY <1>2, <1>4, FlowMessage
<1>6. Parts[m] \in Nat \ {0, 1}
  BY <1>5, PayloadAssumption
<1> HIDE DEF m, h
<1>7. h = 2 /\ p[2] = [msg |-> m, part |-> 2]
  <2>1. h # 1
    BY <1>3, <1>4 DEF IsPart
  <2>2. 2 \in 1 .. Len(p) /\ 2 <= Parts[m]
    BY <1>3, <1>6, <2>1
  <2>3. p[2] = [msg |-> m, part |-> 2]
    BY <1>5, <2>2
  <2>4. IsPart(p[2], 2)
    BY <2>2, <2>3 DEF IsPart, Flow
  <2>5. ~(2 \in 1 .. h - 1)
    BY <1>3, <2>4
  <2> QED BY <1>3, <2>1, <2>3, <2>5
<1>8. content = Parts[m] - 2 /\ body = Len(p) - 2
  BY <1>7
<1>9. Validate(p).length = Parts[m] /\ Parts[m] <= Len(p)
  BY <1>2, <1>6, <1>7, <1>8
<1>10. SubSeq(p, 1, Parts[m]) = Whole(m)
  <2>1. /\ SubSeq(p, 1, Parts[m]) \in Seq(Units) /\ Len(SubSeq(p, 1, Parts[m])) = Parts[m]
        /\ \A i \in 1 .. Parts[m] : SubSeq(p, 1, Parts[m])[i] = p[i]
    BY <1>6, <1>9
  <2>2. \A i \in 1 .. Parts[m] : p[i] = [msg |-> m, part |-> i]
    BY <1>5, <1>6, <1>9
  <2>3. SubSeq(p, 1, Parts[m]) = [i \in 1 .. Parts[m] |-> SubSeq(p, 1, Parts[m])[i]]
    BY <1>6, <2>1
  <2> QED BY <2>1, <2>2, <2>3 DEF Whole
<1> QED BY <1>5, <1>9, <1>10

\* What is returned as SIP is what sip_validate_packet found.
LEMMA ReturnedFound ==
  ASSUME NEW seg \in Segments, NEW joined \in Seq(Units), Judge(seg, joined),
         returned' # None, returned'.as \in {"complete", "multiple"}
  PROVE  /\ Validate(joined).as \in {"complete", "multiple"}
         /\ returned'.stream = seg.stream
         /\ returned'.payload = SubSeq(joined, 1, Validate(joined).length)
<1> DEFINE v == Validate(joined)
<1>1. \A n, as : Release(seg, joined, n, as) =>
        \/ returned' = None
        \/ returned' = [stream |-> seg.stream, payload |-> SubSeq(joined, 1, n), as |-> as]
  BY DEF Release
<1>2. Keep(seg, joined) => returned' = None
  BY DEF Keep
<1>3. Release(seg, joined, Len(joined), "discarded") => returned' = None
  BY DEF Release
<1>4. \/ v.as \in {"complete", "multiple"} /\ Release(seg, joined, v.length, v.as)
      \/ v.as = "not_sip" /\ Release(seg, joined, Len(joined), v.as)
  BY <1>2, <1>3 DEF Judge
<1> HIDE DEF v
<1>5. CASE v.as \in {"complete", "multiple"} /\ Release(seg, joined, v.length, v.as)
  <2>1. returned' = [stream |-> seg.stream, payload |-> SubSeq(joined, 1, v.length), as |-> v.as]
    BY <1>1, <1>5
  <2> QED BY <1>5, <2>1 DEF v
<1>6. CASE v.as = "not_sip" /\ Release(seg, joined, Len(joined), v.as)
  <2>1. returned' = [stream |-> seg.stream, payload |-> SubSeq(joined, 1, Len(joined)), as |-> v.as]
    BY <1>1, <1>6
  <2>2. returned'.as = "not_sip"
    BY <1>6, <2>1
  <2> QED BY <2>2
<1> QED BY <1>4, <1>5, <1>6

LEMMA TcpNext_OneMessage == TcpInv /\ OneMessageEach /\ [TcpNext]_tcpVars => OneMessageEach'
<1> SUFFICES ASSUME TcpInv, OneMessageEach, [TcpNext]_tcpVars PROVE OneMessageEach'
  OBVIOUS
<1>1. CASE UNCHANGED tcpVars
  BY <1>1 DEF tcpVars, OneMessageEach
<1>2. ASSUME NEW seg \in Segments, ReasmTcp(seg) PROVE OneMessageEach'
  <2> DEFINE s == returned'.stream
  <2> SUFFICES ASSUME returned' # None, returned'.as \in {"complete", "multiple"},
                      last_seq'[s] # None, Flow(captured'[s])
               PROVE  \E m \in Messages : returned'.payload = Whole(m)
    BY DEF OneMessageEach, Flow
  <2>1. CASE seg.payload = <<>>
    <3>1. returned' = [stream |-> seg.stream, payload |-> <<>>, as |-> "empty"]
      BY <1>2, <2>1 DEF ReasmTcp
    <3>2. returned'.as = "empty"
      BY <3>1
    <3> QED BY <3>2
  <2>2. CASE seg.payload # <<>>
    <3> DEFINE joined == Joined(seg)
               c == seg.stream
    <3>1. /\ Judge(seg, joined)
          /\ captured' = [captured EXCEPT ![c] = @ \o seg.payload]
          /\ last_seq' = [last_seq EXCEPT ![c] =
                            IF @ # None /\ @ < seg.seq /\ seg.frames = 1 THEN seg.seq ELSE None]
      BY <1>2, <2>2 DEF ReasmTcp
    <3>2. joined \in Seq(Units)
      BY JoinedType DEF TcpInv
    <3>3. c \in Streams /\ seg.payload \in Seq(Units)
      BY DEF Segments
    <3> HIDE DEF joined
    <3>4. /\ Validate(joined).as \in {"complete", "multiple"} /\ s = c
          /\ returned'.payload = SubSeq(joined, 1, Validate(joined).length)
      BY <3>1, <3>2, ReturnedFound
    <3>5. last_seq'[c] # None /\ Flow(captured'[c])
      BY <3>4
    <3>6. last_seq[c] # None /\ last_seq[c] < seg.seq /\ seg.frames = 1
      BY <3>1, <3>3, <3>5 DEF TcpInv, TcpTypeOK
    <3>7. joined = Stored(c) \o seg.payload
      BY <3>6, JoinedInOrder DEF joined
    <3>8. captured'[c] = captured[c] \o seg.payload /\ captured[c] = released[c] \o Stored(c)
      BY <3>1, <3>3, <3>6 DEF TcpInv, TcpTypeOK, StreamConserved
    <3>9. released[c] \in Seq(Units) /\ Stored(c) \in Seq(Units)
      BY <3>3, StoredType DEF TcpInv, TcpTypeOK
    <3>10. captured'[c] = released[c] \o joined
      <4>1. (released[c] \o Stored(c)) \o seg.payload = released[c] \o (Stored(c) \o seg.payload)
        BY <3>3, <3>9, Associative, Zenon
      <4> QED BY <3>7, <3>8, <4>1
    <3>11. Flow(joined)
      BY <3>2, <3>5, <3>9, <3>10, FlowSuffix
    <3> QED BY <3>2, <3>4, <3>11, ValidateWhole
  <2> QED BY <2>1, <2>2
<1> QED BY <1>1, <1>2 DEF TcpNext

LEMMA TcpInit_OneMessage == TcpInit => OneMessageEach
BY DEF TcpInit, OneMessageEach

\* What is returned as a SIP message is one whole message, wherever the
\* segments of a stream without gaps were cut, whatever was pushed and
\* discarded before, and whatever happens in other streams.
THEOREM WholeMessages == TcpSpec => []OneMessageEach
BY TcpInit_Inv, TcpNext_Inv, TcpInit_OneMessage, TcpNext_OneMessage, PTL DEF TcpSpec

-----------------------------------------------------------------------------
(* Fragments *)

\* Every packet and every frame of it is well formed.
LEMMA PacketOfType ==
  ASSUME IpTypeOK, NEW f \in Frames
  PROVE  /\ PacketOf(f) \in Packets
         /\ \A i \in 1 .. Len(PacketOf(f).frames) :
              Key[PacketOf(f).frames[i].dgram] = Key[f.dgram]
<1> DEFINE k == Key[f.dgram]
           new == [frames |-> <<>>, cap_len |-> 0, exp_len |-> 0]
<1>1. k \in Keys
  BY FramesAssumption DEF Keys
<1>2. new \in Packets /\ Len(new.frames) = 0
  BY EmptySeq DEF Packets
<1>3. CASE ip_reasm[k] = None
  BY <1>2, <1>3 DEF PacketOf
<1>4. CASE ip_reasm[k] # None
  <2>1. ip_reasm[k] \in Packets
    BY <1>1, <1>4 DEF IpTypeOK
  <2> QED BY <1>1, <1>4, <2>1 DEF PacketOf, IpTypeOK
<1> QED BY <1>3, <1>4

LEMMA WithFragmentType ==
  ASSUME IpTypeOK, NEW f \in Frames
  PROVE  /\ WithFragment(f) \in Packets
         /\ WithFragment(f).frames # <<>>
         /\ WithFragment(f).cap_len # 0
         /\ \A i \in 1 .. Len(WithFragment(f).frames) :
              Key[WithFragment(f).frames[i].dgram] = Key[f.dgram]
<1> DEFINE pkt == PacketOf(f)
           fr == Append(pkt.frames, f)
<1>1. pkt \in Packets /\ \A i \in 1 .. Len(pkt.frames) : Key[pkt.frames[i].dgram] = Key[f.dgram]
  BY PacketOfType
<1>2. pkt.frames \in Seq(Frames) /\ pkt.cap_len \in Nat /\ pkt.exp_len \in Nat
  BY <1>1 DEF Packets
<1>3. f.len \in Nat \ {0} /\ f.off \in Nat
  BY FramesAssumption
<1>4. WithFragment(f) = [frames |-> fr, cap_len |-> pkt.cap_len + f.len,
                         exp_len |-> IF f.mf THEN pkt.exp_len ELSE f.off + f.len]
  BY DEF WithFragment
<1> HIDE DEF pkt
<1>5. fr \in Seq(Frames) /\ fr # <<>> /\ Len(fr) = Len(pkt.frames) + 1
  BY <1>2, AppendProperties
<1>6. \A i \in 1 .. Len(fr) : Key[fr[i].dgram] = Key[f.dgram]
  BY <1>1, <1>2, <1>5
<1>7. pkt.cap_len + f.len \in Nat /\ pkt.cap_len + f.len # 0
      /\ (IF f.mf THEN pkt.exp_len ELSE f.off + f.len) \in Nat
  BY <1>2, <1>3
<1> HIDE DEF fr
<1> QED BY <1>4, <1>5, <1>6, <1>7 DEF Packets

\* What a packet that IP reassembly returns can look like.
IsPacket(pkt) ==
  /\ pkt.frames \in Seq(Frames) /\ pkt.frames # <<>>
  /\ pkt.content \in Seq(Units \cup Datagrams) /\ pkt.content # <<>>
  /\ \A p \in 2 .. Len(pkt.content) : pkt.content[p] \in Units

LEMMA AssembleType ==
  ASSUME NEW pkt \in Packets, pkt.frames # <<>>, pkt.cap_len # 0
  PROVE  /\ Assemble(pkt) \in Seq(Units \cup Datagrams) /\ Assemble(pkt) # <<>>
         /\ \A p \in 2 .. Len(Assemble(pkt)) : Assemble(pkt)[p] \in Units
<1> DEFINE n == LenData(pkt)
<1>1. n \in Nat /\ n # 0
  <2>1. pkt.cap_len \in Nat /\ Len(pkt.frames) \in Nat
    BY DEF Packets
  <2> QED BY <2>1 DEF LenData
<1>2. ASSUME NEW p \in 1 .. n
      PROVE  /\ Assemble(pkt)[p] \in Units \cup Datagrams
             /\ p # 1 => Assemble(pkt)[p] \in Units
  <2> DEFINE i == CHOOSE i \in LastWriter(pkt, p) : TRUE
             f == pkt.frames[i]
  <2>1. Assemble(pkt)[p] =
          IF LastWriter(pkt, p) = {}
          THEN IF p > pkt.cap_len + Len(pkt.frames) - 1 THEN Junk ELSE Zero
          ELSE IF p > f.off + f.len THEN Junk ELSE Content[f.dgram][p]
    BY DEF Assemble
  <2>2. ASSUME LastWriter(pkt, p) # {}, ~(p > f.off + f.len)
        PROVE  /\ Content[f.dgram][p] \in Units \cup Datagrams
               /\ p # 1 => Content[f.dgram][p] \in Units
    <3>1. i \in LastWriter(pkt, p)
      BY <2>2
    <3>2. i \in 1 .. Len(pkt.frames)
      BY <3>1 DEF LastWriter
    <3>3. f \in Frames
      BY <3>2 DEF Packets
    <3> HIDE DEF f, i
    <3>4. /\ f.dgram \in Datagrams /\ f.off \in Nat /\ f.len \in Nat
          /\ f.off + f.len <= Len(Content[f.dgram])
      BY <3>3, FramesAssumption
    <3>5. p \in 1 .. Len(Content[f.dgram])
      BY <1>1, <2>2, <3>4, TransportAssumption
    <3> QED BY <3>4, <3>5, TransportAssumption
  <2> HIDE DEF f, i
  <2> QED BY <2>1, <2>2 DEF Units
<1>3. Assemble(pkt) = [p \in 1 .. n |-> Assemble(pkt)[p]]
  BY DEF Assemble
<1> HIDE DEF n
<1>4. Assemble(pkt) \in Seq(Units \cup Datagrams) /\ Len(Assemble(pkt)) = n
  BY <1>1, <1>2, <1>3, IsASeq
<1> QED BY <1>1, <1>2, <1>4

LEMMA ReassembledType ==
  ASSUME IpTypeOK, NEW f \in Frames, ReassembledBy(f) # None
  PROVE  IsPacket(ReassembledBy(f))
<1>1. f.dgram \in Datagrams
  BY FramesAssumption
<1>2. CASE ~IsFragment(f)
  <2>1. ReassembledBy(f) = [frames |-> <<f>>, content |-> Content[f.dgram]]
    BY <1>2 DEF ReassembledBy
  <2>2. <<f>> \in Seq(Frames) /\ <<f>> # <<>>
    OBVIOUS
  <2> QED BY <1>1, <2>1, <2>2, TransportAssumption DEF IsPacket
<1>3. CASE IsFragment(f)
  <2> DEFINE pkt == WithFragment(f)
  <2>1. ReassembledBy(f) = [frames |-> pkt.frames, content |-> Assemble(pkt)]
    BY <1>3 DEF ReassembledBy
  <2>2. pkt \in Packets /\ pkt.frames # <<>> /\ pkt.cap_len # 0
    BY WithFragmentType
  <2> HIDE DEF pkt
  <2>3. pkt.frames \in Seq(Frames)
    BY <2>2 DEF Packets
  <2> QED BY <2>1, <2>2, <2>3, AssembleType DEF IsPacket
<1> QED BY <1>2, <1>3

\* What goes on to TCP reassembly is a segment.
LEMMA SegmentType ==
  ASSUME NEW pkt, IsPacket(pkt)
  PROVE  Segment(pkt) \in Segments
<1>1. Len(pkt.frames) \in Nat \ {0}
  BY DEF IsPacket
<1>2. CASE pkt.content[1] \in Datagrams
  <2> DEFINE h == Header[pkt.content[1]]
             tail == Tail(pkt.content)
  <2>1. h.stream \in Streams /\ h.seq \in SeqNumbers /\ h.push \in BOOLEAN
    BY <1>2, TransportAssumption
  <2>2. tail \in Seq(Units)
    <3>1. /\ Len(tail) = Len(pkt.content) - 1 /\ Len(tail) \in Nat
          /\ \A i \in 1 .. Len(tail) : tail[i] = pkt.content[i + 1]
          /\ tail = [i \in 1 .. Len(tail) |-> tail[i]]
      BY HeadTailProperties DEF IsPacket
    <3> HIDE DEF tail
    <3>2. \A i \in 1 .. Len(tail) : i + 1 \in 2 .. Len(pkt.content)
      BY <3>1 DEF IsPacket
    <3>3. \A i \in 1 .. Len(tail) : tail[i] \in Units
      BY <3>1, <3>2 DEF IsPacket
    <3> QED BY <3>1, <3>3, IsASeq
  <2>3. Segment(pkt) = [stream |-> h.stream, seq |-> h.seq, push |-> h.push,
                        payload |-> tail, frames |-> Len(pkt.frames)]
    BY <1>2 DEF Segment
  <2> HIDE DEF h, tail
  <2> QED BY <1>1, <2>1, <2>2, <2>3 DEF Segments
<1>3. CASE pkt.content[1] \notin Datagrams
  <2>1. pkt.content[1] \in Units /\ Len(pkt.content) \in Nat
    BY <1>3 DEF IsPacket
  <2>2. \A i \in 1 .. Len(pkt.content) : pkt.content[i] \in Units
    BY <2>1 DEF IsPacket
  <2>3. pkt.content = [i \in 1 .. Len(pkt.content) |-> pkt.content[i]]
    BY DEF IsPacket
  <2>4. pkt.content \in Seq(Units)
    BY <2>1, <2>2, <2>3, IsASeq
  <2>5. Segment(pkt) = [stream |-> NoPorts, seq |-> 0, push |-> FALSE,
                        payload |-> pkt.content, frames |-> Len(pkt.frames)]
    BY <1>3 DEF Segment
  <2> QED BY <1>1, <2>4, <2>5, TransportAssumption DEF Segments
<1> QED BY <1>2, <1>3

LEMMA IpInit_TypeOK == Init => IpTypeOK
BY DEF Init, IpInit, IpTypeOK

LEMMA IpNext_TypeOK == IpTypeOK /\ [Next]_vars => IpTypeOK'
<1> SUFFICES ASSUME IpTypeOK, [Next]_vars PROVE IpTypeOK'
  OBVIOUS
<1>1. CASE UNCHANGED vars
  BY <1>1 DEF vars, ipVars, IpTypeOK
<1>2. ASSUME NEW f \in Frames, ReasmIp(f) PROVE IpTypeOK'
  <2> DEFINE k == Key[f.dgram]
             pkt == WithFragment(f)
  <2>1. k \in Keys
    BY FramesAssumption DEF Keys
  <2>2. /\ pkt \in Packets /\ pkt.frames # <<>>
        /\ \A i \in 1 .. Len(pkt.frames) : Key[pkt.frames[i].dgram] = k
    BY WithFragmentType
  <2>3. \/ ip_reasm' = ip_reasm
        \/ ip_reasm' = [ip_reasm EXCEPT ![k] = pkt]
        \/ ip_reasm' = [ip_reasm EXCEPT ![k] = None]
    BY <1>2 DEF ReasmIp
  <2> HIDE DEF pkt, k
  <2> QED BY <2>1, <2>2, <2>3 DEF IpTypeOK
<1>3. CASE Next
  BY <1>2, <1>3 DEF Next, ParsePacket
<1> QED BY <1>1, <1>3

LEMMA Next_Tcp == IpTypeOK /\ [Next]_vars => [TcpNext]_tcpVars
<1> SUFFICES ASSUME IpTypeOK, [Next]_vars PROVE [TcpNext]_tcpVars
  OBVIOUS
<1>1. CASE UNCHANGED vars
  BY <1>1 DEF vars
<1>2. ASSUME NEW f \in Frames, ParsePacket(f) PROVE [TcpNext]_tcpVars
  <2> DEFINE pkt == ReassembledBy(f)
  <2>1. CASE pkt # None /\ ReasmTcp(Segment(pkt))
    <3>1. Segment(pkt) \in Segments
      BY <2>1, ReassembledType, SegmentType
    <3> QED BY <2>1, <3>1 DEF TcpNext
  <2>2. CASE UNCHANGED tcpVars
    BY <2>2
  <2> QED BY <1>2, <2>1, <2>2 DEF ParsePacket
<1> QED BY <1>1, <1>2 DEF Next

\* The packets kept in ip_reasm are well formed, and found under their key.
THEOREM IpTypeCorrect == Spec => []IpTypeOK
BY IpInit_TypeOK, IpNext_TypeOK, PTL DEF Spec

\* parse_packet uses TCP reassembly as TcpReassembly allows: whatever fragments
\* are captured, in any order, lost or repeated, what reaches it is a segment.
THEOREM ImplementsTcp == Spec => TcpSpec
<1>1. Init => TcpInit
  BY DEF Init
<1> QED BY <1>1, IpInit_TypeOK, IpNext_TypeOK, Next_Tcp, PTL DEF Spec, TcpSpec

\* Nothing of a stream whose segments come in order and unfragmented is lost,
\* repeated or reordered, from the frame captured to the payload handed on.
THEOREM CaptureConserves == Spec => []StreamConserved
BY ImplementsTcp, Conserved, PTL

\* And what parse_packet hands on as a SIP message of such a stream is whole.
THEOREM CaptureWhole == Spec => []OneMessageEach
BY ImplementsTcp, WholeMessages, PTL

-----------------------------------------------------------------------------
(* What is put together *)

\* The frames are fragments of datagram d, none of them twice.
OneDatagram(fr, d) == IsInjective(fr) /\ \A i \in 1 .. Len(fr) : fr[i].dgram = d

\* The units of its datagram that fragment f carries, and those of all frames.
UnitsOf(f) == f.off + 1 .. f.off + f.len
Covered(fr) == UNION {UnitsOf(fr[i]) : i \in 1 .. Len(fr)}

\* The counts of capture_packet_reasm_ip are right, as long as the frames are
\* fragments of one datagram: how many units have come, and how many there are
\* once the last fragment has come.
Counted(pkt) ==
  \A d \in Datagrams : OneDatagram(pkt.frames, d) =>
    /\ IsFiniteSet(Covered(pkt.frames))
    /\ pkt.cap_len = Cardinality(Covered(pkt.frames))
    /\ pkt.exp_len = IF \A i \in 1 .. Len(pkt.frames) : pkt.frames[i].mf THEN 0
                     ELSE Len(Content[d])

\* So they are in ip_reasm, where a packet whose counts agree is too long.
CountInv ==
  \A k \in Keys : ip_reasm[k] # None =>
    /\ Counted(ip_reasm[k])
    /\ ip_reasm[k].cap_len = ip_reasm[k].exp_len => LenData(ip_reasm[k]) > MaxCaptureLen

LEMMA FrameFacts ==
  ASSUME NEW f \in Frames
  PROVE  /\ f.dgram \in Datagrams /\ f.off \in Nat /\ f.len \in Nat \ {0} /\ f.mf \in BOOLEAN
         /\ f.off + f.len <= Len(Content[f.dgram]) /\ Len(Content[f.dgram]) \in Nat
         /\ UnitsOf(f) \subseteq 1 .. Len(Content[f.dgram])
         /\ IsFiniteSet(UnitsOf(f)) /\ Cardinality(UnitsOf(f)) = f.len
<1>1. /\ f.dgram \in Datagrams /\ f.off \in Nat /\ f.len \in Nat \ {0} /\ f.mf \in BOOLEAN
      /\ f.off + f.len <= Len(Content[f.dgram])
  BY FramesAssumption
<1>2. Len(Content[f.dgram]) \in Nat
  BY <1>1, TransportAssumption
<1>3. UnitsOf(f) \subseteq 1 .. Len(Content[f.dgram])
  BY <1>1, <1>2 DEF UnitsOf
<1>4. f.off + 1 \in Int /\ f.off + f.len \in Int /\ ~(f.off + 1 > f.off + f.len)
      /\ (f.off + f.len) - (f.off + 1) + 1 = f.len
  BY <1>1
<1>5. IsFiniteSet(UnitsOf(f)) /\ Cardinality(UnitsOf(f)) = f.len
  BY <1>4, FS_Interval DEF UnitsOf
<1> QED BY <1>1, <1>2, <1>3, <1>5

\* Two fragments of a datagram have no unit in common.
LEMMA FragmentsDisjoint ==
  ASSUME NEW f \in Frames, NEW g \in Frames, f.dgram = g.dgram, f # g
  PROVE  UnitsOf(f) \cap UnitsOf(g) = {}
<1>1. f.off \in Nat /\ f.len \in Nat /\ g.off \in Nat /\ g.len \in Nat
  BY FrameFacts
<1>2. f.off + f.len <= g.off \/ g.off + g.len <= f.off
  BY TilingAssumption
<1> QED BY <1>1, <1>2 DEF UnitsOf

\* One more fragment.
LEMMA CountedAppend ==
  ASSUME NEW pkt \in Packets, Counted(pkt), NEW f \in Frames
  PROVE  Counted([frames  |-> Append(pkt.frames, f), cap_len |-> pkt.cap_len + f.len,
                  exp_len |-> IF f.mf THEN pkt.exp_len ELSE f.off + f.len])
<1> DEFINE old == pkt.frames
           fr == Append(old, f)
           new == [frames |-> fr, cap_len |-> pkt.cap_len + f.len,
                   exp_len |-> IF f.mf THEN pkt.exp_len ELSE f.off + f.len]
<1>1. old \in Seq(Frames) /\ pkt.cap_len \in Nat /\ pkt.exp_len \in Nat
  BY DEF Packets
<1> HIDE DEF old
<1>2. /\ fr \in Seq(Frames) /\ Len(fr) = Len(old) + 1 /\ fr[Len(old) + 1] = f
      /\ \A i \in 1 .. Len(old) : fr[i] = old[i]
      /\ Len(old) \in Nat
  BY <1>1
<1> HIDE DEF fr
<1> SUFFICES ASSUME NEW d \in Datagrams, OneDatagram(fr, d)
             PROVE  /\ IsFiniteSet(Covered(fr))
                    /\ pkt.cap_len + f.len = Cardinality(Covered(fr))
                    /\ (IF f.mf THEN pkt.exp_len ELSE f.off + f.len) =
                         IF \A i \in 1 .. Len(fr) : fr[i].mf THEN 0 ELSE Len(Content[d])
  BY DEF Counted, fr, old
<1>3. OneDatagram(old, d) /\ f.dgram = d /\ \A i \in 1 .. Len(old) : old[i] # f
  <2>1. \A i, j \in 1 .. Len(fr) : fr[i] = fr[j] => i = j
    BY <1>2 DEF OneDatagram, IsInjective
  <2>2. \A i, j \in 1 .. Len(old) : old[i] = old[j] => i = j
    BY <1>2, <2>1
  <2>3. IsInjective(old)
    BY <1>1, <2>2 DEF IsInjective
  <2>4. \A i \in 1 .. Len(old) : old[i] # f
    <3> SUFFICES ASSUME NEW i \in 1 .. Len(old), old[i] = f PROVE FALSE
      OBVIOUS
    <3>1. i \in 1 .. Len(fr) /\ Len(old) + 1 \in 1 .. Len(fr) /\ i # Len(old) + 1
      BY <1>2
    <3> QED BY <1>2, <2>1, <3>1
  <2>5. f.dgram = d /\ \A i \in 1 .. Len(old) : old[i].dgram = d
    <3>1. Len(old) + 1 \in 1 .. Len(fr) /\ \A i \in 1 .. Len(old) : i \in 1 .. Len(fr)
      BY <1>2
    <3> QED BY <1>2, <3>1 DEF OneDatagram
  <2> QED BY <2>3, <2>4, <2>5 DEF OneDatagram
<1>4. /\ IsFiniteSet(Covered(old)) /\ pkt.cap_len = Cardinality(Covered(old))
      /\ pkt.exp_len = IF \A i \in 1 .. Len(old) : old[i].mf THEN 0 ELSE Len(Content[d])
  BY <1>3 DEF Counted, old
<1>5. Covered(fr) = Covered(old) \cup UnitsOf(f)
  <2>1. 1 .. Len(fr) = (1 .. Len(old)) \cup {Len(old) + 1}
    BY <1>2
  <2> QED BY <1>2, <2>1 DEF Covered
<1>6. Covered(old) \cap UnitsOf(f) = {}
  <2> SUFFICES ASSUME NEW i \in 1 .. Len(old) PROVE UnitsOf(old[i]) \cap UnitsOf(f) = {}
    BY DEF Covered
  <2>1. old[i] \in Frames /\ old[i] # f /\ old[i].dgram = f.dgram
    BY <1>1, <1>3 DEF OneDatagram
  <2> QED BY <2>1, FragmentsDisjoint
<1>7. IsFiniteSet(Covered(fr)) /\ Cardinality(Covered(fr)) = pkt.cap_len + f.len
  <2>1. IsFiniteSet(UnitsOf(f)) /\ Cardinality(UnitsOf(f)) = f.len /\ f.len \in Nat
    BY FrameFacts
  <2>2. /\ IsFiniteSet(Covered(old) \cup UnitsOf(f))
        /\ Cardinality(Covered(old) \cup UnitsOf(f)) =
             Cardinality(Covered(old)) + Cardinality(UnitsOf(f)) - Cardinality(Covered(old) \cap UnitsOf(f))
    BY <1>4, <2>1, FS_Union
  <2>3. Cardinality(Covered(old) \cap UnitsOf(f)) = 0
    BY <1>6, FS_EmptySet
  <2> QED BY <1>1, <1>4, <1>5, <2>1, <2>2, <2>3
<1>8. (\A i \in 1 .. Len(fr) : fr[i].mf) <=> f.mf /\ \A i \in 1 .. Len(old) : old[i].mf
  <2>1. 1 .. Len(fr) = (1 .. Len(old)) \cup {Len(old) + 1}
    BY <1>2
  <2> QED BY <1>2, <2>1
<1>9. ~f.mf => f.off + f.len = Len(Content[d])
  BY <1>3, TilingAssumption
<1> QED BY <1>4, <1>7, <1>8, <1>9

\* A packet whose counts agree has every fragment.
LEMMA CountsAgree ==
  ASSUME NEW pkt \in Packets, pkt.frames # <<>>, Counted(pkt), pkt.cap_len # 0,
         pkt.cap_len = pkt.exp_len, NEW d \in Datagrams, OneDatagram(pkt.frames, d)
  PROVE  /\ pkt.cap_len = Len(Content[d])
         /\ Covered(pkt.frames) = 1 .. Len(Content[d])
         /\ Range(pkt.frames) = FragmentsOf(d)
<1> DEFINE fr == pkt.frames
           n == Len(Content[d])
<1>1. fr \in Seq(Frames) /\ n \in Nat
  BY TransportAssumption DEF Packets
<1>2. /\ IsFiniteSet(Covered(fr)) /\ pkt.cap_len = Cardinality(Covered(fr))
      /\ pkt.cap_len = n
  BY DEF Counted
<1> HIDE DEF fr
<1>3. \A i \in 1 .. Len(fr) : fr[i] \in Frames /\ fr[i].dgram = d
  BY <1>1 DEF OneDatagram, fr
<1>4. Covered(fr) \subseteq 1 .. n
  BY <1>3, FrameFacts DEF Covered
<1>5. Covered(fr) = 1 .. n
  <2>1. IsFiniteSet(1 .. n) /\ Cardinality(1 .. n) = n
    <3>1. 1 \in Int /\ n \in Int /\ (IF 1 > n THEN 0 ELSE n - 1 + 1) = n
      BY <1>1
    <3> QED BY <3>1, FS_Interval
  <2> QED BY <1>2, <1>4, <2>1, FS_Subset
<1>6. Range(fr) \subseteq FragmentsOf(d)
  BY <1>1, <1>3 DEF Range, FragmentsOf
<1>7. ASSUME NEW g \in FragmentsOf(d) PROVE g \in Range(fr)
  <2>1. g \in Frames /\ g.dgram = d
    BY DEF FragmentsOf
  <2>2. g.off + 1 \in UnitsOf(g) /\ g.off + 1 \in 1 .. n
    <3>1. g.off \in Nat /\ g.len \in Nat \ {0} /\ UnitsOf(g) \subseteq 1 .. n
      BY <2>1, FrameFacts
    <3>2. g.off + 1 \in UnitsOf(g)
      BY <3>1 DEF UnitsOf
    <3> QED BY <3>1, <3>2
  <2>3. PICK i \in 1 .. Len(fr) : g.off + 1 \in UnitsOf(fr[i])
    BY <1>5, <2>2 DEF Covered
  <2>4. fr[i] = g
    BY <1>3, <2>1, <2>2, <2>3, FragmentsDisjoint
  <2> QED BY <1>1, <2>4 DEF Range
<1> QED BY <1>2, <1>5, <1>6, <1>7 DEF fr

\* Such a packet is put together as it was sent, if it is of IPv4 or its
\* fragments came in the order of their offsets.
LEMMA AssembledRight ==
  ASSUME NEW pkt \in Packets, pkt.frames # <<>>, pkt.cap_len # 0, NEW d \in Datagrams,
         OneDatagram(pkt.frames, d), d \in V6 => InOrder(pkt.frames),
         pkt.cap_len = Len(Content[d]), Covered(pkt.frames) = 1 .. Len(Content[d])
  PROVE  SubSeq(Assemble(pkt), 1, Len(Content[d])) = Content[d]
<1> DEFINE fr == pkt.frames
           n == Len(Content[d])
<1>1. fr \in Seq(Frames) /\ Len(fr) \in Nat /\ n \in Nat /\ Content[d] \in Seq(Units \cup Datagrams)
  BY TransportAssumption DEF Packets
<1>2. \A i \in 1 .. Len(fr) : fr[i] \in Frames /\ fr[i].dgram = d
  BY <1>1 DEF OneDatagram
<1>3. LenData(pkt) \in Nat /\ n <= LenData(pkt)
  <2>1. LenData(pkt) = pkt.cap_len + (IF fr[1].dgram \in V6 THEN Len(fr) ELSE 0)
    BY DEF LenData
  <2>2. pkt.cap_len = n
    OBVIOUS
  <2> HIDE DEF fr, n
  <2>3. LenData(pkt) = n + 0 \/ LenData(pkt) = n + Len(fr)
    BY <2>1, <2>2
  <2> QED BY <1>1, <2>3
<1>4. ASSUME NEW p \in 1 .. n PROVE Assemble(pkt)[p] = Content[d][p]
  <2>1. PICK i \in 1 .. Len(fr) : p \in UnitsOf(fr[i])
    BY DEF Covered
  <2> DEFINE f == fr[i]
             writes(j) == fr[j].off < p /\ p <= fr[j].off + fr[j].len + ExtraUnits(fr[j])
  <2>2. f \in Frames /\ f.dgram = d /\ f.off \in Nat /\ f.len \in Nat \ {0}
    BY <1>2, FrameFacts
  <2>3. f.off < p /\ p <= f.off + f.len
    BY <2>1, <2>2 DEF UnitsOf
  <2>4. writes(i)
    BY <2>2, <2>3 DEF ExtraUnits
  <2>5. ASSUME NEW j \in 1 .. Len(fr), j # i, writes(j) PROVE j < i
    <3> DEFINE g == fr[j]
    <3>1. g \in Frames /\ g.dgram = d /\ g.off \in Nat /\ g.len \in Nat \ {0}
      BY <1>2, FrameFacts
    <3>2. g # f
      BY <1>1, <2>5 DEF OneDatagram, IsInjective
    <3>3. f.off + f.len <= g.off \/ g.off + g.len <= f.off
      BY <2>2, <3>1, <3>2, TilingAssumption
    <3>4. g.off < p /\ p <= g.off + g.len + ExtraUnits(g)
      BY <2>5
    <3>5. d \in V6 /\ g.off < f.off
      <4>1. ExtraUnits(g) = IF d \in V6 THEN 1 ELSE 0
        BY <3>1 DEF ExtraUnits
      <4> HIDE DEF f, g
      <4> QED BY <2>2, <2>3, <3>1, <3>3, <3>4, <4>1
    <3>6. ~(i < j)
      <4> SUFFICES ASSUME i < j PROVE FALSE
        OBVIOUS
      <4>1. f.off < g.off
        BY <3>5 DEF InOrder
      <4> HIDE DEF f, g
      <4> QED BY <2>2, <3>1, <3>5, <4>1
    <3> QED BY <1>1, <2>5, <3>6
  <2>6. LastWriter(pkt, p) = {i}
    <3>1. LastWriter(pkt, p) = {j \in 1 .. Len(fr) : writes(j) /\ \A l \in j + 1 .. Len(fr) : ~writes(l)}
      BY DEF LastWriter
    <3> HIDE DEF writes
    <3>2. \A l \in i + 1 .. Len(fr) : ~writes(l)
      <4>1. \A l \in i + 1 .. Len(fr) : l \in 1 .. Len(fr) /\ l # i /\ ~(l < i)
        BY <1>1
      <4> QED BY <2>5, <4>1
    <3>3. \A j \in 1 .. Len(fr) : j # i /\ writes(j) => i \in j + 1 .. Len(fr)
      <4>1. \A j \in 1 .. Len(fr) : j < i => i \in j + 1 .. Len(fr)
        BY <1>1
      <4> QED BY <2>5, <4>1
    <3> QED BY <2>4, <3>1, <3>2, <3>3
  <2>7. (CHOOSE j \in LastWriter(pkt, p) : TRUE) = i
    BY <2>6
  <2>8. p \in 1 .. LenData(pkt)
    BY <1>1, <1>3
  <2>9. Assemble(pkt)[p] = IF p > f.off + f.len THEN Junk ELSE Content[f.dgram][p]
    BY <2>6, <2>7, <2>8 DEF Assemble
  <2>10. ~(p > f.off + f.len)
    <3> HIDE DEF f
    <3> QED BY <1>1, <2>2, <2>3
  <2> QED BY <2>2, <2>9, <2>10
<1>5. Assemble(pkt) \in Seq(Units \cup Datagrams)
  BY AssembleType
<1>6. Len(Assemble(pkt)) = LenData(pkt)
  <2>1. Assemble(pkt) = [p \in 1 .. LenData(pkt) |-> Assemble(pkt)[p]]
    BY DEF Assemble
  <2> QED BY <1>3, <1>5, <2>1
<1> DEFINE a == Assemble(pkt)
           c == Content[d]
<1> HIDE DEF a, c, n, fr
<1>7. a \in Seq(Units \cup Datagrams) /\ c \in Seq(Units \cup Datagrams) /\ n = Len(c) /\ n <= Len(a)
  BY <1>1, <1>3, <1>5, <1>6 DEF a, c, n
<1>8. \A p \in 1 .. n : a[p] = c[p]
  BY <1>4 DEF a, c
<1>9. SubSeq(a, 1, n) = c
  <2>1. /\ SubSeq(a, 1, n) \in Seq(Units \cup Datagrams) /\ Len(SubSeq(a, 1, n)) = n
        /\ \A p \in 1 .. n : SubSeq(a, 1, n)[p] = a[p]
    BY <1>1, <1>7
  <2> HIDE DEF a, c
  <2> QED BY <1>7, <1>8, <2>1, SeqEqual
<1> QED BY <1>9 DEF a, c, n

LEMMA WithFragmentCounted ==
  ASSUME IpTypeOK, CountInv, NEW f \in Frames
  PROVE  Counted(WithFragment(f))
<1> DEFINE k == Key[f.dgram]
           pkt == PacketOf(f)
<1>1. k \in Keys
  BY FramesAssumption DEF Keys
<1>2. pkt \in Packets
  BY PacketOfType
<1>3. Counted(pkt)
  <2>1. CASE ip_reasm[k] = None
    <3>1. pkt = [frames |-> <<>>, cap_len |-> 0, exp_len |-> 0]
      BY <2>1 DEF PacketOf
    <3>2. Len(<<>>) = 0 /\ 1 .. 0 = {} /\ Covered(<<>>) = {}
      BY DEF Covered
    <3> QED BY <3>1, <3>2, FS_EmptySet DEF Counted
  <2>2. CASE ip_reasm[k] # None
    BY <1>1, <2>2 DEF CountInv, PacketOf
  <2> QED BY <2>1, <2>2
<1>4. WithFragment(f) = [frames |-> Append(pkt.frames, f), cap_len |-> pkt.cap_len + f.len,
                         exp_len |-> IF f.mf THEN pkt.exp_len ELSE f.off + f.len]
  BY DEF WithFragment
<1> HIDE DEF pkt
<1> QED BY <1>2, <1>3, <1>4, CountedAppend

LEMMA IpNext_CountInv == IpTypeOK /\ CountInv /\ [Next]_vars => CountInv'
<1> SUFFICES ASSUME IpTypeOK, CountInv, [Next]_vars PROVE CountInv'
  OBVIOUS
<1>1. CASE UNCHANGED vars
  BY <1>1 DEF vars, ipVars, CountInv
<1>2. ASSUME NEW f \in Frames, ReasmIp(f) PROVE CountInv'
  <2> DEFINE k == Key[f.dgram]
             pkt == WithFragment(f)
  <2>1. k \in Keys
    BY FramesAssumption DEF Keys
  <2>2. Counted(pkt) /\ pkt \in Packets
    BY WithFragmentCounted, WithFragmentType
  <2>3. CASE f.len > MaxCaptureLen \/ ~IsFragment(f)
    <3>1. ip_reasm' = ip_reasm
      BY <1>2, <2>3 DEF ReasmIp
    <3> QED BY <3>1 DEF CountInv
  <2>4. CASE ~(f.len > MaxCaptureLen \/ ~IsFragment(f))
    <3>1. ip_reasm' = [ip_reasm EXCEPT ![k] = IF ReassembledBy(f) = None THEN pkt ELSE None]
      BY <1>2, <2>4 DEF ReasmIp
    <3>2. ReassembledBy(f) = IF pkt.cap_len = pkt.exp_len /\ LenData(pkt) <= MaxCaptureLen
                             THEN [frames |-> pkt.frames, content |-> Assemble(pkt)] ELSE None
      BY <2>4 DEF ReassembledBy
    <3>3. LenData(pkt) \in Nat /\ MaxCaptureLen \in Nat
      BY <2>2, PayloadAssumption DEF LenData, Packets
    <3>6. pkt.frames # <<>> /\ pkt.cap_len # 0
      BY WithFragmentType
    <3> HIDE DEF pkt, k
    <3>4. ASSUME ip_reasm'[k] # None
          PROVE  /\ Counted(ip_reasm'[k])
                 /\ ip_reasm'[k].cap_len = ip_reasm'[k].exp_len => LenData(ip_reasm'[k]) > MaxCaptureLen
      <4>1. ip_reasm'[k] = pkt /\ ReassembledBy(f) = None
        BY <2>1, <3>1, <3>4 DEF IpTypeOK
      <4>2. ~(pkt.cap_len = pkt.exp_len /\ LenData(pkt) <= MaxCaptureLen)
        <5>1. pkt.frames \in Seq(Frames) /\ Assemble(pkt) \in Seq(Units \cup Datagrams)
          BY <2>2, <3>6, AssembleType DEF Packets
        <5>2. [frames |-> pkt.frames, content |-> Assemble(pkt)] # None
          BY <5>1, PacketsAssumption
        <5> QED BY <3>2, <4>1, <5>2
      <4> QED BY <2>2, <3>3, <4>1, <4>2
    <3>5. \A j \in Keys : j # k => ip_reasm'[j] = ip_reasm[j]
      BY <3>1 DEF IpTypeOK
    <3> QED BY <3>4, <3>5 DEF CountInv
  <2> QED BY <2>3, <2>4
<1>3. CASE Next
  BY <1>2, <1>3 DEF Next, ParsePacket
<1> QED BY <1>1, <1>3

\* The packet that a frame completes.
LEMMA ReassembledRight ==
  ASSUME IpTypeOK, CountInv, NEW f \in Frames, ReassembledBy(f) # None
  PROVE  LET fr == ReassembledBy(f).frames
             d  == fr[1].dgram
         IN  OneDatagram(fr, d) /\ (d \in V6 => InOrder(fr)) =>
               /\ Range(fr) = FragmentsOf(d)
               /\ SubSeq(ReassembledBy(f).content, 1, Len(Content[d])) = Content[d]
<1> DEFINE r == ReassembledBy(f)
           d == r.frames[1].dgram
<1>1. CASE ~IsFragment(f)
  <2>1. r = [frames |-> <<f>>, content |-> Content[f.dgram]]
    BY <1>1 DEF ReassembledBy
  <2>2. r.frames = <<f>> /\ r.content = Content[f.dgram] /\ d = f.dgram
    BY <2>1
  <2>3. ~f.mf /\ f.off = 0 /\ f.off + f.len = Len(Content[f.dgram])
    BY <1>1, FrameFacts, TilingAssumption DEF IsFragment
  <2>4. \A g \in FragmentsOf(f.dgram) : g = f
    <3> SUFFICES ASSUME NEW g \in Frames, g.dgram = f.dgram, g # f PROVE FALSE
      BY DEF FragmentsOf
    <3>1. g.off \in Nat /\ g.len \in Nat \ {0} /\ g.off + g.len <= Len(Content[f.dgram])
      BY FrameFacts
    <3>2. f.off + f.len <= g.off \/ g.off + g.len <= f.off
      BY TilingAssumption
    <3>3. Len(Content[f.dgram]) \in Nat
      BY FrameFacts
    <3> QED BY <2>3, <3>1, <3>2, <3>3
  <2>5. Range(<<f>>) = {f} /\ FragmentsOf(f.dgram) = {f}
    BY <2>4 DEF Range, FragmentsOf
  <2>6. SubSeq(Content[f.dgram], 1, Len(Content[f.dgram])) = Content[f.dgram]
    <3>1. Content[f.dgram] \in Seq(Units \cup Datagrams)
      BY FrameFacts, TransportAssumption
    <3> QED BY <3>1, SubSeqFull
  <2> QED BY <2>2, <2>5, <2>6
<1>2. CASE IsFragment(f)
  <2> DEFINE pkt == WithFragment(f)
  <2>1. /\ pkt.cap_len = pkt.exp_len
        /\ r = [frames |-> pkt.frames, content |-> Assemble(pkt)]
    BY <1>2 DEF ReassembledBy
  <2>2. pkt \in Packets /\ pkt.frames # <<>> /\ pkt.cap_len # 0 /\ Counted(pkt)
    BY WithFragmentType, WithFragmentCounted
  <2> HIDE DEF pkt
  <2>3. r.frames = pkt.frames /\ r.content = Assemble(pkt)
    BY <2>1
  <2> HIDE DEF r
  <2>4. d \in Datagrams
    <3>1. pkt.frames \in Seq(Frames) /\ pkt.frames[1] \in Frames
      BY <2>2 DEF Packets
    <3> QED BY <2>3, <3>1, FrameFacts
  <2> HIDE DEF d
  <2>5. ASSUME OneDatagram(pkt.frames, d), d \in V6 => InOrder(pkt.frames)
        PROVE  Range(pkt.frames) = FragmentsOf(d) /\ SubSeq(Assemble(pkt), 1, Len(Content[d])) = Content[d]
    <3>1. /\ pkt.cap_len = Len(Content[d]) /\ Covered(pkt.frames) = 1 .. Len(Content[d])
          /\ Range(pkt.frames) = FragmentsOf(d)
      BY <2>1, <2>2, <2>4, <2>5, CountsAgree
    <3> QED BY <2>2, <2>4, <2>5, <3>1, AssembledRight
  <2> QED BY <2>3, <2>5 DEF r, d
<1> QED BY <1>1, <1>2

LEMMA Ip_AssembledAsSent == IpTypeOK /\ CountInv /\ AssembledAsSent /\ [Next]_vars => AssembledAsSent'
<1> SUFFICES ASSUME IpTypeOK, CountInv, AssembledAsSent, [Next]_vars PROVE AssembledAsSent'
  OBVIOUS
<1>1. CASE UNCHANGED vars
  BY <1>1 DEF vars, ipVars, AssembledAsSent
<1>2. ASSUME NEW f \in Frames, ReasmIp(f) PROVE AssembledAsSent'
  <2>1. assembled' = ReassembledBy(f)
    BY <1>2 DEF ReasmIp
  <2>2. CASE ReassembledBy(f) = None
    BY <2>1, <2>2 DEF AssembledAsSent
  <2>3. CASE ReassembledBy(f) # None
    BY <2>1, <2>3, ReassembledRight DEF AssembledAsSent, OneDatagram
  <2> QED BY <2>2, <2>3
<1>3. CASE Next
  BY <1>2, <1>3 DEF Next, ParsePacket
<1> QED BY <1>1, <1>3

LEMMA IpInit_Count == Init => CountInv /\ AssembledAsSent
BY DEF Init, IpInit, CountInv, AssembledAsSent

\* A datagram of which every fragment has come once leaves ip_reasm, in
\* whatever order they came, unless it is longer than a packet may be
\* (capture_packet_reasm_ip).
THEOREM NothingIsWithheld == Spec => []NothingWithheld
<1>1. IpTypeOK /\ CountInv => NothingWithheld
  <2> SUFFICES ASSUME IpTypeOK, CountInv, NEW k \in Keys, NEW d \in Datagrams,
                      ip_reasm[k] # None, AllOnce(ip_reasm[k].frames, d)
               PROVE  LenData(ip_reasm[k]) > MaxCaptureLen
    BY DEF NothingWithheld
  <2> DEFINE pkt == ip_reasm[k]
             fr == pkt.frames
             n == Len(Content[d])
  <2>1. pkt \in Packets /\ fr \in Seq(Frames) /\ fr # <<>> /\ n \in Nat
    BY TransportAssumption DEF IpTypeOK, Packets
  <2>2. Counted(pkt) /\ (pkt.cap_len = pkt.exp_len => LenData(pkt) > MaxCaptureLen)
    BY DEF CountInv
  <2> HIDE DEF pkt
  <2>3. IsInjective(fr) /\ Range(fr) = FragmentsOf(d)
    BY DEF AllOnce, pkt
  <2> HIDE DEF fr
  <2>4. \A i \in 1 .. Len(fr) : fr[i] \in Range(fr) /\ fr[i] \in Frames /\ fr[i].dgram = d
    BY <2>1, <2>3 DEF Range, FragmentsOf
  <2>5. OneDatagram(fr, d)
    BY <2>3, <2>4 DEF OneDatagram
  <2>6. fr[1] \in Frames /\ fr[1].dgram = d
    BY <2>1, <2>4
  <2>7. Covered(fr) = 1 .. n
    <3>1. Covered(fr) \subseteq 1 .. n
      BY <2>4, FrameFacts DEF Covered
    <3>2. ASSUME NEW p \in 1 .. n PROVE p \in Covered(fr)
      <4>1. PICK g \in Frames : g.dgram = d /\ g.off < p /\ p <= g.off + g.len
        BY <2>6, TilingAssumption
      <4>2. p \in UnitsOf(g)
        BY <2>1, <4>1, FrameFacts DEF UnitsOf
      <4>3. g \in Range(fr)
        BY <2>3, <4>1 DEF FragmentsOf
      <4>4. PICK i \in 1 .. Len(fr) : fr[i] = g
        BY <2>1, <4>3 DEF Range
      <4> QED BY <4>2, <4>4 DEF Covered
    <3> QED BY <3>1, <3>2
  <2>8. pkt.cap_len = n
    <3>1. 1 \in Int /\ n \in Int /\ (IF 1 > n THEN 0 ELSE n - 1 + 1) = n
      BY <2>1
    <3>2. Cardinality(1 .. n) = n
      BY <3>1, FS_Interval
    <3> QED BY <2>2, <2>5, <2>7, <3>2 DEF Counted, fr
  <2>9. n # 0
    <3>1. fr[1].len \in Nat \ {0} /\ fr[1].off \in Nat /\ fr[1].off + fr[1].len <= n
      BY <2>6, FrameFacts
    <3> QED BY <2>1, <3>1
  <2>10. \E i \in 1 .. Len(fr) : ~fr[i].mf
    <3>1. n \in 1 .. n
      BY <2>1, <2>9
    <3>2. PICK i \in 1 .. Len(fr) : n \in UnitsOf(fr[i])
      BY <2>7, <3>1 DEF Covered
    <3>3. fr[i].off + fr[i].len = n
      <4>1. fr[i] \in Frames /\ fr[i].dgram = d
        BY <2>4
      <4>2. fr[i].off \in Nat /\ fr[i].len \in Nat /\ fr[i].off + fr[i].len <= n
        BY <4>1, FrameFacts
      <4> QED BY <2>1, <3>2, <4>2 DEF UnitsOf
    <3> QED BY <2>4, <3>3, TilingAssumption
  <2>11. pkt.exp_len = n
    BY <2>2, <2>5, <2>10 DEF Counted, fr
  <2> QED BY <2>2, <2>8, <2>11 DEF pkt
<1> QED BY <1>1, IpInit_TypeOK, IpNext_TypeOK, IpInit_Count, IpNext_CountInv, PTL DEF Spec

\* A packet put together from fragments of one datagram has all of its content
\* in place (capture_packet_reasm_ip).
THEOREM AssembledRightly == Spec => []AssembledAsSent
BY IpInit_TypeOK, IpNext_TypeOK, IpInit_Count, IpNext_CountInv, Ip_AssembledAsSent, PTL DEF Spec

==============================================================================
