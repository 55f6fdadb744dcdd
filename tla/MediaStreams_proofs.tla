------------------------ MODULE MediaStreams_proofs ------------------------
(***************************************************************************)
(* Theorems about the streams of calls, and about the call flow that shows *)
(* them with the messages.                                                 *)
(***************************************************************************)
EXTENDS MediaStreams, CallFlow, SequenceLemmas, FiniteSetTheorems

Formats == 0 .. 127

StreamSet ==
  [type : {"rtp", "rtcp"}, src : Addresses, dst : Addresses, format : Formats,
   rtcp : [spc : Nat, voip : Nat], packets : Seq(Packets), reverse : BOOLEAN]

-----------------------------------------------------------------------------
(* Streams and searches among them.                                        *)

LEMMA PortFacts ==
  /\ \A x : x \in Ports <=> x \in Int /\ 0 <= x /\ x <= MaxPort
  /\ \A n \in Ports : (n + 1) % (MaxPort + 1) \in Ports
  /\ 0 \in Ports
<1>0. MaxPort \in Int
  BY DEF MaxPort
<1>1. MaxPort \in Int /\ MaxPort = 65535
  BY DEF MaxPort
<1>2. \A x : x \in Ports <=> x \in Int /\ 0 <= x /\ x <= MaxPort
  BY <1>0 DEF Ports
<1>3. \A n \in Int : n >= 0 => n % 65536 \in Int /\ 0 <= n % 65536 /\ n % 65536 <= 65535
  BY SMT
<1>4. \A n \in Ports : (n + 1) % (MaxPort + 1) \in Ports
  <2> TAKE n \in Ports
  <2>1. n + 1 \in Int /\ n + 1 >= 0 /\ MaxPort + 1 = 65536
    BY <1>1, <1>2
  <2>2. (n + 1) % (MaxPort + 1) = (n + 1) % 65536
    BY <2>1
  <2>3. QED
    BY <1>1, <1>2, <1>3, <2>1, <2>2
<1>5. 0 \in Ports
  BY <1>1, <1>2
<1>6. QED
  BY <1>2, <1>4, <1>5

LEMMA PacketFacts ==
  ASSUME NEW p \in Packets
  PROVE  /\ p.src \in Addresses /\ p.dst \in Addresses /\ PayloadType(p) \in Formats
         /\ p.reports \in Seq(Reports)
<1>1. p \in [octet : 0..255, src : Addresses, dst : Addresses, reports : Seq(Reports)]
  BY MediaAssumption
<1>2. /\ p.octet \in 0..255 /\ p.src \in Addresses /\ p.dst \in Addresses /\ p.reports \in Seq(Reports)
  BY <1>1, Zenon
<1>3. PayloadType(p) \in Formats
  <2>1. \A n \in 0..255 : n % 128 \in 0..127
    BY SMT
  <2>2. QED
    BY <1>2, <2>1 DEF PayloadType, Formats
<1>4. QED
  BY <1>2, <1>3

LEMMA NoAddressFact == NoAddress \in Addresses
<1>1. "" \in Hosts
  BY MediaAssumption
<1>2. 0 \in Ports
  BY PortFacts
<1>3. QED
  BY <1>1, <1>2 DEF NoAddress, Addresses

LEMMA CreateFacts ==
  ASSUME NEW type \in {"rtp", "rtcp"}, NEW dst \in Addresses
  PROVE  LET s == stream_create(type, dst)
         IN  /\ s \in StreamSet /\ s.type = type /\ s.dst = dst /\ s.packets = <<>>
             /\ s.format = 0 /\ ~s.reverse
<1>1. 0 \in Formats
  BY DEF Formats
<1>2. QED
  BY <1>1, NoAddressFact DEF stream_create, StreamSet

LEMMA CompleteFacts ==
  ASSUME NEW s \in StreamSet, NEW src \in Addresses, NEW format \in Formats
  PROVE  LET t == stream_complete(s, src, format)
         IN  /\ t \in StreamSet /\ t.src = src /\ t.format = format /\ t.dst = s.dst /\ t.type = s.type
             /\ t.packets = s.packets /\ t.reverse = s.reverse
BY DEF stream_complete, StreamSet

LEMMA AddPacketFacts ==
  ASSUME NEW s \in StreamSet, NEW p \in Packets
  PROVE  LET t == stream_add_packet(s, p)
         IN  /\ t \in StreamSet /\ t.packets = Append(s.packets, p) /\ t.packets # <<>>
             /\ t.src = s.src /\ t.dst = s.dst /\ t.type = s.type /\ t.format = s.format
             /\ t.reverse = s.reverse /\ Range(t.packets) = Range(s.packets) \cup {p}
<1>1. s.packets \in Seq(Packets)
  BY DEF StreamSet
<1>2. Append(s.packets, p) \in Seq(Packets) /\ Append(s.packets, p) # <<>>
  BY <1>1
<1>3. Range(Append(s.packets, p)) = Range(s.packets) \cup {p}
  BY <1>1, AppendFacts
<1>4. QED
  BY <1>2, <1>3 DEF stream_add_packet, StreamSet

\* The last position of a sequence with a property, the set of which is I.
LEMMA LastFacts ==
  ASSUME NEW n \in Nat, NEW I, I \subseteq 1 .. n
  PROVE  LET k == IF I # {} THEN Max(I) ELSE 0
         IN  k \in 0 .. n /\ (k = 0 <=> I = {}) /\ (k # 0 => k \in I) /\ \A i \in I : i <= k
<1>1. CASE I = {}
  BY <1>1
<1>2. CASE I # {}
  <2>0. I \subseteq 0 .. n /\ I \subseteq Nat
    OBVIOUS
  <2>1. Max(I) \in I /\ \A y \in I : Max(I) >= y
    BY <1>2, <2>0, MaxOfNats
  <2> DEFINE k == Max(I)
  <2>2. \A i \in I : i \in 1 .. n /\ i # 0
    OBVIOUS
  <2>3. k \in 1 .. n /\ k # 0
    BY <2>1, <2>2
  <2> HIDE DEF k
  <2>4. QED
    BY <1>2, <2>1, <2>2, <2>3 DEF k
<1>3. QED
  BY <1>1, <1>2

\* The first one.
LEMMA FirstFacts ==
  ASSUME NEW n \in Nat, NEW I, I \subseteq 1 .. n
  PROVE  LET k == IF I # {} THEN Min(I) ELSE 0
         IN  k \in 0 .. n /\ (k = 0 <=> I = {}) /\ (k # 0 => k \in I) /\ \A i \in I : k <= i
<1>1. CASE I = {}
  BY <1>1
<1>2. CASE I # {}
  <2>0. I \subseteq 0 .. n /\ I \subseteq Nat
    OBVIOUS
  <2>1. Min(I) \in I /\ \A y \in I : Min(I) <= y
    BY <1>2, <2>0, MinOfNats
  <2> DEFINE k == Min(I)
  <2>2. \A i \in I : i \in 1 .. n /\ i # 0
    OBVIOUS
  <2>3. k \in 1 .. n /\ k # 0
    BY <2>1, <2>2
  <2> HIDE DEF k
  <2>4. QED
    BY <1>2, <2>1, <2>2, <2>3 DEF k
<1>3. QED
  BY <1>1, <1>2

LEMMA ExactFacts ==
  ASSUME NEW ss \in Seq(StreamSet), NEW src, NEW dst
  PROVE  LET k == rtp_find_call_exact_stream(ss, src, dst)
         IN  k \in 0 .. Len(ss) /\ (k # 0 => ss[k].src = src /\ ss[k].dst = dst)
<1> DEFINE I == {i \in 1 .. Len(ss) : ss[i].src = src /\ ss[i].dst = dst}
           k == rtp_find_call_exact_stream(ss, src, dst)
<1>1. k = IF I # {} THEN Max(I) ELSE 0
  BY DEF rtp_find_call_exact_stream, SelectLastInSeq
<1>2. I \subseteq 1 .. Len(ss) /\ Len(ss) \in Nat
  OBVIOUS
<1>3. k \in 0 .. Len(ss) /\ (k # 0 => k \in I)
  <2> DEFINE n == Len(ss)
             l == IF I # {} THEN Max(I) ELSE 0
  <2>1. k = l /\ n \in Nat /\ I \subseteq 1 .. n
    BY <1>1, <1>2
  <2> HIDE DEF I, k, n
  <2>2. l \in 0 .. n /\ (l # 0 => l \in I)
    BY <2>1, LastFacts
  <2>3. QED
    BY <2>1, <2>2 DEF n
<1>4. QED
  BY <1>3

\* rtp_find_call_stream: a stream to the destination that has no packets or
\* comes from the source; any to the destination if there is no source.
LEMMA FoundFacts ==
  ASSUME NEW ss \in Seq(StreamSet), NEW src, NEW dst
  PROVE  LET k == rtp_find_call_stream(ss, src, dst)
         IN  /\ k \in 0 .. Len(ss)
             /\ k # 0 => ss[k].dst = dst /\ (src.port = 0 \/ ss[k].packets = <<>> \/ ss[k].src = src)
             /\ src.port = 0 /\ k = 0 => \A i \in 1 .. Len(ss) : ss[i].dst # dst
<1> DEFINE I == {i \in 1 .. Len(ss) : ss[i].dst = dst /\ (src.port = 0 \/ ~stream_is_complete(ss[i]))}
           free == IF I # {} THEN Max(I) ELSE 0
<1>1. rtp_find_call_stream(ss, src, dst) =
        IF free # 0 \/ src.port = 0 THEN free ELSE rtp_find_call_exact_stream(ss, src, dst)
  BY DEF rtp_find_call_stream, SelectLastInSeq
<1>2. I \subseteq 1 .. Len(ss) /\ Len(ss) \in Nat
  OBVIOUS
<1>3. free \in 0 .. Len(ss) /\ (free = 0 <=> I = {}) /\ (free # 0 => free \in I)
  <2> HIDE DEF I
  <2>1. QED
    BY <1>2, LastFacts
<1> HIDE DEF free
<1>4. QED
  BY <1>1, <1>3, ExactFacts DEF stream_is_complete

-----------------------------------------------------------------------------
(* What the SDP of a message adds.                                         *)

\* Every stream of ss stays, in its place; those behind it wait for their
\* first packet, each to a destination that no stream before it has.
Extended(ss, tt) ==
  /\ tt \in Seq(StreamSet)
  /\ Len(ss) <= Len(tt)
  /\ \A i \in 1 .. Len(ss) : tt[i] = ss[i]
  /\ \A j \in Len(ss) + 1 .. Len(tt) : /\ tt[j].packets = <<>>
                                      /\ \A i \in 1 .. j - 1 : tt[i].dst # tt[j].dst

HasStreamTo(ss, dst) == \E i \in 1 .. Len(ss) : ss[i].dst = dst

Waiting == {s \in StreamSet : s.packets = <<>>}

LEMMA ExtendedSelf ==
  ASSUME NEW ss \in Seq(StreamSet)
  PROVE  Extended(ss, ss)
BY DEF Extended

LEMMA ExtendedTrans ==
  ASSUME NEW ss \in Seq(StreamSet), NEW tt, NEW uu, Extended(ss, tt), Extended(tt, uu)
  PROVE  Extended(ss, uu)
<1>1. /\ tt \in Seq(StreamSet) /\ uu \in Seq(StreamSet)
      /\ Len(ss) \in Nat /\ Len(tt) \in Nat /\ Len(uu) \in Nat
      /\ Len(ss) <= Len(tt) /\ Len(tt) <= Len(uu)
  BY DEF Extended
<1>2. \A i \in 1 .. Len(ss) : uu[i] = ss[i]
  BY <1>1 DEF Extended
<1>3. ASSUME NEW j \in Len(ss) + 1 .. Len(uu)
      PROVE  uu[j].packets = <<>> /\ \A i \in 1 .. j - 1 : uu[i].dst # uu[j].dst
  <2>1. CASE j > Len(tt)
    <3>1. j \in Len(tt) + 1 .. Len(uu)
      BY <1>1, <2>1
    <3>2. QED
      BY <3>1 DEF Extended
  <2>2. CASE j <= Len(tt)
    <3>1. j \in Len(ss) + 1 .. Len(tt) /\ j \in 1 .. Len(tt)
      BY <1>1, <2>2
    <3>2. uu[j] = tt[j] /\ \A i \in 1 .. j - 1 : uu[i] = tt[i]
      <4>1. \A i \in 1 .. j - 1 : i \in 1 .. Len(tt)
        BY <1>1, <2>2
      <4>2. QED
        BY <3>1, <4>1 DEF Extended
    <3>3. QED
      BY <3>1, <3>2 DEF Extended
  <2>3. QED
    BY <1>1, <2>1, <2>2
<1>4. QED
  BY <1>1, <1>2, <1>3 DEF Extended

LEMMA ExtendedKeeps ==
  ASSUME NEW ss \in Seq(StreamSet), NEW tt, Extended(ss, tt), NEW dst, HasStreamTo(ss, dst)
  PROVE  HasStreamTo(tt, dst)
<1>1. PICK i \in 1 .. Len(ss) : ss[i].dst = dst
  BY DEF HasStreamTo
<1>2. i \in 1 .. Len(tt) /\ tt[i] = ss[i]
  BY DEF Extended
<1>3. QED
  BY <1>1, <1>2 DEF HasStreamTo

LEMMA AddStreamFacts ==
  ASSUME NEW ss \in Seq(StreamSet), NEW s \in Waiting
  PROVE  Extended(ss, AddStream(ss, s)) /\ HasStreamTo(AddStream(ss, s), s.dst)
<1> DEFINE k == rtp_find_call_stream(ss, NoAddress, s.dst)
<1>0. s \in StreamSet /\ s.packets = <<>>
  BY DEF Waiting
<1>1. NoAddress.port = 0
  BY DEF NoAddress
<1>2. k \in 0 .. Len(ss) /\ (k # 0 => ss[k].dst = s.dst) /\ (k = 0 => \A i \in 1 .. Len(ss) : ss[i].dst # s.dst)
  BY <1>1, FoundFacts
<1> HIDE DEF k
<1>3. AddStream(ss, s) = IF k # 0 THEN ss ELSE Append(ss, s)
  BY DEF AddStream, k
<1>4. CASE k # 0
  <2>1. AddStream(ss, s) = ss /\ k \in 1 .. Len(ss)
    BY <1>2, <1>3, <1>4
  <2>2. QED
    BY <1>2, <1>4, <2>1, ExtendedSelf DEF HasStreamTo
<1>5. CASE k = 0
  <2> DEFINE tt == Append(ss, s)
  <2>1. /\ AddStream(ss, s) = tt /\ tt \in Seq(StreamSet) /\ Len(tt) = Len(ss) + 1 /\ Len(ss) \in Nat
        /\ tt[Len(ss) + 1] = s /\ \A i \in 1 .. Len(ss) : tt[i] = ss[i]
    BY <1>0, <1>3, <1>5
  <2> HIDE DEF tt
  <2>2. Extended(ss, tt)
    <3>1. \A j \in Len(ss) + 1 .. Len(tt) : j = Len(ss) + 1
      BY <2>1
    <3>2. \A i \in 1 .. Len(ss) : tt[i].dst # tt[Len(ss) + 1].dst
      BY <1>2, <1>5, <2>1
    <3>3. Len(ss) + 1 - 1 = Len(ss)
      BY <2>1
    <3>4. QED
      BY <1>0, <2>1, <3>1, <3>2, <3>3 DEF Extended
  <2>3. HasStreamTo(tt, s.dst)
    <3>1. Len(ss) + 1 \in 1 .. Len(tt)
      BY <2>1
    <3>2. QED
      BY <2>1, <3>1 DEF HasStreamTo
  <2>4. QED
    BY <2>1, <2>2, <2>3
<1>6. QED
  BY <1>4, <1>5

LEMMA AddStreamsFacts ==
  ASSUME NEW ss \in Seq(StreamSet), NEW pending \in Seq(Waiting)
  PROVE  /\ Extended(ss, AddStreams(ss, pending))
         /\ \A i \in 1 .. Len(pending) : HasStreamTo(AddStreams(ss, pending), pending[i].dst)
<1> DEFINE n == Len(pending)
           T == Seq(StreamSet)
           step == [i \in 1 .. n |-> [t \in T |-> AddStream(t, pending[i])]]
           eq(f) == [i \in 0 .. n |-> IF i = 0 THEN ss ELSE AddStream(f[i - 1], pending[i])]
           F == CHOOSE f : f = eq(f)
<1>1. AddStreams(ss, pending) = F[n]
  BY DEF AddStreams
<1>2. n \in Nat /\ ss \in T /\ \A i \in 1 .. n : pending[i] \in Waiting
  OBVIOUS
<1>3. \A t \in T, s \in Waiting : AddStream(t, s) \in T
  BY AddStreamFacts DEF Extended
<1>4. step \in [1 .. n -> [T -> T]]
  BY <1>2, <1>3
<1>5. \A i \in 1 .. n, t \in T : step[i][t] = AddStream(t, pending[i])
  OBVIOUS
<1> HIDE DEF n, T, step
<1>6. F = eq(F)
  <2>1. PICK g : IsRecursion(g, n, T, ss, step)
    BY <1>2, <1>4, RecursiveFunction
  <2>2. g \in [0 .. n -> T] /\ g[0] = ss /\ \A i \in 1 .. n : g[i] = step[i][g[i - 1]]
    BY <2>1 DEF IsRecursion
  <2>3. \A i \in 1 .. n : i - 1 \in 0 .. n
    BY <1>2
  <2>4. \A i \in 1 .. n : g[i] = AddStream(g[i - 1], pending[i])
    BY <1>5, <2>2, <2>3
  <2>5. g = eq(g)
    BY <1>2, <2>2, <2>4
  <2>6. QED
    BY <2>5
<1> HIDE DEF F
<1>7. 0 \in 0 .. n /\ F[0] = ss
  BY <1>2, <1>6
<1>8. \A i \in 1 .. n : i \in 0 .. n /\ i - 1 \in 0 .. n /\ F[i] = AddStream(F[i - 1], pending[i])
  BY <1>2, <1>6
<1> DEFINE G == {i \in 0 .. n : /\ Extended(ss, F[i])
                                /\ \A j \in 1 .. i : HasStreamTo(F[i], pending[j].dst)}
<1>9. 0 \in G
  BY <1>2, <1>7, ExtendedSelf DEF T
<1>10. ASSUME NEW i \in 1 .. n, i - 1 \in G PROVE i \in G
  <2>1. F[i - 1] \in Seq(StreamSet) /\ Extended(ss, F[i - 1])
    BY <1>10 DEF Extended
  <2>2. Extended(F[i - 1], F[i]) /\ HasStreamTo(F[i], pending[i].dst)
    BY <1>2, <1>8, <2>1, AddStreamFacts
  <2>3. Extended(ss, F[i])
    BY <2>1, <2>2, ExtendedTrans
  <2>4. ASSUME NEW j \in 1 .. i PROVE HasStreamTo(F[i], pending[j].dst)
    <3>1. CASE j = i
      BY <2>2, <3>1
    <3>2. CASE j # i
      <4>1. j \in 1 .. i - 1
        BY <1>2, <3>2
      <4>2. HasStreamTo(F[i - 1], pending[j].dst)
        BY <1>10, <4>1
      <4>3. QED
        BY <2>1, <2>2, <4>2, ExtendedKeeps
    <3>3. QED
      BY <3>1, <3>2
  <2>5. QED
    BY <1>8, <2>3, <2>4
<1> HIDE DEF G
<1>11. \A i \in 0 .. n : i \in G
  BY <1>2, <1>9, <1>10, UpTo
<1>12. n \in G
  BY <1>2, <1>11
<1>13. QED
  BY <1>1, <1>12 DEF G, n

\* What is known while the SDP of a message is read.
SdpPoints ==
  {st \in [dst : Addresses, pending : Seq(Waiting), ss : Seq(StreamSet)] : Len(st.pending) \in {0, 3}}

LEMMA PointFacts ==
  ASSUME NEW st \in SdpPoints
  PROVE  /\ st \in [dst : Addresses, pending : Seq(Waiting), ss : Seq(StreamSet)]
         /\ st.dst \in Addresses /\ st.pending \in Seq(Waiting) /\ st.ss \in Seq(StreamSet)
         /\ st.pending # <<>> => Len(st.pending) = 3 /\ \A i \in 1 .. 3 : st.pending[i] \in Waiting
<1>1. st \in [dst : Addresses, pending : Seq(Waiting), ss : Seq(StreamSet)] /\ Len(st.pending) \in {0, 3}
  BY Zenon DEF SdpPoints
<1>2. st.dst \in Addresses /\ st.pending \in Seq(Waiting) /\ st.ss \in Seq(StreamSet)
  BY <1>1, Zenon
<1>3. st.pending # <<>> => Len(st.pending) = 3
  BY <1>1, <1>2
<1>4. Len(st.pending) = 3 => \A i \in 1 .. 3 : st.pending[i] \in Waiting
  BY <1>2
<1>5. QED
  BY <1>1, <1>2, <1>3, <1>4

LEMMA PointIntro ==
  ASSUME NEW dst \in Addresses, NEW pending \in Seq(Waiting), NEW ss \in Seq(StreamSet),
         pending = <<>> \/ Len(pending) = 3
  PROVE  [dst |-> dst, pending |-> pending, ss |-> ss] \in SdpPoints
<1> DEFINE st == [dst |-> dst, pending |-> pending, ss |-> ss]
<1>1. st \in [dst : Addresses, pending : Seq(Waiting), ss : Seq(StreamSet)] /\ st.pending = pending
  BY Zenon
<1>2. Len(st.pending) \in {0, 3}
  BY <1>1
<1> HIDE DEF st
<1>3. st \in SdpPoints
  BY <1>1, <1>2, Zenon DEF SdpPoints
<1>4. QED
  BY <1>3 DEF st

LEMMA LineFacts ==
  ASSUME NEW l \in SdpLines
  PROVE  /\ l.line \in {"c", "m", "rtcp"}
         /\ l.line = "c" => l.ip \in Hosts
         /\ l.line = "m" => l.rtp \in BOOLEAN /\ l.port \in Ports
         /\ l.line = "rtcp" => l.port \in Ports
BY DEF SdpLines

LEMMA AddressFacts ==
  ASSUME NEW a \in Addresses
  PROVE  /\ a.ip \in Hosts /\ a.port \in Ports /\ a = [ip |-> a.ip, port |-> a.port]
         /\ \A h \in Hosts : [a EXCEPT !.ip = h] = [ip |-> h, port |-> a.port] /\ [a EXCEPT !.ip = h] \in Addresses
         /\ \A n \in Ports : [a EXCEPT !.port = n] = [ip |-> a.ip, port |-> n] /\ [a EXCEPT !.port = n] \in Addresses
<1>1. a.ip \in Hosts /\ a.port \in Ports /\ a = [ip |-> a.ip, port |-> a.port]
  BY DEF Addresses
<1>2. ASSUME NEW h \in Hosts
      PROVE  [a EXCEPT !.ip = h] = [ip |-> h, port |-> a.port] /\ [a EXCEPT !.ip = h] \in Addresses
  BY DEF Addresses
<1>3. ASSUME NEW n \in Ports
      PROVE  [a EXCEPT !.port = n] = [ip |-> a.ip, port |-> n] /\ [a EXCEPT !.port = n] \in Addresses
  BY DEF Addresses
<1>4. QED
  BY <1>1, <1>2, <1>3, Zenon

LEMMA MessageFacts ==
  ASSUME NEW m \in MediaMessages
  PROVE  /\ m.call \in CallIds /\ m.src \in Addresses /\ m.dst \in Addresses /\ m.sdp \in Seq(SdpLines)
         /\ Len(m.sdp) \in Nat /\ \A i \in 1 .. Len(m.sdp) : m.sdp[i] \in SdpLines
<1>1. m.call \in CallIds /\ m.src \in Addresses /\ m.dst \in Addresses /\ m.sdp \in Seq(SdpLines)
  BY MediaAssumption
<1>2. QED
  BY <1>1

LEMMA WaitingFacts ==
  ASSUME NEW s \in Waiting, NEW dst \in Addresses
  PROVE  /\ s.dst \in Addresses
         /\ [s EXCEPT !.dst = dst] \in Waiting
         /\ [s EXCEPT !.dst = dst].dst = dst
BY DEF Waiting, StreamSet

LEMMA NewStreamsFacts ==
  ASSUME NEW m \in MediaMessages, NEW dst \in Addresses
  PROVE  /\ NewStreams(m, dst) \in Seq(Waiting) /\ Len(NewStreams(m, dst)) = 3
         /\ NewStreams(m, dst) # <<>>
         /\ NewStreams(m, dst)[2].dst = dst
<1> DEFINE d1 == [dst EXCEPT !.ip = m.src.ip]
           d3 == [dst EXCEPT !.port = (@ + 1) % (MaxPort + 1)]
           s1 == stream_create("rtp", d1)
           s2 == stream_create("rtp", dst)
           s3 == stream_create("rtcp", d3)
<1>1. d1 \in Addresses
  <2>1. m.src.ip \in Hosts
    BY MessageFacts, AddressFacts
  <2>2. QED
    BY <2>1, AddressFacts
<1>2. d3 \in Addresses
  <2>1. dst.port \in Ports
    BY AddressFacts
  <2>4. (dst.port + 1) % (MaxPort + 1) \in Ports
    BY <2>1, PortFacts
  <2>5. QED
    BY <2>4, AddressFacts
<1> HIDE DEF d1, d3
<1>3. s1 \in Waiting /\ s2 \in Waiting /\ s3 \in Waiting /\ s2.dst = dst
  BY <1>1, <1>2, CreateFacts DEF Waiting
<1> HIDE DEF s1, s2, s3
<1>4. NewStreams(m, dst) = <<s1, s2, s3>>
  BY DEF NewStreams, s1, s2, s3, d1, d3
<1>5. QED
  BY <1>3, <1>4

\* One line: an m= line of RTP adds what waits, and no other line does; the
\* second of the streams that wait keeps its port and follows the c= lines.
LEMMA ParseLineFacts ==
  ASSUME NEW m \in MediaMessages, NEW st \in SdpPoints, NEW l \in SdpLines
  PROVE  LET n == ParseLine(m, st, l)
         IN  /\ n \in SdpPoints
             /\ n.dst.ip = IF l.line = "c" THEN l.ip ELSE st.dst.ip
             /\ l.line = "m" /\ l.rtp => /\ n.ss = AddStreams(st.ss, st.pending)
                                       /\ n.pending # <<>>
                                       /\ n.pending[2].dst = [ip |-> st.dst.ip, port |-> l.port]
             /\ ~(l.line = "m" /\ l.rtp) =>
                  /\ n.ss = st.ss
                  /\ st.pending # <<>> =>
                       /\ n.pending # <<>>
                       /\ n.pending[2].dst = IF l.line = "c" THEN [ip |-> l.ip, port |-> st.pending[2].dst.port]
                                             ELSE st.pending[2].dst
<1> DEFINE n == ParseLine(m, st, l)
<1>0. /\ st \in [dst : Addresses, pending : Seq(Waiting), ss : Seq(StreamSet)]
      /\ st.dst \in Addresses /\ st.pending \in Seq(Waiting) /\ st.ss \in Seq(StreamSet)
      /\ st.pending # <<>> => Len(st.pending) = 3 /\ \A i \in 1 .. 3 : st.pending[i] \in Waiting
  BY PointFacts
<1>01. st = [dst |-> st.dst, pending |-> st.pending, ss |-> st.ss]
  BY <1>0
<1>1. CASE l.line = "m" /\ l.rtp
  <2> DEFINE dst == [st.dst EXCEPT !.port = l.port]
  <2>1. dst \in Addresses /\ dst = [ip |-> st.dst.ip, port |-> l.port]
    BY <1>0, <1>1, LineFacts, AddressFacts
  <2>2. n = [dst |-> dst, pending |-> NewStreams(m, dst), ss |-> AddStreams(st.ss, st.pending)]
    BY <1>1 DEF ParseLine
  <2>3. AddStreams(st.ss, st.pending) \in Seq(StreamSet)
    BY <1>0, AddStreamsFacts DEF Extended
  <2> HIDE DEF dst
  <2>4. NewStreams(m, dst) \in Seq(Waiting) /\ Len(NewStreams(m, dst)) = 3 /\ NewStreams(m, dst)[2].dst = dst
        /\ NewStreams(m, dst) # <<>>
    BY <2>1, NewStreamsFacts
  <2> HIDE DEF n
  <2>5. n \in SdpPoints
    BY <2>1, <2>2, <2>3, <2>4, PointIntro
  <2>6. n.dst = dst /\ n.pending = NewStreams(m, dst) /\ n.ss = AddStreams(st.ss, st.pending)
    BY <2>2, Zenon
  <2>7. dst.ip = st.dst.ip
    BY <2>1
  <2>8. n.pending # <<>>
    BY <2>4, <2>6
  <2>9. QED
    BY <1>1, <2>1, <2>4, <2>5, <2>6, <2>7, <2>8 DEF n
<1>2. CASE l.line = "m" /\ ~l.rtp
  <2> DEFINE dst == [st.dst EXCEPT !.port = l.port]
  <2>1. dst \in Addresses /\ dst = [ip |-> st.dst.ip, port |-> l.port]
    BY <1>0, <1>2, LineFacts, AddressFacts
  <2>2. n = [st EXCEPT !.dst.port = l.port]
    BY <1>2 DEF ParseLine
  <2>3. n = [dst |-> dst, pending |-> st.pending, ss |-> st.ss]
    BY <1>0, <2>2
  <2> HIDE DEF dst, n
  <2>4. n \in SdpPoints
    BY <1>0, <2>1, <2>3, PointIntro
  <2>5. n.dst = dst /\ n.pending = st.pending /\ n.ss = st.ss
    BY <2>3, Zenon
  <2>6. QED
    BY <1>2, <2>1, <2>4, <2>5 DEF n
<1>3. CASE l.line = "c"
  <2> DEFINE dst == [st.dst EXCEPT !.ip = l.ip]
             new == [i \in DOMAIN st.pending |->
                       IF i = 1 THEN st.pending[i] ELSE [st.pending[i] EXCEPT !.dst.ip = l.ip]]
  <2>1. l.ip \in Hosts /\ dst \in Addresses /\ dst = [ip |-> l.ip, port |-> st.dst.port]
    BY <1>0, <1>3, LineFacts, AddressFacts
  <2>2. n = [st EXCEPT !.dst.ip = l.ip, !.pending = new]
    BY <1>3, <1>0 DEF ParseLine
  <2>3. n = [dst |-> dst, pending |-> new, ss |-> st.ss]
    <3> HIDE DEF new
    <3>1. QED
      BY <1>0, <2>2
  <2>4. CASE st.pending = <<>>
    <3>1. new = <<>>
      BY <2>4
    <3> HIDE DEF dst, n, new
    <3>2. n \in SdpPoints
      BY <1>0, <2>1, <2>3, <2>4, <3>1, PointIntro
    <3>3. n.dst = dst /\ n.ss = st.ss
      BY <2>3, Zenon
    <3>4. QED
      BY <1>3, <2>1, <2>4, <3>2, <3>3 DEF n
  <2>5. CASE st.pending # <<>>
    <3>1. \A i \in 1 .. 3 : /\ [st.pending[i] EXCEPT !.dst.ip = l.ip] \in Waiting
                            /\ [st.pending[i] EXCEPT !.dst.ip = l.ip].dst = [ip |-> l.ip, port |-> st.pending[i].dst.port]
      <4> TAKE i \in 1 .. 3
      <4>1. st.pending[i] \in Waiting
        BY <1>0, <2>5
      <4> DEFINE s == st.pending[i]
                 d == [s.dst EXCEPT !.ip = l.ip]
      <4>2. s.dst \in Addresses
        BY <4>1, NoAddressFact, WaitingFacts
      <4>3. d \in Addresses /\ d = [ip |-> l.ip, port |-> s.dst.port]
        BY <2>1, <4>2, AddressFacts
      <4>4. [s EXCEPT !.dst.ip = l.ip] = [s EXCEPT !.dst = d]
        BY <4>1 DEF Waiting, StreamSet
      <4> HIDE DEF d
      <4>5. [s EXCEPT !.dst = d] \in Waiting /\ [s EXCEPT !.dst = d].dst = d
        BY <4>1, <4>3, WaitingFacts
      <4>6. QED
        BY <4>3, <4>4, <4>5
    <3>2. DOMAIN st.pending = 1 .. 3
      BY <1>0, <2>5
    <3>3. \A i \in 1 .. 3 : new[i] \in Waiting
      BY <1>0, <2>5, <3>1, <3>2
    <3>4. new \in Seq(Waiting) /\ Len(new) = 3 /\ new # <<>>
      BY <3>2, <3>3
    <3>5. new[2].dst = [ip |-> l.ip, port |-> st.pending[2].dst.port]
      <4>1. 2 \in 1 .. 3 /\ 2 # 1
        OBVIOUS
      <4>2. new[2] = [st.pending[2] EXCEPT !.dst.ip = l.ip]
        BY <3>2, <4>1, Zenon
      <4> HIDE DEF new
      <4>3. QED
        BY <3>1, <4>1, <4>2, Zenon
    <3> HIDE DEF dst, n, new
    <3>6. n \in SdpPoints
      BY <1>0, <2>1, <2>3, <3>4, PointIntro
    <3>7. n.dst = dst /\ n.ss = st.ss /\ n.pending = new /\ new # <<>>
      BY <2>3, <3>4, Zenon
    <3>8. QED
      BY <1>3, <2>1, <2>5, <3>5, <3>6, <3>7 DEF n
  <2>6. QED
    BY <2>4, <2>5
<1>4. CASE l.line = "rtcp"
  <2>1. CASE st.pending = <<>>
    <3>1. n = st
      BY <1>4, <2>1 DEF ParseLine
    <3>2. QED
      BY <1>4, <2>1, <3>1
  <2>2. CASE st.pending # <<>>
    <3> DEFINE s == st.pending[3]
               d == [s.dst EXCEPT !.port = l.port]
               new == [st.pending EXCEPT ![3] = [s EXCEPT !.dst = d]]
    <3>1. s \in Waiting /\ s.dst \in Addresses
      <4>1. s \in Waiting
        <5>1. 3 \in 1 .. 3
          OBVIOUS
        <5>2. QED
          BY <1>0, <2>2, <5>1, Zenon
      <4> HIDE DEF s
      <4>2. QED
        BY <4>1, NoAddressFact, WaitingFacts
    <3>2. d \in Addresses
      BY <1>4, <3>1, LineFacts, AddressFacts
    <3>3. n = [st EXCEPT !.pending[3].dst.port = l.port]
      BY <1>4, <2>2 DEF ParseLine
    <3>4. [s EXCEPT !.dst.port = l.port] = [s EXCEPT !.dst = d]
      BY <3>1 DEF Waiting, StreamSet
    <3>5. n = [dst |-> st.dst, pending |-> new, ss |-> st.ss]
      BY <1>0, <1>01, <3>3, <3>4
    <3>6. [s EXCEPT !.dst = d] \in Waiting
      BY <3>1, <3>2, WaitingFacts
    <3>7. new \in Seq(Waiting) /\ Len(new) = 3 /\ new[2] = st.pending[2] /\ new # <<>>
      BY <1>0, <2>2, <3>6
    <3> HIDE DEF n, new
    <3>8. n \in SdpPoints
      BY <1>0, <3>5, <3>7, PointIntro
    <3>9. n.dst = st.dst /\ n.ss = st.ss /\ n.pending = new /\ new # <<>>
      BY <3>5, <3>7, Zenon
    <3>10. QED
      BY <1>4, <2>2, <3>7, <3>8, <3>9 DEF n
  <2>3. QED
    BY <2>1, <2>2
<1>5. QED
  BY <1>1, <1>2, <1>3, <1>4, LineFacts

LEMMA SdpStateFacts ==
  ASSUME NEW ss \in Seq(StreamSet), NEW m \in MediaMessages
  PROVE  LET F == SdpState(ss, m)
         IN  /\ F[0] = [dst |-> NoAddress, pending |-> <<>>, ss |-> ss]
             /\ \A i \in 0 .. Len(m.sdp) : F[i] \in SdpPoints
             /\ \A i \in 1 .. Len(m.sdp) : F[i] = ParseLine(m, F[i - 1], m.sdp[i])
<1> DEFINE n == Len(m.sdp)
           T == SdpPoints
           start == [dst |-> NoAddress, pending |-> <<>>, ss |-> ss]
           step == [i \in 1 .. n |-> [t \in T |-> ParseLine(m, t, m.sdp[i])]]
           eq(f) == [i \in 0 .. n |-> IF i = 0 THEN start ELSE ParseLine(m, f[i - 1], m.sdp[i])]
           F == CHOOSE f : f = eq(f)
<1>1. SdpState(ss, m) = F
  BY DEF SdpState
<1>2. n \in Nat /\ \A i \in 1 .. n : m.sdp[i] \in SdpLines
  BY MessageFacts
<1>3. start \in T
  <2>1. <<>> \in Seq(Waiting)
    OBVIOUS
  <2>2. QED
    BY <2>1, NoAddressFact, PointIntro
<1> HIDE DEF start
<1>4. \A t \in T, l \in SdpLines : ParseLine(m, t, l) \in T
  BY ParseLineFacts
<1>5. step \in [1 .. n -> [T -> T]]
  BY <1>2, <1>4
<1>6. \A i \in 1 .. n, t \in T : step[i][t] = ParseLine(m, t, m.sdp[i])
  OBVIOUS
<1> HIDE DEF n, T, step
<1>7. PICK g : IsRecursion(g, n, T, start, step)
  BY <1>2, <1>3, <1>5, RecursiveFunction
<1>8. g \in [0 .. n -> T] /\ g[0] = start /\ \A i \in 1 .. n : g[i] = step[i][g[i - 1]]
  BY <1>7 DEF IsRecursion
<1>9. \A i \in 1 .. n : i - 1 \in 0 .. n /\ g[i] = ParseLine(m, g[i - 1], m.sdp[i])
  <2>1. \A i \in 1 .. n : i - 1 \in 0 .. n
    BY <1>2
  <2>2. QED
    BY <1>6, <1>8, <2>1
<1>10. g = eq(g)
  BY <1>2, <1>8, <1>9
<1>11. F = eq(F)
  BY <1>10
<1> HIDE DEF F
<1>12. 0 \in 0 .. n /\ F[0] = start
  BY <1>2, <1>11
<1>13. \A i \in 1 .. n : i \in 0 .. n /\ i - 1 \in 0 .. n /\ F[i] = ParseLine(m, F[i - 1], m.sdp[i])
  BY <1>2, <1>11
<1> DEFINE G == {i \in 0 .. n : F[i] \in T}
<1>14. 0 \in G
  BY <1>3, <1>12
<1>15. ASSUME NEW i \in 1 .. n, i - 1 \in G PROVE i \in G
  BY <1>2, <1>4, <1>13, <1>15
<1> HIDE DEF G
<1>16. \A i \in 0 .. n : i \in G
  BY <1>2, <1>14, <1>15, UpTo
<1>17. \A i \in 0 .. n : F[i] \in SdpPoints
  BY <1>16 DEF G, T
<1>18. QED
  BY <1>1, <1>12, <1>13, <1>17 DEF n, start

\* The line at i announces RTP; k is the last c= line up to n; the m= line
\* of RTP after the one at i, or the end, is at n.
Announces(sdp, i) == sdp[i].line = "m" /\ sdp[i].rtp

LastC(sdp, k, n) == k \in 1 .. n /\ sdp[k].line = "c" /\ \A l \in k + 1 .. n : sdp[l].line # "c"

Ends(sdp, i, n) == (n \in 1 .. Len(sdp) => Announces(sdp, n)) /\ \A l \in i + 1 .. n - 1 : ~Announces(sdp, l)

\* The medium at i, whose last line is at n, has its stream.
Served(sdp, i, n, ss) ==
  \A k \in 1 .. n : LastC(sdp, k, n) => HasStreamTo(ss, [ip |-> sdp[k].ip, port |-> sdp[i].port])

\* After j lines every medium waits, with the address known so far, or is
\* served.
Parsed(sdp, j, st) ==
  /\ \A k \in 1 .. j : LastC(sdp, k, j) => st.dst.ip = sdp[k].ip
  /\ \A i \in 1 .. j : Announces(sdp, i) =>
       \/ /\ \A l \in i + 1 .. j : ~Announces(sdp, l)
          /\ st.pending # <<>> /\ st.pending[2].dst.port = sdp[i].port
          /\ \A k \in 1 .. j : LastC(sdp, k, j) => st.pending[2].dst.ip = sdp[k].ip
       \/ \E n \in i + 1 .. j : Ends(sdp, i, n) /\ Served(sdp, i, n - 1, st.ss)

LEMMA LastCStep ==
  ASSUME NEW sdp \in Seq(SdpLines), NEW j \in 1 .. Len(sdp), NEW k, LastC(sdp, k, j)
  PROVE  IF sdp[j].line = "c" THEN k = j ELSE k \in 1 .. j - 1 /\ LastC(sdp, k, j - 1)
<1>1. k \in 1 .. j /\ sdp[k].line = "c" /\ \A l \in k + 1 .. j : sdp[l].line # "c"
  BY DEF LastC
<1>2. CASE sdp[j].line = "c"
  <2>1. j \notin k + 1 .. j
    BY <1>1, <1>2
  <2>2. k = j
    BY <1>1, <2>1
  <2>3. QED
    BY <1>2, <2>2
<1>3. CASE sdp[j].line # "c"
  <2>1. k \in 1 .. j - 1
    BY <1>1, <1>3
  <2>2. \A l \in k + 1 .. j - 1 : l \in k + 1 .. j
    OBVIOUS
  <2>3. LastC(sdp, k, j - 1)
    BY <1>1, <2>1, <2>2 DEF LastC
  <2>4. QED
    BY <1>3, <2>1, <2>3
<1>4. QED
  BY <1>2, <1>3

\* The pending streams of a state added: the second to its own address.
LEMMA SecondAdded ==
  ASSUME NEW st \in SdpPoints, st.pending # <<>>
  PROVE  /\ st.pending[2].dst \in Addresses
         /\ HasStreamTo(AddStreams(st.ss, st.pending), st.pending[2].dst)
<1>1. /\ st.pending \in Seq(Waiting) /\ st.ss \in Seq(StreamSet) /\ Len(st.pending) = 3
      /\ \A i \in 1 .. 3 : st.pending[i] \in Waiting
  BY PointFacts
<1>2. 2 \in 1 .. Len(st.pending) /\ 2 \in 1 .. 3
  BY <1>1
<1>3. HasStreamTo(AddStreams(st.ss, st.pending), st.pending[2].dst)
  BY <1>1, <1>2, AddStreamsFacts
<1>4. st.pending[2].dst \in Addresses
  BY <1>1, <1>2, NoAddressFact, WaitingFacts
<1>5. QED
  BY <1>3, <1>4

LEMMA ParsedStep ==
  ASSUME NEW m \in MediaMessages, NEW j \in 1 .. Len(m.sdp), NEW st \in SdpPoints,
         Parsed(m.sdp, j - 1, st)
  PROVE  /\ Parsed(m.sdp, j, ParseLine(m, st, m.sdp[j]))
         /\ Extended(st.ss, ParseLine(m, st, m.sdp[j]).ss)
<1> DEFINE sdp == m.sdp
           l == sdp[j]
           t == ParseLine(m, st, l)
<1>1. sdp \in Seq(SdpLines) /\ l \in SdpLines /\ Len(sdp) \in Nat
  BY MessageFacts
<1>2. /\ t \in SdpPoints
      /\ t.dst.ip = IF l.line = "c" THEN l.ip ELSE st.dst.ip
      /\ Announces(sdp, j) =>
           /\ t.ss = AddStreams(st.ss, st.pending) /\ t.pending # <<>>
           /\ t.pending[2].dst = [ip |-> st.dst.ip, port |-> l.port]
      /\ ~Announces(sdp, j) =>
           /\ t.ss = st.ss
           /\ st.pending # <<>> =>
                /\ t.pending # <<>>
                /\ t.pending[2].dst = IF l.line = "c" THEN [ip |-> l.ip, port |-> st.pending[2].dst.port]
                                      ELSE st.pending[2].dst
  BY <1>1, ParseLineFacts DEF Announces
<1>3. st.ss \in Seq(StreamSet) /\ st.pending \in Seq(Waiting)
  BY PointFacts
<1> HIDE DEF t, l, sdp
<1>4. Extended(st.ss, t.ss)
  <2>1. Extended(st.ss, AddStreams(st.ss, st.pending)) /\ Extended(st.ss, st.ss)
    BY <1>3, AddStreamsFacts, ExtendedSelf
  <2>2. t.ss = AddStreams(st.ss, st.pending) \/ t.ss = st.ss
    BY <1>2, Zenon
  <2>3. QED
    BY <2>1, <2>2
<1>5. ASSUME NEW k \in 1 .. j, LastC(sdp, k, j)
      PROVE  t.dst.ip = sdp[k].ip /\ IF l.line = "c" THEN k = j ELSE k \in 1 .. j - 1 /\ LastC(sdp, k, j - 1) /\ st.dst.ip = sdp[k].ip
  <2>1. IF l.line = "c" THEN k = j ELSE k \in 1 .. j - 1 /\ LastC(sdp, k, j - 1)
    BY <1>1, <1>5, LastCStep DEF l, sdp
  <2>2. l.line # "c" => st.dst.ip = sdp[k].ip
    BY <2>1 DEF Parsed, sdp
  <2>3. QED
    BY <1>2, <2>1, <2>2 DEF l
<1>6. ASSUME NEW i \in 1 .. j, Announces(sdp, i)
      PROVE  \/ /\ \A x \in i + 1 .. j : ~Announces(sdp, x)
                /\ t.pending # <<>> /\ t.pending[2].dst.port = sdp[i].port
                /\ \A k \in 1 .. j : LastC(sdp, k, j) => t.pending[2].dst.ip = sdp[k].ip
             \/ \E n \in i + 1 .. j : Ends(sdp, i, n) /\ Served(sdp, i, n - 1, t.ss)
  <2>1. CASE i = j
    <3>1. t.pending # <<>> /\ t.pending[2].dst = [ip |-> st.dst.ip, port |-> l.port] /\ l.line # "c"
      BY <1>2, <1>6, <2>1 DEF Announces, l
    <3>2. \A k \in 1 .. j : LastC(sdp, k, j) => t.pending[2].dst.ip = sdp[k].ip
      BY <1>5, <3>1
    <3>3. t.pending[2].dst.port = sdp[i].port
      BY <2>1, <3>1 DEF l
    <3>4. \A x \in i + 1 .. j : FALSE
      BY <1>1, <2>1
    <3>5. QED
      BY <3>1, <3>2, <3>3, <3>4
  <2>2. CASE i # j
    <3>0. i \in 1 .. j - 1
      BY <1>1, <2>2
    <3>1. CASE /\ \A x \in i + 1 .. j - 1 : ~Announces(sdp, x)
               /\ st.pending # <<>> /\ st.pending[2].dst.port = sdp[i].port
               /\ \A k \in 1 .. j - 1 : LastC(sdp, k, j - 1) => st.pending[2].dst.ip = sdp[k].ip
      <4>0. st.pending[2].dst \in Addresses /\ HasStreamTo(AddStreams(st.ss, st.pending), st.pending[2].dst)
        BY <3>1, SecondAdded
      <4>1. CASE Announces(sdp, j)
        <5>1. Ends(sdp, i, j)
          BY <3>1, <4>1 DEF Ends
        <5>2. ASSUME NEW k \in 1 .. j - 1, LastC(sdp, k, j - 1)
              PROVE  HasStreamTo(t.ss, [ip |-> sdp[k].ip, port |-> sdp[i].port])
          <6>1. st.pending[2].dst.ip = sdp[k].ip /\ st.pending[2].dst.port = sdp[i].port
            BY <3>1, <5>2
          <6>2. st.pending[2].dst = [ip |-> sdp[k].ip, port |-> sdp[i].port]
            BY <4>0, <6>1, AddressFacts
          <6>3. QED
            BY <1>2, <4>0, <4>1, <6>2
        <5>3. Served(sdp, i, j - 1, t.ss)
          BY <5>2 DEF Served
        <5>4. j \in i + 1 .. j
          BY <1>1, <3>0
        <5>5. QED
          BY <5>1, <5>3, <5>4
      <4>2. CASE ~Announces(sdp, j)
        <5>1. \A x \in i + 1 .. j : ~Announces(sdp, x)
          <6>1. \A x \in i + 1 .. j : x \in i + 1 .. j - 1 \/ x = j
            BY <1>1, <3>0
          <6>2. QED
            BY <3>1, <4>2, <6>1
        <5>2. t.pending # <<>> /\ t.pending[2].dst = IF l.line = "c" THEN [ip |-> l.ip, port |-> st.pending[2].dst.port]
                                                     ELSE st.pending[2].dst
          BY <1>2, <3>1, <4>2, Zenon
        <5>3. t.pending[2].dst.port = sdp[i].port
          BY <3>1, <5>2
        <5>4. ASSUME NEW k \in 1 .. j, LastC(sdp, k, j)
              PROVE  t.pending[2].dst.ip = sdp[k].ip
          BY <1>5, <3>1, <5>2, <5>4 DEF l
        <5>5. QED
          BY <5>1, <5>2, <5>3, <5>4
      <4>3. QED
        BY <4>1, <4>2
    <3>2. CASE \E n \in i + 1 .. j - 1 : Ends(sdp, i, n) /\ Served(sdp, i, n - 1, st.ss)
      <4>1. PICK n \in i + 1 .. j - 1 : Ends(sdp, i, n) /\ Served(sdp, i, n - 1, st.ss)
        BY <3>2
      <4>2. Served(sdp, i, n - 1, t.ss)
        BY <1>3, <1>4, <4>1, ExtendedKeeps DEF Served
      <4>3. n \in i + 1 .. j
        BY <1>1, <3>0
      <4>4. QED
        BY <4>1, <4>2, <4>3
    <3>3. QED
      BY <1>6, <3>0, <3>1, <3>2 DEF Parsed, sdp
  <2>3. QED
    BY <2>1, <2>2
<1>7. Parsed(sdp, j, t)
  BY <1>5, <1>6 DEF Parsed
<1>8. QED
  BY <1>4, <1>7 DEF t, l, sdp

\* sip_parse_msg_media keeps the streams and serves every medium.
LEMMA ParseMediaFacts ==
  ASSUME NEW ss \in Seq(StreamSet), NEW m \in MediaMessages
  PROVE  LET tt == sip_parse_msg_media(ss, m)
         IN  /\ Extended(ss, tt)
             /\ \A i \in 1 .. Len(m.sdp) : Announces(m.sdp, i) =>
                  \E n \in i + 1 .. Len(m.sdp) + 1 : Ends(m.sdp, i, n) /\ Served(m.sdp, i, n - 1, tt)
<1> DEFINE sdp == m.sdp
           n == Len(sdp)
           F == SdpState(ss, m)
           end == F[n]
           tt == AddStreams(end.ss, end.pending)
<1>1. sdp \in Seq(SdpLines) /\ n \in Nat
  BY MessageFacts
<1>2. /\ F[0] = [dst |-> NoAddress, pending |-> <<>>, ss |-> ss]
      /\ \A i \in 0 .. n : F[i] \in SdpPoints
      /\ \A i \in 1 .. n : F[i] = ParseLine(m, F[i - 1], sdp[i])
  BY SdpStateFacts
<1>3. sip_parse_msg_media(ss, m) = tt
  BY DEF sip_parse_msg_media
<1> HIDE DEF F, n
<1> DEFINE G == {i \in 0 .. n : Parsed(sdp, i, F[i]) /\ Extended(ss, F[i].ss)}
<1>4. 0 \in G
  <2>1. F[0].ss = ss /\ 0 \in 0 .. n /\ 1 .. 0 = {}
    BY <1>1, <1>2
  <2>2. QED
    BY <2>1, ExtendedSelf DEF Parsed
<1>5. ASSUME NEW i \in 1 .. n, i - 1 \in G PROVE i \in G
  <2>1. i \in 0 .. n /\ i - 1 \in 0 .. n /\ F[i - 1] \in SdpPoints /\ F[i] = ParseLine(m, F[i - 1], sdp[i])
    BY <1>1, <1>2
  <2>2. Parsed(sdp, i, F[i]) /\ Extended(F[i - 1].ss, F[i].ss)
    BY <1>5, <2>1, ParsedStep DEF n
  <2>3. Extended(ss, F[i].ss)
    BY <1>5, <2>2, ExtendedTrans
  <2>4. QED
    BY <2>1, <2>2, <2>3
<1> HIDE DEF G
<1>6. \A i \in 0 .. n : i \in G
  BY <1>1, <1>4, <1>5, UpTo
<1>7. n \in 0 .. n
  BY <1>1
<1>8. end \in SdpPoints /\ Parsed(sdp, n, end) /\ Extended(ss, end.ss)
  BY <1>2, <1>6, <1>7 DEF G
<1> HIDE DEF end, sdp
<1>9. end.ss \in Seq(StreamSet) /\ end.pending \in Seq(Waiting)
  BY <1>8, PointFacts
<1>10. Extended(end.ss, tt)
  BY <1>9, AddStreamsFacts
<1>11. Extended(ss, tt)
  BY <1>8, <1>10, ExtendedTrans
<1>12. ASSUME NEW i \in 1 .. n, Announces(sdp, i)
       PROVE  \E x \in i + 1 .. n + 1 : Ends(sdp, i, x) /\ Served(sdp, i, x - 1, tt)
  <2>1. CASE /\ \A l \in i + 1 .. n : ~Announces(sdp, l)
             /\ end.pending # <<>> /\ end.pending[2].dst.port = sdp[i].port
             /\ \A k \in 1 .. n : LastC(sdp, k, n) => end.pending[2].dst.ip = sdp[k].ip
    <3>1. end.pending[2].dst \in Addresses /\ HasStreamTo(tt, end.pending[2].dst)
      BY <1>8, <2>1, SecondAdded
    <3>2. n + 1 - 1 = n /\ n + 1 \in i + 1 .. n + 1 /\ n + 1 \notin 1 .. n
      BY <1>1
    <3>3. Ends(sdp, i, n + 1)
      BY <2>1, <3>2 DEF Ends, n, sdp
    <3>4. ASSUME NEW k \in 1 .. n, LastC(sdp, k, n)
          PROVE  HasStreamTo(tt, [ip |-> sdp[k].ip, port |-> sdp[i].port])
      <4>1. end.pending[2].dst.ip = sdp[k].ip /\ end.pending[2].dst.port = sdp[i].port
        BY <2>1, <3>4
      <4>2. end.pending[2].dst = [ip |-> sdp[k].ip, port |-> sdp[i].port]
        BY <3>1, <4>1, AddressFacts
      <4>3. QED
        BY <3>1, <4>2
    <3>5. Served(sdp, i, n, tt)
      BY <3>4 DEF Served
    <3>6. PICK x : x = n + 1
      OBVIOUS
    <3>7. x \in i + 1 .. n + 1 /\ x - 1 = n
      BY <1>1, <3>2, <3>6
    <3>8. Ends(sdp, i, x) /\ Served(sdp, i, x - 1, tt)
      <4> HIDE DEF tt
      <4>1. QED
        BY <3>3, <3>5, <3>6, <3>7
    <3>9. QED
      BY <3>7, <3>8
  <2>2. CASE \E x \in i + 1 .. n : Ends(sdp, i, x) /\ Served(sdp, i, x - 1, end.ss)
    <3>1. PICK x \in i + 1 .. n : Ends(sdp, i, x) /\ Served(sdp, i, x - 1, end.ss)
      BY <2>2
    <3>2. Served(sdp, i, x - 1, tt)
      BY <1>9, <1>10, <3>1, ExtendedKeeps DEF Served
    <3>3. x \in i + 1 .. n + 1
      BY <1>1
    <3>4. QED
      BY <3>1, <3>2, <3>3
  <2>3. QED
    BY <1>8, <1>12, <2>1, <2>2 DEF Parsed
<1>13. QED
  BY <1>3, <1>11, <1>12 DEF n, sdp

\* The c= line of a medium whose place no other medium takes: the last one
\* before the m= line of RTP that follows.
LEMMA ConnectionFacts ==
  ASSUME NEW m \in MediaMessages, NEW i \in 1 .. Len(m.sdp), Announces(m.sdp, i), ~Taken(m.sdp, i),
         NEW n \in i + 1 .. Len(m.sdp) + 1, Ends(m.sdp, i, n)
  PROVE  LET k == ConnectionOf(m.sdp, i)
         IN  k \in 1 .. n - 1 /\ LastC(m.sdp, k, n - 1)
<1> DEFINE sdp == m.sdp
           N == Len(sdp)
           M == {x \in i + 1 .. N : sdp[x].line = "m"}
           nextM == IF M # {} THEN Min(M) ELSE 0
           to == IF nextM = 0 THEN N ELSE nextM - 1
           C == {x \in 1 .. to : sdp[x].line = "c"}
           k == IF C # {} THEN Max(C) ELSE 0
<1>1. ConnectionOf(sdp, i) = k
  BY DEF ConnectionOf, SelectInSubSeq, SelectLastInSubSeq
<1>2. N \in Nat /\ i \in 1 .. N /\ n \in i + 1 .. N + 1 /\ DOMAIN sdp = 1 .. N
  BY MessageFacts
<1>3. M \subseteq 1 .. N
  BY <1>2
<1>4. nextM \in 0 .. N /\ (nextM = 0 <=> M = {}) /\ (nextM # 0 => nextM \in M) /\ \A x \in M : nextM <= x
  <2> HIDE DEF M, N
  <2>1. QED
    BY <1>2, <1>3, FirstFacts
<1>6. PICK g \in 1 .. N : sdp[g].line = "c" /\ \A j \in (i + 1) .. g : sdp[j].line # "m"
  <2>1. i \in DOMAIN sdp /\ sdp[i].line = "m"
    BY <1>2 DEF Announces
  <2>2. QED
    BY <1>2, <2>1, AddressGiven
<1>7. nextM # 0 => i < nextM /\ sdp[nextM].line = "m"
  <2>1. \A x \in M : i < x /\ sdp[x].line = "m"
    BY <1>2
  <2> HIDE DEF nextM
  <2>2. QED
    BY <1>4, <2>1
<1> HIDE DEF nextM
<1>8. to \in 1 .. N /\ to >= i /\ \A x \in i + 1 .. to : sdp[x].line # "m"
  <2>1. CASE nextM = 0
    BY <1>2, <1>4, <2>1
  <2>2. CASE nextM # 0
    <3>1. to = nextM - 1 /\ nextM \in 1 .. N /\ i < nextM
      BY <1>4, <1>7, <2>2
    <3>2. to \in 1 .. N /\ to >= i
      BY <1>2, <3>1
    <3>3. ASSUME NEW x \in i + 1 .. to, sdp[x].line = "m" PROVE FALSE
      <4>1. x \in M
        BY <1>2, <3>2, <3>3
      <4>2. nextM <= x
        BY <1>4, <4>1
      <4>3. QED
        BY <1>2, <3>1, <4>2
    <3>4. QED
      BY <3>2, <3>3
  <2>3. QED
    BY <2>1, <2>2
<1>9. to <= n - 1
  <2>1. CASE n \in 1 .. N
    <3>1. n \in M
      BY <1>2, <2>1 DEF Ends, Announces
    <3>2. nextM # 0 /\ nextM <= n
      BY <1>4, <3>1
    <3>3. QED
      BY <1>2, <1>4, <3>2
  <2>2. CASE n = N + 1
    BY <1>2, <1>8, <2>2
  <2>3. QED
    BY <1>2, <2>1, <2>2
<1>10. g \in 1 .. to
  <2>1. SUFFICES ASSUME g > to PROVE FALSE
    BY <1>8
  <2>2. CASE nextM = 0
    BY <1>2, <2>1, <2>2
  <2>3. CASE nextM # 0
    <3>1. nextM \in (i + 1) .. g
      BY <1>2, <1>4, <1>7, <2>1, <2>3
    <3>2. QED
      BY <1>6, <1>7, <2>3, <3>1
  <2>4. QED
    BY <2>2, <2>3
<1> HIDE DEF to
<1>11. k \in C /\ \A x \in C : x <= k
  <2>1. C \subseteq 1 .. to /\ to \in Nat /\ C # {}
    BY <1>6, <1>8, <1>10
  <2> HIDE DEF C
  <2>2. QED
    BY <2>1, LastFacts
<1>12. k \in 1 .. to /\ sdp[k].line = "c" /\ \A x \in 1 .. to : sdp[x].line = "c" => x <= k
  BY <1>11
<1> HIDE DEF k, C
<1>13. ASSUME NEW x \in k + 1 .. n - 1, sdp[x].line = "c" PROVE FALSE
  <2>1. x \in 1 .. N /\ x > k
    BY <1>2, <1>8, <1>12, <1>13
  <2>2. CASE x <= to
    <3>1. x \in 1 .. to
      BY <1>8, <2>1, <2>2
    <3>2. QED
      BY <1>8, <1>12, <1>13, <2>1, <3>1
  <2>3. CASE x > to
    <3>1. nextM # 0 /\ to = nextM - 1
      BY <1>2, <2>1, <2>3 DEF to
    <3>2. nextM \in 1 .. N /\ i < nextM /\ sdp[nextM].line = "m" /\ nextM <= x
      BY <1>2, <1>4, <1>7, <1>8, <2>1, <2>3, <3>1
    <3>3. nextM < x
      BY <1>13, <2>1, <3>2
    <3>4. \A l \in (i + 1) .. x : ~(sdp[l].line = "m" /\ sdp[l].rtp)
      <4>1. \A l \in i + 1 .. x : l \in i + 1 .. n - 1
        BY <1>2, <1>13, <2>1
      <4>2. QED
        BY <4>1 DEF Ends, Announces
    <3>5. nextM \in DOMAIN sdp /\ x \in DOMAIN sdp
      BY <1>2, <2>1, <3>2
    <3>6. Taken(sdp, i)
      BY <1>13, <3>2, <3>3, <3>4, <3>5 DEF Taken
    <3>7. QED
      BY <3>6
  <2>4. QED
    BY <1>8, <2>1, <2>2, <2>3
<1>14. k \in 1 .. n - 1
  BY <1>2, <1>8, <1>9, <1>12
<1>15. LastC(sdp, k, n - 1)
  BY <1>12, <1>13, <1>14 DEF LastC
<1>16. QED
  BY <1>1, <1>14, <1>15

\* Every medium of a message has its stream in ss.
AllServed(m, ss) ==
  \A i \in DOMAIN m.sdp : Announces(m.sdp, i) /\ ~Taken(m.sdp, i) =>
    HasStreamTo(ss, [ip |-> m.sdp[ConnectionOf(m.sdp, i)].ip, port |-> m.sdp[i].port])

LEMMA MediaServed ==
  ASSUME NEW ss \in Seq(StreamSet), NEW m \in MediaMessages
  PROVE  Extended(ss, sip_parse_msg_media(ss, m)) /\ AllServed(m, sip_parse_msg_media(ss, m))
<1> DEFINE tt == sip_parse_msg_media(ss, m)
<1>1. /\ Extended(ss, tt)
      /\ \A i \in 1 .. Len(m.sdp) : Announces(m.sdp, i) =>
           \E n \in i + 1 .. Len(m.sdp) + 1 : Ends(m.sdp, i, n) /\ Served(m.sdp, i, n - 1, tt)
  BY ParseMediaFacts
<1> HIDE DEF tt
<1>2. DOMAIN m.sdp = 1 .. Len(m.sdp)
  BY MessageFacts
<1>3. ASSUME NEW i \in 1 .. Len(m.sdp), Announces(m.sdp, i), ~Taken(m.sdp, i)
      PROVE  HasStreamTo(tt, [ip |-> m.sdp[ConnectionOf(m.sdp, i)].ip, port |-> m.sdp[i].port])
  <2>1. PICK n \in i + 1 .. Len(m.sdp) + 1 : Ends(m.sdp, i, n) /\ Served(m.sdp, i, n - 1, tt)
    BY <1>1, <1>3
  <2>2. ConnectionOf(m.sdp, i) \in 1 .. n - 1 /\ LastC(m.sdp, ConnectionOf(m.sdp, i), n - 1)
    BY <1>3, <2>1, ConnectionFacts
  <2>3. QED
    BY <2>1, <2>2 DEF Served
<1>4. AllServed(m, tt)
  BY <1>2, <1>3 DEF AllServed
<1>5. QED
  BY <1>1, <1>4 DEF tt

-----------------------------------------------------------------------------
(* The search among all streams.                                           *)

MediaTypeOK ==
  /\ calls_list \in Seq(CallIds)
  /\ call_msgs \in [CallIds -> Seq(MediaMessages)]
  /\ call_streams \in [CallIds -> Seq(StreamSet)]

\* The search visits every stream of every call, and within a call from
\* the newest to the oldest.
LEMMA WalkFacts ==
  ASSUME MediaTypeOK
  PROVE  /\ \A w \in 1 .. Len(Walk) :
              \E c \in Range(calls_list) : \E j \in 1 .. Len(call_streams[c]) :
                /\ Walk[w] = <<c, j>>
                /\ \A k \in j + 1 .. Len(call_streams[c]) : \E v \in 1 .. Len(Walk) : v < w /\ Walk[v] = <<c, k>>
         /\ \A c \in Range(calls_list) : \A j \in 1 .. Len(call_streams[c]) :
              \E w \in 1 .. Len(Walk) : Walk[w] = <<c, j>>
         /\ Len(Walk) \in Nat
<1> DEFINE S == CallIds \X Nat
           ss == [i \in DOMAIN calls_list |-> Places(calls_list[i])]
           t == FlattenSeq(ss)
           n == Len(t)
<1>1. /\ calls_list \in Seq(CallIds) /\ DOMAIN calls_list = 1 .. Len(calls_list) /\ Len(calls_list) \in Nat
      /\ \A i \in 1 .. Len(calls_list) : calls_list[i] \in CallIds
  BY DEF MediaTypeOK
<1>2. ASSUME NEW c \in CallIds
      PROVE  /\ Places(c) \in Seq(S) /\ Len(Places(c)) = Len(call_streams[c])
             /\ \A j \in 1 .. Len(call_streams[c]) : Places(c)[j] = <<c, j>>
  <2>1. call_streams[c] \in Seq(StreamSet)
    BY DEF MediaTypeOK
  <2>2. DOMAIN call_streams[c] = 1 .. Len(call_streams[c]) /\ Len(call_streams[c]) \in Nat
    BY <2>1
  <2>3. \A j \in 1 .. Len(call_streams[c]) : <<c, j>> \in S
    BY <2>2
  <2>4. Places(c) = [j \in 1 .. Len(call_streams[c]) |-> <<c, j>>]
    BY <2>2 DEF Places
  <2> HIDE DEF S
  <2>5. QED
    BY <2>2, <2>3, <2>4
<1> HIDE DEF S
<1>3. ss \in Seq(Seq(S)) /\ Len(ss) = Len(calls_list)
  BY <1>1, <1>2
<1>4. \A b \in 1 .. Len(calls_list) : /\ calls_list[b] \in CallIds /\ calls_list[b] \in Range(calls_list)
                                      /\ ss[b] = Places(calls_list[b])
                                      /\ Len(ss[b]) = Len(call_streams[calls_list[b]])
                                      /\ \A j \in 1 .. Len(ss[b]) : ss[b][j] = <<calls_list[b], j>>
  BY <1>1, <1>2 DEF Range
<1> HIDE DEF ss
<1>5. t \in Seq(S) /\ \E off \in [1 .. Len(ss) -> Nat] : SideBySide(t, ss, off, Len(ss))
  BY <1>3, FlattenFacts
<1>6. PICK off \in [1 .. Len(ss) -> Nat] : SideBySide(t, ss, off, Len(ss))
  BY <1>5
<1>7. n \in Nat
  BY <1>5
<1>8. Walk = Reverse(t)
  BY DEF Walk, ss
<1> HIDE DEF t, n
<1>9. Walk = [i \in 1 .. n |-> t[(n - i) + 1]]
  BY <1>8 DEF Reverse, n
<1>10. Len(Walk) = n /\ \A w \in 1 .. n : Walk[w] = t[(n - w) + 1]
  BY <1>7, <1>9
<1>11. \A x \in 1 .. n : (n - x) + 1 \in 1 .. n /\ Walk[(n - x) + 1] = t[x]
  <2> TAKE x \in 1 .. n
  <2>1. (n - x) + 1 \in 1 .. n /\ (n - ((n - x) + 1)) + 1 = x
    BY <1>7
  <2>2. QED
    BY <1>10, <2>1
<1>12. \A b \in 1 .. Len(ss) : \A j \in 1 .. Len(ss[b]) : off[b] + j \in 1 .. n /\ t[off[b] + j] = ss[b][j] /\ off[b] \in Nat
  BY <1>6 DEF SideBySide, n
<1>13. \A x \in 1 .. n : \E b \in 1 .. Len(ss) : \E j \in 1 .. Len(ss[b]) : x = off[b] + j
  BY <1>6 DEF SideBySide, n
<1>14. ASSUME NEW w \in 1 .. n
       PROVE  \E c \in Range(calls_list) : \E j \in 1 .. Len(call_streams[c]) :
                /\ Walk[w] = <<c, j>>
                /\ \A k \in j + 1 .. Len(call_streams[c]) : \E v \in 1 .. n : v < w /\ Walk[v] = <<c, k>>
  <2>1. (n - w) + 1 \in 1 .. n
    BY <1>7
  <2>2. PICK b \in 1 .. Len(ss) : \E j \in 1 .. Len(ss[b]) : (n - w) + 1 = off[b] + j
    BY <1>13, <2>1
  <2>3. PICK j \in 1 .. Len(ss[b]) : (n - w) + 1 = off[b] + j
    BY <2>2
  <2> DEFINE c == calls_list[b]
  <2>4. /\ c \in Range(calls_list) /\ c \in CallIds /\ Len(ss[b]) = Len(call_streams[c])
        /\ \A i \in 1 .. Len(ss[b]) : ss[b][i] = <<c, i>>
    BY <1>3, <1>4
  <2> HIDE DEF c
  <2>5. Walk[w] = <<c, j>>
    <3>1. Walk[w] = t[(n - w) + 1]
      BY <1>10
    <3>2. t[off[b] + j] = ss[b][j]
      BY <1>12
    <3>3. ss[b][j] = <<c, j>>
      BY <2>4
    <3>4. QED
      BY <2>3, <3>1, <3>2, <3>3
  <2>6. Len(call_streams[c]) \in Nat
    BY <2>4 DEF MediaTypeOK
  <2>7. ASSUME NEW k \in j + 1 .. Len(call_streams[c])
        PROVE  \E v \in 1 .. n : v < w /\ Walk[v] = <<c, k>>
    <3> DEFINE x == off[b] + k
               v == (n - x) + 1
    <3>1. k \in 1 .. Len(ss[b]) /\ k > j
      BY <2>4, <2>6
    <3>2. x \in 1 .. n /\ t[x] = <<c, k>> /\ off[b] \in Nat
      BY <1>12, <2>4, <3>1
    <3>3. v \in 1 .. n /\ Walk[v] = <<c, k>>
      <4> HIDE DEF x
      <4>1. QED
        BY <1>11, <3>2
    <3>4. v < w
      <4> DEFINE d == off[b]
      <4>1. d \in Nat /\ j \in Int /\ k \in Int /\ k > j
        BY <3>1, <3>2
      <4>2. (n - w) + 1 = d + j /\ x = d + k
        BY <2>3
      <4> HIDE DEF d, x
      <4>3. QED
        BY <1>7, <3>2, <4>1, <4>2
    <3>5. QED
      BY <3>3, <3>4
  <2>8. QED
    BY <2>4, <2>5, <2>7
<1>15. ASSUME NEW c \in Range(calls_list), NEW j \in 1 .. Len(call_streams[c])
       PROVE  \E w \in 1 .. n : Walk[w] = <<c, j>>
  <2>1. PICK b \in 1 .. Len(calls_list) : calls_list[b] = c
    BY <1>1 DEF Range
  <2>2. b \in 1 .. Len(ss) /\ j \in 1 .. Len(ss[b]) /\ ss[b][j] = <<c, j>>
    BY <1>3, <1>4, <2>1
  <2>3. off[b] + j \in 1 .. n /\ t[off[b] + j] = <<c, j>>
    BY <1>12, <2>2
  <2>4. QED
    BY <1>11, <2>3
<1>16. QED
  BY <1>7, <1>10, <1>14, <1>15

\* A stream an RTP packet may be counted in, and one of its addresses.
Fits(s, src, dst, format) ==
  s.type = "rtp" /\ s.dst = dst /\ (s.packets # <<>> => s.src = src /\ s.format = format)

Between(s, src, dst) == s.type = "rtp" /\ s.dst = dst /\ s.src = src

\* What the search finds: the newest stream of a call that fits; one between
\* the addresses in a call where none fits; or nothing, as there is none.
FoundStream(found, src, dst, format) ==
  \/ \E c \in Range(calls_list) : \E j \in 1 .. Len(call_streams[c]) :
       /\ found = <<c, j>>
       /\ \/ /\ Fits(call_streams[c][j], src, dst, format)
             /\ \A k \in j + 1 .. Len(call_streams[c]) : ~Fits(call_streams[c][k], src, dst, format)
          \/ /\ Between(call_streams[c][j], src, dst)
             /\ \A k \in 1 .. Len(call_streams[c]) : ~Fits(call_streams[c][k], src, dst, format)
  \/ /\ found = <<>>
     /\ \A c \in Range(calls_list) : \A j \in 1 .. Len(call_streams[c]) : ~Between(call_streams[c][j], src, dst)

LEMMA FormatFacts ==
  ASSUME MediaTypeOK, NEW src, NEW dst, NEW format
  PROVE  FoundStream(rtp_find_stream_format(src, dst, format), src, dst, format)
<1> DEFINE n == Len(Walk)
           E == {w \in 1 .. n : Fits(At(Walk[w]), src, dst, format)}
           B == {w \in 1 .. n : Between(At(Walk[w]), src, dst)}
           exact == IF E # {} THEN Min(E) ELSE 0
           candidate == IF B # {} THEN Max(B) ELSE 0
           found == rtp_find_stream_format(src, dst, format)
<1>1. found = IF exact # 0 THEN Walk[exact] ELSE IF candidate # 0 THEN Walk[candidate] ELSE <<>>
  BY DEF rtp_find_stream_format, SelectInSeq, SelectLastInSeq, Fits, Between, stream_is_complete
<1>2. n \in Nat /\ E \subseteq 1 .. n /\ B \subseteq 1 .. n
  BY WalkFacts
<1>3. exact \in 0 .. n /\ (exact = 0 <=> E = {}) /\ (exact # 0 => exact \in E) /\ \A w \in E : exact <= w
  <2> HIDE DEF E, n
  <2>1. QED
    BY <1>2, FirstFacts
<1>4. candidate \in 0 .. n /\ (candidate = 0 <=> B = {}) /\ (candidate # 0 => candidate \in B)
  <2> HIDE DEF B, n
  <2>1. QED
    BY <1>2, LastFacts
<1>5. \A c, j : At(<<c, j>>) = call_streams[c][j]
  BY DEF At
<1> HIDE DEF found, exact, candidate
<1>6. /\ exact # 0 => exact \in 1 .. n /\ Fits(At(Walk[exact]), src, dst, format)
      /\ \A w \in 1 .. n : Fits(At(Walk[w]), src, dst, format) => exact # 0 /\ exact <= w
      /\ candidate # 0 => candidate \in 1 .. n /\ Between(At(Walk[candidate]), src, dst)
      /\ \A w \in 1 .. n : Between(At(Walk[w]), src, dst) => candidate # 0
  BY <1>3, <1>4
<1> HIDE DEF E, B, n
<1>7. /\ \A w \in 1 .. n :
           \E c \in Range(calls_list) : \E j \in 1 .. Len(call_streams[c]) :
             /\ Walk[w] = <<c, j>>
             /\ \A k \in j + 1 .. Len(call_streams[c]) : \E v \in 1 .. n : v < w /\ Walk[v] = <<c, k>>
      /\ \A c \in Range(calls_list) : \A j \in 1 .. Len(call_streams[c]) : \E w \in 1 .. n : Walk[w] = <<c, j>>
  BY WalkFacts DEF n
<1>8. ASSUME NEW c, NEW j, NEW w \in 1 .. n, Walk[w] = <<c, j>>
      PROVE  /\ At(Walk[w]) = call_streams[c][j]
             /\ Fits(call_streams[c][j], src, dst, format) => exact # 0 /\ exact <= w
             /\ Between(call_streams[c][j], src, dst) => candidate # 0
  <2>1. At(Walk[w]) = call_streams[c][j]
    BY <1>5, <1>8
  <2>2. QED
    BY <1>6, <2>1
<1>9. CASE exact # 0
  <2>1. exact \in 1 .. n
    BY <1>6, <1>9
  <2>2. PICK c \in Range(calls_list) : \E j \in 1 .. Len(call_streams[c]) :
          /\ Walk[exact] = <<c, j>>
          /\ \A k \in j + 1 .. Len(call_streams[c]) : \E v \in 1 .. n : v < exact /\ Walk[v] = <<c, k>>
    BY <1>7, <2>1
  <2>3. PICK j \in 1 .. Len(call_streams[c]) :
          /\ Walk[exact] = <<c, j>>
          /\ \A k \in j + 1 .. Len(call_streams[c]) : \E v \in 1 .. n : v < exact /\ Walk[v] = <<c, k>>
    BY <2>2
  <2>4. found = <<c, j>>
    BY <1>1, <1>9, <2>3
  <2>5. Fits(call_streams[c][j], src, dst, format)
    <3>1. Fits(At(Walk[exact]), src, dst, format)
      BY <1>6, <1>9
    <3>2. QED
      BY <1>8, <2>1, <2>3, <3>1
  <2>6. ASSUME NEW k \in j + 1 .. Len(call_streams[c]), Fits(call_streams[c][k], src, dst, format) PROVE FALSE
    <3>1. PICK v \in 1 .. n : v < exact /\ Walk[v] = <<c, k>>
      BY <2>3
    <3>2. exact <= v
      BY <1>8, <2>6, <3>1
    <3>3. QED
      BY <1>2, <1>3, <3>1, <3>2 DEF n
  <2>7. QED
    BY <2>4, <2>5, <2>6 DEF FoundStream, found
<1>10. CASE exact = 0
  <2>1. ASSUME NEW c \in Range(calls_list), NEW k \in 1 .. Len(call_streams[c])
        PROVE  ~Fits(call_streams[c][k], src, dst, format)
    <3>1. PICK w \in 1 .. n : Walk[w] = <<c, k>>
      BY <1>7
    <3>2. QED
      BY <1>8, <1>10, <3>1
  <2>2. CASE candidate # 0
    <3>1. candidate \in 1 .. n
      BY <1>6, <2>2
    <3>2. PICK c \in Range(calls_list) : \E j \in 1 .. Len(call_streams[c]) : Walk[candidate] = <<c, j>>
      BY <1>7, <3>1
    <3>3. PICK j \in 1 .. Len(call_streams[c]) : Walk[candidate] = <<c, j>>
      BY <3>2
    <3>4. found = <<c, j>>
      BY <1>1, <1>10, <2>2, <3>3
    <3>5. Between(call_streams[c][j], src, dst)
      <4>1. Between(At(Walk[candidate]), src, dst)
        BY <1>6, <2>2
      <4>2. QED
        BY <1>8, <3>1, <3>3, <4>1
    <3>6. QED
      BY <2>1, <3>4, <3>5 DEF FoundStream, found
  <2>3. CASE candidate = 0
    <3>1. found = <<>>
      BY <1>1, <1>10, <2>3
    <3>2. ASSUME NEW c \in Range(calls_list), NEW k \in 1 .. Len(call_streams[c])
          PROVE  ~Between(call_streams[c][k], src, dst)
      <4>1. PICK w \in 1 .. n : Walk[w] = <<c, k>>
        BY <1>7
      <4>2. QED
        BY <1>8, <2>3, <4>1
    <3>3. QED
      BY <3>1, <3>2 DEF FoundStream, found
  <2>4. QED
    BY <2>2, <2>3
<1>11. QED
  BY <1>9, <1>10

-----------------------------------------------------------------------------
(* The streams of a call.                                                  *)

\* The packets of a stream belong together.
UniformStream(s) ==
  \A p \in Range(s.packets) : /\ p.src = s.src /\ p.dst = s.dst
                              /\ s.type = "rtp" <=> data_is_rtp(p)
                              /\ s.type = "rtp" => PayloadType(p) = s.format

SameFlow(s, t) ==
  /\ s.type = "rtp" /\ t.type = "rtp" /\ s.packets # <<>> /\ t.packets # <<>>
  /\ s.src = t.src /\ s.dst = t.dst /\ s.format = t.format

\* Of two streams to one destination the newer one has packets or was made
\* for the opposite direction: SDP announces a destination once.  So a
\* packet that an older stream could take starts no stream that is not
\* marked.
GoodStreams(ss) ==
  /\ \A i \in 1 .. Len(ss) : UniformStream(ss[i])
  /\ \A i, j \in 1 .. Len(ss) : i < j /\ ss[i].dst = ss[j].dst => ss[j].packets # <<>> \/ ss[j].reverse
  /\ \A i, j \in 1 .. Len(ss) : i < j /\ SameFlow(ss[i], ss[j]) => ss[j].reverse

LEMMA EmptyUniform ==
  ASSUME NEW s, s.packets = <<>>
  PROVE  UniformStream(s)
BY DEF UniformStream, Range

LEMMA ExtendedGood ==
  ASSUME NEW ss \in Seq(StreamSet), NEW tt, Extended(ss, tt), GoodStreams(ss)
  PROVE  GoodStreams(tt)
<1>1. Len(ss) \in Nat /\ Len(tt) \in Nat
  BY DEF Extended
<1>2. \A j \in 1 .. Len(tt) : \/ j \in 1 .. Len(ss) /\ tt[j] = ss[j]
                              \/ /\ j \in Len(ss) + 1 .. Len(tt) /\ tt[j].packets = <<>>
                                 /\ \A i \in 1 .. j - 1 : tt[i].dst # tt[j].dst
  <2> TAKE j \in 1 .. Len(tt)
  <2>1. j \in 1 .. Len(ss) \/ j \in Len(ss) + 1 .. Len(tt)
    BY <1>1
  <2>2. QED
    BY <2>1 DEF Extended
<1>3. ASSUME NEW i \in 1 .. Len(tt) PROVE UniformStream(tt[i])
  BY <1>2, EmptyUniform DEF GoodStreams
<1>4. ASSUME NEW i \in 1 .. Len(tt), NEW j \in 1 .. Len(tt), i < j
      PROVE  /\ tt[i].dst = tt[j].dst => tt[j].packets # <<>> \/ tt[j].reverse
             /\ SameFlow(tt[i], tt[j]) => tt[j].reverse
  <2>1. CASE j \in 1 .. Len(ss) /\ tt[j] = ss[j]
    <3>1. i \in 1 .. Len(ss) /\ tt[i] = ss[i]
      BY <1>1, <1>2, <1>4, <2>1
    <3>2. QED
      BY <1>4, <2>1, <3>1 DEF GoodStreams
  <2>2. CASE tt[j].packets = <<>> /\ \A x \in 1 .. j - 1 : tt[x].dst # tt[j].dst
    <3>1. i \in 1 .. j - 1
      BY <1>1, <1>4
    <3>2. QED
      BY <2>2, <3>1 DEF SameFlow
  <2>3. QED
    BY <1>2, <2>1, <2>2
<1>5. QED
  BY <1>3, <1>4 DEF GoodStreams

\* The stream for the opposite direction is added or not.
LEMMA ReverseFacts ==
  ASSUME NEW ss \in Seq(StreamSet), NEW s \in StreamSet
  PROVE  LET tt == WithReverse(ss, s)
         IN  \/ tt = ss
             \/ \E r \in StreamSet : tt = Append(ss, r) /\ r.packets = <<>> /\ r.reverse
<1> DEFINE c == stream_complete(stream_create("rtp", s.src), s.dst, s.format)
           r == [c EXCEPT !.reverse = TRUE]
<1>1. s.src \in Addresses /\ s.dst \in Addresses /\ s.format \in Formats
  BY DEF StreamSet
<1>2. c \in StreamSet /\ c.packets = <<>>
  <2>1. stream_create("rtp", s.src) \in StreamSet /\ stream_create("rtp", s.src).packets = <<>>
    BY <1>1, CreateFacts
  <2>2. QED
    BY <1>1, <2>1, CompleteFacts
<1> HIDE DEF c
<1>3. r \in StreamSet /\ r.packets = <<>> /\ r.reverse
  BY <1>2 DEF StreamSet
<1> HIDE DEF r
<1>4. WithReverse(ss, s) = ss \/ WithReverse(ss, s) = Append(ss, r)
  BY DEF WithReverse, r, c
<1>5. QED
  BY <1>3, <1>4

\* A packet counted in the k-th stream of tt: the others are as they were,
\* or new, without packets, for the opposite direction.
CountedAt(ss, tt, k, p) ==
  /\ tt \in Seq(StreamSet) /\ Len(ss) <= Len(tt) /\ k \in 1 .. Len(tt)
  /\ \A i \in 1 .. Len(ss) : i # k => tt[i] = ss[i]
  /\ \A i \in Len(ss) + 1 .. Len(tt) : i # k => tt[i].packets = <<>> /\ tt[i].reverse
  /\ tt[k].packets = Append(IF k \in 1 .. Len(ss) THEN ss[k].packets ELSE <<>>, p)

LEMMA OnePacket ==
  ASSUME NEW p \in Packets
  PROVE  /\ Range(Append(<<>>, p)) = {p} /\ Append(<<>>, p) # <<>>
         /\ \A q \in Seq(Packets) : Append(q, p) # <<>>
<1>1. ASSUME NEW q \in Seq(Packets)
      PROVE  Append(q, p) # <<>> /\ (q = <<>> => Range(Append(q, p)) = {p})
  <2>1. Append(q, p) \in Seq(Packets) /\ Len(Append(q, p)) = Len(q) + 1 /\ Len(q) \in Nat
        /\ Range(Append(q, p)) = Range(q) \cup {p}
    BY AppendFacts
  <2>2. Len(<<>>) = 0
    OBVIOUS
  <2>3. q = <<>> => Range(q) = {}
    BY DEF Range
  <2>4. QED
    BY <2>1, <2>2, <2>3
<1>2. <<>> \in Seq(Packets)
  OBVIOUS
<1>3. QED
  BY <1>1, <1>2, Zenon

\* The k-th of the streams uu, which is s, is to get a packet; the others
\* are those of ss.
ToCount(ss, uu, s, k) ==
  /\ ss \in Seq(StreamSet) /\ uu \in Seq(StreamSet) /\ s \in StreamSet
  /\ k \in 1 .. Len(uu) /\ Len(ss) <= Len(uu) /\ uu[k] = s
  /\ \A i \in 1 .. Len(ss) : i # k => uu[i] = ss[i]
  /\ \A i \in 1 .. Len(uu) : i \in 1 .. Len(ss) \/ i = k
  /\ s.packets = IF k \in 1 .. Len(ss) THEN ss[k].packets ELSE <<>>

WithPacket(ss, k, p) == [ss EXCEPT ![k] = stream_add_packet(@, p)]

LEMMA AddAt ==
  ASSUME NEW ss, NEW uu, NEW s, NEW k, ToCount(ss, uu, s, k), NEW p \in Packets,
         NEW all, all = uu \/ all = WithReverse(uu, s),
         NEW tt, tt = WithPacket(all, k, p)
  PROVE  CountedAt(ss, tt, k, p) /\ tt[k] = stream_add_packet(s, p)
<1> DEFINE t == stream_add_packet(s, p)
<1>0. /\ ss \in Seq(StreamSet) /\ uu \in Seq(StreamSet) /\ s \in StreamSet
      /\ k \in 1 .. Len(uu) /\ Len(ss) <= Len(uu) /\ uu[k] = s
      /\ \A i \in 1 .. Len(ss) : i # k => uu[i] = ss[i]
      /\ \A i \in 1 .. Len(uu) : i \in 1 .. Len(ss) \/ i = k
      /\ s.packets = IF k \in 1 .. Len(ss) THEN ss[k].packets ELSE <<>>
  BY DEF ToCount
<1>1. /\ t \in StreamSet /\ t.packets = Append(s.packets, p)
  BY <1>0, AddPacketFacts
<1>2. Len(ss) \in Nat /\ Len(uu) \in Nat
  BY <1>0
<1>3. \/ all = uu
      \/ \E r \in StreamSet : all = Append(uu, r) /\ r.packets = <<>> /\ r.reverse
  BY <1>0, ReverseFacts
<1>4. /\ all \in Seq(StreamSet) /\ Len(uu) <= Len(all) /\ Len(all) \in Nat
      /\ \A i \in 1 .. Len(uu) : all[i] = uu[i]
      /\ \A i \in Len(uu) + 1 .. Len(all) : all[i].packets = <<>> /\ all[i].reverse
  <2>1. CASE all = uu
    BY <1>0, <1>2, <2>1
  <2>2. CASE \E r \in StreamSet : all = Append(uu, r) /\ r.packets = <<>> /\ r.reverse
    <3>1. PICK r \in StreamSet : all = Append(uu, r) /\ r.packets = <<>> /\ r.reverse
      BY <2>2
    <3>2. /\ all \in Seq(StreamSet) /\ Len(all) = Len(uu) + 1 /\ all[Len(uu) + 1] = r
          /\ \A i \in 1 .. Len(uu) : all[i] = uu[i]
      BY <1>0, <3>1
    <3>3. \A i \in Len(uu) + 1 .. Len(all) : i = Len(uu) + 1
      BY <1>2, <3>2
    <3>4. QED
      BY <1>2, <3>1, <3>2, <3>3
  <2>3. QED
    BY <1>3, <2>1, <2>2
<1> HIDE DEF t
<1>5. k \in 1 .. Len(all) /\ all[k] = s
  BY <1>0, <1>2, <1>4
<1>6. tt = [all EXCEPT ![k] = t]
  BY <1>5 DEF t, WithPacket
<1>7. /\ tt \in Seq(StreamSet) /\ Len(tt) = Len(all) /\ tt[k] = t
      /\ \A i \in 1 .. Len(all) : i # k => tt[i] = all[i]
  BY <1>1, <1>4, <1>5, <1>6
<1>8. \A i \in 1 .. Len(ss) : i # k => tt[i] = ss[i]
  <2> TAKE i \in 1 .. Len(ss)
  <2>1. i \in 1 .. Len(uu) /\ i \in 1 .. Len(all)
    BY <1>0, <1>2, <1>4
  <2>2. QED
    BY <1>0, <1>4, <1>7, <2>1
<1>9. ASSUME NEW i \in Len(ss) + 1 .. Len(tt), i # k PROVE tt[i].packets = <<>> /\ tt[i].reverse
  <2>1. i \in Len(uu) + 1 .. Len(all)
    <3>1. i \notin 1 .. Len(uu)
      BY <1>0, <1>2, <1>9
    <3>2. QED
      BY <1>0, <1>2, <1>4, <1>7, <3>1
  <2>2. i \in 1 .. Len(all)
    BY <1>2, <2>1
  <2>3. QED
    BY <1>4, <1>7, <1>9, <2>1, <2>2
<1>10. tt[k].packets = Append(IF k \in 1 .. Len(ss) THEN ss[k].packets ELSE <<>>, p)
  BY <1>0, <1>1, <1>7
<1>11. CountedAt(ss, tt, k, p)
  BY <1>0, <1>2, <1>4, <1>5, <1>7, <1>8, <1>9, <1>10 DEF CountedAt
<1>12. QED
  BY <1>7, <1>11 DEF t

\* An RTP packet between the addresses of the j-th stream, or to it while it
\* waits: it is counted there, or in a new stream of its format.
LEMMA CountedFacts ==
  ASSUME NEW ss \in Seq(StreamSet), NEW j \in 1 .. Len(ss), NEW p \in Packets,
         ss[j].type = "rtp", ss[j].dst = p.dst, ss[j].packets # <<>> => ss[j].src = p.src
  PROVE  \E k \in {j, Len(ss) + 1} :
           /\ CountedAt(ss, Counted(ss, j, p), k, p)
           /\ LET t == Counted(ss, j, p)[k]
              IN  /\ t.type = "rtp" /\ t.src = p.src /\ t.dst = p.dst /\ t.format = PayloadType(p)
                  /\ k = j => t.reverse = ss[j].reverse /\ (ss[j].packets # <<>> => ss[j].format = PayloadType(p))
                  /\ k # j => ss[j].packets # <<>> /\ ss[j].format # PayloadType(p)
<1> DEFINE format == PayloadType(p)
           done == ss[j].packets # <<>>
           other == done /\ ss[j].format # format
           n == Len(ss) + 1
           tt == Counted(ss, j, p)
           Goal(k) == /\ CountedAt(ss, tt, k, p)
                      /\ tt[k].type = "rtp" /\ tt[k].src = p.src /\ tt[k].dst = p.dst /\ tt[k].format = format
                      /\ k = j => tt[k].reverse = ss[j].reverse /\ (done => ss[j].format = format)
                      /\ k # j => done /\ ss[j].format # format
<1>1. /\ p.src \in Addresses /\ p.dst \in Addresses /\ format \in Formats
  BY PacketFacts
<1>2. ss[j] \in StreamSet /\ Len(ss) \in Nat /\ j # n
  OBVIOUS
<1> HIDE DEF format
<1>3. CASE other
  <2> DEFINE b == stream_create("rtp", p.dst)
             s == stream_complete(b, p.src, format)
             uu == Append(ss, s)
             all == WithReverse(uu, s)
  <2>1. tt = WithPacket(all, n, p)
    BY <1>3 DEF WithPacket, Counted, format, stream_is_complete
  <2>2. b \in StreamSet /\ b.type = "rtp" /\ b.dst = p.dst /\ b.packets = <<>>
    BY <1>1, CreateFacts
  <2> HIDE DEF b
  <2>3. s \in StreamSet /\ s.src = p.src /\ s.format = format /\ s.dst = p.dst /\ s.type = "rtp" /\ s.packets = <<>>
    BY <1>1, <2>2, CompleteFacts
  <2> HIDE DEF s
  <2>4. /\ uu \in Seq(StreamSet) /\ Len(uu) = n /\ uu[n] = s /\ n \in 1 .. Len(uu) /\ n \notin 1 .. Len(ss)
        /\ \A i \in 1 .. Len(ss) : uu[i] = ss[i]
    BY <1>2, <2>3
  <2>5. \A i \in 1 .. Len(uu) : i \in 1 .. Len(ss) \/ i = n
    BY <1>2, <2>4
  <2>6. Len(ss) <= Len(uu)
    BY <1>2, <2>4
  <2> HIDE DEF uu, tt, all
  <2>7. CountedAt(ss, tt, n, p) /\ tt[n] = stream_add_packet(s, p)
    <3>1. all = uu \/ all = WithReverse(uu, s)
      BY DEF all
    <3>2. s.packets = IF n \in 1 .. Len(ss) THEN ss[n].packets ELSE <<>>
      BY <2>3, <2>4
    <3> HIDE DEF n
    <3>3. ToCount(ss, uu, s, n)
      BY <2>3, <2>4, <2>5, <2>6, <3>2 DEF ToCount
    <3>4. QED
      BY <2>1, <3>1, <3>3, AddAt
  <2>8. tt[n].type = "rtp" /\ tt[n].src = p.src /\ tt[n].dst = p.dst /\ tt[n].format = format
    BY <2>3, <2>7, AddPacketFacts
  <2> HIDE DEF n
  <2>9. Goal(n)
    BY <1>2, <1>3, <2>7, <2>8
  <2>10. QED
    BY <2>9 DEF tt, format, n
<1>4. CASE ~other
  <2> DEFINE s == IF done THEN ss[j] ELSE stream_complete(ss[j], p.src, format)
             uu == [ss EXCEPT ![j] = s]
             all == IF done THEN uu ELSE WithReverse(uu, s)
  <2>1. tt = WithPacket(all, j, p)
    <3>1. CASE done
      BY <1>4, <3>1 DEF Counted, WithPacket, format, stream_is_complete
    <3>2. CASE ~done
      BY <1>4, <3>2 DEF Counted, WithPacket, format, stream_is_complete
    <3>3. QED
      BY <3>1, <3>2
  <2>2. /\ s \in StreamSet /\ s.src = p.src /\ s.format = format /\ s.dst = p.dst /\ s.type = "rtp"
        /\ s.packets = ss[j].packets /\ s.reverse = ss[j].reverse
    <3>1. CASE done
      BY <1>2, <1>4, <3>1
    <3>2. CASE ~done
      BY <1>1, <1>2, <3>2, CompleteFacts
    <3>3. QED
      BY <3>1, <3>2
  <2>3. all = uu \/ all = WithReverse(uu, s)
    BY Zenon
  <2> HIDE DEF s, all, tt
  <2>4. /\ uu \in Seq(StreamSet) /\ Len(uu) = Len(ss) /\ uu[j] = s /\ j \in 1 .. Len(uu)
        /\ \A i \in 1 .. Len(ss) : i # j => uu[i] = ss[i]
    BY <1>2, <2>2
  <2> HIDE DEF uu
  <2>5. /\ Len(ss) <= Len(uu) /\ \A i \in 1 .. Len(uu) : i \in 1 .. Len(ss) \/ i = j
        /\ j \in 1 .. Len(ss)
    BY <1>2, <2>4
  <2>6. CountedAt(ss, tt, j, p) /\ tt[j] = stream_add_packet(s, p)
    <3>1. ToCount(ss, uu, s, j)
      BY <2>2, <2>4, <2>5 DEF ToCount
    <3>2. QED
      BY <2>1, <2>3, <3>1, AddAt
  <2>7. /\ tt[j].type = "rtp" /\ tt[j].src = p.src /\ tt[j].dst = p.dst /\ tt[j].format = format
        /\ tt[j].reverse = ss[j].reverse
    BY <2>2, <2>6, AddPacketFacts
  <2>8. Goal(j)
    BY <1>4, <2>6, <2>7
  <2>9. QED
    BY <2>8 DEF tt, format
<1>5. QED
  BY <1>3, <1>4

\* Counting a packet in the stream the search finds keeps the streams good.
LEMMA CountedGood ==
  ASSUME NEW ss \in Seq(StreamSet), GoodStreams(ss), NEW j \in 1 .. Len(ss), NEW p \in Packets, data_is_rtp(p),
         \/ /\ Fits(ss[j], p.src, p.dst, PayloadType(p))
            /\ \A i \in j + 1 .. Len(ss) : ~Fits(ss[i], p.src, p.dst, PayloadType(p))
         \/ /\ Between(ss[j], p.src, p.dst)
            /\ \A i \in 1 .. Len(ss) : ~Fits(ss[i], p.src, p.dst, PayloadType(p))
  PROVE  /\ GoodStreams(Counted(ss, j, p))
         /\ \E k \in 1 .. Len(Counted(ss, j, p)) : CountedAt(ss, Counted(ss, j, p), k, p)
         /\ \A i \in 1 .. Len(ss) : Counted(ss, j, p)[i].dst = ss[i].dst
<1> DEFINE format == PayloadType(p)
           tt == Counted(ss, j, p)
           Fit(i) == Fits(ss[i], p.src, p.dst, format)
<1>1. ss[j].type = "rtp" /\ ss[j].dst = p.dst /\ (ss[j].packets # <<>> => ss[j].src = p.src)
  BY DEF Fits, Between
<1>2. PICK k \in {j, Len(ss) + 1} :
        /\ CountedAt(ss, tt, k, p)
        /\ tt[k].type = "rtp" /\ tt[k].src = p.src /\ tt[k].dst = p.dst /\ tt[k].format = format
        /\ k = j => tt[k].reverse = ss[j].reverse /\ (ss[j].packets # <<>> => ss[j].format = format)
        /\ k # j => ss[j].packets # <<>> /\ ss[j].format # format
  BY <1>1, CountedFacts
<1> HIDE DEF tt, format
<1>3. /\ tt \in Seq(StreamSet) /\ Len(ss) <= Len(tt) /\ k \in 1 .. Len(tt) /\ Len(ss) \in Nat /\ Len(tt) \in Nat
      /\ \A i \in 1 .. Len(ss) : i # k => tt[i] = ss[i]
      /\ \A i \in Len(ss) + 1 .. Len(tt) : i # k => tt[i].packets = <<>> /\ tt[i].reverse
      /\ tt[k].packets = Append(IF k \in 1 .. Len(ss) THEN ss[k].packets ELSE <<>>, p)
  BY <1>2 DEF CountedAt
<1>4. \A i \in 1 .. Len(tt) : \/ i = k
                              \/ i # k /\ i \in 1 .. Len(ss) /\ tt[i] = ss[i]
                              \/ i # k /\ i \in Len(ss) + 1 .. Len(tt) /\ tt[i].packets = <<>> /\ tt[i].reverse
  BY <1>3
\* In a stream behind the one with the packet, no packet is of its flow; nor
\* is one in any stream if the packet's stream is new.
<1>5. /\ k = j => \A i \in j + 1 .. Len(ss) : ~Fit(i)
      /\ k # j => k = Len(ss) + 1 /\ \A i \in 1 .. Len(ss) : ~Fit(i)
  <2>1. \A i \in j + 1 .. Len(ss) : i \in 1 .. Len(ss)
    OBVIOUS
  <2>2. k # j => ~Fit(j)
    BY <1>2 DEF Fits
  <2>3. QED
    BY <1>2, <2>1, <2>2 DEF format
<1>6. UniformStream(tt[k])
  <2>1. CASE k = j
    <3>0. ss[j] \in StreamSet
      OBVIOUS
    <3>1. k \in 1 .. Len(ss) /\ tt[k].packets = Append(ss[j].packets, p) /\ ss[j].packets \in Seq(Packets)
      BY <1>3, <2>1, <3>0 DEF StreamSet
    <3>2. Range(tt[k].packets) = Range(ss[j].packets) \cup {p}
      BY <3>1, AppendFacts
    <3>3. UniformStream(ss[j])
      BY DEF GoodStreams
    <3>4. ASSUME NEW q \in Range(ss[j].packets)
          PROVE  q.src = p.src /\ q.dst = p.dst /\ data_is_rtp(q) /\ PayloadType(q) = format
      <4>1. ss[j].packets # <<>>
        BY <3>4 DEF Range
      <4>2. ss[j].src = p.src /\ ss[j].dst = p.dst /\ ss[j].format = format /\ ss[j].type = "rtp"
        BY <1>1, <1>2, <2>1, <4>1
      <4>3. QED
        BY <3>3, <3>4, <4>2 DEF UniformStream
    <3>5. QED
      BY <1>2, <3>2, <3>4 DEF UniformStream, format
  <2>2. CASE k # j
    <3>1. k \notin 1 .. Len(ss)
      BY <1>3, <1>5, <2>2
    <3>2. tt[k].packets = Append(<<>>, p)
      BY <1>3, <3>1
    <3>3. Range(Append(<<>>, p)) = {p}
      BY OnePacket
    <3>4. QED
      BY <1>2, <3>2, <3>3 DEF UniformStream, format
  <2>3. QED
    BY <2>1, <2>2
<1>7. ASSUME NEW i \in 1 .. Len(tt) PROVE UniformStream(tt[i])
  BY <1>4, <1>6, EmptyUniform DEF GoodStreams
<1>8. tt[k].packets # <<>>
  <2>1. \A i \in 1 .. Len(ss) : ss[i] \in StreamSet
    OBVIOUS
  <2>2. \A i \in 1 .. Len(ss) : ss[i].packets \in Seq(Packets)
    BY <2>1 DEF StreamSet
  <2>3. CASE k \in 1 .. Len(ss)
    BY <1>3, <2>2, <2>3, OnePacket
  <2>4. CASE k \notin 1 .. Len(ss)
    BY <1>3, <2>4, OnePacket
  <2>5. QED
    BY <2>3, <2>4
<1>9. \A i \in 1 .. Len(ss) : tt[i].dst = ss[i].dst
  <2> TAKE i \in 1 .. Len(ss)
  <2>1. CASE i = k
    BY <1>1, <1>2, <1>3, <1>5, <2>1
  <2>2. CASE i # k
    BY <1>3, <2>2
  <2>3. QED
    BY <2>1, <2>2
<1>10. ASSUME NEW a \in 1 .. Len(tt), NEW b \in 1 .. Len(tt), a < b, tt[a].dst = tt[b].dst
       PROVE  tt[b].packets # <<>> \/ tt[b].reverse
  <2>1. CASE b = k
    BY <1>8, <2>1
  <2>2. CASE b # k /\ b \in 1 .. Len(ss) /\ tt[b] = ss[b]
    <3>1. a \in 1 .. Len(ss)
      BY <1>3, <1>10, <2>2
    <3>2. ss[a].dst = ss[b].dst
      BY <1>9, <1>10, <2>2, <3>1
    <3>3. QED
      BY <1>10, <2>2, <3>1, <3>2 DEF GoodStreams
  <2>3. QED
    BY <1>4, <2>1, <2>2
<1>11. ASSUME NEW a \in 1 .. Len(tt), NEW b \in 1 .. Len(tt), a < b, SameFlow(tt[a], tt[b])
       PROVE  tt[b].reverse
  <2>1. \A i \in 1 .. Len(ss) : i # k /\ (SameFlow(tt[i], tt[k]) \/ SameFlow(tt[k], tt[i])) => Fit(i)
    BY <1>2, <1>3 DEF SameFlow, Fits
  <2>2. CASE b = k
    <3>1. a # k /\ (a \in 1 .. Len(ss) \/ tt[a].packets = <<>>)
      BY <1>4, <1>11, <2>2
    <3>2. a \in 1 .. Len(ss) /\ Fit(a)
      BY <1>11, <2>1, <2>2, <3>1 DEF SameFlow
    <3>3. k = j
      BY <1>5, <3>2
    <3>4. tt[k].reverse = ss[j].reverse
      BY <1>2, <3>3
    <3>5. tt[a] = ss[a] /\ ss[a].dst = ss[j].dst
      BY <1>1, <1>3, <3>1, <3>2 DEF Fits
    <3>6. CASE ss[j].packets = <<>>
      BY <1>11, <2>2, <3>2, <3>3, <3>4, <3>5, <3>6 DEF GoodStreams
    <3>7. CASE ss[j].packets # <<>>
      <4>1. SameFlow(ss[a], ss[j])
        BY <1>1, <1>2, <1>11, <2>2, <3>3, <3>5, <3>7 DEF SameFlow
      <4>2. QED
        BY <1>11, <2>2, <3>2, <3>3, <3>4, <4>1 DEF GoodStreams
    <3>8. QED
      BY <3>6, <3>7
  <2>3. CASE b # k /\ b \in 1 .. Len(ss) /\ tt[b] = ss[b]
    <3>1. a \in 1 .. Len(ss)
      BY <1>3, <1>11, <2>3
    <3>2. CASE a = k
      <4>1. k = j
        BY <1>3, <1>5, <3>1, <3>2
      <4>2. b \in j + 1 .. Len(ss)
        BY <1>11, <2>3, <3>2, <4>1
      <4>3. Fit(b)
        BY <1>11, <2>1, <2>3, <3>2
      <4>4. QED
        BY <1>5, <4>1, <4>2, <4>3
    <3>3. CASE a # k
      BY <1>3, <1>11, <2>3, <3>1, <3>3 DEF GoodStreams
    <3>4. QED
      BY <3>2, <3>3
  <2>4. QED
    BY <1>4, <2>2, <2>3
<1>12. GoodStreams(tt)
  BY <1>7, <1>10, <1>11 DEF GoodStreams
<1>13. QED
  BY <1>2, <1>3, <1>9, <1>12 DEF tt

-----------------------------------------------------------------------------
(* RTCP packets.                                                           *)

ReportInfo == [spc : Nat, voip : Nat]

LEMMA ReadReportFacts ==
  ASSUME NEW info \in ReportInfo, NEW r \in Reports
  PROVE  ReadReport(info, r) \in ReportInfo
<1>1. /\ r.kind = "sr" => r.count \in Nat
      /\ r.kind = "xr" => r.blocks \in Seq([voip : BOOLEAN, value : Nat])
  BY DEF Reports
<1>2. CASE r.kind = "sr"
  BY <1>1, <1>2 DEF ReadReport, ReportInfo
<1>3. CASE r.kind = "xr" /\ \E i \in DOMAIN r.blocks : r.blocks[i].voip
  <2>1. r.blocks \in Seq([voip : BOOLEAN, value : Nat])
    BY <1>1, <1>3
  <2>2. 1 \in 1 .. Len(r.blocks)
    BY <1>3, <2>1
  <2>3. r.blocks[1] \in [voip : BOOLEAN, value : Nat]
    <3>1. \A S : \A q \in Seq(S) : 1 \in 1 .. Len(q) => q[1] \in S
      OBVIOUS
    <3>2. QED
      BY <2>1, <2>2, <3>1, Zenon
  <2>4. r.blocks[1].value \in Nat
    BY <2>3
  <2>5. ReadReport(info, r) = [info EXCEPT !.voip = r.blocks[1].value]
    BY <1>3 DEF ReadReport
  <2>6. QED
    BY <2>4, <2>5 DEF ReportInfo
<1>4. CASE r.kind # "sr" /\ ~(r.kind = "xr" /\ \E i \in DOMAIN r.blocks : r.blocks[i].voip)
  BY <1>4 DEF ReadReport
<1>5. QED
  BY <1>2, <1>3, <1>4

LEMMA ReadReportsFacts ==
  ASSUME NEW info \in ReportInfo, NEW rs \in Seq(Reports)
  PROVE  ReadReports(info, rs) \in ReportInfo
<1> DEFINE I == {i \in 1 .. Len(rs) : ~rs[i].whole \/ rs[i].kind = "unknown"}
           stop == IF I # {} THEN Min(I) ELSE 0
           n == IF stop = 0 THEN Len(rs) ELSE stop - 1
           T == ReportInfo
           step == [i \in 1 .. n |-> [t \in T |-> ReadReport(t, rs[i])]]
           eq(f) == [i \in 0 .. n |-> IF i = 0 THEN info ELSE ReadReport(f[i - 1], rs[i])]
           F == CHOOSE f : f = eq(f)
<1>1. ReadReports(info, rs) = F[n]
  BY DEF ReadReports, SelectInSeq
<1>2. Len(rs) \in Nat /\ I \subseteq 1 .. Len(rs)
  OBVIOUS
<1>3. stop \in 0 .. Len(rs)
  <2> HIDE DEF I
  <2>1. QED
    BY <1>2, FirstFacts
<1> HIDE DEF stop
<1>4. n \in 0 .. Len(rs)
  BY <1>2, <1>3
<1>5. n \in Nat /\ info \in T /\ \A i \in 1 .. n : rs[i] \in Reports
  BY <1>2, <1>4
<1> HIDE DEF n
<1>6. \A t \in T, i \in 1 .. n : ReadReport(t, rs[i]) \in T
  BY <1>5, ReadReportFacts
<1>7. step \in [1 .. n -> [T -> T]]
  BY <1>6
<1>8. \A i \in 1 .. n, t \in T : step[i][t] = ReadReport(t, rs[i])
  OBVIOUS
<1> HIDE DEF T, step
<1>9. PICK g : IsRecursion(g, n, T, info, step)
  BY <1>5, <1>7, RecursiveFunction
<1>10. g \in [0 .. n -> T] /\ g[0] = info /\ \A i \in 1 .. n : g[i] = step[i][g[i - 1]]
  BY <1>9 DEF IsRecursion
<1>11. \A i \in 1 .. n : i - 1 \in 0 .. n /\ g[i] = ReadReport(g[i - 1], rs[i])
  <2>1. \A i \in 1 .. n : i - 1 \in 0 .. n
    BY <1>5
  <2>2. QED
    BY <1>8, <1>10, <2>1
<1>12. g = eq(g)
  BY <1>5, <1>10, <1>11
<1>13. F = eq(F)
  BY <1>12
<1> HIDE DEF F
<1>14. 0 \in 0 .. n /\ F[0] = info
  BY <1>5, <1>13
<1>15. \A i \in 1 .. n : i \in 0 .. n /\ i - 1 \in 0 .. n /\ F[i] = ReadReport(F[i - 1], rs[i])
  BY <1>5, <1>13
<1> DEFINE G == {i \in 0 .. n : F[i] \in T}
<1>16. 0 \in G
  BY <1>5, <1>14
<1>17. ASSUME NEW i \in 1 .. n, i - 1 \in G PROVE i \in G
  BY <1>5, <1>6, <1>15, <1>17
<1> HIDE DEF G
<1>18. \A i \in 0 .. n : i \in G
  BY <1>5, <1>16, <1>17, UpTo
<1>19. n \in G
  BY <1>5, <1>18
<1>20. QED
  BY <1>1, <1>19 DEF G, T

LEMMA RtcpFoundFacts ==
  ASSUME MediaTypeOK, NEW src, NEW dst, src.port # 0
  PROVE  LET found == rtp_find_rtcp_stream(src, dst)
         IN  \/ found = <<>>
             \/ \E c \in Range(calls_list) : \E j \in 1 .. Len(call_streams[c]) :
                  /\ found = <<c, j>> /\ call_streams[c][j].type = "rtcp" /\ call_streams[c][j].dst = dst
                  /\ call_streams[c][j].packets # <<>> => call_streams[c][j].src = src
<1> DEFINE Newest(c) == rtp_find_call_stream(call_streams[c], src, dst)
           n == Len(calls_list)
           I == {i \in 1 .. n : Newest(calls_list[i]) # 0 /\ call_streams[calls_list[i]][Newest(calls_list[i])].type = "rtcp"}
           i == IF I # {} THEN Max(I) ELSE 0
           found == rtp_find_rtcp_stream(src, dst)
<1>1. found = IF i = 0 THEN <<>> ELSE <<calls_list[i], Newest(calls_list[i])>>
  BY DEF rtp_find_rtcp_stream, SelectLastInSeq
<1>2. n \in Nat /\ I \subseteq 1 .. n /\ DOMAIN calls_list = 1 .. n /\ calls_list \in Seq(CallIds)
  BY DEF MediaTypeOK
<1>3. i \in 0 .. n /\ (i # 0 => i \in I)
  <2> HIDE DEF I, n
  <2>1. QED
    BY <1>2, LastFacts
<1> HIDE DEF i
<1>4. CASE i = 0
  BY <1>1, <1>4
<1>5. CASE i # 0
  <2> DEFINE c == calls_list[i]
             j == Newest(c)
  <2>1. i \in 1 .. n /\ j # 0 /\ call_streams[c][j].type = "rtcp"
    BY <1>3, <1>5
  <2>2. c \in Range(calls_list) /\ c \in CallIds
    BY <1>2, <2>1 DEF Range
  <2>3. call_streams[c] \in Seq(StreamSet)
    BY <2>2 DEF MediaTypeOK
  <2>4. found = <<c, j>>
    BY <1>1, <1>5
  <2> HIDE DEF c, n
  <2>5. j \in 1 .. Len(call_streams[c]) /\ call_streams[c][j].dst = dst
        /\ (call_streams[c][j].packets # <<>> => call_streams[c][j].src = src)
    BY <2>1, <2>3, FoundFacts
  <2>6. QED
    BY <2>1, <2>2, <2>4, <2>5
<1>6. QED
  BY <1>4, <1>5

\* An RTCP packet counted in a stream of its kind.
LEMMA RtcpCounted ==
  ASSUME NEW ss \in Seq(StreamSet), GoodStreams(ss), NEW j \in 1 .. Len(ss), NEW p \in Packets, ~data_is_rtp(p),
         ss[j].type = "rtcp", ss[j].dst = p.dst, ss[j].packets # <<>> => ss[j].src = p.src
  PROVE  LET tt == Reported(ss, j, p)
         IN  /\ tt \in Seq(StreamSet) /\ GoodStreams(tt) /\ Len(tt) = Len(ss)
             /\ \A i \in 1 .. Len(ss) : tt[i].dst = ss[i].dst
<1> DEFINE info == ReadReports(ss[j].rtcp, p.reports)
           s == [ss[j] EXCEPT !.src = p.src, !.rtcp = info]
           t == stream_add_packet(s, p)
           tt == [ss EXCEPT ![j] = t]
<1>0. Reported(ss, j, p) = tt
  BY DEF Reported
<1>1. ss[j] \in StreamSet /\ p.src \in Addresses /\ p.reports \in Seq(Reports)
  BY PacketFacts
<1>2. info \in ReportInfo
  <2>1. ss[j].rtcp \in ReportInfo
    BY <1>1 DEF StreamSet, ReportInfo
  <2>2. QED
    BY <1>1, <2>1, ReadReportsFacts
<1> HIDE DEF info
<1>3. /\ s \in StreamSet /\ s.src = p.src /\ s.type = "rtcp" /\ s.dst = p.dst /\ s.packets = ss[j].packets
      /\ s.reverse = ss[j].reverse
  BY <1>1, <1>2 DEF StreamSet, ReportInfo
<1> HIDE DEF s
<1>4. /\ t \in StreamSet /\ t.src = p.src /\ t.dst = p.dst /\ t.type = "rtcp" /\ t.packets # <<>>
      /\ Range(t.packets) = Range(ss[j].packets) \cup {p}
  BY <1>3, AddPacketFacts
<1> HIDE DEF t
<1>5. tt \in Seq(StreamSet) /\ Len(tt) = Len(ss) /\ tt[j] = t /\ \A i \in 1 .. Len(ss) : i # j => tt[i] = ss[i]
  BY <1>4
<1> HIDE DEF tt
<1>6. UniformStream(t)
  <2>1. UniformStream(ss[j])
    BY DEF GoodStreams
  <2>2. ASSUME NEW q \in Range(ss[j].packets) PROVE q.src = p.src /\ q.dst = p.dst /\ ~data_is_rtp(q)
    <3>1. ss[j].packets # <<>>
      BY <2>2 DEF Range
    <3>2. QED
      BY <2>1, <2>2, <3>1 DEF UniformStream
  <2>3. QED
    BY <1>4, <2>2 DEF UniformStream
<1>7. \A i \in 1 .. Len(tt) : UniformStream(tt[i])
  BY <1>5, <1>6 DEF GoodStreams
<1>8. \A i \in 1 .. Len(ss) : tt[i].dst = ss[i].dst
  BY <1>4, <1>5
<1>9. ASSUME NEW a \in 1 .. Len(tt), NEW b \in 1 .. Len(tt), a < b
      PROVE  /\ tt[a].dst = tt[b].dst => tt[b].packets # <<>> \/ tt[b].reverse
             /\ SameFlow(tt[a], tt[b]) => tt[b].reverse
  <2>1. tt[a].dst = tt[b].dst => tt[b].packets # <<>> \/ tt[b].reverse
    BY <1>4, <1>5, <1>8, <1>9 DEF GoodStreams
  <2>2. SameFlow(tt[a], tt[b]) => a # j /\ b # j
    BY <1>4, <1>5 DEF SameFlow
  <2>3. SameFlow(tt[a], tt[b]) => tt[b].reverse
    BY <1>5, <1>9, <2>2 DEF GoodStreams
  <2>4. QED
    BY <2>1, <2>3
<1>10. GoodStreams(tt)
  BY <1>7, <1>9 DEF GoodStreams
<1>11. QED
  BY <1>0, <1>5, <1>8, <1>10

-----------------------------------------------------------------------------
(* The invariant.                                                          *)

\* Only calls of the list have streams; the streams of each are good; and
\* every message of a dialog that began with an INVITE is served.
MediaInv ==
  /\ MediaTypeOK
  /\ \A c \in CallIds : call_streams[c] # <<>> => c \in Range(calls_list)
  /\ \A c \in CallIds : GoodStreams(call_streams[c])
  /\ \A c \in CallIds : \A n \in 1 .. Len(call_msgs[c]) :
       call_msgs[c][1].invite => AllServed(call_msgs[c][n], call_streams[c])

LEMMA InvFacts ==
  ASSUME MediaInv, NEW c \in CallIds
  PROVE  /\ call_streams[c] \in Seq(StreamSet) /\ call_msgs[c] \in Seq(MediaMessages) /\ GoodStreams(call_streams[c])
         /\ call_streams[c] # <<>> => c \in Range(calls_list)
         /\ \A n \in 1 .. Len(call_msgs[c]) :
              call_msgs[c][1].invite => AllServed(call_msgs[c][n], call_streams[c])
BY DEF MediaInv, MediaTypeOK

LEMMA ListFacts ==
  ASSUME MediaInv
  PROVE  calls_list \in Seq(CallIds) /\ Range(calls_list) \subseteq CallIds
BY DEF MediaInv, MediaTypeOK, Range

\* A message stays served while streams keep their place and destination.
LEMMA ServedKept ==
  ASSUME NEW m, NEW ss, NEW tt, Len(ss) \in Nat, Len(tt) \in Nat, Len(ss) <= Len(tt),
         \A i \in 1 .. Len(ss) : tt[i].dst = ss[i].dst, AllServed(m, ss)
  PROVE  AllServed(m, tt)
<1>1. \A dst : HasStreamTo(ss, dst) => HasStreamTo(tt, dst)
  <2>1. \A i \in 1 .. Len(ss) : i \in 1 .. Len(tt)
    OBVIOUS
  <2>2. QED
    BY <2>1 DEF HasStreamTo
<1>2. QED
  BY <1>1 DEF AllServed

\* The streams of one call change: the rest of the invariant follows.
LEMMA OneCall ==
  ASSUME MediaInv, NEW c \in CallIds, NEW tt \in Seq(StreamSet), c \in Range(calls_list),
         GoodStreams(tt), Len(call_streams[c]) <= Len(tt),
         \A i \in 1 .. Len(call_streams[c]) : tt[i].dst = call_streams[c][i].dst,
         call_streams' = [call_streams EXCEPT ![c] = tt], UNCHANGED <<calls_list, call_msgs>>
  PROVE  MediaInv'
<1>1. /\ call_streams' \in [CallIds -> Seq(StreamSet)] /\ call_streams'[c] = tt
      /\ \A d \in CallIds : d # c => call_streams'[d] = call_streams[d]
  BY DEF MediaInv, MediaTypeOK
<1>2. MediaTypeOK'
  BY <1>1 DEF MediaInv, MediaTypeOK
<1>3. ASSUME NEW d \in CallIds
      PROVE  /\ call_streams'[d] # <<>> => d \in Range(calls_list)'
             /\ GoodStreams(call_streams[d])'
             /\ \A n \in 1 .. Len(call_msgs'[d]) :
                  call_msgs'[d][1].invite => AllServed(call_msgs'[d][n], call_streams'[d])
  <2>1. /\ call_streams[d] \in Seq(StreamSet) /\ GoodStreams(call_streams[d])
        /\ call_streams[d] # <<>> => d \in Range(calls_list)
        /\ \A n \in 1 .. Len(call_msgs[d]) :
              call_msgs[d][1].invite => AllServed(call_msgs[d][n], call_streams[d])
    BY InvFacts
  <2>2. CASE d = c
    <3>1. Len(call_streams[c]) \in Nat /\ Len(tt) \in Nat
      BY <2>1, <2>2
    <3>2. \A m : AllServed(m, call_streams[c]) => AllServed(m, tt)
      BY <3>1, ServedKept
    <3>3. QED
      BY <1>1, <2>1, <2>2, <3>2
  <2>3. CASE d # c
    BY <1>1, <2>1, <2>3
  <2>4. QED
    BY <2>2, <2>3
<1>4. QED
  BY <1>2, <1>3 DEF MediaInv

LEMMA MediaInvInit == MediaInit => MediaInv
<1> SUFFICES ASSUME MediaInit PROVE MediaInv
  OBVIOUS
<1>1. /\ calls_list = <<>> /\ \A c \in CallIds : call_msgs[c] = <<>> /\ call_streams[c] = <<>>
  BY DEF MediaInit
<1>2. MediaTypeOK
  BY DEF MediaInit, MediaTypeOK
<1>3. GoodStreams(<<>>)
  BY DEF GoodStreams
<1>4. QED
  BY <1>1, <1>2, <1>3 DEF MediaInv

LEMMA MessageInv ==
  ASSUME MediaInv, NEW m \in MediaMessages, SipMessage(m)
  PROVE  MediaInv'
<1> DEFINE c == m.call
           ms == call_msgs[c]
           all == Append(ms, m)
           ss == call_streams[c]
           known == c \in Range(calls_list)
<1>1. CASE UNCHANGED <<calls_list, call_msgs, call_streams>>
  BY <1>1 DEF MediaInv, MediaTypeOK
<1>2. CASE /\ calls_list' = IF known THEN calls_list ELSE Append(calls_list, c)
           /\ call_msgs' = [call_msgs EXCEPT ![c] = all]
           /\ call_streams' = IF all[1].invite /\ ~call_msg_retrans_check(ms, m)
                              THEN [call_streams EXCEPT ![c] = sip_parse_msg_media(@, m)]
                              ELSE call_streams
  <2>0. c \in CallIds
    BY MessageFacts
  <2>1. /\ ss \in Seq(StreamSet) /\ ms \in Seq(MediaMessages) /\ GoodStreams(ss)
        /\ \A n \in 1 .. Len(ms) : ms[1].invite => AllServed(ms[n], ss)
    BY <2>0, InvFacts
  <2>2. /\ all \in Seq(MediaMessages) /\ Len(all) = Len(ms) + 1 /\ Len(ms) \in Nat /\ all[Len(ms) + 1] = m
        /\ \A n \in 1 .. Len(ms) : all[n] = ms[n]
    BY <2>1
  <2> HIDE DEF all
  <2>3. calls_list' \in Seq(CallIds) /\ Range(calls_list') = Range(calls_list) \cup {c}
    <3>1. calls_list \in Seq(CallIds)
      BY ListFacts
    <3>2. CASE known
      BY <1>2, <3>1, <3>2
    <3>3. CASE ~known
      <4>1. calls_list' = Append(calls_list, c)
        BY <1>2, <3>3
      <4> HIDE DEF c
      <4>2. QED
        BY <2>0, <3>1, <4>1, AppendFacts
    <3>4. QED
      BY <3>2, <3>3
  <2> DEFINE tt == IF all[1].invite /\ ~call_msg_retrans_check(ms, m) THEN sip_parse_msg_media(ss, m) ELSE ss
  <2>4. Extended(ss, tt) /\ (all[1].invite => AllServed(m, tt))
    <3>1. CASE all[1].invite /\ ~call_msg_retrans_check(ms, m)
      <4>1. tt = sip_parse_msg_media(ss, m)
        BY <3>1
      <4>2. QED
        BY <2>1, <4>1, MediaServed
    <3>2. CASE all[1].invite /\ call_msg_retrans_check(ms, m)
      <4> DEFINE I == {i \in 1 .. Len(ms) : ms[i].src = m.src /\ ms[i].dst = m.dst}
                 prev == IF I # {} THEN Max(I) ELSE 0
      <4>1. prev # 0 /\ ms[prev] = m
        BY <3>2 DEF call_msg_retrans_check, SelectLastInSeq
      <4>2. I \subseteq 1 .. Len(ms)
        OBVIOUS
      <4>3. prev \in 0 .. Len(ms)
        <5> HIDE DEF I
        <5>1. QED
          BY <2>2, <4>2, LastFacts
      <4> HIDE DEF prev
      <4>4. prev \in 1 .. Len(ms) /\ 1 \in 1 .. Len(ms)
        BY <2>2, <4>1, <4>3
      <4>5. AllServed(m, ss)
        BY <2>1, <2>2, <3>2, <4>1, <4>4
      <4>6. tt = ss
        BY <3>2
      <4>7. QED
        BY <2>1, <4>5, <4>6, ExtendedSelf
    <3>3. CASE ~all[1].invite
      BY <2>1, <3>3, ExtendedSelf
    <3>4. QED
      BY <3>1, <3>2, <3>3
  <2>5. /\ tt \in Seq(StreamSet) /\ GoodStreams(tt) /\ Len(ss) <= Len(tt) /\ Len(ss) \in Nat /\ Len(tt) \in Nat
        /\ \A i \in 1 .. Len(ss) : tt[i].dst = ss[i].dst
    <3>1. GoodStreams(tt)
      BY <2>1, <2>4, ExtendedGood
    <3>2. QED
      BY <2>1, <2>4, <3>1 DEF Extended
  <2>6. call_streams \in [CallIds -> Seq(StreamSet)] /\ call_msgs \in [CallIds -> Seq(MediaMessages)]
    BY DEF MediaInv, MediaTypeOK
  <2>7. call_streams' = [call_streams EXCEPT ![c] = tt]
    <3>1. CASE all[1].invite /\ ~call_msg_retrans_check(ms, m)
      BY <1>2, <3>1
    <3>2. CASE ~(all[1].invite /\ ~call_msg_retrans_check(ms, m))
      <4>1. call_streams' = call_streams /\ tt = call_streams[c]
        BY <1>2, <3>2
      <4> HIDE DEF tt
      <4>2. QED
        BY <2>6, <4>1
    <3>3. QED
      BY <3>1, <3>2
  <2> HIDE DEF tt
  <2>8. /\ call_streams' \in [CallIds -> Seq(StreamSet)] /\ call_streams'[c] = tt
        /\ call_msgs' \in [CallIds -> Seq(MediaMessages)] /\ call_msgs'[c] = all
        /\ \A d \in CallIds : d # c => call_streams'[d] = call_streams[d] /\ call_msgs'[d] = call_msgs[d]
    <3> HIDE DEF c, ms, ss
    <3>1. call_msgs' = [call_msgs EXCEPT ![c] = all]
      BY <1>2
    <3>2. QED
      BY <2>0, <2>2, <2>5, <2>6, <2>7, <3>1
  <2>9. MediaTypeOK'
    BY <2>3, <2>8 DEF MediaTypeOK
  <2>10. ASSUME NEW d \in CallIds
         PROVE  /\ call_streams'[d] # <<>> => d \in Range(calls_list)'
                /\ GoodStreams(call_streams[d])'
                /\ \A n \in 1 .. Len(call_msgs'[d]) :
                     call_msgs'[d][1].invite => AllServed(call_msgs'[d][n], call_streams'[d])
    <3>1. CASE d = c
      <4>1. ASSUME NEW n \in 1 .. Len(all), all[1].invite PROVE AllServed(all[n], tt)
        <5>1. CASE n = Len(ms) + 1
          BY <2>2, <2>4, <4>1, <5>1
        <5>2. CASE n # Len(ms) + 1
          <6>1. n \in 1 .. Len(ms) /\ 1 \in 1 .. Len(ms)
            BY <2>2, <5>2
          <6>2. AllServed(ms[n], ss)
            BY <2>1, <2>2, <4>1, <6>1
          <6>3. AllServed(ms[n], tt)
            BY <2>5, <6>2, ServedKept
          <6>4. QED
            BY <2>2, <6>1, <6>3
        <5>3. QED
          BY <5>1, <5>2
      <4>2. QED
        BY <2>3, <2>5, <2>8, <3>1, <4>1
    <3>2. CASE d # c
      <4>1. /\ GoodStreams(call_streams[d]) /\ (call_streams[d] # <<>> => d \in Range(calls_list))
            /\ \A n \in 1 .. Len(call_msgs[d]) :
                 call_msgs[d][1].invite => AllServed(call_msgs[d][n], call_streams[d])
        BY InvFacts
      <4>2. QED
        BY <2>3, <2>8, <3>2, <4>1
    <3>3. QED
      BY <3>1, <3>2
  <2>11. QED
    BY <2>9, <2>10 DEF MediaInv
<1>3. QED
  BY <1>1, <1>2 DEF SipMessage

LEMMA RtpInv ==
  ASSUME MediaInv, NEW p \in Packets, RtpPacket(p), UNCHANGED <<calls_list, call_msgs>>
  PROVE  MediaInv'
<1> DEFINE found == rtp_find_stream_format(p.src, p.dst, PayloadType(p))
<1>1. FoundStream(found, p.src, p.dst, PayloadType(p))
  BY FormatFacts DEF MediaInv
<1>2. /\ data_is_rtp(p)
      /\ call_streams' = IF found = <<>> THEN call_streams
                         ELSE [call_streams EXCEPT ![found[1]] = Counted(@, found[2], p)]
  BY DEF RtpPacket
<1> HIDE DEF found
<1>3. CASE found = <<>>
  <2>1. call_streams' = call_streams
    BY <1>2, <1>3
  <2>2. QED
    BY <2>1 DEF MediaInv, MediaTypeOK
<1>4. CASE found # <<>>
  <2>1. PICK c \in Range(calls_list) : \E j \in 1 .. Len(call_streams[c]) :
          /\ found = <<c, j>>
          /\ \/ /\ Fits(call_streams[c][j], p.src, p.dst, PayloadType(p))
                /\ \A k \in j + 1 .. Len(call_streams[c]) : ~Fits(call_streams[c][k], p.src, p.dst, PayloadType(p))
             \/ /\ Between(call_streams[c][j], p.src, p.dst)
                /\ \A k \in 1 .. Len(call_streams[c]) : ~Fits(call_streams[c][k], p.src, p.dst, PayloadType(p))
    BY <1>1, <1>4 DEF FoundStream
  <2>2. PICK j \in 1 .. Len(call_streams[c]) :
          /\ found = <<c, j>>
          /\ \/ /\ Fits(call_streams[c][j], p.src, p.dst, PayloadType(p))
                /\ \A k \in j + 1 .. Len(call_streams[c]) : ~Fits(call_streams[c][k], p.src, p.dst, PayloadType(p))
             \/ /\ Between(call_streams[c][j], p.src, p.dst)
                /\ \A k \in 1 .. Len(call_streams[c]) : ~Fits(call_streams[c][k], p.src, p.dst, PayloadType(p))
    BY <2>1
  <2> DEFINE ss == call_streams[c]
             tt == Counted(ss, j, p)
  <2>3. c \in CallIds
    BY ListFacts
  <2>4. ss \in Seq(StreamSet) /\ GoodStreams(ss)
    BY <2>3, InvFacts
  <2>5. call_streams' = [call_streams EXCEPT ![c] = tt]
    BY <1>2, <1>4, <2>2
  <2>6. /\ GoodStreams(tt) /\ \E k \in 1 .. Len(tt) : CountedAt(ss, tt, k, p)
        /\ \A i \in 1 .. Len(ss) : tt[i].dst = ss[i].dst
    <3> HIDE DEF ss
    <3>1. QED
      BY <1>2, <2>2, <2>4, CountedGood DEF ss
  <2> HIDE DEF tt
  <2>7. tt \in Seq(StreamSet) /\ Len(ss) <= Len(tt)
    BY <2>6 DEF CountedAt
  <2>8. QED
    BY <2>3, <2>5, <2>6, <2>7, OneCall
<1>5. QED
  BY <1>3, <1>4

LEMMA RtcpInv ==
  ASSUME MediaInv, NEW p \in Packets, RtcpPacket(p), UNCHANGED <<calls_list, call_msgs>>
  PROVE  MediaInv'
<1> DEFINE found == rtp_find_rtcp_stream(p.src, p.dst)
<1>0. ~data_is_rtp(p) /\ p.src.port # 0
  BY SourceAssumption DEF RtcpPacket
<1>1. \/ found = <<>>
      \/ \E c \in Range(calls_list) : \E j \in 1 .. Len(call_streams[c]) :
           /\ found = <<c, j>> /\ call_streams[c][j].type = "rtcp" /\ call_streams[c][j].dst = p.dst
           /\ call_streams[c][j].packets # <<>> => call_streams[c][j].src = p.src
  BY <1>0, RtcpFoundFacts DEF MediaInv
<1>2. call_streams' = IF found = <<>> THEN call_streams
                      ELSE [call_streams EXCEPT ![found[1]] = Reported(@, found[2], p)]
  BY DEF RtcpPacket
<1> HIDE DEF found
<1>3. CASE found = <<>>
  <2>1. call_streams' = call_streams
    BY <1>2, <1>3
  <2>2. QED
    BY <2>1 DEF MediaInv, MediaTypeOK
<1>4. CASE found # <<>>
  <2>1. PICK c \in Range(calls_list) : \E j \in 1 .. Len(call_streams[c]) :
           /\ found = <<c, j>> /\ call_streams[c][j].type = "rtcp" /\ call_streams[c][j].dst = p.dst
           /\ call_streams[c][j].packets # <<>> => call_streams[c][j].src = p.src
    BY <1>1, <1>4
  <2>2. PICK j \in 1 .. Len(call_streams[c]) :
           /\ found = <<c, j>> /\ call_streams[c][j].type = "rtcp" /\ call_streams[c][j].dst = p.dst
           /\ call_streams[c][j].packets # <<>> => call_streams[c][j].src = p.src
    BY <2>1
  <2> DEFINE ss == call_streams[c]
             tt == Reported(ss, j, p)
  <2>3. c \in CallIds
    BY ListFacts
  <2>4. ss \in Seq(StreamSet) /\ GoodStreams(ss)
    BY <2>3, InvFacts
  <2>5. call_streams' = [call_streams EXCEPT ![c] = tt]
    BY <1>2, <1>4, <2>2
  <2>6. /\ tt \in Seq(StreamSet) /\ GoodStreams(tt) /\ Len(tt) = Len(ss)
        /\ \A i \in 1 .. Len(ss) : tt[i].dst = ss[i].dst
    <3> HIDE DEF ss
    <3>1. QED
      BY <1>0, <2>2, <2>4, RtcpCounted DEF ss
  <2> HIDE DEF tt
  <2>7. Len(ss) <= Len(tt)
    BY <2>4, <2>6
  <2>8. QED
    BY <2>3, <2>5, <2>6, <2>7, OneCall
<1>5. QED
  BY <1>3, <1>4

LEMMA MediaInvStep == MediaInv /\ [MediaNext]_mediaVars => MediaInv'
<1> SUFFICES ASSUME MediaInv, [MediaNext]_mediaVars PROVE MediaInv'
  OBVIOUS
<1>1. CASE \E m \in MediaMessages : SipMessage(m)
  BY <1>1, MessageInv
<1>2. CASE \E p \in Packets : MediaPacket(p)
  BY <1>2, RtpInv, RtcpInv DEF MediaPacket
<1>3. CASE Clear
  <2>1. /\ calls_list' = <<>> /\ \A c \in CallIds : call_msgs'[c] = <<>> /\ call_streams'[c] = <<>>
    BY <1>3 DEF Clear
  <2>2. MediaTypeOK'
    BY <1>3 DEF Clear, MediaTypeOK
  <2>3. GoodStreams(<<>>)
    BY DEF GoodStreams
  <2>4. QED
    BY <2>1, <2>2, <2>3 DEF MediaInv
<1>4. CASE UNCHANGED mediaVars
  BY <1>4 DEF mediaVars, MediaInv, MediaTypeOK
<1>5. QED
  BY <1>1, <1>2, <1>3, <1>4 DEF MediaNext

THEOREM MediaInvHolds == MediaSpec => []MediaInv
BY MediaInvInit, MediaInvStep, PTL DEF MediaSpec

\* The properties from the invariant.
LEMMA StreamOf ==
  ASSUME MediaInv, NEW c \in CallIds, NEW s \in AllStreams(c)
  PROVE  \E i \in 1 .. Len(call_streams[c]) : s = call_streams[c][i]
<1>1. call_streams[c] \in Seq(StreamSet)
  BY InvFacts
<1>2. QED
  BY <1>1 DEF AllStreams, Range

LEMMA ToStreams ==
  ASSUME MediaInv, NEW c \in CallIds, NEW i \in 1 .. Len(call_streams[c])
  PROVE  call_streams[c][i] \in AllStreams(c)
<1>1. call_streams[c] \in Seq(StreamSet)
  BY InvFacts
<1>2. QED
  BY <1>1 DEF AllStreams, Range

\* What is counted in a stream belongs together, whatever calls, packets and
\* SDP there are.
THEOREM StreamsAreUniformHolds == MediaSpec => []StreamsAreUniform
<1>1. MediaInv => StreamsAreUniform
  <2> SUFFICES ASSUME MediaInv, NEW c \in CallIds, NEW s \in AllStreams(c), NEW p \in Range(s.packets)
               PROVE  /\ p.src = s.src /\ p.dst = s.dst
                      /\ s.type = "rtp" <=> data_is_rtp(p)
                      /\ s.type = "rtp" => PayloadType(p) = s.format
    BY DEF StreamsAreUniform
  <2>1. UniformStream(s)
    BY StreamOf, InvFacts DEF GoodStreams
  <2>2. QED
    BY <2>1 DEF UniformStream
<1>2. QED
  BY <1>1, MediaInvHolds, PTL

\* A call shows one stream for a source, destination and format, unless the
\* later one was made for the opposite direction of another.
THEOREM SplitOnlyByReverseHolds == MediaSpec => []SplitOnlyByReverse
<1>1. MediaInv => SplitOnlyByReverse
  <2> SUFFICES ASSUME MediaInv, NEW c \in CallIds, NEW i \in DOMAIN call_streams[c], NEW j \in DOMAIN call_streams[c],
                      i < j, SameFlow(call_streams[c][i], call_streams[c][j])
               PROVE  call_streams[c][j].reverse
    BY DEF SplitOnlyByReverse, SameFlow, stream_is_complete
  <2>1. call_streams[c] \in Seq(StreamSet) /\ GoodStreams(call_streams[c])
    BY InvFacts
  <2>2. i \in 1 .. Len(call_streams[c]) /\ j \in 1 .. Len(call_streams[c])
    BY <2>1
  <2>3. QED
    BY <2>1, <2>2 DEF GoodStreams
<1>2. QED
  BY <1>1, MediaInvHolds, PTL

\* Every RTP medium that a dialog announced has a stream to its address.
THEOREM AnnouncedHasStreamHolds == MediaSpec => []AnnouncedHasStream
<1>1. MediaInv => AnnouncedHasStream
  <2> SUFFICES ASSUME MediaInv, NEW c \in CallIds, NEW n \in DOMAIN call_msgs[c], call_msgs[c][1].invite,
                      NEW i \in DOMAIN call_msgs[c][n].sdp, Announces(call_msgs[c][n].sdp, i),
                      ~Taken(call_msgs[c][n].sdp, i)
               PROVE  \E s \in AllStreams(c) : s.dst = [ip |-> call_msgs[c][n].sdp[ConnectionOf(call_msgs[c][n].sdp, i)].ip,
                                                       port |-> call_msgs[c][n].sdp[i].port]
    BY DEF AnnouncedHasStream, Announces
  <2> DEFINE m == call_msgs[c][n]
  <2>1. n \in 1 .. Len(call_msgs[c])
    BY InvFacts
  <2>2. AllServed(m, call_streams[c])
    BY <2>1, InvFacts
  <2>3. HasStreamTo(call_streams[c], [ip |-> m.sdp[ConnectionOf(m.sdp, i)].ip, port |-> m.sdp[i].port])
    BY <2>2 DEF AllServed
  <2> HIDE DEF m
  <2>4. PICK x \in 1 .. Len(call_streams[c]) :
          call_streams[c][x].dst = [ip |-> m.sdp[ConnectionOf(m.sdp, i)].ip, port |-> m.sdp[i].port]
    BY <2>3 DEF HasStreamTo
  <2>5. call_streams[c][x] \in AllStreams(c)
    BY ToStreams
  <2>6. QED
    BY <2>4, <2>5 DEF m
<1>2. QED
  BY <1>1, MediaInvHolds, PTL

\* Once an RTP packet between two addresses was counted, each later one is,
\* in exactly one stream.
THEOREM CountedForGoodHolds == MediaSpec => CountedForGood
<1> DEFINE Known(p, s) == s.type = "rtp" /\ \E q \in Range(s.packets) : q.src = p.src /\ q.dst = p.dst
           Grown(c) == {j \in DOMAIN call_streams'[c] :
                          Len(call_streams'[c][j].packets) >
                            (IF j \in DOMAIN call_streams[c] THEN Len(call_streams[c][j].packets) ELSE 0)}
           Counts(p) == \E c \in CallIds : /\ Cardinality(Grown(c)) = 1
                                          /\ \A d \in CallIds \ {c} : Grown(d) = {}
                                          /\ \A j \in Grown(c) : Last(call_streams'[c][j].packets) = p
           Step == \A p \in Packets :
                     MediaPacket(p) /\ data_is_rtp(p) /\ (\E c \in CallIds : \E s \in AllStreams(c) : Known(p, s)) => Counts(p)
<1>1. ASSUME MediaInv, NEW p \in Packets, MediaPacket(p), data_is_rtp(p),
             NEW c0 \in CallIds, NEW s0 \in AllStreams(c0), Known(p, s0)
      PROVE  Counts(p)
  <2> DEFINE found == rtp_find_stream_format(p.src, p.dst, PayloadType(p))
  <2>1. FoundStream(found, p.src, p.dst, PayloadType(p))
    BY <1>1, FormatFacts DEF MediaInv
  <2>2. call_streams' = IF found = <<>> THEN call_streams
                        ELSE [call_streams EXCEPT ![found[1]] = Counted(@, found[2], p)]
    BY <1>1 DEF MediaPacket, RtpPacket, RtcpPacket
  <2> HIDE DEF found
  <2>3. found # <<>>
    <3>1. PICK i \in 1 .. Len(call_streams[c0]) : s0 = call_streams[c0][i]
      BY <1>1, StreamOf
    <3>2. UniformStream(s0) /\ call_streams[c0] \in Seq(StreamSet)
      BY <1>1, <3>1, InvFacts DEF GoodStreams
    <3>3. Between(call_streams[c0][i], p.src, p.dst)
      BY <1>1, <3>1, <3>2 DEF UniformStream, Between
    <3>4. c0 \in Range(calls_list)
      <4>1. call_streams[c0] # <<>>
        BY <3>1, <3>2
      <4>2. QED
        BY <1>1, <4>1, InvFacts
    <3>5. \A c, j : <<c, j>> # <<>>
      OBVIOUS
    <3>6. QED
      BY <2>1, <3>3, <3>4, <3>5 DEF FoundStream
  <2>4. PICK c \in Range(calls_list) : \E j \in 1 .. Len(call_streams[c]) :
          /\ found = <<c, j>>
          /\ \/ /\ Fits(call_streams[c][j], p.src, p.dst, PayloadType(p))
                /\ \A k \in j + 1 .. Len(call_streams[c]) : ~Fits(call_streams[c][k], p.src, p.dst, PayloadType(p))
             \/ /\ Between(call_streams[c][j], p.src, p.dst)
                /\ \A k \in 1 .. Len(call_streams[c]) : ~Fits(call_streams[c][k], p.src, p.dst, PayloadType(p))
    BY <2>1, <2>3 DEF FoundStream
  <2>5. PICK j \in 1 .. Len(call_streams[c]) :
          /\ found = <<c, j>>
          /\ \/ /\ Fits(call_streams[c][j], p.src, p.dst, PayloadType(p))
                /\ \A k \in j + 1 .. Len(call_streams[c]) : ~Fits(call_streams[c][k], p.src, p.dst, PayloadType(p))
             \/ /\ Between(call_streams[c][j], p.src, p.dst)
                /\ \A k \in 1 .. Len(call_streams[c]) : ~Fits(call_streams[c][k], p.src, p.dst, PayloadType(p))
    BY <2>4
  <2> DEFINE ss == call_streams[c]
             tt == Counted(ss, j, p)
  <2>6. c \in CallIds
    BY <1>1, ListFacts
  <2>7. ss \in Seq(StreamSet) /\ GoodStreams(ss) /\ call_streams \in [CallIds -> Seq(StreamSet)]
    BY <1>1, <2>6, InvFacts DEF MediaInv, MediaTypeOK
  <2>8. call_streams' = [call_streams EXCEPT ![c] = tt]
    BY <2>2, <2>3, <2>5
  <2>9. PICK k \in 1 .. Len(tt) : CountedAt(ss, tt, k, p)
    <3> HIDE DEF ss
    <3>1. QED
      BY <1>1, <2>5, <2>7, CountedGood DEF ss
  <2> HIDE DEF tt
  <2>10. call_streams'[c] = tt /\ \A d \in CallIds : d # c => call_streams'[d] = call_streams[d]
    BY <2>6, <2>7, <2>8
  <2>11. /\ tt \in Seq(StreamSet) /\ Len(ss) <= Len(tt) /\ Len(ss) \in Nat /\ Len(tt) \in Nat
         /\ \A i \in 1 .. Len(ss) : i # k => tt[i] = ss[i]
         /\ \A i \in Len(ss) + 1 .. Len(tt) : i # k => tt[i].packets = <<>>
         /\ tt[k].packets = Append(IF k \in 1 .. Len(ss) THEN ss[k].packets ELSE <<>>, p)
    BY <2>7, <2>9 DEF CountedAt
  <2>12. DOMAIN tt = 1 .. Len(tt) /\ DOMAIN ss = 1 .. Len(ss)
    BY <2>7, <2>11
  <2>13. \A i \in 1 .. Len(ss) : ss[i] \in StreamSet /\ ss[i].packets \in Seq(Packets) /\ Len(ss[i].packets) \in Nat
    <3>1. \A i \in 1 .. Len(ss) : ss[i] \in StreamSet
      BY <2>7
    <3>2. \A i \in 1 .. Len(ss) : ss[i].packets \in Seq(Packets)
      BY <3>1 DEF StreamSet
    <3>3. QED
      BY <3>1, <3>2
  <2>14. \A i \in 1 .. Len(tt) : i # k => ~(Len(tt[i].packets) > (IF i \in 1 .. Len(ss) THEN Len(ss[i].packets) ELSE 0))
    <3> TAKE i \in 1 .. Len(tt)
    <3>1. CASE i \in 1 .. Len(ss)
      BY <2>11, <2>13, <3>1
    <3>2. CASE i \notin 1 .. Len(ss)
      <4>1. i \in Len(ss) + 1 .. Len(tt)
        BY <2>11, <3>2
      <4>2. Len(<<>>) = 0
        OBVIOUS
      <4>3. QED
        BY <2>11, <3>2, <4>1, <4>2
    <3>3. QED
      BY <3>1, <3>2
  <2>15. \A q \in Seq(Packets) : Len(Append(q, p)) > Len(q) /\ Append(q, p)[Len(Append(q, p))] = p
    OBVIOUS
  <2>16. /\ Len(tt[k].packets) > (IF k \in 1 .. Len(ss) THEN Len(ss[k].packets) ELSE 0)
         /\ tt[k].packets[Len(tt[k].packets)] = p
    <3>1. CASE k \in 1 .. Len(ss)
      BY <2>11, <2>13, <2>15, <3>1
    <3>2. CASE k \notin 1 .. Len(ss)
      <4>1. <<>> \in Seq(Packets) /\ Len(<<>>) = 0
        OBVIOUS
      <4>2. tt[k].packets = Append(<<>>, p)
        BY <2>11, <3>2
      <4>3. QED
        BY <2>15, <3>2, <4>1, <4>2
    <3>3. QED
      BY <3>1, <3>2
  <2>17. Grown(c) = {k}
    BY <2>10, <2>12, <2>14, <2>16
  <2>18. Cardinality({k}) = 1
    BY FS_Singleton
  <2>19. ASSUME NEW d \in CallIds \ {c} PROVE Grown(d) = {}
    <3>1. call_streams'[d] = call_streams[d] /\ call_streams[d] \in Seq(StreamSet)
      BY <2>7, <2>10
    <3>2. \A i \in DOMAIN call_streams[d] : Len(call_streams[d][i].packets) \in Nat
      <4>1. \A i \in DOMAIN call_streams[d] : call_streams[d][i] \in StreamSet
        BY <3>1
      <4>2. \A i \in DOMAIN call_streams[d] : call_streams[d][i].packets \in Seq(Packets)
        BY <4>1 DEF StreamSet
      <4>3. QED
        BY <4>2
    <3>3. QED
      BY <3>1, <3>2
  <2>20. Last(call_streams'[c][k].packets) = p
    BY <2>10, <2>16 DEF Last
  <2> HIDE DEF Grown
  <2>21. QED
    BY <2>6, <2>17, <2>18, <2>19, <2>20
<1>2. MediaInv /\ [MediaNext]_mediaVars => [Step]_mediaVars
  <2> HIDE DEF Counts
  <2>1. QED
    BY <1>1
<1>3. QED
  BY <1>2, MediaInvHolds, PTL DEF MediaSpec, CountedForGood

-----------------------------------------------------------------------------
(* Walks over a group of calls.                                            *)

\* The copy is as long as the vector if, and only if, every item passes.
LEMMA CopyIfLength ==
  ASSUME NEW S, NEW s \in Seq(S), NEW K
  PROVE  Len(CopyIf(s, K)) = Len(s) <=> Range(s) \subseteq K
<1> DEFINE n == Len(s)
           T == Seq(S)
<1>0. n \in Nat /\ \A i \in 1 .. n : s[i] \in S
  OBVIOUS
<1>1. PICK F : /\ CopyIf(s, K) = F[n]
               /\ F[0] = <<>>
               /\ \A i \in 1 .. n : F[i] = IF s[i] \in K THEN Append(F[i - 1], s[i]) ELSE F[i - 1]
  BY CopyIfSteps
<1> DEFINE G == {i \in 0 .. n : F[i] \in T /\ Len(F[i]) <= i /\ (Len(F[i]) = i <=> \A j \in 1 .. i : s[j] \in K)}
<1>2. 0 \in G
  <2>1. <<>> \in T /\ Len(<<>>) = 0 /\ 1 .. 0 = {}
    OBVIOUS
  <2>2. F[0] \in T /\ Len(F[0]) <= 0 /\ (Len(F[0]) = 0 <=> \A j \in 1 .. 0 : s[j] \in K)
    BY <1>1, <2>1
  <2>3. 0 \in 0 .. n
    BY <1>0
  <2>4. QED
    BY <2>2, <2>3
<1>3. ASSUME NEW i \in 1 .. n, i - 1 \in G PROVE i \in G
  <2>1. F[i - 1] \in T /\ Len(F[i - 1]) <= i - 1 /\ (Len(F[i - 1]) = i - 1 <=> \A j \in 1 .. i - 1 : s[j] \in K)
    BY <1>3
  <2>2. Len(F[i - 1]) \in Nat
    BY <2>1
  <2>3. s[i] \in S /\ i \in 0 .. n
    BY <1>0
  <2>4. \A j : j \in 1 .. i <=> j \in 1 .. i - 1 \/ j = i
    OBVIOUS
  <2>5. CASE s[i] \in K
    <3>1. F[i] = Append(F[i - 1], s[i])
      BY <1>1, <2>5
    <3>2. F[i] \in T /\ Len(F[i]) = Len(F[i - 1]) + 1
      BY <2>1, <2>3, <3>1, AppendFacts
    <3>3. QED
      BY <2>1, <2>2, <2>3, <2>4, <2>5, <3>2
  <2>6. CASE s[i] \notin K
    <3>1. F[i] = F[i - 1]
      BY <1>1, <2>6
    <3>2. ~ \A j \in 1 .. i : s[j] \in K
      BY <2>4, <2>6
    <3>3. QED
      BY <2>1, <2>2, <2>3, <3>1, <3>2
  <2>7. QED
    BY <2>5, <2>6
<1>4. n \in G
  <2>1. \A i \in 0 .. n : i \in G
    <3> HIDE DEF G, n
    <3>1. QED
      BY <1>0, <1>2, <1>3, UpTo
  <2>2. QED
    BY <1>0, <2>1
<1>5. QED
  BY <1>1, <1>4 DEF Range

\* A walk over the items D of a group: w holds them as they are asked for.
IsWalk(w, n, D, start, next) ==
  /\ w \in [0 .. n -> D \cup {None}]
  /\ w[0] = start
  /\ \A i \in 1 .. n : w[i] = IF w[i - 1] = None THEN None ELSE next[w[i - 1]]

\* W is what the walk finds.
IsFound(W, w, n, D) ==
  /\ W \in Seq(D)
  /\ \A x : x \in Range(W) <=> x \in D /\ \E i \in 0 .. n : w[i] = x
  /\ Len(W) <= n + 1
  /\ Len(W) = n + 1 <=> \A i \in 0 .. n : w[i] # None

LEMMA GroupWalkFacts ==
  ASSUME NEW n \in Nat, NEW D, None \notin D, NEW start \in D \cup {None}, NEW next \in [D -> D \cup {None}]
  PROVE  \E w : IsWalk(w, n, D, start, next) /\ IsFound(WalkOf(start, next, n), w, n, D)
<1> DEFINE T == D \cup {None}
           step == [i \in 1 .. n |-> [t \in T |-> IF t = None THEN None ELSE next[t]]]
           eq(f) == [i \in 0 .. n |-> IF i = 0 THEN start
                                      ELSE IF f[i - 1] = None THEN None ELSE next[f[i - 1]]]
           F == CHOOSE f : f = eq(f)
           s == [i \in 1 .. (n + 1) |-> F[i - 1]]
<1>1. WalkOf(start, next, n) = CopyIf(s, D)
  BY DEF WalkOf
<1>2. \A t \in T : t # None => t \in D /\ next[t] \in T
  OBVIOUS
<1>3. step \in [1 .. n -> [T -> T]]
  BY <1>2
<1>4. \A i \in 1 .. n, t \in T : step[i][t] = IF t = None THEN None ELSE next[t]
  OBVIOUS
<1> HIDE DEF step
<1>5. F = eq(F) /\ F \in [0 .. n -> T]
  <2>0. start \in T
    OBVIOUS
  <2>1. PICK f : IsRecursion(f, n, T, start, step)
    <3> HIDE DEF T
    <3>1. QED
      BY <1>3, <2>0, RecursiveFunction
  <2>2. f \in [0 .. n -> T] /\ f[0] = start /\ \A i \in 1 .. n : f[i] = step[i][f[i - 1]]
    BY <2>1 DEF IsRecursion
  <2> HIDE DEF T
  <2>3. \A i \in 1 .. n : i - 1 \in 0 .. n /\ f[i - 1] \in T
    BY <2>2
  <2>4. \A i \in 1 .. n : f[i] = IF f[i - 1] = None THEN None ELSE next[f[i - 1]]
    BY <1>4, <2>2, <2>3
  <2>5. \A i \in 0 .. n : f[i] = IF i = 0 THEN start
                                 ELSE IF f[i - 1] = None THEN None ELSE next[f[i - 1]]
    <3>1. \A i \in 0 .. n : i = 0 \/ (i # 0 /\ i \in 1 .. n)
      OBVIOUS
    <3>2. QED
      BY <2>2, <2>4, <3>1
  <2>6. f = eq(f)
    BY <2>2, <2>5
  <2>7. F = eq(F)
    BY <2>6
  <2> HIDE DEF F
  <2>8. F[0] = start /\ \A i \in 1 .. n : F[i] = IF F[i - 1] = None THEN None ELSE next[F[i - 1]]
    <3>1. \A i \in 0 .. n : F[i] = eq(F)[i]
      BY <2>7
    <3>2. 0 \in 0 .. n /\ \A i \in 1 .. n : i \in 0 .. n /\ i # 0
      OBVIOUS
    <3>3. QED
      BY <3>1, <3>2
  <2> DEFINE G == {i \in 0 .. n : F[i] \in T}
  <2>9. 0 \in G
    BY <2>0, <2>8
  <2>10. \A i \in 1 .. n : i - 1 \in G => i \in G
    BY <1>2, <2>8 DEF T
  <2>11. \A i \in 0 .. n : i \in G
    <3> HIDE DEF G
    <3>1. QED
      BY <2>9, <2>10, UpTo
  <2>12. F \in [0 .. n -> T]
    BY <2>7, <2>11
  <2>13. QED
    BY <2>7, <2>12
<1> HIDE DEF F, T
<1>6. IsWalk(F, n, D, start, next)
  <2>1. \A i \in 0 .. n : F[i] = eq(F)[i]
    BY <1>5
  <2>2. 0 \in 0 .. n /\ \A i \in 1 .. n : i \in 0 .. n /\ i # 0
    OBVIOUS
  <2>3. F[0] = start /\ \A i \in 1 .. n : F[i] = IF F[i - 1] = None THEN None ELSE next[F[i - 1]]
    BY <2>1, <2>2
  <2>4. QED
    BY <1>5, <2>3 DEF IsWalk, T
<1>7. s \in Seq(T) /\ Len(s) = n + 1
  <2>0. F \in [0 .. n -> T]
    BY <1>5
  <2>1. \A i \in 1 .. (n + 1) : i - 1 \in 0 .. n /\ F[i - 1] \in T
    <3>1. \A i \in 1 .. (n + 1) : i - 1 \in 0 .. n
      OBVIOUS
    <3>2. QED
      BY <2>0, <3>1
  <2>2. s \in [1 .. (n + 1) -> T] /\ n + 1 \in Nat
    BY <2>1
  <2> HIDE DEF s
  <2>3. QED
    BY <2>2
<1>8. Range(s) = {F[i] : i \in 0 .. n}
  <2>1. \A i \in 1 .. (n + 1) : s[i] = F[i - 1] /\ i - 1 \in 0 .. n
    OBVIOUS
  <2>2. \A i \in 0 .. n : i + 1 \in 1 .. (n + 1) /\ s[i + 1] = F[i]
    OBVIOUS
  <2>3. DOMAIN s = 1 .. (n + 1)
    OBVIOUS
  <2> HIDE DEF s
  <2>4. Range(s) = {s[i] : i \in 1 .. (n + 1)}
    BY <2>3 DEF Range
  <2>5. \A x : x \in Range(s) => x \in {F[i] : i \in 0 .. n}
    BY <2>1, <2>4
  <2>6. \A x : x \in {F[i] : i \in 0 .. n} => x \in Range(s)
    BY <2>2, <2>4
  <2>7. QED
    BY <2>5, <2>6
<1> HIDE DEF s
<1> DEFINE W == CopyIf(s, D)
<1>9. W \in Seq(T) /\ Range(W) = Range(s) \cap D /\ Len(W) <= n + 1
  BY <1>7, CopyIfFacts
<1>10. Len(W) = n + 1 <=> Range(s) \subseteq D
  BY <1>7, CopyIfLength
<1> HIDE DEF W
<1>11. W \in Seq(D)
  <2>1. \A i \in 1 .. Len(W) : W[i] \in D
    BY <1>9 DEF Range
  <2>2. QED
    BY <1>9, <2>1
<1>12. (\A i \in 0 .. n : F[i] # None) <=> Range(s) \subseteq D
  BY <1>5, <1>8 DEF T
<1>13. \A x : x \in Range(W) <=> x \in D /\ \E i \in 0 .. n : F[i] = x
  BY <1>8, <1>9
<1>14. WalkOf(start, next, n) = W
  BY <1>1 DEF W
<1>15. IsFound(W, F, n, D)
  BY <1>9, <1>10, <1>11, <1>12, <1>13 DEF IsFound
<1>16. QED
  BY <1>6, <1>14, <1>15
-----------------------------------------------------------------------------
(* What is captured and what is drawn of it.                               *)

Arrows == [item : Items, scolumn : Nat, dcolumn : Nat]
Columns == [addr : Endpoints, callids : SUBSET (Calls \cup {None})]

FlowTypes ==
  /\ time \in [Items -> Nat]
  /\ list \in Seq(Calls) /\ msgs \in [Calls -> Seq(Messages)] /\ streams \in [Calls -> Seq(Streams)]
  /\ group \in Seq(Calls) /\ sdpOnly \in BOOLEAN
  /\ columns \in Seq(Columns) /\ arrows \in Seq(Arrows)
  /\ cur \in Nat /\ first \in Nat

MsgsShown(calls, only) ==
  {m \in Messages : (~only \/ HasSdp(m)) /\ \E c \in Range(calls) : m \in Range(msgs[c])}

StreamsShown(calls) == {s \in Streams : time[s] # 0 /\ \E c \in Range(calls) : s \in Range(streams[c])}

ItemsOf(seq) == {seq[k].item : k \in DOMAIN seq}

LEMMA ConstantFacts ==
  /\ \A m \in Messages : /\ m.call \in Calls /\ m.src \in Endpoints /\ m.dst \in Endpoints
                         /\ m \in Items /\ ~IsStream(m)
  /\ \A s \in Streams : /\ s.msg \in Messages /\ s.src \in Endpoints /\ s.dst \in Endpoints
                        /\ s \in Items /\ IsStream(s)
  /\ \A x \in Items : x \in Messages \/ x \in Streams
  /\ None \notin Calls /\ None \notin Streams
<1>1. \A s \in Streams : s \in [msg : Messages, src : Endpoints, dst : Endpoints]
  <2> DEFINE Z == [msg : Messages, src : Endpoints, dst : Endpoints]
  <2>1. StreamList \in Seq(Z)
    BY FlowAssumption
  <2> HIDE DEF Z
  <2>2. \A i \in DOMAIN StreamList : StreamList[i] \in Z
    BY <2>1
  <2>3. \A s \in Streams : s \in Z
    BY <2>2 DEF Streams, Range
  <2>4. QED
    BY <2>3 DEF Z
<1>2. \A m \in Messages : m \in [id : Nat, call : Calls, src : Endpoints, dst : Endpoints, medias : Seq(Endpoints)]
  BY FlowAssumption
<1>3. \A m \in Messages : m \notin Streams
  BY FlowAssumption
<1>4. None \notin Calls /\ None \notin Streams
  BY FlowAssumption
<1>5. QED
  BY <1>1, <1>2, <1>3, <1>4 DEF Items, IsStream

\* The vectors of the calls of a group one behind the other.
LEMMA GroupItems ==
  ASSUME NEW S, NEW f \in [Calls -> Seq(S)], NEW calls \in Seq(Calls)
  PROVE  /\ FlattenSeq([i \in DOMAIN calls |-> f[calls[i]]]) \in Seq(S)
         /\ \A x : x \in Range(FlattenSeq([i \in DOMAIN calls |-> f[calls[i]]]))
                     <=> \E c \in Range(calls) : x \in Range(f[c])
<1> DEFINE n == Len(calls)
           ss == [i \in DOMAIN calls |-> f[calls[i]]]
           t == FlattenSeq(ss)
<1>1. n \in Nat /\ DOMAIN calls = 1 .. n /\ \A i \in 1 .. n : calls[i] \in Calls
  OBVIOUS
<1>2. \A i \in 1 .. n : f[calls[i]] \in Seq(S)
  BY <1>1
<1>3. ss \in [1 .. n -> Seq(S)]
  BY <1>1, <1>2
<1>4. ss \in Seq(Seq(S)) /\ Len(ss) = n
  <2> HIDE DEF ss, n
  <2>1. QED
    BY <1>1, <1>3
<1>5. \A i \in 1 .. n : ss[i] = f[calls[i]] /\ ss[i] \in Seq(S)
  BY <1>1, <1>2
<1> HIDE DEF ss, n
<1>6. t \in Seq(S) /\ \E off \in [1 .. n -> Nat] : SideBySide(t, ss, off, n)
  BY <1>4, FlattenFacts
<1>7. PICK off \in [1 .. n -> Nat] : SideBySide(t, ss, off, n)
  BY <1>6
<1> HIDE DEF t
<1>8. ASSUME NEW c \in Range(calls), NEW x \in Range(f[c]) PROVE x \in Range(t)
  <2>1. PICK b \in 1 .. n : calls[b] = c
    BY <1>1 DEF Range
  <2>2. PICK j \in DOMAIN ss[b] : ss[b][j] = x
    BY <1>5, <1>8, <2>1 DEF Range
  <2>3. j \in 1 .. Len(ss[b])
    BY <1>5
  <2>4. off[b] + j \in 1 .. Len(t) /\ t[off[b] + j] = x
    BY <1>7, <2>2, <2>3 DEF SideBySide
  <2>5. DOMAIN t = 1 .. Len(t)
    BY <1>6
  <2>6. QED
    BY <2>4, <2>5 DEF Range
<1>9. ASSUME NEW x \in Range(t) PROVE \E c \in Range(calls) : x \in Range(f[c])
  <2>1. PICK k \in 1 .. Len(t) : t[k] = x
    BY <1>6, <1>9 DEF Range
  <2>2. PICK b \in 1 .. n : \E j \in 1 .. Len(ss[b]) : k = off[b] + j
    BY <1>7, <2>1 DEF SideBySide
  <2>3. PICK j \in 1 .. Len(ss[b]) : k = off[b] + j
    BY <2>2
  <2>4. t[k] = ss[b][j]
    BY <1>7, <2>3 DEF SideBySide
  <2>5. j \in DOMAIN ss[b]
    BY <1>5
  <2>6. x \in Range(f[calls[b]])
    BY <1>5, <2>1, <2>4, <2>5 DEF Range
  <2>7. calls[b] \in Range(calls)
    BY <1>1 DEF Range
  <2>8. QED
    BY <2>6, <2>7
<1>10. QED
  BY <1>6, <1>8, <1>9 DEF t, ss

\* The streams that have packets, of every call of the group.
LEMMA GroupStreamsFacts ==
  ASSUME FlowTypes, NEW calls \in Seq(Calls)
  PROVE  GroupStreams(calls) \in Seq(Streams) /\ Range(GroupStreams(calls)) = StreamsShown(calls)
<1> DEFINE all == FlattenSeq([i \in DOMAIN calls |-> streams[calls[i]]])
           K == {s \in Streams : time[s] # 0}
<1>1. streams \in [Calls -> Seq(Streams)]
  BY DEF FlowTypes
<1>2. /\ all \in Seq(Streams)
      /\ \A x : x \in Range(all) <=> \E c \in Range(calls) : x \in Range(streams[c])
  BY <1>1, GroupItems
<1>3. GroupStreams(calls) = CopyIf(all, K)
  BY DEF GroupStreams
<1> HIDE DEF all
<1>4. CopyIf(all, K) \in Seq(Streams) /\ Range(CopyIf(all, K)) = Range(all) \cap K
  <2> HIDE DEF K
  <2>1. QED
    BY <1>2, CopyIfFacts
<1>5. QED
  BY <1>2, <1>3, <1>4 DEF StreamsShown

\* A new item goes behind every one that is not later.
LEMMA SortedPlaceFacts ==
  ASSUME NEW n \in Nat, NEW times \in [1 .. n -> Nat], NEW t \in Nat
  PROVE  /\ SortedPlace(times, t) \in 1 .. n + 1
         /\ \A k \in 1 .. n : times[k] <= t => k < SortedPlace(times, t)
         /\ SortedPlace(times, t) # 1 =>
              SortedPlace(times, t) - 1 \in 1 .. n /\ times[SortedPlace(times, t) - 1] <= t
<1> DEFINE P == {k \in DOMAIN times : times[k] <= t} \cup {0}
<1>1. P \subseteq 0 .. n /\ P # {}
  OBVIOUS
<1>2. /\ \A k \in 1 .. n : times[k] <= t => k \in P
      /\ \A k \in P : k # 0 => k \in 1 .. n /\ times[k] <= t
  OBVIOUS
<1>3. SortedPlace(times, t) = Max(P) + 1
  BY DEF SortedPlace
<1> HIDE DEF P
<1>4. Max(P) \in P /\ \A y \in P : Max(P) >= y
  BY <1>1, MaxOfNats
<1>5. Max(P) \in 0 .. n
  BY <1>1, <1>4
<1>6. \A k \in 1 .. n : times[k] <= t => Max(P) >= k
  BY <1>2, <1>4
<1>7. Max(P) # 0 => Max(P) \in 1 .. n /\ times[Max(P)] <= t
  BY <1>2, <1>4
<1>8. SortedPlace(times, t) - 1 = Max(P) /\ (SortedPlace(times, t) # 1 => Max(P) # 0)
  BY <1>3, <1>5
<1>9. SortedPlace(times, t) \in 1 .. n + 1 /\ \A k \in 1 .. n : times[k] <= t => k < SortedPlace(times, t)
  BY <1>3, <1>5, <1>6
<1>10. QED
  BY <1>7, <1>8, <1>9

\* All messages of the group, whatever their order.
LEMMA AllMsgsFacts ==
  ASSUME FlowTypes, NEW calls \in Seq(Calls)
  PROVE  /\ AllMsgs(calls) \in Seq(Messages)
         /\ \A m : m \in Range(AllMsgs(calls)) <=> \E c \in Range(calls) : m \in Range(msgs[c])
<1>0. msgs \in [Calls -> Seq(Messages)] /\ time \in [Items -> Nat]
  BY DEF FlowTypes
<1>1. CASE Len(calls) = 1
  <2>1. AllMsgs(calls) = msgs[calls[1]]
    BY <1>1 DEF AllMsgs
  <2>2. calls[1] \in Calls /\ Range(calls) = {calls[1]}
    BY <1>1 DEF Range
  <2>3. QED
    BY <1>0, <2>1, <2>2
<1>2. CASE Len(calls) # 1
  <2> DEFINE all == FlattenSeq([i \in DOMAIN calls |-> msgs[calls[i]]])
             n == Len(all)
             T == Seq(Messages)
             Later(seq, m) == InsertAt(seq, SortedPlace([k \in DOMAIN seq |-> time[seq[k]]], time[m]), m)
             step == [i \in 1 .. n |-> [seq \in T |-> Later(seq, all[i])]]
             eq(f) == [i \in 0 .. n |-> IF i = 0 THEN <<>> ELSE Later(f[i - 1], all[i])]
             F == CHOOSE f : f = eq(f)
  <2>1. AllMsgs(calls) = F[n]
    BY <1>2 DEF AllMsgs
  <2>2. /\ all \in T
        /\ \A x : x \in Range(all) <=> \E c \in Range(calls) : x \in Range(msgs[c])
    BY <1>0, GroupItems
  <2> HIDE DEF all
  <2>3. n \in Nat /\ <<>> \in T /\ \A i \in 1 .. n : all[i] \in Messages
    BY <2>2
  <2>4. ASSUME NEW seq \in T, NEW m \in Messages
        PROVE  Later(seq, m) \in T /\ Range(Later(seq, m)) = Range(seq) \cup {m}
    <3> DEFINE l == Len(seq)
               times == [k \in DOMAIN seq |-> time[seq[k]]]
               p == SortedPlace(times, time[m])
    <3>1. l \in Nat /\ DOMAIN seq = 1 .. l /\ \A k \in 1 .. l : seq[k] \in Items
      BY ConstantFacts
    <3>2. times \in [1 .. l -> Nat] /\ time[m] \in Nat
      BY <1>0, <3>1, ConstantFacts
    <3> HIDE DEF times
    <3>3. p \in 1 .. l + 1
      BY <3>1, <3>2, SortedPlaceFacts
    <3> HIDE DEF p
    <3>4. InsertAt(seq, p, m) \in T /\ Range(InsertAt(seq, p, m)) = Range(seq) \cup {m}
      BY <3>3, InsertAtFacts
    <3>5. QED
      BY <3>4 DEF p, times
  <2> HIDE DEF Later
  <2>5. step \in [1 .. n -> [T -> T]]
    BY <2>3, <2>4
  <2>6. \A i \in 1 .. n, seq \in T : step[i][seq] = Later(seq, all[i])
    OBVIOUS
  <2> HIDE DEF n, T, step
  <2>7. PICK f : IsRecursion(f, n, T, <<>>, step)
    BY <2>3, <2>5, RecursiveFunction
  <2>8. f \in [0 .. n -> T] /\ f[0] = <<>> /\ \A i \in 1 .. n : f[i] = step[i][f[i - 1]]
    BY <2>7 DEF IsRecursion
  <2>9. \A i \in 1 .. n : f[i] = Later(f[i - 1], all[i])
    <3>1. \A i \in 1 .. n : i - 1 \in 0 .. n /\ f[i - 1] \in T
      BY <2>3, <2>8
    <3>2. QED
      BY <2>6, <2>8, <3>1
  <2>10. f = eq(f)
    <3>1. \A i \in 0 .. n : i = 0 \/ (i # 0 /\ i \in 1 .. n)
      BY <2>3
    <3>2. \A i \in 0 .. n : f[i] = IF i = 0 THEN <<>> ELSE Later(f[i - 1], all[i])
      BY <2>8, <2>9, <3>1
    <3>3. QED
      BY <2>8, <3>2
  <2>11. F = eq(F)
    BY <2>10
  <2> HIDE DEF F
  <2>12. F[0] = <<>> /\ \A i \in 1 .. n : F[i] = Later(F[i - 1], all[i])
    <3>1. 0 \in 0 .. n /\ \A i \in 1 .. n : i \in 0 .. n /\ i # 0
      BY <2>3
    <3>2. \A i \in 0 .. n : F[i] = eq(F)[i]
      BY <2>11
    <3>3. QED
      BY <3>1, <3>2
  <2> DEFINE G == {i \in 0 .. n : F[i] \in T /\ Range(F[i]) = {all[j] : j \in 1 .. i}}
  <2>13. 0 \in G
    <3>1. Range(<<>>) = {}
      BY DEF Range
    <3>2. 1 .. 0 = {} /\ 0 \in 0 .. n
      BY <2>3
    <3>3. QED
      BY <2>3, <2>12, <3>1, <3>2
  <2>14. ASSUME NEW i \in 1 .. n, i - 1 \in G PROVE i \in G
    <3>1. F[i - 1] \in T /\ Range(F[i - 1]) = {all[j] : j \in 1 .. i - 1}
      BY <2>14
    <3>2. F[i] \in T /\ Range(F[i]) = Range(F[i - 1]) \cup {all[i]}
      BY <2>3, <2>4, <2>12, <3>1
    <3>3. i \in 0 .. n /\ \A j : j \in 1 .. i <=> j \in 1 .. i - 1 \/ j = i
      BY <2>3
    <3>4. {all[j] : j \in 1 .. i} = {all[j] : j \in 1 .. i - 1} \cup {all[i]}
      BY <3>3
    <3>5. QED
      BY <3>1, <3>2, <3>3, <3>4
  <2>15. \A i \in 0 .. n : i \in G
    <3> HIDE DEF G
    <3>1. QED
      BY <2>3, <2>13, <2>14, UpTo
  <2>16. F[n] \in T /\ Range(F[n]) = {all[j] : j \in 1 .. n}
    <3>1. n \in 0 .. n
      BY <2>3
    <3>2. n \in G
      <4> HIDE DEF G
      <4>1. QED
        BY <2>15, <3>1
    <3>3. QED
      BY <3>2
  <2>17. Range(all) = {all[j] : j \in 1 .. n}
    BY <2>2 DEF Range, n, T
  <2>18. QED
    BY <2>1, <2>2, <2>16, <2>17 DEF T
<1>3. QED
  BY <1>1, <1>2

\* The messages the walk over a group returns: all, or all that have an SDP.
LEMMA GroupMsgsFacts ==
  ASSUME FlowTypes, NEW calls \in Seq(Calls), NEW only
  PROVE  GroupMsgs(calls, only) \in Seq(Messages) /\ Range(GroupMsgs(calls, only)) = MsgsShown(calls, only)
<1> DEFINE all == AllMsgs(calls)
           K == {m \in Messages : ~only \/ HasSdp(m)}
<1>1. /\ all \in Seq(Messages)
      /\ \A m : m \in Range(all) <=> \E c \in Range(calls) : m \in Range(msgs[c])
  BY AllMsgsFacts
<1>2. GroupMsgs(calls, only) = CopyIf(all, K)
  BY DEF GroupMsgs
<1> HIDE DEF all
<1>3. CopyIf(all, K) \in Seq(Messages) /\ Range(CopyIf(all, K)) = Range(all) \cap K
  <2> HIDE DEF K
  <2>1. QED
    BY <1>1, CopyIfFacts
<1>4. QED
  BY <1>1, <1>2, <1>3 DEF MsgsShown
-----------------------------------------------------------------------------
(* Walks of a draw.                                                        *)

\* A walk that always goes on to a later item of a vector cannot find more
\* items than there are.
LEMMA NoLongerWalk ==
  ASSUME NEW D, NEW seq \in Seq(D), NEW w, NEW tm \in [D -> Nat],
         \A i \in 0 .. Len(seq) : w[i] \in Range(seq),
         \A i \in 1 .. Len(seq) : tm[w[i - 1]] < tm[w[i]]
  PROVE  FALSE
<1> DEFINE n == Len(seq)
           at == [i \in 0 .. n |-> CHOOSE k \in 1 .. n : seq[k] = w[i]]
<1>1. n \in Nat /\ DOMAIN seq = 1 .. n /\ \A k \in 1 .. n : seq[k] \in D
  OBVIOUS
<1>2. \A i \in 0 .. n : w[i] \in D /\ tm[w[i]] \in Nat /\ \E k \in 1 .. n : seq[k] = w[i]
  BY <1>1 DEF Range
<1>3. \A i \in 0 .. n : at[i] \in 1 .. n /\ seq[at[i]] = w[i]
  BY <1>2
<1>4. \A i \in 1 .. n : tm[w[i - 1]] < tm[w[i]]
  OBVIOUS
<1>5. at \in [0 .. n -> 1 .. n]
  BY <1>3
<1> HIDE DEF at, n
<1>6. IsFiniteSet(0 .. n) /\ Cardinality(0 .. n) = n + 1 /\ IsFiniteSet(1 .. n) /\ Cardinality(1 .. n) = n
  <2>1. IsFiniteSet(0 .. n) /\ Cardinality(0 .. n) = IF 0 > n THEN 0 ELSE n - 0 + 1
    BY <1>1, FS_Interval
  <2>2. IsFiniteSet(1 .. n) /\ Cardinality(1 .. n) = IF 1 > n THEN 0 ELSE n - 1 + 1
    BY <1>1, FS_Interval
  <2>3. QED
    BY <1>1, <2>1, <2>2
<1>7. Cardinality(1 .. n) < Cardinality(0 .. n)
  BY <1>1, <1>6
<1>8. PICK i \in 0 .. n, j \in 0 .. n : i # j /\ at[i] = at[j]
  BY <1>5, <1>6, <1>7, FS_PigeonHole
<1>9. w[i] = w[j]
  BY <1>3, <1>8
<1> DEFINE G == {m \in 0 .. n : \A l \in 0 .. n : l < m => tm[w[l]] < tm[w[m]]}
<1>10. 0 \in G
  BY <1>1
<1>11. ASSUME NEW m \in 1 .. n, m - 1 \in G PROVE m \in G
  <2>1. m \in 0 .. n /\ m - 1 \in 0 .. n
    BY <1>1
  <2>2. ASSUME NEW l \in 0 .. n, l < m PROVE tm[w[l]] < tm[w[m]]
    <3>1. CASE l = m - 1
      BY <1>4, <3>1
    <3>2. CASE l # m - 1
      <4>1. l < m - 1
        BY <1>1, <2>2, <3>2
      <4>2. tm[w[l]] < tm[w[m - 1]]
        BY <1>11, <4>1
      <4>3. tm[w[m - 1]] < tm[w[m]]
        BY <1>4
      <4>4. tm[w[l]] \in Nat /\ tm[w[m - 1]] \in Nat /\ tm[w[m]] \in Nat
        BY <1>2, <2>1
      <4>5. QED
        BY <4>2, <4>3, <4>4
    <3>3. QED
      BY <3>1, <3>2
  <2>3. QED
    BY <2>1, <2>2
<1>12. \A m \in 0 .. n : m \in G
  <2> HIDE DEF G
  <2>1. QED
    BY <1>1, <1>10, <1>11, UpTo
<1>13. tm[w[i]] < tm[w[j]] \/ tm[w[j]] < tm[w[i]]
  <2>1. i < j \/ j < i
    BY <1>1, <1>8
  <2>2. QED
    BY <1>12, <2>1
<1>14. QED
  <2>1. tm[w[i]] = tm[w[j]] /\ tm[w[i]] \in Nat
    BY <1>2, <1>9
  <2>2. QED
    BY <1>13, <2>1

\* What a walk asks for behind a stream, or first of all: another one, not
\* earlier, and the earliest of these.
IsBehind(x, s) == s = None \/ (x # s /\ time[x] >= time[s])

LEMMA GetNextStreamFacts ==
  ASSUME FlowTypes, NEW calls \in Seq(Calls), NEW s \in Range(GroupStreams(calls)) \cup {None},
         NEW all, all = Range(GroupStreams(calls)), NEW next, next = GetNextStream(calls, s)
  PROVE  /\ next \in all \cup {None}
         /\ next = None => \A x \in all : ~IsBehind(x, s)
         /\ next # None => IsBehind(next, s) /\ \A x \in all : IsBehind(x, s) => time[next] <= time[x]
<1> DEFINE seq == GroupStreams(calls)
           n == Len(seq)
           later == {i \in DOMAIN seq : s = None \/ (seq[i] # s /\ time[seq[i]] >= time[s])}
           earliest == {i \in later : \A j \in later : time[seq[i]] <= time[seq[j]]}
<1>1. seq \in Seq(Streams)
  BY GroupStreamsFacts
<1>2. next = IF later = {} THEN None ELSE seq[Max(earliest)]
  BY DEF GetNextStream
<1>3. all = Range(seq)
  OBVIOUS
<1> HIDE DEF seq
<1>4. n \in Nat /\ DOMAIN seq = 1 .. n /\ \A i \in 1 .. n : seq[i] \in Streams /\ time[seq[i]] \in Nat
  BY <1>1, ConstantFacts DEF FlowTypes
<1>5. \A i \in DOMAIN seq : i \in later <=> IsBehind(seq[i], s)
  BY DEF IsBehind
<1>6. \A x : x \in all <=> \E i \in DOMAIN seq : seq[i] = x
  BY <1>3 DEF Range
<1>7. later \subseteq DOMAIN seq
  OBVIOUS
<1>8. None \notin all
  BY <1>4, <1>6, ConstantFacts
<1>9. CASE later = {}
  BY <1>2, <1>5, <1>6, <1>8, <1>9
<1>10. CASE later # {}
  <2> DEFINE T == {time[seq[i]] : i \in later}
  <2>1. T \subseteq Nat /\ T # {}
    BY <1>4, <1>10
  <2>2. \A i \in later : time[seq[i]] \in T
    OBVIOUS
  <2>3. \A t \in T : \E i \in later : time[seq[i]] = t
    OBVIOUS
  <2> HIDE DEF T
  <2>4. PICK t \in T : \A u \in T : t <= u
    BY <2>1, NatMin
  <2>5. PICK i \in later : time[seq[i]] = t
    BY <2>3
  <2>6. i \in earliest
    BY <2>2, <2>4, <2>5
  <2>7. earliest \subseteq 0 .. n /\ earliest # {}
    <3>1. \A k \in earliest : k \in 1 .. n
      BY <1>4, <1>7
    <3>2. QED
      BY <1>4, <2>6, <3>1
  <2>8. earliest \subseteq later /\ \A k \in earliest : \A j \in later : time[seq[k]] <= time[seq[j]]
    OBVIOUS
  <2> HIDE DEF earliest
  <2>9. Max(earliest) \in earliest
    BY <1>4, <2>7, MaxOfNats
  <2>10. PICK k \in earliest : next = seq[k]
    BY <1>2, <1>10, <2>9
  <2>11. k \in later /\ k \in DOMAIN seq /\ next \in all
    BY <1>6, <1>7, <2>8, <2>10
  <2>12. IsBehind(next, s)
    BY <1>5, <2>10, <2>11
  <2>13. ASSUME NEW x \in all, IsBehind(x, s) PROVE time[next] <= time[x]
    <3>1. PICK j \in DOMAIN seq : seq[j] = x
      BY <1>6
    <3>2. j \in later
      BY <1>5, <2>13, <3>1
    <3>3. QED
      BY <2>8, <2>10, <3>1, <3>2
  <2>14. QED
    BY <1>8, <2>11, <2>12, <2>13
<1>11. QED
  BY <1>9, <1>10

\* The walk over the streams finds all of them if it ends, and it ends if no
\* two of them began at the same time.
LEMMA StreamWalkFacts ==
  ASSUME FlowTypes, NEW calls \in Seq(Calls)
  PROVE  /\ StreamWalk(calls) \in Seq(Streams)
         /\ Range(StreamWalk(calls)) \subseteq StreamsShown(calls)
         /\ Len(StreamWalk(calls)) <= Len(GroupStreams(calls)) => Range(StreamWalk(calls)) = StreamsShown(calls)
         /\ (\A s, t \in StreamsShown(calls) : s # t => time[s] # time[t])
              => Len(StreamWalk(calls)) <= Len(GroupStreams(calls))
<1> DEFINE seq == GroupStreams(calls)
           n == Len(seq)
           D == Range(seq)
           start == GetNextStream(calls, None)
           next == [s \in D |-> GetNextStream(calls, s)]
           W == WalkOf(start, next, n)
<1>1. seq \in Seq(Streams) /\ D = StreamsShown(calls)
  BY GroupStreamsFacts
<1>2. W = StreamWalk(calls)
  BY DEF StreamWalk
<1>3. D \subseteq Streams /\ None \notin D /\ \A x \in D : time[x] \in Nat
  BY <1>1, ConstantFacts DEF FlowTypes, StreamsShown
<1>4. n \in Nat
  BY <1>1
<1>5. start \in D \cup {None} /\ next \in [D -> D \cup {None}]
  BY GetNextStreamFacts
<1>6. /\ start = None => \A x \in D : ~IsBehind(x, None)
      /\ start # None => \A x \in D : IsBehind(x, None) => time[start] <= time[x]
  BY GetNextStreamFacts
<1>7. \A s \in D : /\ next[s] = None => \A x \in D : ~IsBehind(x, s)
                   /\ next[s] # None => IsBehind(next[s], s) /\ \A x \in D : IsBehind(x, s) => time[next[s]] <= time[x]
  BY GetNextStreamFacts
<1> HIDE DEF start, next, seq, n, W
<1>8. PICK w : /\ IsWalk(w, n, D, start, next)
               /\ W \in Seq(D)
               /\ \A x : x \in Range(W) <=> x \in D /\ \E i \in 0 .. n : w[i] = x
               /\ Len(W) <= n + 1
               /\ Len(W) = n + 1 <=> \A i \in 0 .. n : w[i] # None
  <2> HIDE DEF D
  <2>1. n \in Nat /\ None \notin D /\ start \in D \cup {None} /\ next \in [D -> D \cup {None}]
    BY <1>3, <1>4, <1>5
  <2>2. PICK w : IsWalk(w, n, D, start, next) /\ IsFound(WalkOf(start, next, n), w, n, D)
    BY <2>1, GroupWalkFacts
  <2>3. QED
    BY <2>2 DEF W, IsFound
<1>9. /\ w \in [0 .. n -> D \cup {None}] /\ w[0] = start
      /\ \A i \in 1 .. n : w[i] = IF w[i - 1] = None THEN None ELSE next[w[i - 1]]
  BY <1>8 DEF IsWalk
<1>10. W \in Seq(Streams) /\ Range(W) \subseteq D
  <2>1. \A i \in 1 .. Len(W) : W[i] \in Streams
    BY <1>3, <1>8
  <2>2. W \in Seq(Streams)
    BY <1>8, <2>1
  <2>3. QED
    BY <1>8, <2>2
<1>11. ASSUME Len(W) <= n, NEW x \in D PROVE x \in Range(W)
  <2>1. SUFFICES ASSUME \A i \in 0 .. n : w[i] # x PROVE FALSE
    BY <1>8
  <2>2. \A i \in 0 .. n : w[i] # None => w[i] \in D /\ time[w[i]] \in Nat
    BY <1>3, <1>9
  <2> DEFINE G == {i \in 0 .. n : w[i] # None /\ time[w[i]] <= time[x]}
  <2>3. 0 \in G
    <3>1. IsBehind(x, None)
      BY DEF IsBehind
    <3>2. QED
      BY <1>4, <1>6, <1>9, <3>1
  <2>4. ASSUME NEW i \in 1 .. n, i - 1 \in G PROVE i \in G
    <3>1. i - 1 \in 0 .. n /\ i \in 0 .. n /\ w[i - 1] # None /\ time[w[i - 1]] <= time[x]
      BY <1>4, <2>4
    <3>2. w[i - 1] \in D /\ w[i - 1] # x /\ w[i] = next[w[i - 1]] /\ time[w[i - 1]] \in Nat /\ time[x] \in Nat
      BY <1>3, <1>9, <2>1, <2>2, <3>1
    <3>3. IsBehind(x, w[i - 1])
      BY <3>1, <3>2 DEF IsBehind
    <3>4. QED
      BY <1>7, <3>1, <3>2, <3>3
  <2>5. \A i \in 0 .. n : i \in G
    <3> HIDE DEF G
    <3>1. QED
      BY <1>4, <2>3, <2>4, UpTo
  <2>6. Len(W) = n + 1
    BY <1>8, <2>5
  <2>7. QED
    BY <1>4, <1>11, <2>6
<1>12. ASSUME \A s, t \in D : s # t => time[s] # time[t] PROVE Len(W) <= n
  <2>1. SUFFICES ASSUME Len(W) = n + 1 PROVE FALSE
    <3>1. Len(W) \in Nat
      BY <1>8
    <3>2. QED
      BY <1>4, <1>8, <2>1, <3>1
  <2>2. \A i \in 0 .. n : w[i] # None /\ w[i] \in D /\ time[w[i]] \in Nat
    BY <1>3, <1>8, <1>9, <2>1
  <2>3. ASSUME NEW i \in 1 .. n PROVE time[w[i - 1]] < time[w[i]]
    <3>1. i - 1 \in 0 .. n /\ i \in 0 .. n
      BY <1>4
    <3>2. w[i - 1] # None /\ w[i - 1] \in D /\ w[i] # None /\ w[i] \in D /\ w[i] = next[w[i - 1]]
      BY <1>9, <2>2, <3>1
    <3>3. w[i] # w[i - 1] /\ time[w[i]] >= time[w[i - 1]]
      BY <1>7, <3>2 DEF IsBehind
    <3>4. time[w[i]] # time[w[i - 1]]
      BY <1>12, <3>2, <3>3
    <3>5. QED
      BY <2>2, <3>1, <3>3, <3>4
  <2> DEFINE tm == [x \in Streams |-> time[x]]
  <2>4. tm \in [Streams -> Nat] /\ \A i \in 0 .. n : tm[w[i]] = time[w[i]]
    <3>1. \A x \in Streams : time[x] \in Nat
      BY ConstantFacts DEF FlowTypes
    <3>2. QED
      BY <1>3, <2>2, <3>1
  <2> HIDE DEF tm
  <2>5. \A i \in 1 .. n : tm[w[i - 1]] < tm[w[i]]
    <3>1. \A i \in 1 .. n : i - 1 \in 0 .. n /\ i \in 0 .. n
      BY <1>4
    <3>2. QED
      BY <2>3, <2>4, <3>1
  <2>6. QED
    BY <1>1, <2>2, <2>4, <2>5, NoLongerWalk DEF n
<1>13. QED
  BY <1>1, <1>2, <1>10, <1>11, <1>12 DEF n, seq

\* A message is in the vector of its call; a call is
\* listed with its first message, and a stream is heard after its SDP.
CaptureInv ==
  /\ \A s \in Streams : time[s] # 0 => time[s.msg] # 0
  /\ \A c \in Calls : \A i \in DOMAIN msgs[c] : msgs[c][i].call = c /\ time[msgs[c][i]] # 0
  /\ \A c \in Range(list) : msgs[c] # <<>>

\* A walk over the calls stays in the group and ends if no two of them
\* began at the same time.
LEMMA CallWalkFacts ==
  ASSUME FlowTypes, CaptureInv, NEW calls \in Seq(Calls), NEW only, \A c \in Range(calls) : msgs[c] # <<>>
  PROVE  /\ CallWalk(calls, only) \in Seq(Calls)
         /\ Range(CallWalk(calls, only)) \subseteq Range(calls)
         /\ (\A c, d \in Range(calls) : c # d => time[msgs[c][1]] # time[msgs[d][1]])
              => Len(CallWalk(calls, only)) <= Len(calls)
<1> DEFINE n == Len(calls)
           D == Range(calls)
           ms == GroupMsgs(calls, only)
           start == IF ms = <<>> THEN None ELSE ms[1].call
           next == [c \in D |-> GetNextCall(calls, c)]
           W == WalkOf(start, next, n)
           began(c) == time[msgs[c][1]]
<1>1. n \in Nat /\ DOMAIN calls = 1 .. n /\ \A i \in 1 .. n : calls[i] \in D /\ calls[i] \in Calls
  BY DEF Range
<1>2. D \subseteq Calls /\ None \notin D
  BY ConstantFacts DEF Range
<1>3. \A c \in D : began(c) \in Nat
  <2>1. ASSUME NEW c \in D PROVE began(c) \in Nat
    <3>1. msgs[c] \in Seq(Messages) /\ msgs[c] # <<>>
      BY <1>2 DEF FlowTypes
    <3>2. msgs[c][1] \in Messages
      BY <3>1
    <3>3. msgs[c][1] \in Items
      BY <3>2, ConstantFacts
    <3>4. QED
      BY <3>3 DEF FlowTypes
  <2>2. QED
    BY <2>1
<1>4. start \in D \cup {None}
  <2>1. ms \in Seq(Messages) /\ Range(ms) = MsgsShown(calls, only)
    BY GroupMsgsFacts
  <2> HIDE DEF ms
  <2>2. SUFFICES ASSUME ms # <<>> PROVE ms[1].call \in D
    OBVIOUS
  <2>3. ms[1] \in Range(ms)
    BY <2>1, <2>2 DEF Range
  <2>4. PICK c \in Range(calls) : ms[1] \in Range(msgs[c])
    BY <2>1, <2>3 DEF MsgsShown
  <2>5. PICK i \in DOMAIN msgs[c] : msgs[c][i] = ms[1]
    BY <2>4 DEF Range
  <2>6. msgs[c][i].call = c
    BY <1>2, <2>5 DEF CaptureInv
  <2>7. QED
    BY <2>5, <2>6
<1>5. ASSUME NEW c \in D
      PROVE  /\ next[c] \in D \cup {None}
             /\ next[c] # None => next[c] # c /\ began(next[c]) >= began(c)
  <2> DEFINE later == {i \in DOMAIN calls : calls[i] # c /\ began(calls[i]) >= began(c)}
  <2>1. next[c] = IF later = {} THEN None ELSE calls[Min(later)]
    BY DEF GetNextCall
  <2>2. later \subseteq Nat /\ \A i \in later : i \in 1 .. n /\ calls[i] # c /\ began(calls[i]) >= began(c)
    BY <1>1
  <2> HIDE DEF later, began, next
  <2>3. CASE later = {}
    BY <2>1, <2>3
  <2>4. CASE later # {}
    <3>1. Min(later) \in later
      BY <2>2, <2>4, MinOfNats
    <3>2. QED
      BY <1>1, <2>1, <2>2, <2>4, <3>1
  <2>5. QED
    BY <2>3, <2>4
<1>6. next \in [D -> D \cup {None}]
  <2>1. \A c \in D : next[c] \in D \cup {None}
    BY <1>5
  <2>2. next = [c \in D |-> next[c]]
    OBVIOUS
  <2> HIDE DEF next
  <2>3. QED
    BY <2>1, <2>2
<1>7. W = CallWalk(calls, only)
  BY DEF CallWalk
<1> HIDE DEF start, next, n, W
<1>8. PICK w : IsWalk(w, n, D, start, next) /\ IsFound(W, w, n, D)
  <2> HIDE DEF D
  <2>1. n \in Nat /\ None \notin D /\ start \in D \cup {None} /\ next \in [D -> D \cup {None}]
    BY <1>1, <1>2, <1>4, <1>6
  <2>2. PICK w : IsWalk(w, n, D, start, next) /\ IsFound(WalkOf(start, next, n), w, n, D)
    BY <2>1, GroupWalkFacts
  <2>3. QED
    BY <2>2 DEF W
<1>9. /\ w \in [0 .. n -> D \cup {None}] /\ w[0] = start
      /\ \A i \in 1 .. n : w[i] = IF w[i - 1] = None THEN None ELSE next[w[i - 1]]
  BY <1>8 DEF IsWalk
<1>10. W \in Seq(Calls) /\ Range(W) \subseteq D
  <2>1. W \in Seq(D) /\ Range(W) \subseteq D
    BY <1>8 DEF IsFound
  <2>2. \A i \in 1 .. Len(W) : W[i] \in Calls
    BY <1>2, <2>1
  <2>3. QED
    BY <2>1, <2>2
<1>11. ASSUME \A c, d \in D : c # d => began(c) # began(d) PROVE Len(W) <= n
  <2>1. SUFFICES ASSUME Len(W) = n + 1 PROVE FALSE
    <3>1. W \in Seq(D) /\ Len(W) <= n + 1
      BY <1>8 DEF IsFound
    <3>2. Len(W) \in Nat
      BY <3>1
    <3>3. QED
      BY <1>1, <2>1, <3>1, <3>2
  <2>2. \A i \in 0 .. n : w[i] # None /\ w[i] \in D
    BY <1>8, <1>9, <2>1 DEF IsFound
  <2> DEFINE tm == [c \in Calls |-> IF c \in D THEN began(c) ELSE 0]
  <2>3. tm \in [Calls -> Nat] /\ \A c \in D : tm[c] = began(c)
    BY <1>2, <1>3
  <2> HIDE DEF tm, began
  <2>4. ASSUME NEW i \in 1 .. n PROVE tm[w[i - 1]] < tm[w[i]]
    <3>1. i - 1 \in 0 .. n /\ i \in 0 .. n
      BY <1>1
    <3>2. w[i - 1] # None /\ w[i - 1] \in D /\ w[i] # None /\ w[i] \in D /\ w[i] = next[w[i - 1]]
      BY <1>9, <2>2, <3>1
    <3>3. w[i] # w[i - 1] /\ began(w[i]) >= began(w[i - 1])
      BY <1>5, <3>2
    <3>4. began(w[i]) # began(w[i - 1])
      BY <1>11, <3>2, <3>3
    <3>5. began(w[i]) \in Nat /\ began(w[i - 1]) \in Nat
      BY <1>3, <3>2
    <3>6. QED
      BY <2>3, <3>2, <3>3, <3>4, <3>5
  <2>5. QED
    BY <2>2, <2>3, <2>4, NoLongerWalk DEF n
<1>12. QED
  BY <1>7, <1>10, <1>11 DEF n

\* Walks of a draw end if all streams and all calls of the group began at
\* times of their own.
LEMMA WalksEndUnlessEqual ==
  ASSUME FlowTypes, CaptureInv, \A c \in Range(group) : msgs[c] # <<>>, ~WalksEnd
  PROVE  \/ \E s, t \in Range(GroupStreams(group)) : s # t /\ time[s] = time[t]
         \/ \E c, d \in Range(group) : c # d /\ time[msgs[c][1]] = time[msgs[d][1]]
<1>1. group \in Seq(Calls)
  BY DEF FlowTypes
<1>2. Range(GroupStreams(group)) = StreamsShown(group)
  BY <1>1, GroupStreamsFacts
<1>3. (\A s, t \in StreamsShown(group) : s # t => time[s] # time[t]) => Len(StreamWalk(group)) <= Len(GroupStreams(group))
  BY <1>1, StreamWalkFacts
<1>4. (\A c, d \in Range(group) : c # d => time[msgs[c][1]] # time[msgs[d][1]])
        => Len(CallWalk(group, sdpOnly)) <= Len(group)
  BY <1>1, CallWalkFacts
<1>5. QED
  BY <1>2, <1>3, <1>4 DEF WalksEnd

-----------------------------------------------------------------------------
(* Arrows of a draw.                                                       *)

\* A vector of arrows sorted by time.
InTimeOrder(seq) == \A i, j \in DOMAIN seq : i <= j => time[seq[i].item] <= time[seq[j].item]

\* An item that has no arrow gets one, behind those that are not later and
\* before those that are: the vector stays sorted and what was there stays in
\* order.
LEMMA ArrowAddFacts ==
  ASSUME FlowTypes, NEW old \in Seq(Arrows), NEW seq \in Seq(Arrows), NEW x \in Items,
         InTimeOrder(seq), ItemsOf(old) \subseteq ItemsOf(seq), KeepsOrder(old, seq)
  PROVE  /\ ArrowAdd(seq, x) \in Seq(Arrows)
         /\ InTimeOrder(ArrowAdd(seq, x))
         /\ KeepsOrder(old, ArrowAdd(seq, x))
         /\ ItemsOf(ArrowAdd(seq, x)) = ItemsOf(seq) \cup {x}
<1> DEFINE n == Len(seq)
           times == [k \in DOMAIN seq |-> time[seq[k].item]]
           q == SortedPlace(times, time[x])
           new == [item |-> x, scolumn |-> 0, dcolumn |-> 0]
           r == InsertAt(seq, q, new)
           T == Arrows
<1>1. n \in Nat /\ DOMAIN seq = 1 .. n /\ \A k \in 1 .. n : seq[k] \in Arrows /\ seq[k].item \in Items
  <2>1. n \in Nat /\ DOMAIN seq = 1 .. n /\ \A k \in 1 .. n : seq[k] \in Arrows
    OBVIOUS
  <2>2. \A a \in Arrows : a.item \in Items
    BY DEF Arrows
  <2>3. QED
    BY <2>1, <2>2
<1>2. CASE Find(seq, x)
  <2>1. ArrowAdd(seq, x) = seq
    BY <1>2 DEF ArrowAdd
  <2>2. x \in ItemsOf(seq)
    BY <1>2 DEF Find, ItemsOf
  <2>3. QED
    BY <1>1, <2>1, <2>2
<1>3. CASE ~Find(seq, x)
  <2>1. ArrowAdd(seq, x) = r
    BY <1>3 DEF ArrowAdd
  <2>2. times \in [1 .. n -> Nat] /\ time[x] \in Nat /\ \A k \in 1 .. n : times[k] = time[seq[k].item]
    BY <1>1 DEF FlowTypes
  <2>3. new \in T /\ new.item = x /\ seq \in Seq(T)
    BY DEF Arrows
  <2> HIDE DEF times, new, T
  <2>4. /\ q \in 1 .. n + 1 /\ \A k \in 1 .. n : times[k] <= time[x] => k < q
        /\ q # 1 => q - 1 \in 1 .. n /\ times[q - 1] <= time[x]
    BY <1>1, <2>2, SortedPlaceFacts
  <2> HIDE DEF q
  <2>5. /\ r \in Seq(T) /\ Len(r) = n + 1 /\ Range(r) = Range(seq) \cup {new}
        /\ \A i \in 1 .. n + 1 : r[i] = IF i < q THEN seq[i] ELSE IF i = q THEN new ELSE seq[i - 1]
    BY <2>3, <2>4, InsertAtFacts
  <2> HIDE DEF r
  <2>6. DOMAIN r = 1 .. n + 1
    BY <2>5
  \* Those before the place are not later, those behind it are later.
  <2>7. /\ \A k \in 1 .. n : k < q => time[seq[k].item] <= time[x]
        /\ \A k \in 1 .. n : q <= k => time[x] < time[seq[k].item]
    <3>1. ASSUME NEW k \in 1 .. n, k < q PROVE time[seq[k].item] <= time[x]
      <4>1. q \in Nat /\ k \in Nat /\ k <= q - 1 /\ q # 1
        BY <1>1, <2>4, <3>1
      <4>2. q - 1 \in 1 .. n /\ times[q - 1] <= time[x] /\ times[q - 1] \in Nat
        BY <2>2, <2>4, <4>1
      <4>3. time[seq[k].item] <= time[seq[q - 1].item]
        BY <1>1, <4>1, <4>2 DEF InTimeOrder
      <4>4. time[seq[k].item] \in Nat /\ time[seq[q - 1].item] = times[q - 1]
        BY <1>1, <2>2, <4>2
      <4>5. QED
        BY <2>2, <4>2, <4>3, <4>4
    <3>2. ASSUME NEW k \in 1 .. n, q <= k PROVE time[x] < time[seq[k].item]
      <4>1. ~(times[k] <= time[x])
        BY <1>1, <2>4, <3>2
      <4>2. QED
        BY <2>2, <4>1
    <3>3. QED
      BY <3>1, <3>2
  <2>8. ItemsOf(r) = ItemsOf(seq) \cup {x}
    <3>1. ItemsOf(seq) = {a.item : a \in Range(seq)} /\ ItemsOf(r) = {a.item : a \in Range(r)}
      BY DEF ItemsOf, Range
    <3>2. \A y : y \in {a.item : a \in Range(r)} <=> y \in {a.item : a \in Range(seq)} \/ y = x
      BY <2>3, <2>5
    <3>3. QED
      BY <3>1, <3>2
  \* Where an arrow of the new vector comes from, and where one goes.
  <2>9. ASSUME NEW i \in 1 .. n + 1
        PROVE  \/ i < q /\ i \in 1 .. n /\ r[i].item = seq[i].item
               \/ i = q /\ r[i].item = x
               \/ i > q /\ i - 1 \in 1 .. n /\ r[i].item = seq[i - 1].item
    BY <1>1, <2>3, <2>4, <2>5
  <2>10. ASSUME NEW i \in 1 .. n
         PROVE  \/ i < q /\ i \in 1 .. n + 1 /\ r[i].item = seq[i].item
                \/ i >= q /\ i + 1 \in 1 .. n + 1 /\ r[i + 1].item = seq[i].item
    <3>1. CASE i < q
      BY <1>1, <2>4, <2>5, <3>1
    <3>2. CASE i >= q
      <4>1. i + 1 \in 1 .. n + 1 /\ ~(i + 1 < q) /\ i + 1 # q /\ (i + 1) - 1 = i
        BY <1>1, <2>4, <3>2
      <4>2. r[i + 1] = seq[(i + 1) - 1]
        BY <2>5, <4>1
      <4>3. QED
        BY <3>2, <4>1, <4>2
    <3>3. QED
      BY <1>1, <2>4, <3>1, <3>2
  <2>11. InTimeOrder(r)
    <3>1. ASSUME NEW i \in 1 .. n + 1, NEW j \in 1 .. n + 1, i <= j
          PROVE  time[r[i].item] <= time[r[j].item]
      <4>1. \A k, l \in 1 .. n : k <= l => time[seq[k].item] <= time[seq[l].item]
        BY <1>1 DEF InTimeOrder
      <4>2. CASE i = j
        <5>1. r[i].item \in Items
          BY <1>1, <2>9
        <5>2. time[r[i].item] \in Nat
          BY <5>1 DEF FlowTypes
        <5>3. QED
          BY <4>2, <5>2
      <4>3. CASE i = q /\ j > q
        <5>1. j - 1 \in 1 .. n /\ q <= j - 1 /\ r[j].item = seq[j - 1].item /\ r[i].item = x
          BY <1>1, <2>4, <2>9, <4>3
        <5>2. time[seq[j - 1].item] \in Nat
          BY <2>2, <5>1
        <5>3. QED
          BY <2>2, <2>7, <5>1, <5>2
      <4>4. CASE i < q /\ j = q
        BY <2>4, <2>7, <2>9, <4>4
      <4>5. CASE i < q /\ j < q
        BY <2>4, <2>9, <3>1, <4>1, <4>5
      <4>6. CASE i < q /\ j > q
        <5>1. j - 1 \in 1 .. n /\ i \in 1 .. n /\ i <= j - 1 /\ r[j].item = seq[j - 1].item /\ r[i].item = seq[i].item
          BY <1>1, <2>4, <2>9, <4>6
        <5>2. QED
          BY <4>1, <5>1
      <4>7. CASE i > q /\ j > q
        <5>1. j - 1 \in 1 .. n /\ i - 1 \in 1 .. n /\ i - 1 <= j - 1
              /\ r[j].item = seq[j - 1].item /\ r[i].item = seq[i - 1].item
          BY <1>1, <2>4, <2>9, <3>1, <4>7
        <5>2. QED
          BY <4>1, <5>1
      <4>8. QED
        BY <1>1, <2>4, <3>1, <4>2, <4>3, <4>4, <4>5, <4>6, <4>7
    <3>2. QED
      BY <2>6, <3>1 DEF InTimeOrder
  <2>12. ASSUME NEW k \in DOMAIN old, NEW l \in DOMAIN old, k < l
         PROVE  \E i, j \in DOMAIN r : i < j /\ r[i].item = old[k].item /\ r[j].item = old[l].item
    <3>1. PICK i \in 1 .. n, j \in 1 .. n : i < j /\ seq[i].item = old[k].item /\ seq[j].item = old[l].item
      BY <1>1, <2>12 DEF KeepsOrder
    <3> DEFINE To(h) == IF h < q THEN h ELSE h + 1
    <3>2. ASSUME NEW h \in 1 .. n
          PROVE  To(h) \in 1 .. n + 1 /\ r[To(h)].item = seq[h].item
      <4>1. q \in Nat /\ h \in Nat
        BY <1>1, <2>4
      <4>2. CASE h < q
        BY <2>10, <4>1, <4>2
      <4>3. CASE h >= q
        BY <2>10, <4>1, <4>3
      <4>4. QED
        BY <4>1, <4>2, <4>3
    <3>3. To(i) < To(j)
      <4>1. q \in Nat /\ i \in Nat /\ j \in Nat /\ i < j
        BY <1>1, <2>4, <3>1
      <4>2. QED
        BY <4>1
    <3> HIDE DEF To
    <3>4. QED
      BY <2>6, <3>1, <3>2, <3>3
  <2>13. ASSUME NEW i \in DOMAIN r, NEW j \in DOMAIN r, i < j, ~Find(old, r[i].item), Find(old, r[j].item)
         PROVE  time[r[i].item] < time[r[j].item]
    <3>1. i \in 1 .. n + 1 /\ j \in 1 .. n + 1
      BY <2>6
    <3>2. \A k, l \in 1 .. n : k < l /\ ~Find(old, seq[k].item) /\ Find(old, seq[l].item) =>
            time[seq[k].item] < time[seq[l].item]
      BY <1>1 DEF KeepsOrder
    <3>3. ~Find(old, x)
      <4>1. x \notin ItemsOf(seq)
        BY <1>3 DEF Find, ItemsOf
      <4>2. x \notin ItemsOf(old)
        BY <4>1
      <4>3. QED
        BY <4>2 DEF Find, ItemsOf
    <3>4. j # q
      BY <2>9, <2>13, <3>1, <3>3
    <3>5. CASE i = q
      <4>1. j - 1 \in 1 .. n /\ q <= j - 1 /\ r[j].item = seq[j - 1].item /\ r[i].item = x
        BY <1>1, <2>4, <2>9, <2>13, <3>1, <3>5
      <4>2. QED
        BY <2>7, <4>1
    <3>6. CASE i # q
      <4> DEFINE From(h) == IF h < q THEN h ELSE h - 1
      <4>1. ASSUME NEW h \in 1 .. n + 1, h # q
            PROVE  From(h) \in 1 .. n /\ r[h].item = seq[From(h)].item
        <5>1. q \in Nat /\ h \in Nat
          BY <1>1, <2>4
        <5>2. CASE h < q
          BY <2>9, <5>1, <5>2
        <5>3. CASE h > q
          BY <2>9, <5>1, <5>3
        <5>4. QED
          BY <4>1, <5>1, <5>2, <5>3
      <4>2. From(i) < From(j)
        <5>1. q \in Nat /\ i \in Nat /\ j \in Nat /\ i < j /\ i # q /\ j # q
          BY <1>1, <2>4, <2>13, <3>1, <3>4, <3>6
        <5>2. QED
          BY <5>1
      <4> HIDE DEF From
      <4>3. QED
        BY <2>13, <3>1, <3>2, <3>4, <3>6, <4>1, <4>2
    <3>7. QED
      BY <3>5, <3>6
  <2>14. KeepsOrder(old, r)
    BY <2>12, <2>13 DEF KeepsOrder
  <2>15. QED
    BY <2>1, <2>5, <2>8, <2>11, <2>14 DEF T
<1>4. QED
  BY <1>2, <1>3
ItemsToDraw == GroupMsgs(group, sdpOnly) \o StreamWalk(group)

\* The arrows to draw: sorted, with those there were in their order.
LEMMA PendingArrowsFacts ==
  ASSUME FlowTypes, NEW items \in Seq(Items), items = ItemsToDraw, InTimeOrder(arrows)
  PROVE  /\ PendingArrows \in Seq(Arrows)
         /\ InTimeOrder(PendingArrows)
         /\ KeepsOrder(arrows, PendingArrows)
         /\ ItemsOf(PendingArrows) = ItemsOf(arrows) \cup Range(items)
<1> DEFINE n == Len(items)
           T == {seq \in Seq(Arrows) : /\ InTimeOrder(seq) /\ KeepsOrder(arrows, seq)
                                       /\ ItemsOf(arrows) \subseteq ItemsOf(seq)}
           step == [i \in 1 .. n |-> [seq \in T |-> ArrowAdd(seq, items[i])]]
           eq(f) == [i \in 0 .. n |-> IF i = 0 THEN arrows ELSE ArrowAdd(f[i - 1], items[i])]
           F == CHOOSE f : f = eq(f)
<1>1. PendingArrows = F[n]
  BY DEF PendingArrows, ItemsToDraw
<1>2. arrows \in T
  <2>1. arrows \in Seq(Arrows)
    BY DEF FlowTypes
  <2>2. \A k \in DOMAIN arrows : Find(arrows, arrows[k].item)
    BY DEF Find
  <2>3. KeepsOrder(arrows, arrows)
    BY <2>2 DEF KeepsOrder
  <2>4. QED
    BY <2>1, <2>3
<1>3. n \in Nat /\ DOMAIN items = 1 .. n /\ \A i \in 1 .. n : items[i] \in Items /\ items[i] \in Range(items)
  <2>1. n \in Nat /\ DOMAIN items = 1 .. n /\ \A i \in 1 .. n : items[i] \in Items
    OBVIOUS
  <2>2. QED
    BY <2>1 DEF Range
<1>4. arrows \in Seq(Arrows)
  BY DEF FlowTypes
<1>5. ASSUME NEW seq \in T, NEW x \in Items
      PROVE  ArrowAdd(seq, x) \in T /\ ItemsOf(ArrowAdd(seq, x)) = ItemsOf(seq) \cup {x}
  <2>1. seq \in Seq(Arrows) /\ InTimeOrder(seq) /\ KeepsOrder(arrows, seq) /\ ItemsOf(arrows) \subseteq ItemsOf(seq)
    OBVIOUS
  <2>2. /\ ArrowAdd(seq, x) \in Seq(Arrows)
        /\ InTimeOrder(ArrowAdd(seq, x))
        /\ KeepsOrder(arrows, ArrowAdd(seq, x))
        /\ ItemsOf(ArrowAdd(seq, x)) = ItemsOf(seq) \cup {x}
    BY <1>4, <2>1, ArrowAddFacts
  <2>3. QED
    BY <2>1, <2>2
<1>6. step \in [1 .. n -> [T -> T]] /\ \A i \in 1 .. n, seq \in T : step[i][seq] = ArrowAdd(seq, items[i])
  BY <1>3, <1>5
<1> HIDE DEF n, T, step
<1>7. PICK f : IsRecursion(f, n, T, arrows, step)
  BY <1>2, <1>3, <1>6, RecursiveFunction
<1>8. f \in [0 .. n -> T] /\ f[0] = arrows /\ \A i \in 1 .. n : f[i] = step[i][f[i - 1]]
  BY <1>7 DEF IsRecursion
<1>9. f = eq(f)
  <2>1. \A i \in 1 .. n : i - 1 \in 0 .. n /\ f[i - 1] \in T
    BY <1>3, <1>8
  <2>2. \A i \in 1 .. n : f[i] = ArrowAdd(f[i - 1], items[i])
    BY <1>6, <1>8, <2>1
  <2>3. \A i \in 0 .. n : i = 0 \/ (i # 0 /\ i \in 1 .. n)
    BY <1>3
  <2>4. \A i \in 0 .. n : f[i] = IF i = 0 THEN arrows ELSE ArrowAdd(f[i - 1], items[i])
    BY <1>8, <2>2, <2>3
  <2>5. QED
    BY <1>8, <2>4
<1>10. F = eq(F)
  BY <1>9
<1> HIDE DEF F
<1>11. F[0] = arrows /\ \A i \in 1 .. n : F[i] = ArrowAdd(F[i - 1], items[i])
  <2>1. 0 \in 0 .. n /\ \A i \in 1 .. n : i \in 0 .. n /\ i # 0
    BY <1>3
  <2>2. \A i \in 0 .. n : F[i] = eq(F)[i]
    BY <1>10
  <2>3. QED
    BY <2>1, <2>2
<1> DEFINE G == {i \in 0 .. n : /\ F[i] \in T
                                /\ ItemsOf(F[i]) = ItemsOf(arrows) \cup {items[j] : j \in 1 .. i}}
<1>12. 0 \in G
  <2>1. {items[j] : j \in 1 .. 0} = {} /\ 0 \in 0 .. n
    BY <1>3
  <2>2. QED
    BY <1>2, <1>11, <2>1
<1>13. ASSUME NEW i \in 1 .. n, i - 1 \in G PROVE i \in G
  <2> DEFINE seq == F[i - 1]
             x == items[i]
  <2>1. seq \in T /\ ItemsOf(seq) = ItemsOf(arrows) \cup {items[j] : j \in 1 .. i - 1}
    BY <1>13
  <2>2. F[i] = ArrowAdd(seq, x) /\ x \in Items
    BY <1>3, <1>11
  <2> HIDE DEF seq, x
  <2>3. F[i] \in T /\ ItemsOf(F[i]) = ItemsOf(seq) \cup {x}
    BY <1>5, <2>1, <2>2
  <2>4. i \in 0 .. n /\ \A j : j \in 1 .. i <=> j \in 1 .. i - 1 \/ j = i
    BY <1>3
  <2>5. {items[j] : j \in 1 .. i} = {items[j] : j \in 1 .. i - 1} \cup {x}
    BY <2>4 DEF x
  <2>6. QED
    BY <2>1, <2>3, <2>4, <2>5
<1>14. \A i \in 0 .. n : i \in G
  <2> HIDE DEF G
  <2>1. QED
    BY <1>3, <1>12, <1>13, UpTo
<1>15. n \in G
  <2> HIDE DEF G
  <2>1. QED
    BY <1>3, <1>14
<1>16. Range(items) = {items[j] : j \in 1 .. n}
  BY <1>3 DEF Range
<1>17. QED
  BY <1>1, <1>15, <1>16 DEF T
-----------------------------------------------------------------------------
(* Columns of a draw.                                                      *)

Entries == [call : Calls \cup {None}, addr : Endpoints]

\* Columns are never taken away: their addresses stay, their calls get more.
Widens(cols, new) ==
  /\ Len(cols) <= Len(new)
  /\ \A i \in 1 .. Len(cols) : new[i].addr = cols[i].addr /\ cols[i].callids \subseteq new[i].callids

LEMMA ColumnFound ==
  ASSUME NEW cols \in Seq(Columns), NEW c, NEW addr
  PROVE  /\ ColumnGet(cols, c, addr) \in Nat
         /\ ColumnGet(cols, c, addr) # 0 <=> \E i \in 1 .. Len(cols) : ColumnMatches(cols[i], c, addr)
<1> DEFINE found == {i \in DOMAIN cols : ColumnMatches(cols[i], c, addr)}
<1>1. ColumnGet(cols, c, addr) = IF found = {} THEN 0 ELSE Min(found)
  BY DEF ColumnGet
<1>2. DOMAIN cols = 1 .. Len(cols) /\ Len(cols) \in Nat
  OBVIOUS
<1>3. found \subseteq Nat /\ 0 \notin found
  BY <1>2
<1>4. found = {} <=> ~ \E i \in 1 .. Len(cols) : ColumnMatches(cols[i], c, addr)
  BY <1>2
<1> HIDE DEF found
<1>5. CASE found = {}
  <2>1. ColumnGet(cols, c, addr) = 0
    BY <1>1, <1>5
  <2>2. QED
    BY <1>4, <1>5, <2>1
<1>6. CASE found # {}
  <2>1. Min(found) \in found
    BY <1>3, <1>6, MinOfNats
  <2>2. ColumnGet(cols, c, addr) \in found
    BY <1>1, <1>6, <2>1
  <2>3. ColumnGet(cols, c, addr) \in Nat /\ ColumnGet(cols, c, addr) # 0
    BY <1>3, <2>2
  <2>4. QED
    BY <1>4, <1>6, <2>3
<1>7. QED
  BY <1>5, <1>6

LEMMA ColumnStays ==
  ASSUME NEW cols \in Seq(Columns), NEW new \in Seq(Columns), Widens(cols, new), NEW c, NEW addr,
         ColumnGet(cols, c, addr) # 0
  PROVE  ColumnGet(new, c, addr) # 0
<1>1. PICK i \in 1 .. Len(cols) : ColumnMatches(cols[i], c, addr)
  BY ColumnFound
<1>2. i \in 1 .. Len(new) /\ new[i].addr = cols[i].addr /\ cols[i].callids \subseteq new[i].callids
  <2>1. Len(cols) \in Nat /\ Len(new) \in Nat
    OBVIOUS
  <2>2. QED
    BY <2>1 DEF Widens
<1>3. ColumnMatches(new[i], c, addr)
  BY <1>1, <1>2 DEF ColumnMatches
<1>4. QED
  BY <1>2, <1>3, ColumnFound

LEMMA ColumnAddFacts ==
  ASSUME NEW cols \in Seq(Columns), NEW entry \in Entries
  PROVE  /\ ColumnAdd(cols, entry) \in Seq(Columns)
         /\ Widens(cols, ColumnAdd(cols, entry))
         /\ ColumnGet(ColumnAdd(cols, entry), entry.call, entry.addr) # 0
<1> DEFINE n == Len(cols)
           shared == {i \in DOMAIN cols : /\ i # 1 /\ cols[i].addr = entry.addr
                                          /\ Cardinality(cols[i].callids) < MaxCallids}
<1>1. n \in Nat /\ DOMAIN cols = 1 .. n /\ \A i \in 1 .. n : cols[i] \in Columns
  OBVIOUS
<1>2. entry.addr \in Endpoints /\ entry.call \in Calls \cup {None}
  BY DEF Entries
<1>3. CASE ColumnGet(cols, entry.call, entry.addr) # 0
  <2>1. ColumnAdd(cols, entry) = cols
    BY <1>3 DEF ColumnAdd
  <2>2. Widens(cols, cols)
    BY <1>1 DEF Widens
  <2>3. QED
    BY <1>3, <2>1, <2>2
<1>4. CASE ColumnGet(cols, entry.call, entry.addr) = 0 /\ shared # {}
  <2> DEFINE k == Min(shared)
             new == [cols EXCEPT ![k].callids = @ \cup {entry.call}]
  <2>1. ColumnAdd(cols, entry) = new
    BY <1>4 DEF ColumnAdd
  <2>2. shared \subseteq Nat
    BY <1>1
  <2>3. \A i \in shared : i \in 1 .. n /\ cols[i].addr = entry.addr
    BY <1>1
  <2> HIDE DEF shared
  <2>4. k \in 1 .. n /\ cols[k].addr = entry.addr
    BY <1>4, <2>2, <2>3, MinOfNats
  <2> HIDE DEF k
  <2>5. cols[k] \in Columns
    BY <1>1, <2>4
  <2> DEFINE wider == [cols[k] EXCEPT !.callids = @ \cup {entry.call}]
  <2>6. /\ wider \in Columns /\ wider.addr = entry.addr
        /\ wider.callids = cols[k].callids \cup {entry.call}
    BY <1>2, <2>4, <2>5 DEF Columns
  <2>7. new = [cols EXCEPT ![k] = wider]
    OBVIOUS
  <2> HIDE DEF wider, new
  <2>8. \A i \in 1 .. n : new[i] = IF i = k THEN wider ELSE cols[i]
    BY <1>1, <2>7
  <2>9. new \in Seq(Columns) /\ Len(new) = n
    <3>1. DOMAIN new = 1 .. n /\ new = [i \in 1 .. n |-> new[i]]
      BY <1>1, <2>7
    <3>2. \A i \in 1 .. n : new[i] \in Columns
      BY <1>1, <2>6, <2>8
    <3>3. new \in [1 .. n -> Columns]
      BY <3>1, <3>2
    <3> HIDE DEF n
    <3>4. QED
      BY <1>1, <3>3
  <2> HIDE DEF new
  <2>10. Widens(cols, new)
    BY <1>1, <2>4, <2>6, <2>8, <2>9 DEF Widens
  <2>11. new[k].addr = entry.addr /\ entry.call \in new[k].callids
    BY <2>4, <2>6, <2>8
  <2>12. ColumnMatches(new[k], entry.call, entry.addr)
    BY <2>11 DEF ColumnMatches
  <2>13. k \in 1 .. Len(new)
    BY <2>4, <2>9
  <2>14. QED
    BY <2>1, <2>9, <2>10, <2>12, <2>13, ColumnFound
<1>5. CASE ColumnGet(cols, entry.call, entry.addr) = 0 /\ shared = {}
  <2> DEFINE column == [addr |-> entry.addr, callids |-> {entry.call}]
             new == Append(cols, column)
  <2>1. ColumnAdd(cols, entry) = new
    BY <1>5 DEF ColumnAdd
  <2>2. column \in Columns /\ column.addr = entry.addr /\ column.callids = {entry.call}
    BY <1>2 DEF Columns
  <2> HIDE DEF column
  <2>3. /\ new \in Seq(Columns) /\ Len(new) = n + 1 /\ new[n + 1] = column
        /\ \A i \in 1 .. n : new[i] = cols[i]
    BY <1>1, <2>2
  <2> HIDE DEF new
  <2>4. Widens(cols, new)
    BY <1>1, <2>3 DEF Widens
  <2>5. ColumnMatches(new[n + 1], entry.call, entry.addr)
    BY <2>2, <2>3 DEF ColumnMatches
  <2>6. n + 1 \in 1 .. Len(new)
    BY <1>1, <2>3
  <2>7. QED
    BY <2>1, <2>3, <2>4, <2>5, <2>6, ColumnFound
<1>6. QED
  BY <1>3, <1>4, <1>5

\* An item of one of the sequences is an item of the flattened one.
LEMMA FlattenHolds ==
  ASSUME NEW S, NEW ss \in Seq(Seq(S))
  PROVE  /\ FlattenSeq(ss) \in Seq(S)
         /\ \A b \in 1 .. Len(ss) : \A j \in 1 .. Len(ss[b]) : ss[b][j] \in Range(FlattenSeq(ss))
<1> DEFINE t == FlattenSeq(ss)
<1>1. t \in Seq(S) /\ \E off \in [1 .. Len(ss) -> Nat] : SideBySide(t, ss, off, Len(ss))
  BY FlattenFacts
<1> HIDE DEF t
<1>2. PICK off \in [1 .. Len(ss) -> Nat] : SideBySide(t, ss, off, Len(ss))
  BY <1>1
<1>3. DOMAIN t = 1 .. Len(t)
  BY <1>1
<1>4. \A b \in 1 .. Len(ss) : \A j \in 1 .. Len(ss[b]) : off[b] + j \in DOMAIN t /\ t[off[b] + j] = ss[b][j]
  BY <1>2, <1>3 DEF SideBySide
<1>5. \A b \in 1 .. Len(ss) : \A j \in 1 .. Len(ss[b]) : ss[b][j] \in Range(t)
  BY <1>4 DEF Range
<1>6. QED
  BY <1>1, <1>5 DEF t

\* Both addresses of every message, and of every stream whose call the walk
\* reaches, ask for a column.
LEMMA ColumnEntriesFacts ==
  ASSUME FlowTypes, CaptureInv, \A c \in Range(group) : msgs[c] # <<>>
  PROVE  /\ ColumnEntries \in Seq(Entries)
         /\ \A m \in MsgsShown(group, sdpOnly) : \A addr \in {m.src, m.dst} :
              [call |-> m.call, addr |-> addr] \in Range(ColumnEntries)
         /\ setting.media # "off" =>
              \A s \in StreamsShown(CallWalk(group, sdpOnly)) : \A addr \in {s.src, s.dst} :
                [call |-> None, addr |-> AnyPort(addr)] \in Range(ColumnEntries)
<1> DEFINE ms == GroupMsgs(group, sdpOnly)
           walk == IF setting.media = "off" THEN <<>> ELSE CallWalk(group, sdpOnly)
           rtp == GroupStreams(walk)
           sips == [i \in DOMAIN ms |-> <<[call |-> ms[i].call, addr |-> ms[i].src],
                                          [call |-> ms[i].call, addr |-> ms[i].dst]>>]
           rtps == [i \in DOMAIN rtp |-> <<[call |-> None, addr |-> AnyPort(rtp[i].src)],
                                           [call |-> None, addr |-> AnyPort(rtp[i].dst)]>>]
           A == FlattenSeq(sips)
           B == FlattenSeq(rtps)
<1>1. ColumnEntries = A \o B
  BY DEF ColumnEntries, SipEntries
<1>2. group \in Seq(Calls)
  BY DEF FlowTypes
<1>3. ms \in Seq(Messages) /\ Range(ms) = MsgsShown(group, sdpOnly)
  BY <1>2, GroupMsgsFacts
<1>4. walk \in Seq(Calls)
  BY <1>2, CallWalkFacts
<1>5. rtp \in Seq(Streams) /\ Range(rtp) = StreamsShown(walk)
  <2> HIDE DEF walk
  <2>1. QED
    BY <1>4, GroupStreamsFacts
<1> HIDE DEF ms, rtp
<1>6. ASSUME NEW e \in Endpoints PROVE AnyPort(e) \in Endpoints
  BY DEF AnyPort, Endpoints
<1>7. ASSUME NEW c \in Calls \cup {None}, NEW e \in Endpoints PROVE [call |-> c, addr |-> e] \in Entries
  BY DEF Entries
<1>8. /\ DOMAIN ms = 1 .. Len(ms) /\ Len(ms) \in Nat /\ \A i \in 1 .. Len(ms) : ms[i] \in Messages
      /\ DOMAIN rtp = 1 .. Len(rtp) /\ Len(rtp) \in Nat /\ \A i \in 1 .. Len(rtp) : rtp[i] \in Streams
  BY <1>3, <1>5
<1>9. \A x \in Entries, y \in Entries : <<x, y>> \in Seq(Entries) /\ Len(<<x, y>>) = 2 /\ <<x, y>>[1] = x /\ <<x, y>>[2] = y
  OBVIOUS
<1>10. ASSUME NEW i \in 1 .. Len(ms)
       PROVE  /\ sips[i] \in Seq(Entries) /\ Len(sips[i]) = 2
              /\ sips[i][1] = [call |-> ms[i].call, addr |-> ms[i].src]
              /\ sips[i][2] = [call |-> ms[i].call, addr |-> ms[i].dst]
  <2>1. ms[i].call \in Calls /\ ms[i].src \in Endpoints /\ ms[i].dst \in Endpoints
    BY <1>8, ConstantFacts
  <2>2. [call |-> ms[i].call, addr |-> ms[i].src] \in Entries /\ [call |-> ms[i].call, addr |-> ms[i].dst] \in Entries
    BY <1>7, <2>1
  <2>3. sips[i] = <<[call |-> ms[i].call, addr |-> ms[i].src], [call |-> ms[i].call, addr |-> ms[i].dst]>>
    BY <1>8
  <2>4. QED
    BY <1>9, <2>2, <2>3
<1>11. ASSUME NEW i \in 1 .. Len(rtp)
       PROVE  /\ rtps[i] \in Seq(Entries) /\ Len(rtps[i]) = 2
              /\ rtps[i][1] = [call |-> None, addr |-> AnyPort(rtp[i].src)]
              /\ rtps[i][2] = [call |-> None, addr |-> AnyPort(rtp[i].dst)]
  <2>1. rtp[i].src \in Endpoints /\ rtp[i].dst \in Endpoints
    BY <1>8, ConstantFacts
  <2>2. AnyPort(rtp[i].src) \in Endpoints /\ AnyPort(rtp[i].dst) \in Endpoints
    BY <1>6, <2>1
  <2>3. [call |-> None, addr |-> AnyPort(rtp[i].src)] \in Entries /\ [call |-> None, addr |-> AnyPort(rtp[i].dst)] \in Entries
    BY <1>7, <2>2
  <2>4. rtps[i] = <<[call |-> None, addr |-> AnyPort(rtp[i].src)], [call |-> None, addr |-> AnyPort(rtp[i].dst)]>>
    BY <1>8
  <2>5. QED
    BY <1>9, <2>3, <2>4
<1>12. DOMAIN sips = 1 .. Len(ms) /\ DOMAIN rtps = 1 .. Len(rtp)
  BY <1>8
<1>13. sips = [i \in 1 .. Len(ms) |-> sips[i]] /\ rtps = [i \in 1 .. Len(rtp) |-> rtps[i]]
  BY <1>12
<1> HIDE DEF sips, rtps
<1>14. sips \in Seq(Seq(Entries)) /\ Len(sips) = Len(ms) /\ rtps \in Seq(Seq(Entries)) /\ Len(rtps) = Len(rtp)
  <2>1. sips \in [1 .. Len(ms) -> Seq(Entries)] /\ rtps \in [1 .. Len(rtp) -> Seq(Entries)]
    BY <1>10, <1>11, <1>13
  <2>2. sips \in Seq(Seq(Entries)) /\ Len(sips) = Len(ms)
    BY <1>8, <2>1
  <2>3. rtps \in Seq(Seq(Entries)) /\ Len(rtps) = Len(rtp)
    BY <1>8, <2>1
  <2>4. QED
    BY <2>2, <2>3
<1>15. /\ A \in Seq(Entries) /\ B \in Seq(Entries)
       /\ \A b \in 1 .. Len(ms) : \A j \in {1, 2} : sips[b][j] \in Range(A)
       /\ \A b \in 1 .. Len(rtp) : \A j \in {1, 2} : rtps[b][j] \in Range(B)
  <2>1. A \in Seq(Entries) /\ \A b \in 1 .. Len(sips) : \A j \in 1 .. Len(sips[b]) : sips[b][j] \in Range(A)
    BY <1>14, FlattenHolds
  <2>2. B \in Seq(Entries) /\ \A b \in 1 .. Len(rtps) : \A j \in 1 .. Len(rtps[b]) : rtps[b][j] \in Range(B)
    BY <1>14, FlattenHolds
  <2>3. 1 \in 1 .. 2 /\ 2 \in 1 .. 2
    OBVIOUS
  <2>4. QED
    BY <1>10, <1>11, <1>14, <2>1, <2>2, <2>3
<1> HIDE DEF A, B
<1>16. A \o B \in Seq(Entries) /\ Range(A) \subseteq Range(A \o B) /\ Range(B) \subseteq Range(A \o B)
  <2>1. A \o B \in Seq(Entries) /\ Len(A \o B) = Len(A) + Len(B) /\ Len(A) \in Nat /\ Len(B) \in Nat
    BY <1>15
  <2>2. \A k \in 1 .. Len(A) : k \in 1 .. Len(A) + Len(B) /\ (A \o B)[k] = A[k]
    BY <1>15
  <2>3. \A k \in 1 .. Len(B) : Len(A) + k \in 1 .. Len(A) + Len(B) /\ (A \o B)[Len(A) + k] = B[k]
    BY <1>15
  <2>4. DOMAIN A = 1 .. Len(A) /\ DOMAIN B = 1 .. Len(B) /\ DOMAIN (A \o B) = 1 .. Len(A) + Len(B)
    BY <1>15, <2>1
  <2>5. QED
    <3>1. Range(A) \subseteq Range(A \o B)
      BY <2>1, <2>2, <2>4 DEF Range
    <3>2. Range(B) \subseteq Range(A \o B)
      BY <2>1, <2>3, <2>4 DEF Range
    <3>3. QED
      BY <2>1, <3>1, <3>2
<1>17. ASSUME NEW m \in MsgsShown(group, sdpOnly), NEW addr \in {m.src, m.dst}
       PROVE  [call |-> m.call, addr |-> addr] \in Range(ColumnEntries)
  <2>1. PICK i \in 1 .. Len(ms) : ms[i] = m
    BY <1>3, <1>8 DEF Range
  <2>2. sips[i][1] \in Range(A) /\ sips[i][2] \in Range(A)
    BY <1>15
  <2>3. /\ [call |-> m.call, addr |-> m.src] \in Range(ColumnEntries)
        /\ [call |-> m.call, addr |-> m.dst] \in Range(ColumnEntries)
    BY <1>1, <1>10, <1>16, <2>1, <2>2
  <2>4. QED
    BY <2>3
<1>18. ASSUME setting.media # "off", NEW s \in StreamsShown(CallWalk(group, sdpOnly)), NEW addr \in {s.src, s.dst}
       PROVE  [call |-> None, addr |-> AnyPort(addr)] \in Range(ColumnEntries)
  <2>1. s \in Range(rtp)
    BY <1>5, <1>18
  <2>2. PICK i \in 1 .. Len(rtp) : rtp[i] = s
    BY <1>8, <2>1 DEF Range
  <2>3. rtps[i][1] \in Range(B) /\ rtps[i][2] \in Range(B)
    BY <1>15
  <2>4. /\ [call |-> None, addr |-> AnyPort(s.src)] \in Range(ColumnEntries)
        /\ [call |-> None, addr |-> AnyPort(s.dst)] \in Range(ColumnEntries)
    BY <1>1, <1>11, <1>16, <2>2, <2>3
  <2>5. QED
    BY <2>4
<1>19. QED
  BY <1>1, <1>15, <1>16, <1>17, <1>18
LEMMA DrawColumnsFacts ==
  ASSUME FlowTypes, NEW entries \in Seq(Entries), entries = ColumnEntries
  PROVE  /\ DrawColumns \in Seq(Columns)
         /\ \A e \in Range(entries) : ColumnGet(DrawColumns, e.call, e.addr) # 0
<1> DEFINE n == Len(entries)
           T == Seq(Columns)
           step == [i \in 1 .. n |-> [cols \in T |-> ColumnAdd(cols, entries[i])]]
           eq(f) == [i \in 0 .. n |-> IF i = 0 THEN columns ELSE ColumnAdd(f[i - 1], entries[i])]
           F == CHOOSE f : f = eq(f)
<1>1. DrawColumns = F[n]
  BY DEF DrawColumns
<1>2. columns \in T
  BY DEF FlowTypes
<1>3. n \in Nat /\ DOMAIN entries = 1 .. n /\ \A i \in 1 .. n : entries[i] \in Entries
  OBVIOUS
<1>4. \A cols \in T, e \in Entries : ColumnAdd(cols, e) \in T
  BY ColumnAddFacts
<1>5. step \in [1 .. n -> [T -> T]] /\ \A i \in 1 .. n, cols \in T : step[i][cols] = ColumnAdd(cols, entries[i])
  BY <1>3, <1>4
<1> HIDE DEF n, T, step
<1>6. PICK f : IsRecursion(f, n, T, columns, step)
  BY <1>2, <1>3, <1>5, RecursiveFunction
<1>7. f \in [0 .. n -> T] /\ f[0] = columns /\ \A i \in 1 .. n : f[i] = step[i][f[i - 1]]
  BY <1>6 DEF IsRecursion
<1>8. f = eq(f)
  <2>1. \A i \in 1 .. n : i - 1 \in 0 .. n /\ f[i - 1] \in T
    BY <1>3, <1>7
  <2>2. \A i \in 1 .. n : f[i] = ColumnAdd(f[i - 1], entries[i])
    BY <1>5, <1>7, <2>1
  <2>3. \A i \in 0 .. n : i = 0 \/ (i # 0 /\ i \in 1 .. n)
    BY <1>3
  <2>4. \A i \in 0 .. n : f[i] = IF i = 0 THEN columns ELSE ColumnAdd(f[i - 1], entries[i])
    BY <1>7, <2>2, <2>3
  <2>5. QED
    BY <1>7, <2>4
<1>9. F = eq(F)
  BY <1>8
<1> HIDE DEF F
<1>10. F[0] = columns /\ \A i \in 1 .. n : F[i] = ColumnAdd(F[i - 1], entries[i])
  <2>1. 0 \in 0 .. n /\ \A i \in 1 .. n : i \in 0 .. n /\ i # 0
    BY <1>3
  <2>2. \A i \in 0 .. n : F[i] = eq(F)[i]
    BY <1>9
  <2>3. QED
    BY <2>1, <2>2
<1> DEFINE has(i, e) == ColumnGet(F[i], e.call, e.addr) # 0
           G == {i \in 0 .. n : F[i] \in T /\ \A j \in 1 .. i : has(i, entries[j])}
<1>11. 0 \in G
  <2>1. 0 \in 0 .. n /\ 1 .. 0 = {}
    BY <1>3
  <2>2. QED
    BY <1>2, <1>10, <2>1
<1>12. ASSUME NEW i \in 1 .. n, i - 1 \in G PROVE i \in G
  <2> HIDE DEF has
  <2>1. F[i - 1] \in Seq(Columns) /\ \A j \in 1 .. i - 1 : has(i - 1, entries[j])
    BY <1>12 DEF T
  <2>2. entries[i] \in Entries /\ F[i] = ColumnAdd(F[i - 1], entries[i])
    BY <1>3, <1>10
  <2>3. F[i] \in Seq(Columns) /\ Widens(F[i - 1], F[i]) /\ has(i, entries[i])
    BY <2>1, <2>2, ColumnAddFacts DEF has
  <2>4. \A e : has(i - 1, e) => has(i, e)
    BY <2>1, <2>3, ColumnStays DEF has
  <2>5. i \in 0 .. n /\ \A j \in 1 .. i : j \in 1 .. i - 1 \/ j = i
    BY <1>3
  <2>6. \A j \in 1 .. i : has(i, entries[j])
    BY <2>1, <2>3, <2>4, <2>5
  <2>7. QED
    BY <2>3, <2>5, <2>6 DEF T
<1>13. n \in G
  <2> HIDE DEF G
  <2>1. \A i \in 0 .. n : i \in G
    BY <1>3, <1>11, <1>12, UpTo
  <2>2. QED
    BY <1>3, <2>1
<1>14. F[n] \in T /\ \A j \in 1 .. n : ColumnGet(F[n], entries[j].call, entries[j].addr) # 0
  BY <1>13
<1>15. \A e \in Range(entries) : \E j \in 1 .. n : entries[j] = e
  BY <1>3 DEF Range
<1>16. QED
  BY <1>1, <1>14, <1>15 DEF T

\* An arrow that is shown joins two columns if the walk over the calls has
\* reached the whole group.
LEMMA PlacedFacts ==
  ASSUME FlowTypes, CaptureInv, \A c \in Range(group) : msgs[c] # <<>>,
         Range(group) \subseteq Range(CallWalk(group, sdpOnly)),
         NEW seq \in Seq(Arrows), NEW a \in Arrows, Filter(a),
         a.item \in MsgsShown(group, sdpOnly) \cup StreamsShown(group)
  PROVE  /\ Placed(DrawColumns, seq, a).scolumn # 0
         /\ Placed(DrawColumns, seq, a).dcolumn # 0
<1> DEFINE cols == DrawColumns
           placed == Placed(cols, seq, a)
<1>1. /\ ColumnEntries \in Seq(Entries)
      /\ \A m \in MsgsShown(group, sdpOnly) : \A addr \in {m.src, m.dst} :
           [call |-> m.call, addr |-> addr] \in Range(ColumnEntries)
      /\ setting.media # "off" =>
           \A s \in StreamsShown(CallWalk(group, sdpOnly)) : \A addr \in {s.src, s.dst} :
             [call |-> None, addr |-> AnyPort(addr)] \in Range(ColumnEntries)
  BY ColumnEntriesFacts
<1>2. \A e \in Range(ColumnEntries) : ColumnGet(cols, e.call, e.addr) # 0
  BY <1>1, DrawColumnsFacts
<1> HIDE DEF cols
<1>3. a = [item |-> a.item, scolumn |-> a.scolumn, dcolumn |-> a.dcolumn]
  BY DEF Arrows
<1>4. CASE a.item \in MsgsShown(group, sdpOnly)
  <2> DEFINE m == a.item
  <2>1. m \in Messages /\ ~IsStream(m)
    BY <1>4, ConstantFacts DEF MsgsShown
  <2>2. placed = MessagePlaced(cols, a)
    BY <2>1 DEF Placed
  <2>3. placed.scolumn = ColumnGet(cols, m.call, m.src) /\ placed.dcolumn = ColumnGet(cols, m.call, m.dst)
    BY <1>3, <2>2 DEF MessagePlaced
  <2>4. /\ [call |-> m.call, addr |-> m.src] \in Range(ColumnEntries)
        /\ [call |-> m.call, addr |-> m.dst] \in Range(ColumnEntries)
    BY <1>1, <1>4
  <2>5. ColumnGet(cols, m.call, m.src) # 0 /\ ColumnGet(cols, m.call, m.dst) # 0
    BY <1>2, <2>4
  <2>6. QED
    BY <2>3, <2>5 DEF cols
<1>5. CASE a.item \in StreamsShown(group)
  <2> DEFINE s == a.item
  <2>1. s \in Streams /\ IsStream(s)
    BY <1>5, ConstantFacts DEF StreamsShown
  <2>2. placed = StreamPlaced(cols, seq, a)
    BY <2>1 DEF Placed
  <2>3. setting.media # "off"
    BY <2>1 DEF Filter
  <2>4. s \in StreamsShown(CallWalk(group, sdpOnly))
    BY <1>5 DEF StreamsShown
  <2>5. /\ [call |-> None, addr |-> AnyPort(s.src)] \in Range(ColumnEntries)
        /\ [call |-> None, addr |-> AnyPort(s.dst)] \in Range(ColumnEntries)
    BY <1>1, <2>3, <2>4
  <2>6. ColumnGet(cols, None, AnyPort(s.src)) # 0 /\ ColumnGet(cols, None, AnyPort(s.dst)) # 0
    BY <1>2, <2>5
  <2>7. /\ \E x : placed.scolumn = IF x # 0 THEN x ELSE ColumnGet(cols, None, AnyPort(s.src))
        /\ \E x : placed.dcolumn = IF x # 0 THEN x ELSE ColumnGet(cols, None, AnyPort(s.dst))
    BY <1>3, <2>2 DEF StreamPlaced
  <2>8. QED
    BY <2>6, <2>7 DEF cols
<1>6. QED
  BY <1>4, <1>5
-----------------------------------------------------------------------------
(* The inductive invariant.                                                *)

Drawable == MsgsShown(group, sdpOnly) \cup StreamsShown(group)

\* The calls of a group have messages.
GroupInv ==
  /\ \A c \in Range(group) : msgs[c] # <<>>
  /\ group = <<>> => arrows = <<>>

\* Arrows are of the group's items and sorted by time.
ArrowsInv == ItemsOf(arrows) \subseteq Drawable /\ InTimeOrder(arrows)

\* The cursor is set by the first draw that has arrows, together with the
\* first line.
ViewInv ==
  /\ cur # 0 => first # 0
  /\ drawn /\ status = "running" /\ cur = 0 => arrows = <<>>

FlowInv ==
  /\ FlowTypes /\ CaptureInv /\ GroupInv /\ ArrowsInv /\ ViewInv
  /\ ColumnsFound /\ DrawEnds

LEMMA DrawableFacts ==
  ASSUME FlowTypes, CaptureInv
  PROVE  \A x \in Drawable : x \in Items /\ time[x] # 0
<1>1. ASSUME NEW m \in MsgsShown(group, sdpOnly) PROVE m \in Items /\ time[m] # 0
  <2>1. PICK c \in Range(group) : m \in Range(msgs[c])
    BY DEF MsgsShown
  <2>2. c \in Calls
    BY <2>1 DEF FlowTypes, Range
  <2>3. PICK i \in DOMAIN msgs[c] : msgs[c][i] = m
    BY <2>1 DEF Range
  <2>4. m \in Messages
    BY DEF MsgsShown
  <2>5. QED
    BY <2>2, <2>3, <2>4, ConstantFacts DEF CaptureInv
<1>2. ASSUME NEW s \in StreamsShown(group) PROVE s \in Items /\ time[s] # 0
  BY ConstantFacts DEF StreamsShown
<1>3. QED
  BY <1>1, <1>2 DEF Drawable

LEMMA Concatenated ==
  ASSUME NEW S, NEW s \in Seq(S), NEW t \in Seq(S)
  PROVE  s \o t \in Seq(S) /\ Range(s \o t) = Range(s) \cup Range(t)
<1>1. s \o t \in Seq(S) /\ Len(s \o t) = Len(s) + Len(t) /\ Len(s) \in Nat /\ Len(t) \in Nat
  OBVIOUS
<1>2. \A k \in 1 .. Len(s) : k \in 1 .. Len(s) + Len(t) /\ (s \o t)[k] = s[k]
  OBVIOUS
<1>3. \A k \in 1 .. Len(t) : Len(s) + k \in 1 .. Len(s) + Len(t) /\ (s \o t)[Len(s) + k] = t[k]
  OBVIOUS
<1>4. DOMAIN s = 1 .. Len(s) /\ DOMAIN t = 1 .. Len(t) /\ DOMAIN (s \o t) = 1 .. Len(s) + Len(t)
  BY <1>1
<1>5. \A k \in 1 .. Len(s) + Len(t) : k \in 1 .. Len(s) \/ (k - Len(s) \in 1 .. Len(t) /\ k = Len(s) + (k - Len(s)))
  BY <1>1
<1>6. QED
  BY <1>1, <1>2, <1>3, <1>4, <1>5 DEF Range

\* A packet adds the item it is of.
LEMMA ReceiveStep ==
  ASSUME FlowInv, status = "running", Receive
  PROVE  FlowInv'
<1>0. FlowTypes /\ CaptureInv /\ GroupInv /\ ArrowsInv /\ ViewInv
  BY DEF FlowInv
<1>1. PICK item \in Items : \E t \in TimesOf(item) :
        /\ time[item] = 0
        /\ time' = [time EXCEPT ![item] = t]
        /\ IF IsStream(item)
           THEN time[item.msg] # 0 /\ UNCHANGED <<list, msgs, streams>>
           ELSE /\ msgs' = [msgs EXCEPT ![item.call] = Append(msgs[item.call], item)]
                /\ list' = IF msgs[item.call] = <<>> THEN Append(list, item.call) ELSE list
                /\ streams' = [streams EXCEPT ![item.call] = streams[item.call] \o StreamsOf(item)]
        /\ UNCHANGED <<settings, panel, drawn, status>>
  BY DEF Receive
<1>2. /\ time \in [Items -> Nat]
      /\ list \in Seq(Calls) /\ msgs \in [Calls -> Seq(Messages)] /\ streams \in [Calls -> Seq(Streams)]
      /\ group \in Seq(Calls) /\ sdpOnly \in BOOLEAN
      /\ columns \in Seq(Columns) /\ arrows \in Seq(Arrows) /\ cur \in Nat /\ first \in Nat
  BY <1>0 DEF FlowTypes
<1>3. UNCHANGED <<setting, group, callid, sdpOnly, columns, arrows, cur, first, selected, drawn, status>>
  BY <1>1 DEF settings, panel
<1>4. PICK t \in TimesOf(item) : time' = [time EXCEPT ![item] = t]
  BY <1>1
<1>5. t \in Nat /\ t # 0
  BY <1>4, FlowAssumption DEF Items
<1>6. time' \in [Items -> Nat] /\ time'[item] = t /\ \A x \in Items : x # item => time'[x] = time[x]
  BY <1>2, <1>4, <1>5
\* What becomes of the vectors of the calls.
<1>8. /\ list' \in Seq(Calls) /\ msgs' \in [Calls -> Seq(Messages)] /\ streams' \in [Calls -> Seq(Streams)]
      /\ \A c \in Calls : /\ Range(msgs[c]) \subseteq Range(msgs'[c])
                          /\ Range(msgs'[c]) \subseteq Range(msgs[c]) \cup {item}
                          /\ item \in Range(msgs'[c]) \ Range(msgs[c]) => item.call = c
                          /\ msgs[c] # <<>> => msgs'[c] # <<>>
                          /\ Range(streams[c]) \subseteq Range(streams'[c])
                          /\ \A s \in Range(streams'[c]) : s \in Range(streams[c]) \/ s.msg = item
      /\ \A c \in Range(list') : msgs'[c] # <<>>
      /\ item \in Streams => time[item.msg] # 0
  <2>1. CASE IsStream(item)
    <3>1. UNCHANGED <<list, msgs, streams>> /\ time[item.msg] # 0
      BY <1>1, <2>1
    <3>2. \A c \in Range(list) : msgs[c] # <<>>
      BY <1>0 DEF CaptureInv
    <3>3. QED
      BY <1>2, <3>1, <3>2
  <2>2. CASE ~IsStream(item)
    <3> DEFINE d == item.call
               more == streams[d] \o StreamsOf(item)
    <3>1. item \in Messages /\ item \notin Streams /\ d \in Calls
      BY <2>2, ConstantFacts DEF IsStream
    <3>2. /\ msgs' = [msgs EXCEPT ![d] = Append(msgs[d], item)]
          /\ list' = IF msgs[d] = <<>> THEN Append(list, d) ELSE list
          /\ streams' = [streams EXCEPT ![d] = more]
      BY <1>1, <2>2
    <3>3. Append(msgs[d], item) \in Seq(Messages) /\ Range(Append(msgs[d], item)) = Range(msgs[d]) \cup {item}
          /\ Append(msgs[d], item) # <<>>
      <4>1. msgs[d] \in Seq(Messages)
        BY <1>2, <3>1
      <4>2. Append(msgs[d], item) # <<>>
        <5> DEFINE q == msgs[d]
        <5>1. q \in Seq(Messages) /\ item \in Messages
          BY <3>1, <4>1
        <5> HIDE DEF q
        <5>2. Len(Append(q, item)) = Len(q) + 1 /\ Len(q) \in Nat
          BY <5>1
        <5>3. Append(q, item) # <<>>
          BY <5>2
        <5>4. QED
          BY <5>3 DEF q
      <4>3. QED
        BY <3>1, <4>1, <4>2, AppendFacts
    <3>4. /\ msgs' \in [Calls -> Seq(Messages)] /\ msgs'[d] = Append(msgs[d], item)
          /\ \A c \in Calls : c # d => msgs'[c] = msgs[c]
      BY <1>2, <3>1, <3>2, <3>3
    <3>5. list' \in Seq(Calls) /\ Range(list') \subseteq Range(list) \cup {d}
      <4>1. Append(list, d) \in Seq(Calls) /\ Range(Append(list, d)) = Range(list) \cup {d}
        BY <1>2, <3>1, AppendFacts
      <4>2. QED
        BY <1>2, <3>2, <4>1
    <3>6. StreamsOf(item) \in Seq(Streams) /\ \A s \in Range(StreamsOf(item)) : s.msg = item
      <4>1. StreamList \in Seq(Streams)
        <5>1. StreamList \in Seq([msg : Messages, src : Endpoints, dst : Endpoints])
          BY FlowAssumption
        <5> DEFINE Z == [msg : Messages, src : Endpoints, dst : Endpoints]
        <5> HIDE DEF Z
        <5>2. StreamList \in Seq(Z)
          BY <5>1 DEF Z
        <5>3. \A i \in 1 .. Len(StreamList) : StreamList[i] \in Streams
          BY <5>2 DEF Streams, Range
        <5>4. QED
          BY <5>2, <5>3
      <4> DEFINE K == {s \in Streams : s.msg = item}
      <4>2. StreamsOf(item) = CopyIf(StreamList, K)
        BY DEF StreamsOf
      <4>3. \A s \in K : s.msg = item
        OBVIOUS
      <4> HIDE DEF K
      <4>4. CopyIf(StreamList, K) \in Seq(Streams) /\ Range(CopyIf(StreamList, K)) = Range(StreamList) \cap K
        BY <4>1, CopyIfFacts
      <4>5. QED
        BY <4>2, <4>3, <4>4
    <3>7. more \in Seq(Streams) /\ Range(more) = Range(streams[d]) \cup Range(StreamsOf(item))
      <4>1. streams[d] \in Seq(Streams)
        BY <1>2, <3>1
      <4>2. QED
        BY <3>6, <4>1, Concatenated
    <3> HIDE DEF more
    <3>8. /\ streams' \in [Calls -> Seq(Streams)] /\ streams'[d] = more
          /\ \A c \in Calls : c # d => streams'[c] = streams[c]
      BY <1>2, <3>1, <3>2, <3>7
    <3> HIDE DEF d
    <3>9. \A c \in Calls : /\ Range(msgs[c]) \subseteq Range(msgs'[c])
                           /\ Range(msgs'[c]) \subseteq Range(msgs[c]) \cup {item}
                           /\ item \in Range(msgs'[c]) \ Range(msgs[c]) => d = c
                           /\ msgs[c] # <<>> => msgs'[c] # <<>>
      BY <3>3, <3>4
    <3>10. \A c \in Calls : /\ Range(streams[c]) \subseteq Range(streams'[c])
                            /\ \A s \in Range(streams'[c]) : s \in Range(streams[c]) \/ s.msg = item
      BY <3>6, <3>7, <3>8
    <3>11. \A c \in Range(list') : msgs'[c] # <<>>
      <4>1. ASSUME NEW c \in Range(list') PROVE msgs'[c] # <<>>
        <5>1. CASE c = d
          BY <3>3, <3>4, <5>1
        <5>2. CASE c # d
          <6>1. c \in Range(list) /\ c \in Calls
            BY <3>5, <5>2 DEF Range
          <6>2. QED
            BY <1>0, <3>9, <6>1 DEF CaptureInv
        <5>3. QED
          BY <5>1, <5>2
      <4>2. QED
        BY <4>1
    <3>12. QED
      BY <3>1, <3>4, <3>5, <3>8, <3>9, <3>10, <3>11 DEF d
  <2>3. QED
    BY <2>1, <2>2
<1>9. FlowTypes'
  BY <1>0, <1>1, <1>3, <1>5, <1>6, <1>8 DEF FlowTypes
<1>10. \A x \in Drawable : x \in Items /\ time[x] # 0 /\ x # item
  BY <1>0, <1>1, DrawableFacts
<1>11. CaptureInv'
  <2>2. ASSUME NEW s \in Streams, time'[s] # 0 PROVE time'[s.msg] # 0
    <3>1. s \in Items /\ s.msg \in Items
      BY ConstantFacts
    <3>2. time[s.msg] # 0
      BY <1>0, <1>6, <1>8, <2>2, <3>1 DEF CaptureInv
    <3>3. QED
      BY <1>5, <1>6, <3>1, <3>2
  <2>3. ASSUME NEW c \in Calls, NEW i \in DOMAIN msgs'[c]
        PROVE  msgs'[c][i].call = c /\ time'[msgs'[c][i]] # 0
    <3> DEFINE x == msgs'[c][i]
    <3>1. x \in Range(msgs'[c])
      BY DEF Range
    <3>2. CASE x \in Range(msgs[c])
      <4>1. PICK j \in DOMAIN msgs[c] : msgs[c][j] = x
        BY <3>2 DEF Range
      <4>2. x.call = c /\ time[x] # 0
        BY <1>0, <4>1 DEF CaptureInv
      <4>3. x \in Items
        BY <1>2, <4>1, ConstantFacts
      <4>4. QED
        BY <1>5, <1>6, <4>2, <4>3
    <3>3. CASE x \notin Range(msgs[c])
      <4>1. x = item /\ item.call = c
        BY <1>8, <3>1, <3>3
      <4>2. QED
        BY <1>5, <1>6, <4>1
    <3>4. QED
      BY <3>2, <3>3
  <2>4. QED
    BY <1>8, <2>2, <2>3 DEF CaptureInv
<1>12. \A c \in Range(group) : c \in Calls
  BY <1>2 DEF Range
<1>13. GroupInv'
  <2>1. \A c \in Range(group) : msgs'[c] # <<>>
    BY <1>0, <1>8, <1>12 DEF GroupInv
  <2>2. group = <<>> => arrows = <<>>
    BY <1>0 DEF GroupInv
  <2>3. QED
    BY <1>3, <2>1, <2>2 DEF GroupInv
<1>14. \A x : x \in Drawable' <=>
         \/ x \in Messages /\ (~sdpOnly \/ HasSdp(x)) /\ \E c \in Range(group) : x \in Range(msgs'[c])
         \/ x \in Streams /\ time'[x] # 0 /\ \E c \in Range(group) : x \in Range(streams'[c])
  BY <1>3 DEF Drawable, MsgsShown, StreamsShown, HasSdp
<1>15. ASSUME NEW x \in Drawable PROVE x \in Drawable'
  <2>1. CASE x \in MsgsShown(group, sdpOnly)
    BY <1>8, <1>12, <1>14, <2>1 DEF MsgsShown
  <2>2. CASE x \in StreamsShown(group)
    BY <1>6, <1>8, <1>10, <1>12, <1>14, <2>2 DEF StreamsShown
  <2>3. QED
    BY <2>1, <2>2 DEF Drawable
<1>17. ItemsOf(arrows)' = ItemsOf(arrows)
  BY <1>3 DEF ItemsOf
<1>18. \A k \in DOMAIN arrows : arrows[k].item \in Drawable
  BY <1>0 DEF ArrowsInv, ItemsOf
<1>19. ArrowsInv'
  <2>1. ItemsOf(arrows)' \subseteq Drawable'
    BY <1>0, <1>15, <1>17 DEF ArrowsInv
  <2>2. \A k \in DOMAIN arrows : time'[arrows[k].item] = time[arrows[k].item]
    BY <1>6, <1>10, <1>18
  <2>3. InTimeOrder(arrows)'
    BY <1>0, <1>3, <2>2 DEF ArrowsInv, InTimeOrder
  <2>4. QED
    BY <2>1, <2>3 DEF ArrowsInv
<1>20. ViewInv'
  BY <1>0, <1>3 DEF ViewInv
<1>21. ColumnsFound' /\ DrawEnds'
  BY <1>3 DEF ColumnsFound, DrawEnds
<1>22. QED
  BY <1>9, <1>11, <1>13, <1>19, <1>20, <1>21 DEF FlowInv
\* What is drawn depends on what is captured and on the group alone.
LEMMA SameGroup ==
  ASSUME msgs' = msgs, time' = time, streams' = streams, group' = group, sdpOnly' = sdpOnly
  PROVE  /\ Drawable' = Drawable
         /\ GroupStreams(group)' = GroupStreams(group)
         /\ CallWalk(group, sdpOnly)' = CallWalk(group, sdpOnly)
<1>1. Drawable' = Drawable
  BY DEF Drawable, MsgsShown, StreamsShown, HasSdp
<1>2. GroupStreams(group)' = GroupStreams(group)
  BY DEF GroupStreams
<1>3. CallWalk(group, sdpOnly)' = CallWalk(group, sdpOnly)
  BY DEF CallWalk, AllMsgs, GroupMsgs, HasSdp, GetNextCall
<1>4. QED
  BY <1>1, <1>2, <1>3

\* Drawing an arrow sets its columns.
LEMMA PlacedType ==
  ASSUME NEW cols \in Seq(Columns), NEW seq, NEW a \in Arrows
  PROVE  Placed(cols, seq, a) \in Arrows /\ Placed(cols, seq, a).item = a.item
<1>1. a = [item |-> a.item, scolumn |-> a.scolumn, dcolumn |-> a.dcolumn]
      /\ a.item \in Items /\ a.scolumn \in Nat /\ a.dcolumn \in Nat
  BY DEF Arrows
<1>2. \A c, addr : ColumnGet(cols, c, addr) \in Nat
  BY ColumnFound
<1>3. CASE IsStream(a.item)
  <2>1. Placed(cols, seq, a) = StreamPlaced(cols, seq, a)
    BY <1>3 DEF Placed
  <2>2. \E x \in Nat, y \in Nat : StreamPlaced(cols, seq, a) = [a EXCEPT !.dcolumn = x, !.scolumn = y]
    BY ZenonT(60), <1>1, <1>2 DEF StreamPlaced
  <2>3. QED
    BY <1>1, <2>1, <2>2 DEF Arrows
<1>4. CASE ~IsStream(a.item)
  <2>1. Placed(cols, seq, a) = MessagePlaced(cols, a)
    BY <1>4 DEF Placed
  <2>2. \E x \in Nat, y \in Nat : MessagePlaced(cols, a) = [a EXCEPT !.scolumn = x, !.dcolumn = y]
    BY ZenonT(60), <1>2 DEF MessagePlaced
  <2>3. QED
    BY <1>1, <2>1, <2>2 DEF Arrows
<1>5. QED
  BY <1>3, <1>4

\* What does not change keeps its order.
LEMMA OrderKept ==
  KeepsOrder(arrows, arrows)
<1>1. \A k \in DOMAIN arrows : Find(arrows, arrows[k].item)
  BY DEF Find
<1>2. QED
  BY <1>1 DEF KeepsOrder

\* A draw that ends has an arrow for every item of the group.
LEMMA DrawStep ==
  ASSUME FlowInv, status = "running", Draw
  PROVE  FlowInv' /\ KeepsOrder(arrows, arrows') /\ UNCHANGED <<group, sdpOnly>>
<1>0. FlowTypes /\ CaptureInv /\ GroupInv /\ ArrowsInv /\ ViewInv
  BY DEF FlowInv
<1>1. /\ time \in [Items -> Nat]
      /\ list \in Seq(Calls) /\ msgs \in [Calls -> Seq(Messages)] /\ streams \in [Calls -> Seq(Streams)]
      /\ group \in Seq(Calls) /\ sdpOnly \in BOOLEAN
      /\ columns \in Seq(Columns) /\ arrows \in Seq(Arrows) /\ cur \in Nat /\ first \in Nat
  BY <1>0 DEF FlowTypes
<1>2. /\ group # <<>> /\ drawn' = TRUE
      /\ UNCHANGED <<list, msgs, streams, time, active, setting, group, callid, sdpOnly, selected>>
  BY DEF Draw, captured, settings
<1>3. /\ Drawable' = Drawable
      /\ GroupStreams(group)' = GroupStreams(group)
      /\ CallWalk(group, sdpOnly)' = CallWalk(group, sdpOnly)
  BY <1>2, SameGroup
<1>4. CaptureInv'
  BY <1>0, <1>2 DEF CaptureInv
<1>5. \A c \in Range(group) : msgs[c] # <<>>
  BY <1>0 DEF GroupInv
<1>6. CASE ~WalksEnd
  <2>1. status' = "hung" /\ UNCHANGED <<columns, arrows, cur, first>>
    BY <1>6 DEF Draw
  <2>2. FlowTypes'
    BY <1>0, <1>2, <2>1 DEF FlowTypes
  <2>3. GroupInv'
    BY <1>0, <1>2, <2>1 DEF GroupInv
  <2>4. ArrowsInv'
    BY <1>0, <1>2, <1>3, <2>1 DEF ArrowsInv, ItemsOf, InTimeOrder
  <2>5. ViewInv'
    BY <1>0, <2>1 DEF ViewInv
  <2>6. ColumnsFound'
    BY <2>1 DEF ColumnsFound
  <2>7. \/ \E s, t \in Range(GroupStreams(group)) : s # t /\ time[s] = time[t]
        \/ \E c, d \in Range(group) : c # d /\ time[msgs[c][1]] = time[msgs[d][1]]
    BY <1>0, <1>5, <1>6, WalksEndUnlessEqual
  <2>8. DrawEnds'
    BY <1>2, <1>3, <2>7 DEF DrawEnds
  <2>9. KeepsOrder(arrows, arrows')
    BY <2>1, OrderKept
  <2>10. QED
    BY <1>2, <1>4, <2>2, <2>3, <2>4, <2>5, <2>6, <2>8, <2>9 DEF FlowInv
<1>7. CASE WalksEnd
  <2> DEFINE cols == DrawColumns
             seq == PendingArrows
             from == IF cur = 0 /\ seq # <<>> THEN 1 ELSE first
             window == InWindow(seq, from)
             placed == [k \in DOMAIN seq |-> IF k \in window THEN Placed(cols, seq, seq[k]) ELSE seq[k]]
  <2>1. /\ columns' = cols
        /\ arrows' = placed
        /\ cur' = IF cur = 0 /\ seq # <<>> THEN 1 ELSE cur
        /\ first' = from
        /\ status' = IF \E k \in window : 0 \in {placed[k].scolumn, placed[k].dcolumn} THEN "crashed" ELSE status
    BY <1>7 DEF Draw
  <2>2. ItemsToDraw \in Seq(Items) /\ Range(ItemsToDraw) = Drawable
    <3>1. /\ GroupMsgs(group, sdpOnly) \in Seq(Messages)
          /\ Range(GroupMsgs(group, sdpOnly)) = MsgsShown(group, sdpOnly)
      BY <1>0, <1>1, GroupMsgsFacts
    <3>2. StreamWalk(group) \in Seq(Streams) /\ Range(StreamWalk(group)) = StreamsShown(group)
      BY <1>0, <1>1, <1>7, StreamWalkFacts DEF WalksEnd
    <3>3. \A z \in Seq(Messages) : z \in Seq(Items)
      BY DEF Items
    <3>4. \A z \in Seq(Streams) : z \in Seq(Items)
      BY DEF Items
    <3>5. QED
      BY <3>1, <3>2, <3>3, <3>4, Concatenated DEF ItemsToDraw, Drawable
  <2>3. /\ seq \in Seq(Arrows) /\ InTimeOrder(seq) /\ KeepsOrder(arrows, seq)
        /\ ItemsOf(seq) = ItemsOf(arrows) \cup Range(ItemsToDraw)
    BY <1>0, <2>2, PendingArrowsFacts DEF ArrowsInv
  <2>4. ItemsOf(seq) = Drawable
    BY <1>0, <2>2, <2>3 DEF ArrowsInv
  <2>5. cols \in Seq(Columns)
    BY <1>0, <1>5, ColumnEntriesFacts, DrawColumnsFacts
  <2> HIDE DEF cols, seq, window
  <2>6. /\ DOMAIN seq = 1 .. Len(seq) /\ Len(seq) \in Nat /\ \A k \in 1 .. Len(seq) : seq[k] \in Arrows
        /\ DOMAIN arrows = 1 .. Len(arrows) /\ Len(arrows) \in Nat
    BY <1>1, <2>3
  <2>7. \A k \in 1 .. Len(seq) : placed[k] \in Arrows /\ placed[k].item = seq[k].item
    BY <2>5, <2>6, PlacedType
  <2>8. DOMAIN placed = 1 .. Len(seq) /\ placed = [k \in 1 .. Len(seq) |-> placed[k]]
    BY <2>6
  <2>9. \A k \in window : k \in DOMAIN seq /\ Filter(seq[k]) /\ placed[k] = Placed(cols, seq, seq[k])
    BY DEF window, InWindow, Shown
  <2> HIDE DEF placed
  <2>10. placed \in Seq(Arrows) /\ Len(placed) = Len(seq)
    <3>1. placed \in [1 .. Len(seq) -> Arrows]
      BY <2>7, <2>8
    <3>2. QED
      BY <2>6, <3>1
  <2>11. ItemsOf(placed) = Drawable
    BY <2>4, <2>6, <2>7, <2>8 DEF ItemsOf
  <2>12. FlowTypes'
    BY <1>1, <1>2, <2>1, <2>5, <2>10 DEF FlowTypes
  <2>13. GroupInv'
    BY <1>0, <1>2 DEF GroupInv
  <2>14. ArrowsInv'
    <3>1. ItemsOf(arrows)' = Drawable
      BY <2>1, <2>11 DEF ItemsOf
    <3>2. InTimeOrder(placed)
      BY <2>3, <2>6, <2>7, <2>8 DEF InTimeOrder
    <3>3. InTimeOrder(arrows)'
      BY <1>2, <2>1, <3>2 DEF InTimeOrder
    <3>4. QED
      BY <1>3, <3>1, <3>3 DEF ArrowsInv
  <2>15. ViewInv'
    <3>1. seq = <<>> => Len(placed) = 0
      BY <2>6, <2>10
    <3>2. seq = <<>> => placed = <<>>
      BY <2>10, <3>1
    <3>3. QED
      BY <1>0, <2>1, <3>2 DEF ViewInv
  <2>16. ColumnsFound'
    <3>1. SUFFICES ASSUME status' = "crashed", Range(group) \subseteq Range(CallWalk(group, sdpOnly)) PROVE FALSE
      BY <1>2, <1>3 DEF ColumnsFound
    <3>2. PICK k \in window : placed[k].scolumn = 0 \/ placed[k].dcolumn = 0
      BY <2>1, <3>1
    <3>3. k \in DOMAIN seq /\ Filter(seq[k]) /\ placed[k] = Placed(DrawColumns, seq, seq[k])
      BY <2>9 DEF cols
    <3>4. seq[k] \in Arrows /\ seq[k].item \in MsgsShown(group, sdpOnly) \cup StreamsShown(group)
      BY <2>4, <2>6, <3>3 DEF ItemsOf, Drawable
    <3>5. placed[k].scolumn # 0 /\ placed[k].dcolumn # 0
      BY <1>0, <1>5, <2>3, <3>1, <3>3, <3>4, PlacedFacts
    <3>6. QED
      BY <3>2, <3>5
  <2>17. DrawEnds'
    BY <2>1 DEF DrawEnds
  <2>18. KeepsOrder(arrows, arrows')
    <3>1. \A i, j \in DOMAIN seq : i < j /\ ~Find(arrows, placed[i].item) /\ Find(arrows, placed[j].item) =>
            time[placed[i].item] < time[placed[j].item]
      BY <2>3, <2>6, <2>7 DEF KeepsOrder
    <3>2. ASSUME NEW k \in DOMAIN arrows, NEW l \in DOMAIN arrows, k < l
          PROVE  \E i, j \in DOMAIN seq :
                   i < j /\ placed[i].item = arrows[k].item /\ placed[j].item = arrows[l].item
      <4>1. PICK i \in DOMAIN seq, j \in DOMAIN seq :
              i < j /\ seq[i].item = arrows[k].item /\ seq[j].item = arrows[l].item
        BY <2>3, <3>2 DEF KeepsOrder
      <4>2. placed[i].item = seq[i].item /\ placed[j].item = seq[j].item
        BY <2>6, <2>7
      <4>3. QED
        BY <4>1, <4>2
    <3>3. DOMAIN placed = DOMAIN seq
      BY <2>6, <2>8
    <3>4. KeepsOrder(arrows, placed)
      BY <3>1, <3>2, <3>3 DEF KeepsOrder
    <3>5. QED
      BY <2>1, <3>4
  <2>19. QED
    BY <1>2, <1>4, <2>12, <2>13, <2>14, <2>15, <2>16, <2>17, <2>18 DEF FlowInv
<1>8. QED
  BY <1>6, <1>7
-----------------------------------------------------------------------------
(* The cursor.                                                             *)

LEMMA HeightType ==
  ASSUME NEW a \in Arrows
  PROVE  Height(a) \in Nat
<1>1. CASE IsStream(a.item)
  BY <1>1 DEF Height
<1>2. CASE ~IsStream(a.item)
  <2>1. a.item \in Messages
    BY <1>2 DEF Arrows, Items, IsStream
  <2>2. a.item.medias \in Seq(Endpoints)
    BY <2>1, FlowAssumption
  <2>3. Len(a.item.medias) \in Nat
    BY <2>2
  <2>4. QED
    BY <1>2, <2>3 DEF Height
<1>3. QED
  BY <1>1, <1>2

\* An arrow that is shown takes the lines of its height.
LEMMA LinesOfOne ==
  ASSUME NEW seq \in Seq(Arrows), NEW to \in Shown(seq)
  PROVE  /\ to \in 1 .. Len(seq)
         /\ Lines(seq, to, to) = Height(seq[to])
<1> DEFINE more(k) == IF k \in Shown(seq) THEN Height(seq[k]) ELSE 0
           step == [k \in 1 .. to |-> [x \in Nat |-> IF k < to THEN 0 ELSE x + more(k)]]
           eq(f) == [k \in 0 .. to |-> IF k < to THEN 0 ELSE f[k - 1] + more(k)]
           F == CHOOSE f : f = eq(f)
<1>1. DOMAIN seq = 1 .. Len(seq) /\ Len(seq) \in Nat /\ \A k \in 1 .. Len(seq) : seq[k] \in Arrows
  OBVIOUS
<1>2. to \in 1 .. Len(seq) /\ to \in Nat /\ to # 0
  BY <1>1 DEF Shown
<1>3. \A k : more(k) \in Nat
  <2>1. ASSUME NEW k \in Shown(seq) PROVE Height(seq[k]) \in Nat
    BY <1>1, HeightType DEF Shown
  <2>2. QED
    BY <2>1
<1>4. Lines(seq, to, to) = IF to < to THEN 0 ELSE F[to]
  BY DEF Lines
<1> HIDE DEF more
<1>5. step \in [1 .. to -> [Nat -> Nat]]
      /\ \A k \in 1 .. to, x \in Nat : step[k][x] = IF k < to THEN 0 ELSE x + more(k)
  BY <1>3
<1> HIDE DEF step
<1>6. PICK f : IsRecursion(f, to, Nat, 0, step)
  BY <1>2, <1>5, RecursiveFunction
<1>7. f \in [0 .. to -> Nat] /\ f[0] = 0 /\ \A k \in 1 .. to : f[k] = step[k][f[k - 1]]
  BY <1>6 DEF IsRecursion
<1>8. f = eq(f)
  <2>1. \A k \in 1 .. to : k - 1 \in 0 .. to /\ f[k - 1] \in Nat
    BY <1>2, <1>7
  <2>2. \A k \in 1 .. to : f[k] = IF k < to THEN 0 ELSE f[k - 1] + more(k)
    BY <1>5, <1>7, <2>1
  <2>3. \A k \in 0 .. to : (k = 0 /\ k < to) \/ k \in 1 .. to
    BY <1>2
  <2>4. \A k \in 0 .. to : f[k] = IF k < to THEN 0 ELSE f[k - 1] + more(k)
    BY <1>7, <2>2, <2>3
  <2>5. QED
    BY <1>7, <2>4
<1>9. F = eq(F)
  BY <1>8
<1> HIDE DEF F
<1>10. F[to] = F[to - 1] + more(to) /\ F[to - 1] = 0
  <2>1. to \in 0 .. to /\ to - 1 \in 0 .. to /\ to - 1 < to /\ ~(to < to)
    BY <1>2
  <2>2. \A k \in 0 .. to : F[k] = eq(F)[k]
    BY <1>9
  <2>3. QED
    BY <2>1, <2>2
<1>11. F[to] = Height(seq[to])
  <2>1. more(to) \in Nat /\ more(to) = Height(seq[to])
    BY <1>3 DEF more
  <2>2. QED
    BY <1>10, <2>1
<1>12. QED
  BY <1>2, <1>4, <1>11

\* The cursor goes to an arrow that is shown or stays.
LEMMA TargetFacts ==
  ASSUME FlowTypes, NEW index
  PROVE  Target(index) = cur \/ Target(index) \in Shown(arrows)
<1> DEFINE n == Len(arrows)
           down == {k \in Shown(arrows) : k > cur}
           up == {k \in Shown(arrows) : k < cur}
           D == {k \in down : k >= index} \cup {Max(down)}
           U == {k \in up : k <= index} \cup {Min(up)}
<1>1. arrows \in Seq(Arrows)
  BY DEF FlowTypes
<1>2. n \in Nat /\ Shown(arrows) \subseteq 0 .. n
  BY <1>1 DEF Shown
<1>3. CASE down # {} /\ index # cur /\ cur < index
  <2>1. down \subseteq 0 .. n
    BY <1>2
  <2> HIDE DEF n
  <2>2. Max(down) \in down
    <3> HIDE DEF down
    <3>1. QED
      BY <1>2, <1>3, <2>1, MaxOfNats
  <2>3. D \subseteq down /\ D # {} /\ D \subseteq Nat
    BY <2>1, <2>2
  <2>4. Target(index) = Min(D)
    BY <1>3 DEF Target
  <2> HIDE DEF D
  <2>5. Min(D) \in D
    BY <2>3, MinOfNats
  <2>6. QED
    BY <2>3, <2>4, <2>5
<1>4. CASE up # {} /\ index # cur /\ ~(cur < index)
  <2>1. up \subseteq Nat
    BY <1>2
  <2>2. Min(up) \in up
    <3> HIDE DEF up
    <3>1. QED
      BY <1>4, <2>1, MinOfNats
  <2>3. U \subseteq up /\ U # {} /\ U \subseteq 0 .. n
    BY <1>2, <2>2
  <2>4. Target(index) = Max(U)
    BY <1>4 DEF Target
  <2> HIDE DEF U, n
  <2>5. Max(U) \in U
    BY <1>2, <2>3, MaxOfNats
  <2>6. QED
    BY <2>3, <2>4, <2>5
<1>5. CASE (down = {} /\ cur < index) \/ (up = {} /\ ~(cur < index)) \/ index = cur
  BY <1>5 DEF Target
<1>6. QED
  BY <1>3, <1>4, <1>5

\* The window follows the cursor.
LEMMA ScrolledFacts ==
  ASSUME FlowTypes, NEW to \in Nat
  PROVE  /\ Scrolled(to) \in Nat
         /\ to # 0 /\ first # 0 => Scrolled(to) # 0
         /\ to \in Shown(arrows) /\ Height(arrows[to]) <= FlowHeight =>
              Scrolled(to) <= to /\ Lines(arrows, Scrolled(to), to) <= FlowHeight
<1> DEFINE fits == {f \in first..(to + 1) : Lines(arrows, f, to) <= FlowHeight}
<1>1. arrows \in Seq(Arrows) /\ first \in Nat /\ FlowHeight \in Nat
  BY FlowAssumption DEF FlowTypes
<1>2. to \in Shown(arrows) => Lines(arrows, to, to) = Height(arrows[to])
  BY <1>1, LinesOfOne
<1>3. CASE to <= first
  <2>1. Scrolled(to) = to
    BY <1>3 DEF Scrolled
  <2>2. QED
    BY <1>2, <2>1
<1>4. CASE ~(to <= first) /\ to \notin Shown(arrows)
  <2>1. Scrolled(to) = first
    BY <1>4 DEF Scrolled
  <2>2. QED
    BY <1>1, <1>4, <2>1
<1>5. CASE ~(to <= first) /\ to \in Shown(arrows)
  <2>1. Scrolled(to) = Min(fits)
    BY <1>5 DEF Scrolled
  <2>2. Lines(arrows, to + 1, to) = 0
    BY DEF Lines
  <2>3. to + 1 \in fits
    BY <1>1, <1>5, <2>2
  <2>4. Height(arrows[to]) <= FlowHeight => to \in fits
    BY <1>1, <1>2, <1>5
  <2>5. fits \subseteq Nat /\ \A f \in fits : f >= first /\ Lines(arrows, f, to) <= FlowHeight
    BY <1>1
  <2> HIDE DEF fits
  <2>6. Min(fits) \in fits /\ \A f \in fits : Min(fits) <= f
    BY <2>3, <2>5, MinOfNats
  <2> DEFINE m == Min(fits)
  <2>7. m \in Nat /\ m >= first /\ Lines(arrows, m, to) <= FlowHeight
    BY <2>5, <2>6
  <2>8. Height(arrows[to]) <= FlowHeight => m <= to
    BY <2>4, <2>6
  <2> HIDE DEF m
  <2>9. first # 0 => m # 0
    BY <1>1, <2>7
  <2>10. Scrolled(to) = m
    BY <2>1 DEF m
  <2>11. QED
    BY <2>7, <2>8, <2>9, <2>10
<1>6. QED
  BY <1>3, <1>4, <1>5
-----------------------------------------------------------------------------
(* Keys, and the theorems.                                                 *)

\* A panel that is built again has neither columns nor arrows.
LEMMA RebuiltStep ==
  ASSUME FlowInv, status = "running", UNCHANGED <<list, msgs, streams, time, status>>,
         group' \in Seq(Calls), \A c \in Range(group') : msgs[c] # <<>>, sdpOnly' \in BOOLEAN,
         columns' = <<>>, arrows' = <<>>, cur' = 0, first' \in Nat
  PROVE  FlowInv'
<1>0. FlowTypes /\ CaptureInv
  BY DEF FlowInv
<1>1. FlowTypes'
  BY <1>0 DEF FlowTypes
<1>2. CaptureInv'
  BY <1>0 DEF CaptureInv
<1>3. GroupInv' /\ ViewInv'
  BY DEF GroupInv, ViewInv
<1>4. ArrowsInv'
  BY DEF ArrowsInv, ItemsOf, InTimeOrder
<1>5. ColumnsFound' /\ DrawEnds'
  BY DEF ColumnsFound, DrawEnds
<1>6. QED
  BY <1>1, <1>2, <1>3, <1>4, <1>5 DEF FlowInv

\* One that is not only moves its cursor, and only if it has arrows.
LEMMA SameStep ==
  ASSUME FlowInv, status = "running",
         UNCHANGED <<list, msgs, streams, time, status, group, sdpOnly, columns, arrows>>,
         cur' \in Nat, first' \in Nat, cur' # 0 => first' # 0, drawn' /\ cur' = 0 => arrows = <<>>
  PROVE  FlowInv'
<1>0. FlowTypes /\ CaptureInv /\ GroupInv /\ ArrowsInv
  BY DEF FlowInv
<1>1. FlowTypes'
  BY <1>0 DEF FlowTypes
<1>2. CaptureInv'
  BY <1>0 DEF CaptureInv
<1>3. GroupInv' /\ ViewInv'
  BY <1>0 DEF GroupInv, ViewInv
<1>4. ArrowsInv'
  <2>1. Drawable' = Drawable
    BY SameGroup
  <2>2. QED
    BY <1>0, <2>1 DEF ArrowsInv, ItemsOf, InTimeOrder
<1>5. ColumnsFound' /\ DrawEnds'
  BY DEF ColumnsFound, DrawEnds
<1>6. QED
  BY <1>1, <1>2, <1>3, <1>4, <1>5 DEF FlowInv

LEMMA MoveStep ==
  ASSUME FlowInv, status = "running", Key(MoveKey)
  PROVE  /\ FlowInv' /\ KeepsOrder(arrows, arrows')
         /\ UNCHANGED arrows
         /\ 0 \notin {cur, cur'} /\ cur' # cur =>
              /\ cur' \in Shown(arrows)
              /\ Height(arrows[cur']) <= FlowHeight =>
                   first' <= cur' /\ Lines(arrows, first', cur') <= FlowHeight
<1>0. FlowTypes /\ ViewInv
  BY DEF FlowInv
<1>1. cur \in Nat /\ first \in Nat /\ arrows \in Seq(Arrows)
  BY <1>0 DEF FlowTypes
<1>2. drawn /\ drawn' = FALSE /\ MoveKey /\ UNCHANGED <<list, msgs, streams, time, status>>
  BY DEF Key, captured
<1>3. PICK index : /\ cur' = Target(index)
                   /\ first' = IF index = cur THEN first ELSE Scrolled(cur')
                   /\ UNCHANGED <<settings, group, callid, sdpOnly, columns, arrows, selected>>
  BY <1>2 DEF MoveKey, Move
<1>4. cur' = cur \/ cur' \in Shown(arrows)
  BY <1>0, <1>3, TargetFacts
<1>5. \A k \in Shown(arrows) : k \in Nat /\ k # 0
  BY <1>1 DEF Shown
<1>6. cur' \in Nat
  BY <1>1, <1>4, <1>5
<1>7. /\ Scrolled(cur') \in Nat
      /\ cur' # 0 /\ first # 0 => Scrolled(cur') # 0
      /\ cur' \in Shown(arrows) /\ Height(arrows[cur']) <= FlowHeight =>
           Scrolled(cur') <= cur' /\ Lines(arrows, Scrolled(cur'), cur') <= FlowHeight
  BY <1>0, <1>6, ScrolledFacts
<1>8. first' \in Nat
  BY <1>1, <1>3, <1>7
<1>9. cur' # 0 => first' # 0
  <2>1. CASE cur = 0
    <3>1. Shown(arrows) = {}
      BY <1>0, <1>2, <2>1 DEF ViewInv, Shown
    <3>2. QED
      BY <1>4, <2>1, <3>1
  <2>2. CASE cur # 0
    <3>1. first # 0
      BY <1>0, <2>2 DEF ViewInv
    <3>2. QED
      BY <1>3, <1>7, <3>1
  <2>3. QED
    BY <2>1, <2>2
<1>10. FlowInv'
  BY <1>2, <1>3, <1>6, <1>8, <1>9, SameStep
<1>11. KeepsOrder(arrows, arrows')
  BY <1>3, OrderKept
<1>12. ASSUME cur' # cur
       PROVE  /\ cur' \in Shown(arrows)
              /\ Height(arrows[cur']) <= FlowHeight =>
                   first' <= cur' /\ Lines(arrows, first', cur') <= FlowHeight
  <2>1. index # cur
    BY <1>3, <1>12 DEF Target
  <2>2. QED
    BY <1>3, <1>4, <1>7, <1>12, <2>1
<1>13. QED
  BY <1>3, <1>10, <1>11, <1>12

\* The other keys keep the arrows or build the panel again.
LEMMA KeyStep ==
  ASSUME FlowInv, status = "running",
         Key(ShowFlowEx) \/ Key(OnlySdp) \/ Key(ToggleSetting) \/ Key(Select) \/ Close
  PROVE  FlowInv' /\ (cur' = 0 \/ UNCHANGED <<arrows, cur>>)
<1>0. FlowTypes /\ ViewInv /\ GroupInv /\ CaptureInv
  BY DEF FlowInv
<1>1. /\ list \in Seq(Calls) /\ group \in Seq(Calls) /\ sdpOnly \in BOOLEAN
      /\ cur \in Nat /\ first \in Nat
  BY <1>0 DEF FlowTypes
<1>2. group # <<>> /\ drawn' = FALSE /\ UNCHANGED <<list, msgs, streams, time, status>>
  BY DEF Key, captured, Close
<1>3. /\ \A c \in Range(group) : msgs[c] # <<>>
      /\ cur # 0 => first # 0
  BY <1>0 DEF GroupInv, ViewInv
<1>4. ASSUME NEW calls \in Seq(Calls), \A c \in Range(calls) : msgs[c] # <<>>, SetGroup(calls),
             sdpOnly' \in BOOLEAN
      PROVE  FlowInv' /\ cur' = 0
  <2>1. group' = calls /\ columns' = <<>> /\ arrows' = <<>> /\ cur' = 0 /\ first' = first
    BY <1>4 DEF SetGroup
  <2>2. QED
    BY <1>1, <1>2, <1>4, <2>1, RebuiltStep
<1>5. CASE Key(ShowFlowEx)
  <2> DEFINE c == group[1]
             root == IF Parent[c] # None THEN Parent[c] ELSE c
  <2>1. /\ IF Len(group) > 1 THEN SetGroup(<<c>>)
           ELSE IF msgs[root] = <<>> THEN SetGroup(group)
           ELSE SetGroup(<<root>> \o Xcalls(root))
        /\ sdpOnly' = sdpOnly
    BY <1>5 DEF Key, ShowFlowEx
  <2>2. c \in Calls /\ c \in Range(group)
    BY <1>1, <1>2 DEF Range
  <2>3. root \in Calls
    BY <2>2, FlowAssumption
  <2> HIDE DEF c, root
  <2>4. CASE Len(group) > 1
    <3>1. <<c>> \in Seq(Calls) /\ Range(<<c>>) = {c}
      BY <2>2 DEF Range
    <3>2. QED
      BY <1>1, <1>3, <1>4, <2>1, <2>2, <2>4, <3>1
  <2>5. CASE ~(Len(group) > 1) /\ msgs[root] = <<>>
    BY <1>1, <1>3, <1>4, <2>1, <2>5
  <2>6. CASE ~(Len(group) > 1) /\ msgs[root] # <<>>
    <3> DEFINE After(d) == Parent[d] = root /\ \E i, j \in DOMAIN list : i < j /\ list[i] = root /\ list[j] = d
               K == {d \in Calls : After(d)}
    <3>1. Xcalls(root) = CopyIf(list, K)
      BY DEF Xcalls
    <3> HIDE DEF K
    <3>2. Xcalls(root) \in Seq(Calls) /\ Range(Xcalls(root)) \subseteq Range(list)
      BY <1>1, <3>1, CopyIfFacts
    <3>3. <<root>> \in Seq(Calls) /\ Range(<<root>>) = {root}
      BY <2>3 DEF Range
    <3>4. /\ <<root>> \o Xcalls(root) \in Seq(Calls)
          /\ Range(<<root>> \o Xcalls(root)) = {root} \cup Range(Xcalls(root))
      <4> DEFINE one == <<root>>
      <4>1. one \in Seq(Calls) /\ Range(one) = {root}
        BY <3>3
      <4> HIDE DEF one
      <4>2. one \o Xcalls(root) \in Seq(Calls) /\ Range(one \o Xcalls(root)) = Range(one) \cup Range(Xcalls(root))
        BY <3>2, <4>1, Concatenated
      <4>3. QED
        BY <4>1, <4>2 DEF one
    <3>5. \A d \in Range(<<root>> \o Xcalls(root)) : msgs[d] # <<>>
      BY <1>0, <2>6, <3>2, <3>4 DEF CaptureInv
    <3>6. QED
      BY <1>1, <1>4, <2>1, <2>6, <3>4, <3>5
  <2>7. QED
    BY <2>4, <2>5, <2>6
<1>6. CASE Key(OnlySdp)
  <2>1. SetGroup(group) /\ sdpOnly' \in BOOLEAN
    BY <1>1, <1>6 DEF Key, OnlySdp
  <2>2. QED
    BY <1>1, <1>3, <1>4, <2>1
<1>7. ASSUME UNCHANGED <<group, sdpOnly, columns, arrows, cur, first>>
      PROVE  FlowInv' /\ UNCHANGED <<arrows, cur>>
  BY <1>1, <1>2, <1>3, <1>7, SameStep
<1>8. CASE Key(ToggleSetting)
  <2>1. sdpOnly' = sdpOnly /\ (SetGroup(group) \/ UNCHANGED <<group, columns, arrows, cur, first>>)
    BY <1>8 DEF Key, ToggleSetting
  <2>2. QED
    BY <1>1, <1>3, <1>4, <1>7, <2>1
<1>9. CASE Key(Select)
  <2>1. UNCHANGED <<group, sdpOnly, columns, arrows, cur, first>>
    BY <1>9 DEF Key, Select
  <2>2. QED
    BY <1>7, <2>1
<1>10. CASE Close
  <2>1. /\ group' = <<>> /\ columns' = <<>> /\ arrows' = <<>> /\ cur' = 0 /\ first' = 1
        /\ sdpOnly' = FALSE
    BY <1>10 DEF Close, Key
  <2>2. Range(group') = {}
    BY <2>1 DEF Range
  <2>3. group' \in Seq(Calls) /\ first' \in Nat
    BY <2>1
  <2>4. QED
    BY <1>2, <2>1, <2>2, <2>3, RebuiltStep
<1>11. QED
  BY <1>5, <1>6, <1>7, <1>8, <1>9, <1>10

LEMMA OpenStep ==
  ASSUME FlowInv, status = "running", Open
  PROVE  FlowInv' /\ UNCHANGED <<arrows, cur>>
<1>0. FlowTypes /\ CaptureInv /\ GroupInv /\ ViewInv
  BY DEF FlowInv
<1>1. /\ group = <<>> /\ group' \in Groups /\ Range(group') \subseteq Range(list)
      /\ sdpOnly' = FALSE /\ drawn' = FALSE
      /\ UNCHANGED <<list, msgs, streams, time, columns, arrows, cur, first, status>>
  BY DEF Open, captured
<1>2. arrows = <<>>
  BY <1>0, <1>1 DEF GroupInv
<1>3. FlowTypes'
  BY <1>0, <1>1, FlowAssumption DEF FlowTypes
<1>4. CaptureInv'
  BY <1>0, <1>1 DEF CaptureInv
<1>5. GroupInv' /\ ViewInv'
  BY <1>0, <1>1, <1>2 DEF GroupInv, ViewInv, CaptureInv
<1>6. ArrowsInv'
  BY <1>1, <1>2 DEF ArrowsInv, ItemsOf, InTimeOrder
<1>7. ColumnsFound' /\ DrawEnds'
  BY <1>1 DEF ColumnsFound, DrawEnds
<1>8. QED
  BY <1>1, <1>3, <1>4, <1>5, <1>6, <1>7 DEF FlowInv

LEMMA SilenceStep ==
  ASSUME FlowInv, status = "running", Silence
  PROVE  FlowInv' /\ UNCHANGED <<arrows, cur>>
<1>0. FlowTypes /\ ViewInv
  BY DEF FlowInv
<1>1. UNCHANGED <<list, msgs, streams, time, status, group, sdpOnly, columns, arrows, cur, first, drawn>>
  BY DEF Silence, panel
<1>2. /\ cur \in Nat /\ first \in Nat /\ (cur # 0 => first # 0)
      /\ (drawn /\ cur = 0 => arrows = <<>>)
  BY <1>0 DEF FlowTypes, ViewInv
<1>3. QED
  BY <1>1, <1>2, SameStep
\* All steps: the invariant is kept, and either the cursor is unset or the
\* arrows stay in their order.
LEMMA FlowStep ==
  ASSUME FlowInv, [Next]_vars
  PROVE  FlowInv' /\ (cur' = 0 \/ KeepsOrder(arrows, arrows'))
<1>0. FlowTypes
  BY DEF FlowInv
<1>1. arrows' = arrows => KeepsOrder(arrows, arrows')
  BY OrderKept
<1>2. CASE UNCHANGED vars
  <2>1. /\ UNCHANGED <<list, msgs, streams, time, group, sdpOnly, columns, arrows, cur, first, drawn, status>>
        /\ UNCHANGED <<active, setting, toggles, callid, selected>>
    BY <1>2 DEF vars, captured, settings, panel
  <2>2. Drawable' = Drawable /\ GroupStreams(group)' = GroupStreams(group)
        /\ CallWalk(group, sdpOnly)' = CallWalk(group, sdpOnly)
    BY <2>1, SameGroup
  <2>3. FlowTypes'
    BY <1>0, <2>1 DEF FlowTypes
  <2>4. CaptureInv'
    BY <2>1 DEF FlowInv, CaptureInv
  <2>5. GroupInv' /\ ViewInv'
    BY <2>1 DEF FlowInv, GroupInv, ViewInv
  <2>6. ArrowsInv'
    BY <2>1, <2>2 DEF FlowInv, ArrowsInv, ItemsOf, InTimeOrder
  <2>7. ColumnsFound' /\ DrawEnds'
    BY <2>1, <2>2 DEF FlowInv, ColumnsFound, DrawEnds
  <2>8. QED
    BY <1>1, <2>1, <2>3, <2>4, <2>5, <2>6, <2>7 DEF FlowInv
<1>3. CASE status = "running" /\ Running
  <2>1. CASE Receive
    <3>1. arrows' = arrows
      BY <2>1 DEF Receive, panel
    <3>2. QED
      BY <1>1, <1>3, <2>1, <3>1, ReceiveStep
  <2>2. CASE Silence
    BY <1>1, <1>3, <2>2, SilenceStep
  <2>3. CASE Open
    BY <1>1, <1>3, <2>3, OpenStep
  <2>4. CASE Draw
    BY <1>3, <2>4, DrawStep
  <2>5. CASE Key(MoveKey)
    BY <1>3, <2>5, MoveStep
  <2>6. CASE Key(ShowFlowEx) \/ Key(OnlySdp) \/ Key(ToggleSetting) \/ Key(Select) \/ Close
    BY <1>1, <1>3, <2>6, KeyStep
  <2>7. QED
    BY <1>3, <2>1, <2>2, <2>3, <2>4, <2>5, <2>6 DEF Running
<1>4. QED
  BY <1>2, <1>3 DEF Next

LEMMA FlowInvInit ==
  ASSUME Init
  PROVE  FlowInv
<1>1. /\ list = <<>> /\ msgs = [c \in Calls |-> <<>>] /\ streams = [c \in Calls |-> <<>>]
      /\ time = [i \in Items |-> 0]
      /\ group = <<>> /\ sdpOnly = FALSE /\ columns = <<>> /\ arrows = <<>> /\ cur = 0 /\ first = 1
      /\ drawn = FALSE /\ status = "running"
  BY DEF Init
<1>2. Range(<<>>) = {} /\ DOMAIN <<>> = {}
  BY DEF Range
<1>3. FlowTypes
  <2>1. \A S : <<>> \in Seq(S)
    OBVIOUS
  <2>2. time \in [Items -> Nat] /\ msgs \in [Calls -> Seq(Messages)] /\ streams \in [Calls -> Seq(Streams)]
    BY <1>1, <2>1
  <2>3. list \in Seq(Calls) /\ group \in Seq(Calls) /\ columns \in Seq(Columns) /\ arrows \in Seq(Arrows)
    BY <1>1, <2>1
  <2>4. QED
    BY <1>1, <2>2, <2>3 DEF FlowTypes
<1>4. CaptureInv
  <2>2. \A s \in Streams : time[s] = 0
    BY <1>1, ConstantFacts
  <2>3. \A c \in Calls : DOMAIN msgs[c] = {}
    BY <1>1
  <2>4. QED
    BY <1>1, <1>2, <2>2, <2>3 DEF CaptureInv
<1>5. GroupInv /\ ViewInv
  BY <1>1, <1>2 DEF GroupInv, ViewInv
<1>6. ArrowsInv
  BY <1>1, <1>2 DEF ArrowsInv, ItemsOf, InTimeOrder
<1>7. ColumnsFound /\ DrawEnds
  BY <1>1 DEF ColumnsFound, DrawEnds
<1>8. QED
  BY <1>3, <1>4, <1>5, <1>6, <1>7 DEF FlowInv

LEMMA FlowInvHolds == Spec => []FlowInv
<1>1. Init => FlowInv
  BY FlowInvInit
<1>2. FlowInv /\ [Next]_vars => FlowInv'
  BY FlowStep
<1>3. QED
  BY <1>1, <1>2, PTL DEF Spec

\* A draw that misses a column has passed a call of the group by.
THEOREM ColumnsFoundHolds == Spec => []ColumnsFound
<1>1. FlowInv => ColumnsFound
  BY DEF FlowInv
<1>2. QED
  BY <1>1, FlowInvHolds, PTL

\* A draw that never ends has met two streams or two calls of one time.
THEOREM DrawEndsHolds == Spec => []DrawEnds
<1>1. FlowInv => DrawEnds
  BY DEF FlowInv
<1>2. QED
  BY <1>1, FlowInvHolds, PTL

\* Arrows stay in order until the panel is built again, and only an earlier
\* message gets in before one.
THEOREM ArrowsKeepTheirOrderHolds == Spec => ArrowsKeepTheirOrder
<1>1. FlowInv /\ [Next]_vars => cur' = 0 \/ KeepsOrder(arrows, arrows')
  BY FlowStep
<1>2. QED
  BY <1>1, FlowInvHolds, PTL DEF Spec, ArrowsKeepTheirOrder

\* The cursor is moved to an arrow on the screen.
THEOREM CursorInViewHolds == Spec => CursorInView
<1> DEFINE InView == 0 \notin {cur, cur'} /\ cur' # cur =>
                       /\ cur' \in Shown(arrows)
                       /\ Height(arrows[cur']) <= FlowHeight =>
                            first' <= cur' /\ Lines(arrows, first', cur') <= FlowHeight
<1>1. FlowInv /\ [Next]_vars => InView
  <2>1. SUFFICES ASSUME FlowInv, [Next]_vars, cur # 0, cur' # 0, cur' # cur PROVE InView
    OBVIOUS
  <2>2. Next
    BY <2>1 DEF vars, panel
  <2>3. status = "running" /\ Running
    BY <2>1, <2>2 DEF Next, vars, panel
  <2>4. ~Receive /\ ~Silence /\ ~Open /\ ~Draw
    BY <2>1 DEF Receive, Silence, Open, Draw, panel
  <2>5. ~(Key(ShowFlowEx) \/ Key(OnlySdp) \/ Key(ToggleSetting) \/ Key(Select) \/ Close)
    BY <2>1, <2>3, KeyStep
  <2>6. Key(MoveKey)
    BY <2>3, <2>4, <2>5 DEF Running
  <2>7. QED
    BY <2>1, <2>3, <2>6, MoveStep
<1>2. QED
  BY <1>1, FlowInvHolds, PTL DEF Spec, CursorInView
=============================================================================
