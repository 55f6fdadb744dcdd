----------------------------- MODULE IpReassembly -----------------------------
(***************************************************************************)
(* capture_packet_reasm_ip (src/capture.c): fragments of IP datagrams.     *)
(*                                                                         *)
(* Fragments are looked up by addresses and identification, kept in the    *)
(* order of their capture, and counted: a datagram is taken for complete   *)
(* when the lengths add up to the end of its last fragment.  Lengths and   *)
(* offsets count units of eight bytes, as in the IP header.                *)
(***************************************************************************)
EXTENDS SipPayload, Functions

CONSTANTS
  Datagrams,  \* IP datagrams; each is also the unit of its transport header
  Content,    \* datagram -> its units
  Key,        \* datagram -> addresses and identification
  V6,         \* the IPv6 datagrams
  Frames      \* what is captured: [dgram, off, len, mf]

ASSUME FramesAssumption ==
  /\ Frames \subseteq [dgram : Datagrams, off : Nat, len : Nat \ {0}, mf : BOOLEAN]
  /\ \A f \in Frames : f.off + f.len <= Len(Content[f.dgram])
  /\ \A f, g \in Frames : Key[f.dgram] = Key[g.dgram] => (f.dgram \in V6 <=> g.dgram \in V6)

\* The fragments of a datagram lie side by side from its first unit to its last,
\* and only the last one has no more behind it.
ASSUME TilingAssumption ==
  \A f \in Frames :
    /\ f.mf <=> f.off + f.len # Len(Content[f.dgram])
    /\ \A g \in Frames : g.dgram = f.dgram /\ g # f =>
         f.off + f.len <= g.off \/ g.off + g.len <= f.off
    /\ \A p \in 1 .. Len(Content[f.dgram]) :
         \E g \in Frames : g.dgram = f.dgram /\ g.off < p /\ p <= g.off + g.len

Packets == [frames : Seq(Frames), cap_len : Nat, exp_len : Nat]

ASSUME PacketsAssumption ==
  None \notin Packets /\ None \notin [frames : Seq(Frames), content : Seq(Units \cup Datagrams)]

VARIABLES
  ip_reasm,   \* key -> packet being reassembled, or None
  assembled   \* the packet returned last: its frames and content, or None

ipVars == <<ip_reasm, assembled>>

Keys == {Key[d] : d \in Datagrams}

IpTypeOK ==
  /\ ip_reasm \in [Keys -> Packets \cup {None}]
  /\ \A k \in Keys : ip_reasm[k] # None =>
       /\ ip_reasm[k].frames # <<>>
       /\ \A i \in 1 .. Len(ip_reasm[k].frames) : Key[ip_reasm[k].frames[i].dgram] = k

IpInit ==
  /\ ip_reasm = [k \in Keys |-> None]
  /\ assembled = None

IsFragment(f) == f.mf \/ f.off # 0

\* The packet that fragment f belongs to, or a new one.
PacketOf(f) ==
  IF ip_reasm[Key[f.dgram]] = None
  THEN [frames |-> <<>>, cap_len |-> 0, exp_len |-> 0]
  ELSE ip_reasm[Key[f.dgram]]

\* Faulty variant: the length is only right if the last fragment comes last.
WithFragmentInOrder(f) ==
  [frames  |-> Append(PacketOf(f).frames, f),
   cap_len |-> PacketOf(f).cap_len + f.len,
   exp_len |-> IF f.mf THEN 0 ELSE f.off + f.len]

\* Faulty variant: the offset of the last fragment is left out.
WithFragmentNoOffset(f) ==
  [frames  |-> Append(PacketOf(f).frames, f),
   cap_len |-> PacketOf(f).cap_len + f.len,
   exp_len |-> IF f.mf THEN PacketOf(f).exp_len ELSE f.len]

\* The packet with fragment f.  Only the last fragment tells how long the
\* datagram is.
WithFragment(f) ==
  [frames  |-> Append(PacketOf(f).frames, f),
   cap_len |-> PacketOf(f).cap_len + f.len,
   exp_len |-> IF f.mf THEN PacketOf(f).exp_len ELSE f.off + f.len]

\* The IPv6 fragment header is counted, and copied, as if it were content.
ExtraUnits(f) == IF f.dgram \in V6 THEN 1 ELSE 0

LenData(pkt) ==
  pkt.cap_len + (IF pkt.frames[1].dgram \in V6 THEN Len(pkt.frames) ELSE 0)

\* The frames that write unit p, up to the last: at most one.
LastWriter(pkt, p) ==
  LET writes(i) == LET f == pkt.frames[i]
                   IN f.off < p /\ p <= f.off + f.len + ExtraUnits(f)
  IN {i \in 1 .. Len(pkt.frames) :
        writes(i) /\ \A j \in i + 1 .. Len(pkt.frames) : ~writes(j)}

\* Frames are copied in the order of their capture to where they belong, into
\* a buffer that is cleared but for the last unit of an IPv6 datagram.
Assemble(pkt) ==
  [p \in 1 .. LenData(pkt) |->
     LET f == pkt.frames[CHOOSE i \in LastWriter(pkt, p) : TRUE]
     IN IF LastWriter(pkt, p) = {}
        THEN IF p > pkt.cap_len + Len(pkt.frames) - 1 THEN Junk ELSE Zero
        ELSE IF p > f.off + f.len THEN Junk
        ELSE Content[f.dgram][p]]

\* What the capture of f returns: a packet, or None.
ReassembledBy(f) ==
  IF f.len > MaxCaptureLen THEN None
  ELSE IF ~IsFragment(f) THEN [frames |-> <<f>>, content |-> Content[f.dgram]]
  ELSE LET pkt == WithFragment(f)
       IN IF pkt.cap_len = pkt.exp_len /\ LenData(pkt) <= MaxCaptureLen
          THEN [frames |-> pkt.frames, content |-> Assemble(pkt)]
          ELSE None

\* A packet that is returned leaves ip_reasm; one that is too long stays.
ReasmIp(f) ==
  /\ assembled' = ReassembledBy(f)
  /\ ip_reasm' =
       IF f.len > MaxCaptureLen \/ ~IsFragment(f) THEN ip_reasm
       ELSE [ip_reasm EXCEPT ![Key[f.dgram]] =
               IF ReassembledBy(f) = None THEN WithFragment(f) ELSE None]

IpNext == \E f \in Frames : ReasmIp(f)
IpSpec == IpInit /\ [][IpNext]_ipVars

----------------------------------------------------------------------------
(* Properties *)

FragmentsOf(d) == {f \in Frames : f.dgram = d}

\* Captured are all fragments of d, each of them once.
AllOnce(frames, d) == IsInjective(frames) /\ Range(frames) = FragmentsOf(d)

\* A datagram of which every fragment has been captured once does not stay in
\* ip_reasm, in whatever order they came: the count of capture_packet_reasm_ip
\* then reaches the end of the last fragment.
NothingWithheld ==
  \A k \in Keys, d \in Datagrams :
    ip_reasm[k] # None /\ AllOnce(ip_reasm[k].frames, d) => LenData(ip_reasm[k]) > MaxCaptureLen

InOrder(frames) == \A i, j \in 1 .. Len(frames) : i < j => frames[i].off < frames[j].off

\* A packet put together from fragments of one datagram, none captured twice,
\* has all of its content and no hole, for IPv4 in any order and for IPv6 in
\* the order of their offsets (a fragment is copied with eight bytes too many).
AssembledAsSent ==
  assembled # None =>
    LET fr == assembled.frames
        d  == fr[1].dgram
    IN (/\ IsInjective(fr)
        /\ \A i \in 1 .. Len(fr) : fr[i].dgram = d
        /\ d \in V6 => InOrder(fr)) =>
       /\ Range(fr) = FragmentsOf(d)
       /\ SubSeq(assembled.content, 1, Len(Content[d])) = Content[d]
===============================================================================
