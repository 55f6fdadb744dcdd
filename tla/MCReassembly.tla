---------------------------- MODULE MCReassembly ----------------------------
(* Instances of Reassembly for TLC. *)
EXTENDS Reassembly, TLC

CONSTANTS t1, t2, t3, t4, t6, u4, v4, u6, m1, m2, m3, conn

Part(m, j) == [msg |-> m, part |-> j]

\* m1 has a body of two units, m2 has none, the body of m3 ends without \r\n.
MCParts == m1 :> 4 @@ m2 :> 2 @@ m3 :> 3

\* A stream of m1, m2 and m3 cut into segments in the middle of m1 and of m3;
\* t4 carries the whole of m2 twice, t6 nothing.
MCContent ==
  t1 :> <<t1, Part(m1, 1), Part(m1, 2), Part(m1, 3)>> @@
  t2 :> <<t2, Part(m1, 4), Part(m2, 1), Part(m2, 2), Part(m3, 1)>> @@
  t3 :> <<t3, Part(m3, 2), Part(m3, 3)>> @@
  t4 :> <<t4, Part(m2, 1), Part(m2, 2), Part(m2, 1), Part(m2, 2)>> @@
  t6 :> <<t6>> @@
  u4 :> <<u4, Part(m1, 1), Part(m1, 2)>> @@
  v4 :> <<v4, Part(m2, 1), Part(m2, 2)>> @@
  u6 :> <<u6, Part(m1, 1), Part(m1, 2)>>

MCTransport ==
  t1 :> "tcp" @@ t2 :> "tcp" @@ t3 :> "tcp" @@ t4 :> "tcp" @@ t6 :> "tcp" @@
  u4 :> "udp" @@ v4 :> "udp" @@ u6 :> "udp"

\* The sequence number wraps between t3 and t4.
Tcp(seq, push) == [stream |-> conn, seq |-> seq, push |-> push]
MCHeader ==
  t1 :> Tcp(4, FALSE) @@ t2 :> Tcp(5, TRUE) @@ t3 :> Tcp(7, TRUE) @@
  t4 :> Tcp(1, FALSE) @@ t6 :> Tcp(7, FALSE) @@
  [d \in {u4, v4, u6} |-> [stream |-> NoPorts, seq |-> 0, push |-> FALSE]]

\* u4 and v4 follow each other with the same identification.
MCKey == [d \in Datagrams |-> IF d = v4 THEN u4 ELSE d]

Fragment(d, off, len, mf) == [dgram |-> d, off |-> off, len |-> len, mf |-> mf]
InThree(d) == {Fragment(d, 0, 1, TRUE), Fragment(d, 1, 1, TRUE), Fragment(d, 2, 1, FALSE)}
InTwo(d)   == {Fragment(d, 0, 2, TRUE), Fragment(d, 2, Len(MCContent[d]) - 2, FALSE)}
InOne(d)   == {Fragment(d, 0, Len(MCContent[d]), FALSE)}

\* UDP in fragments, TCP in one frame each.
UdpFragments == InThree(u4) \cup InTwo(v4) \cup InThree(u6)
                  \cup InOne(t1) \cup InOne(t2) \cup InOne(t3) \cup InOne(t4) \cup InOne(t6)

=============================================================================
