------------------------------ MODULE Reassembly ------------------------------
(***************************************************************************)
(* parse_packet (src/capture.c) down to the payloads it hands on: every    *)
(* captured frame goes through IP reassembly, and a TCP packet that comes  *)
(* out of it through TCP reassembly, in one call.  A capture source has    *)
(* its own ip_reasm and tcp_reasm, so threads do not meet here.  A frame   *)
(* that comes while the capture is paused, or is full and does not rotate, *)
(* is one that is not captured.                                            *)
(***************************************************************************)
EXTENDS IpReassembly, TcpReassembly

CONSTANTS
  Transport,   \* datagram -> "udp", "tcp" or "other"
  Header,      \* datagram -> [stream, seq, push] of its first unit, read as TCP
  NoPorts,     \* the stream of a TCP header that is a hole
  MaxFrames    \* bound on the frames captured

ASSUME TransportAssumption ==
  /\ Transport \in [Datagrams -> {"udp", "tcp", "other"}]
  /\ NoPorts \in Streams /\ 0 \in SeqNumbers
  /\ \A d \in Datagrams :
       /\ d \notin Units
       /\ Content[d] \in Seq(Units \cup Datagrams)
       /\ Content[d] # <<>> /\ Content[d][1] = d
       /\ \A i \in 2 .. Len(Content[d]) : Content[d][i] \in Units
       /\ Header[d] \in [stream : Streams, seq : SeqNumbers, push : BOOLEAN]

VARIABLE frames_captured

vars == <<ipVars, tcpVars, frames_captured>>

Init ==
  /\ IpInit
  /\ TcpInit
  /\ frames_captured = 0

\* The TCP header is the first unit of the packet.  If the first fragment is
\* missing it is all zero, and so is its own length.
Segment(pkt) ==
  IF pkt.content[1] \in Datagrams
  THEN LET h == Header[pkt.content[1]]
       IN [stream |-> h.stream, seq |-> h.seq, push |-> h.push,
           payload |-> Tail(pkt.content), frames |-> Len(pkt.frames)]
  ELSE [stream |-> NoPorts, seq |-> 0, push |-> FALSE,
        payload |-> pkt.content, frames |-> Len(pkt.frames)]

\* A frame is captured.  The protocol is that of the frame that began the packet.
ParsePacket(f) ==
  /\ frames_captured < MaxFrames
  /\ frames_captured' = frames_captured + 1
  /\ ReasmIp(f)
  /\ LET pkt == ReassembledBy(f)
     IN IF pkt # None /\ Transport[pkt.frames[1].dgram] = "tcp"
        THEN ReasmTcp(Segment(pkt))
        ELSE UNCHANGED tcpVars

Next == \E f \in Frames : ParsePacket(f)

Spec == Init /\ [][Next]_vars

===============================================================================
