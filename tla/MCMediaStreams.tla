--------------------------- MODULE MCMediaStreams ---------------------------
(***************************************************************************)
(* A dialog whose callee is behind NAT and moves its media to a relay, a   *)
(* second dialog with the caller's address, an SDP with a fax line; media  *)
(* between caller, callee and relay, in two formats, and their reports.    *)
(***************************************************************************)
EXTENDS MediaStreams

A(ip, port) == [ip |-> ip, port |-> port]
C(ip) == [line |-> "c", ip |-> ip]
M(port) == [line |-> "m", rtp |-> TRUE, port |-> port]
Fax(port) == [line |-> "m", rtp |-> FALSE, port |-> port]
Rtcp(port) == [line |-> "rtcp", port |-> port]

Msg(c, req, inv, from, to, sdp) ==
  [call |-> c, request |-> req, invite |-> inv, src |-> A(from, 5060), dst |-> A(to, 5060), sdp |-> sdp]

MCMessages ==
  {Msg("c1", TRUE, TRUE, "a", "b", <<C("a"), M(10)>>),
   Msg("c1", FALSE, FALSE, "b", "a", <<M(20), C("n"), Rtcp(25)>>),
   Msg("c1", TRUE, TRUE, "b", "a", <<C("x"), M(30), M(20), C("b"), Fax(40), C("x")>>),
   Msg("c2", TRUE, TRUE, "a", "x", <<C("a"), M(10)>>)}

Rtp(octet, src, dst) == [octet |-> octet, src |-> src, dst |-> dst, reports |-> <<>>]
Report(src, dst, reports) == [octet |-> 200, src |-> src, dst |-> dst, reports |-> reports]

caller == A("a", 10)
callee == A("b", 20)
relay == A("x", 30)

MCPackets ==
  {Rtp(0, caller, callee), Rtp(0, callee, caller), Rtp(128 + 8, callee, caller),
   Rtp(0, relay, caller), Rtp(0, caller, relay),
   Report(A("n", 25), A("a", 11),
          <<[kind |-> "sr", whole |-> TRUE, count |-> 5],
            [kind |-> "xr", whole |-> TRUE, blocks |-> <<[voip |-> FALSE, value |-> 1], [voip |-> TRUE, value |-> 2]>>],
            [kind |-> "unknown", whole |-> TRUE]>>),
   Report(A("a", 11), A("n", 25), <<[kind |-> "rr", whole |-> TRUE], [kind |-> "sr", whole |-> FALSE, count |-> 7]>>)}
=============================================================================
