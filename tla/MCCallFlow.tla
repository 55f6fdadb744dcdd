---------------------------- MODULE MCCallFlow ----------------------------
(***************************************************************************)
(* Two dialogs, the second one forked from the first, with three messages  *)
(* and two streams: the first dialog's media is that of a gateway with an  *)
(* address no message has.                                                 *)
(***************************************************************************)
EXTENDS CallFlow

CONSTANTS A, B

Addr(ip, port) == [ip |-> ip, port |-> port]

Invite == [id |-> 1, call |-> A, src |-> Addr("alice", 1), dst |-> Addr("proxy", 1), medias |-> <<>>]
Answer == [id |-> 2, call |-> A, src |-> Addr("proxy", 1), dst |-> Addr("alice", 1),
           medias |-> <<Addr("gateway", 7)>>]
Forked == [id |-> 3, call |-> B, src |-> Addr("proxy", 1), dst |-> Addr("bob", 1),
           medias |-> <<Addr("proxy", 5)>>]

MCMessages == {Invite, Answer, Forked}
MCStreamList ==
  <<[msg |-> Answer, src |-> Addr("alice", 3), dst |-> Addr("gateway", 7)],
    [msg |-> Forked, src |-> Addr("bob", 3), dst |-> Addr("proxy", 5)]>>
MCIps == {"alice", "bob", "proxy", "gateway"}
MCPrecedes(m, item) == m = Invite /\ item \in {Answer, Forked}
MCTimesOf(item) ==
  IF item = Invite THEN {1} ELSE IF item \in {Answer, MCStreamList[2]} THEN {2} ELSE {1, 2}
MCGroups == {<<A>>, <<B, A>>}
MCStartSettings ==
  [media : {"on"}, onlymedia : {"off"}, sdpinfo : {"first"}, split : {"off"}]
MCParent == [c \in {A, B} |-> IF c = B THEN A ELSE None]
============================================================================
