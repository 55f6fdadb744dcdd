---------------------------- MODULE MCCallDialog ----------------------------
(* Instances of CallDialog for TLC. *)
EXTENDS CallDialog

\* Two INVITE transactions of a dialog, their answers, and the BYE after them.
MCPackets ==
  {[reqresp |-> r, cseq |-> 1] : r \in {INVITE, ACK, CANCEL, 200, 302, 400, 401, 486}}
    \cup {[reqresp |-> r, cseq |-> 2] : r \in {INVITE, ACK, BYE}}
=============================================================================
