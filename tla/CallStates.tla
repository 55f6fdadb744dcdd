----------------------------- MODULE CallStates -----------------------------
(***************************************************************************)
(* The state of a dialog as the capture thread infers it from the SIP      *)
(* messages it sees (call_update_state, src/sip_call.c).                   *)
(*                                                                         *)
(* A message carries the code of its method or its response (enum          *)
(* sip_methods, src/sip.h: methods are below 100) and its CSeq number.     *)
(***************************************************************************)
EXTENDS Naturals

INVITE  == 2
MESSAGE == 11
CANCEL  == 12
BYE     == 13
ACK     == 14

\* enum call_state; "none" is the zero of a call that no INVITE has begun.
States ==
  {"none", "callsetup", "incall", "cancelled", "rejected", "diverted", "busy",
   "completed"}

IsActive(state) == state \in {"callsetup", "incall"}

\* What a message does to a call that is being set up.
SetupOutcome(invitecseq, m) ==
  CASE m.reqresp = ACK /\ m.cseq = invitecseq  -> "incall"
    [] m.reqresp = CANCEL                      -> "cancelled"
    [] m.reqresp \in {480, 486, 600}           -> "busy"
    [] /\ m.reqresp > 400 /\ m.cseq = invitecseq
       /\ m.reqresp \notin {480, 486, 600}     -> "rejected"
    [] m.reqresp \in {181, 301, 302}           -> "diverted"
    [] OTHER                                   -> "callsetup"

\* call_update_state: the state that follows, for a call whose first message
\* is an INVITE.
NextState(state, invitecseq, m) ==
  CASE state = "callsetup"                  -> SetupOutcome(invitecseq, m)
    [] state = "incall"                     -> IF m.reqresp = BYE THEN "completed" ELSE state
    [] state \notin {"callsetup", "incall"} -> IF m.reqresp = INVITE THEN "callsetup" ELSE state

\* Faulty variant: the CSeq of the first INVITE is kept for good.
NextCseqOfFirst(state, invitecseq, m) ==
  IF m.reqresp = INVITE /\ invitecseq = 0 THEN m.cseq ELSE invitecseq

\* ... and the CSeq of the INVITE that began the setup.
NextCseq(state, invitecseq, m) ==
  IF m.reqresp = INVITE /\ ~IsActive(state) THEN m.cseq ELSE invitecseq
=============================================================================
