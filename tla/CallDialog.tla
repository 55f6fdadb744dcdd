----------------------------- MODULE CallDialog -----------------------------
(***************************************************************************)
(* One dialog of the call store and the messages captured for it           *)
(* (call_add_message and call_update_state, src/sip_call.c).               *)
(*                                                                         *)
(* A capture sees whatever passes its interface: messages are lost,        *)
(* repeated and reordered at will, so any message may come next.           *)
(***************************************************************************)
EXTENDS CallStates, Sequences

CONSTANTS
  DialogPackets,  \* the messages of this dialog: [reqresp, cseq]
  MaxDialogMsgs   \* bound on the messages captured

ASSUME DialogAssumption ==
  /\ DialogPackets \subseteq [reqresp : Nat, cseq : Nat]
  /\ MaxDialogMsgs \in Nat

VARIABLES
  msgs,       \* call->msgs
  state,      \* call->state
  invitecseq, \* call->invitecseq
  cstart_msg, \* position of call->cstart_msg in msgs, 0 for none
  cend_msg    \* position of call->cend_msg in msgs, 0 for none

dialogVars == <<msgs, state, invitecseq, cstart_msg, cend_msg>>

Cseqs == {p.cseq : p \in DialogPackets} \cup {0}

DialogInit ==
  /\ msgs = <<>>
  /\ state = "none"
  /\ invitecseq = 0
  /\ cstart_msg = 0
  /\ cend_msg = 0

\* call_is_invite: the first message of the dialog is an INVITE.
IsInvite == msgs'[1].reqresp = INVITE

\* Faulty variant: any ACK starts the conversation, whatever its CSeq.
UpdateStateAnyAck(m) ==
  /\ state' = NextState(state, m.cseq, m)
  /\ invitecseq' = NextCseq(state, invitecseq, m)
  /\ cstart_msg' = IF state = "callsetup" /\ state' = "incall" THEN Len(msgs') ELSE cstart_msg
  /\ cend_msg' = IF state = "incall" /\ state' = "completed" THEN Len(msgs') ELSE cend_msg

\* Faulty variant: every BYE moves the end, retransmissions too.
UpdateStateLastBye(m) ==
  /\ state' = NextState(state, invitecseq, m)
  /\ invitecseq' = NextCseq(state, invitecseq, m)
  /\ cstart_msg' = IF state = "callsetup" /\ state' = "incall" THEN Len(msgs') ELSE cstart_msg
  /\ cend_msg' = IF m.reqresp = BYE THEN Len(msgs') ELSE cend_msg

\* Faulty variant: positions are taken one too far.
UpdateStateOffByOne(m) ==
  /\ state' = NextState(state, invitecseq, m)
  /\ invitecseq' = NextCseq(state, invitecseq, m)
  /\ cstart_msg' = IF state = "callsetup" /\ state' = "incall" THEN Len(msgs') + 1 ELSE cstart_msg
  /\ cend_msg' = cend_msg

UpdateState(m) ==
  /\ state' = NextState(state, invitecseq, m)
  /\ invitecseq' = NextCseq(state, invitecseq, m)
  /\ cstart_msg' = IF state = "callsetup" /\ state' = "incall" THEN Len(msgs') ELSE cstart_msg
  /\ cend_msg' = IF state = "incall" /\ state' = "completed" THEN Len(msgs') ELSE cend_msg

AddMessage(m) ==
  /\ Len(msgs) < MaxDialogMsgs
  /\ msgs' = Append(msgs, m)
  /\ \/ IsInvite /\ UpdateState(m)
     \/ ~IsInvite /\ UNCHANGED <<state, invitecseq, cstart_msg, cend_msg>>

DialogNext == \E m \in DialogPackets : AddMessage(m)

DialogSpec == DialogInit /\ [][DialogNext]_dialogVars
-----------------------------------------------------------------------------

DialogTypeOK ==
  /\ msgs \in Seq(DialogPackets) /\ Len(msgs) <= MaxDialogMsgs
  /\ state \in States
  /\ invitecseq \in Cseqs
  /\ {cstart_msg, cend_msg} \subseteq 0 .. Len(msgs)

\* Positions of the INVITE with the number the call keeps as its own.
OwnInvites == {i \in DOMAIN msgs : msgs[i].reqresp = INVITE /\ msgs[i].cseq = invitecseq}

\* "In call" is only ever shown once the very INVITE that began the setup has
\* been acknowledged, and no BYE has been seen since (sip_call.c:211-233),
\* whatever was lost, repeated or reordered before.
InCallAcknowledged ==
  state = "incall" =>
    /\ cstart_msg # 0 /\ msgs[cstart_msg].reqresp = ACK
    /\ msgs[cstart_msg].cseq = invitecseq
    /\ \E i \in OwnInvites : i < cstart_msg
    /\ \A j \in cstart_msg .. Len(msgs) : msgs[j].reqresp # BYE

\* The end of a completed dialog is the first BYE after the ACK that began its
\* last conversation, so that the duration shown is that conversation's
\* (sip_call.c:230-232 and 277).
CompletedSpan ==
  state = "completed" =>
    /\ 0 < cstart_msg /\ cstart_msg < cend_msg
    /\ msgs[cend_msg].reqresp = BYE
    /\ \A j \in cstart_msg + 1 .. cend_msg - 1 : msgs[j].reqresp # BYE

\* A call that is being set up was begun by an INVITE that nothing since has
\* refused, cancelled or acknowledged under its number (sip_call.c:211-226).
SetupPending ==
  state = "callsetup" =>
    \E i \in OwnInvites : \A j \in i + 1 .. Len(msgs) :
      /\ msgs[j].reqresp # CANCEL
      /\ msgs[j].cseq = invitecseq => ~(msgs[j].reqresp = ACK \/ msgs[j].reqresp > 400)

=============================================================================
