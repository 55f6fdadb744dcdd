----------------------------- MODULE MCCallStore -----------------------------
(* Instances of CallStore for TLC. *)
EXTENDS CallStore

CONSTANTS a, b, c

\* b is a leg of a; c stands alone.
MCXCallId == a :> None @@ b :> a @@ c :> None

\* Two messages of a call with a leg, one of the others.
MCMaxMsgs == a :> 2 @@ b :> 1 @@ c :> 1

Packet(r, n, yes) == [reqresp |-> r, cseq |-> n, matches |-> yes]

\* A BYE may match the expression of the command line or not.
SomePackets == {Packet(INVITE, 1, TRUE), Packet(BYE, 2, TRUE), Packet(BYE, 2, FALSE)}

Option(rotate, only_calls, ignore_incomplete) ==
  [rotate |-> rotate, only_calls |-> only_calls, ignore_incomplete |-> ignore_incomplete]

SomeOptions == {Option(FALSE, TRUE, FALSE), Option(TRUE, FALSE, TRUE)}
=============================================================================
