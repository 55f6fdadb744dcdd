------------------------------ MODULE LossyFifo ------------------------------
(***************************************************************************)
(* What the AMQP publisher promises to the server thread: a bounded queue  *)
(* that delivers messages in the order it accepted them, each at most      *)
(* once, and may lose the message it is about to deliver.                  *)
(***************************************************************************)
EXTENDS Naturals, Sequences

CONSTANTS
  Messages,
  Bound          \* messages accepted and not yet delivered or lost

VARIABLES
  pending,       \* accepted, in order
  delivered      \* delivered, in order

Init ==
  /\ pending = <<>>
  /\ delivered = <<>>

Accept(m) ==
  /\ Len(pending) < Bound
  /\ pending' = Append(pending, m)
  /\ UNCHANGED delivered

Deliver ==
  /\ pending # <<>>
  /\ delivered' = Append(delivered, Head(pending))
  /\ pending' = Tail(pending)

Lose ==
  /\ pending # <<>>
  /\ pending' = Tail(pending)
  /\ UNCHANGED delivered

Next == (\E m \in Messages : Accept(m)) \/ Deliver \/ Lose

Spec == Init /\ [][Next]_<<pending, delivered>>
=============================================================================
