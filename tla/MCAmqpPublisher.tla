-------------------------- MODULE MCAmqpPublisher --------------------------
(* A small instance of AmqpPublisher *)
EXTENDS AmqpPublisher
=============================================================================
