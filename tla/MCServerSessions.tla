-------------------------- MODULE MCServerSessions --------------------------
(* Small instances of ServerSessions *)
EXTENDS ServerSessions

CONSTANT c1
=============================================================================
