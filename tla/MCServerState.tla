--------------------------- MODULE MCServerState ---------------------------
(* A small instance of ServerState *)
EXTENDS ServerState, TLC

CONSTANTS i1, e1, e2, f1, f2, u1, u2

\* One call with two egress legs.
OneCallLines ==
  {[egress |-> e1, ingress |-> i1, fields |-> f1],
   [egress |-> e2, ingress |-> i1, fields |-> f1]}

\* The two legs are interchangeable; the values are not, the filters name some.
LegSymmetry == Permutations({e1, e2})

\* A filter on a class4 field, one on a SIP field
SomeSideFilters == {[class4 |-> f2, sip |-> Unset], [class4 |-> Unset, sip |-> u1]}
=============================================================================
