------------------------------ MODULE SipPayload ------------------------------
(***************************************************************************)
(* Payloads, and how sip_validate_packet (src/sip.c) judges one.           *)
(*                                                                         *)
(* A payload is a sequence of units of eight bytes.  A SIP message is its  *)
(* start line (part 1), its other headers with Content-Length and the      *)
(* empty line (part 2), and its body (the parts after that).               *)
(***************************************************************************)
EXTENDS Naturals, Sequences

CONSTANTS
  Messages,       \* SIP messages
  Parts,          \* message -> number of its units
  Crlf,           \* messages whose body ends with a line end
  Zero,           \* a unit of NUL bytes
  Junk,           \* a unit of bytes read from beyond a frame
  MaxSipPayload,  \* MAX_SIP_PAYLOAD
  MaxCaptureLen,  \* MAX_CAPTURE_LEN
  None

ASSUME PayloadAssumption ==
  /\ Parts \in [Messages -> Nat \ {0, 1}]
  /\ Crlf \subseteq Messages
  /\ MaxSipPayload \in Nat /\ MaxCaptureLen \in Nat

MessageUnits == [msg : Messages, part : Nat]
Units == MessageUnits \cup {Zero, Junk}

ASSUME UnitsAssumption == Zero \notin MessageUnits

\* All of message m.
Whole(m) == [j \in 1 .. Parts[m] |-> [msg |-> m, part |-> j]]

IsPart(u, j) == u \in MessageUnits /\ u.part = j

\* The unit ends with \r\n.
EndsLine(u) ==
  u \in MessageUnits /\ (u.part = 2 \/ (u.part = Parts[u.msg] /\ u.msg \in Crlf))

\* The positions of p whose unit satisfies Test, up to the first: at most one.
First(p, Test(_)) ==
  {i \in 1 .. Len(p) : Test(p[i]) /\ \A j \in 1 .. i - 1 : ~Test(p[j])}

\* What the regular expressions see: a string that ends at the first NUL.
Text(p) ==
  LET nul == First(p, LAMBDA u : u = Zero)
  IN IF nul = {} THEN p ELSE SubSeq(p, 1, (CHOOSE i \in nul : TRUE) - 1)

\* Where the first empty line of a text is, in the unit with Content-Length.
HeadersEnd(text) == First(text, LAMBDA u : IsPart(u, 2))

Verdicts == {"complete", "multiple", "partial", "not_sip"}
Verdict(v, n) == [as |-> v, length |-> n]

\* Faulty variant: the body is taken to end where the payload ends.
ValidateIgnoresRest(p) ==
  LET text == Text(p)
      h    == CHOOSE i \in HeadersEnd(text) : TRUE
  IN IF text = <<>> \/ Len(p) > MaxSipPayload THEN Verdict("not_sip", 0)
     ELSE IF ~IsPart(text[1], 1) THEN Verdict("not_sip", 0)
     ELSE IF HeadersEnd(text) = {} \/ Parts[text[h].msg] - 2 > Len(text) - h
          THEN Verdict("partial", 0)
     ELSE Verdict("complete", Len(p))

\* sip_validate_packet: the first line, the first Content-Length and the first
\* empty line decide.  A payload that is longer than its first message is cut.
Validate(p) ==
  LET text    == Text(p)
      h       == CHOOSE i \in HeadersEnd(text) : TRUE
      content == Parts[text[h].msg] - 2
      body    == Len(text) - h
  IN IF text = <<>> \/ Len(p) > MaxSipPayload THEN Verdict("not_sip", 0)
     ELSE IF ~IsPart(text[1], 1) THEN Verdict("not_sip", 0)
     ELSE IF HeadersEnd(text) = {} \/ content > body THEN Verdict("partial", 0)
     ELSE IF content = body THEN Verdict("complete", Len(p))
     ELSE IF EndsLine(text[h + content]) THEN Verdict("multiple", h + content)
     ELSE Verdict("not_sip", 0)
===============================================================================
