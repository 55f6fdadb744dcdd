----------------------- MODULE ServerSessions_proofs -----------------------
(***************************************************************************)
(* Theorems about the coroutines of the web server, for any number of      *)
(* websockets, calls and snapshots and any capacity of the channel.        *)
(***************************************************************************)
EXTENDS ServerSessions, FiniteSetTheorems, WellFoundedInduction, TLAPS

\* do_multiplex has a message exactly while it does not wait, and a websocket
\* exactly while it writes; while it waits the channel is empty.
MuxTypeOK ==
  /\ channel \in Seq(Messages)
  /\ mux \in {"waiting", "handle", "write"}
  /\ IF mux = "waiting" THEN task = None /\ channel = <<>> ELSE task \in Messages
  /\ IF mux = "write" THEN ws \in Sessions ELSE ws = None
  /\ todo \in Nat
  /\ handled \in Nat

\* The types of the variables.
TypeOK ==
  /\ auth_configured \in BOOLEAN
  /\ pc \in [Sessions -> {"idle", "accept", "auth", "execute", "read", "ended"}]
  /\ authorised \subseteq Sessions
  /\ established_sessions \in [Sessions -> (SUBSET Calls) \cup {None}]
  /\ MuxTypeOK
  /\ calls \subseteq Calls
  /\ taken \in 0 .. MaxSnapshots
  /\ owed \subseteq Sessions
  /\ reached \subseteq Sessions
  /\ torn \in BOOLEAN
  /\ status \in {"running", "full", "failed", "thrown", "crashed"}

\* A websocket is in established_sessions exactly while its coroutine reads.
EntryInv == \A s \in Sessions : s \in Established <=> pc[s] = "read"

\* With authentication configured, whoever is established, or written to, has
\* been accepted.
AuthInv ==
  auth_configured =>
    /\ Established \subseteq authorised
    /\ mux = "write" => ws \in authorised

\* Only a client that reads sends commands, and it never leaves that state but
\* to end: the reason why established_sessions.at finds what it looks for.
QueueInv ==
  LET Sent(m) == m.kind = "client" => pc[m.client] \in {"read", "ended"}
  IN /\ \A i \in 1 .. Len(channel) : Sent(channel[i])
     /\ mux # "waiting" => Sent(task)

\* While a broadcast is written, whom it owes a message and has not reached is
\* still ahead of the iterator; afterwards there is nobody left.
BroadcastInv ==
  ~torn =>
    IF mux = "write" /\ task.kind = "call"
    THEN \A s \in owed \ reached : s \in Remaining(ws, task.call)
    ELSE owed \subseteq reached

Inv == TypeOK /\ EntryInv /\ AuthInv /\ QueueInv /\ BroadcastInv /\ NeverThrown

----------------------------------------------------------------------------
(* The operators of the model *)

\* A non-empty set of natural numbers has a least element.
LEMMA NatMin ==
  ASSUME NEW T, T \subseteq Nat, T # {}
  PROVE  \E x \in T : \A y \in T : x <= y
<1> DEFINE R == OpToRel(<, Nat)
<1>1. IsWellFoundedOn(R, Nat)
  BY NatLessThanWellFounded
<1>2. R = {ss \in Nat \X Nat : ss[1] < ss[2]}
  BY Zenon DEF OpToRel
<1> HIDE DEF R
<1>3. PICK x \in T : \A y \in T : ~(<<y, x>> \in R)
  BY <1>1, WFMin
<1>4. ASSUME NEW y \in T PROVE x <= y
  <2>1. x \in Nat /\ y \in Nat
    OBVIOUS
  <2>2. <<y, x>> \in Nat \X Nat /\ <<y, x>>[1] = y /\ <<y, x>>[2] = x
    BY <2>1
  <2>3. ~(y < x)
    BY <1>2, <1>3, <2>2
  <2>4. QED
    BY <2>1, <2>3
<1>5. QED
  BY <1>4

\* A broadcast writes to the least address of those that remain.
LEMMA MinOfSessions ==
  ASSUME NEW S, S \subseteq Sessions, S # {}
  PROVE  Min(S) \in S /\ \A s \in S : Min(S) <= s
<1>1. S \subseteq Nat
  BY SessionsAssumption DEF Sessions
<1>2. \E x \in S : \A y \in S : x <= y
  BY <1>1, NatMin
<1>3. QED
  BY <1>2 DEF Min

\* The sessions that remain are established sessions.
LEMMA RemainingAreSessions ==
  ASSUME NEW a, NEW c
  PROVE  Remaining(a, c) \subseteq Established /\ Established \subseteq Sessions
BY DEF Remaining, Established

\* A list has a natural number of entries.
LEMMA ListSizesType ==
  ASSUME TypeOK, NEW s \in Established, NEW onlyActive \in BOOLEAN
  PROVE  ListSizes(s, onlyActive) \subseteq Nat
<1> DEFINE all == Cardinality(established_sessions[s] \cap calls)
<1>1. IsFiniteSet(established_sessions[s] \cap calls)
  BY SessionsAssumption, FS_Subset DEF TypeOK
<1>2. all \in Nat
  BY <1>1, FS_CardinalityType
<1>3. QED
  BY <1>2 DEF ListSizes

\* try_send keeps the types of what do_multiplex works on.
LEMMA SendType ==
  ASSUME MuxTypeOK, NEW m \in Messages, TrySend(m), UNCHANGED <<ws, todo, handled>>
  PROVE  MuxTypeOK'
BY DEF MuxTypeOK, TrySend, Send

\* So does going back to the top of the loop.
LEMMA NextTaskType ==
  ASSUME MuxTypeOK, mux # "waiting", NextTask
  PROVE  MuxTypeOK'
<1>1. CASE channel = <<>>
  BY <1>1 DEF MuxTypeOK, NextTask
<1>2. CASE channel # <<>>
  <2>1. Head(channel) \in Messages /\ Tail(channel) \in Seq(Messages)
    BY <1>2 DEF MuxTypeOK
  <2>2. QED
    BY <1>2, <2>1 DEF MuxTypeOK, NextTask
<1>3. QED
  BY <1>1, <1>2

\* And so does a write.
LEMMA WriteToType ==
  ASSUME MuxTypeOK, mux # "waiting", NEW s \in Sessions, NEW n \in Nat, WriteTo(s, n)
  PROVE  MuxTypeOK'
BY DEF MuxTypeOK, WriteTo

\* A step of a broadcast keeps the types, and reaches sessions only.
LEMMA BroadcastFromType ==
  ASSUME TypeOK, mux # "waiting", NEW a, NEW c, BroadcastFrom(a, c)
  PROVE  MuxTypeOK' /\ reached' \subseteq Sessions
<1>1. CASE Remaining(a, c) = {}
  BY <1>1, NextTaskType DEF BroadcastFrom, TypeOK
<1>2. CASE Remaining(a, c) # {}
  <2>1. Min(Remaining(a, c)) \in Sessions
    BY <1>2, RemainingAreSessions, MinOfSessions
  <2>2. QED
    BY <1>2, <2>1, WriteToType DEF BroadcastFrom, TypeOK
<1>3. QED
  BY <1>1, <1>2

\* A step of a periodic update keeps the types.
LEMMA UpdateFromType ==
  ASSUME TypeOK, mux # "waiting", NEW a, UpdateFrom(a)
  PROVE  MuxTypeOK'
<1>1. CASE NextTask
  BY <1>1, NextTaskType DEF TypeOK
<1>2. CASE \E s \in {t \in Established : t > a} : \E n \in ListSizes(s, TRUE) \ {0} :
             WriteTo(s, n - 1)
  <2>1. PICK s \in Established : \E n \in ListSizes(s, TRUE) \ {0} : WriteTo(s, n - 1)
    BY <1>2
  <2>2. PICK n \in ListSizes(s, TRUE) \ {0} : WriteTo(s, n - 1)
    BY <2>1
  <2>3. n \in Nat /\ n # 0 /\ s \in Sessions
    BY ListSizesType DEF Established
  <2>4. QED
    BY <2>2, <2>3, WriteToType DEF TypeOK
<1>3. QED
  BY <1>1, <1>2 DEF UpdateFrom

----------------------------------------------------------------------------
(* Types *)

\* Every action keeps the types.
LEMMA TypeStep ==
  ASSUME TypeOK, [Next]_vars
  PROVE  TypeOK'
<1> USE DEF TypeOK
<1>1. ASSUME NEW s \in Sessions,
             Accept(s) \/ Handshake(s) \/ AuthMessage(s) \/ AuthResult(s) \/ EndSession(s)
      PROVE  /\ pc' \in [Sessions -> {"idle", "accept", "auth", "execute", "read", "ended"}]
             /\ authorised' \subseteq Sessions
             /\ established_sessions' \in [Sessions -> (SUBSET Calls) \cup {None}]
             /\ owed' \subseteq Sessions
             /\ UNCHANGED <<channel, muxVars, calls, taken, reached, torn, status>>
  <2> USE DEF sessionVars, muxVars, broadcastVars
  <2>1. CASE Accept(s)
    BY <2>1 DEF Accept
  <2>2. CASE Handshake(s)
    BY <2>2 DEF Handshake, Establish
  <2>3. CASE AuthMessage(s)
    BY <2>3 DEF AuthMessage
  <2>4. CASE AuthResult(s)
    BY <2>4 DEF AuthResult, Establish
  <2>5. CASE EndSession(s)
    BY <2>5 DEF EndSession
  <2>6. QED
    BY <1>1, <2>1, <2>2, <2>3, <2>4, <2>5
<1>2. ASSUME NEW s \in Sessions, NEW passed \in SUBSET Calls, Subscribe(s, passed)
      PROVE  /\ established_sessions' \in [Sessions -> (SUBSET Calls) \cup {None}]
             /\ owed' \subseteq Sessions
             /\ UNCHANGED <<pc, authorised, channel, muxVars, calls, taken, reached, torn, status>>
  BY <1>2 DEF Subscribe, muxVars
<1>3. ASSUME UNCHANGED <<channel, muxVars>> PROVE MuxTypeOK'
  BY <1>3 DEF MuxTypeOK, muxVars
<1>4. ASSUME NEW s \in Sessions, NEW command \in Commands, Command(s, command)
      PROVE  MuxTypeOK' /\ UNCHANGED <<sessionVars, calls, taken, broadcastVars, status>>
  <2>1. [kind |-> "client", client |-> s, command |-> command] \in Messages
    BY DEF Messages
  <2>2. QED
    BY <1>4, <2>1, SendType DEF Command
<1>5. ASSUME NEW c \in Calls, OnNewSipMessage(c)
      PROVE  /\ MuxTypeOK' /\ taken' \in 0 .. MaxSnapshots
             /\ status' \in {"running", "full"}
             /\ UNCHANGED <<sessionVars, calls, broadcastVars>>
  <2> DEFINE m == [kind |-> "call", call |-> c, n |-> taken + 1]
  <2>1. m \in Messages /\ taken + 1 \in 0 .. MaxSnapshots
    BY <1>5, SessionsAssumption DEF Messages, OnNewSipMessage
  <2>2. CASE HasRoom
    <3>1. TrySend(m)
      BY <1>5, <2>2 DEF OnNewSipMessage, TrySend
    <3>2. QED
      BY <1>5, <2>1, <2>2, <3>1, SendType DEF OnNewSipMessage
  <2>3. CASE ~HasRoom
    BY <1>5, <2>3 DEF OnNewSipMessage, MuxTypeOK
  <2>4. QED
    BY <2>2, <2>3
<1>6. ASSUME NEW c \in Calls, Class4Line(c)
      PROVE  /\ calls' \subseteq Calls
             /\ UNCHANGED <<sessionVars, channel, muxVars, taken, broadcastVars, status>>
  BY <1>6 DEF Class4Line
<1>7. ASSUME PeriodicUpdate
      PROVE  MuxTypeOK' /\ UNCHANGED <<sessionVars, calls, taken, broadcastVars, status>>
  <2>1. [kind |-> "periodic"] \in Messages
    BY DEF Messages
  <2>2. QED
    BY <1>7, <2>1, SendType DEF PeriodicUpdate
<1>8. ASSUME Multiplex
      PROVE  /\ MuxTypeOK' /\ owed' \subseteq Sessions /\ reached' \subseteq Sessions
             /\ torn' \in BOOLEAN /\ status' \in {"running", "thrown", "crashed"}
             /\ UNCHANGED <<auth_configured, sessionVars, calls, taken>>
  <2>1. CASE HandleCall
    <3> DEFINE to == Remaining(0, task.call)
    <3>1. to \subseteq Sessions /\ (to # {} => Min(to) \in Sessions)
      BY RemainingAreSessions, MinOfSessions
    <3>2. CASE NextTask /\ owed' = {} /\ reached' = {}
      BY <2>1, <3>2, <1>8, NextTaskType DEF HandleCall, Multiplex
    <3>3. CASE owed' = to /\ to = {} /\ NextTask /\ reached' = {}
      BY <2>1, <3>1, <3>3, <1>8, NextTaskType DEF HandleCall, Multiplex
    <3>4. CASE owed' = to /\ to # {} /\ WriteTo(Min(to), 0) /\ reached' = {Min(to)}
      BY <2>1, <3>1, <3>4, <1>8, WriteToType DEF HandleCall, Multiplex
    <3>5. QED
      BY <2>1, <3>2, <3>3, <3>4 DEF HandleCall
  <2>2. CASE HandlePeriodic
    BY <2>2, <1>8, UpdateFromType DEF HandlePeriodic, Multiplex, broadcastVars
  <2>3. CASE HandleClient
    <3>1. task \in Messages /\ task.client \in Sessions
      BY <2>3 DEF HandleClient, MuxTypeOK, Messages
    <3>2. ASSUME task.client \in Established
          PROVE  ListSizes(task.client, FALSE) \subseteq Nat
      BY <3>2, ListSizesType
    <3>3. MuxTypeOK' /\ status' \in {"running", "thrown"}
      <4>1. CASE NextTask /\ UNCHANGED status
        BY <2>3, <4>1, NextTaskType DEF HandleClient
      <4>2. CASE status' = "thrown" /\ UNCHANGED <<muxVars, channel>>
        BY <4>2, <1>3
      <4>3. CASE \E n \in Nat : WriteTo(task.client, n) /\ UNCHANGED status
        BY <2>3, <3>1, <4>3, WriteToType DEF HandleClient
      <4>4. ASSUME task.client \in Established, NEW n \in ListSizes(task.client, FALSE), n # 0
            PROVE  n - 1 \in Nat
        <5>1. n \in Nat
          BY <3>2, <4>4
        <5>2. QED
          BY <4>4, <5>1
      <4>5. CASE WriteTo(task.client, 0) /\ UNCHANGED status
        BY <2>3, <4>3, <4>5
      <4>6. CASE /\ task.client \in Established /\ UNCHANGED status
                 /\ \E n \in ListSizes(task.client, FALSE) :
                      IF n = 0 THEN NextTask ELSE WriteTo(task.client, n - 1)
        BY <4>1, <4>3, <4>4, <4>6
      <4>7. QED
        BY <2>3, <4>1, <4>2, <4>5, <4>6 DEF HandleClient
    <3>4. QED
      BY <2>3, <3>3, <1>8 DEF HandleClient, Multiplex, broadcastVars
  <2>4. CASE BroadcastWritten
    <3>1. CASE ws \in Established
      BY <2>4, <3>1, <1>8, BroadcastFromType DEF BroadcastWritten, Multiplex
    <3>2. CASE ws \notin Established
      <4>1. CASE status' = "crashed" /\ UNCHANGED <<muxVars, channel, reached>>
        BY <2>4, <3>2, <4>1, <1>3, <1>8 DEF BroadcastWritten, Multiplex
      <4>2. CASE \E a \in 0 .. NumSessions : BroadcastFrom(a, task.call) /\ UNCHANGED status
        BY <2>4, <3>2, <4>2, <1>8, BroadcastFromType DEF BroadcastWritten, Multiplex
      <4>3. QED
        BY <2>4, <3>2, <4>1, <4>2 DEF BroadcastWritten
    <3>3. QED
      BY <3>1, <3>2
  <2>5. CASE ListWritten
    <3>1. ws \in Sessions /\ todo - 1 \in Nat
      BY <2>5 DEF ListWritten, MuxTypeOK
    <3>2. QED
      BY <2>5, <3>1, <1>8, WriteToType DEF ListWritten, Multiplex, broadcastVars
  <2>6. CASE ListEnds
    <3>1. mux # "waiting" /\ owed' = owed /\ reached' = reached /\ torn' = torn
      BY <2>6 DEF ListEnds, broadcastVars
    <3>2. CASE NextTask /\ UNCHANGED status
      BY <2>6, <3>1, <3>2, <1>8, NextTaskType DEF ListEnds, Multiplex
    <3>3. CASE \E a : UpdateFrom(a) /\ UNCHANGED status
      BY <2>6, <3>1, <3>3, <1>8, UpdateFromType DEF ListEnds, Multiplex
    <3>4. CASE status' = "crashed" /\ UNCHANGED <<muxVars, channel>>
      BY <2>6, <3>1, <3>4, <1>3, <1>8 DEF ListEnds, Multiplex
    <3>5. QED
      BY <2>6, <3>2, <3>3, <3>4 DEF ListEnds
  <2>7. QED
    BY <1>8, <2>1, <2>2, <2>3, <2>4, <2>5, <2>6 DEF Multiplex
<1>9. CASE \E s \in Sessions :
             \/ Accept(s) \/ Handshake(s) \/ AuthMessage(s) \/ AuthResult(s) \/ EndSession(s)
             \/ \E passed \in SUBSET Calls : Subscribe(s, passed)
             \/ \E command \in Commands : Command(s, command)
  BY <1>1, <1>2, <1>3, <1>4, <1>9 DEF Next, vars, sessionVars, broadcastVars
<1>10. CASE \E c \in Calls : OnNewSipMessage(c) \/ Class4Line(c)
  BY <1>3, <1>5, <1>6, <1>10 DEF Next, vars, sessionVars, broadcastVars
<1>11. CASE PeriodicUpdate
  BY <1>7, <1>11 DEF Next, vars, sessionVars, broadcastVars
<1>12. CASE CallProcessorFails
  BY <1>3, <1>12 DEF Next, vars, CallProcessorFails, sessionVars, broadcastVars
<1>13. CASE Multiplex
  BY <1>8, <1>13 DEF sessionVars
<1>14. CASE UNCHANGED vars
  BY <1>3, <1>14 DEF vars, sessionVars, broadcastVars
<1>15. QED
  BY <1>9, <1>10, <1>11, <1>12, <1>13, <1>14 DEF Next, Exited

----------------------------------------------------------------------------
(* The rest of the invariant *)

\* The steps of do_session.
SessionStep ==
  \E s \in Sessions :
    \/ Accept(s) \/ Handshake(s) \/ AuthMessage(s) \/ AuthResult(s) \/ EndSession(s)
    \/ \E passed \in SUBSET Calls : Subscribe(s, passed)

\* The steps that put a message into the channel.
SendStep ==
  \E m \in Messages :
    /\ TrySend(m)
    /\ m.kind = "client" => pc[m.client] = "read"
    /\ UNCHANGED <<sessionVars, ws, todo, handled, calls, broadcastVars, status>>

\* The steps that change none of the variables the invariant is about.
OtherStep ==
  UNCHANGED <<sessionVars, channel, muxVars, broadcastVars>> /\ status' # "thrown"

\* What a step may do.
LEMMA StepCases ==
  ASSUME TypeOK, NeverThrown, [Next]_vars
  PROVE  /\ UNCHANGED auth_configured
         /\ SessionStep \/ SendStep \/ OtherStep \/ Multiplex
<1>1. CASE UNCHANGED vars
  BY <1>1 DEF vars, OtherStep, NeverThrown
<1>2. ASSUME NEW s \in Sessions, NEW command \in Commands, Command(s, command)
      PROVE  SendStep
  <2> DEFINE m == [kind |-> "client", client |-> s, command |-> command]
  <2>1. m \in Messages /\ m.client = s
    BY DEF Messages
  <2>2. QED
    BY <1>2, <2>1 DEF SendStep, Command
<1>3. ASSUME NEW c \in Calls, OnNewSipMessage(c) PROVE SendStep \/ OtherStep
  <2> DEFINE m == [kind |-> "call", call |-> c, n |-> taken + 1]
  <2>1. m \in Messages /\ m.kind # "client"
    BY <1>3, SessionsAssumption DEF Messages, OnNewSipMessage, TypeOK
  <2>2. CASE HasRoom
    BY <1>3, <2>1, <2>2 DEF SendStep, OnNewSipMessage, TrySend
  <2>3. CASE ~HasRoom
    BY <1>3, <2>3 DEF OtherStep, OnNewSipMessage, muxVars
  <2>4. QED
    BY <2>2, <2>3
<1>4. ASSUME PeriodicUpdate PROVE SendStep
  <2>1. [kind |-> "periodic"] \in Messages /\ [kind |-> "periodic"].kind # "client"
    BY DEF Messages
  <2>2. QED
    BY <1>4, <2>1 DEF SendStep, PeriodicUpdate
<1>5. CASE CallProcessorFails \/ \E c \in Calls : Class4Line(c)
  BY <1>5, <1>1 DEF OtherStep, CallProcessorFails, Class4Line, NeverThrown, Next, vars
<1>6. QED
  BY <1>1, <1>2, <1>3, <1>4, <1>5 DEF Next, Exited, SessionStep, vars

\* do_multiplex leaves the sessions alone.
LEMMA MultiplexKeepsSessions ==
  ASSUME Multiplex
  PROVE  UNCHANGED sessionVars
BY DEF Multiplex, HandleCall, HandlePeriodic, HandleClient, BroadcastWritten,
       ListWritten, ListEnds

\* A websocket is entered when its coroutine starts to read and erased when
\* it ends.
LEMMA EntryStep ==
  ASSUME TypeOK, EntryInv, NeverThrown, [Next]_vars
  PROVE  EntryInv'
<1> USE DEF EntryInv, Established, TypeOK
<1>1. CASE UNCHANGED sessionVars
  BY <1>1 DEF sessionVars
<1>2. ASSUME NEW s \in Sessions, Accept(s) PROVE EntryInv'
  BY <1>2 DEF Accept
<1>3. ASSUME NEW s \in Sessions, Handshake(s) PROVE EntryInv'
  BY <1>3, SessionsAssumption DEF Handshake, Establish
<1>4. ASSUME NEW s \in Sessions, AuthMessage(s) PROVE EntryInv'
  BY <1>4 DEF AuthMessage
<1>5. ASSUME NEW s \in Sessions, AuthResult(s) PROVE EntryInv'
  BY <1>5, SessionsAssumption DEF AuthResult, Establish
<1>6. ASSUME NEW s \in Sessions, EndSession(s) PROVE EntryInv'
  BY <1>6 DEF EndSession
<1>7. ASSUME NEW s \in Sessions, NEW passed \in SUBSET Calls, Subscribe(s, passed)
      PROVE  EntryInv'
  BY <1>7, SessionsAssumption DEF Subscribe
<1>8. CASE SessionStep
  BY <1>2, <1>3, <1>4, <1>5, <1>6, <1>7, <1>8 DEF SessionStep
<1>9. CASE SendStep \/ OtherStep
  BY <1>1, <1>9 DEF SendStep, OtherStep
<1>10. QED
  BY <1>1, <1>8, <1>9, StepCases, MultiplexKeepsSessions

\* do_multiplex writes to a session it finds established, or goes on with the
\* one it writes to.
LEMMA WritesToEstablished ==
  ASSUME TypeOK, Multiplex, mux' = "write"
  PROVE  ws' \in Established \/ (mux = "write" /\ ws' = ws)
<1> USE DEF TypeOK, MuxTypeOK
<1>1. ASSUME NextTask PROVE FALSE
  BY <1>1 DEF NextTask
<1>2. ASSUME NEW a, NEW c, BroadcastFrom(a, c) PROVE ws' \in Established
  BY <1>1, <1>2, RemainingAreSessions, MinOfSessions DEF BroadcastFrom, WriteTo
<1>3. ASSUME NEW a, UpdateFrom(a) PROVE ws' \in Established
  BY <1>1, <1>3 DEF UpdateFrom, WriteTo
<1>4. CASE HandleCall
  BY <1>1, <1>4, RemainingAreSessions, MinOfSessions DEF HandleCall, WriteTo
<1>5. CASE HandlePeriodic
  BY <1>3, <1>5 DEF HandlePeriodic
<1>6. CASE HandleClient
  BY <1>1, <1>6 DEF HandleClient, WriteTo, muxVars
<1>7. CASE BroadcastWritten
  BY <1>2, <1>7 DEF BroadcastWritten, muxVars
<1>8. CASE ListWritten
  BY <1>8 DEF ListWritten, WriteTo
<1>9. CASE ListEnds
  BY <1>1, <1>3, <1>9 DEF ListEnds, muxVars
<1>10. QED
  BY <1>4, <1>5, <1>6, <1>7, <1>8, <1>9 DEF Multiplex

\* With authentication configured a session is entered by AuthResult only.
LEMMA AuthStep ==
  ASSUME TypeOK, EntryInv, AuthInv, NeverThrown, [Next]_vars
  PROVE  AuthInv'
<1>1. UNCHANGED auth_configured
  BY StepCases
<1>2. SUFFICES ASSUME auth_configured
               PROVE  /\ Established' \subseteq authorised'
                      /\ mux' = "write" => ws' \in authorised'
  BY <1>1 DEF AuthInv
<1>3. /\ Established \subseteq authorised
      /\ mux = "write" => ws \in authorised
  BY <1>2 DEF AuthInv
<1>4. CASE SessionStep
  <2>1. authorised \subseteq authorised' /\ UNCHANGED <<mux, ws>>
    BY <1>4 DEF SessionStep, Accept, Handshake, AuthMessage, AuthResult, EndSession, Subscribe,
                muxVars
  <2>2. PICK s \in Sessions :
          \/ Accept(s) \/ Handshake(s) \/ AuthMessage(s) \/ AuthResult(s) \/ EndSession(s)
          \/ \E passed \in SUBSET Calls : Subscribe(s, passed)
    BY <1>4 DEF SessionStep
  <2>3. CASE Accept(s) \/ AuthMessage(s)
    BY <1>3, <2>1, <2>3 DEF Accept, AuthMessage, Established
  <2>4. CASE Handshake(s)
    BY <1>2, <1>3, <2>1, <2>4 DEF Handshake, Established
  <2>5. CASE AuthResult(s)
    BY <1>3, <2>1, <2>5 DEF AuthResult, Establish, Established, TypeOK
  <2>6. CASE EndSession(s)
    BY <1>3, <2>1, <2>6 DEF EndSession, Established, TypeOK
  <2>7. ASSUME NEW passed \in SUBSET Calls, Subscribe(s, passed)
        PROVE  Established' \subseteq authorised'
    <3>1. s \in Established
      BY <2>7 DEF Subscribe, EntryInv
    <3>2. QED
      BY <1>3, <2>1, <2>7, <3>1 DEF Subscribe, Established, TypeOK
  <2>8. QED
    BY <1>3, <2>1, <2>2, <2>3, <2>4, <2>5, <2>6, <2>7
<1>5. CASE SendStep
  BY <1>3, <1>5 DEF SendStep, TrySend, Send, sessionVars, Established, TypeOK, MuxTypeOK
<1>6. CASE OtherStep
  BY <1>3, <1>6 DEF OtherStep, sessionVars, muxVars, Established
<1>7. CASE Multiplex
  BY <1>3, <1>7, MultiplexKeepsSessions, WritesToEstablished DEF sessionVars, Established
<1>8. QED
  BY <1>4, <1>5, <1>6, <1>7, StepCases

\* A command is queued by a client that reads, and a client that has read once
\* reads on or has ended.
LEMMA QueueStep ==
  ASSUME TypeOK, QueueInv, NeverThrown, [Next]_vars
  PROVE  QueueInv'
<1> DEFINE Sent(m) == m.kind = "client" => pc[m.client] \in {"read", "ended"}
           Sent1(m) == m.kind = "client" => pc'[m.client] \in {"read", "ended"}
<1>1. /\ \A i \in 1 .. Len(channel) : Sent(channel[i])
      /\ mux # "waiting" => Sent(task)
  BY DEF QueueInv
<1>2. SUFFICES /\ \A i \in 1 .. Len(channel') : Sent1(channel'[i])
               /\ mux' # "waiting" => Sent1(task')
  BY DEF QueueInv
<1>3. ASSUME NEW m \in Messages, Sent(m), SessionStep PROVE Sent1(m)
  <2>1. CASE m.kind # "client"
    BY <2>1
  <2>2. CASE m.kind = "client"
    <3>1. m.client \in Sessions
      BY <2>2 DEF Messages
    <3>2. PICK s \in Sessions :
            \/ Accept(s) \/ Handshake(s) \/ AuthMessage(s) \/ AuthResult(s) \/ EndSession(s)
            \/ \E passed \in SUBSET Calls : Subscribe(s, passed)
      BY <1>3 DEF SessionStep
    <3>3. s # m.client => pc'[m.client] = pc[m.client]
      BY <3>1, <3>2 DEF Accept, Handshake, AuthMessage, AuthResult, EndSession, Subscribe,
                        Establish, TypeOK
    <3>4. s = m.client => pc'[m.client] \in {"read", "ended"}
      BY <1>3, <2>2, <3>2 DEF Accept, Handshake, AuthMessage, AuthResult, EndSession, Subscribe,
                              Establish, TypeOK
    <3>5. QED
      BY <1>3, <2>2, <3>3, <3>4
  <2>3. QED
    BY <2>1, <2>2
<1>4. CASE SessionStep
  <2>1. UNCHANGED <<channel, mux, task>>
    BY <1>4 DEF SessionStep, Accept, Handshake, AuthMessage, AuthResult, EndSession, Subscribe,
                muxVars
  <2>2. \A i \in 1 .. Len(channel) : channel[i] \in Messages
    BY DEF TypeOK, MuxTypeOK
  <2>3. mux # "waiting" => task \in Messages
    BY DEF TypeOK, MuxTypeOK
  <2>4. QED
    BY <1>1, <1>3, <1>4, <2>1, <2>2, <2>3
<1>5. CASE SendStep
  <2>1. PICK m \in Messages : TrySend(m) /\ Sent(m)
    BY <1>5 DEF SendStep
  <2>2. pc' = pc
    BY <1>5 DEF SendStep, sessionVars
  <2>3. CASE UNCHANGED <<channel, mux, task>>
    BY <1>1, <2>2, <2>3
  <2>4. CASE Send(m)
    <3>1. CASE mux = "waiting"
      BY <1>1, <2>1, <2>2, <2>4, <3>1 DEF Send
    <3>2. CASE mux # "waiting"
      <4>1. channel' = Append(channel, m) /\ UNCHANGED <<mux, task>>
        BY <2>4, <3>2 DEF Send
      <4>2. \A i \in 1 .. Len(channel') :
              channel'[i] = IF i <= Len(channel) THEN channel[i] ELSE m
        BY <4>1 DEF TypeOK, MuxTypeOK
      <4>3. \A i \in 1 .. Len(channel') : Sent1(channel'[i])
        <5>1. Len(channel) \in Nat
          BY DEF TypeOK, MuxTypeOK
        <5>2. QED
          BY <1>1, <2>1, <2>2, <4>1, <4>2, <5>1
      <4>4. QED
        BY <1>1, <2>2, <4>1, <4>3
    <3>3. QED
      BY <3>1, <3>2
  <2>5. QED
    BY <2>1, <2>3, <2>4 DEF TrySend
<1>6. CASE OtherStep
  BY <1>1, <1>6 DEF OtherStep, sessionVars, muxVars
<1>7. CASE Multiplex
  <2>1. pc' = pc
    BY <1>7, MultiplexKeepsSessions DEF sessionVars
  <2>2. mux # "waiting"
    BY <1>7 DEF Multiplex, HandleCall, HandlePeriodic, HandleClient, BroadcastWritten,
                ListWritten, ListEnds
  <2>3. UNCHANGED <<channel, task>> \/ NextTask
    BY <1>7 DEF Multiplex, HandleCall, HandlePeriodic, HandleClient, BroadcastWritten,
                ListWritten, ListEnds, BroadcastFrom, UpdateFrom, WriteTo, muxVars
  <2>4. CASE UNCHANGED <<channel, task>>
    BY <1>1, <2>1, <2>2, <2>4
  <2>5. CASE NextTask /\ channel = <<>>
    BY <1>1, <2>1, <2>5 DEF NextTask
  <2>6. CASE NextTask /\ channel # <<>>
    <3>1. task' = channel[1] /\ channel' = Tail(channel) /\ channel \in Seq(Messages)
      BY <2>6 DEF NextTask, TypeOK, MuxTypeOK
    <3>2. /\ 1 \in 1 .. Len(channel)
          /\ \A i \in 1 .. Len(channel') : i + 1 \in 1 .. Len(channel) /\ channel'[i] = channel[i + 1]
      BY <2>6, <3>1
    <3>3. QED
      BY <1>1, <2>1, <3>1, <3>2
  <2>7. QED
    BY <2>3, <2>4, <2>5, <2>6
<1>8. QED
  BY <1>4, <1>5, <1>6, <1>7, StepCases

\* established_sessions.at finds the client of every command it is called for.
LEMMA ThrownStep ==
  ASSUME TypeOK, EntryInv, QueueInv, NeverThrown, [Next]_vars
  PROVE  NeverThrown'
<1>1. CASE SessionStep \/ SendStep \/ OtherStep
  BY <1>1 DEF SessionStep, SendStep, OtherStep, NeverThrown, Accept, Handshake, AuthMessage,
              AuthResult, EndSession, Subscribe
<1>2. CASE HandleClient
  <2>1. task \in Messages /\ task.kind = "client" /\ pc[task.client] \in {"read", "ended"}
    BY <1>2 DEF HandleClient, QueueInv, TypeOK, MuxTypeOK
  <2>2. task.client \in Sessions
    BY <2>1 DEF Messages
  <2>3. Locks(task.client) => task.client \in Established
    BY <2>1, <2>2 DEF EntryInv, Locks
  <2>4. QED
    BY <1>2, <2>3 DEF HandleClient, NeverThrown
<1>3. CASE HandleCall \/ HandlePeriodic \/ BroadcastWritten \/ ListWritten \/ ListEnds
  BY <1>3 DEF NeverThrown, HandleCall, HandlePeriodic, BroadcastWritten, ListWritten, ListEnds
<1>4. QED
  BY <1>1, <1>2, <1>3, StepCases DEF Multiplex

\* What is ahead of address a and not the least address is ahead of that one.
LEMMA RemainingBeyondMin ==
  ASSUME NEW a, NEW c, NEW s \in Remaining(a, c), s # Min(Remaining(a, c))
  PROVE  s \in Remaining(Min(Remaining(a, c)), c)
<1>1. /\ Min(Remaining(a, c)) \in Sessions /\ s \in Sessions
      /\ Min(Remaining(a, c)) <= s
  BY RemainingAreSessions, MinOfSessions
<1>2. s > Min(Remaining(a, c))
  BY <1>1, SessionsAssumption DEF Sessions
<1>3. QED
  BY <1>2 DEF Remaining

\* Nobody a broadcast owes a message is passed over.
LEMMA BroadcastStep ==
  ASSUME TypeOK, EntryInv, BroadcastInv, NeverThrown, [Next]_vars
  PROVE  BroadcastInv'
<1>1. CASE SessionStep
  <2>1. PICK s \in Sessions :
          \/ Accept(s) \/ Handshake(s) \/ AuthMessage(s) \/ AuthResult(s) \/ EndSession(s)
          \/ \E passed \in SUBSET Calls : Subscribe(s, passed)
    BY <1>1 DEF SessionStep
  <2>2. UNCHANGED <<mux, task, ws, reached, torn>> /\ owed' \subseteq owed
    BY <2>1 DEF Accept, Handshake, AuthMessage, AuthResult, EndSession, Subscribe,
                muxVars, broadcastVars
  <2>3. ASSUME NEW t \in Sessions, t \in owed', t \in Established
        PROVE  established_sessions'[t] = established_sessions[t]
    BY <2>1, <2>3 DEF Accept, Handshake, AuthMessage, AuthResult, EndSession, Subscribe,
                      Establish, EntryInv, TypeOK
  <2>4. ASSUME NEW t \in Sessions, t \in owed', t \in Remaining(ws, task.call)
        PROVE  t \in Remaining(ws, task.call)'
    BY <2>2, <2>3, <2>4 DEF Remaining, Established, Passes
  <2>5. owed \subseteq Sessions
    BY DEF TypeOK
  <2>6. QED
    BY <2>2, <2>4, <2>5 DEF BroadcastInv
<1>2. CASE SendStep
  <2>1. UNCHANGED <<established_sessions, ws, owed, reached, torn>>
    BY <1>2 DEF SendStep, sessionVars, broadcastVars
  <2>2. UNCHANGED <<mux, task>> \/ (mux # "write" /\ mux' # "write")
    BY <1>2 DEF SendStep, TrySend, Send
  <2>3. QED
    BY <2>1, <2>2 DEF BroadcastInv, Remaining, Established, Passes
<1>3. CASE OtherStep
  BY <1>3 DEF OtherStep, sessionVars, muxVars, broadcastVars, BroadcastInv, Remaining,
              Established, Passes
<1>4. CASE Multiplex
  <2>1. UNCHANGED established_sessions
    BY <1>4, MultiplexKeepsSessions DEF sessionVars
  <2>2. ASSUME NextTask PROVE mux' # "write"
    BY <2>2 DEF NextTask
  <2>3. CASE HandleCall
    <3> DEFINE to == Remaining(0, task.call)
    <3>1. CASE NextTask /\ owed' = {}
      BY <2>2, <3>1 DEF BroadcastInv
    <3>2. CASE owed' = to /\ to = {} /\ NextTask
      BY <2>2, <3>2 DEF BroadcastInv
    <3>3. CASE owed' = to /\ WriteTo(Min(to), 0) /\ reached' = {Min(to)}
      <4>1. \A s \in owed' \ reached' : s \in Remaining(Min(to), task.call)
        BY <3>3, RemainingBeyondMin
      <4>2. mux' = "write" /\ ws' = Min(to) /\ task' = task /\ task.kind = "call"
        BY <2>3, <3>3 DEF WriteTo, HandleCall
      <4>3. \A s \in owed' \ reached' : s \in Remaining(ws, task.call)'
        BY <2>1, <4>1, <4>2 DEF Remaining, Established, Passes
      <4>4. QED
        BY <4>2, <4>3 DEF BroadcastInv
    <3>4. QED
      BY <2>3, <3>1, <3>2, <3>3 DEF HandleCall
  <2>4. CASE BroadcastWritten
    <3>1. CASE torn'
      BY <3>1 DEF BroadcastInv
    <3>2. CASE ~torn'
      <4>1. /\ ws \in Established /\ BroadcastFrom(ws, task.call) /\ ~torn
            /\ mux = "write" /\ task.kind = "call" /\ owed' = owed
        BY <2>4, <3>2 DEF BroadcastWritten
      <4> DEFINE to == Remaining(ws, task.call)
      <4>2. \A s \in owed \ reached : s \in to
        BY <4>1 DEF BroadcastInv
      <4>3. CASE to = {}
        BY <2>2, <4>1, <4>2, <4>3 DEF BroadcastInv, BroadcastFrom
      <4>4. CASE to # {}
        <5>1. reached' = reached \cup {Min(to)} /\ mux' = "write" /\ ws' = Min(to) /\ task' = task
          BY <4>1, <4>4 DEF BroadcastFrom, WriteTo
        <5>2. \A s \in owed' \ reached' : s \in Remaining(Min(to), task.call)
          BY <4>1, <4>2, <5>1, RemainingBeyondMin
        <5>3. \A s \in owed' \ reached' : s \in Remaining(ws, task.call)'
          BY <2>1, <5>1, <5>2 DEF Remaining, Established, Passes
        <5>4. QED
          BY <4>1, <5>1, <5>3 DEF BroadcastInv
      <4>5. QED
        BY <4>3, <4>4
    <3>3. QED
      BY <3>1, <3>2
  <2>5. CASE HandlePeriodic \/ HandleClient \/ ListWritten \/ ListEnds
    <3>1. UNCHANGED broadcastVars /\ task.kind # "call"
      BY <2>5 DEF HandlePeriodic, HandleClient, ListWritten, ListEnds
    <3>2. mux' # "write" \/ task' = task
      BY <2>5, <2>2 DEF HandlePeriodic, HandleClient, ListWritten, ListEnds, UpdateFrom, WriteTo,
                        muxVars
    <3>3. QED
      BY <3>1, <3>2 DEF BroadcastInv, broadcastVars
  <2>6. QED
    BY <1>4, <2>3, <2>4, <2>5 DEF Multiplex
<1>5. QED
  BY <1>1, <1>2, <1>3, <1>4, StepCases

----------------------------------------------------------------------------
(* Theorems *)

\* The invariant holds in every state the server can reach.
THEOREM Invariance == Spec => []Inv
<1>1. Init => Inv
  <2> SUFFICES ASSUME Init PROVE Inv
    OBVIOUS
  <2> USE SessionsAssumption DEF Init
  <2>1. TypeOK
    <3>1. MuxTypeOK
      BY DEF MuxTypeOK
    <3>2. 0 \in 0 .. MaxSnapshots
      OBVIOUS
    <3>3. QED
      BY <3>1, <3>2 DEF TypeOK
  <2>2. EntryInv /\ AuthInv
    BY DEF EntryInv, AuthInv, Established
  <2>3. QueueInv /\ BroadcastInv /\ NeverThrown
    BY DEF QueueInv, BroadcastInv, NeverThrown
  <2>4. QED
    BY <2>1, <2>2, <2>3 DEF Inv
<1>2. Inv /\ [Next]_vars => Inv'
  BY TypeStep, EntryStep, AuthStep, QueueStep, BroadcastStep, ThrownStep DEF Inv
<1>3. QED
  BY <1>1, <1>2, PTL DEF Spec

\* do_session, do_multiplex and the producers keep the types of their state.
THEOREM TypeCorrect == Spec => []TypeOK
<1>1. Inv => TypeOK
  BY DEF Inv
<1>2. QED
  BY <1>1, Invariance, PTL

\* With authentication configured, do_multiplex writes to clients only that
\* authenticate.sh has accepted.
THEOREM AuthorisedOnly == Spec => []OnlyAuthorisedClients
<1>1. Inv => OnlyAuthorisedClients
  BY SessionsAssumption DEF Inv, TypeOK, MuxTypeOK, AuthInv, OnlyAuthorisedClients
<1>2. QED
  BY <1>1, Invariance, PTL

\* established_sessions.at never throws in process_message(ClientMessage&).
THEOREM LookupsSucceed == Spec => []NeverThrown
<1>1. Inv => NeverThrown
  BY DEF Inv
<1>2. QED
  BY <1>1, Invariance, PTL

\* process_message(SipCall&) misses no client that stays, subscribed as it was,
\* while the loop over established_sessions is not torn.
THEOREM BroadcastsReachAll == Spec => []BroadcastReachesAll
<1>1. Inv => BroadcastReachesAll
  BY DEF Inv, BroadcastInv, BroadcastReachesAll
<1>2. QED
  BY <1>1, Invariance, PTL

============================================================================
