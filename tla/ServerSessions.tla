--------------------------- MODULE ServerSessions ---------------------------
(***************************************************************************)
(* The coroutines of the web server (src/server.cpp).                      *)
(*                                                                         *)
(* One do_session per websocket, do_multiplex, do_periodic_update and      *)
(* do_active_call_processor share one thread and interleave only where     *)
(* they yield; the capture thread sends snapshots into sngrep_channel at   *)
(* any time.  do_multiplex writes to the clients while it iterates over    *)
(* established_sessions, and yields in every write.                        *)
(*                                                                         *)
(* The registry (module ServerState) appears only through its answers:     *)
(* which ingress calls it knows, whether a snapshot changed it, which      *)
(* calls are active.                                                       *)
(***************************************************************************)
EXTENDS Naturals, Sequences, FiniteSets, FiniteSetsExt

CONSTANTS
  NumSessions,   \* websockets that ever connect
  Calls,         \* ingress calls
  Capacity,      \* of sngrep_channel (100)
  MaxSnapshots,  \* bound on the snapshots the capture thread sends
  None

\* Websockets by address, the key of established_sessions.
Sessions == 1 .. NumSessions

ASSUME SessionsAssumption ==
  /\ NumSessions \in Nat
  /\ Capacity \in Nat \ {0}
  /\ MaxSnapshots \in Nat
  /\ IsFiniteSet(Calls)
  /\ None \notin Sessions /\ \A passed \in SUBSET Calls : passed # None

VARIABLES
  auth_configured,      \* server.auth.server is set (never changed)
  pc,                   \* where do_session(s) is
  authorised,           \* websockets that authenticate.sh has accepted
  established_sessions, \* websocket -> calls its filter lets through, or None
  channel,              \* sngrep_channel's buffer
  mux,                  \* do_multiplex: waiting, handle or write
  task,                 \* the message do_multiplex works on
  ws,                   \* the websocket it writes to; in a loop, the iterator
  todo,                 \* messages send_list_to_client still has to write
  calls,                \* ingress calls that the registry knows
  taken, handled,       \* snapshots sent and worked on
  owed, reached, torn,  \* of the last broadcast, see BroadcastReachesAll
  status                \* running, full, failed, thrown, crashed

sessionVars   == <<pc, authorised, established_sessions>>
muxVars       == <<mux, task, ws, todo, handled>>
broadcastVars == <<owed, reached, torn>>
vars == <<auth_configured, sessionVars, channel, muxVars, calls, taken, broadcastVars, status>>

Commands == {"list", "stats", "other"}
Messages ==
  [kind : {"call"}, call : Calls, n : 1 .. MaxSnapshots]
    \cup [kind : {"client"}, client : Sessions, command : Commands]
    \cup [kind : {"periodic"}]

Established == {s \in Sessions : established_sessions[s] # None}

\* The session of s passes a call unless its filter holds it back.
Passes(s, c) == established_sessions[s] # None /\ c \in established_sessions[s]

\* A weak_ptr locks while do_session still owns the websocket.
Locks(s) == pc[s] \notin {"idle", "ended"}

----------------------------------------------------------------------------
Init ==
  /\ auth_configured \in BOOLEAN
  /\ pc = [s \in Sessions |-> "idle"]
  /\ authorised = {}
  /\ established_sessions = [s \in Sessions |-> None]
  /\ channel = <<>>
  /\ mux = "waiting" /\ task = None /\ ws = None /\ todo = 0
  /\ calls = {}
  /\ taken = 0 /\ handled = 0
  /\ owed = {} /\ reached = {} /\ torn = FALSE
  /\ status = "running"

\* try_send hands the message to a waiting do_multiplex or buffers it.
HasRoom == mux = "waiting" \/ Len(channel) < Capacity

Send(m) ==
  IF mux = "waiting"
  THEN mux' = "handle" /\ task' = m /\ UNCHANGED channel
  ELSE channel' = Append(channel, m) /\ UNCHANGED <<mux, task>>

TrySend(m) == IF HasRoom THEN Send(m) ELSE UNCHANGED <<channel, mux, task>>

----------------------------------------------------------------------------
(* do_listen and do_session *)

Accept(s) ==
  /\ status = "running"
  /\ pc[s] = "idle"
  /\ pc' = [pc EXCEPT ![s] = "accept"]
  /\ UNCHANGED <<authorised, established_sessions, channel, muxVars, calls, taken,
                 broadcastVars, status>>

\* The session is entered with an empty filter, which lets every call through.
Establish(s) ==
  /\ pc' = [pc EXCEPT ![s] = "read"]
  /\ established_sessions' = [established_sessions EXCEPT ![s] = Calls]

\* The handshake fails, or authentication starts if it is configured.
Handshake(s) ==
  /\ status = "running"
  /\ pc[s] = "accept"
  /\ \/ /\ pc' = [pc EXCEPT ![s] = "ended"]
        /\ UNCHANGED established_sessions
     \/ /\ auth_configured
        /\ pc' = [pc EXCEPT ![s] = "auth"]
        /\ UNCHANGED established_sessions
     \/ ~auth_configured /\ Establish(s)
  /\ UNCHANGED <<authorised, channel, muxVars, calls, taken, broadcastVars, status>>

\* The first message is an auth command with a token, or the session ends.
AuthMessage(s) ==
  /\ status = "running"
  /\ pc[s] = "auth"
  /\ \E next \in {"execute", "ended"} : pc' = [pc EXCEPT ![s] = next]
  /\ UNCHANGED <<authorised, established_sessions, channel, muxVars, calls, taken,
                 broadcastVars, status>>

\* Faulty variant: the exit code of authenticate.sh is not looked at.
AuthResultIgnored(s) ==
  /\ status = "running"
  /\ pc[s] = "execute"
  /\ Establish(s)
  /\ authorised' \in {authorised, authorised \cup {s}}
  /\ UNCHANGED <<channel, muxVars, calls, taken, broadcastVars, status>>

\* authenticate.sh has run: exit code 0, another one, or it could not run.
AuthResult(s) ==
  /\ status = "running"
  /\ pc[s] = "execute"
  /\ \/ Establish(s) /\ authorised' = authorised \cup {s}
     \/ pc' = [pc EXCEPT ![s] = "ended"] /\ UNCHANGED <<authorised, established_sessions>>
  /\ UNCHANGED <<channel, muxVars, calls, taken, broadcastVars, status>>

\* subscribe replaces both sides of the filter.
Subscribe(s, passed) ==
  /\ status = "running"
  /\ pc[s] = "read"
  /\ established_sessions' = [established_sessions EXCEPT ![s] = passed]
  /\ owed' = owed \ {s}
  /\ UNCHANGED <<pc, authorised, channel, muxVars, calls, taken, reached, torn, status>>

\* Any other command is queued for do_multiplex, or dropped if there is no room.
Command(s, command) ==
  /\ status = "running"
  /\ pc[s] = "read"
  /\ TrySend([kind |-> "client", client |-> s, command |-> command])
  /\ UNCHANGED <<sessionVars, ws, todo, handled, calls, taken, broadcastVars, status>>

\* Faulty variant: the entry is erased, the coroutine (and its websocket) lives on.
EndSessionLingers(s) ==
  /\ status = "running"
  /\ pc[s] = "read"
  /\ established_sessions' = [established_sessions EXCEPT ![s] = None]
  /\ pc' = [pc EXCEPT ![s] = "accept"]
  /\ owed' = owed \ {s}
  /\ UNCHANGED <<authorised, channel, muxVars, calls, taken, reached, torn, status>>

\* Closed, a read error, an invalid message or a second auth: the entry is
\* erased and the coroutine ends, without yielding in between.
EndSession(s) ==
  /\ status = "running"
  /\ pc[s] = "read"
  /\ established_sessions' = [established_sessions EXCEPT ![s] = None]
  /\ pc' = [pc EXCEPT ![s] = "ended"]
  /\ owed' = owed \ {s}
  /\ UNCHANGED <<authorised, channel, muxVars, calls, taken, reached, torn, status>>

----------------------------------------------------------------------------
(* The other producers *)

\* The capture thread sends a snapshot; a full channel ends the process.
OnNewSipMessage(c) ==
  /\ status = "running"
  /\ taken < MaxSnapshots
  /\ IF HasRoom
     THEN /\ Send([kind |-> "call", call |-> c, n |-> taken + 1])
          /\ taken' = taken + 1
          /\ UNCHANGED status
     ELSE status' = "full" /\ UNCHANGED <<channel, mux, task, taken>>
  /\ UNCHANGED <<sessionVars, ws, todo, handled, calls, broadcastVars>>

PeriodicUpdate ==
  /\ status = "running"
  /\ TrySend([kind |-> "periodic"])
  /\ UNCHANGED <<sessionVars, ws, todo, handled, calls, taken, broadcastVars, status>>

\* do_active_call_processor learns of a call and writes to the sessions that
\* pass it, synchronously: no other coroutine runs in between.
Class4Line(c) ==
  /\ status = "running"
  /\ calls' = calls \cup {c}
  /\ UNCHANGED <<sessionVars, channel, muxVars, taken, broadcastVars, status>>

\* The switch's output ends, or writing to it throws.
CallProcessorFails ==
  /\ status = "running"
  /\ status' = "failed"
  /\ UNCHANGED <<sessionVars, channel, muxVars, calls, taken, broadcastVars>>

----------------------------------------------------------------------------
(* do_multiplex *)

\* Back to the top of the loop: take the next message, or wait for one.
NextTask ==
  /\ ws' = None /\ todo' = 0
  /\ handled' = handled + (IF task.kind = "call" THEN 1 ELSE 0)
  /\ IF channel = <<>>
     THEN mux' = "waiting" /\ task' = None /\ UNCHANGED channel
     ELSE mux' = "handle" /\ task' = Head(channel) /\ channel' = Tail(channel)

\* Yield in async_write to s, with n messages to write after this one.
WriteTo(s, n) ==
  /\ mux' = "write" /\ ws' = s /\ todo' = n
  /\ UNCHANGED <<task, channel, handled>>

\* The sessions a broadcast of call c still has to write to, beyond address a.
Remaining(a, c) == {s \in Established : s > a /\ Passes(s, c)}

\* Continue a broadcast beyond address a.
BroadcastFrom(a, c) ==
  IF Remaining(a, c) = {}
  THEN NextTask /\ UNCHANGED reached
  ELSE /\ WriteTo(Min(Remaining(a, c)), 0)
       /\ reached' = reached \cup {Min(Remaining(a, c))}

\* The messages a list for s may consist of: the calls it passes, or the active
\* ones among them.
ListSizes(s, onlyActive) ==
  LET all == Cardinality(established_sessions[s] \cap calls)
  IN IF onlyActive THEN 0 .. all ELSE {all}

\* Continue a periodic update beyond address a: the next session with a
\* non-empty list, if any, is written to.
UpdateFrom(a) ==
  \/ NextTask
  \/ \E s \in {t \in Established : t > a} : \E n \in ListSizes(s, TRUE) \ {0} :
       WriteTo(s, n - 1)

HandleCall ==
  /\ status = "running"
  /\ mux = "handle" /\ task.kind = "call"
  /\ torn' = FALSE
  /\ \/ NextTask /\ owed' = {} /\ reached' = {}       \* same, or not classified
     \/ /\ task.call \in calls
        /\ owed' = Remaining(0, task.call)
        /\ IF Remaining(0, task.call) = {}
           THEN NextTask /\ reached' = {}
           ELSE /\ WriteTo(Min(Remaining(0, task.call)), 0)
                /\ reached' = {Min(Remaining(0, task.call))}
  /\ UNCHANGED <<sessionVars, calls, taken, status>>

HandlePeriodic ==
  /\ status = "running"
  /\ mux = "handle" /\ task.kind = "periodic"
  /\ UpdateFrom(0)
  /\ UNCHANGED <<sessionVars, calls, taken, broadcastVars, status>>

\* A client that is gone gets nothing; established_sessions.at throws for one
\* that is not established.
HandleClient ==
  /\ status = "running"
  /\ mux = "handle" /\ task.kind = "client"
  /\ LET s == task.client IN
       IF ~Locks(s) \/ task.command = "other" THEN NextTask /\ UNCHANGED status
       ELSE IF s \notin Established THEN status' = "thrown" /\ UNCHANGED <<muxVars, channel>>
       ELSE /\ UNCHANGED status
            /\ IF task.command = "stats" THEN WriteTo(s, 0)
               ELSE \E n \in ListSizes(s, FALSE) :
                      IF n = 0 THEN NextTask ELSE WriteTo(s, n - 1)
  /\ UNCHANGED <<sessionVars, calls, taken, broadcastVars>>

\* Faulty variant: the broadcast is given up when a write fails.
BroadcastWrittenGivesUp ==
  /\ status = "running"
  /\ mux = "write" /\ task.kind = "call"
  /\ ws \in Established
  /\ BroadcastFrom(ws, task.call) \/ (NextTask /\ UNCHANGED reached)
  /\ UNCHANGED <<sessionVars, calls, taken, owed, torn, status>>

\* Faulty variant: the broadcast waits for a session that has ended.
BroadcastWrittenWaits ==
  /\ status = "running"
  /\ mux = "write" /\ task.kind = "call"
  /\ ws \in Established
  /\ BroadcastFrom(ws, task.call)
  /\ UNCHANGED <<sessionVars, calls, taken, owed, torn, status>>

\* The write has ended, well or not, and the loop goes on to the next session.
\* If the session was erased meanwhile the iterator dangles: the increment
\* crashes, or ends the loop, or arrives at any session.
BroadcastWritten ==
  /\ status = "running"
  /\ mux = "write" /\ task.kind = "call"
  /\ \/ /\ ws \in Established
        /\ BroadcastFrom(ws, task.call)
        /\ UNCHANGED <<torn, status>>
     \/ /\ ws \notin Established
        /\ torn' = TRUE
        /\ \/ status' = "crashed" /\ UNCHANGED <<muxVars, channel, reached>>
           \/ \E a \in 0 .. NumSessions : BroadcastFrom(a, task.call) /\ UNCHANGED status
  /\ UNCHANGED <<sessionVars, calls, taken, owed>>

\* send_list_to_client goes on with its list, or gives it up after an error.
ListWritten ==
  /\ status = "running"
  /\ mux = "write" /\ task.kind # "call"
  /\ todo > 0
  /\ WriteTo(ws, todo - 1)
  /\ UNCHANGED <<sessionVars, calls, taken, broadcastVars, status>>

ListEnds ==
  /\ status = "running"
  /\ mux = "write" /\ task.kind # "call"
  /\ \/ task.kind = "client" /\ NextTask /\ UNCHANGED status
     \/ task.kind = "periodic" /\ ws \in Established /\ UpdateFrom(ws) /\ UNCHANGED status
     \/ /\ task.kind = "periodic" /\ ws \notin Established
        /\ \/ status' = "crashed" /\ UNCHANGED <<muxVars, channel>>
           \/ \E a \in 0 .. NumSessions : UpdateFrom(a) /\ UNCHANGED status
  /\ UNCHANGED <<sessionVars, calls, taken, broadcastVars>>

Multiplex ==
  /\ UNCHANGED auth_configured
  /\ \/ HandleCall \/ HandlePeriodic \/ HandleClient
     \/ BroadcastWritten \/ ListWritten \/ ListEnds

Exited == status # "running" /\ UNCHANGED vars

Next ==
  /\ UNCHANGED auth_configured
  /\ \/ \E s \in Sessions :
          \/ Accept(s) \/ Handshake(s) \/ AuthMessage(s) \/ AuthResult(s) \/ EndSession(s)
          \/ \E passed \in SUBSET Calls : Subscribe(s, passed)
          \/ \E command \in Commands : Command(s, command)
     \/ \E c \in Calls : OnNewSipMessage(c) \/ Class4Line(c)
     \/ PeriodicUpdate \/ CallProcessorFails
     \/ Multiplex
     \/ Exited

Spec == Init /\ [][Next]_vars

\* The server thread resumes do_multiplex; a write to a dead peer ends when the
\* websocket's idle timeout (timeout::suggested) closes it.
FairSpec == Spec /\ WF_vars(Multiplex)

----------------------------------------------------------------------------
(* Properties *)

\* Every client the server writes to has passed authenticate.sh, if one is
\* configured: do_session enters a websocket into established_sessions only
\* after process_auth, and nothing writes to one that is not there.
OnlyAuthorisedClients ==
  auth_configured => (Established \cup ({ws} \ {None})) \subseteq authorised

\* established_sessions.at(client) never throws in do_multiplex: a weak_ptr from
\* a queued command locks only while its session is established, because the
\* erase and the release of the websocket happen without a yield in between.
NeverThrown == status # "thrown"

\* A broadcast reaches every client that was established and passed the call
\* from its beginning to its end, whoever else connects, disconnects or fails
\* meanwhile - unless the client being written to left, which tears the loop.
BroadcastReachesAll ==
  mux # "write" /\ ~torn => owed \subseteq reached

\* Every snapshot is worked on, however slow or dead the clients are.
EverySnapshotHandled ==
  \A n \in 1 .. MaxSnapshots : taken = n ~> handled >= n \/ status # "running"
=============================================================================
