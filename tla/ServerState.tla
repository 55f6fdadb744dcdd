---------------------------- MODULE ServerState ----------------------------
(***************************************************************************)
(* The call registry of the web server (src/state.cpp), with the handlers  *)
(* of src/server.cpp that drive it.                                        *)
(*                                                                         *)
(* The registry joins two feeds on Call-ID: call snapshots taken from the  *)
(* sniffed SIP traffic (sip_calls) and records read from a class4 switch   *)
(* (class4_info), each of which pairs one egress leg with its ingress leg  *)
(* (egress_ingress_map).  Two backlogs remember when a leg, and when a     *)
(* whole classified call, was last heard of, and drive their expiry.       *)
(*                                                                         *)
(* Every handler of the server thread runs without yielding while it works *)
(* on the registry, so it is one action.  Two are split: the RTP path, on  *)
(* the capture thread without any lock, at its map lookup; and a new line  *)
(* of the switch at the blocking writes to the sessions, during which the  *)
(* clock and the capture thread go on and no other handler runs.           *)
(***************************************************************************)
EXTENDS Naturals, FiniteSets

CONSTANTS
  CallIds,              \* Call-IDs of legs (std::string keys of the maps)
  EmptyId,              \* the empty string, a legal map key
  None,                 \* "no entry"
  Dangling,             \* an iterator whose node has been erased
  Blank,                \* a class4_info entry with no fields
  CallStates,           \* values of call_state that occur
  SipFields,            \* from/to/ani/dnis/addresses of a snapshot
  Media,                \* RTP destination and codec of a snapshot (compared)
  Counts,               \* RTP packet and byte counters (not compared)
  Class4Fields,         \* valuations of the class4 fields of a leg
  Lines,                \* records [egress, ingress, fields] the switch prints
  SideFilters,          \* non-empty filters of one side: [class4, sip]
  Unset,                  \* a key that a filter does not mention
  NoFilter,             \* the empty filter
  UnclassifiedLifetime, \* server.unclassified.lifetime.seconds
  ClassifiedLifetime,   \* server.classified.lifetime.seconds
  TelnetLifetime,       \* 60*10 in cleanup_telnet_backlog
  MaxTime               \* bound on the clock

ASSUME ConstantsAssumption ==
  /\ EmptyId # None
  /\ None \notin CallIds /\ None \notin Nat
  /\ Dangling \notin CallIds /\ Dangling # None
  /\ Blank \notin Class4Fields /\ None \notin Class4Fields /\ Blank # None
  /\ CallStates \subseteq 1..7
  /\ Lines \subseteq [egress : CallIds, ingress : CallIds, fields : Class4Fields]
  /\ SideFilters \subseteq [class4 : Class4Fields \cup {Unset}, sip : SipFields \cup {Unset}]
  /\ NoFilter \notin SideFilters
  /\ {UnclassifiedLifetime, ClassifiedLifetime, TelnetLifetime, MaxTime} \subseteq Nat

ASSUME SnapshotAssumption ==
  None \notin [state : CallStates, ids : SipFields, media : Media, count : Counts]

VARIABLES
  now,                  \* time(NULL)
  sip_calls,            \* Call-ID -> snapshot
  class4_info,          \* Call-ID -> class4 fields
  egress_ingress_map,   \* egress Call-ID -> ingress Call-ID
  unclassified_backlog, \* Call-ID -> time the leg was last updated
  classified_backlog,   \* ingress Call-ID -> time the call was last updated
  telnet_backlog,       \* line -> time it was last received
  publishing,           \* the new line being broadcast, with its time of receipt
  last_published,       \* line -> its last publication: received when, sent when
  rtp_it,               \* the capture thread's iterator into sip_calls
  alive                 \* FALSE after log_and_exit or a crash

vars == <<now, sip_calls, class4_info, egress_ingress_map, unclassified_backlog,
          classified_backlog, telnet_backlog, publishing, last_published, rtp_it, alive>>

SipCall == [state : CallStates, ids : SipFields, media : Media, count : Counts]
Time    == 0 .. MaxTime
Filters == [ingress : SideFilters \cup {NoFilter}, egress : SideFilters \cup {NoFilter}]

\* No timestamp lies in the future; an iterator that is not dangling is valid.
TypeOK ==
  /\ now \in Time
  /\ sip_calls \in [CallIds -> SipCall \cup {None}]
  /\ class4_info \in [CallIds -> Class4Fields \cup {Blank, None}]
  /\ egress_ingress_map \in [CallIds -> CallIds \cup {None}]
  /\ unclassified_backlog \in [CallIds -> 0 .. now \cup {None}]
  /\ classified_backlog \in [CallIds -> 0 .. now \cup {None}]
  /\ telnet_backlog \in [Lines -> 0 .. now \cup {None}]
  /\ publishing \in [line : Lines, received : 0 .. now] \cup {None}
  /\ last_published \in [Lines -> [received : 0 .. now, sent : 0 .. now] \cup {None}]
  /\ rtp_it \in {c \in CallIds : sip_calls[c] # None} \cup {None, Dangling}
  /\ alive \in BOOLEAN

----------------------------------------------------------------------------
(* Lookups and the two cleanup procedures *)

\* The class4 pairing seen from an ingress leg: egress_ingress_map.right.
EgressLegs(map, i) == {e \in CallIds : map[e] = i}

\* A leg is ingress by itself, or the egress leg of some ingress, or neither.
FindIngressLeg(map, c) ==
  IF EgressLegs(map, c) # {} THEN c ELSE map[c]

\* Entries of a backlog that a cleanup at time t removes.
Expired(backlog, lifetime, t) ==
  {c \in DOMAIN backlog : backlog[c] # None /\ t - backlog[c] > lifetime}

Erase(f, gone) == [c \in DOMAIN f |-> IF c \in gone THEN None ELSE f[c]]

\* Faulty variant: the backlog entry goes, the data stay.
UnclassifiedKept(un, map, t) == {}

\* Expired legs that no class4 record has claimed lose their data.
UnclassifiedToErase(un, map, t) ==
  {c \in Expired(un, UnclassifiedLifetime, t) : FindIngressLeg(map, c) = None}

\* The classified cleanup works through the expired calls oldest first (rank),
\* and erases the backlog entry of every leg it cleans.  So an expired call is
\* worked on (done) unless it is itself an egress leg of one worked on before.
CleanupOrder(due, cl, map, rank, done) ==
  /\ \A i, j \in due : i # j => rank[i] # rank[j]
  /\ \A i, j \in due : cl[i] < cl[j] => rank[i] < rank[j]
  /\ \A i \in due :
       i \in done <=> ~(/\ map[i] \in done \ {i}
                        /\ rank[map[i]] < rank[i])

\* Both cleanups, run at time t on the registry a handler has just updated.
CleanupBacklogs(sc, ci, un, cl, map, t) ==
  LET stale == Expired(un, UnclassifiedLifetime, t)
      due   == Expired(cl, ClassifiedLifetime, t)
  IN \E done \in SUBSET due, rank \in [due -> 1 .. Cardinality(due)] :
       /\ CleanupOrder(due, cl, map, rank, done)
       /\ LET legs == done \cup {e \in CallIds : map[e] \in done}
              gone == legs \cup UnclassifiedToErase(un, map, t)
          IN /\ sip_calls' = Erase(sc, gone)
             /\ class4_info' = Erase(ci, gone)
             /\ unclassified_backlog' = Erase(un, stale \cup legs)
             /\ classified_backlog' = Erase(cl, legs)
             /\ rtp_it' = IF rtp_it \in gone THEN Dangling ELSE rtp_it

\* The clock may advance between a handler's updates and its cleanups, which
\* read it again.
ReadClockAgain == {now, now + 1} \cap Time

----------------------------------------------------------------------------
Init ==
  /\ now = 0
  /\ sip_calls = [c \in CallIds |-> None]
  /\ class4_info = [c \in CallIds |-> None]
  /\ egress_ingress_map = [c \in CallIds |-> None]
  /\ unclassified_backlog = [c \in CallIds |-> None]
  /\ classified_backlog = [c \in CallIds |-> None]
  /\ telnet_backlog = [l \in Lines |-> None]
  /\ publishing = None
  /\ last_published = [l \in Lines |-> None]
  /\ rtp_it = None
  /\ alive = TRUE

Tick ==
  /\ alive
  /\ now < MaxTime
  /\ now' = now + 1
  /\ UNCHANGED <<sip_calls, class4_info, egress_ingress_map, unclassified_backlog,
                 classified_backlog, telnet_backlog, publishing, last_published, rtp_it, alive>>

\* The server thread serves one handler at a time: none while a line is broadcast.
ServerThreadFree == alive /\ publishing = None

\* SipCall::operator== leaves the packet and byte counters out.
SameCall(a, b) ==
  /\ a # None
  /\ a.state = b.state
  /\ a.ids = b.ids
  /\ a.media = b.media

\* Faulty variant: the call of a classified leg is not refreshed.
UpdateForgetsCall(c, call) ==
  /\ ServerThreadFree
  /\ ~SameCall(sip_calls[c], call)
  /\ CleanupBacklogs([sip_calls EXCEPT ![c] = call], class4_info,
                     [unclassified_backlog EXCEPT ![c] = now],
                     classified_backlog, egress_ingress_map, now)
  /\ UNCHANGED <<now, egress_ingress_map, telnet_backlog, publishing, last_published, alive>>

\* A snapshot of call c arrives from the capture thread.
UpdateStateFromSngrep(c, call) ==
  LET i  == FindIngressLeg(egress_ingress_map, c)
      sc == [sip_calls EXCEPT ![c] = call]
      un == [unclassified_backlog EXCEPT ![c] = now]
      cl == IF i = None THEN classified_backlog
                        ELSE [classified_backlog EXCEPT ![i] = now]
  IN /\ ServerThreadFree
     /\ ~SameCall(sip_calls[c], call)
     /\ \E t \in ReadClockAgain :
          /\ now' = t
          /\ CleanupBacklogs(sc, class4_info, un, cl, egress_ingress_map, t)
     /\ UNCHANGED <<egress_ingress_map, telnet_backlog, publishing, last_published, alive>>

\* The duplicate filter: forget lines not heard of for ten minutes, then
\* record that this one was received now.
TelnetBacklogAfter(l) ==
  [Erase(telnet_backlog, Expired(telnet_backlog, TelnetLifetime, now)) EXCEPT ![l] = now]

\* Faulty variant: a line exactly ten minutes old is taken for a new one.
IsDuplicateStrict(l) ==
  telnet_backlog[l] # None /\ now - telnet_backlog[l] < TelnetLifetime

IsDuplicate(l) ==
  telnet_backlog[l] # None /\ l \notin Expired(telnet_backlog, TelnetLifetime, now)

\* bimap::insert keeps the pairing an egress leg already has.
InsertPair(l) ==
  IF egress_ingress_map[l.egress] = None
  THEN [egress_ingress_map EXCEPT ![l.egress] = l.ingress]
  ELSE egress_ingress_map

\* A line that was received in the last ten minutes is dropped.
DuplicateLine(l) ==
  /\ ServerThreadFree
  /\ IsDuplicate(l)
  /\ telnet_backlog' = TelnetBacklogAfter(l)
  /\ UNCHANGED <<now, sip_calls, class4_info, egress_ingress_map, unclassified_backlog,
                 classified_backlog, publishing, last_published, rtp_it, alive>>

\* A new line updates both legs and pairs them; then its broadcast begins.
NewLine(l) ==
  LET map == InsertPair(l)
      ci  == [class4_info EXCEPT ![l.egress] = l.fields, ![l.ingress] = l.fields]
      un  == [unclassified_backlog EXCEPT ![l.egress] = now, ![l.ingress] = now]
      cl  == [classified_backlog EXCEPT ![l.ingress] = now]
  IN /\ ServerThreadFree
     /\ ~IsDuplicate(l)
     /\ l.ingress # EmptyId
     /\ telnet_backlog' = TelnetBacklogAfter(l)
     /\ egress_ingress_map' = map
     /\ \E t \in ReadClockAgain :
          /\ now' = t
          /\ CleanupBacklogs(sip_calls, ci, un, cl, map, t)
     /\ publishing' = [line |-> l, received |-> now]
     /\ UNCHANGED <<last_published, alive>>

\* After the blocking writes to the sessions the AMQP events of the line's two
\* legs are published.
PublishLine ==
  /\ alive
  /\ publishing # None
  /\ last_published' = [last_published EXCEPT ![publishing.line] =
                      [received |-> publishing.received, sent |-> now]]
  /\ publishing' = None
  /\ UNCHANGED <<now, sip_calls, class4_info, egress_ingress_map, unclassified_backlog,
                 classified_backlog, telnet_backlog, rtp_it, alive>>

\* A line without an ingress Call-ID, or with the wrong number of fields, or
\* the end of the switch's output, ends the process.
BadLine ==
  /\ ServerThreadFree
  /\ alive' = FALSE
  /\ UNCHANGED <<now, sip_calls, class4_info, egress_ingress_map, unclassified_backlog,
                 classified_backlog, telnet_backlog, publishing, last_published, rtp_it>>

----------------------------------------------------------------------------
(* Filtering, which is not a pure query: class4_info[callId] inserts *)

IsCallSideFilteredOut(c, f) ==
  /\ f # NoFilter
  /\ \/ f.class4 # Unset /\ class4_info[c] \notin {None, Blank, f.class4}
     \/ sip_calls[c] = None
     \/ f.sip # Unset /\ sip_calls[c].ids # f.sip

IsCallFilteredOut(i, f) ==
  \/ IsCallSideFilteredOut(i, f.ingress)
  \/ \E e \in EgressLegs(egress_ingress_map, i) : IsCallSideFilteredOut(e, f.egress)

\* The sets of legs one evaluation may look up in class4_info: the ingress leg,
\* then egress legs (in an order left open) up to the first one filtered out.
LookedUp(i, f) ==
  LET legs == EgressLegs(egress_ingress_map, i)
      out  == {e \in legs : IsCallSideFilteredOut(e, f.egress)}
      ing  == IF f.ingress = NoFilter THEN {} ELSE {i}
  IN IF f.egress = NoFilter \/ IsCallSideFilteredOut(i, f.ingress) THEN {ing}
     ELSE IF out = {} THEN {ing \cup legs}
     ELSE {ing \cup {e} \cup kept : e \in out, kept \in SUBSET (legs \ out)}

\* One evaluation of is_call_filtered_out, for a broadcast to one session or
\* for one call of a list, stats or periodic update.  While a new line is
\* broadcast only the filters of the sessions are asked about its call.
CheckFilter(i, f) ==
  /\ alive
  /\ publishing # None => i = FindIngressLeg(egress_ingress_map, publishing.line.egress)
  /\ EgressLegs(egress_ingress_map, i) # {}
  /\ \E touched \in LookedUp(i, f) :
       class4_info' = [c \in CallIds |-> IF c \in touched /\ class4_info[c] = None
                                         THEN Blank ELSE class4_info[c]]
  /\ UNCHANGED <<now, sip_calls, egress_ingress_map, unclassified_backlog,
                 classified_backlog, telnet_backlog, publishing, last_published, rtp_it, alive>>

----------------------------------------------------------------------------
(* The RTP path of the capture thread: find, then write through the iterator *)

RtpFind(c) ==
  /\ alive
  /\ rtp_it = None
  /\ sip_calls[c] # None
  /\ rtp_it' = c
  /\ UNCHANGED <<now, sip_calls, class4_info, egress_ingress_map, unclassified_backlog,
                 classified_backlog, telnet_backlog, publishing, last_published, alive>>

RtpWrite(m, n) ==
  /\ alive
  /\ rtp_it \in CallIds
  /\ sip_calls' = [sip_calls EXCEPT ![rtp_it].media = m, ![rtp_it].count = n]
  /\ rtp_it' = None
  /\ UNCHANGED <<now, class4_info, egress_ingress_map, unclassified_backlog,
                 classified_backlog, telnet_backlog, publishing, last_published, alive>>

\* The server thread erased the node in between: the write goes to freed
\* memory, which is harmless or ends the process.
RtpWriteFreed ==
  /\ alive
  /\ rtp_it = Dangling
  /\ rtp_it' = None
  /\ alive' \in BOOLEAN
  /\ UNCHANGED <<now, sip_calls, class4_info, egress_ingress_map, unclassified_backlog,
                 classified_backlog, telnet_backlog, publishing, last_published>>

Exited == ~alive /\ UNCHANGED vars

Next ==
  \/ Tick
  \/ \E c \in CallIds, call \in SipCall : UpdateStateFromSngrep(c, call)
  \/ \E l \in Lines : DuplicateLine(l)
  \/ \E l \in Lines : NewLine(l)
  \/ PublishLine
  \/ BadLine
  \/ \E i \in CallIds, f \in Filters : CheckFilter(i, f)
  \/ \E c \in CallIds : RtpFind(c)
  \/ \E m \in Media, n \in Counts : RtpWrite(m, n)
  \/ RtpWriteFreed
  \/ Exited

Spec == Init /\ [][Next]_vars

----------------------------------------------------------------------------
(* Properties *)

\* The switch pairs each egress leg with one ingress leg, and no leg is used
\* on both sides.  The code does not check this; it relies on it.
WellFormedLines ==
  /\ \A k, l \in Lines : k.egress = l.egress => k.ingress = l.ingress
  /\ \A k, l \in Lines : k.egress # l.ingress

HasData(c) == sip_calls[c] # None \/ class4_info[c] # None

\* What remains of a call: the empty entry that class4_info[callId] of a filter
\* inserted for a leg of a pairing, the pairings being kept for good.
EmptyLeftover(c) ==
  /\ sip_calls[c] = None
  /\ class4_info[c] = Blank
  /\ FindIngressLeg(egress_ingress_map, c) # None

\* One of the two expiry procedures has leg c in its hands: by the leg's own
\* entry in the unclassified backlog, or by the classified backlog's entry of
\* the call the leg belongs to.
SubjectToCleanup(c) ==
  \/ unclassified_backlog[c] # None
  \/ /\ FindIngressLeg(egress_ingress_map, c) # None
     /\ classified_backlog[FindIngressLeg(egress_ingress_map, c)] # None

\* Nothing with content escapes expiry: whatever the registry stores about a
\* leg is subject to one of the two procedures (cleanup_unclassified_backlog
\* drops the entry of a classified leg and keeps its data, counting on the
\* other).  What does escape, for ever, is exactly the empty entry of a leg
\* that a filter looked up without its call being in the backlog.
DataTracked ==
  \A c \in CallIds : HasData(c) => SubjectToCleanup(c) \/ EmptyLeftover(c)

\* A classified call is never considered older than one of its legs: every
\* update of a classified leg refreshes the call, so cleanup_classified_backlog
\* cannot take away a leg that is still being heard of.
CallAsFreshAsItsLegs ==
  \A c \in CallIds :
    LET i == FindIngressLeg(egress_ingress_map, c)
    IN i # None /\ unclassified_backlog[c] # None =>
         classified_backlog[i] # None /\ unclassified_backlog[c] <= classified_backlog[i]

\* A snapshot is dropped only when its leg has not been updated for longer
\* than the shorter lifetime: a call that is being talked about is not lost.
FreshCallsKept ==
  [][\A c \in CallIds :
       sip_calls[c] # None /\ sip_calls'[c] = None =>
         \/ unclassified_backlog[c] = None
         \/ now' - unclassified_backlog[c] > UnclassifiedLifetime
         \/ now' - unclassified_backlog[c] > ClassifiedLifetime]_vars

\* The duplicate filter works, counted from receipt to receipt: two times that
\* one line was received and its AMQP events published are more than ten
\* minutes apart.  Each publication waits for the sessions, so two of them may
\* be closer, but by no more than what the first one waited.
NotPublishedTwice ==
  [][\A l \in Lines :
       last_published'[l] # last_published[l] /\ last_published[l] # None =>
         LET first == last_published[l]
             second == last_published'[l]
         IN /\ second.received - first.received > TelnetLifetime
            /\ second.sent - first.sent > TelnetLifetime - (first.sent - first.received)]_vars

=============================================================================
