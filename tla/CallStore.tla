------------------------------ MODULE CallStore ------------------------------
(***************************************************************************)
(* The calls that sngrep keeps (src/sip.c, src/sip_call.c), the groups of  *)
(* calls that the interface works on (src/group.c) and the panels that     *)
(* show them (src/curses/ui_call_list.c, ui_call_flow.c, ui_call_raw.c).   *)
(*                                                                         *)
(* Capture threads parse packets and the interface draws and handles keys, *)
(* each under capture_lock; a packet is checked against the limit before   *)
(* the lock is taken, and a key is read between two locked sections.       *)
(*                                                                         *)
(* A call is known by its index, which the code never reuses.  call[o] is  *)
(* None before call o is created and after its memory has been freed: a    *)
(* pointer to o that the interface still holds then dangles.               *)
(***************************************************************************)
EXTENDS CallStates, Vectors, FiniteSetsExt

CONSTANTS
  CallIds,
  XCallId,           \* X-Call-ID of the messages of a Call-ID, or None
  Hidden,            \* Call-IDs that the display filter does not match
  Packets,           \* [reqresp, cseq, matches]: matches the -m expression
  Threads,           \* capture threads, one per source
  Limit,             \* calls.limit, capture_cfg.limit
  Options,           \* what the command line may ask for
  MaxCalls,          \* bound on the calls created
  MaxMsgs,           \* Call-ID -> bound on the messages of a call
  None

Objects  == 1 .. MaxCalls
Messages == [callid : CallIds, packet : Packets]

ASSUME StoreAssumption ==
  /\ XCallId \in [CallIds -> CallIds \cup {None}] /\ \A c \in CallIds : XCallId[c] # c
  /\ Hidden \subseteq CallIds
  /\ Packets \subseteq [reqresp : Nat, cseq : Nat, matches : BOOLEAN]
  /\ Limit \in Nat \ {0} /\ MaxCalls \in Nat /\ MaxMsgs \in [CallIds -> Nat]
  /\ Options \subseteq [rotate : BOOLEAN, only_calls : BOOLEAN, ignore_incomplete : BOOLEAN]
  /\ None \notin Objects \cup CallIds

VARIABLES
  options,    \* capture_cfg.rotate and options of calls, never changed
  call,       \* memory: index -> sip_call_t or None
  last_index, \* calls.last_index
  list,       \* calls.list
  managed,    \* calls.list has its sorter and its destroyer
  active,     \* calls.active
  callids,    \* calls.callids: Call-ID -> call or None
  sort,       \* calls.sort
  pending,    \* capture thread -> message past the limit check, or None
  panels,     \* panels above the call list: <<>>, flow, raw, or flow and raw
  group,      \* calls of the group that the topmost of them shows
  groupid,    \* its callid, in an extended flow
  selected,   \* calls of the call list's own group
  dcalls,     \* calls the list displays
  cursor,     \* the line of its cursor, 0 for none
  drawn       \* the interface has drawn and waits for a key

storeVars == <<last_index, list, managed, active, callids, sort>>
listVars  == <<selected, dcalls, cursor>>
panelVars == <<panels, group, groupid>>
vars == <<options, call, storeVars, pending, panelVars, listVars, drawn>>

CallRecords ==
  [callid : CallIds, msgs : Nat, invite : BOOLEAN, state : States,
   invitecseq : {0} \cup {p.cseq : p \in Packets}, locked : BOOLEAN, xcalls : Seq(Objects)]

ASSUME RecordAssumption == None \notin CallRecords

Init ==
  /\ options \in Options
  /\ call = [o \in Objects |-> None]
  /\ last_index = 0
  /\ list = <<>> /\ active = <<>> /\ managed = TRUE
  /\ callids = [c \in CallIds |-> None]
  /\ sort = [by |-> "index", asc |-> TRUE]
  /\ pending = [t \in Threads |-> None]
  /\ panels = <<>> /\ group = <<>> /\ groupid = None
  /\ selected = <<>> /\ dcalls = <<>> /\ cursor = 0
  /\ drawn = FALSE
-----------------------------------------------------------------------------
(* Sorting *)

Key(c, by, o) == IF by = "index" THEN o ELSE c[o].msgs

\* sip_list_sorter: o goes behind the last call it is strictly greater than
\* (less than, in descending order), or to the front.
Sorter(c, srt, seq, o) ==
  LET Before(p) == IF srt.asc THEN Key(c, srt.by, o) > Key(c, srt.by, p)
                              ELSE Key(c, srt.by, o) < Key(c, srt.by, p)
      behind == {i \in DOMAIN seq : Before(seq[i])}
  IN  InsertAt(seq, IF behind = {} THEN 1 ELSE Max(behind) + 1, o)

\* vector_append to calls.list
ListAppend(c, srt, seq, o) == IF managed THEN Sorter(c, srt, seq, o) ELSE Append(seq, o)
\* vector_clone of calls.list: the calls are appended one by one to a new
\* vector that has the old one's sorter.
Sorted(c, srt, seq) ==
  LET clone[i \in 0 .. Len(seq)] ==
        IF i = 0 THEN <<>> ELSE ListAppend(c, srt, clone[i - 1], seq[i])
  IN  clone[Len(seq)]

-----------------------------------------------------------------------------
(* The capture threads *)

\* parse_packet: with the limit reached and rotation off the packet is dropped.
Arrive(t, m) ==
  /\ pending[t] = None
  /\ options.rotate \/ Len(list) < Limit
  /\ pending' = [pending EXCEPT ![t] = m]
  /\ UNCHANGED <<call, storeVars, panelVars, listVars, drawn>>

\* sip_check_packet, for a message of a call that is not in the store
Skipped(p) ==
  \/ ~p.matches
  \/ options.only_calls /\ p.reqresp # INVITE
  \/ options.ignore_incomplete /\ p.reqresp > MESSAGE

ParseSkipped(t) ==
  /\ pending[t] # None
  /\ callids[pending[t].callid] = None
  /\ Skipped(pending[t].packet)
  /\ pending' = [pending EXCEPT ![t] = None]
  /\ UNCHANGED <<call, storeVars, panelVars, listVars, drawn>>

\* The call o of store c after message p: call_add_message, and
\* call_update_state if its first message is an INVITE.
WithMessage(c, o, p) ==
  LET r == c[o]
      invite == IF r.msgs = 0 THEN p.reqresp = INVITE ELSE r.invite
      added == [r EXCEPT !.msgs = @ + 1, !.invite = invite]
  IN  [c EXCEPT ![o] =
        IF invite THEN [added EXCEPT !.state = NextState(r.state, r.invitecseq, p),
                                     !.invitecseq = NextCseq(r.state, r.invitecseq, p)]
                  ELSE added]

\* The active list after a message of call o, whose new record is r.
UpdateActive(act, r, o) ==
  CASE ~r.invite                         -> act
    [] r.invite /\ IsActive(r.state)     -> IF Contains(act, o) THEN Append(act, o) ELSE act
    [] r.invite /\ ~IsActive(r.state)    -> RemoveFirst(act, o)

ParseKnown(t) ==
  /\ pending[t] # None
  /\ LET o == callids[pending[t].callid]
     IN  /\ o # None
         /\ call[o].msgs < MaxMsgs[call[o].callid]
         /\ call' = WithMessage(call, o, pending[t].packet)
         /\ active' = UpdateActive(active, call'[o], o)
  /\ pending' = [pending EXCEPT ![t] = None]
  /\ UNCHANGED <<last_index, list, managed, callids, sort, panelVars, listVars, drawn>>

\* sip_calls_rotate: the first call of the list that is not locked leaves the
\* store, when the list has exactly the limit's length.
Victim ==
  LET unlocked == {i \in DOMAIN list : ~call[list[i]].locked}
  IN  IF Len(list) # Limit \/ unlocked = {} THEN None ELSE list[Min(unlocked)]

ForgetCallId(ids, gone) == [c \in CallIds |-> IF ids[c] = gone THEN None ELSE ids[c]]

\* call_destroy, through the destroyer of calls.list if it still has one.
Freed(c, gone) == [o \in Objects |-> IF o \in gone /\ managed THEN None ELSE c[o]]

NewCall(callid) ==
  [callid |-> callid, msgs |-> 0, invite |-> FALSE, state |-> "none", invitecseq |-> 0,
   locked |-> FALSE, xcalls |-> <<>>]

\* call_add_xcall: the new call o joins the call its X-Call-ID names.
AddXcall(c, ids, callid, o) ==
  LET parent == IF XCallId[callid] = None THEN None ELSE ids[XCallId[callid]]
  IN  IF parent = None THEN c ELSE [c EXCEPT ![parent].xcalls = Append(@, o)]

ParseNew(t) ==
  LET m == pending[t]
      o == last_index + 1
      ids == [ForgetCallId(callids, Victim) EXCEPT ![m.callid] = o]
      kept == [Freed(call, {Victim}) EXCEPT ![o] = NewCall(m.callid)]
  IN  /\ m # None
      /\ callids[m.callid] = None
      /\ ~Skipped(m.packet)
      /\ last_index < MaxCalls
      /\ last_index' = o
      /\ callids' = ids
      /\ call' = WithMessage(AddXcall(kept, ids, m.callid, o), o, m.packet)
      /\ active' = UpdateActive(RemoveFirst(active, Victim), call'[o], o)
      /\ list' = ListAppend(call', sort, RemoveFirst(list, Victim), o)
      /\ pending' = [pending EXCEPT ![t] = None]
      /\ UNCHANGED <<managed, sort, panelVars, listVars, drawn>>
-----------------------------------------------------------------------------
(* Groups.  An operator takes and returns [mem, calls]: the calls' memory  *)
(* and the calls of the group.  What a write to freed memory does is left  *)
(* out: UiTouchesLiveCalls says whether one can happen.                    *)

SetLocked(mem, os, value) ==
  [o \in Objects |-> IF o \in os /\ mem[o] # None THEN [mem[o] EXCEPT !.locked = value]
                                                  ELSE mem[o]]

\* The calls of a group once those of os that it does not have are appended.
Joined(calls, os) ==
  LET join[i \in 0 .. Len(os)] ==
        IF i = 0 THEN calls
        ELSE IF Contains(join[i - 1], os[i]) THEN join[i - 1] ELSE Append(join[i - 1], os[i])
  IN  join[Len(os)]

\* call_group_add
GroupAdd(g, o) ==
  IF o = None \/ Contains(g.calls, o) THEN g
  ELSE [mem |-> SetLocked(g.mem, {o}, TRUE), calls |-> Append(g.calls, o)]

\* call_group_add_calls
GroupAddCalls(g, os) ==
  [mem |-> SetLocked(g.mem, Range(os), TRUE), calls |-> Joined(g.calls, os)]

\* call_group_del
GroupDel(g, o) == [mem |-> SetLocked(g.mem, {o}, FALSE), calls |-> RemoveFirst(g.calls, o)]

\* call_group_destroy: every call is taken out of the group.
GroupDestroy(mem, calls) == SetLocked(mem, Range(calls), FALSE)

\* The extended flow of call o: its parent and all the calls that name it, or
\* o's own if it has no X-Call-ID (the same code in both panels).
ExtendsTo(o) == IF XCallId[call[o].callid] = None THEN o ELSE callids[XCallId[call[o].callid]]

GroupExtended(g, o) ==
  LET root == ExtendsTo(o)
  IN  CASE root = None -> g
        [] root = o    -> GroupAddCalls(g, g.mem[o].xcalls)
        [] root \notin {None, o} ->
             GroupAddCalls(GroupAdd(GroupDel(g, o), root), g.mem[root].xcalls)

ExtendedId(o) == IF ExtendsTo(o) = None THEN None ELSE call[ExtendsTo(o)].callid
-----------------------------------------------------------------------------
(* The interface: ui_wait_for_input draws, waits for a key without the     *)
(* lock, and handles it.                                                   *)

Displayed(seq) == CopyIf(seq, {o \in Range(seq) : call[o].callid \notin Hidden})

\* The call under the cursor.  When calls were rotated out the cursor may be
\* behind the last line, on no call.
current == IF cursor \in DOMAIN dcalls THEN dcalls[cursor] ELSE None

vector_index(seq, o) ==
  LET places == {i \in DOMAIN seq : seq[i] = o} IN IF places = {} THEN 0 ELSE Min(places)

\* call_list_move: line by line as long as there is a line to go to.  From
\* further behind the last line there is none.
MoveTo(lines, to) ==
  IF to > cursor THEN Max({cursor, Min({to, Len(lines)})})
  ELSE IF cursor > Len(lines) + 1 THEN cursor
  ELSE Min({cursor, Max({to, 1})})

\* call_list_draw_list: the list is copied anew; the cursor goes to the line
\* of its call, or as far up as it can if the call is gone.  Where
\* autoscrolling would put it, Move may.
DrawList ==
  /\ panels = <<>>
  /\ dcalls' = Displayed(list)
  /\ cursor' = IF current # None THEN MoveTo(dcalls', vector_index(dcalls', current))
               ELSE IF cursor = 0 /\ dcalls' # <<>> THEN 1 ELSE cursor
  /\ drawn' = TRUE
  /\ UNCHANGED <<call, storeVars, pending, panelVars, selected>>

\* call_flow_draw; call_raw_draw, whose redraw may first find that the group
\* has changed and add the new calls of an extended flow (call_group_has_changed).
DrawPanel ==
  /\ panels # <<>>
  /\ \/ UNCHANGED <<call, group>>
     \/ /\ Last(panels) = "raw" /\ groupid # None
        /\ LET based == {o \in Range(group) : call[o] # None /\ call[o].callid = groupid}
               g == GroupAddCalls([mem |-> call, calls |-> group],
                                  IF based = {} THEN <<>> ELSE call[Min(based)].xcalls)
           IN  call' = g.mem /\ group' = g.calls
  /\ drawn' = TRUE
  /\ UNCHANGED <<storeVars, pending, panels, groupid, listVars>>

\* A key is handled once the panel has been drawn.
KeyPressed == drawn /\ drawn' = FALSE

Move ==
  /\ KeyPressed /\ panels = <<>>
  /\ \E to \in 0 .. Len(dcalls) + 1 : cursor' = MoveTo(dcalls, to)
  /\ UNCHANGED <<call, storeVars, pending, panelVars, selected, dcalls>>

\* ACTION_SELECT
Select ==
  /\ KeyPressed /\ panels = <<>>
  /\ LET g == [mem |-> call, calls |-> selected]
         h == IF Contains(selected, current) THEN GroupDel(g, current) ELSE GroupAdd(g, current)
     IN  call' = h.mem /\ selected' = h.calls
  /\ UNCHANGED <<storeVars, pending, panelVars, dcalls, cursor>>

\* ACTION_SHOW_FLOW and ACTION_SHOW_RAW: call_group_clone copies the selected
\* calls, or takes the one under the cursor.
Cloned ==
  LET g == [mem |-> call, calls |-> selected]
  IN  IF selected = <<>> THEN GroupAdd(g, current) ELSE g

Show(panel) ==
  /\ KeyPressed /\ panels = <<>> /\ cursor # 0
  /\ panels' = <<panel>>
  /\ call' = Cloned.mem /\ group' = Cloned.calls /\ groupid' = None
  /\ UNCHANGED <<storeVars, pending, listVars>>

\* ACTION_SHOW_FLOW_EX in the list, with the cursor on a call (without one the
\* code follows the null pointer)
ShowExtended ==
  /\ KeyPressed /\ panels = <<>> /\ current # None /\ call[current] # None
  /\ panels' = <<"flow">>
  /\ LET g == GroupExtended(Cloned, current)
     IN  call' = g.mem /\ group' = g.calls
  /\ groupid' = ExtendedId(current)
  /\ UNCHANGED <<storeVars, pending, listVars>>

\* ACTION_SHOW_FLOW_EX in the flow: to the extended flow of the only call, or
\* back to the first call alone.
ToggleExtended ==
  /\ KeyPressed /\ panels = <<"flow">> /\ group # <<>>
  /\ \/ /\ Len(group) = 1 /\ call[group[1]] # None
        /\ LET g == GroupExtended([mem |-> call, calls |-> group], group[1])
           IN  call' = g.mem /\ group' = g.calls
        /\ groupid' = IF ExtendsTo(group[1]) = None THEN groupid ELSE ExtendedId(group[1])
     \/ /\ Len(group) # 1
        /\ call' = SetLocked(call, {group[1]}, TRUE) /\ group' = <<group[1]>>
        /\ groupid' = None
  /\ UNCHANGED <<storeVars, pending, panels, listVars>>

\* ACTION_SHOW_RAW in the flow: the panel shows the flow's own group.
ShowFlowRaw ==
  /\ KeyPressed /\ panels = <<"flow">>
  /\ panels' = <<"flow", "raw">>
  /\ UNCHANGED <<call, storeVars, pending, group, groupid, listVars>>

\* The memory once the panels above the list are gone: call_flow_destroy
\* destroys its group, call_raw_destroy does not.
PanelsDestroyed == IF Contains(panels, "flow") THEN GroupDestroy(call, group) ELSE call

NoPanels == panels' = <<>> /\ group' = <<>> /\ groupid' = None

\* ACTION_PREV_SCREEN
ClosePanel ==
  /\ KeyPressed /\ panels # <<>>
  /\ \/ /\ Len(panels) = 2 /\ panels' = <<"flow">>
        /\ UNCHANGED <<call, group, groupid>>
     \/ /\ Len(panels) = 1 /\ NoPanels
        /\ call' = PanelsDestroyed
  /\ UNCHANGED <<storeVars, pending, listVars>>

\* ACTION_CLEAR: the selection is emptied and nothing unlocked.
ClearSelection ==
  /\ KeyPressed /\ panels = <<>>
  /\ selected' = <<>>
  /\ UNCHANGED <<call, storeVars, pending, panelVars, dcalls, cursor>>

\* Faulty variant: the calls are freed and stay selected.
ClearCallsKeepsSelection ==
  /\ KeyPressed /\ NoPanels
  /\ call' = Freed(PanelsDestroyed, Range(list))
  /\ callids' = [c \in CallIds |-> None]
  /\ list' = <<>> /\ active' = <<>>
  /\ cursor' = 0
  /\ UNCHANGED <<last_index, managed, sort, pending, selected, dcalls>>

\* sip_calls_clear and call_list_clear; the flow and the raw panel are closed
\* on the way to the list, which handles the key.
ClearCalls ==
  /\ KeyPressed /\ NoPanels
  /\ call' = Freed(PanelsDestroyed, Range(list))
  /\ callids' = [c \in CallIds |-> None]
  /\ list' = <<>> /\ active' = <<>>
  /\ selected' = <<>> /\ cursor' = 0
  /\ UNCHANGED <<last_index, managed, sort, pending, dcalls>>

\* Faulty variant: the hash table is not rebuilt.
HashOfStale(seq) == callids

\* The hash table rebuilt from a list of calls.
HashOf(seq) ==
  [c \in CallIds |-> LET named == {o \in Range(seq) : call[o].callid = c}
                     IN  IF named = {} THEN None ELSE Max(named)]

\* sip_calls_clear_soft and call_list_clear: vector_copy_if gives the new list
\* neither sorter nor destroyer, and the calls left out stay in memory.
ClearCallsSoft ==
  /\ KeyPressed /\ NoPanels
  /\ call' = PanelsDestroyed
  /\ list' = Displayed(list) /\ active' = Displayed(active)
  /\ managed' = FALSE
  /\ callids' = HashOf(list')
  /\ selected' = <<>> /\ cursor' = 0
  /\ UNCHANGED <<last_index, sort, pending, dcalls>>

\* sip_set_sort_options: the list is sorted anew.
SetSort(by, asc) ==
  /\ KeyPressed /\ panels = <<>>
  /\ sort' = [by |-> by, asc |-> asc]
  /\ sort' # sort
  /\ list' = Sorted(call, sort', list)
  /\ UNCHANGED <<call, last_index, managed, active, callids, pending, panelVars, listVars>>
-----------------------------------------------------------------------------

Next ==
  /\ UNCHANGED options
  /\ \/ \E t \in Threads :
          \/ \E m \in Messages : Arrive(t, m)
          \/ ParseSkipped(t) \/ ParseKnown(t) \/ ParseNew(t)
     \/ DrawList \/ DrawPanel
     \/ Move \/ Select \/ ClearSelection
     \/ \E panel \in {"flow", "raw"} : Show(panel)
     \/ ShowExtended \/ ToggleExtended \/ ShowFlowRaw \/ ClosePanel
     \/ ClearCalls \/ ClearCallsSoft
     \/ \E by \in {"index", "msgs"}, asc \in BOOLEAN : SetSort(by, asc)

Spec == Init /\ [][Next]_vars
-----------------------------------------------------------------------------

\* The hash table and the list hold the same calls, each under its own Call-ID,
\* none twice and none freed, however calls are rotated, cleared and sorted:
\* otherwise the next message of a call goes to freed memory or splits it.
HashMatchesList ==
  /\ IsInjective(list)
  /\ \A o \in Range(list) : call[o] # None
  /\ \A c \in CallIds : \A o \in Objects :
       callids[c] = o <=> (o \in Range(list) /\ call[o].callid = c)

\* The calls the interface works on in its next step.
Touched ==
  Range(selected) \cup Range(group)
    \cup (IF drawn /\ panels = <<>> /\ current # None THEN {current} ELSE {})
    \cup UNION {Range(call[o].xcalls) : o \in {p \in Range(list) : call[p] # None}}

\* Without rotation, no call in a group, under the cursor of a list that waits
\* for a key, or related to a stored call has been freed: the handlers of the
\* next key follow these pointers (ui_call_list.c:619-704, ui_call_flow.c:1152-1173).
UiTouchesLiveCalls == options.rotate \/ \A o \in Touched : call[o] # None

=============================================================================
