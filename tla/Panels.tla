------------------------------- MODULE Panels -------------------------------
(***************************************************************************)
(* The screen: a stack of panels of which the topmost gets the keys        *)
(* (src/curses/ui_manager.c, ui_panel.c), the call list with its filter    *)
(* form and sorting menu (ui_call_list.c), the panels opened from it       *)
(* (ui_call_flow.c, ui_call_raw.c, ui_msg_diff.c, ui_filter.c, ui_save.c)  *)
(* and the display filters (src/filter.c).                                 *)
(*                                                                         *)
(* A panel is drawn, then a key is read, then the key is handled; keys and *)
(* the dialogs they open run with the capture locked, and packets arrive   *)
(* in between.  The field of a form that has the focus, and the line of a  *)
(* list the cursor is on, are the user's choice at every key.  What the    *)
(* arrows of the flow and the settings and columns panels do with their    *)
(* own keys is in CallFlow and Configuration, extended flows in CallStore. *)
(***************************************************************************)
EXTENDS KeyBindings, Vectors, FiniteSets

CONSTANTS
  Keys,          \* keys the user presses
  InitialCalls,  \* calls captured before: [id, method, msgs, rtp]
  Arrivals,      \* messages to come: [call, method, at, text]
  Frames,        \* packet -> the times of its frames, for packets that have not just one
  LineText(_, _), \* what the list shows of a call [id, method, msgs] in its columns
  Layouts,       \* the columns the user may choose for the list
  Methods,       \* methods the filter panel has a box for
  Matched,       \* expression -> the texts it matches; other expressions do not compile
  Texts,         \* what the user types in a filter: "" or an expression
  Names,         \* file names the user types, split at their dots
  Disk,          \* file -> what it holds at first
  ReadOnly,      \* files that cannot be written
  Unreadable,    \* files that cannot be read
  Setups,        \* [sources, rtp, exitprompt, columns]: sources of packets, settings
  NoInfo,        \* no data of a panel, or none of a kind
  MaxChanges     \* bound on the user's changes: selections, filters, sorting, fields, pauses, saves

\* Calls and messages, as far as the panels tell them apart
ASSUME CaptureAssumption ==
  /\ InitialCalls \in Seq([id : Nat, method : STRING, rtp : Seq(Nat),
                           msgs : Seq([at : Nat, text : STRING])])
  /\ Arrivals \in Seq([call : Nat, method : STRING, at : Nat, text : STRING])

TimesOf(c) == {m.at : m \in Range(c.msgs)}
Stored(c) == TimesOf(c) \cup Range(c.rtp)

\* A packet with one frame has its time for a name, another one a name of
\* its own: packets cut from one segment share the frames before the cut.
FramesOf(packet) == IF packet \in DOMAIN Frames THEN Frames[packet] ELSE <<packet>>

ASSUME FramesAssumption == \A p \in DOMAIN Frames : Frames[p] \in Seq(Nat) /\ Frames[p] # <<>>

\* A packet's time is that of its first frame.
packet_time(packet) == FramesOf(packet)[1]

\* A call has one id, and a packet one name.
ASSUME PacketsAssumption ==
  /\ \A i, j \in DOMAIN InitialCalls : i # j =>
       /\ InitialCalls[i].id # InitialCalls[j].id
       /\ Stored(InitialCalls[i]) \cap Stored(InitialCalls[j]) = {}
  /\ \A c \in Range(InitialCalls) : /\ IsInjective(c.rtp)
                                    /\ IsInjective([k \in DOMAIN c.msgs |-> c.msgs[k].at])
                                    /\ TimesOf(c) \cap Range(c.rtp) = {}
  /\ IsInjective([k \in DOMAIN Arrivals |-> Arrivals[k].at])
  /\ \A c \in Range(InitialCalls) : \A p \in Range(Arrivals) : p.at \notin Stored(c)

\* Where no source is named the default device is one.
ASSUME SetupsAssumption == \A s \in Setups : s.sources \in Nat \ {0}

VARIABLES
  setup,
  stack,    \* panels, bottom first; empty when the program ends
  info,     \* panel -> its data
  list,     \* call list: [form, menu, text, dcalls, group, columns]
  calls,    \* captured calls, [id, method, msgs, rtp, filtered, seen, columns]
  sort,     \* [by, asc]
  filters,  \* [list, payload, methods]
  paused, arrivals,
  dialog,   \* [kind], or [kind, selected, action] of one that asks
  disk, changes,
  drawn,    \* the panel was drawn since the last key
  user      \* whether the user asked for a pause last

screen == <<stack, info, list>>
store == <<calls, arrivals>>
vars == <<setup, screen, store, sort, filters, paused, dialog, disk, changes, drawn, user>>

Top == Last(stack)
IdsOf(cs) == {c.id : c \in Range(cs)}
CallOf(id) == CHOOSE c \in Range(calls) : c.id = id
CallsOf(group) == [i \in DOMAIN group |-> CallOf(group[i])]

NoDialog == [kind |-> "none"]
\* dialog_run, and ui_help: any key ends it
Inform(kind) == [kind |-> kind]
\* dialog_confirm: "Yes" is selected at first
Ask(kind) == [kind |-> kind, selected |-> 0, action |-> ERR]

-----------------------------------------------------------------------------
(* Display filters.                                                        *)

Matches(expr, text) == expr = "" \/ text \in Matched[expr]

\* An expression that does not compile leaves the filter as it was.
filter_set(old, expr) == IF expr = "" \/ expr \in DOMAIN Matched THEN expr ELSE old

\* The line of a call in a list with these columns
call_list_line_text(columns, c) ==
  LineText(columns, [id |-> c.id, method |-> c.method, msgs |-> c.msgs])

\* 0 when a call passes every filter, else 1.  With no method ticked the
\* filter is one blank, which no method holds.
Verdict(columns, c) ==
  IF /\ c.method \in filters.methods
     /\ filters.payload = "" \/ \E m \in Range(c.msgs) : Matches(filters.payload, m.text)
     /\ Matches(filters.list, call_list_line_text(columns, c))
  THEN 0 ELSE 1

\* The verdict on a call is computed once and kept until it is reset,
\* whatever messages it gets and columns the list has then.
filter_check_call(c) ==
  IF c.msgs = <<>> \/ c.filtered # -1 THEN c
  ELSE [c EXCEPT !.filtered = Verdict(list.columns, c), !.seen = Len(c.msgs),
                 !.columns = list.columns]

\* A call whose verdict is yet to be given
Unchecked(c) ==
  [id |-> c.id, method |-> c.method, msgs |-> c.msgs, rtp |-> c.rtp,
   filtered |-> -1, seen |-> 0, columns |-> <<>>]

Checked(cs) == [i \in DOMAIN cs |-> filter_check_call(cs[i])]
IsShown(c) == c.msgs # <<>> /\ c.filtered = 0
Displayed(cs) == CopyIf(Checked(cs), {c \in Range(Checked(cs)) : IsShown(c)})

filter_reset_calls(cs) == [i \in DOMAIN cs |-> Unchecked(cs[i])]

-----------------------------------------------------------------------------
(* Vectors kept sorted: a new item goes behind the last one it follows.    *)

Insert(seq, item, Follows(_, _)) ==
  LET before == {i \in DOMAIN seq : Follows(item, seq[i])}
  IN  InsertAt(seq, 1 + (IF before = {} THEN 0 ELSE CHOOSE i \in before : \A j \in before : j <= i), item)

SortKey(c, by) == IF by = "method" THEN IF c.method = "INVITE" THEN 1 ELSE 2 ELSE c.id

sip_list_sorter(cs, c, by, asc) ==
  Insert(cs, c, LAMBDA new, old : IF asc THEN SortKey(new, by) > SortKey(old, by)
                                         ELSE SortKey(new, by) < SortKey(old, by))

\* Cloning the list inserts the calls again, one after another.
sip_sort_list(by, asc) ==
  LET clone[i \in 0 .. Len(calls)] ==
        IF i = 0 THEN <<>> ELSE sip_list_sorter(clone[i - 1], calls[i], by, asc)
  IN  clone[Len(calls)]

\* Packets by the time of their first frame
capture_packet_time_sorter(packets, p) ==
  Insert(packets, p, LAMBDA new, old : packet_time(new) >= packet_time(old))

-----------------------------------------------------------------------------
(* The panels' keys.                                                       *)

Walks == [k \in Keys |-> WalkFrom(DefaultBindings, k, ERR)]

Fields == {ACTION_NEXT_FIELD, ACTION_PREV_FIELD, ACTION_RIGHT, ACTION_LEFT, ACTION_CLEAR,
           ACTION_SELECT, ACTION_CONFIRM}
ClearKeys == {ACTION_CLEAR_CALLS, ACTION_CLEAR_CALLS_SOFT}

\* The actions each handler knows
Handles ==
  [list |-> ClearKeys \cup
            {ACTION_DOWN, ACTION_UP, ACTION_DISP_FILTER, ACTION_SHOW_FLOW, ACTION_SHOW_RAW,
             ACTION_SHOW_FILTERS, ACTION_SHOW_COLUMNS, ACTION_SHOW_STATS, ACTION_SAVE, ACTION_CLEAR,
             ACTION_SHOW_SETTINGS, ACTION_SELECT, ACTION_SORT_NEXT, ACTION_PREV_SCREEN},
   form |-> {ACTION_PREV_SCREEN, ACTION_NEXT_FIELD, ACTION_CONFIRM, ACTION_SELECT, ACTION_UP,
             ACTION_DOWN, ACTION_RIGHT, ACTION_LEFT, ACTION_CLEAR},
   menu |-> {ACTION_DOWN, ACTION_UP, ACTION_CONFIRM, ACTION_SELECT, ACTION_PREV_SCREEN},
   flow |-> ClearKeys \cup {ACTION_DOWN, ACTION_UP, ACTION_SHOW_RAW, ACTION_SAVE, ACTION_SELECT,
                            ACTION_CLEAR, ACTION_CONFIRM, 21, 36, 41, 43, 46},
   raw |-> ClearKeys \cup {ACTION_DOWN, ACTION_UP, ACTION_SAVE, ACTION_TOGGLE_SYNTAX},
   filter |-> Fields, save |-> Fields,
   settings |-> Fields \cup {ACTION_UP, ACTION_DOWN},
   columns |-> Fields \cup {ACTION_UP, ACTION_DOWN},
   stats |-> {}, diff |-> {},
   default |-> {ACTION_TOGGLE_SYNTAX, ACTION_TOGGLE_HINT, ACTION_SHOW_SETTINGS,
                ACTION_TOGGLE_PAUSE, ACTION_SHOW_HELP, ACTION_PREV_SCREEN},
   confirm |-> {ACTION_RIGHT, ACTION_LEFT, ACTION_NEXT_FIELD, ACTION_SELECT, ACTION_CONFIRM,
                ACTION_PREV_SCREEN}]

Handler == IF Top # "list" THEN Top ELSE IF list.form THEN "form" ELSE IF list.menu THEN "menu" ELSE "list"

\* Whether the field that has the focus may be one to type in
Typing(handler) ==
  CASE handler \in {"filter", "save", "settings"} -> BOOLEAN
    [] handler = "form" -> {TRUE}
    [] OTHER -> {FALSE}

Questions == {"quit", "overwrite"}

\* What a handler does with a key: the first action of the key it knows
FirstActions ==
  [handler \in DOMAIN Handles |-> [key \in Keys |-> [typing \in BOOLEAN |->
     LET known == Handles[handler] \cup (IF typing THEN {ACTION_PRINTABLE} ELSE {})
         met == SelectSeq(Walks[key], LAMBDA a : a \in known)
     IN  IF met = <<>> THEN ERR ELSE met[1]]]]
Action(handler, key, typing) == FirstActions[handler][key][typing]

\* With the bindings of the table, a key that frees the calls in one of the
\* panels that show calls frees them in all three.
ASSUME ClearKeysAssumption ==
  \A key \in Keys : (\E panel \in {"list", "flow", "raw"} : Action(panel, key, FALSE) \in ClearKeys) =>
    \A panel \in {"list", "flow", "raw"} : Action(panel, key, FALSE) \in ClearKeys

\* The panels that compute something when they are drawn
Computing == {"list", "save"}

\* The topmost panel was drawn and waits for a key.
Ready == stack # <<>> /\ dialog = NoDialog /\ (Top \in Computing => drawn)

\* A key the topmost handler takes
Press(handler, key, typing, action) ==
  /\ Ready /\ Handler = handler
  /\ typing \in Typing(handler)
  /\ Action(handler, key, typing) = action
  /\ drawn' = FALSE
  /\ UNCHANGED <<setup, arrivals>>

Change == changes < MaxChanges /\ changes' = changes + 1

Open(panel, data) ==
  /\ stack' = Append(stack, panel)
  /\ info' = [info EXCEPT ![panel] = data]

\* ui_destroy, and what the panel's destructor does to the capture
Close ==
  /\ stack' = Front(stack)
  /\ info' = [info EXCEPT ![Top] = NoInfo]

\* A destructor that leaves the capture as the panel put it.
PausedOnClose == paused

\* Only the save panel pauses the capture; closing it resumes it in any case.
PausedAfterClose == IF Top = "save" THEN FALSE ELSE paused

-----------------------------------------------------------------------------
(* Drawing, and packets.                                                   *)

\* The name of the file decides the format before every key.
FormatOf(s) ==
  IF "pcap" \in Range(s.name) THEN IF setup.rtp THEN "pcap_rtp" ELSE "pcap"
  ELSE IF "txt" \in Range(s.name) THEN "txt" ELSE s.format

Draw ==
  /\ stack # <<>> /\ dialog = NoDialog /\ Top \in Computing
  /\ drawn' = TRUE
  /\ calls' = Checked(calls)
  /\ list' = IF Top # "list" THEN list
             ELSE LET shown == Displayed(calls)
                  IN  [list EXCEPT !.dcalls = [i \in DOMAIN shown |-> shown[i].id]]
  /\ info' = IF Top = "save" THEN [info EXCEPT !["save"].format = FormatOf(info["save"])] ELSE info
  /\ UNCHANGED <<setup, stack, arrivals, sort, filters, changes, paused, dialog, disk, user>>

NewCall(p) == Unchecked([id |-> p.call, method |-> p.method, msgs |-> <<>>, rtp |-> <<>>])
WithMsg(c, p) == [c EXCEPT !.msgs = Append(@, [at |-> p.at, text |-> p.text])]

\* A message comes, and is ignored while the capture is paused.
Packet ==
  /\ stack # <<>> /\ dialog = NoDialog
  /\ arrivals # <<>>
  /\ arrivals' = Tail(arrivals)
  /\ LET p == Head(arrivals)
     IN  calls' = IF paused THEN calls
                  ELSE IF p.call \in IdsOf(calls)
                    THEN [i \in DOMAIN calls |-> IF calls[i].id = p.call THEN WithMsg(calls[i], p) ELSE calls[i]]
                  ELSE sip_list_sorter(calls, WithMsg(NewCall(p), p), sort.by, sort.asc)
  /\ UNCHANGED <<setup, screen, sort, filters, changes, paused, dialog, disk, drawn, user>>

-----------------------------------------------------------------------------
(* The call list.                                                          *)

call_list_clear(l) == [l EXCEPT !.group = <<>>]

call_flow_set_group(group) == [group |-> group, selected |-> NoInfo]

\* The raw panel shows a group or one message, never both.
call_raw_set_group(group) == [group |-> group, msg |-> NoInfo]
call_raw_set_msg(m) == [group |-> NoInfo, msg |-> m]

msg_diff_set_msgs(one, two) == [one |-> one, two |-> two]

\* Flow and raw panel get a copy of the selected calls, or the current call.
ListShow(key, action, panel) ==
  /\ Press("list", key, FALSE, action)
  /\ list.dcalls # <<>>
  /\ \E c \in Range(list.dcalls) :
       LET group == IF list.group = <<>> THEN <<c>> ELSE list.group
       IN  Open(panel, IF panel = "flow" THEN call_flow_set_group(group) ELSE call_raw_set_group(group))
  /\ UNCHANGED <<list, calls, sort, filters, changes, paused, dialog, disk, user>>

\* filter_create: the boxes show the filters in force.
filter_create == [payload |-> filters.payload, methods |-> filters.methods]

FilterOpen(key) ==
  /\ Press("list", key, FALSE, ACTION_SHOW_FILTERS)
  /\ Open("filter", filter_create)
  /\ UNCHANGED <<list, calls, sort, filters, changes, paused, dialog, disk, user>>

ListOpen(key, action, panel) ==
  /\ Press("list", key, FALSE, action)
  /\ Open(panel, NoInfo)
  /\ UNCHANGED <<list, calls, sort, filters, changes, paused, dialog, disk, user>>

ListSelect(key) ==
  /\ Press("list", key, FALSE, ACTION_SELECT)
  /\ \E c \in Range(list.dcalls) :
       list' = [list EXCEPT !.group = IF c \in Range(@) THEN RemoveFirst(@, c) ELSE Append(@, c)]
  /\ Change
  /\ UNCHANGED <<stack, info, calls, sort, filters, paused, dialog, disk, user>>

ListForm(key) ==
  /\ Press("list", key, FALSE, ACTION_DISP_FILTER)
  /\ list' = [list EXCEPT !.form = TRUE]
  /\ UNCHANGED <<stack, info, calls, sort, filters, changes, paused, dialog, disk, user>>

ListMenu(key) ==
  /\ Press("list", key, FALSE, ACTION_SORT_NEXT)
  /\ list' = [list EXCEPT !.menu = TRUE]
  /\ UNCHANGED <<stack, info, calls, sort, filters, changes, paused, dialog, disk, user>>

ListDeselect(key) ==
  /\ Press("list", key, FALSE, ACTION_CLEAR)
  /\ list' = [list EXCEPT !.group = <<>>]
  /\ UNCHANGED <<stack, info, calls, sort, filters, changes, paused, dialog, disk, user>>

ListQuit(key) ==
  /\ Press("list", key, FALSE, ACTION_PREV_SCREEN)
  /\ IF setup.exitprompt THEN dialog' = Ask("quit") /\ UNCHANGED <<stack, info>>
     ELSE Close /\ UNCHANGED dialog
  /\ UNCHANGED <<list, calls, sort, filters, changes, paused, disk, user>>

\* The list takes the key while the panels that passed it on stay.
HandlerStackKept(key) == stack

\* The keys that clear the calls are propagated: flow and raw panel are
\* destroyed one after another until the list has the key.
Propagates(panel, key) == panel \in {"flow", "raw"} /\ Action(panel, key, FALSE) \in ClearKeys
HandlerStack(key) == CopyIf(stack, {panel \in Range(stack) : ~Propagates(panel, key)})

ClearCalls(key) ==
  /\ Ready
  /\ Handler \in {"list", "flow", "raw"} /\ Action(Handler, key, FALSE) \in ClearKeys
  /\ stack' = HandlerStack(key)
  /\ info' = [p \in DOMAIN info |-> IF p \in Range(stack') THEN info[p] ELSE NoInfo]
  /\ calls' = IF Action("list", key, FALSE) = ACTION_CLEAR_CALLS THEN <<>>
              ELSE Displayed(calls)
  /\ list' = call_list_clear(list)
  /\ drawn' = FALSE
  /\ UNCHANGED <<setup, arrivals, sort, filters, changes, paused, dialog, disk, user>>

\* The form under the list: text and filter change with every key.
FormKey(key, action) ==
  /\ Press("form", key, TRUE, action)
  /\ action # ERR
  /\ \E text \in IF action = ACTION_PRINTABLE THEN Texts ELSE IF action = ACTION_CLEAR THEN {""} ELSE {list.text} :
       LET edited == action \in {ACTION_PRINTABLE, ACTION_CLEAR}
           kept == IF edited THEN call_list_clear(list) ELSE list
       IN  /\ list' = [kept EXCEPT !.text = text,
                         !.form = action \in {ACTION_PRINTABLE, ACTION_CLEAR, ACTION_RIGHT, ACTION_LEFT}]
           /\ calls' = IF edited THEN filter_reset_calls(calls) ELSE calls
           /\ filters' = [filters EXCEPT !.list = filter_set(@, text)]
           /\ IF edited THEN Change ELSE UNCHANGED changes
  /\ UNCHANGED <<stack, info, sort, paused, dialog, disk, user>>

\* The sorting menu: the attribute it is sorted by already turns the order.
MenuKey(key, action) ==
  /\ Press("menu", key, FALSE, action)
  /\ action # ERR
  /\ \E by \in {"index", "method"} :
       LET picked == action \in {ACTION_CONFIRM, ACTION_SELECT}
           asc == IF sort.by = by THEN ~sort.asc ELSE sort.asc
       IN  /\ sort' = IF picked THEN [by |-> by, asc |-> asc] ELSE sort
           /\ calls' = IF picked THEN sip_sort_list(by, asc) ELSE calls
           /\ IF picked THEN Change ELSE UNCHANGED changes
  /\ list' = [list EXCEPT !.menu = action \in {ACTION_UP, ACTION_DOWN}]
  /\ UNCHANGED <<stack, info, filters, paused, dialog, disk, user>>

-----------------------------------------------------------------------------
(* Flow, raw and difference panel.                                         *)

MsgsIn(group) == UNION {TimesOf(CallOf(c)) : c \in Range(group)}

FlowRaw(key) ==
  /\ Press("flow", key, FALSE, ACTION_SHOW_RAW)
  /\ Open("raw", call_raw_set_group(info["flow"].group))
  /\ UNCHANGED <<list, calls, sort, filters, changes, paused, dialog, disk, user>>

FlowMessage(key) ==
  /\ Press("flow", key, FALSE, ACTION_CONFIRM)
  /\ \E m \in MsgsIn(info["flow"].group) : Open("raw", call_raw_set_msg(m))
  /\ UNCHANGED <<list, calls, sort, filters, changes, paused, dialog, disk, user>>

\* A second message selected is compared with the first; the same one again
\* is no longer selected.
FlowSelect(key) ==
  /\ Press("flow", key, FALSE, ACTION_SELECT)
  /\ \E m \in MsgsIn(info["flow"].group) :
       LET first == info["flow"].selected
       IN  IF first = NoInfo THEN info' = [info EXCEPT !["flow"].selected = m] /\ UNCHANGED stack
           ELSE IF first = m THEN info' = [info EXCEPT !["flow"].selected = NoInfo] /\ UNCHANGED stack
           ELSE Open("diff", msg_diff_set_msgs(first, m))
  /\ Change
  /\ UNCHANGED <<list, calls, sort, filters, paused, dialog, disk, user>>

FlowClear(key) ==
  /\ Press("flow", key, FALSE, ACTION_CLEAR)
  /\ info' = [info EXCEPT !["flow"].selected = NoInfo]
  /\ UNCHANGED <<stack, list, calls, sort, filters, changes, paused, dialog, disk, user>>

-----------------------------------------------------------------------------
(* The filter panel.                                                       *)

\* Options that are stored while calls keep the verdicts they had.
SaveOptionsOnly(f) ==
  /\ filters' = [filters EXCEPT !.payload = filter_set(@, f.payload), !.methods = f.methods]
  /\ calls' = calls
  /\ list' = call_list_clear(list)

filter_save_options(f) ==
  /\ filters' = [filters EXCEPT !.payload = filter_set(@, f.payload), !.methods = f.methods]
  /\ calls' = filter_reset_calls(calls)
  /\ list' = call_list_clear(list)

FilterEdit(key) ==
  /\ \/ /\ Press("filter", key, TRUE, ACTION_PRINTABLE)
        /\ \E text \in Texts : info' = [info EXCEPT !["filter"].payload = text]
     \/ /\ \E typing \in BOOLEAN : Press("filter", key, typing, ACTION_CLEAR)
        /\ \E field \in {"payload", "methods"} :
             info' = [info EXCEPT !["filter"][field] = IF field = "payload" THEN "" ELSE @]
     \/ /\ Press("filter", key, FALSE, ACTION_SELECT)
        /\ \E m \in Methods :
             info' = [info EXCEPT !["filter"].methods = IF m \in @ THEN @ \ {m} ELSE @ \cup {m}]
  /\ Change
  /\ UNCHANGED <<stack, list, calls, sort, filters, paused, dialog, disk, user>>

\* Enter anywhere but on "Cancel", or a blank on "Filter"
FilterConfirm(key) ==
  /\ \/ \E typing \in BOOLEAN : Press("filter", key, typing, ACTION_CONFIRM)
     \/ Press("filter", key, FALSE, ACTION_SELECT)
  /\ \/ filter_save_options(info["filter"])
     \/ UNCHANGED <<filters, calls, list>>
  /\ Close
  /\ UNCHANGED <<sort, changes, paused, dialog, disk, user>>

-----------------------------------------------------------------------------
(* The save panel.                                                         *)

IsPcap(format) == format \in {"pcap", "pcap_rtp"}

\* save_create, save_set_group and save_set_msg: the capture pauses, and the
\* statistics of the list, which check the calls, choose the mode.
OpenSave(group, msg) ==
  /\ paused' = TRUE
  /\ calls' = Checked(calls)
  /\ Open("save", [mode |-> IF group # <<>> THEN "selected"
                            ELSE IF Len(Displayed(calls)) = Len(calls) THEN "all" ELSE "displayed",
                   format |-> IF setup.rtp THEN "pcap_rtp" ELSE "pcap",
                   name |-> <<>>, group |-> group, msg |-> msg])

\* A panel that saves whatever the sources are
SavesAnySource == TRUE

\* A pcap file is written with the handle of the one source.
CanSave == setup.sources <= 1

Refuse == dialog' = Inform("refused") /\ UNCHANGED <<stack, info, calls, paused>>

ListSave(key) ==
  /\ Press("list", key, FALSE, ACTION_SAVE)
  /\ IF CanSave THEN OpenSave(list.group, NoInfo) /\ UNCHANGED dialog ELSE Refuse
  /\ UNCHANGED <<list, sort, filters, changes, disk, user>>

FlowSave(key) ==
  /\ Press("flow", key, FALSE, ACTION_SAVE)
  /\ IF CanSave
       THEN (\E m \in MsgsIn(info["flow"].group) : OpenSave(info["flow"].group, m)) /\ UNCHANGED dialog
       ELSE Refuse
  /\ UNCHANGED <<list, sort, filters, changes, disk, user>>

\* A raw panel that shows one message has no group to save.
RawSave(key) ==
  /\ Press("raw", key, FALSE, ACTION_SAVE)
  /\ IF ~CanSave THEN Refuse
     ELSE info["raw"].group # NoInfo /\ OpenSave(info["raw"].group, NoInfo) /\ UNCHANGED dialog
  /\ UNCHANGED <<list, sort, filters, changes, disk, user>>

\* "current SIP message" can be chosen where there is one, RTP where it is
\* captured.
Modes == {"all", "selected", "displayed"} \cup (IF info["save"].msg = NoInfo THEN {} ELSE {"message"})
Formats == {"pcap", "txt"} \cup (IF setup.rtp THEN {"pcap_rtp"} ELSE {})

SaveEdit(key) ==
  /\ \/ /\ Press("save", key, TRUE, ACTION_PRINTABLE)
        /\ \E name \in Names : info' = [info EXCEPT !["save"].name = name]
     \/ /\ Press("save", key, FALSE, ACTION_SELECT)
        /\ \/ \E mode \in Modes : info' = [info EXCEPT !["save"].mode = mode]
           \/ \E format \in Formats : info' = [info EXCEPT !["save"].format = format]
     \/ /\ Press("save", key, TRUE, ACTION_CLEAR)
        /\ info' = [info EXCEPT !["save"].name = <<>>]
  /\ Change
  /\ UNCHANGED <<stack, list, calls, sort, filters, paused, dialog, disk, user>>

\* The name gets the format's extension unless it holds it.
FileOf(s) ==
  LET ext == IF IsPcap(s.format) THEN "pcap" ELSE "txt"
  IN  IF ext \in Range(s.name) THEN s.name ELSE Append(s.name, ext)

SavedCalls(s) ==
  CASE s.mode = "all" -> calls
    [] s.mode = "selected" -> CallsOf(s.group)
    [] s.mode = "displayed" -> Displayed(calls)
    [] s.mode = "message" -> <<>>

Sorted(packets) ==
  LET sorted[i \in 0 .. Len(packets)] ==
        IF i = 0 THEN <<>> ELSE capture_packet_time_sorter(sorted[i - 1], packets[i])
  IN  sorted[Len(packets)]

\* The frames of a packet are written together.
dump_packet(p) == [k \in DOMAIN FramesOf(p) |-> [packet |-> p, at |-> FramesOf(p)[k]]]
dump(packets) == FlattenSeq([i \in DOMAIN packets |-> dump_packet(packets[i])])

\* What the loops of save_to_file write: messages, or frames in a pcap file
Written(s) ==
  LET Times(c) == [i \in DOMAIN c.msgs |-> c.msgs[i].at]
      Packets(c) == Times(c) \o (IF s.format = "pcap_rtp" THEN c.rtp ELSE <<>>)
      all == FlattenSeq([i \in DOMAIN SavedCalls(s) |-> Packets(SavedCalls(s)[i])])
      messages == IF s.mode = "message" THEN <<s.msg>> ELSE all
  IN  IF ~IsPcap(s.format) THEN messages
      ELSE dump(IF s.mode = "message" THEN messages ELSE Sorted(all))

WithFile(file, content) == [f \in DOMAIN disk \cup {file} |-> IF f = file THEN content ELSE disk[f]]

\* save_to_file from the check of the selection on.  A dump of several
\* sources is not opened, and whether it was is told from the file alone.
SaveRest(s) ==
  LET file == FileOf(s)
      opened == file \notin ReadOnly /\ (IsPcap(s.format) => setup.sources = 1)
      there == file \notin ReadOnly /\ (opened \/ file \in DOMAIN disk)
      empty == s.mode = "selected" /\ MsgsIn(s.group) = {}
  IN  /\ disk' = IF ~empty /\ opened THEN WithFile(file, Written(s)) ELSE disk
      /\ dialog' = Inform(IF ~empty /\ there THEN "saved" ELSE "failed")
      /\ calls' = IF ~empty /\ there /\ s.mode = "displayed" THEN Checked(calls) ELSE calls

\* A file is there for the save panel when it can be read.
Found(file) == file \in DOMAIN disk /\ file \notin Unreadable

\* Whatever comes of it, the panel is destroyed when its dialogs are done.
SaveConfirm(key) ==
  /\ \E typing \in BOOLEAN : Press("save", key, typing, ACTION_CONFIRM)
  /\ LET s == info["save"]
     IN  IF s.name = <<>> THEN dialog' = Inform("failed") /\ UNCHANGED <<disk, calls>>
         ELSE IF Found(FileOf(s)) THEN dialog' = Ask("overwrite") /\ UNCHANGED <<disk, calls>>
         ELSE SaveRest(s)
  /\ Change
  /\ UNCHANGED <<stack, info, list, sort, filters, paused, user>>

SaveCancel(key) ==
  /\ Press("save", key, FALSE, ACTION_CONFIRM)
  /\ Close /\ paused' = PausedAfterClose
  /\ UNCHANGED <<list, calls, sort, filters, changes, dialog, disk, user>>

-----------------------------------------------------------------------------
(* Keys of the other panels, keys no panel takes, and dialogs.             *)

\* "Accept" or "Save" in the columns panel, or Enter on its menu: the list
\* has other columns, and each call the verdict it had.
ColumnsAccept(key) ==
  /\ \E action \in {ACTION_CONFIRM, ACTION_SELECT} : Press("columns", key, FALSE, action)
  /\ Close
  /\ \E columns \in Layouts : list' = [list EXCEPT !.columns = columns]
  /\ Change
  /\ UNCHANGED <<calls, sort, filters, paused, dialog, disk, user>>

\* What settings and columns panel do besides is in Configuration.
OwnKey(key) ==
  /\ \E action \in {ACTION_CONFIRM, ACTION_SELECT} : Press(Top, key, FALSE, action)
  /\ Close \/ UNCHANGED <<stack, info>>
  /\ UNCHANGED <<list, calls, sort, filters, changes, paused, dialog, disk, user>>

\* The panels with a help of their own
Helps == {"list", "flow"}

\* ui_default_handle_key, for what the panel's handler leaves
DefaultKey(key, action) ==
  /\ action # ERR
  /\ \E typing \in Typing(Handler) : Press(Handler, key, typing, ERR)
  /\ IF action = ACTION_PREV_SCREEN THEN Close /\ paused' = PausedAfterClose /\ UNCHANGED <<user, dialog, changes>>
     ELSE IF action = ACTION_TOGGLE_PAUSE
       THEN paused' = ~paused /\ user' = ~paused /\ Change /\ UNCHANGED <<stack, info, dialog>>
     ELSE IF action = ACTION_SHOW_SETTINGS /\ "settings" \notin Range(stack)
       THEN Open("settings", NoInfo) /\ UNCHANGED <<paused, user, dialog, changes>>
     ELSE IF action = ACTION_SHOW_HELP /\ Top \in Helps
       THEN dialog' = Inform("help") /\ UNCHANGED <<stack, info, paused, user, changes>>
     ELSE UNCHANGED <<stack, info, paused, user, dialog, changes>>
  /\ UNCHANGED <<list, calls, sort, filters, disk>>

\* Any key ends a message; a message about saving is the last of its panel.
Dismiss ==
  /\ dialog.kind \in {"help", "refused", "saved", "failed"}
  /\ dialog' = NoDialog
  /\ IF dialog.kind \in {"saved", "failed"} THEN Close /\ paused' = PausedAfterClose
     ELSE UNCHANGED <<stack, info, paused>>
  /\ UNCHANGED <<setup, list, store, sort, filters, changes, disk, drawn, user>>

\* A question that takes Escape for the first of its answers
EscapeIsFirst(action, selected) == IF action = ACTION_PREV_SCREEN THEN 0 ELSE selected

\* Which answer a key that ends a question gives, -1 for none of them
Answer(action, selected) == IF action = ACTION_PREV_SCREEN THEN -1 ELSE selected

\* The keys of a question.  The search for a key's action goes on from the
\* action of the key before, unless the wait for a key timed out meanwhile.
ConfirmActions ==
  [last \in Handles.confirm \cup {ERR} |-> [key \in Keys |-> FirstHandled(DefaultBindings, key, last, Handles.confirm)]]
ConfirmAction(key) == ConfirmActions[dialog.action][key]

ConfirmMove(key) ==
  /\ dialog.kind \in Questions
  /\ LET action == ConfirmAction(key)
     IN  /\ action \notin {ACTION_SELECT, ACTION_CONFIRM, ACTION_PREV_SCREEN}
         /\ dialog' = [dialog EXCEPT !.action = action,
                                     !.selected = IF action = ERR THEN @ ELSE 1 - @]
  /\ UNCHANGED <<setup, screen, store, sort, filters, changes, paused, disk, drawn, user>>

ConfirmTimeout ==
  /\ dialog.kind \in Questions
  /\ dialog' = [dialog EXCEPT !.action = ERR]
  /\ UNCHANGED <<setup, screen, store, sort, filters, changes, paused, disk, drawn, user>>

ConfirmAnswer(key) ==
  /\ dialog.kind \in Questions
  /\ LET action == ConfirmAction(key)
         yes == Answer(action, dialog.selected) = 0
     IN  /\ action \in {ACTION_SELECT, ACTION_CONFIRM, ACTION_PREV_SCREEN}
         /\ IF dialog.kind = "overwrite" /\ yes
              THEN SaveRest(info["save"]) /\ UNCHANGED <<stack, info, paused>>
            ELSE /\ dialog' = NoDialog
                 /\ IF dialog.kind = "overwrite" \/ yes THEN Close /\ paused' = PausedAfterClose
                    ELSE UNCHANGED <<stack, info, paused>>
                 /\ UNCHANGED <<disk, calls>>
  /\ UNCHANGED <<setup, list, arrivals, sort, filters, changes, drawn, user>>

-----------------------------------------------------------------------------
Init ==
  /\ setup \in Setups
  /\ stack = <<"list">>
  /\ info = [p \in {"list", "flow", "raw", "diff", "filter", "save", "settings", "columns", "stats"} |-> NoInfo]
  /\ list = [form |-> FALSE, menu |-> FALSE, text |-> "", dcalls |-> <<>>, group |-> <<>>,
             columns |-> setup.columns]
  /\ calls = [i \in DOMAIN InitialCalls |-> Unchecked(InitialCalls[i])]
  /\ sort = [by |-> "index", asc |-> TRUE]
  /\ filters = [list |-> "", payload |-> "", methods |-> Methods]
  /\ paused = FALSE /\ arrivals = Arrivals
  /\ dialog = NoDialog /\ disk = Disk /\ changes = 0
  /\ drawn = FALSE /\ user = FALSE

ListKey(key) ==
  \/ ListShow(key, ACTION_SHOW_FLOW, "flow")
  \/ ListShow(key, ACTION_SHOW_RAW, "raw")
  \/ ListOpen(key, ACTION_SHOW_COLUMNS, "columns")
  \/ ListOpen(key, ACTION_SHOW_STATS, "stats")
  \/ ListOpen(key, ACTION_SHOW_SETTINGS, "settings")
  \/ FilterOpen(key)
  \/ ListSelect(key)
  \/ ListForm(key) \/ ListMenu(key) \/ ListDeselect(key)
  \/ ListQuit(key)

\* The topmost handler gets the key; what it does not know goes to the
\* default one.
PanelKey(key) ==
  \/ Handler = "list" /\ (ListKey(key) \/ ListSave(key))
  \/ Handler \in {"list", "flow", "raw"} /\ ClearCalls(key)
  \/ Handler = "form" /\ FormKey(key, Action("form", key, TRUE))
  \/ Handler = "menu" /\ MenuKey(key, Action("menu", key, FALSE))
  \/ Handler = "flow" /\ (FlowRaw(key) \/ FlowMessage(key) \/ FlowSelect(key) \/ FlowClear(key) \/ FlowSave(key))
  \/ Handler = "raw" /\ RawSave(key)
  \/ Handler = "filter" /\ (FilterEdit(key) \/ FilterConfirm(key))
  \/ Handler = "save" /\ (SaveEdit(key) \/ SaveConfirm(key) \/ SaveCancel(key))
  \/ Handler = "columns" /\ ColumnsAccept(key)
  \/ Handler \in {"settings", "columns"} /\ OwnKey(key)
  \/ DefaultKey(key, Action("default", key, FALSE))

Next ==
  \/ Draw
  \/ Packet
  \/ Ready /\ \E key \in Keys : PanelKey(key)
  \/ Dismiss
  \/ dialog.kind \in Questions /\ \E key \in Keys : ConfirmMove(key) \/ ConfirmAnswer(key)
  \/ ConfirmTimeout

Spec == Init /\ [][Next]_vars

-----------------------------------------------------------------------------
(* Properties.                                                             *)

\* Every call and message a panel was given (group of flow, raw and save
\* panel, message of raw and save panel, messages compared, selection of the
\* list) is one the program still has: the keys that free calls end every
\* panel that holds some, however they are nested.
PanelsHoldLiveCalls ==
  LET times == UNION {TimesOf(c) : c \in Range(calls)}
      GroupLive(g) == g = NoInfo \/ Range(g) \subseteq IdsOf(calls)
      MsgLive(m) == m = NoInfo \/ m \in times
  IN  /\ GroupLive(list.group)
      /\ \A p \in {"flow", "raw", "save"} : info[p] # NoInfo => GroupLive(info[p].group)
      /\ info["flow"] # NoInfo => MsgLive(info["flow"].selected)
      /\ \A p \in {"raw", "save"} : info[p] # NoInfo => MsgLive(info[p].msg)
      /\ info["diff"] # NoInfo => MsgLive(info["diff"].one) /\ MsgLive(info["diff"].two)

\* The verdict kept for a call is the one the filters in force give on the
\* messages it had and the line it showed when it was checked, through every
\* way to change a filter (the form of the list, key by key and with texts
\* that do not compile, and the filter panel), packets in between and other
\* columns of the list.
VerdictsOfFilters ==
  \A c \in Range(calls) :
    c.filtered # -1 => c.filtered = Verdict(c.columns, [c EXCEPT !.msgs = SubSeq(@, 1, c.seen)])

\* When the save panel reports success, a text file holds each chosen message
\* once.  A pcap file holds the chosen messages (and, with RTP, the packets
\* of the streams) in the order of their first frames, each one once and with
\* all its frames together.
SavedAsReported ==
  dialog.kind = "saved" =>
    LET s == info["save"]
        file == FileOf(s)
        chosen == CASE s.mode = "all" -> Range(calls)
                    [] s.mode = "selected" -> {CallOf(c) : c \in Range(s.group)}
                    [] s.mode = "displayed" -> {c \in Range(calls) : IsShown(c)}
                    [] s.mode = "message" -> {}
        wanted == (UNION {TimesOf(c) \cup (IF s.format = "pcap_rtp" THEN Range(c.rtp) ELSE {}) : c \in chosen})
                  \cup (IF s.mode = "message" THEN {s.msg} ELSE {})
    IN  /\ file \in DOMAIN disk
        /\ \E packets \in [1 .. Cardinality(wanted) -> wanted] :
             /\ IsInjective(packets)
             /\ disk[file] = IF IsPcap(s.format) THEN dump(packets) ELSE packets
             /\ IsPcap(s.format) =>
                  \A i, j \in DOMAIN packets : i < j => packet_time(packets[i]) <= packet_time(packets[j])

\* Packets are ignored only because the user asked for it last, or because
\* the save panel is open: no way out of the panel leaves the capture paused
\* behind the user's back.
PausedForAReason == paused => user \/ "save" \in Range(stack)

\* "Yes" to the question whether to overwrite
SaysYes ==
  /\ dialog.kind = "overwrite" /\ dialog.selected = 0
  /\ \E key \in Keys : ConfirmAction(key) \in {ACTION_SELECT, ACTION_CONFIRM} /\ ConfirmAnswer(key)

\* A file that was there and can be read is changed only by a step that
\* answers "Yes", whatever keys came before.
OverwrittenWhenAsked ==
  [][\A f \in DOMAIN disk \ Unreadable : disk'[f] # disk[f] => SaysYes]_vars

=============================================================================
