------------------------------ MODULE CallFlow ------------------------------
(***************************************************************************)
(* The call flow panel (src/curses/ui_call_flow.c) over the dialogs of a   *)
(* call group (src/group.c): one column per address, one arrow per SIP     *)
(* message and per RTP stream, a cursor and a marked arrow.                *)
(*                                                                         *)
(* The capture thread adds messages and counts RTP packets between the     *)
(* draws; draws and keys hold the capture lock and are atomic.  Arrows and *)
(* columns are numbered from 1 here, and 0 stands for the code's -1 or     *)
(* NULL.                                                                   *)
(***************************************************************************)
EXTENDS Vectors, FiniteSetsExt

CONSTANTS
  Calls,        \* dialogs
  Parent,       \* [Calls -> Calls \cup {None}]: the X-Call-ID of a dialog
  None,
  Ips,          \* IP addresses
  Messages,     \* SIP messages: records [id, call, src, dst, medias]
  Groups,       \* the groups of dialogs a flow is opened for
  StreamList,   \* RTP streams in the order of their SDPs: records [msg, src, dst]
  StartSettings, \* the settings the rc file may begin with
  FlowHeight,   \* lines of the flow window
  ScrollStep,   \* setting cf.scrollstep
  Precedes(_, _), \* one message is sent only after another one
  TimesOf(_),   \* the packet times an item may have, from 1 on
  MaxToggles    \* bound on the changes of settings

Endpoints == [ip : Ips, port : Nat]
Streams == Range(StreamList)

ASSUME FlowAssumption ==
  /\ None \notin Calls \cup Streams
  /\ Parent \in [Calls -> Calls \cup {None}]
  /\ Messages \subseteq [id : Nat, call : Calls, src : Endpoints, dst : Endpoints, medias : Seq(Endpoints)]
  /\ StreamList \in Seq([msg : Messages, src : Endpoints, dst : Endpoints])
  /\ Groups \subseteq Seq(Calls)
  /\ FlowHeight \in Nat
  /\ \A item \in Messages \cup Streams : TimesOf(item) \subseteq Nat \ {0}
  /\ Messages \cap Streams = {}

VARIABLES
  list,      \* calls.list, in the order of their first messages
  msgs,      \* call->msgs
  streams,   \* call->streams, in the order of the SDPs
  time,      \* packet time of a message, first packet of a stream; 0: none
  active,    \* streams that received a packet in the last seconds
  setting,   \* the settings cf.media, cf.onlymedia, cf.sdpinfo, cf.splitcallid
  toggles,   \* number of changes to them
  group,     \* calls of the displayed group; <<>>: no flow panel
  callid,    \* group->callid: the call an extended flow is about
  sdpOnly,   \* group->sdp_only
  columns, arrows, cur, first, selected,
  drawn,     \* the panel was drawn since the last key
  status     \* "running", "hung" in a loop of a draw, "crashed" by one

captured == <<list, msgs, streams, time, active>>
panel == <<group, callid, sdpOnly, columns, arrows, cur, first, selected>>
settings == <<setting, toggles>>
vars == <<captured, settings, panel, drawn, status>>

Items == Messages \cup Streams
IsStream(item) == item \in Streams

\* The values of an enumerated setting in the order a toggle takes them.
Values ==
  [media     |-> <<"off", "on", "active">>,
   onlymedia |-> <<"on", "off">>,
   sdpinfo   |-> <<"off", "first", "full", "compressed">>,
   split     |-> <<"on", "off">>]

Toggled(k) ==
  LET i == CHOOSE j \in DOMAIN Values[k] : Values[k][j] = setting[k]
  IN  Values[k][(i % Len(Values[k])) + 1]

-----------------------------------------------------------------------------
(* Vectors sorted by time: a new item is appended and then moved behind    *)
(* the last one that is not later than itself.                             *)

SortedPlaceBeforeEqual(times, t) == Max({k \in DOMAIN times : times[k] < t} \cup {0}) + 1

SortedPlace(times, t) == Max({k \in DOMAIN times : times[k] <= t} \cup {0}) + 1

-----------------------------------------------------------------------------
(* Walks over a group.                                                     *)

HasSdp(m) == m.medias # <<>>

AllMsgs(calls) ==
  IF Len(calls) = 1 THEN msgs[calls[1]]
  ELSE LET all == FlattenSeq([i \in DOMAIN calls |-> msgs[calls[i]]])
           Later(seq, m) ==
             InsertAt(seq, SortedPlace([k \in DOMAIN seq |-> time[seq[k]]], time[m]), m)
           sorted[i \in 0..Len(all)] == IF i = 0 THEN <<>> ELSE Later(sorted[i - 1], all[i])
       IN  sorted[Len(all)]

\* The messages call_group_get_next_msg returns one after the other.
GroupMsgs(calls, only) == CopyIf(AllMsgs(calls), {m \in Messages : ~only \/ HasSdp(m)})

\* The items start, next[start], ... up to None, or n + 1 of them: a walk of
\* the code that asks for the item behind the last one until it is given none.
WalkOf(start, next, n) ==
  LET walk[i \in 0..n] ==
        IF i = 0 THEN start
        ELSE IF walk[i - 1] = None THEN None ELSE next[walk[i - 1]]
  IN  CopyIf([i \in 1..(n + 1) |-> walk[i - 1]], DOMAIN next)

\* The first call of the group, in the order they were added, whose first
\* message is not earlier than that of the given call.
GetNextCall(calls, c) ==
  LET later == {i \in DOMAIN calls : /\ calls[i] # c
                                     /\ time[msgs[calls[i]][1]] >= time[msgs[c][1]]}
  IN  IF later = {} THEN None ELSE calls[Min(later)]

CallWalk(calls, only) ==
  LET ms == GroupMsgs(calls, only)
  IN  WalkOf(IF ms = <<>> THEN None ELSE ms[1].call,
             [c \in Range(calls) |-> GetNextCall(calls, c)], Len(calls))

GroupStreams(calls) ==
  CopyIf(FlattenSeq([i \in DOMAIN calls |-> streams[calls[i]]]), {s \in Streams : time[s] # 0})

\* The candidate of the walk: not earlier than the stream given and not the
\* stream itself; the earliest of these, the last one of several.
GetNextStreamOrSelf(calls, s) ==
  LET all == GroupStreams(calls)
      later == {i \in DOMAIN all : s = None \/ time[all[i]] >= time[s]}
      earliest == {i \in later : \A j \in later : time[all[i]] <= time[all[j]]}
  IN  IF later = {} THEN None ELSE all[Max(earliest)]

GetNextStream(calls, s) ==
  LET all == GroupStreams(calls)
      later == {i \in DOMAIN all : s = None \/ (all[i] # s /\ time[all[i]] >= time[s])}
      earliest == {i \in later : \A j \in later : time[all[i]] <= time[all[j]]}
  IN  IF later = {} THEN None ELSE all[Max(earliest)]

StreamWalk(calls) ==
  LET all == GroupStreams(calls)
  IN  WalkOf(GetNextStream(calls, None), [s \in Range(all) |-> GetNextStream(calls, s)], Len(all))

\* A walk over n items that finds more than n never ends.
WalksEnd ==
  /\ setting.media = "off" \/ Len(CallWalk(group, sdpOnly)) <= Len(group)
  /\ Len(StreamWalk(group)) <= Len(GroupStreams(group))

-----------------------------------------------------------------------------
(* Columns.                                                                *)

AnyPort(addr) == [addr EXCEPT !.port = 0]

ColumnMatches(column, c, addr) ==
  IF setting.split = "on" THEN column.addr.ip = addr.ip
  ELSE IF addr.port # 0 THEN column.addr = addr /\ c \in column.callids
  ELSE column.addr.ip = addr.ip

ColumnGet(cols, c, addr) ==
  LET found == {i \in DOMAIN cols : ColumnMatches(cols[i], c, addr)}
  IN  IF found = {} THEN 0 ELSE Min(found)

MaxCallids == IF callid # None THEN Len(group) ELSE 2

ColumnAdd(cols, entry) ==
  LET shared == {i \in DOMAIN cols :
                   /\ i # 1 /\ cols[i].addr = entry.addr
                   /\ Cardinality(cols[i].callids) < MaxCallids}
  IN  IF ColumnGet(cols, entry.call, entry.addr) # 0 THEN cols
      ELSE IF shared # {}
           THEN [cols EXCEPT ![Min(shared)].callids = @ \cup {entry.call}]
      ELSE Append(cols, [addr |-> entry.addr, callids |-> {entry.call}])

SipEntries ==
  LET ms == GroupMsgs(group, sdpOnly)
  IN  FlattenSeq([i \in DOMAIN ms |-> <<[call |-> ms[i].call, addr |-> ms[i].src],
                                         [call |-> ms[i].call, addr |-> ms[i].dst]>>])

\* The addresses of the messages in their order, then, if media is shown,
\* those of the streams of every call the walk reaches.
ColumnEntries ==
  LET walk == IF setting.media = "off" THEN <<>> ELSE CallWalk(group, sdpOnly)
      rtp == GroupStreams(walk)
  IN  SipEntries
      \o FlattenSeq([i \in DOMAIN rtp |-> <<[call |-> None, addr |-> AnyPort(rtp[i].src)],
                                            [call |-> None, addr |-> AnyPort(rtp[i].dst)]>>])

DrawColumns ==
  LET entries == ColumnEntries
      cols[i \in 0..Len(entries)] == IF i = 0 THEN columns ELSE ColumnAdd(cols[i - 1], entries[i])
  IN  cols[Len(entries)]

-----------------------------------------------------------------------------
(* Arrows.                                                                 *)

Find(seq, item) == {k \in DOMAIN seq : seq[k].item = item} # {}

ArrowAdd(seq, item) ==
  IF Find(seq, item) THEN seq
  ELSE InsertAt(seq, SortedPlace([k \in DOMAIN seq |-> time[seq[k].item]], time[item]),
                [item |-> item, scolumn |-> 0, dcolumn |-> 0])

PendingArrows ==
  LET items == GroupMsgs(group, sdpOnly) \o StreamWalk(group)
      pending[i \in 0..Len(items)] == IF i = 0 THEN arrows ELSE ArrowAdd(pending[i - 1], items[i])
  IN  pending[Len(items)]

Height(a) ==
  IF IsStream(a.item)
  THEN IF setting.sdpinfo = "compressed" THEN 1 ELSE IF setting.media = "off" THEN 0 ELSE 2
  ELSE IF setting.onlymedia = "on" THEN 0
  ELSE IF setting.sdpinfo = "compressed" THEN 1
  ELSE IF setting.sdpinfo = "full" THEN Len(a.item.medias) + 2 ELSE 2

Filter(a) ==
  \/ ~IsStream(a.item) /\ setting.onlymedia = "off"
  \/ IsStream(a.item) /\ setting.media = "on"
  \/ IsStream(a.item) /\ setting.media = "active" /\ a.item \in active

Shown(seq) == {k \in DOMAIN seq : Filter(seq[k])}

\* Lines the arrows shown from one to another take.
Lines(seq, from, to) ==
  LET lines[k \in 0..to] ==
        IF k < from THEN 0
        ELSE lines[k - 1] + (IF k \in Shown(seq) THEN Height(seq[k]) ELSE 0)
  IN  IF to < from THEN 0 ELSE lines[to]

\* The first message of the call whose SDP announces the address.
MsgWithMedia(c, addr) ==
  LET with == {i \in DOMAIN msgs[c] : addr \in Range(msgs[c][i].medias)}
  IN  IF with = {} THEN None ELSE msgs[c][Min(with)]

\* A SIP arrow joins the columns of its message.
MessagePlaced(cols, a) ==
  [a EXCEPT !.scolumn = ColumnGet(cols, a.item.call, a.item.src),
            !.dcolumn = ColumnGet(cols, a.item.call, a.item.dst)]

\* A stream's arrow goes to the column of the message that announced it when
\* they share the address, comes from that of the message that announced its
\* source or was sent to it, and else joins any columns of its addresses;
\* columns found are kept.
StreamPlaced(cols, seq, a) ==
  LET s == a.item
      Near(msg, side, addr, else) ==
        IF side.ip = addr.ip /\ Find(seq, msg) THEN ColumnGet(cols, msg.call, side) ELSE else
      Or(column, addr) == IF column # 0 THEN column ELSE ColumnGet(cols, None, AnyPort(addr))
      from == MsgWithMedia(s.msg.call, s.src)
      announced == IF from = None THEN a.scolumn ELSE Near(from, from.src, s.src, a.scolumn)
      answered == IF announced # 0 THEN announced ELSE Near(s.msg, s.msg.dst, s.src, 0)
  IN  [a EXCEPT !.dcolumn = Or(Near(s.msg, s.msg.src, s.dst, a.dcolumn), s.dst),
                !.scolumn = Or(answered, s.src)]

Placed(cols, seq, a) ==
  IF IsStream(a.item) THEN StreamPlaced(cols, seq, a) ELSE MessagePlaced(cols, a)

\* The arrows shown from the first one on until the window is full.
InWindow(seq, from) ==
  {k \in Shown(seq) : k >= from /\ Lines(seq, from, k - 1) < FlowHeight}

Draw ==
  /\ group # <<>>
  /\ drawn' = TRUE
  /\ UNCHANGED <<captured, settings, group, callid, sdpOnly, selected>>
  /\ IF ~WalksEnd
     THEN status' = "hung" /\ UNCHANGED <<columns, arrows, cur, first>>
     ELSE LET cols == DrawColumns
              seq == PendingArrows
              unset == cur = 0 /\ seq # <<>>
              from == IF unset THEN 1 ELSE first
              placed == [k \in DOMAIN seq |->
                           IF k \in InWindow(seq, from) THEN Placed(cols, seq, seq[k]) ELSE seq[k]]
          IN  /\ columns' = cols
              /\ arrows' = placed
              /\ cur' = IF unset THEN 1 ELSE cur
              /\ first' = from
              /\ status' = IF \E k \in InWindow(seq, from) :
                                0 \in {placed[k].scolumn, placed[k].dcolumn}
                           THEN "crashed" ELSE status

-----------------------------------------------------------------------------
(* Keys.                                                                   *)

SetGroup(calls) ==
  /\ group' = calls
  /\ columns' = <<>> /\ arrows' = <<>>
  /\ cur' = 0 /\ selected' = 0
  /\ UNCHANGED first

\* The arrow shown that is nearest to the index asked for, on the way there.
Target(index) ==
  LET down == {k \in Shown(arrows) : k > cur}
      up == {k \in Shown(arrows) : k < cur}
  IN  IF index = cur THEN cur
      ELSE IF cur < index
           THEN IF down = {} THEN cur
                ELSE Min({k \in down : k >= index} \cup {Max(down)})
           ELSE IF up = {} THEN cur
                ELSE Max({k \in up : k <= index} \cup {Min(up)})

\* The window follows: the first arrow moves on until the cursor fits.
ScrolledShort(to) ==
  IF to <= first THEN to
  ELSE IF to \notin Shown(arrows) THEN first
  ELSE Min({f \in first..(to + 1) : Lines(arrows, f, to - 1) <= FlowHeight})

Scrolled(to) ==
  IF to <= first THEN to
  ELSE IF to \notin Shown(arrows) THEN first
  ELSE Min({f \in first..(to + 1) : Lines(arrows, f, to) <= FlowHeight})

Move(index) ==
  /\ cur' = Target(index)
  /\ first' = IF index = cur THEN first ELSE Scrolled(cur')
  /\ UNCHANGED <<settings, group, callid, sdpOnly, columns, arrows, selected>>

\* ACTION_DOWN, UP, NPAGE, HNPAGE, PPAGE, HPPAGE, BEGIN and END.
MoveKey ==
  \E index \in {cur + d : d \in {-ScrollStep, -(ScrollStep \div 2), -1, 1,
                                 ScrollStep \div 2, ScrollStep}}
               \cup {1, Len(arrows) + 1} : Move(index)

\* call->xcalls: the dialogs with its X-Call-ID that were first seen after it.
Xcalls(c) ==
  LET After(d) == Parent[d] = c /\ \E i, j \in DOMAIN list : i < j /\ list[i] = c /\ list[j] = d
  IN  CopyIf(list, {d \in Calls : After(d)})

\* ACTION_SHOW_FLOW_EX: to the dialogs of the X-Call-ID, or back to the first.
ShowFlowEx ==
  LET c == group[1]
      root == IF Parent[c] # None THEN Parent[c] ELSE c
  IN  /\ IF Len(group) > 1 THEN SetGroup(<<c>>) /\ callid' = None
         ELSE IF msgs[root] = <<>> THEN SetGroup(group) /\ UNCHANGED callid
         ELSE SetGroup(<<root>> \o Xcalls(root)) /\ callid' = root
      /\ UNCHANGED <<settings, sdpOnly>>

\* ACTION_ONLY_SDP, undone when no message has an SDP.
OnlySdp ==
  /\ sdpOnly' = (~sdpOnly /\ GroupMsgs(group, TRUE) # <<>>)
  /\ SetGroup(group)
  /\ UNCHANGED <<settings, callid>>

\* ACTION_SDP_INFO, ONLY_MEDIA, TOGGLE_MEDIA and COMPRESS; the last three
\* build the panel again.
ToggleSetting ==
  \E k \in DOMAIN setting :
    /\ toggles < MaxToggles /\ toggles' = toggles + 1
    /\ setting' = [setting EXCEPT ![k] = Toggled(k)]
    /\ IF k = "sdpinfo" THEN UNCHANGED <<group, columns, arrows, cur, first, selected>>
       ELSE SetGroup(group)
    /\ UNCHANGED <<callid, sdpOnly>>

\* ACTION_SELECT marks the arrow under the cursor, unmarks it, or shows the
\* difference of the two in a panel of its own; ACTION_CLEAR unmarks.
Select ==
  /\ selected' \in {IF selected = 0 THEN cur ELSE IF selected = cur THEN 0 ELSE selected, 0}
  /\ UNCHANGED <<settings, group, callid, sdpOnly, columns, arrows, cur, first>>

Key(action) ==
  /\ group # <<>> /\ drawn
  /\ drawn' = FALSE
  /\ action
  /\ UNCHANGED <<captured, status>>

Open ==
  /\ group = <<>>
  /\ group' \in {calls \in Groups : Range(calls) \subseteq Range(list)}
  /\ callid' = None /\ sdpOnly' = FALSE /\ drawn' = FALSE
  /\ UNCHANGED <<captured, settings, columns, arrows, cur, first, selected, status>>

\* ACTION_PREV_SCREEN destroys the panel; a new one starts from zero.
Close ==
  /\ Key(/\ group' = <<>> /\ columns' = <<>> /\ arrows' = <<>>
         /\ cur' = 0 /\ first' = 1 /\ selected' = 0
         /\ callid' = None /\ sdpOnly' = FALSE
         /\ UNCHANGED settings)

-----------------------------------------------------------------------------
(* The capture thread.                                                     *)

StreamsOf(m) == CopyIf(StreamList, {s \in Streams : s.msg = m})

\* The time of a message is that of its first frame: a message put together
\* from segments or fragments, one of another source or one cut off the
\* packet of another is earlier than messages that are there already.
Receive ==
  \E item \in Items : \E t \in TimesOf(item) :
    /\ time[item] = 0
    /\ \A m \in Messages : Precedes(m, item) => time[m] # 0
    /\ time' = [time EXCEPT ![item] = t]
    /\ IF IsStream(item)
       THEN /\ time[item.msg] # 0
            /\ active' = active \cup {item}
            /\ UNCHANGED <<list, msgs, streams>>
       ELSE /\ msgs' = [msgs EXCEPT ![item.call] = Append(@, item)]
            /\ list' = IF msgs[item.call] = <<>> THEN Append(list, item.call) ELSE list
            /\ streams' = [streams EXCEPT ![item.call] = @ \o StreamsOf(item)]
            /\ UNCHANGED active
    /\ UNCHANGED <<settings, panel, drawn, status>>

\* A stream gets no packet for some seconds; only the filter "active" looks.
Silence ==
  /\ setting.media = "active"
  /\ \E s \in active : active' = active \ {s}
  /\ UNCHANGED <<list, msgs, streams, time, settings, panel, drawn, status>>

-----------------------------------------------------------------------------
Init ==
  /\ list = <<>>
  /\ msgs = [c \in Calls |-> <<>>] /\ streams = [c \in Calls |-> <<>>]
  /\ time = [i \in Items |-> 0] /\ active = {}
  /\ setting \in StartSettings
  /\ toggles = 0
  /\ group = <<>> /\ callid = None /\ sdpOnly = FALSE
  /\ columns = <<>> /\ arrows = <<>> /\ cur = 0 /\ first = 1 /\ selected = 0
  /\ drawn = FALSE /\ status = "running"

Running ==
  \/ Receive \/ Silence
  \/ Open \/ Draw \/ Close
  \/ Key(MoveKey) \/ Key(ShowFlowEx) \/ Key(OnlySdp) \/ Key(ToggleSetting) \/ Key(Select)

\* A hung or crashed draw keeps the capture lock, so nothing runs any more.
Next == (status = "running" /\ Running) \/ (status # "running" /\ UNCHANGED vars)

Spec == Init /\ [][Next]_vars

-----------------------------------------------------------------------------
(* Properties.                                                             *)

\* A draw finds both columns of every arrow it shows (draw_message and
\* draw_rtp_stream follow the pointers unchecked), unless the walk over the
\* calls of the group has passed one by: it takes the first call in the
\* list that is not earlier, not the next in time.
ColumnsFound ==
  status = "crashed" => Range(group) \ Range(CallWalk(group, sdpOnly)) # {}

\* The walks of a draw end, unless two streams or two calls of the group
\* began at the very same time, when each is next to the other for ever.
DrawEnds ==
  status = "hung" =>
    \/ \E s, t \in Range(GroupStreams(group)) : s # t /\ time[s] = time[t]
    \/ \E c, d \in Range(group) : c # d /\ time[msgs[c][1]] = time[msgs[d][1]]

\* The arrows of the second vector that are of items of the first one are in
\* the same order, and what is new among them is earlier than all behind it.
KeepsOrder(seq, new) ==
  /\ \A k, l \in DOMAIN seq : k < l =>
       \E i, j \in DOMAIN new : i < j /\ new[i].item = seq[k].item /\ new[j].item = seq[l].item
  /\ \A i, j \in DOMAIN new : i < j /\ ~Find(seq, new[i].item) /\ Find(seq, new[j].item) =>
       time[new[i].item] < time[new[j].item]

\* The cursor and the marked arrow are indices, and a draw inserts into the
\* vector they point into (call_flow_arrow_sorter): arrows never change
\* their order, and only a message earlier than an arrow gets in before it
\* and moves it on to a higher index, until the panel is built again.
ArrowsKeepTheirOrder == [][ cur' = 0 \/ KeepsOrder(arrows, arrows') ]_vars

\* A key that moves the cursor leaves it on an arrow that is shown, inside
\* the window unless that arrow alone is higher than the window.
CursorInView ==
  [][ 0 \notin {cur, cur'} /\ cur' # cur =>
        /\ cur' \in Shown(arrows)
        /\ Height(arrows[cur']) <= FlowHeight =>
             first' <= cur' /\ Lines(arrows, first', cur') <= FlowHeight ]_vars
============================================================================
