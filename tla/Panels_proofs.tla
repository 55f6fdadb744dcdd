---------------------------- MODULE Panels_proofs ----------------------------
(***************************************************************************)
(* Theorems about the panels, the display filters and the save panel, for  *)
(* any keys, calls, packets, filters, files and numbers of changes; and    *)
(* about the settings, the columns, the key bindings and the files they    *)
(* are saved in and read from, for any resource files.                     *)
(***************************************************************************)
EXTENDS Panels, Configuration, SequenceLemmas, FiniteSetTheorems

PanelNames == {"list", "flow", "raw", "diff", "filter", "save", "settings", "columns", "stats"}

StackType == stack \in Seq(PanelNames)

-------------------------------------------------------------------------------
(* The stack.                                                               *)

\* Removing the last of a sequence.
LEMMA FrontFacts ==
  ASSUME NEW S, NEW s \in Seq(S), s # <<>>
  PROVE  /\ Front(s) \in Seq(S) /\ Len(Front(s)) = Len(s) - 1 /\ Last(s) = s[Len(s)]
         /\ \A i \in 1 .. Len(s) - 1 : Front(s)[i] = s[i]
         /\ Range(s) = Range(Front(s)) \cup {Last(s)}
         /\ Last(s) \in S
<1>1. Len(s) \in Nat /\ Len(s) # 0
  OBVIOUS
<1>2. /\ Front(s) \in Seq(S) /\ Len(Front(s)) = Len(s) - 1 /\ Last(s) = s[Len(s)]
      /\ \A i \in 1 .. Len(s) - 1 : Front(s)[i] = s[i]
  <2>1. Last(s) = s[Len(s)] /\ Front(s) = SubSeq(s, 1, Len(s) - 1)
    BY DEF Front, Last
  <2>2. PICK n \in Nat : n = Len(s) - 1 /\ n + 1 = Len(s)
    BY <1>1
  <2>3. /\ SubSeq(s, 1, n) \in Seq(S) /\ Len(SubSeq(s, 1, n)) = n
        /\ \A i \in 1 .. n : SubSeq(s, 1, n)[i] = s[i]
    BY <2>2
  <2>4. QED
    BY <2>1, <2>2, <2>3
<1>3. DOMAIN s = 1 .. Len(s) /\ DOMAIN Front(s) = 1 .. Len(s) - 1
  BY <1>2
<1>4. Range(s) \subseteq Range(Front(s)) \cup {Last(s)}
  <2>1. SUFFICES ASSUME NEW i \in 1 .. Len(s) PROVE s[i] \in Range(Front(s)) \cup {Last(s)}
    BY <1>3 DEF Range
  <2>2. i = Len(s) \/ i \in 1 .. Len(s) - 1
    BY <1>1
  <2>3. QED
    BY <1>2, <1>3, <2>2 DEF Range
<1>5. Range(Front(s)) \cup {Last(s)} \subseteq Range(s)
  BY <1>1, <1>2, <1>3 DEF Range
<1>6. QED
  BY <1>1, <1>2, <1>4, <1>5

\* What a step does to the stack of panels and to the pause (ui_create,
\* ui_destroy, ui_wait_for_input, save_create, save_destroy).
StackKept == stack' = stack /\ (paused' = user' \/ (paused' = paused /\ user' = user))
StackOpened ==
  \E which \in PanelNames : /\ stack' = Append(stack, which) /\ user' = user
                            /\ paused' = paused \/ which = "save"
                            /\ which = "save" => CanSave
StackClosed == stack' = Front(stack) /\ user' = user /\ paused' = PausedAfterClose
StackCleared == \E key \in Keys : stack' = HandlerStack(key) /\ user' = user /\ paused' = paused

\* A handler other than the list's, its form's and its menu's is the panel's.
LEMMA HandlerFacts ==
  /\ Handler \in {"list", "form", "menu"} /\ Top \in PanelNames => Top = "list"
  /\ Handler \notin {"list", "form", "menu"} => Top = Handler
BY DEF Handler, PanelNames

LEMMA StackStep ==
  ASSUME Next
  PROVE  StackKept \/ StackOpened \/ StackClosed \/ StackCleared
<1>1. CASE Draw \/ Packet \/ ConfirmTimeout
  BY <1>1 DEF Draw, Packet, ConfirmTimeout, screen, StackKept
<1>2. ASSUME NEW key \in Keys, PanelKey(key), Ready
      PROVE  StackKept \/ StackOpened \/ StackClosed \/ StackCleared
  <2>1. CASE ListKey(key)
    <3>1. CASE ListSelect(key) \/ ListForm(key) \/ ListMenu(key) \/ ListDeselect(key)
      BY <3>1 DEF ListSelect, ListForm, ListMenu, ListDeselect, StackKept
    <3>2. CASE ListQuit(key)
      <4>1. Handler = "list"
        BY <3>2 DEF ListQuit, Press
      <4>2. Top # "save"
        BY <4>1 DEF Handler
      <4>3. QED
        BY <3>2, <4>2 DEF ListQuit, StackKept, StackClosed, Close, PausedAfterClose
    <3>3. CASE ListShow(key, ACTION_SHOW_FLOW, "flow") \/ ListShow(key, ACTION_SHOW_RAW, "raw")
      BY <3>3 DEF ListShow, Open, StackOpened, PanelNames
    <3>4. CASE \/ ListOpen(key, ACTION_SHOW_COLUMNS, "columns") \/ ListOpen(key, ACTION_SHOW_STATS, "stats")
               \/ ListOpen(key, ACTION_SHOW_SETTINGS, "settings") \/ FilterOpen(key)
      BY <3>4 DEF ListOpen, FilterOpen, Open, StackOpened, PanelNames
    <3>5. QED
      BY <2>1, <3>1, <3>2, <3>3, <3>4 DEF ListKey
  <2>2. CASE ListSave(key) \/ FlowSave(key) \/ RawSave(key)
    BY <2>2 DEF ListSave, FlowSave, RawSave, OpenSave, Refuse, Open, StackKept, StackOpened, PanelNames
  <2>3. CASE ClearCalls(key)
    BY <2>3 DEF ClearCalls, StackCleared
  <2>4. CASE FormKey(key, Action("form", key, TRUE)) \/ MenuKey(key, Action("menu", key, FALSE))
    BY <2>4 DEF FormKey, MenuKey, StackKept
  <2>5. CASE FlowRaw(key) \/ FlowMessage(key) \/ FlowSelect(key) \/ FlowClear(key)
    BY <2>5 DEF FlowRaw, FlowMessage, FlowSelect, FlowClear, Open, StackKept, StackOpened, PanelNames
  <2>6. CASE FilterEdit(key) \/ SaveEdit(key) \/ SaveConfirm(key)
    BY <2>6 DEF FilterEdit, SaveEdit, SaveConfirm, StackKept
  <2>7. CASE FilterConfirm(key)
    <3>1. Top = "filter"
      BY <2>7, HandlerFacts DEF FilterConfirm, Press
    <3>2. QED
      BY <2>7, <3>1 DEF FilterConfirm, Close, StackClosed, PausedAfterClose
  <2>8. CASE SaveCancel(key)
    BY <2>8 DEF SaveCancel, Close, StackClosed
  <2>9. CASE Handler \in {"settings", "columns"} /\ (OwnKey(key) \/ ColumnsAccept(key))
    <3>1. Top # "save"
      BY <2>9, HandlerFacts
    <3>2. QED
      BY <2>9, <3>1 DEF OwnKey, ColumnsAccept, Close, StackKept, StackClosed, PausedAfterClose
  <2>10. CASE DefaultKey(key, Action("default", key, FALSE))
    <3> DEFINE action == Action("default", key, FALSE)
    <3>1. CASE action = ACTION_PREV_SCREEN
      BY <2>10, <3>1 DEF DefaultKey, Close, StackClosed, PausedAfterClose
    <3>2. CASE action # ACTION_PREV_SCREEN /\ action = ACTION_TOGGLE_PAUSE
      <4>1. paused' = ~paused /\ user' = ~paused /\ UNCHANGED <<stack, info, dialog>>
        BY <2>10, <3>2 DEF DefaultKey
      <4>2. QED
        BY <4>1 DEF StackKept
    <3>3. CASE /\ action # ACTION_PREV_SCREEN /\ action # ACTION_TOGGLE_PAUSE
               /\ action = ACTION_SHOW_SETTINGS /\ "settings" \notin Range(stack)
      BY <2>10, <3>3 DEF DefaultKey, Open, StackOpened, PanelNames
    <3>4. CASE /\ action # ACTION_PREV_SCREEN /\ action # ACTION_TOGGLE_PAUSE
               /\ ~(action = ACTION_SHOW_SETTINGS /\ "settings" \notin Range(stack))
      <4>1. UNCHANGED <<stack, info, paused, user, changes>>
        BY <2>10, <3>4 DEF DefaultKey
      <4>2. QED
        BY <4>1 DEF StackKept
    <3>5. QED
      BY <3>1, <3>2, <3>3, <3>4
  <2>11. QED
    BY <1>2, <2>1, <2>2, <2>3, <2>4, <2>5, <2>6, <2>7, <2>8, <2>9, <2>10 DEF PanelKey
<1>3. CASE Dismiss
  BY <1>3 DEF Dismiss, Close, StackKept, StackClosed
<1>4. ASSUME NEW key \in Keys, ConfirmMove(key) \/ ConfirmAnswer(key)
      PROVE  StackKept \/ StackClosed
  BY <1>4 DEF ConfirmMove, ConfirmAnswer, screen, Close, StackKept, StackClosed
<1>5. QED
  BY <1>1, <1>2, <1>3, <1>4 DEF Next

\* Only flow and raw panels are destroyed on the way to the list.
LEMMA HandlerStackFacts ==
  ASSUME StackType, NEW key
  PROVE  /\ HandlerStack(key) \in Seq(PanelNames)
         /\ Range(HandlerStack(key)) = {which \in Range(stack) : ~Propagates(which, key)}
         /\ IsInjective(stack) => IsInjective(HandlerStack(key))
<1> DEFINE K == {which \in Range(stack) : ~Propagates(which, key)}
<1>1. HandlerStack(key) = CopyIf(stack, K)
  BY DEF HandlerStack
<1>2. K \subseteq Range(stack)
  OBVIOUS
<1> HIDE DEF K
<1>3. /\ CopyIf(stack, K) \in Seq(PanelNames) /\ Range(CopyIf(stack, K)) = Range(stack) \cap K
      /\ IsInjective(stack) => IsInjective(CopyIf(stack, K))
  BY CopyIfFacts DEF StackType
<1>4. QED
  BY <1>1, <1>2, <1>3 DEF K

-------------------------------------------------------------------------------
(* The pause.                                                               *)

PauseInv == StackType /\ PausedForAReason

LEMMA PauseStep == PauseInv /\ [Next]_vars => PauseInv'
<1> SUFFICES ASSUME PauseInv, [Next]_vars PROVE PauseInv'
  OBVIOUS
<1> USE DEF PauseInv, StackType, PausedForAReason
<1>1. CASE StackKept
  BY <1>1 DEF StackKept
<1>2. CASE StackOpened
  <2>1. PICK which \in PanelNames : /\ stack' = Append(stack, which) /\ user' = user
                                    /\ paused' = paused \/ which = "save"
    BY <1>2 DEF StackOpened
  <2>2. stack' \in Seq(PanelNames) /\ Range(stack') = Range(stack) \cup {which}
    BY <2>1, AppendFacts
  <2>3. QED
    BY <2>1, <2>2
<1>3. CASE StackClosed
  <2>1. CASE stack = <<>>
    <3>1. stack' = <<>>
      BY <1>3, <2>1 DEF StackClosed, Front
    <3>2. QED
      BY <1>3, <2>1, <3>1 DEF StackClosed, PausedAfterClose
  <2>2. CASE stack # <<>>
    <3>1. stack' \in Seq(PanelNames) /\ Range(stack) = Range(stack') \cup {Top}
      BY <1>3, <2>2, FrontFacts DEF StackClosed, Top
    <3>2. QED
      BY <1>3, <3>1 DEF StackClosed, PausedAfterClose
  <2>3. QED
    BY <2>1, <2>2
<1>4. CASE StackCleared
  <2>1. PICK key \in Keys : stack' = HandlerStack(key) /\ user' = user /\ paused' = paused
    BY <1>4 DEF StackCleared
  <2>2. ~Propagates("save", key)
    BY DEF Propagates
  <2>3. QED
    BY <2>1, <2>2, HandlerStackFacts
<1>5. CASE UNCHANGED vars
  BY <1>5 DEF vars, screen
<1>6. QED
  BY <1>1, <1>2, <1>3, <1>4, <1>5, StackStep

\* The capture is paused only while the user wants it or the save panel is
\* open, whichever way the panel was left (save_create, save_destroy).
THEOREM PausedRightly == Spec => []PausedForAReason
<1>1. Init => PauseInv
  <2>1. "list" \in PanelNames
    BY DEF PanelNames
  <2>2. <<"list">> \in Seq(PanelNames)
    BY <2>1
  <2>3. QED
    BY <2>2 DEF Init, PauseInv, StackType, PausedForAReason
<1>2. PauseInv => PausedForAReason
  BY DEF PauseInv
<1>3. QED
  BY <1>1, <1>2, PauseStep, PTL DEF Spec

-------------------------------------------------------------------------------
(* The files.                                                               *)

\* Writing a file that is not there leaves the others.
LEMMA SaveKeepsOthers ==
  ASSUME NEW s, SaveRest(s)
  PROVE  \A f \in DOMAIN disk \ {FileOf(s)} : disk'[f] = disk[f]
BY DEF SaveRest, WithFile

\* A file that can be read was asked for when it changes.
ChangedWhenAsked == \A f \in DOMAIN disk \ Unreadable : disk'[f] # disk[f] => SaysYes

\* A file that can be read is changed only by the answer "Yes" to the question
\* of dialog_confirm whether to overwrite it (save_to_file).
THEOREM OverwrittenOnlyWhenAsked == Spec => OverwrittenWhenAsked
<1>1. Next => ChangedWhenAsked
  <2> SUFFICES ASSUME Next PROVE ChangedWhenAsked
    OBVIOUS
  <2>1. CASE disk' = disk
    BY <2>1 DEF ChangedWhenAsked
  <2>2. ASSUME NEW key \in Keys, SaveConfirm(key)
        PROVE  ChangedWhenAsked
    <3>1. disk' = disk \/ (FileOf(info["save"]) \notin DOMAIN disk \ Unreadable /\ SaveRest(info["save"]))
      BY <2>2 DEF SaveConfirm, Found
    <3>2. QED
      BY <2>1, <3>1, SaveKeepsOthers DEF ChangedWhenAsked
  <2>3. ASSUME NEW key \in Keys, dialog.kind \in Questions, ConfirmAnswer(key)
        PROVE  ChangedWhenAsked
    <3> DEFINE action == ConfirmAction(key)
               yes == Answer(action, dialog.selected) = 0
    <3>1. /\ action \in {ACTION_SELECT, ACTION_CONFIRM, ACTION_PREV_SCREEN}
          /\ disk' = disk \/ (dialog.kind = "overwrite" /\ yes)
      BY <2>3 DEF ConfirmAnswer
    <3>2. yes => action \in {ACTION_SELECT, ACTION_CONFIRM} /\ dialog.selected = 0
      BY <3>1 DEF Answer
    <3>3. QED
      BY <2>1, <2>3, <3>1, <3>2 DEF ChangedWhenAsked, SaysYes
  <2>4. ASSUME NEW key \in Keys, PanelKey(key), ~SaveConfirm(key)
        PROVE  disk' = disk
    <3>1. CASE Handler = "list" /\ ListKey(key)
      BY <3>1 DEF ListKey, ListShow, ListOpen, FilterOpen, ListSelect, ListForm, ListMenu, ListDeselect, ListQuit
    <3>2. CASE ListSave(key) \/ FlowSave(key) \/ RawSave(key)
      BY <3>2 DEF ListSave, FlowSave, RawSave
    <3>3. CASE ClearCalls(key) \/ FormKey(key, Action("form", key, TRUE)) \/ MenuKey(key, Action("menu", key, FALSE))
      BY <3>3 DEF ClearCalls, FormKey, MenuKey
    <3>4. CASE FlowRaw(key) \/ FlowMessage(key) \/ FlowSelect(key) \/ FlowClear(key)
      BY <3>4 DEF FlowRaw, FlowMessage, FlowSelect, FlowClear
    <3>5. CASE FilterEdit(key) \/ FilterConfirm(key) \/ SaveEdit(key) \/ SaveCancel(key) \/ OwnKey(key) \/ ColumnsAccept(key)
      BY <3>5 DEF FilterEdit, FilterConfirm, SaveEdit, SaveCancel, OwnKey, ColumnsAccept
    <3>6. CASE DefaultKey(key, Action("default", key, FALSE))
      BY <3>6 DEF DefaultKey
    <3>7. QED
      BY <2>4, <3>1, <3>2, <3>3, <3>4, <3>5, <3>6 DEF PanelKey
  <2>5. CASE Draw \/ Packet \/ Dismiss \/ ConfirmTimeout
    BY <2>1, <2>5 DEF Draw, Packet, Dismiss, ConfirmTimeout
  <2>6. ASSUME NEW key \in Keys, ConfirmMove(key)
        PROVE  ChangedWhenAsked
    BY <2>1, <2>6 DEF ConfirmMove
  <2>7. QED
    BY <2>1, <2>2, <2>3, <2>4, <2>5, <2>6 DEF Next
<1>2. [Next]_vars => [ChangedWhenAsked]_vars
  BY <1>1
<1>3. Spec => [][ChangedWhenAsked]_vars
  BY <1>2, PTL DEF Spec
<1>4. QED
  BY <1>3 DEF OverwrittenWhenAsked, ChangedWhenAsked, SaysYes

-------------------------------------------------------------------------------
(* The calls.                                                               *)

ListFields == {"form", "menu", "text", "dcalls", "group", "columns"}

\* The columns the list can have, and none
ColumnSets == Layouts \cup {s.columns : s \in Setups} \cup {<<>>}

ColumnsOfList == DOMAIN list = ListFields /\ list.columns \in ColumnSets

CallRecords ==
  [id : Nat, method : STRING, msgs : Seq([at : Nat, text : STRING]), rtp : Seq(Nat),
   filtered : {-1, 0, 1}, seen : Nat, columns : ColumnSets]

CallsType ==
  /\ ColumnsOfList
  /\ calls \in Seq(CallRecords)
  /\ arrivals \in Seq([call : Nat, method : STRING, at : Nat, text : STRING])

\* Checking the filters changes the verdict of a call and nothing else.
LEMMA CheckFacts ==
  ASSUME ColumnsOfList, NEW c \in CallRecords
  PROVE  /\ filter_check_call(c) \in CallRecords
         /\ filter_check_call(c).id = c.id /\ filter_check_call(c).msgs = c.msgs
         /\ filter_check_call(c).rtp = c.rtp
         /\ \/ filter_check_call(c) = c
            \/ /\ filter_check_call(c).filtered = Verdict(list.columns, c)
               /\ filter_check_call(c).seen = Len(c.msgs)
               /\ filter_check_call(c).columns = list.columns
               /\ filter_check_call(c).method = c.method
<1>1. Verdict(list.columns, c) \in {-1, 0, 1}
  BY DEF Verdict
<1>2. Len(c.msgs) \in Nat
  BY DEF CallRecords
<1> DEFINE d == [c EXCEPT !.filtered = Verdict(list.columns, c), !.seen = Len(c.msgs),
                          !.columns = list.columns]
<1>3. /\ d \in CallRecords /\ d.id = c.id /\ d.msgs = c.msgs /\ d.rtp = c.rtp /\ d.method = c.method
      /\ d.filtered = Verdict(list.columns, c) /\ d.seen = Len(c.msgs) /\ d.columns = list.columns
  BY <1>1, <1>2 DEF CallRecords, ColumnsOfList
<1>4. filter_check_call(c) = c \/ filter_check_call(c) = d
  BY DEF filter_check_call
<1>5. QED
  BY <1>3, <1>4

LEMMA CheckedFacts ==
  ASSUME ColumnsOfList, NEW cs \in Seq(CallRecords)
  PROVE  /\ Checked(cs) \in Seq(CallRecords) /\ Len(Checked(cs)) = Len(cs)
         /\ \A i \in 1 .. Len(cs) : Checked(cs)[i] = filter_check_call(cs[i])
BY CheckFacts DEF Checked

LEMMA DisplayedFacts ==
  ASSUME ColumnsOfList, NEW cs \in Seq(CallRecords)
  PROVE  /\ Displayed(cs) \in Seq(CallRecords)
         /\ Range(Displayed(cs)) \subseteq Range(Checked(cs))
<1> DEFINE K == {c \in Range(Checked(cs)) : IsShown(c)}
<1>1. Displayed(cs) = CopyIf(Checked(cs), K)
  BY DEF Displayed
<1> HIDE DEF K
<1>2. QED
  BY <1>1, CheckedFacts, CopyIfFacts

LEMMA UncheckedFacts ==
  ASSUME NEW c \in CallRecords
  PROVE  /\ Unchecked(c) \in CallRecords
         /\ Unchecked(c).id = c.id /\ Unchecked(c).msgs = c.msgs /\ Unchecked(c).rtp = c.rtp
         /\ Unchecked(c).filtered = -1 /\ Unchecked(c).seen = 0
BY DEF Unchecked, CallRecords, ColumnSets

LEMMA ResetFacts ==
  ASSUME NEW cs \in Seq(CallRecords)
  PROVE  /\ filter_reset_calls(cs) \in Seq(CallRecords) /\ Len(filter_reset_calls(cs)) = Len(cs)
         /\ \A i \in 1 .. Len(cs) : filter_reset_calls(cs)[i] = Unchecked(cs[i])
BY UncheckedFacts DEF filter_reset_calls

\* A sorted insertion puts the call somewhere in the list.
LEMMA SorterFacts ==
  ASSUME NEW cs \in Seq(CallRecords), NEW c \in CallRecords, NEW by, NEW asc
  PROVE  /\ sip_list_sorter(cs, c, by, asc) \in Seq(CallRecords)
         /\ Range(sip_list_sorter(cs, c, by, asc)) = Range(cs) \cup {c}
         /\ IsInjective(cs) /\ c \notin Range(cs) => IsInjective(sip_list_sorter(cs, c, by, asc))
<1> DEFINE before == {i \in DOMAIN cs : IF asc THEN SortKey(c, by) > SortKey(cs[i], by)
                                               ELSE SortKey(c, by) < SortKey(cs[i], by)}
           last == CHOOSE i \in before : \A j \in before : j <= i
           place == 1 + (IF before = {} THEN 0 ELSE last)
<1>1. sip_list_sorter(cs, c, by, asc) = InsertAt(cs, place, c)
  BY DEF sip_list_sorter, Insert
<1>2. Len(cs) \in Nat /\ before \subseteq 1 .. Len(cs)
  OBVIOUS
<1> HIDE DEF before
<1>3. ASSUME before # {} PROVE last \in before
  <2>1. before \subseteq 0 .. Len(cs)
    BY <1>2
  <2>2. Max(before) \in before /\ \A j \in before : Max(before) >= j
    BY <1>2, <1>3, <2>1, MaxOfNats
  <2>3. \A j \in before : j <= Max(before)
    BY <1>2, <2>2
  <2>4. QED
    BY <2>2, <2>3
<1>4. place \in 1 .. Len(cs) + 1
  <2>1. CASE before = {}
    BY <1>2, <2>1
  <2>2. CASE before # {}
    <3>1. last \in 1 .. Len(cs) /\ place = 1 + last
      BY <1>2, <1>3, <2>2
    <3> HIDE DEF last, place
    <3>2. QED
      BY <1>2, <3>1
  <2>3. QED
    BY <2>1, <2>2
<1> HIDE DEF place
<1>5. QED
  BY <1>1, <1>4, InsertAtFacts

\* Sorting keeps the calls: each is inserted into a list of the ones before.
LEMMA SortFacts ==
  ASSUME calls \in Seq(CallRecords), NEW by, NEW asc
  PROVE  /\ sip_sort_list(by, asc) \in Seq(CallRecords)
         /\ Range(sip_sort_list(by, asc)) = Range(calls)
         /\ IsInjective(calls) => IsInjective(sip_sort_list(by, asc))
<1> DEFINE n == Len(calls)
           T == Seq(CallRecords)
           step == [i \in 1 .. n |-> [t \in T |-> sip_list_sorter(t, calls[i], by, asc)]]
           eq(f) == [i \in 0 .. n |-> IF i = 0 THEN <<>>
                                      ELSE sip_list_sorter(f[i - 1], calls[i], by, asc)]
           F == CHOOSE f : f = eq(f)
<1>1. sip_sort_list(by, asc) = F[n]
  BY DEF sip_sort_list
<1>2. n \in Nat /\ <<>> \in T /\ \A i \in 1 .. n : calls[i] \in CallRecords
  OBVIOUS
<1>3. step \in [1 .. n -> [T -> T]]
  BY <1>2, SorterFacts
<1>4. \A i \in 1 .. n, t \in T : step[i][t] = sip_list_sorter(t, calls[i], by, asc)
  OBVIOUS
<1> HIDE DEF n, T, step
<1>5. F = eq(F)
  <2>1. PICK f : IsRecursion(f, n, T, <<>>, step)
    BY <1>2, <1>3, RecursiveFunction
  <2>2. f \in [0 .. n -> T] /\ f[0] = <<>> /\ \A i \in 1 .. n : f[i] = step[i][f[i - 1]]
    BY <2>1 DEF IsRecursion
  <2>3. \A i \in 1 .. n : i - 1 \in 0 .. n /\ f[i - 1] \in T
    BY <1>2, <2>2
  <2>4. \A i \in 1 .. n : f[i] = sip_list_sorter(f[i - 1], calls[i], by, asc)
    BY <1>4, <2>2, <2>3
  <2>5. \A i \in 0 .. n : f[i] = IF i = 0 THEN <<>> ELSE sip_list_sorter(f[i - 1], calls[i], by, asc)
    <3>1. \A i \in 0 .. n : i = 0 \/ (i # 0 /\ i \in 1 .. n)
      BY <1>2
    <3>2. QED
      BY <2>2, <2>4, <3>1
  <2>6. f = eq(f)
    BY <2>2, <2>5
  <2>7. QED
    BY <2>6
<1> HIDE DEF F
<1>6. F[0] = <<>>
  BY <1>2, <1>5
<1>7. \A i \in 1 .. n : F[i] = sip_list_sorter(F[i - 1], calls[i], by, asc)
  <2>1. \A i \in 1 .. n : i \in 0 .. n /\ i # 0
    BY <1>2
  <2>2. \A i \in 0 .. n : F[i] = eq(F)[i]
    BY <1>5
  <2>3. QED
    BY <2>1, <2>2
<1> DEFINE G == {i \in 0 .. n : /\ F[i] \in T /\ Range(F[i]) = {calls[j] : j \in 1 .. i}
                                /\ IsInjective(calls) => IsInjective(F[i])}
<1>8. 0 \in G
  <2>1. Range(<<>>) = {} /\ 1 .. 0 = {} /\ 0 \in 0 .. n /\ IsInjective(<<>>)
    BY <1>2 DEF Range, IsInjective
  <2>2. QED
    BY <1>2, <1>6, <2>1
<1>9. ASSUME NEW i \in 1 .. n, i - 1 \in G PROVE i \in G
  <2>1. {calls[j] : j \in 1 .. i} = {calls[j] : j \in 1 .. (i - 1)} \cup {calls[i]}
    OBVIOUS
  <2>2. /\ F[i - 1] \in T /\ Range(F[i - 1]) = {calls[j] : j \in 1 .. (i - 1)}
        /\ IsInjective(calls) => IsInjective(F[i - 1])
    BY <1>9
  <2>3. /\ F[i] \in T /\ Range(F[i]) = Range(F[i - 1]) \cup {calls[i]}
        /\ IsInjective(F[i - 1]) /\ calls[i] \notin Range(F[i - 1]) => IsInjective(F[i])
    <3>1. F[i] = sip_list_sorter(F[i - 1], calls[i], by, asc) /\ calls[i] \in CallRecords
      BY <1>2, <1>7
    <3>2. QED
      BY <2>2, <3>1, SorterFacts DEF T
  <2>4. i \in 0 .. n
    BY <1>2
  <2>5. ASSUME IsInjective(calls) PROVE calls[i] \notin Range(F[i - 1])
    <3>1. SUFFICES ASSUME NEW j \in 1 .. (i - 1), calls[j] = calls[i] PROVE FALSE
      BY <2>2
    <3>2. j \in 1 .. n /\ j # i
      BY <1>2
    <3>3. DOMAIN calls = 1 .. n
      BY DEF n
    <3>4. QED
      BY <2>5, <3>1, <3>2, <3>3 DEF IsInjective
  <2>6. QED
    BY <2>1, <2>2, <2>3, <2>4, <2>5
<1>10. \A i \in 0 .. n : i \in G
  <2> HIDE DEF G
  <2>1. QED
    BY <1>2, <1>8, <1>9, UpTo
<1>11. n \in G
  <2> HIDE DEF G
  <2>1. n \in 0 .. n
    BY <1>2
  <2>2. QED
    BY <1>10, <2>1
<1>12. Range(calls) = {calls[j] : j \in 1 .. n}
  BY DEF Range, n
<1>13. QED
  BY <1>1, <1>11, <1>12 DEF T

\* What a step does to the calls: it checks or sorts them, stores a packet,
\* clears them, or gives them up to a changed filter.
CallsChecked == calls' = calls \/ calls' = Checked(calls)
CallsSorted == \E by, asc : calls' = sip_sort_list(by, asc)
CallsReset == calls' = filter_reset_calls(calls)

LEMMA CallsStep ==
  ASSUME Next
  PROVE  \/ Packet
         \/ \E key \in Keys : ClearCalls(key)
         \/ /\ CallsChecked \/ CallsSorted \/ CallsReset
            /\ arrivals' = arrivals
<1>1. CASE Draw \/ ConfirmTimeout
  BY <1>1 DEF Draw, ConfirmTimeout, CallsChecked, store
<1>2. ASSUME NEW key \in Keys, PanelKey(key), ~ClearCalls(key)
      PROVE  (CallsChecked \/ CallsSorted \/ CallsReset) /\ arrivals' = arrivals
  <2>1. CASE ListKey(key)
    BY <2>1 DEF ListKey, ListShow, ListOpen, FilterOpen, ListSelect, ListForm, ListMenu, ListDeselect,
                ListQuit, Press, CallsChecked
  <2>2. CASE ListSave(key) \/ FlowSave(key) \/ RawSave(key)
    BY <2>2 DEF ListSave, FlowSave, RawSave, OpenSave, Refuse, Press, CallsChecked
  <2>3. CASE FormKey(key, Action("form", key, TRUE))
    BY <2>3 DEF FormKey, Press, CallsChecked, CallsReset
  <2>4. CASE MenuKey(key, Action("menu", key, FALSE))
    BY <2>4 DEF MenuKey, Press, CallsChecked, CallsSorted
  <2>5. CASE FlowRaw(key) \/ FlowMessage(key) \/ FlowSelect(key) \/ FlowClear(key)
    BY <2>5 DEF FlowRaw, FlowMessage, FlowSelect, FlowClear, Press, CallsChecked
  <2>6. CASE FilterEdit(key) \/ FilterConfirm(key)
    BY <2>6 DEF FilterEdit, FilterConfirm, filter_save_options, Press, CallsChecked, CallsReset
  <2>7. CASE SaveEdit(key) \/ SaveConfirm(key) \/ SaveCancel(key)
    BY <2>7 DEF SaveEdit, SaveConfirm, SaveCancel, SaveRest, Press, CallsChecked
  <2>8. CASE OwnKey(key) \/ ColumnsAccept(key)
    BY <2>8 DEF OwnKey, ColumnsAccept, Press, CallsChecked
  <2>9. CASE DefaultKey(key, Action("default", key, FALSE))
    BY <2>9 DEF DefaultKey, Press, CallsChecked
  <2>10. QED
    BY <1>2, <2>1, <2>2, <2>3, <2>4, <2>5, <2>6, <2>7, <2>8, <2>9 DEF PanelKey
<1>3. CASE Dismiss
  BY <1>3 DEF Dismiss, store, CallsChecked
<1>4. ASSUME NEW key \in Keys, ConfirmMove(key) \/ ConfirmAnswer(key)
      PROVE  CallsChecked /\ arrivals' = arrivals
  BY <1>4 DEF ConfirmMove, ConfirmAnswer, SaveRest, store, CallsChecked
<1>5. QED
  BY <1>1, <1>2, <1>3, <1>4 DEF Next

LEMMA MapFacts ==
  ASSUME NEW S, NEW s \in Seq(S), NEW t, t = [i \in 1 .. Len(s) |-> t[i]],
         \A i \in 1 .. Len(s) : t[i] \in S
  PROVE  t \in Seq(S) /\ Len(t) = Len(s)
<1>1. Len(s) \in Nat /\ t \in [1 .. Len(s) -> S]
  OBVIOUS
<1>2. QED
  BY <1>1

\* A packet stored is a message more of its call, or a new call.
LEMMA PacketFacts ==
  ASSUME CallsType, Packet
  PROVE  /\ CallsType'
         /\ \/ calls' = calls
            \/ /\ Len(calls') = Len(calls)
               /\ \A i \in 1 .. Len(calls) :
                    calls'[i] = calls[i] \/ calls'[i] = WithMsg(calls[i], Head(arrivals))
            \/ Range(calls') = Range(calls) \cup {WithMsg(NewCall(Head(arrivals)), Head(arrivals))}
<1> DEFINE p == Head(arrivals)
           msg == [at |-> p.at, text |-> p.text]
<1>1. /\ p \in [call : Nat, method : STRING, at : Nat, text : STRING]
      /\ arrivals' \in Seq([call : Nat, method : STRING, at : Nat, text : STRING])
  <2>1. PICK S : S = [call : Nat, method : STRING, at : Nat, text : STRING]
    OBVIOUS
  <2>2. arrivals \in Seq(S) /\ arrivals # <<>> /\ arrivals' = Tail(arrivals)
    BY <2>1 DEF CallsType, Packet
  <2>3. Head(arrivals) \in S /\ arrivals' \in Seq(S)
    BY <2>2
  <2>4. QED
    BY <2>1, <2>3
<1>2. msg \in [at : Nat, text : STRING]
  BY <1>1
<1>20. ColumnsOfList'
  BY DEF Packet, screen, CallsType, ColumnsOfList
<1> HIDE DEF p, msg
<1>3. ASSUME NEW c \in CallRecords
      PROVE  WithMsg(c, p) \in CallRecords
  <2>1. Append(c.msgs, msg) \in Seq([at : Nat, text : STRING])
    BY <1>2 DEF CallRecords
  <2>2. WithMsg(c, p) = [c EXCEPT !.msgs = Append(c.msgs, msg)]
    BY DEF WithMsg, msg
  <2>3. QED
    BY <2>1, <2>2 DEF CallRecords
<1>4. NewCall(p) \in CallRecords
  BY <1>1 DEF NewCall, Unchecked, CallRecords, ColumnSets
<1>5. \/ calls' = calls
      \/ calls' = [i \in DOMAIN calls |-> IF calls[i].id = p.call THEN WithMsg(calls[i], p) ELSE calls[i]]
      \/ calls' = sip_list_sorter(calls, WithMsg(NewCall(p), p), sort.by, sort.asc)
  BY DEF Packet, p
<1>6. CASE calls' = calls
  BY <1>1, <1>6, <1>20 DEF CallsType
<1>7. CASE calls' = [i \in DOMAIN calls |-> IF calls[i].id = p.call THEN WithMsg(calls[i], p) ELSE calls[i]]
  <2>1. \A i \in 1 .. Len(calls) : calls[i] \in CallRecords /\ WithMsg(calls[i], p) \in CallRecords
    BY <1>3 DEF CallsType
  <2>2. DOMAIN calls = 1 .. Len(calls) /\ DOMAIN calls' = DOMAIN calls /\ calls' = [i \in DOMAIN calls |-> calls'[i]]
    BY <1>7 DEF CallsType
  <2>3. \A i \in 1 .. Len(calls) : calls'[i] = calls[i] \/ calls'[i] = WithMsg(calls[i], p)
    BY <1>7, <2>2
  <2>4. calls' \in Seq(CallRecords) /\ Len(calls') = Len(calls)
    <3>1. \A i \in 1 .. Len(calls) : calls'[i] \in CallRecords
      BY <2>1, <2>3
    <3>2. calls' = [i \in 1 .. Len(calls) |-> calls'[i]] /\ calls \in Seq(CallRecords)
      BY <2>2 DEF CallsType
    <3>3. QED
      BY <3>1, <3>2, MapFacts
  <2>5. QED
    BY <1>1, <1>20, <2>3, <2>4 DEF CallsType, p
<1>8. CASE calls' = sip_list_sorter(calls, WithMsg(NewCall(p), p), sort.by, sort.asc)
  <2>1. WithMsg(NewCall(p), p) \in CallRecords
    BY <1>3, <1>4
  <2>2. /\ calls' \in Seq(CallRecords)
        /\ Range(calls') = Range(calls) \cup {WithMsg(NewCall(p), p)}
    BY <1>8, <2>1, SorterFacts DEF CallsType
  <2>3. QED
    BY <1>1, <1>20, <2>2 DEF CallsType, p
<1>9. QED
  BY <1>5, <1>6, <1>7, <1>8

\* Only "Accept" in the columns panel changes the columns of the list
\* (column_select_update_columns).
LEMMA ColumnsOfListStep ==
  ASSUME Next, ColumnsOfList
  PROVE  ColumnsOfList'
<1> USE DEF ColumnsOfList, ListFields
<1>1. CASE Draw
  BY <1>1 DEF Draw
<1>2. CASE Packet \/ ConfirmTimeout
  BY <1>2 DEF Packet, ConfirmTimeout, screen
<1>3. CASE Dismiss
  BY <1>3 DEF Dismiss
<1>4. ASSUME NEW key \in Keys, ConfirmMove(key) \/ ConfirmAnswer(key)
      PROVE  list' = list
  BY <1>4 DEF ConfirmMove, ConfirmAnswer, screen
<1>5. ASSUME NEW key \in Keys, PanelKey(key)
      PROVE  ColumnsOfList'
  <2>1. CASE ListKey(key)
    BY <2>1 DEF ListKey, ListShow, ListOpen, FilterOpen, ListSelect, ListForm, ListMenu, ListDeselect,
                ListQuit
  <2>2. CASE ListSave(key) \/ FlowSave(key) \/ RawSave(key)
    BY <2>2 DEF ListSave, FlowSave, RawSave
  <2>3. CASE ClearCalls(key)
    BY <2>3 DEF ClearCalls, call_list_clear
  <2>4. CASE FormKey(key, Action("form", key, TRUE))
    BY <2>4 DEF FormKey, call_list_clear
  <2>5. CASE MenuKey(key, Action("menu", key, FALSE))
    BY <2>5 DEF MenuKey
  <2>6. CASE FlowRaw(key) \/ FlowMessage(key) \/ FlowSelect(key) \/ FlowClear(key)
    BY <2>6 DEF FlowRaw, FlowMessage, FlowSelect, FlowClear
  <2>7. CASE FilterEdit(key) \/ FilterConfirm(key)
    BY <2>7 DEF FilterEdit, FilterConfirm, filter_save_options, call_list_clear
  <2>8. CASE SaveEdit(key) \/ SaveConfirm(key) \/ SaveCancel(key)
    BY <2>8 DEF SaveEdit, SaveConfirm, SaveCancel
  <2>9. CASE OwnKey(key) \/ DefaultKey(key, Action("default", key, FALSE))
    BY <2>9 DEF OwnKey, DefaultKey
  <2>10. CASE ColumnsAccept(key)
    BY <2>10 DEF ColumnsAccept, ColumnSets
  <2>11. QED
    BY <1>5, <2>1, <2>2, <2>3, <2>4, <2>5, <2>6, <2>7, <2>8, <2>9, <2>10 DEF PanelKey
<1>6. QED
  BY <1>1, <1>2, <1>3, <1>4, <1>5 DEF Next

LEMMA CallsTypeStep == CallsType /\ [Next]_vars => CallsType'
<1> SUFFICES ASSUME CallsType, [Next]_vars PROVE CallsType'
  OBVIOUS
<1>1. CASE UNCHANGED vars
  BY <1>1 DEF vars, screen, store, CallsType, ColumnsOfList
<1>2. CASE Packet
  BY <1>2, PacketFacts
<1>3. ASSUME Next PROVE ColumnsOfList'
  BY <1>3, ColumnsOfListStep DEF CallsType
<1>4. ASSUME NEW key \in Keys, ClearCalls(key), Next PROVE CallsType'
  <2>1. (calls' = <<>> \/ calls' = Displayed(calls)) /\ arrivals' = arrivals
    BY <1>4 DEF ClearCalls
  <2>2. <<>> \in Seq(CallRecords) /\ Displayed(calls) \in Seq(CallRecords)
    BY DisplayedFacts DEF CallsType
  <2>3. QED
    BY <1>3, <1>4, <2>1, <2>2 DEF CallsType
<1>5. CASE Next /\ (CallsChecked \/ CallsSorted \/ CallsReset) /\ arrivals' = arrivals
  <2>1. calls' \in Seq(CallRecords)
    BY <1>5, CheckedFacts, SortFacts, ResetFacts DEF CallsType, CallsChecked, CallsSorted, CallsReset
  <2>2. QED
    BY <1>3, <1>5, <2>1 DEF CallsType
<1>6. QED
  BY <1>1, <1>2, <1>4, <1>5, CallsStep

\* Only the keys that clear the calls take calls or messages away.
Times(cs) == UNION {TimesOf(c) : c \in Range(cs)}
CallsGrow == IdsOf(calls) \subseteq IdsOf(calls') /\ Times(calls) \subseteq Times(calls')

LEMMA GrowFacts ==
  ASSUME CallsType, CallsType',
         \A c \in Range(calls) : \E d \in Range(calls') : d.id = c.id /\ TimesOf(c) \subseteq TimesOf(d)
  PROVE  CallsGrow
BY DEF CallsGrow, IdsOf, Times

LEMMA GrowStep ==
  ASSUME CallsType, Next, \A key \in Keys : ~ClearCalls(key)
  PROVE  CallsGrow
<1>1. CallsType'
  BY CallsTypeStep
<1> DEFINE Kept(c) == \E d \in Range(calls') : d.id = c.id /\ TimesOf(c) \subseteq TimesOf(d)
<1>2. ASSUME Len(calls') = Len(calls),
             \A i \in 1 .. Len(calls) : calls'[i].id = calls[i].id /\ TimesOf(calls[i]) \subseteq TimesOf(calls'[i])
      PROVE  \A c \in Range(calls) : Kept(c)
  <2>1. DOMAIN calls = 1 .. Len(calls) /\ DOMAIN calls' = 1 .. Len(calls)
    BY <1>1, <1>2 DEF CallsType
  <2>2. QED
    BY <1>2, <2>1 DEF Range
<1>3. CASE Packet
  <2> DEFINE p == Head(arrivals)
  <2>1. ASSUME NEW i \in 1 .. Len(calls)
        PROVE  WithMsg(calls[i], p).id = calls[i].id /\ TimesOf(calls[i]) \subseteq TimesOf(WithMsg(calls[i], p))
    <3> DEFINE c == calls[i]
               msg == [at |-> p.at, text |-> p.text]
    <3>1. c \in CallRecords
      BY DEF CallsType
    <3>2. WithMsg(c, p).id = c.id /\ WithMsg(c, p).msgs = Append(c.msgs, msg)
      BY <3>1 DEF WithMsg, CallRecords
    <3>3. Range(c.msgs) \subseteq Range(Append(c.msgs, msg))
      <4> HIDE DEF msg
      <4>1. c.msgs \in Seq([at : Nat, text : STRING])
        BY <3>1 DEF CallRecords
      <4>2. PICK s \in Seq([at : Nat, text : STRING]) : s = c.msgs
        BY <4>1
      <4>3. /\ DOMAIN s = 1 .. Len(s) /\ DOMAIN Append(s, msg) = 1 .. Len(s) + 1
            /\ \A j \in 1 .. Len(s) : Append(s, msg)[j] = s[j] /\ j \in 1 .. Len(s) + 1
        OBVIOUS
      <4>4. Range(s) \subseteq Range(Append(s, msg))
        BY <4>3 DEF Range
      <4>5. QED
        BY <4>2, <4>4
    <3>4. QED
      BY <3>2, <3>3 DEF TimesOf
  <2>2. CASE calls' = calls
    BY <2>2 DEF CallsGrow
  <2>3. CASE /\ Len(calls') = Len(calls)
             /\ \A i \in 1 .. Len(calls) : calls'[i] = calls[i] \/ calls'[i] = WithMsg(calls[i], p)
    BY <1>1, <1>2, <2>1, <2>3, GrowFacts
  <2>4. CASE Range(calls') = Range(calls) \cup {WithMsg(NewCall(p), p)}
    BY <1>1, <2>4, GrowFacts
  <2>5. QED
    BY <1>1, <1>3, <2>2, <2>3, <2>4, PacketFacts, GrowFacts
<1>4. CASE CallsChecked
  <2>1. ASSUME calls' = Checked(calls)
        PROVE  \A i \in 1 .. Len(calls) : calls'[i].id = calls[i].id /\ TimesOf(calls[i]) \subseteq TimesOf(calls'[i])
    <3>1. calls \in Seq(CallRecords)
      BY DEF CallsType
    <3>2. ColumnsOfList
      BY DEF CallsType
    <3> SUFFICES ASSUME NEW i \in 1 .. Len(calls)
                 PROVE  calls'[i].id = calls[i].id /\ TimesOf(calls[i]) \subseteq TimesOf(calls'[i])
      OBVIOUS
    <3>3. calls'[i] = filter_check_call(calls[i])
      BY <2>1, <3>1, <3>2, CheckedFacts
    <3>4. calls[i] \in CallRecords
      BY <3>1
    <3>5. calls'[i].id = calls[i].id /\ calls'[i].msgs = calls[i].msgs
      BY <3>2, <3>3, <3>4, CheckFacts
    <3>6. QED
      BY <3>5 DEF TimesOf
  <2>2. QED
    BY <1>1, <1>2, <1>4, <2>1, CheckedFacts, GrowFacts DEF CallsChecked, CallsType
<1>5. CASE CallsSorted
  <2>1. Range(calls') = Range(calls)
    BY <1>5, SortFacts DEF CallsSorted, CallsType
  <2>2. QED
    BY <1>1, <2>1, GrowFacts
<1>6. CASE CallsReset
  <2>1. \A i \in 1 .. Len(calls) : calls'[i].id = calls[i].id /\ TimesOf(calls[i]) \subseteq TimesOf(calls'[i])
    BY <1>6, ResetFacts, UncheckedFacts DEF CallsType, CallsReset, TimesOf
  <2>2. QED
    BY <1>1, <1>2, <1>6, <2>1, ResetFacts, GrowFacts DEF CallsReset, CallsType
<1>7. QED
  BY <1>3, <1>4, <1>5, <1>6, CallsStep

-------------------------------------------------------------------------------
(* The data of the panels.  What is shown is closed before what it was      *)
(* opened from, so that no panel is twice in the stack, and the flow and    *)
(* raw panels under another one hold calls that are still there.            *)

\* The panels that can be under a panel
Below(which) ==
  CASE which = "list" -> {}
    [] which = "flow" -> {"list"}
    [] which = "raw" -> {"list", "flow"}
    [] which = "settings" -> PanelNames \ {"settings"}
    [] OTHER -> {"list", "flow", "raw"}

Nested(st) == \A i, j \in DOMAIN st : i < j => st[i] \in Below(st[j])

\* A group holds no call twice.
CallGroups(ids) == {g \in Seq(ids) : IsInjective(g)}

LiveMsg(m, times) == m = NoInfo \/ m \in times

\* Groups and messages of a panel are among those of the calls.
LiveData(which, data, ids, times) ==
  /\ which = "flow" => /\ DOMAIN data = {"group", "selected"}
                       /\ data.group \in CallGroups(ids)
                       /\ LiveMsg(data.selected, times)
  /\ which \in {"raw", "save"} => /\ {"group", "msg"} \subseteq DOMAIN data
                                  /\ data.group = NoInfo \/ data.group \in CallGroups(ids)
                                  /\ LiveMsg(data.msg, times)
  /\ which = "save" => /\ data.group \in CallGroups(ids)
                       /\ "mode" \in DOMAIN data
                       /\ data.mode \in {"all", "selected", "displayed", "message"}
  /\ which = "diff" => LiveMsg(data.one, times) /\ LiveMsg(data.two, times)

InfoLive(st, inf, ids, times) ==
  /\ DOMAIN inf = PanelNames
  /\ \A which \in PanelNames :
       /\ which \in Range(st) => LiveData(which, inf[which], ids, times)
       /\ which \notin Range(st) => inf[which] = NoInfo

StackLive(st, inf, ids, times) ==
  st \in Seq(PanelNames) /\ Nested(st) /\ InfoLive(st, inf, ids, times)

\* The lines of the list are calls that exist while it waits for a key.
ListLive(st, lst, seen, ids) ==
  /\ DOMAIN lst = ListFields
  /\ lst.group \in CallGroups(ids)
  /\ lst.dcalls \in Seq(Nat)
  /\ seen /\ Last(st) = "list" => Range(lst.dcalls) \subseteq ids

DialogType == dialog # NoDialog => stack # <<>> /\ ~drawn

LiveInv ==
  /\ CallsType
  /\ StackLive(stack, info, IdsOf(calls), Times(calls))
  /\ ListLive(stack, list, drawn, IdsOf(calls))
  /\ DialogType

\* What is live stays so as calls and messages are added.
LEMMA GroupGrow ==
  ASSUME NEW ids, NEW more, ids \subseteq more, NEW g \in CallGroups(ids)
  PROVE  g \in CallGroups(more)
BY DEF CallGroups

LEMMA GroupFacts ==
  ASSUME NEW ids
  PROVE  /\ <<>> \in CallGroups(ids)
         /\ \A c \in ids : <<c>> \in CallGroups(ids)
         /\ CallGroups(ids) \subseteq Seq(ids)
<1>1. /\ <<>> \in Seq(ids) /\ \A i, j \in DOMAIN <<>> : i = j
      /\ \A c \in ids : <<c>> \in Seq(ids) /\ \A i, j \in DOMAIN <<c>> : i = j
  OBVIOUS
<1>2. QED
  BY <1>1 DEF CallGroups, IsInjective

LEMMA DataGrow ==
  ASSUME NEW ids, NEW times, NEW ids2, NEW times2, ids \subseteq ids2, times \subseteq times2,
         NEW which, NEW data, LiveData(which, data, ids, times)
  PROVE  LiveData(which, data, ids2, times2)
BY GroupGrow DEF LiveData, LiveMsg

LEMMA StackGrow ==
  ASSUME NEW ids, NEW times, NEW ids2, NEW times2, ids \subseteq ids2, times \subseteq times2,
         NEW st, NEW inf, StackLive(st, inf, ids, times)
  PROVE  StackLive(st, inf, ids2, times2)
BY DataGrow DEF StackLive, InfoLive

\* The topmost panel is there once, over panels it can be opened from.
LEMMA TopFacts ==
  ASSUME StackType, Nested(stack), stack # <<>>
  PROVE  /\ Top \in PanelNames /\ Top \in Range(stack) /\ Top = stack[Len(stack)]
         /\ Range(stack) \subseteq Below(Top) \cup {Top}
         /\ Top \notin Range(Front(stack))
         /\ Front(stack) \in Seq(PanelNames) /\ Nested(Front(stack))
         /\ Range(stack) = Range(Front(stack)) \cup {Top}
<1>1. /\ Front(stack) \in Seq(PanelNames) /\ Len(Front(stack)) = Len(stack) - 1 /\ Top = stack[Len(stack)]
      /\ \A i \in 1 .. Len(stack) - 1 : Front(stack)[i] = stack[i]
      /\ Range(stack) = Range(Front(stack)) \cup {Top}
      /\ Top \in PanelNames
  BY FrontFacts DEF StackType, Top
<1>2. Len(stack) \in Nat /\ Len(stack) # 0 /\ DOMAIN stack = 1 .. Len(stack)
  BY DEF StackType
<1>3. DOMAIN Front(stack) = 1 .. Len(stack) - 1
  BY <1>1
<1>4. \A i \in 1 .. Len(stack) - 1 : i \in DOMAIN stack /\ Len(stack) \in DOMAIN stack /\ i < Len(stack)
  BY <1>2
<1>5. \A i \in 1 .. Len(stack) - 1 : stack[i] \in Below(Top)
  BY <1>1, <1>4 DEF Nested
<1>6. Range(Front(stack)) \subseteq Below(Top)
  BY <1>1, <1>3, <1>5 DEF Range
<1>7. Top \notin Below(Top)
  BY <1>1 DEF Below, PanelNames
<1>8. Nested(Front(stack))
  BY <1>1, <1>3, <1>4 DEF Nested
<1>9. QED
  BY <1>1, <1>6, <1>7, <1>8

LEMMA OpenFacts ==
  ASSUME NEW ids, NEW times, StackLive(stack, info, ids, times),
         NEW which \in PanelNames, Range(stack) \subseteq Below(which),
         NEW data, LiveData(which, data, ids, times), Open(which, data)
  PROVE  StackLive(stack', info', ids, times)
<1>1. stack \in Seq(PanelNames) /\ Nested(stack) /\ InfoLive(stack, info, ids, times)
  BY DEF StackLive
<1>2. stack' = Append(stack, which) /\ info' = [info EXCEPT ![which] = data]
  BY DEF Open
<1>3. stack' \in Seq(PanelNames) /\ Range(stack') = Range(stack) \cup {which}
  BY <1>1, <1>2, AppendFacts
<1>4. Nested(stack')
  <2>1. /\ Len(stack) \in Nat /\ DOMAIN stack = 1 .. Len(stack) /\ DOMAIN stack' = 1 .. Len(stack) + 1
        /\ stack'[Len(stack) + 1] = which
        /\ \A i \in 1 .. Len(stack) : stack'[i] = stack[i]
    BY <1>1, <1>2
  <2>2. \A i \in 1 .. Len(stack) : stack[i] \in Below(which)
    BY <2>1 DEF Range
  <2>3. SUFFICES ASSUME NEW i \in DOMAIN stack', NEW j \in DOMAIN stack', i < j
                 PROVE  stack'[i] \in Below(stack'[j])
    BY DEF Nested
  <2>4. i \in 1 .. Len(stack) /\ (j = Len(stack) + 1 \/ j \in 1 .. Len(stack))
    BY <2>1, <2>3
  <2>5. QED
    BY <1>1, <2>1, <2>2, <2>3, <2>4 DEF Nested
<1>5. InfoLive(stack', info', ids, times)
  BY <1>1, <1>2, <1>3 DEF InfoLive
<1>6. QED
  BY <1>3, <1>4, <1>5 DEF StackLive

LEMMA CloseFacts ==
  ASSUME NEW ids, NEW times, StackLive(stack, info, ids, times), stack # <<>>, Close
  PROVE  StackLive(stack', info', ids, times)
<1>1. StackType /\ Nested(stack) /\ InfoLive(stack, info, ids, times)
  BY DEF StackLive, StackType
<1>2. stack' = Front(stack) /\ info' = [info EXCEPT ![Top] = NoInfo]
  BY DEF Close
<1>3. /\ Top \in PanelNames /\ Top \notin Range(stack') /\ Range(stack) = Range(stack') \cup {Top}
      /\ stack' \in Seq(PanelNames) /\ Nested(stack')
  BY <1>1, <1>2, TopFacts
<1>4. InfoLive(stack', info', ids, times)
  BY <1>1, <1>2, <1>3 DEF InfoLive
<1>5. QED
  BY <1>3, <1>4 DEF StackLive

LEMMA EditFacts ==
  ASSUME NEW ids, NEW times, StackLive(stack, info, ids, times), NEW which \in Range(stack),
         NEW data, info' = [info EXCEPT ![which] = data], LiveData(which, data, ids, times)
  PROVE  StackLive(stack, info', ids, times)
<1>1. which \in PanelNames
  BY DEF StackLive, Range
<1>2. QED
  BY <1>1 DEF StackLive, InfoLive

LEMMA MsgsInFacts ==
  ASSUME NEW group \in Seq(IdsOf(calls))
  PROVE  MsgsIn(group) \subseteq Times(calls)
<1>1. \A id \in Range(group) : id \in IdsOf(calls)
  BY DEF Range
<1>2. \A id \in IdsOf(calls) : CallOf(id) \in Range(calls)
  BY DEF IdsOf, CallOf
<1>3. QED
  BY <1>1, <1>2 DEF MsgsIn, Times

\* What the panels that can be topmost know of the stack
LEMMA ReadyFacts ==
  ASSUME LiveInv, Ready
  PROVE  /\ stack # <<>> /\ Top \in PanelNames /\ Top \in Range(stack)
         /\ Range(stack) \subseteq Below(Top) \cup {Top}
         /\ LiveData(Top, info[Top], IdsOf(calls), Times(calls))
         /\ Top = "list" => Range(list.dcalls) \subseteq IdsOf(calls)
<1>1. stack # <<>> /\ (Top = "list" => drawn)
  BY DEF Ready, Computing
<1>2. StackType /\ Nested(stack) /\ InfoLive(stack, info, IdsOf(calls), Times(calls))
  BY DEF LiveInv, StackLive, StackType
<1>3. Top \in PanelNames /\ Top \in Range(stack) /\ Range(stack) \subseteq Below(Top) \cup {Top}
  BY <1>1, <1>2, TopFacts
<1>4. QED
  BY <1>1, <1>2, <1>3 DEF InfoLive, LiveInv, ListLive, Top

\* Opening and closing of panels, and the keys that change what one shows.
LEMMA StackLiveStep ==
  ASSUME LiveInv, Next, \A key \in Keys : ~ClearCalls(key)
  PROVE  StackLive(stack', info', IdsOf(calls), Times(calls))
<1> DEFINE ids == IdsOf(calls)
           times == Times(calls)
           Goal == StackLive(stack', info', ids, times)
<1>1. StackLive(stack, info, ids, times) /\ DialogType
  BY DEF LiveInv
<1>2. ASSUME UNCHANGED <<stack, info>> PROVE Goal
  BY <1>1, <1>2
<1>3. ASSUME Close, stack # <<>> PROVE Goal
  BY <1>1, <1>3, CloseFacts
<1>4. LiveMsg(NoInfo, times)
  BY DEF LiveMsg
<1> SUFFICES Goal
  OBVIOUS
<1> HIDE DEF ids, times, Goal
<1>5. CASE Draw
  <2>1. stack' = stack /\ stack # <<>>
    BY <1>5 DEF Draw
  <2>2. CASE Top = "save"
    <3> DEFINE data == [info["save"] EXCEPT !.format = FormatOf(info["save"])]
    <3>1. info' = [info EXCEPT !["save"] = data]
      BY <1>5, <2>2 DEF Draw
    <3>2. "save" \in Range(stack) /\ "save" \in PanelNames
      BY <1>1, <2>1, <2>2, TopFacts DEF StackLive, StackType
    <3>3. LiveData("save", info["save"], ids, times)
      BY <1>1, <3>2 DEF StackLive, InfoLive
    <3>4. LiveData("save", data, ids, times)
      BY <3>3 DEF LiveData
    <3> HIDE DEF data
    <3>5. QED
      BY <1>1, <2>1, <3>1, <3>2, <3>4, EditFacts DEF Goal
  <2>3. CASE Top # "save"
    BY <1>2, <1>5, <2>3 DEF Draw
  <2>4. QED
    BY <2>2, <2>3
<1>6. CASE Packet \/ ConfirmTimeout
  BY <1>2, <1>6 DEF Packet, ConfirmTimeout, screen
<1>7. ASSUME NEW key \in Keys, Ready, PanelKey(key)
      PROVE  Goal
  <2>1. /\ stack # <<>> /\ Top \in PanelNames /\ Top \in Range(stack)
        /\ Range(stack) \subseteq Below(Top) \cup {Top}
        /\ LiveData(Top, info[Top], ids, times)
        /\ Top = "list" => Range(list.dcalls) \subseteq ids
    BY <1>7, ReadyFacts DEF ids, times
  <2>2. list.group \in CallGroups(ids)
    BY DEF LiveInv, ListLive, ids
  <2>3. ASSUME NEW which \in PanelNames, NEW data, Range(stack) \subseteq Below(which),
               LiveData(which, data, ids, times), Open(which, data)
        PROVE  Goal
    BY <1>1, <2>3, OpenFacts DEF Goal
  <2>4. ASSUME NEW data, info' = [info EXCEPT ![Top] = data], stack' = stack, LiveData(Top, data, ids, times)
        PROVE  Goal
    BY <1>1, <2>1, <2>4, EditFacts DEF Goal
  <2>5. CASE Handler = "list" /\ (ListKey(key) \/ ListSave(key))
    <3>1. Top = "list" /\ Range(stack) \subseteq {"list"}
      BY <2>1, <2>5, HandlerFacts DEF Below
    <3>2. CASE ListShow(key, ACTION_SHOW_FLOW, "flow") \/ ListShow(key, ACTION_SHOW_RAW, "raw")
      <4>1. PICK which \in {"flow", "raw"}, c \in Range(list.dcalls) :
              LET group == IF list.group = <<>> THEN <<c>> ELSE list.group
              IN  Open(which, IF which = "flow" THEN call_flow_set_group(group) ELSE call_raw_set_group(group))
        BY <3>2 DEF ListShow
      <4> DEFINE group == IF list.group = <<>> THEN <<c>> ELSE list.group
      <4>2. c \in ids
        BY <2>1, <3>1
      <4>3. group \in CallGroups(ids)
        BY <2>2, <4>2, GroupFacts
      <4> HIDE DEF group
      <4>4. CASE which = "flow"
        <5>1. Open("flow", call_flow_set_group(group))
          BY <4>1, <4>4 DEF group
        <5>2. LiveData("flow", call_flow_set_group(group), ids, times)
          BY <1>4, <4>3 DEF LiveData, call_flow_set_group
        <5>3. QED
          BY <2>3, <3>1, <5>1, <5>2 DEF Below, PanelNames
      <4>5. CASE which = "raw"
        <5>1. Open("raw", call_raw_set_group(group))
          BY <4>1, <4>5 DEF group
        <5>2. LiveData("raw", call_raw_set_group(group), ids, times)
          BY <1>4, <4>3 DEF LiveData, call_raw_set_group
        <5>3. QED
          BY <2>3, <3>1, <5>1, <5>2 DEF Below, PanelNames
      <4>6. QED
        BY <4>4, <4>5
    <3>3. CASE \/ ListOpen(key, ACTION_SHOW_COLUMNS, "columns") \/ ListOpen(key, ACTION_SHOW_STATS, "stats")
               \/ ListOpen(key, ACTION_SHOW_SETTINGS, "settings") \/ FilterOpen(key)
      <4>1. PICK which \in {"columns", "stats", "settings", "filter"} : \E data : Open(which, data)
        BY <3>3 DEF ListOpen, FilterOpen
      <4>2. PICK data : Open(which, data)
        BY <4>1
      <4>3. LiveData(which, data, ids, times) /\ which \in PanelNames /\ {"list"} \subseteq Below(which)
        BY DEF LiveData, PanelNames, Below
      <4>4. QED
        BY <2>3, <3>1, <4>2, <4>3
    <3>4. CASE ListSelect(key) \/ ListForm(key) \/ ListMenu(key) \/ ListDeselect(key)
      BY <1>2, <3>4 DEF ListSelect, ListForm, ListMenu, ListDeselect
    <3>5. CASE ListQuit(key)
      BY <1>2, <1>3, <2>1, <3>5 DEF ListQuit
    <3>6. CASE ListSave(key)
      <4>1. CASE Refuse
        BY <1>2, <4>1 DEF Refuse
      <4>2. CASE OpenSave(list.group, NoInfo)
        BY <1>4, <2>2, <2>3, <3>1, <4>2 DEF OpenSave, LiveData, Below, PanelNames
      <4>3. QED
        BY <3>6, <4>1, <4>2 DEF ListSave
    <3>7. QED
      BY <2>5, <3>2, <3>3, <3>4, <3>5, <3>6 DEF ListKey
  <2>6. CASE FormKey(key, Action("form", key, TRUE)) \/ MenuKey(key, Action("menu", key, FALSE))
    BY <1>2, <2>6 DEF FormKey, MenuKey
  <2>7. CASE Handler = "flow" /\ (FlowRaw(key) \/ FlowMessage(key) \/ FlowSelect(key) \/ FlowClear(key) \/ FlowSave(key))
    <3>1. Top = "flow" /\ Range(stack) \subseteq {"list", "flow"}
      BY <2>1, <2>7, HandlerFacts DEF Below
    <3>2. /\ DOMAIN info["flow"] = {"group", "selected"}
          /\ info["flow"].group \in CallGroups(ids) /\ LiveMsg(info["flow"].selected, times)
      BY <2>1, <3>1 DEF LiveData
    <3>3. \A m \in MsgsIn(info["flow"].group) : LiveMsg(m, times)
      BY <3>2, MsgsInFacts, GroupFacts DEF LiveMsg, ids, times
    <3>4. CASE FlowRaw(key)
      <4>1. LiveData("raw", call_raw_set_group(info["flow"].group), ids, times)
        BY <1>4, <3>2 DEF LiveData, call_raw_set_group
      <4>2. QED
        BY <2>3, <3>1, <3>4, <4>1 DEF FlowRaw, Below, PanelNames
    <3>5. CASE FlowMessage(key)
      <4>1. PICK m \in MsgsIn(info["flow"].group) : Open("raw", call_raw_set_msg(m))
        BY <3>5 DEF FlowMessage
      <4>2. LiveData("raw", call_raw_set_msg(m), ids, times)
        BY <3>3 DEF LiveData, call_raw_set_msg
      <4>3. QED
        BY <2>3, <3>1, <4>1, <4>2 DEF Below, PanelNames
    <3>6. ASSUME NEW m, LiveMsg(m, times), info' = [info EXCEPT !["flow"].selected = m], stack' = stack
          PROVE  Goal
      <4> DEFINE data == [info["flow"] EXCEPT !.selected = m]
      <4>1. info' = [info EXCEPT ![Top] = data]
        BY <3>1, <3>6
      <4>2. LiveData("flow", data, ids, times)
        BY <3>2, <3>6 DEF LiveData
      <4> HIDE DEF data
      <4>3. QED
        BY <2>4, <3>1, <3>6, <4>1, <4>2
    <3>7. CASE FlowSelect(key)
      <4>1. PICK m \in MsgsIn(info["flow"].group) :
              \/ info' = [info EXCEPT !["flow"].selected = m] /\ UNCHANGED stack
              \/ info' = [info EXCEPT !["flow"].selected = NoInfo] /\ UNCHANGED stack
              \/ Open("diff", msg_diff_set_msgs(info["flow"].selected, m))
        BY <3>7 DEF FlowSelect
      <4>2. LiveData("diff", msg_diff_set_msgs(info["flow"].selected, m), ids, times)
        BY <3>2, <3>3 DEF LiveData, msg_diff_set_msgs
      <4>3. QED
        BY <1>4, <2>3, <3>1, <3>3, <3>6, <4>1, <4>2 DEF Below, PanelNames
    <3>8. CASE FlowClear(key)
      BY <1>4, <3>6, <3>8 DEF FlowClear
    <3>9. CASE FlowSave(key)
      <4>1. CASE Refuse
        BY <1>2, <4>1 DEF Refuse
      <4>2. ASSUME NEW m \in MsgsIn(info["flow"].group), OpenSave(info["flow"].group, m)
            PROVE  Goal
        BY <2>3, <3>1, <3>2, <3>3, <4>2 DEF OpenSave, LiveData, Below, PanelNames
      <4>3. QED
        BY <3>9, <4>1, <4>2 DEF FlowSave
    <3>10. QED
      BY <2>7, <3>4, <3>5, <3>7, <3>8, <3>9
  <2>8. CASE Handler = "raw" /\ RawSave(key)
    <3>1. Top = "raw" /\ Range(stack) \subseteq {"list", "flow", "raw"}
      BY <2>1, <2>8, HandlerFacts DEF Below
    <3>2. info["raw"].group = NoInfo \/ info["raw"].group \in CallGroups(ids)
      BY <2>1, <3>1 DEF LiveData
    <3>3. CASE Refuse
      BY <1>2, <3>3 DEF Refuse
    <3>4. CASE info["raw"].group # NoInfo /\ OpenSave(info["raw"].group, NoInfo)
      BY <1>4, <2>3, <3>1, <3>2, <3>4 DEF OpenSave, LiveData, Below, PanelNames
    <3>5. QED
      BY <2>8, <3>3, <3>4 DEF RawSave
  <2>9. CASE Handler = "filter" /\ (FilterEdit(key) \/ FilterConfirm(key))
    <3>1. Top = "filter"
      BY <2>1, <2>9, HandlerFacts
    <3>2. \A data : LiveData("filter", data, ids, times)
      BY DEF LiveData
    <3>3. CASE FilterEdit(key)
      <4>1. stack' = stack /\ \E data : info' = [info EXCEPT !["filter"] = data]
        BY <3>3 DEF FilterEdit
      <4>2. QED
        BY <2>4, <3>1, <3>2, <4>1
    <3>4. CASE FilterConfirm(key)
      BY <1>3, <2>1, <3>4 DEF FilterConfirm
    <3>5. QED
      BY <2>9, <3>3, <3>4
  <2>10. CASE Handler = "save" /\ (SaveEdit(key) \/ SaveConfirm(key) \/ SaveCancel(key))
    <3>1. Top = "save"
      BY <2>1, <2>10, HandlerFacts
    <3>2. LiveData("save", info["save"], ids, times)
      BY <2>1, <3>1
    <3>3. CASE SaveEdit(key)
      <4>1. PICK field \in {"name", "mode", "format"} :
              \E x : /\ stack' = stack /\ info' = [info EXCEPT !["save"] = [info["save"] EXCEPT ![field] = x]]
                     /\ field = "mode" => x \in Modes
        BY <3>3 DEF SaveEdit
      <4>2. PICK x : /\ stack' = stack /\ info' = [info EXCEPT !["save"] = [info["save"] EXCEPT ![field] = x]]
                     /\ field = "mode" => x \in {"all", "selected", "displayed", "message"}
        BY <4>1 DEF Modes
      <4>3. LiveData("save", [info["save"] EXCEPT ![field] = x], ids, times)
        BY <3>2, <4>2 DEF LiveData
      <4>4. QED
        BY <2>4, <3>1, <4>2, <4>3
    <3>4. CASE SaveConfirm(key)
      BY <1>2, <3>4 DEF SaveConfirm
    <3>5. CASE SaveCancel(key)
      BY <1>3, <2>1, <3>5 DEF SaveCancel
    <3>6. QED
      BY <2>10, <3>3, <3>4, <3>5
  <2>11. CASE OwnKey(key) \/ ColumnsAccept(key)
    BY <1>2, <1>3, <2>1, <2>11 DEF OwnKey, ColumnsAccept
  <2>12. CASE DefaultKey(key, Action("default", key, FALSE))
    <3>1. \/ Close
          \/ UNCHANGED <<stack, info>>
          \/ "settings" \notin Range(stack) /\ Open("settings", NoInfo)
      BY <2>12 DEF DefaultKey
    <3>2. ASSUME "settings" \notin Range(stack), Open("settings", NoInfo)
          PROVE  Goal
      <4>1. Range(stack) \subseteq PanelNames
        BY <1>1 DEF StackLive, Range
      <4>2. Range(stack) \subseteq Below("settings") /\ "settings" \in PanelNames
        BY <3>2, <4>1 DEF Below, PanelNames
      <4>3. LiveData("settings", NoInfo, ids, times)
        BY DEF LiveData
      <4>4. QED
        BY <2>3, <3>2, <4>2, <4>3
    <3>3. QED
      BY <1>2, <1>3, <2>1, <3>1, <3>2
  <2>13. QED
    BY <1>7, <2>5, <2>6, <2>7, <2>8, <2>9, <2>10, <2>11, <2>12 DEF PanelKey
<1>8. CASE Dismiss
  <2>1. stack # <<>>
    BY <1>1, <1>8 DEF Dismiss, DialogType, NoDialog
  <2>2. QED
    BY <1>2, <1>3, <1>8, <2>1 DEF Dismiss
<1>9. ASSUME NEW key \in Keys, ConfirmMove(key) \/ ConfirmAnswer(key)
      PROVE  Goal
  <2>1. stack # <<>>
    BY <1>1, <1>9 DEF ConfirmMove, ConfirmAnswer, Questions, DialogType, NoDialog
  <2>2. QED
    BY <1>2, <1>3, <1>9, <2>1 DEF ConfirmMove, ConfirmAnswer, screen
<1>10. QED
  BY <1>5, <1>6, <1>7, <1>8, <1>9 DEF Next

\* The lines and the selection of the list.
LEMMA ListLiveStep ==
  ASSUME LiveInv, Next, \A key \in Keys : ~ClearCalls(key)
  PROVE  ListLive(stack', list', drawn', IdsOf(calls))
<1> DEFINE ids == IdsOf(calls)
           Goal == ListLive(stack', list', drawn', ids)
<1>1. /\ DOMAIN list = ListFields /\ list.group \in CallGroups(ids) /\ list.dcalls \in Seq(Nat)
      /\ ListLive(stack, list, drawn, ids)
      /\ CallsType /\ DialogType
  BY DEF LiveInv, ListLive
<1>2. \A c \in CallRecords : c.id \in Nat
  BY DEF CallRecords
<1>3. \A c \in Range(calls) : c.id \in ids
  BY DEF IdsOf
<1> SUFFICES Goal
  OBVIOUS
<1> HIDE DEF ids
<1>4. ASSUME UNCHANGED <<stack, list, drawn>> PROVE Goal
  BY <1>1, <1>4
<1>5. CASE Draw
  <2>1. CASE Top # "list"
    BY <1>1, <1>5, <2>1 DEF Draw, ListLive, Top
  <2>2. CASE Top = "list"
    <3> DEFINE shown == Displayed(calls)
               lines == [i \in DOMAIN shown |-> shown[i].id]
    <3>1. list' = [list EXCEPT !.dcalls = lines]
      BY <1>5, <2>2 DEF Draw
    <3>2. shown \in Seq(CallRecords) /\ Range(shown) \subseteq Range(Checked(calls))
      BY <1>1, DisplayedFacts DEF CallsType
    <3>3. \A c \in Range(Checked(calls)) : c.id \in ids
      <4>1. /\ Checked(calls) \in Seq(CallRecords) /\ Len(Checked(calls)) = Len(calls)
            /\ \A i \in 1 .. Len(calls) : Checked(calls)[i] = filter_check_call(calls[i])
        BY <1>1, CheckedFacts DEF CallsType
      <4>2. DOMAIN Checked(calls) = 1 .. Len(calls) /\ DOMAIN calls = 1 .. Len(calls)
        BY <1>1, <4>1 DEF CallsType
      <4>3. \A i \in 1 .. Len(calls) : filter_check_call(calls[i]).id \in ids
        <5>1. \A i \in 1 .. Len(calls) : calls[i] \in CallRecords /\ calls[i] \in Range(calls)
          <6>1. calls \in Seq(CallRecords)
            BY <1>1 DEF CallsType
          <6>2. QED
            BY <4>2, <6>1 DEF Range
        <5>2. \A c \in CallRecords : filter_check_call(c).id = c.id
          BY <1>1, CheckFacts DEF CallsType
        <5>3. QED
          BY <1>3, <5>1, <5>2
      <4>4. QED
        BY <4>1, <4>2, <4>3 DEF Range
    <3> HIDE DEF shown
    <3>4. \A i \in 1 .. Len(shown) : shown[i] \in CallRecords /\ shown[i] \in Range(shown)
      BY <3>2 DEF Range
    <3>5. \A i \in 1 .. Len(shown) : shown[i].id \in ids /\ shown[i].id \in Nat
      BY <1>2, <3>2, <3>3, <3>4
    <3>6. DOMAIN shown = 1 .. Len(shown)
      BY <3>2
    <3>7. lines = [i \in 1 .. Len(shown) |-> lines[i]] /\ \A i \in 1 .. Len(shown) : lines[i] = shown[i].id
      BY <3>6
    <3> HIDE DEF lines
    <3>8. lines \in Seq(Nat) /\ Len(lines) = Len(shown)
      BY <3>2, <3>5, <3>7
    <3>9. Range(lines) \subseteq ids
      BY <3>5, <3>7 DEF Range
    <3>10. DOMAIN list' = ListFields /\ list'.group = list.group /\ list'.dcalls = lines
      BY <1>1, <3>1 DEF ListFields
    <3>11. QED
      BY <1>1, <3>8, <3>9, <3>10 DEF ListLive
  <2>3. QED
    BY <2>1, <2>2
<1>6. CASE Packet \/ ConfirmTimeout
  BY <1>4, <1>6 DEF Packet, ConfirmTimeout, screen
<1>7. ASSUME NEW key \in Keys, Ready, PanelKey(key)
      PROVE  Goal
  <2>1. ASSUME drawn' = FALSE, UNCHANGED list PROVE Goal
    BY <1>1, <2>1 DEF ListLive
  <2>2. ASSUME drawn' = FALSE, NEW group \in CallGroups(ids), DOMAIN list' = ListFields, list'.group = group,
               list'.dcalls = list.dcalls
        PROVE  Goal
    BY <1>1, <2>2 DEF ListLive
  <2>3. <<>> \in CallGroups(ids)
    BY GroupFacts
  <2>4. CASE ListKey(key)
    <3>1. CASE ListSelect(key)
      <4>1. PICK c \in Range(list.dcalls) :
              /\ list' = [list EXCEPT !.group = IF c \in Range(@) THEN RemoveFirst(@, c) ELSE Append(@, c)]
              /\ drawn' = FALSE
        BY <3>1 DEF ListSelect, Press
      <4>2. Handler = "list"
        BY <3>1 DEF ListSelect, Press
      <4>3. Range(list.dcalls) \subseteq ids
        BY <1>7, <4>2, ReadyFacts, HandlerFacts DEF ids
      <4> DEFINE group == IF c \in Range(list.group) THEN RemoveFirst(list.group, c) ELSE Append(list.group, c)
      <4>4. group \in CallGroups(ids)
        <5>1. list.group \in Seq(ids) /\ IsInjective(list.group)
          BY <1>1 DEF CallGroups
        <5>2. group \in Seq(ids) /\ IsInjective(group)
          BY <4>3, <5>1, RemoveFirstFacts, AppendFacts
        <5>3. QED
          BY <5>2 DEF CallGroups
      <4>5. list' = [list EXCEPT !.group = group]
        BY <4>1
      <4> HIDE DEF group
      <4>6. DOMAIN list' = ListFields /\ list'.group = group /\ list'.dcalls = list.dcalls
        BY <1>1, <4>5 DEF ListFields
      <4>7. QED
        BY <2>2, <4>1, <4>4, <4>6
    <3>2. CASE ListForm(key) \/ ListMenu(key)
      BY <1>1, <2>2, <3>2 DEF ListForm, ListMenu, Press, ListFields
    <3>3. CASE ListDeselect(key)
      BY <1>1, <2>2, <2>3, <3>3 DEF ListDeselect, Press, ListFields
    <3>4. QED
      BY <2>1, <2>4, <3>1, <3>2, <3>3 DEF ListKey, ListShow, ListOpen, FilterOpen, ListQuit, Press
  <2>5. CASE ListSave(key) \/ FlowSave(key) \/ RawSave(key)
    BY <2>1, <2>5 DEF ListSave, FlowSave, RawSave, Press
  <2>6. CASE FormKey(key, Action("form", key, TRUE))
    <3>1. PICK text, form, kept :
            /\ kept = list \/ kept = call_list_clear(list)
            /\ list' = [kept EXCEPT !.text = text, !.form = form]
      BY <2>6 DEF FormKey
    <3>2. DOMAIN kept = ListFields /\ kept.group \in CallGroups(ids) /\ kept.dcalls = list.dcalls
      BY <1>1, <2>3, <3>1 DEF call_list_clear, ListFields
    <3>3. DOMAIN list' = ListFields /\ list'.group = kept.group /\ list'.dcalls = list.dcalls
      BY <3>1, <3>2 DEF ListFields
    <3>4. drawn' = FALSE
      BY <2>6 DEF FormKey, Press
    <3>5. QED
      BY <2>2, <3>2, <3>3, <3>4
  <2>7. CASE MenuKey(key, Action("menu", key, FALSE))
    BY <1>1, <2>2, <2>7 DEF MenuKey, Press, ListFields
  <2>8. CASE FlowRaw(key) \/ FlowMessage(key) \/ FlowSelect(key) \/ FlowClear(key)
    BY <2>1, <2>8 DEF FlowRaw, FlowMessage, FlowSelect, FlowClear, Press
  <2>9. CASE FilterEdit(key)
    BY <2>1, <2>9 DEF FilterEdit, Press
  <2>10. CASE FilterConfirm(key)
    <3>1. drawn' = FALSE /\ (list' = call_list_clear(list) \/ list' = list)
      BY <2>10 DEF FilterConfirm, filter_save_options, Press
    <3>2. QED
      BY <1>1, <2>1, <2>2, <2>3, <3>1 DEF call_list_clear, ListFields
  <2>11. CASE SaveEdit(key) \/ SaveConfirm(key) \/ SaveCancel(key)
    BY <2>1, <2>11 DEF SaveEdit, SaveConfirm, SaveCancel, Press
  <2>12. CASE OwnKey(key) \/ DefaultKey(key, Action("default", key, FALSE))
    BY <2>1, <2>12 DEF OwnKey, DefaultKey, Press
  <2>13. CASE ColumnsAccept(key)
    <3>1. PICK cols : list' = [list EXCEPT !.columns = cols]
      BY <2>13 DEF ColumnsAccept
    <3>2. drawn' = FALSE
      BY <2>13 DEF ColumnsAccept, Press
    <3>3. DOMAIN list' = ListFields /\ list'.group = list.group /\ list'.dcalls = list.dcalls
      BY <1>1, <3>1 DEF ListFields
    <3>4. QED
      BY <1>1, <2>2, <3>2, <3>3
  <2>14. QED
    BY <1>7, <2>4, <2>5, <2>6, <2>7, <2>8, <2>9, <2>10, <2>11, <2>12, <2>13 DEF PanelKey
<1>8. ASSUME list' = list, drawn' = drawn, dialog.kind # "none" PROVE Goal
  BY <1>1, <1>8 DEF DialogType, NoDialog, ListLive
<1>9. CASE Dismiss
  BY <1>8, <1>9 DEF Dismiss
<1>10. ASSUME NEW key \in Keys, ConfirmMove(key) \/ ConfirmAnswer(key)
       PROVE  Goal
  BY <1>8, <1>10 DEF ConfirmMove, ConfirmAnswer, screen, Questions
<1>11. QED
  BY <1>5, <1>6, <1>7, <1>9, <1>10 DEF Next

\* A dialog is opened by a key, over a panel that stays below it.
LEMMA DialogStep ==
  ASSUME LiveInv, Next
  PROVE  DialogType'
<1>1. DialogType
  BY DEF LiveInv
<1>2. CASE Draw \/ Packet
  BY <1>2 DEF Draw, Packet, DialogType
<1>3. ASSUME NEW key \in Keys, Ready, PanelKey(key)
      PROVE  DialogType'
  <2>1. stack # <<>> /\ dialog = NoDialog
    BY <1>3 DEF Ready
  <2>2. ASSUME drawn' = FALSE, UNCHANGED stack PROVE DialogType'
    BY <2>1, <2>2 DEF DialogType
  <2>3. ASSUME UNCHANGED dialog PROVE DialogType'
    BY <2>1, <2>3 DEF DialogType, NoDialog
  <2>4. CASE ListKey(key)
    BY <2>2, <2>3, <2>4 DEF ListKey, ListShow, ListOpen, FilterOpen, ListSelect, ListForm, ListMenu, ListDeselect,
                            ListQuit, Press
  <2>5. CASE ListSave(key) \/ FlowSave(key) \/ RawSave(key)
    BY <2>2, <2>3, <2>5 DEF ListSave, FlowSave, RawSave, Refuse, Press
  <2>6. CASE ClearCalls(key)
    BY <2>3, <2>6 DEF ClearCalls
  <2>7. CASE FormKey(key, Action("form", key, TRUE)) \/ MenuKey(key, Action("menu", key, FALSE))
    BY <2>3, <2>7 DEF FormKey, MenuKey
  <2>8. CASE FlowRaw(key) \/ FlowMessage(key) \/ FlowSelect(key) \/ FlowClear(key)
    BY <2>3, <2>8 DEF FlowRaw, FlowMessage, FlowSelect, FlowClear
  <2>9. CASE FilterEdit(key) \/ FilterConfirm(key)
    BY <2>3, <2>9 DEF FilterEdit, FilterConfirm
  <2>10. CASE SaveEdit(key) \/ SaveConfirm(key) \/ SaveCancel(key)
    BY <2>2, <2>3, <2>10 DEF SaveEdit, SaveConfirm, SaveCancel, Press
  <2>11. CASE OwnKey(key) \/ ColumnsAccept(key) \/ DefaultKey(key, Action("default", key, FALSE))
    BY <2>2, <2>3, <2>11 DEF OwnKey, ColumnsAccept, DefaultKey, Press
  <2>12. QED
    BY <1>3, <2>4, <2>5, <2>6, <2>7, <2>8, <2>9, <2>10, <2>11 DEF PanelKey
<1>4. CASE Dismiss
  BY <1>4 DEF Dismiss, DialogType, NoDialog
<1>5. CASE ConfirmTimeout
  BY <1>1, <1>5 DEF ConfirmTimeout, screen, Questions, DialogType, NoDialog
<1>6. ASSUME NEW key \in Keys, ConfirmMove(key) \/ ConfirmAnswer(key)
      PROVE  DialogType'
  <2>1. stack # <<>> /\ ~drawn
    BY <1>1, <1>6 DEF ConfirmMove, ConfirmAnswer, Questions, DialogType, NoDialog
  <2>2. drawn' = drawn /\ (stack' = stack \/ dialog' = NoDialog)
    BY <1>6 DEF ConfirmMove, ConfirmAnswer, SaveRest, screen
  <2>3. QED
    BY <2>1, <2>2 DEF DialogType, NoDialog
<1>7. QED
  BY <1>2, <1>3, <1>4, <1>5, <1>6 DEF Next

\* Clearing the calls leaves the list alone in the stack: no panel that is
\* not over the list, a flow or a raw panel has these keys, and those two
\* know them under the same keys as the list.
LEMMA ClearStep ==
  ASSUME LiveInv, NEW key \in Keys, ClearCalls(key)
  PROVE  StackLive(stack', info', IdsOf(calls'), Times(calls')) /\ ListLive(stack', list', drawn', IdsOf(calls'))
<1>1. /\ StackType /\ Nested(stack) /\ InfoLive(stack, info, IdsOf(calls), Times(calls))
      /\ DOMAIN list = ListFields /\ list.dcalls \in Seq(Nat)
  BY DEF LiveInv, StackLive, StackType, ListLive
<1>2. /\ Ready /\ Handler \in {"list", "flow", "raw"} /\ Action(Handler, key, FALSE) \in ClearKeys
      /\ stack' = HandlerStack(key)
      /\ info' = [p \in DOMAIN info |-> IF p \in Range(stack') THEN info[p] ELSE NoInfo]
      /\ list' = call_list_clear(list) /\ drawn' = FALSE
  BY DEF ClearCalls
<1>3. \A which \in {"list", "flow", "raw"} : Action(which, key, FALSE) \in ClearKeys
  BY <1>2, ClearKeysAssumption
<1>4. Range(stack) \subseteq {"list", "flow", "raw"}
  <2>1. Top \in PanelNames /\ Range(stack) \subseteq Below(Top) \cup {Top}
    BY <1>2, ReadyFacts
  <2>2. Top \in {"list", "flow", "raw"}
    BY <1>2, <2>1, HandlerFacts
  <2>3. QED
    BY <2>1, <2>2 DEF Below
<1>5. stack' \in Seq(PanelNames) /\ Range(stack') \subseteq {"list"}
  BY <1>1, <1>2, <1>3, <1>4, HandlerStackFacts DEF Propagates
<1>6. IsInjective(stack)
  <2>1. DOMAIN stack = 1 .. Len(stack) /\ Len(stack) \in Nat
    BY <1>1 DEF StackType
  <2>2. \A i, j \in DOMAIN stack : i < j => stack[i] # stack[j]
    <3>1. \A i \in DOMAIN stack : stack[i] \in PanelNames
      BY <1>1 DEF StackType
    <3>2. \A which \in PanelNames : which \notin Below(which)
      BY DEF Below, PanelNames
    <3>3. QED
      BY <1>1, <3>1, <3>2 DEF Nested
  <2>3. \A i, j \in DOMAIN stack : i < j \/ j < i \/ i = j
    BY <2>1
  <2>4. QED
    BY <2>2, <2>3 DEF IsInjective
<1>7. IsInjective(stack')
  BY <1>1, <1>2, <1>6, HandlerStackFacts
<1>8. Nested(stack')
  <2>1. DOMAIN stack' = 1 .. Len(stack')
    BY <1>5
  <2>2. \A i, j \in DOMAIN stack' : i = j
    BY <1>5, <1>7 DEF IsInjective, Range
  <2>3. \A i, j \in DOMAIN stack' : ~(i < j)
    BY <2>1, <2>2
  <2>4. QED
    BY <2>3 DEF Nested
<1>9. InfoLive(stack', info', IdsOf(calls'), Times(calls'))
  BY <1>1, <1>2, <1>5 DEF InfoLive, LiveData
<1>10. ListLive(stack', list', drawn', IdsOf(calls'))
  <2>1. <<>> \in CallGroups(IdsOf(calls'))
    BY GroupFacts
  <2>2. DOMAIN list' = ListFields /\ list'.group = <<>> /\ list'.dcalls = list.dcalls
    BY <1>1, <1>2 DEF call_list_clear, ListFields
  <2>3. QED
    BY <1>1, <1>2, <2>1, <2>2 DEF ListLive
<1>11. QED
  BY <1>5, <1>8, <1>9, <1>10 DEF StackLive

LEMMA LiveStep == LiveInv /\ [Next]_vars => LiveInv'
<1> SUFFICES ASSUME LiveInv, [Next]_vars PROVE LiveInv'
  OBVIOUS
<1>1. CASE UNCHANGED vars
  BY <1>1 DEF vars, screen, store, LiveInv, CallsType, ColumnsOfList, DialogType
<1>2. CASE Next
  <2>1. CallsType' /\ DialogType'
    BY <1>2, CallsTypeStep, DialogStep DEF LiveInv
  <2>2. StackLive(stack', info', IdsOf(calls'), Times(calls')) /\ ListLive(stack', list', drawn', IdsOf(calls'))
    <3>1. CASE \E key \in Keys : ClearCalls(key)
      BY <3>1, ClearStep
    <3>2. CASE \A key \in Keys : ~ClearCalls(key)
      <4>1. IdsOf(calls) \subseteq IdsOf(calls') /\ Times(calls) \subseteq Times(calls')
        BY <1>2, <3>2, GrowStep DEF LiveInv, CallsGrow
      <4>2. StackLive(stack', info', IdsOf(calls'), Times(calls'))
        BY <1>2, <3>2, <4>1, StackLiveStep, StackGrow
      <4>3. ListLive(stack', list', drawn', IdsOf(calls'))
        BY <1>2, <3>2, <4>1, ListLiveStep, GroupGrow DEF ListLive
      <4>4. QED
        BY <4>2, <4>3
    <3>3. QED
      BY <3>1, <3>2
  <2>3. QED
    BY <2>1, <2>2 DEF LiveInv
<1>3. QED
  BY <1>1, <1>2

LEMMA InitialCallsType == Init => CallsType
<1> SUFFICES ASSUME Init PROVE CallsType
  OBVIOUS
<1>1. \A i \in 1 .. Len(InitialCalls) : Unchecked(InitialCalls[i]) \in CallRecords
  <2>1. PICK S : S = [id : Nat, method : STRING, rtp : Seq(Nat), msgs : Seq([at : Nat, text : STRING])]
    OBVIOUS
  <2>2. \A i \in 1 .. Len(InitialCalls) : InitialCalls[i] \in S
    <3>1. InitialCalls \in Seq(S)
      BY <2>1, CaptureAssumption
    <3>2. QED
      BY <3>1
  <2>3. \A c \in S : Unchecked(c) \in CallRecords
    BY <2>1 DEF Unchecked, CallRecords, ColumnSets
  <2>4. QED
    BY <2>2, <2>3
<1>2. DOMAIN InitialCalls = 1 .. Len(InitialCalls)
  BY CaptureAssumption
<1>3. calls = [i \in 1 .. Len(InitialCalls) |-> Unchecked(InitialCalls[i])]
  BY <1>2 DEF Init
<1>4. calls \in Seq(CallRecords)
  <2>1. Len(InitialCalls) \in Nat
    BY CaptureAssumption
  <2>2. calls \in [1 .. Len(InitialCalls) -> CallRecords]
    BY <1>1, <1>3
  <2>3. QED
    BY <2>1, <2>2
<1>5. ColumnsOfList
  BY DEF Init, ColumnsOfList, ListFields, ColumnSets
<1>6. QED
  BY <1>4, <1>5, CaptureAssumption DEF Init, CallsType

LEMMA InitialLive == Init => LiveInv
<1> SUFFICES ASSUME Init PROVE LiveInv
  OBVIOUS
<1>1. stack \in Seq(PanelNames) /\ Len(stack) = 1 /\ stack[1] = "list" /\ DOMAIN stack = 1 .. 1
  <2>1. stack = <<"list">> /\ "list" \in PanelNames
    BY DEF Init, PanelNames
  <2>2. QED
    BY <2>1
<1>2. Range(stack) = {"list"}
  BY <1>1 DEF Range
<1>3. Nested(stack)
  <2>1. \A i, j \in DOMAIN stack : ~(i < j)
    BY <1>1
  <2>2. QED
    BY <2>1 DEF Nested
<1>4. InfoLive(stack, info, IdsOf(calls), Times(calls))
  BY <1>2 DEF Init, InfoLive, LiveData, PanelNames
<1>5. ListLive(stack, list, drawn, IdsOf(calls))
  <2>1. <<>> \in CallGroups(IdsOf(calls)) /\ <<>> \in Seq(Nat)
    BY GroupFacts
  <2>2. DOMAIN list = ListFields /\ list.group = <<>> /\ list.dcalls = <<>> /\ drawn = FALSE
    BY DEF Init, ListFields
  <2>3. QED
    BY <2>1, <2>2 DEF ListLive
<1>6. DialogType
  BY DEF Init, DialogType
<1>7. QED
  BY <1>1, <1>3, <1>4, <1>5, <1>6, InitialCallsType DEF LiveInv, StackLive

\* Flow, raw, save and difference panel and the selection of the list work on
\* calls and messages that exist, however they are nested and whatever key
\* clears the calls (ui_wait_for_input, call_list_handle_key).
THEOREM LivePanels == Spec => []PanelsHoldLiveCalls
<1>1. LiveInv => PanelsHoldLiveCalls
  <2> SUFFICES ASSUME LiveInv PROVE PanelsHoldLiveCalls
    OBVIOUS
  <2> DEFINE ids == IdsOf(calls)
             times == Times(calls)
  <2>1. \A p \in PanelNames : info[p] # NoInfo => LiveData(p, info[p], ids, times)
    BY DEF LiveInv, StackLive, InfoLive
  <2>2. \A g \in Seq(ids) : Range(g) \subseteq ids
    BY DEF Range
  <2>3. list.group \in Seq(ids)
    BY GroupFacts DEF LiveInv, ListLive
  <2>4. times = UNION {TimesOf(c) : c \in Range(calls)}
    BY DEF Times
  <2> HIDE DEF ids, times
  <2>5. info["flow"] # NoInfo => Range(info["flow"].group) \subseteq ids /\ LiveMsg(info["flow"].selected, times)
    BY <2>1, <2>2, GroupFacts DEF LiveData, PanelNames
  <2>6. ASSUME NEW p \in {"raw", "save"}, info[p] # NoInfo
        PROVE  (info[p].group = NoInfo \/ Range(info[p].group) \subseteq ids) /\ LiveMsg(info[p].msg, times)
    BY <2>1, <2>2, <2>6, GroupFacts DEF LiveData, PanelNames
  <2>7. info["diff"] # NoInfo => LiveMsg(info["diff"].one, times) /\ LiveMsg(info["diff"].two, times)
    BY <2>1 DEF LiveData, PanelNames
  <2>8. QED
    BY <2>2, <2>3, <2>4, <2>5, <2>6, <2>7 DEF PanelsHoldLiveCalls, LiveMsg, ids
<1>2. QED
  BY <1>1, InitialLive, LiveStep, PTL DEF Spec

-------------------------------------------------------------------------------
(* The verdicts of the filters.  The form of the list sets its filter with  *)
(* every key, and resets the verdicts only with those that change the text: *)
(* with the others the filter must be the one of the text already.          *)

FiltersType ==
  filters = [list |-> filters.list, payload |-> filters.payload, methods |-> filters.methods]

TextInForce == filters.list = filter_set(filters.list, list.text)

\* A verdict is the one on the messages the call had when it was checked, in
\* the columns the list had then.
Sound(c) ==
  /\ c.seen <= Len(c.msgs)
  /\ c.filtered # -1 => c.filtered = Verdict(c.columns, [c EXCEPT !.msgs = SubSeq(@, 1, c.seen)])

VerdictInv ==
  LiveInv /\ FiltersType /\ TextInForce /\ \A c \in Range(calls) : Sound(c)

LEMMA VerdictOfMessages ==
  ASSUME NEW cols, NEW c, NEW d, c.id = d.id, c.method = d.method, c.msgs = d.msgs
  PROVE  Verdict(cols, c) = Verdict(cols, d)
BY DEF Verdict, call_list_line_text

LEMMA SoundCheck ==
  ASSUME ColumnsOfList, NEW c \in CallRecords, Sound(c)
  PROVE  Sound(filter_check_call(c))
<1> DEFINE d == filter_check_call(c)
           Now == /\ d.filtered = Verdict(list.columns, c) /\ d.seen = Len(c.msgs)
                  /\ d.columns = list.columns /\ d.method = c.method
<1>1. d \in CallRecords /\ d.msgs = c.msgs /\ d.id = c.id /\ (d = c \/ Now)
  BY CheckFacts
<1> HIDE DEF d
<1>2. CASE d = c
  BY <1>2 DEF d
<1>3. CASE Now
  <2> DEFINE e == [d EXCEPT !.msgs = SubSeq(@, 1, d.seen)]
  <2>1. c.msgs \in Seq([at : Nat, text : STRING])
    BY DEF CallRecords
  <2>2. Len(c.msgs) \in Nat /\ SubSeq(c.msgs, 1, Len(c.msgs)) = c.msgs
    <3>1. PICK S : c.msgs \in Seq(S)
      BY <2>1
    <3>2. QED
      BY <3>1
  <2>3. e.id = c.id /\ e.method = c.method /\ e.msgs = c.msgs
    BY <1>1, <1>3, <2>2 DEF CallRecords
  <2>4. Verdict(list.columns, e) = Verdict(list.columns, c)
    <3> HIDE DEF e
    <3>1. QED
      BY <2>3, VerdictOfMessages
  <2>5. QED
    BY <1>1, <1>3, <2>2, <2>4 DEF Sound, d
<1>4. QED
  BY <1>1, <1>2, <1>3

LEMMA SoundMsg ==
  ASSUME NEW c \in CallRecords, Sound(c), NEW p
  PROVE  Sound(WithMsg(c, p))
<1> DEFINE msg == [at |-> p.at, text |-> p.text]
           d == WithMsg(c, p)
           before == [c EXCEPT !.msgs = SubSeq(@, 1, c.seen)]
           after == [d EXCEPT !.msgs = SubSeq(@, 1, d.seen)]
<1>1. c.msgs \in Seq([at : Nat, text : STRING]) /\ c.seen \in Nat
  BY DEF CallRecords
<1>2. /\ DOMAIN d = DOMAIN c /\ d.msgs = Append(c.msgs, msg)
      /\ d.id = c.id /\ d.method = c.method /\ d.filtered = c.filtered /\ d.seen = c.seen
      /\ d.columns = c.columns
  BY DEF WithMsg, CallRecords
<1> HIDE DEF msg, d
<1>3. /\ Len(Append(c.msgs, msg)) = Len(c.msgs) + 1 /\ Len(c.msgs) \in Nat
      /\ SubSeq(Append(c.msgs, msg), 1, c.seen) = SubSeq(c.msgs, 1, c.seen)
  <2>1. PICK n \in Nat : n = c.seen /\ n <= Len(c.msgs)
    BY <1>1 DEF Sound
  <2>2. PICK S : S = [at : Nat, text : STRING]
    OBVIOUS
  <2> DEFINE s == c.msgs
  <2>3. s \in Seq(S)
    BY <1>1, <2>2
  <2> HIDE DEF s
  <2>4. Len(Append(s, msg)) = Len(s) + 1 /\ Len(s) \in Nat /\ n <= Len(s)
    BY <2>1, <2>3 DEF s
  <2>5. \A i \in 1 .. n : i \in 1 .. Len(s) /\ Append(s, msg)[i] = s[i]
    BY <2>4
  <2>6. SubSeq(Append(s, msg), 1, n) = [i \in 1 .. n |-> Append(s, msg)[i]]
    BY <2>4
  <2>7. SubSeq(s, 1, n) = [i \in 1 .. n |-> s[i]]
    BY <2>4
  <2>8. SubSeq(Append(s, msg), 1, n) = SubSeq(s, 1, n)
    BY <2>5, <2>6, <2>7
  <2>9. QED
    BY <2>1, <2>4, <2>8 DEF s
<1>4. DOMAIN c = {"id", "method", "msgs", "rtp", "filtered", "seen", "columns"}
  BY DEF CallRecords
<1>5. before.id = after.id /\ before.method = after.method /\ before.msgs = after.msgs
  BY <1>2, <1>3, <1>4
<1>6. Verdict(c.columns, before) = Verdict(c.columns, after)
  <2> HIDE DEF before, after
  <2>1. QED
    BY <1>5, VerdictOfMessages
<1>7. d.seen <= Len(d.msgs)
  BY <1>1, <1>2, <1>3 DEF Sound
<1>8. d.filtered # -1 => d.filtered = Verdict(d.columns, after)
  BY <1>2, <1>6 DEF Sound
<1>9. QED
  BY <1>7, <1>8 DEF Sound, d

LEMMA SoundUnchecked ==
  ASSUME NEW c, c.filtered = -1, c.seen = 0, c.msgs \in Seq([at : Nat, text : STRING])
  PROVE  Sound(c)
BY DEF Sound

\* Whoever changes a filter resets the verdicts.
LEMMA FiltersStep ==
  ASSUME Next, DOMAIN list = ListFields, FiltersType, TextInForce
  PROVE  /\ FiltersType' /\ TextInForce'
         /\ filters' = filters \/ CallsReset
<1>1. ASSUME filters' = filters, list'.text = list.text
      PROVE  FiltersType' /\ TextInForce'
  BY <1>1 DEF FiltersType, TextInForce, filter_set
<1>2. CASE Draw
  BY <1>1, <1>2 DEF Draw, ListFields
<1>3. CASE Packet \/ ConfirmTimeout
  BY <1>1, <1>3 DEF Packet, ConfirmTimeout, screen
<1>4. CASE Dismiss
  BY <1>1, <1>4 DEF Dismiss
<1>5. ASSUME NEW key \in Keys, ConfirmMove(key) \/ ConfirmAnswer(key)
      PROVE  filters' = filters /\ list' = list
  BY <1>5 DEF ConfirmMove, ConfirmAnswer, screen
<1>6. ASSUME NEW key \in Keys, PanelKey(key)
      PROVE  FiltersType' /\ TextInForce' /\ (filters' = filters \/ CallsReset)
  <2>1. CASE ListKey(key)
    BY <1>1, <2>1 DEF ListKey, ListShow, ListOpen, FilterOpen, ListSelect, ListForm, ListMenu, ListDeselect,
                      ListQuit, ListFields
  <2>2. CASE ListSave(key) \/ FlowSave(key) \/ RawSave(key)
    BY <1>1, <2>2 DEF ListSave, FlowSave, RawSave
  <2>3. CASE ClearCalls(key)
    BY <1>1, <2>3 DEF ClearCalls, call_list_clear, ListFields
  <2>4. CASE FormKey(key, Action("form", key, TRUE))
    <3> DEFINE action == Action("form", key, TRUE)
               edited == action \in {ACTION_PRINTABLE, ACTION_CLEAR}
               kept == IF edited THEN call_list_clear(list) ELSE list
    <3>1. PICK text \in (IF action = ACTION_PRINTABLE THEN Texts ELSE IF action = ACTION_CLEAR THEN {""} ELSE {list.text}) :
            /\ list' = [kept EXCEPT !.text = text,
                          !.form = action \in {ACTION_PRINTABLE, ACTION_CLEAR, ACTION_RIGHT, ACTION_LEFT}]
            /\ calls' = IF edited THEN filter_reset_calls(calls) ELSE calls
            /\ filters' = [filters EXCEPT !.list = filter_set(@, text)]
      BY <2>4 DEF FormKey
    <3>2. DOMAIN kept = ListFields
      BY <3>1 DEF call_list_clear
    <3>3. list'.text = text
      BY <3>1, <3>2 DEF ListFields
    <3>4. /\ filters' = [list |-> filter_set(filters.list, text),
                         payload |-> filters.payload, methods |-> filters.methods]
      BY <3>1 DEF FiltersType
    <3>5. FiltersType'
      BY <3>4 DEF FiltersType
    <3>6. TextInForce'
      BY <3>3, <3>4 DEF TextInForce, filter_set
    <3>7. CASE edited
      BY <3>1, <3>5, <3>6, <3>7 DEF CallsReset
    <3>8. CASE ~edited
      <4>1. filter_set(filters.list, text) = filters.list
        <5>1. action # ACTION_PRINTABLE /\ action # ACTION_CLEAR
          BY <3>8
        <5>2. text = list.text
          BY <3>1, <5>1
        <5>3. QED
          BY <5>2 DEF TextInForce
      <4>2. filters' = filters
        BY <3>4, <4>1 DEF FiltersType
      <4>3. QED
        BY <3>5, <3>6, <4>2
    <3>9. QED
      BY <3>7, <3>8
  <2>5. CASE MenuKey(key, Action("menu", key, FALSE))
    BY <1>1, <2>5 DEF MenuKey, ListFields
  <2>6. CASE FlowRaw(key) \/ FlowMessage(key) \/ FlowSelect(key) \/ FlowClear(key)
    BY <1>1, <2>6 DEF FlowRaw, FlowMessage, FlowSelect, FlowClear
  <2>7. CASE FilterEdit(key)
    BY <1>1, <2>7 DEF FilterEdit
  <2>8. CASE FilterConfirm(key)
    <3>1. CASE UNCHANGED <<filters, calls, list>>
      BY <1>1, <3>1
    <3>2. CASE filter_save_options(info["filter"])
      <4>1. /\ filters' = [filters EXCEPT !.payload = filter_set(@, info["filter"].payload),
                                          !.methods = info["filter"].methods]
            /\ CallsReset /\ list' = call_list_clear(list)
        BY <3>2 DEF filter_save_options, CallsReset
      <4>2. filters' = [list |-> filters.list, payload |-> filter_set(filters.payload, info["filter"].payload),
                        methods |-> info["filter"].methods]
        BY <4>1 DEF FiltersType
      <4>3. list'.text = list.text
        BY <4>1 DEF call_list_clear, ListFields
      <4>4. FiltersType'
        BY <4>2 DEF FiltersType
      <4>5. TextInForce'
        BY <4>2, <4>3 DEF TextInForce, filter_set
      <4>6. QED
        BY <4>1, <4>4, <4>5
    <3>3. QED
      BY <2>8, <3>1, <3>2 DEF FilterConfirm
  <2>9. CASE SaveEdit(key) \/ SaveConfirm(key) \/ SaveCancel(key)
    BY <1>1, <2>9 DEF SaveEdit, SaveConfirm, SaveCancel
  <2>10. CASE OwnKey(key) \/ ColumnsAccept(key) \/ DefaultKey(key, Action("default", key, FALSE))
    BY <1>1, <2>10 DEF OwnKey, ColumnsAccept, DefaultKey, ListFields
  <2>11. QED
    BY <1>6, <2>1, <2>2, <2>3, <2>4, <2>5, <2>6, <2>7, <2>8, <2>9, <2>10 DEF PanelKey
<1>7. QED
  BY <1>1, <1>2, <1>3, <1>4, <1>5, <1>6 DEF Next

LEMMA VerdictStep == VerdictInv /\ [Next]_vars => VerdictInv'
<1> SUFFICES ASSUME VerdictInv, [Next]_vars PROVE VerdictInv'
  OBVIOUS
<1>1. LiveInv /\ LiveInv'
  BY LiveStep DEF VerdictInv
<1>2. CallsType /\ CallsType' /\ DOMAIN list = ListFields
  BY <1>1 DEF LiveInv, ListLive
<1>3. CASE UNCHANGED vars
  BY <1>1, <1>3 DEF vars, screen, store, VerdictInv, FiltersType, TextInForce, filter_set, Sound, Verdict, Matches,
                     call_list_line_text
<1>4. CASE Next
  <2>1. FiltersType' /\ TextInForce' /\ (filters' = filters \/ CallsReset)
    BY <1>2, <1>4, FiltersStep DEF VerdictInv
  <2>2. \A c \in Range(calls') : Sound(c)'
    <3>1. ASSUME filters' = filters, NEW c, Sound(c) PROVE Sound(c)'
      BY <3>1 DEF Sound, Verdict, Matches, call_list_line_text
    <3>2. DOMAIN calls = 1 .. Len(calls) /\ \A i \in 1 .. Len(calls) : calls[i] \in CallRecords
      BY <1>2 DEF CallsType
    <3>3. \A i \in 1 .. Len(calls) : Sound(calls[i])
      BY <3>2 DEF VerdictInv, Range
    <3>4. ASSUME CallsReset PROVE \A c \in Range(calls') : Sound(c)'
      <4>1. /\ Len(calls') = Len(calls) /\ DOMAIN calls' = 1 .. Len(calls')
            /\ \A i \in 1 .. Len(calls) : calls'[i] = Unchecked(calls[i])
        BY <1>2, <3>4, ResetFacts DEF CallsReset, CallsType
      <4>2. \A i \in 1 .. Len(calls') : calls'[i].filtered = -1 /\ calls'[i].seen <= Len(calls'[i].msgs)
        <5> SUFFICES ASSUME NEW i \in 1 .. Len(calls)
                     PROVE  calls'[i].filtered = -1 /\ calls'[i].seen <= Len(calls'[i].msgs)
          BY <4>1
        <5>1. calls'[i].filtered = -1 /\ calls'[i].seen = 0 /\ calls'[i].msgs = calls[i].msgs
          BY <3>2, <4>1, UncheckedFacts
        <5>2. Len(calls[i].msgs) \in Nat
          BY <3>2 DEF CallRecords
        <5>3. QED
          BY <5>1, <5>2
      <4>3. QED
        BY <4>1, <4>2 DEF Range, Sound
    <3>5. ASSUME filters' = filters, \A c \in Range(calls') : Sound(c)
          PROVE  \A c \in Range(calls') : Sound(c)'
      BY <3>1, <3>5
    <3>6. CASE filters' = filters
      <4>1. CASE Packet
        <5> DEFINE p == Head(arrivals)
        <5>1. \A i \in 1 .. Len(calls) : Sound(WithMsg(calls[i], p))
          BY <3>2, <3>3, SoundMsg
        <5>2. Sound(WithMsg(NewCall(p), p))
          <6>1. p \in [call : Nat, method : STRING, at : Nat, text : STRING]
            <7>1. PICK S : S = [call : Nat, method : STRING, at : Nat, text : STRING]
              OBVIOUS
            <7>2. arrivals \in Seq(S) /\ arrivals # <<>>
              BY <1>2, <4>1, <7>1 DEF CallsType, Packet
            <7>3. Head(arrivals) \in S
              BY <7>2
            <7>4. QED
              BY <7>1, <7>3
          <6> HIDE DEF p
          <6>2. NewCall(p) \in CallRecords /\ Sound(NewCall(p))
            <7>1. /\ NewCall(p) \in CallRecords
                  /\ NewCall(p).filtered = -1 /\ NewCall(p).seen = 0
              BY <6>1 DEF NewCall, Unchecked, CallRecords, ColumnSets
            <7>2. NewCall(p).msgs \in Seq([at : Nat, text : STRING])
              BY <7>1 DEF CallRecords
            <7>3. QED
              BY <7>1, <7>2, SoundUnchecked
          <6>3. QED
            BY <6>2, SoundMsg
        <5>3. CASE calls' = calls
          BY <3>5, <3>6, <5>3 DEF VerdictInv
        <5>4. CASE /\ Len(calls') = Len(calls)
                   /\ \A i \in 1 .. Len(calls) : calls'[i] = calls[i] \/ calls'[i] = WithMsg(calls[i], p)
          <6>1. DOMAIN calls' = 1 .. Len(calls)
            BY <1>2, <5>4 DEF CallsType
          <6>2. \A i \in 1 .. Len(calls) : Sound(calls'[i])
            BY <3>3, <5>1, <5>4
          <6>3. QED
            BY <3>5, <3>6, <6>1, <6>2 DEF Range
        <5>5. CASE Range(calls') = Range(calls) \cup {WithMsg(NewCall(p), p)}
          BY <3>5, <3>6, <5>2, <5>5 DEF VerdictInv
        <5>6. QED
          BY <1>2, <4>1, <5>3, <5>4, <5>5, PacketFacts
      <4>2. \A c \in Range(Checked(calls)) : Sound(c)
        <5>1. /\ DOMAIN Checked(calls) = 1 .. Len(calls)
              /\ \A i \in 1 .. Len(calls) : Checked(calls)[i] = filter_check_call(calls[i])
          BY <1>2, CheckedFacts DEF CallsType
        <5>2. \A i \in 1 .. Len(calls) : Sound(filter_check_call(calls[i]))
          BY <1>2, <3>2, <3>3, SoundCheck DEF CallsType
        <5>3. QED
          BY <5>1, <5>2 DEF Range
      <4>3. CASE \E key \in Keys : ClearCalls(key)
        <5>1. calls' = <<>> \/ calls' = Displayed(calls)
          BY <4>3 DEF ClearCalls
        <5>2. Range(calls') = {} \/ Range(calls') \subseteq Range(Checked(calls))
          <6>1. Range(Displayed(calls)) \subseteq Range(Checked(calls))
            BY <1>2, DisplayedFacts DEF CallsType
          <6>2. calls' = <<>> => Range(calls') = {}
            BY DEF Range
          <6>3. QED
            BY <5>1, <6>1, <6>2
        <5>3. QED
          BY <3>5, <3>6, <4>2, <5>2
      <4>4. CASE CallsChecked
        BY <3>5, <3>6, <4>2, <4>4 DEF CallsChecked, VerdictInv
      <4>5. CASE CallsSorted
        <5>1. Range(calls') = Range(calls)
          BY <1>2, <4>5, SortFacts DEF CallsSorted, CallsType
        <5>2. QED
          BY <3>5, <3>6, <5>1 DEF VerdictInv
      <4>6. QED
        BY <1>4, <3>4, <4>1, <4>3, <4>4, <4>5, CallsStep
    <3>7. QED
      BY <2>1, <3>4, <3>6
  <2>3. QED
    BY <1>1, <2>1, <2>2 DEF VerdictInv
<1>5. QED
  BY <1>3, <1>4

\* A verdict kept in a call (filter_check_call) is the one that the filters in
\* force give on its messages and line when it was checked, through every way
\* to change them (filter_set, call_list_handle_form_key, filter_save_options)
\* and the columns of the list (column_select_update_columns).
THEOREM VerdictsInForce == Spec => []VerdictsOfFilters
<1>1. Init => VerdictInv
  <2> SUFFICES ASSUME Init PROVE VerdictInv
    OBVIOUS
  <2>1. LiveInv
    BY InitialLive
  <2>2. FiltersType /\ TextInForce
    BY DEF Init, FiltersType, TextInForce, filter_set
  <2>3. \A c \in Range(calls) : Sound(c)
    <3>1. calls = [i \in DOMAIN InitialCalls |-> Unchecked(InitialCalls[i])]
      BY DEF Init
    <3>2. \A c \in Range(calls) : c \in CallRecords /\ c.filtered = -1 /\ c.seen = 0
      <4>1. \A i \in DOMAIN calls : calls[i] \in CallRecords
        BY <2>1 DEF LiveInv, CallsType
      <4>2. \A i \in DOMAIN calls : calls[i].filtered = -1 /\ calls[i].seen = 0
        BY <3>1 DEF Unchecked
      <4>3. QED
        BY <4>1, <4>2 DEF Range
    <3>3. \A c \in CallRecords : c.msgs \in Seq([at : Nat, text : STRING])
      BY DEF CallRecords
    <3>4. QED
      BY <3>2, <3>3, SoundUnchecked
  <2>4. QED
    BY <2>1, <2>2, <2>3 DEF VerdictInv
<1>2. VerdictInv => VerdictsOfFilters
  BY DEF VerdictInv, Sound, VerdictsOfFilters
<1>3. QED
  BY <1>1, <1>2, VerdictStep, PTL DEF Spec

-------------------------------------------------------------------------------
(* What is saved.                                                          *)

\* A sequence without repetitions is as long as the set of its items.
LEMMA InjectiveLength ==
  ASSUME NEW S, NEW s \in Seq(S), IsInjective(s)
  PROVE  Len(s) = Cardinality(Range(s))
<1>1. Len(s) \in Nat /\ DOMAIN s = 1 .. Len(s)
  OBVIOUS
<1>2. s \in [1 .. Len(s) -> Range(s)]
  BY <1>1 DEF Range
<1>3. s \in Bijection(1 .. Len(s), Range(s))
  BY <1>1, <1>2 DEF Bijection, Injection, Surjection, IsInjective, Range
<1>4. ExistsBijection(1 .. Len(s), Range(s))
  BY <1>3 DEF ExistsBijection
<1>5. QED
  BY <1>1, <1>4, FS_CountingElements

LEMMA PacketTime ==
  ASSUME NEW packet \in Nat
  PROVE  packet_time(packet) \in Nat
<1>1. CASE packet \in DOMAIN Frames
  <2>1. PICK s \in Seq(Nat) : s = Frames[packet] /\ s # <<>>
    BY <1>1, FramesAssumption
  <2>2. s[1] \in Nat
    BY <2>1
  <2>3. QED
    BY <1>1, <2>1, <2>2 DEF packet_time, FramesOf
<1>2. CASE packet \notin DOMAIN Frames
  BY <1>2 DEF packet_time, FramesOf
<1>3. QED
  BY <1>1, <1>2

\* Packets in the order of their times
InOrder(packets) ==
  \A i, j \in DOMAIN packets : i < j => packet_time(packets[i]) <= packet_time(packets[j])

\* The sorter puts a packet behind those that are not later.
LEMMA TimeSorterFacts ==
  ASSUME NEW s \in Seq(Nat), NEW at \in Nat
  PROVE  LET t == capture_packet_time_sorter(s, at)
         IN  /\ t \in Seq(Nat) /\ Range(t) = Range(s) \cup {at} /\ Len(t) = Len(s) + 1
             /\ InOrder(s) => InOrder(t)
             /\ IsInjective(s) /\ at \notin Range(s) => IsInjective(t)
<1> DEFINE before == {i \in DOMAIN s : packet_time(at) >= packet_time(s[i])}
           last == CHOOSE i \in before : \A j \in before : j <= i
           place == 1 + (IF before = {} THEN 0 ELSE last)
           t == InsertAt(s, place, at)
<1>1. capture_packet_time_sorter(s, at) = t
  BY DEF capture_packet_time_sorter, Insert
<1>2. Len(s) \in Nat /\ DOMAIN s = 1 .. Len(s) /\ before \subseteq 1 .. Len(s)
  OBVIOUS
<1>3. ASSUME before # {} PROVE last \in before /\ \A j \in before : j <= last
  <2> HIDE DEF before
  <2>1. before \subseteq 0 .. Len(s)
    BY <1>2
  <2>2. Max(before) \in before /\ \A j \in before : Max(before) >= j
    BY <1>2, <1>3, <2>1, MaxOfNats
  <2>3. \A j \in before : j <= Max(before)
    BY <1>2, <2>2
  <2>4. QED
    BY <2>2, <2>3
<1>4. /\ place \in 1 .. Len(s) + 1
      /\ \A i \in before : i < place
      /\ place # 1 => place - 1 \in before
  <2>1. CASE before = {}
    BY <1>2, <2>1
  <2>2. CASE before # {}
    <3>1. PICK n \in 1 .. Len(s) : n = last
      BY <1>2, <1>3, <2>2
    <3>2. n \in before /\ \A j \in before : j <= n
      BY <1>3, <2>2, <3>1
    <3>3. place = 1 + last
      BY <2>2
    <3> HIDE DEF last, place, before
    <3>4. place = n + 1 /\ place - 1 = n
      BY <3>1, <3>3
    <3>5. QED
      BY <1>2, <3>2, <3>4
  <2>3. QED
    BY <2>1, <2>2
<1>5. \A i \in before : i \in 1 .. Len(s) /\ packet_time(at) >= packet_time(s[i])
  BY <1>2
<1> HIDE DEF place, t
<1>6. /\ t \in Seq(Nat) /\ Len(t) = Len(s) + 1 /\ Range(t) = Range(s) \cup {at}
      /\ \A i \in 1 .. Len(s) + 1 : t[i] = IF i < place THEN s[i] ELSE IF i = place THEN at ELSE s[i - 1]
      /\ IsInjective(s) /\ at \notin Range(s) => IsInjective(t)
  <2>1. PICK p \in 1 .. Len(s) + 1 : p = place
    BY <1>4
  <2>2. /\ InsertAt(s, p, at) \in Seq(Nat)
        /\ Len(InsertAt(s, p, at)) = Len(s) + 1
        /\ \A i \in 1 .. Len(s) + 1 :
             InsertAt(s, p, at)[i] = IF i < p THEN s[i] ELSE IF i = p THEN at ELSE s[i - 1]
        /\ Range(InsertAt(s, p, at)) = Range(s) \cup {at}
        /\ IsInjective(s) /\ at \notin Range(s) => IsInjective(InsertAt(s, p, at))
    <3>1. PICK S : S = Nat
      OBVIOUS
    <3>2. s \in Seq(S) /\ at \in S
      BY <3>1
    <3>3. /\ InsertAt(s, p, at) \in Seq(S)
          /\ Len(InsertAt(s, p, at)) = Len(s) + 1
          /\ \A i \in 1 .. Len(s) + 1 :
               InsertAt(s, p, at)[i] = IF i < p THEN s[i] ELSE IF i = p THEN at ELSE s[i - 1]
          /\ Range(InsertAt(s, p, at)) = Range(s) \cup {at}
          /\ IsInjective(s) /\ at \notin Range(s) => IsInjective(InsertAt(s, p, at))
      BY <3>2, InsertAtFacts
    <3>4. QED
      BY <3>1, <3>3
  <2>3. QED
    BY <2>1, <2>2 DEF t
<1>7. ASSUME InOrder(s) PROVE InOrder(t)
  <2> DEFINE time == [i \in 1 .. Len(s) |-> packet_time(s[i])]
             new == packet_time(at)
  <2>1. place \in 1 .. Len(s) + 1 /\ Len(s) \in Nat
    BY <1>2, <1>4
  <2>2. new \in Nat /\ \A k \in 1 .. Len(s) : time[k] = packet_time(s[k]) /\ time[k] \in Nat
    <3>1. new \in Nat
      BY PacketTime
    <3>2. \A k \in 1 .. Len(s) : s[k] \in Nat
      OBVIOUS
    <3>3. \A k \in 1 .. Len(s) : packet_time(s[k]) \in Nat
      BY <3>2, PacketTime
    <3>4. QED
      BY <3>1, <3>3
  <2>3. \A i \in 1 .. Len(s) + 1 :
          packet_time(t[i]) = IF i < place THEN packet_time(s[i]) ELSE IF i = place THEN new ELSE packet_time(s[i - 1])
    BY <1>6
  <2>4. \A k, l \in 1 .. Len(s) : k < l => packet_time(s[k]) <= packet_time(s[l])
    BY <1>2, <1>7 DEF InOrder
  <2> HIDE DEF time, new
  <2>5. \A k, l \in 1 .. Len(s) : k < l => time[k] <= time[l]
    BY <2>2, <2>4
  <2>6. ASSUME NEW k \in 1 .. Len(s)
        PROVE  IF k < place THEN time[k] <= new ELSE new <= time[k]
    <3>1. CASE k < place
      <4>1. place - 1 \in before /\ k <= place - 1
        BY <1>4, <2>1, <3>1
      <4>2. PICK n \in 1 .. Len(s) : n = place - 1 /\ new >= time[n]
        BY <1>5, <2>2, <4>1 DEF new
      <4>3. k = n \/ time[k] <= time[n]
        BY <2>5, <4>1, <4>2
      <4>4. QED
        BY <2>2, <3>1, <4>2, <4>3
    <3>2. CASE ~(k < place)
      <4>1. k \notin before
        BY <1>4, <3>2
      <4>2. ~(new >= time[k])
        BY <1>2, <2>2, <4>1 DEF new
      <4>3. QED
        BY <2>2, <3>2, <4>2
    <3>3. QED
      BY <3>1, <3>2
  <2>7. \A i \in 1 .. Len(s) + 1 :
          /\ i < place => i \in 1 .. Len(s) /\ packet_time(t[i]) = time[i]
          /\ i = place => packet_time(t[i]) = new
          /\ i > place => i - 1 \in 1 .. Len(s) /\ packet_time(t[i]) = time[i - 1]
    BY <2>1, <2>2, <2>3
  <2>8. SUFFICES ASSUME NEW i \in 1 .. Len(s) + 1, NEW j \in 1 .. Len(s) + 1, i < j
                 PROVE  packet_time(t[i]) <= packet_time(t[j])
    BY <1>6 DEF InOrder
  <2>9. CASE j < place
    <3>1. i < place
      BY <2>1, <2>8, <2>9
    <3>2. i \in 1 .. Len(s) /\ j \in 1 .. Len(s) /\ packet_time(t[i]) = time[i] /\ packet_time(t[j]) = time[j]
      BY <2>7, <2>9, <3>1
    <3>3. QED
      BY <2>5, <2>8, <3>2
  <2>10. CASE j = place
    <3>1. i \in 1 .. Len(s) /\ i < place /\ packet_time(t[i]) = time[i] /\ packet_time(t[j]) = new
      BY <2>7, <2>8, <2>10
    <3>2. QED
      BY <2>6, <3>1
  <2>11. CASE j > place
    <3>1. j - 1 \in 1 .. Len(s) /\ ~(j - 1 < place) /\ packet_time(t[j]) = time[j - 1] /\ new <= time[j - 1]
      BY <2>1, <2>6, <2>7, <2>11
    <3>2. CASE i < place
      <4>1. i \in 1 .. Len(s) /\ packet_time(t[i]) = time[i] /\ i < j - 1
        BY <2>1, <2>7, <2>11, <3>2
      <4>2. QED
        BY <2>5, <3>1, <4>1
    <3>3. CASE i = place
      BY <2>7, <3>1, <3>3
    <3>4. CASE i > place
      <4>1. i - 1 \in 1 .. Len(s) /\ packet_time(t[i]) = time[i - 1] /\ i - 1 < j - 1
        BY <2>1, <2>7, <2>8, <3>4
      <4>2. QED
        BY <2>5, <3>1, <4>1
    <3>5. QED
      BY <2>1, <3>2, <3>3, <3>4
  <2>12. QED
    BY <2>1, <2>9, <2>10, <2>11
<1>8. QED
  BY <1>1, <1>6, <1>7

\* Sorting keeps the packets and puts them in the order of their times.
LEMMA SortedFacts ==
  ASSUME NEW packets \in Seq(Nat), IsInjective(packets)
  PROVE  /\ Sorted(packets) \in Seq(Nat) /\ InOrder(Sorted(packets)) /\ IsInjective(Sorted(packets))
         /\ Range(Sorted(packets)) = Range(packets)
         /\ Len(Sorted(packets)) = Len(packets)
<1> DEFINE n == Len(packets)
           T == Seq(Nat)
           step == [i \in 1 .. n |-> [t \in T |-> capture_packet_time_sorter(t, packets[i])]]
           eq(f) == [i \in 0 .. n |-> IF i = 0 THEN <<>> ELSE capture_packet_time_sorter(f[i - 1], packets[i])]
           F == CHOOSE f : f = eq(f)
<1>1. Sorted(packets) = F[n]
  BY DEF Sorted
<1>2. n \in Nat /\ <<>> \in T /\ \A i \in 1 .. n : packets[i] \in Nat
  OBVIOUS
<1>3. step \in [1 .. n -> [T -> T]]
  BY <1>2, TimeSorterFacts
<1>4. \A i \in 1 .. n, t \in T : step[i][t] = capture_packet_time_sorter(t, packets[i])
  OBVIOUS
<1>10. DOMAIN packets = 1 .. n
  OBVIOUS
<1> HIDE DEF n, T, step
<1>5. F = eq(F)
  <2>1. PICK f : IsRecursion(f, n, T, <<>>, step)
    BY <1>2, <1>3, RecursiveFunction
  <2>2. f \in [0 .. n -> T] /\ f[0] = <<>> /\ \A i \in 1 .. n : f[i] = step[i][f[i - 1]]
    BY <2>1 DEF IsRecursion
  <2>3. \A i \in 1 .. n : i - 1 \in 0 .. n /\ f[i - 1] \in T
    BY <1>2, <2>2
  <2>4. \A i \in 1 .. n : f[i] = capture_packet_time_sorter(f[i - 1], packets[i])
    BY <1>4, <2>2, <2>3
  <2>5. \A i \in 0 .. n : f[i] = IF i = 0 THEN <<>> ELSE capture_packet_time_sorter(f[i - 1], packets[i])
    <3>1. \A i \in 0 .. n : i = 0 \/ (i # 0 /\ i \in 1 .. n)
      BY <1>2
    <3>2. QED
      BY <2>2, <2>4, <3>1
  <2>6. f = eq(f)
    BY <2>2, <2>5
  <2>7. QED
    BY <2>6
<1> HIDE DEF F
<1>6. F[0] = <<>>
  BY <1>2, <1>5
<1>7. \A i \in 1 .. n : F[i] = capture_packet_time_sorter(F[i - 1], packets[i])
  <2>1. \A i \in 1 .. n : i \in 0 .. n /\ i # 0
    BY <1>2
  <2>2. \A i \in 0 .. n : F[i] = eq(F)[i]
    BY <1>5
  <2>3. QED
    BY <2>1, <2>2
<1> DEFINE First(i) == {packets[j] : j \in 1 .. i}
           G == {i \in 0 .. n : /\ F[i] \in T /\ Len(F[i]) = i /\ Range(F[i]) = First(i)
                                /\ InOrder(F[i]) /\ IsInjective(F[i])}
<1>8. 0 \in G
  <2>1. /\ Range(<<>>) = {} /\ 1 .. 0 = {} /\ 0 \in 0 .. n /\ Len(<<>>) = 0
        /\ InOrder(<<>>) /\ IsInjective(<<>>)
    BY <1>2 DEF Range, InOrder, IsInjective
  <2>2. QED
    BY <1>2, <1>6, <2>1
<1>9. ASSUME NEW i \in 1 .. n, i - 1 \in G PROVE i \in G
  <2>1. First(i) = First(i - 1) \cup {packets[i]}
    OBVIOUS
  <2>2. /\ F[i - 1] \in T /\ Len(F[i - 1]) = i - 1 /\ Range(F[i - 1]) = First(i - 1)
        /\ InOrder(F[i - 1]) /\ IsInjective(F[i - 1])
    BY <1>9
  <2>3. packets[i] \notin First(i - 1)
    <3>1. SUFFICES ASSUME NEW j \in 1 .. (i - 1), packets[j] = packets[i] PROVE FALSE
      OBVIOUS
    <3>2. j \in 1 .. n /\ j # i
      BY <1>2
    <3>3. QED
      BY <1>10, <3>1, <3>2 DEF IsInjective
  <2>4. /\ F[i] \in T /\ Range(F[i]) = Range(F[i - 1]) \cup {packets[i]} /\ Len(F[i]) = Len(F[i - 1]) + 1
        /\ InOrder(F[i]) /\ IsInjective(F[i])
    <3>1. F[i - 1] \in Seq(Nat) /\ packets[i] \in Nat
      BY <1>2, <2>2 DEF T
    <3>2. PICK s \in Seq(Nat), at \in Nat : s = F[i - 1] /\ at = packets[i]
      BY <3>1
    <3>3. /\ capture_packet_time_sorter(s, at) \in Seq(Nat)
          /\ Range(capture_packet_time_sorter(s, at)) = Range(s) \cup {at}
          /\ Len(capture_packet_time_sorter(s, at)) = Len(s) + 1
          /\ InOrder(s) => InOrder(capture_packet_time_sorter(s, at))
          /\ IsInjective(s) /\ at \notin Range(s) => IsInjective(capture_packet_time_sorter(s, at))
      BY TimeSorterFacts
    <3>4. QED
      BY <1>7, <2>2, <2>3, <3>2, <3>3 DEF T
  <2>5. i \in 0 .. n
    BY <1>2
  <2>6. Len(F[i]) = i
    BY <2>2, <2>4
  <2>7. QED
    BY <2>1, <2>2, <2>4, <2>5, <2>6
<1>11. \A i \in 0 .. n : i \in G
  <2> HIDE DEF G
  <2>1. QED
    BY <1>2, <1>8, <1>9, UpTo
<1>12. n \in G
  <2> HIDE DEF G
  <2>1. n \in 0 .. n
    BY <1>2
  <2>2. QED
    BY <1>11, <2>1
<1>13. Range(packets) = First(n)
  BY <1>10 DEF Range
<1>14. QED
  BY <1>1, <1>12, <1>13 DEF T, n

\* The packets of a call are told apart by their times, those of different
\* calls as well, and so are those to come.
AtTimes(msgs) == [k \in DOMAIN msgs |-> msgs[k].at]

OnceEach(c) ==
  /\ IsInjective(c.rtp) /\ IsInjective(AtTimes(c.msgs))
  /\ TimesOf(c) \cap Range(c.rtp) = {}

Apart(cs) == \A c, d \in Range(cs) : c # d => c.id # d.id /\ Stored(c) \cap Stored(d) = {}

DistinctCalls(cs) == IsInjective(cs) /\ Apart(cs) /\ \A c \in Range(cs) : OnceEach(c)

ToCome(cs) ==
  /\ IsInjective(AtTimes(arrivals))
  /\ \A c \in Range(cs) : \A k \in DOMAIN arrivals : arrivals[k].at \notin Stored(c)

DistinctInv == CallsType /\ DistinctCalls(calls) /\ ToCome(calls)

\* Calls that keep their ids, messages and streams.
Alike(c, d) == d.id = c.id /\ d.msgs = c.msgs /\ d.rtp = c.rtp

LEMMA AlikeFacts ==
  ASSUME NEW c, NEW d, Alike(c, d)
  PROVE  Stored(d) = Stored(c) /\ (OnceEach(c) => OnceEach(d))
BY DEF Alike, Stored, OnceEach, TimesOf

LEMMA DistinctKept ==
  ASSUME NEW cs \in Seq(CallRecords), NEW ds \in Seq(CallRecords), Len(ds) = Len(cs),
         \A i \in 1 .. Len(cs) : Alike(cs[i], ds[i]), DistinctCalls(cs), ToCome(cs)
  PROVE  DistinctCalls(ds) /\ ToCome(ds)
<1>1. DOMAIN cs = 1 .. Len(cs) /\ DOMAIN ds = 1 .. Len(cs)
  OBVIOUS
<1>2. ASSUME NEW i \in 1 .. Len(cs)
      PROVE  /\ cs[i] \in Range(cs) /\ OnceEach(ds[i])
             /\ Stored(ds[i]) = Stored(cs[i]) /\ ds[i].id = cs[i].id
             /\ \A k \in DOMAIN arrivals : arrivals[k].at \notin Stored(ds[i])
  <2>1. cs[i] \in Range(cs) /\ Alike(cs[i], ds[i])
    BY <1>1 DEF Range
  <2>2. QED
    BY <2>1, AlikeFacts DEF Alike, DistinctCalls, ToCome
<1>3. ASSUME NEW i \in 1 .. Len(cs), NEW j \in 1 .. Len(cs), i # j
      PROVE  ds[i].id # ds[j].id /\ Stored(ds[i]) \cap Stored(ds[j]) = {}
  <2>1. cs[i] # cs[j]
    BY <1>1, <1>3 DEF DistinctCalls, IsInjective
  <2>2. QED
    BY <1>2, <2>1 DEF DistinctCalls, Apart
<1>4. IsInjective(ds)
  BY <1>1, <1>3 DEF IsInjective
<1>5. Apart(ds)
  BY <1>1, <1>3 DEF Apart, Range
<1>6. QED
  BY <1>1, <1>2, <1>4, <1>5 DEF DistinctCalls, ToCome, Range

LEMMA DistinctFewer ==
  ASSUME NEW cs, NEW ds, Range(ds) \subseteq Range(cs), IsInjective(ds), DistinctCalls(cs), ToCome(cs)
  PROVE  DistinctCalls(ds) /\ ToCome(ds)
BY DEF DistinctCalls, ToCome, Apart

\* Checking, resetting and displaying calls keeps them apart.
LEMMA DistinctChecked ==
  ASSUME ColumnsOfList, NEW cs \in Seq(CallRecords), DistinctCalls(cs), ToCome(cs)
  PROVE  DistinctCalls(Checked(cs)) /\ ToCome(Checked(cs))
<1>1. /\ Checked(cs) \in Seq(CallRecords) /\ Len(Checked(cs)) = Len(cs)
      /\ \A i \in 1 .. Len(cs) : Checked(cs)[i] = filter_check_call(cs[i]) /\ cs[i] \in CallRecords
  BY CheckedFacts
<1>2. \A i \in 1 .. Len(cs) : Alike(cs[i], Checked(cs)[i])
  BY <1>1, CheckFacts DEF Alike
<1>3. QED
  BY <1>1, <1>2, DistinctKept

LEMMA DistinctReset ==
  ASSUME NEW cs \in Seq(CallRecords), DistinctCalls(cs), ToCome(cs)
  PROVE  DistinctCalls(filter_reset_calls(cs)) /\ ToCome(filter_reset_calls(cs))
<1>1. /\ filter_reset_calls(cs) \in Seq(CallRecords) /\ Len(filter_reset_calls(cs)) = Len(cs)
      /\ \A i \in 1 .. Len(cs) : filter_reset_calls(cs)[i] = Unchecked(cs[i]) /\ cs[i] \in CallRecords
  BY ResetFacts
<1>2. \A i \in 1 .. Len(cs) : Alike(cs[i], filter_reset_calls(cs)[i])
  BY <1>1, UncheckedFacts DEF Alike
<1>3. QED
  BY <1>1, <1>2, DistinctKept

LEMMA DistinctDisplayed ==
  ASSUME ColumnsOfList, NEW cs \in Seq(CallRecords), DistinctCalls(cs), ToCome(cs)
  PROVE  /\ DistinctCalls(Displayed(cs)) /\ ToCome(Displayed(cs))
         /\ Displayed(cs) \in Seq(CallRecords)
         /\ Range(Displayed(cs)) = {c \in Range(Checked(cs)) : IsShown(c)}
<1> DEFINE K == {c \in Range(Checked(cs)) : IsShown(c)}
<1>1. Displayed(cs) = CopyIf(Checked(cs), K)
  BY DEF Displayed
<1>2. Checked(cs) \in Seq(CallRecords) /\ DistinctCalls(Checked(cs)) /\ ToCome(Checked(cs))
  BY CheckedFacts, DistinctChecked
<1>3. K \subseteq Range(Checked(cs))
  OBVIOUS
<1> HIDE DEF K
<1>4. /\ Displayed(cs) \in Seq(CallRecords) /\ IsInjective(Displayed(cs))
      /\ Range(Displayed(cs)) = K
  <2>1. PICK s \in Seq(CallRecords) : s = Checked(cs)
    BY <1>2
  <2>2. CopyIf(s, K) \in Seq(CallRecords) /\ Range(CopyIf(s, K)) = Range(s) \cap K
        /\ (IsInjective(s) => IsInjective(CopyIf(s, K)))
    BY CopyIfFacts
  <2>3. IsInjective(s)
    BY <1>2, <2>1 DEF DistinctCalls
  <2>4. QED
    BY <1>1, <1>3, <2>1, <2>2, <2>3
<1>5. QED
  BY <1>2, <1>3, <1>4, DistinctFewer DEF K

\* A message stored is one of its call and of no other.
LEMMA StoreFacts ==
  ASSUME NEW c \in CallRecords, NEW p \in [call : Nat, method : STRING, at : Nat, text : STRING]
  PROVE  /\ Stored(WithMsg(c, p)) = Stored(c) \cup {p.at} /\ WithMsg(c, p).id = c.id
         /\ OnceEach(c) /\ p.at \notin Stored(c) => OnceEach(WithMsg(c, p))
<1> DEFINE msg == [at |-> p.at, text |-> p.text]
<1>1. msg.at = p.at /\ c.msgs \in Seq([at : Nat, text : STRING])
  BY DEF CallRecords
<1>2. WithMsg(c, p) = [c EXCEPT !.msgs = Append(c.msgs, msg)]
  BY DEF WithMsg
<1> HIDE DEF msg
<1>3. WithMsg(c, p).id = c.id /\ WithMsg(c, p).rtp = c.rtp /\ WithMsg(c, p).msgs = Append(c.msgs, msg)
  BY <1>2 DEF CallRecords
<1>4. PICK s \in Seq([at : Nat, text : STRING]) : s = c.msgs
  BY <1>1
<1> DEFINE t == Append(s, msg)
<1>5. /\ DOMAIN s = 1 .. Len(s) /\ DOMAIN t = 1 .. Len(s) + 1 /\ Len(s) \in Nat
      /\ \A j \in 1 .. Len(s) : t[j] = s[j]
      /\ t[Len(s) + 1] = msg
  OBVIOUS
<1>6. \A j \in 1 .. Len(s) + 1 : j \in 1 .. Len(s) \/ j = Len(s) + 1
  BY <1>5
<1>7. (1 .. Len(s)) \subseteq 1 .. Len(s) + 1 /\ Len(s) + 1 \in 1 .. Len(s) + 1
  BY <1>5
<1> HIDE DEF t
<1>8. Range(t) = Range(s) \cup {msg}
  BY <1>5, <1>6, <1>7 DEF Range
<1>9. TimesOf(WithMsg(c, p)) = TimesOf(c) \cup {p.at}
  BY <1>1, <1>3, <1>4, <1>8 DEF TimesOf, t
<1>10. Stored(WithMsg(c, p)) = Stored(c) \cup {p.at}
  BY <1>3, <1>9 DEF Stored
<1>11. ASSUME OnceEach(c), p.at \notin Stored(c) PROVE OnceEach(WithMsg(c, p))
  <2>1. \A j \in 1 .. Len(s) : s[j].at # p.at
    BY <1>4, <1>5, <1>11 DEF Stored, TimesOf, Range
  <2>2. \A j, k \in 1 .. Len(s) : s[j].at = s[k].at => j = k
    <3>1. IsInjective(AtTimes(s))
      BY <1>4, <1>11 DEF OnceEach
    <3>2. QED
      BY <1>5, <3>1 DEF IsInjective, AtTimes
  <2>3. ASSUME NEW j \in 1 .. Len(s) + 1, NEW k \in 1 .. Len(s) + 1, t[j].at = t[k].at
        PROVE  j = k
    BY <1>1, <1>5, <1>6, <2>1, <2>2, <2>3
  <2>4. IsInjective(AtTimes(t))
    BY <1>5, <2>3 DEF IsInjective, AtTimes
  <2>5. p.at \notin Range(c.rtp)
    BY <1>11 DEF Stored
  <2>6. QED
    BY <1>3, <1>4, <1>9, <1>11, <2>4, <2>5 DEF OnceEach, t
<1>12. QED
  BY <1>3, <1>10, <1>11

LEMMA DistinctPacket ==
  ASSUME DistinctInv, Packet
  PROVE  DistinctCalls(calls') /\ ToCome(calls)' /\ CallsType'
<1> DEFINE p == Head(arrivals)
           Packets == [call : Nat, method : STRING, at : Nat, text : STRING]
<1>1. p \in Packets /\ p = arrivals[1] /\ 1 \in DOMAIN arrivals
  <2>1. PICK S : S = Packets
    OBVIOUS
  <2>2. arrivals \in Seq(S) /\ arrivals # <<>>
    BY <2>1 DEF DistinctInv, CallsType, Packet
  <2>3. Head(arrivals) \in S /\ Head(arrivals) = arrivals[1] /\ 1 \in DOMAIN arrivals
    BY <2>2
  <2>4. QED
    BY <2>1, <2>3
<1>2. /\ \A k \in DOMAIN arrivals' : k + 1 \in DOMAIN arrivals /\ k + 1 # 1 /\ arrivals'[k] = arrivals[k + 1]
      /\ DOMAIN arrivals' \subseteq Nat
  <2>1. PICK S : S = Packets
    OBVIOUS
  <2>2. arrivals \in Seq(S) /\ arrivals # <<>> /\ arrivals' = Tail(arrivals)
    BY <2>1 DEF DistinctInv, CallsType, Packet
  <2>3. QED
    BY <2>2
<1> HIDE DEF p
<1>3. IsInjective(AtTimes(arrivals'))
  <2>1. SUFFICES ASSUME NEW j \in DOMAIN arrivals', NEW k \in DOMAIN arrivals', arrivals'[j].at = arrivals'[k].at
                 PROVE  j = k
    BY DEF IsInjective, AtTimes
  <2>2. arrivals[j + 1].at = arrivals[k + 1].at /\ j + 1 \in DOMAIN arrivals /\ k + 1 \in DOMAIN arrivals
    BY <1>2, <2>1
  <2>3. j + 1 = k + 1
    BY <2>2 DEF DistinctInv, ToCome, IsInjective, AtTimes
  <2>4. QED
    BY <1>2, <2>3
<1>4. \A k \in DOMAIN arrivals' : arrivals'[k].at # p.at
  BY <1>1, <1>2 DEF DistinctInv, ToCome, IsInjective, AtTimes, p
<1>5. \A c \in Range(calls) : \A k \in DOMAIN arrivals' : arrivals'[k].at \notin Stored(c)
  BY <1>2 DEF DistinctInv, ToCome
<1>6. \A c \in Range(calls) : p.at \notin Stored(c)
  BY <1>1 DEF DistinctInv, ToCome
<1>7. calls \in Seq(CallRecords) /\ DistinctCalls(calls) /\ DOMAIN calls = 1 .. Len(calls)
  BY DEF DistinctInv, CallsType
<1>8. \A c \in Range(calls) : c \in CallRecords
  BY <1>7 DEF Range
<1>9. SUFFICES ASSUME calls' # calls
               PROVE  /\ DistinctCalls(calls')
                      /\ \A c \in Range(calls') : \A k \in DOMAIN arrivals' : arrivals'[k].at \notin Stored(c)
  BY <1>3, <1>5, <1>7, PacketFacts DEF DistinctInv, ToCome
<1>10. \/ /\ p.call \in IdsOf(calls)
          /\ calls' = [i \in DOMAIN calls |-> IF calls[i].id = p.call THEN WithMsg(calls[i], p) ELSE calls[i]]
       \/ /\ p.call \notin IdsOf(calls)
          /\ calls' = sip_list_sorter(calls, WithMsg(NewCall(p), p), sort.by, sort.asc)
  BY <1>9 DEF Packet, p
<1>11. CASE calls' = [i \in DOMAIN calls |-> IF calls[i].id = p.call THEN WithMsg(calls[i], p) ELSE calls[i]]
  <2>1. DOMAIN calls' = 1 .. Len(calls)
    BY <1>7, <1>11
  <2>2. ASSUME NEW i \in 1 .. Len(calls)
        PROVE  /\ calls[i] \in Range(calls) /\ calls[i] \in CallRecords
               /\ calls'[i] = IF calls[i].id = p.call THEN WithMsg(calls[i], p) ELSE calls[i]
    BY <1>7, <1>11 DEF Range
  <2>3. ASSUME NEW i \in 1 .. Len(calls)
        PROVE  /\ calls'[i].id = calls[i].id /\ OnceEach(calls'[i])
               /\ Stored(calls'[i]) \subseteq Stored(calls[i]) \cup {p.at}
               /\ calls[i].id # p.call => Stored(calls'[i]) = Stored(calls[i])
    BY <1>1, <1>6, <1>7, <2>2, StoreFacts DEF DistinctCalls
  <2>4. ASSUME NEW i \in 1 .. Len(calls), NEW j \in 1 .. Len(calls), i # j
        PROVE  calls'[i].id # calls'[j].id /\ Stored(calls'[i]) \cap Stored(calls'[j]) = {}
    <3>1. calls[i].id # calls[j].id /\ Stored(calls[i]) \cap Stored(calls[j]) = {}
      BY <1>7, <2>2, <2>4 DEF DistinctCalls, IsInjective, Apart
    <3>2. p.at \notin Stored(calls[i]) /\ p.at \notin Stored(calls[j])
      BY <1>6, <2>2
    <3>3. Stored(calls'[i]) = Stored(calls[i]) \/ Stored(calls'[j]) = Stored(calls[j])
      BY <2>3, <3>1
    <3>4. QED
      BY <2>3, <3>1, <3>2, <3>3
  <2>5. IsInjective(calls')
    BY <2>1, <2>4 DEF IsInjective
  <2>6. Apart(calls')
    BY <2>1, <2>4 DEF Apart, Range
  <2>7. \A c \in Range(calls') : OnceEach(c)
    BY <2>1, <2>3 DEF Range
  <2>8. ASSUME NEW i \in 1 .. Len(calls), NEW k \in DOMAIN arrivals'
        PROVE  arrivals'[k].at \notin Stored(calls'[i])
    BY <1>4, <1>5, <2>2, <2>3
  <2>9. QED
    BY <2>1, <2>5, <2>6, <2>7, <2>8 DEF DistinctCalls, Range
<1>12. CASE /\ p.call \notin IdsOf(calls)
            /\ calls' = sip_list_sorter(calls, WithMsg(NewCall(p), p), sort.by, sort.asc)
  <2>1. NewCall(p) \in CallRecords
    BY <1>1 DEF NewCall, Unchecked, CallRecords, ColumnSets
  <2>2. /\ NewCall(p).id = p.call /\ NewCall(p).msgs = <<>> /\ NewCall(p).rtp = <<>>
    BY DEF NewCall, Unchecked
  <2>3. Range(<<>>) = {} /\ IsInjective(<<>>) /\ AtTimes(<<>>) = <<>>
    BY DEF Range, IsInjective, AtTimes
  <2>4. TimesOf(NewCall(p)) = {} /\ Stored(NewCall(p)) = {}
    BY <2>2, <2>3 DEF Stored, TimesOf
  <2>5. OnceEach(NewCall(p))
    BY <2>2, <2>3, <2>4 DEF OnceEach
  <2> DEFINE new == WithMsg(NewCall(p), p)
  <2>6. Stored(new) = {p.at} /\ new.id = p.call /\ OnceEach(new)
    BY <1>1, <2>1, <2>2, <2>4, <2>5, StoreFacts
  <2>7. new \in CallRecords
    <3>1. [at |-> p.at, text |-> p.text] \in [at : Nat, text : STRING]
      BY <1>1
    <3>2. Append(NewCall(p).msgs, [at |-> p.at, text |-> p.text]) \in Seq([at : Nat, text : STRING])
      BY <2>2, <3>1
    <3>3. QED
      BY <2>1, <3>2 DEF WithMsg, CallRecords
  <2>8. new \notin Range(calls)
    BY <1>12, <2>6 DEF IdsOf
  <2> HIDE DEF new
  <2>9. Range(calls') = Range(calls) \cup {new} /\ IsInjective(calls')
    BY <1>7, <1>12, <2>7, <2>8, SorterFacts DEF new, DistinctCalls
  <2>10. \A c \in Range(calls) : c.id # new.id /\ Stored(c) \cap Stored(new) = {}
    BY <1>6, <1>12, <2>6 DEF IdsOf
  <2>11. Apart(calls')
    BY <1>7, <2>9, <2>10 DEF Apart, DistinctCalls
  <2>12. \A c \in Range(calls') : OnceEach(c)
    BY <1>7, <2>6, <2>9 DEF DistinctCalls
  <2>13. \A c \in Range(calls') : \A k \in DOMAIN arrivals' : arrivals'[k].at \notin Stored(c)
    BY <1>4, <1>5, <2>6, <2>9
  <2>14. QED
    BY <2>9, <2>11, <2>12, <2>13 DEF DistinctCalls
<1>13. QED
  BY <1>10, <1>11, <1>12

LEMMA DistinctStep == DistinctInv /\ [Next]_vars => DistinctInv'
<1> SUFFICES ASSUME DistinctInv, [Next]_vars PROVE DistinctInv'
  OBVIOUS
<1>1. CallsType'
  BY CallsTypeStep DEF DistinctInv
<1>2. calls \in Seq(CallRecords) /\ DistinctCalls(calls) /\ ToCome(calls) /\ ColumnsOfList
  BY DEF DistinctInv, CallsType
<1>3. ASSUME DistinctCalls(calls'), ToCome(calls'), arrivals' = arrivals PROVE DistinctInv'
  BY <1>1, <1>3 DEF DistinctInv, ToCome
<1>4. CASE UNCHANGED vars
  BY <1>2, <1>3, <1>4 DEF vars, store
<1>5. CASE Packet
  BY <1>5, DistinctPacket DEF DistinctInv
<1>6. ASSUME NEW key \in Keys, ClearCalls(key) PROVE DistinctInv'
  <2>1. (calls' = <<>> \/ calls' = Displayed(calls)) /\ arrivals' = arrivals
    BY <1>6 DEF ClearCalls
  <2>2. Range(<<>>) \subseteq Range(calls) /\ IsInjective(<<>>)
    BY DEF Range, IsInjective
  <2>3. DistinctCalls(<<>>) /\ ToCome(<<>>)
    BY <1>2, <2>2, DistinctFewer
  <2>4. QED
    BY <1>2, <1>3, <2>1, <2>3, DistinctDisplayed
<1>7. CASE (CallsChecked \/ CallsSorted \/ CallsReset) /\ arrivals' = arrivals
  <2>1. CASE CallsChecked
    BY <1>2, <1>3, <1>7, <2>1, DistinctChecked DEF CallsChecked
  <2>2. CASE CallsSorted
    <3>1. Range(calls') = Range(calls) /\ IsInjective(calls')
      BY <1>2, <2>2, SortFacts DEF CallsSorted, DistinctCalls
    <3>2. QED
      BY <1>2, <1>3, <1>7, <3>1, DistinctFewer
  <2>3. CASE CallsReset
    BY <1>2, <1>3, <1>7, <2>3, DistinctReset DEF CallsReset
  <2>4. QED
    BY <1>7, <2>1, <2>2, <2>3
<1>8. QED
  BY <1>4, <1>5, <1>6, <1>7, CallsStep

LEMMA InitialDistinct == Init => DistinctInv
<1> SUFFICES ASSUME Init PROVE DistinctInv
  OBVIOUS
<1>1. CallsType
  BY InitialCallsType
<1>2. /\ DOMAIN InitialCalls = 1 .. Len(InitialCalls) /\ calls = [i \in DOMAIN InitialCalls |-> Unchecked(InitialCalls[i])]
      /\ arrivals = Arrivals
  <2>1. DOMAIN InitialCalls = 1 .. Len(InitialCalls)
    BY CaptureAssumption
  <2>2. QED
    BY <2>1 DEF Init
<1>3. \A i \in DOMAIN InitialCalls : calls[i] = Unchecked(InitialCalls[i]) /\ InitialCalls[i] \in Range(InitialCalls)
  BY <1>2 DEF Range
<1>4. \A i \in DOMAIN InitialCalls :
        /\ Alike(InitialCalls[i], calls[i]) /\ Stored(calls[i]) = Stored(InitialCalls[i])
        /\ OnceEach(InitialCalls[i]) => OnceEach(calls[i])
  <2>1. \A i \in DOMAIN InitialCalls : Alike(InitialCalls[i], calls[i])
    <3>1. \A c : Alike(c, Unchecked(c))
      BY DEF Unchecked, Alike
    <3>2. QED
      BY <1>3, <3>1
  <2>2. QED
    BY <2>1, AlikeFacts
<1>5. ASSUME NEW i \in DOMAIN InitialCalls, NEW j \in DOMAIN InitialCalls, i # j
      PROVE  calls[i].id # calls[j].id /\ Stored(calls[i]) \cap Stored(calls[j]) = {}
  BY <1>4, <1>5, PacketsAssumption DEF Alike
<1>6. \A c \in Range(InitialCalls) : OnceEach(c)
  BY PacketsAssumption DEF OnceEach, AtTimes
<1>7. \A i \in DOMAIN InitialCalls : OnceEach(calls[i])
  BY <1>3, <1>4, <1>6
<1>8. IsInjective(calls) /\ Apart(calls)
  BY <1>2, <1>5 DEF IsInjective, Apart, Range
<1>9. ToCome(calls)
  <2>1. IsInjective(AtTimes(arrivals))
    BY <1>2, PacketsAssumption DEF AtTimes
  <2>2. \A k \in DOMAIN arrivals : arrivals[k] \in Range(Arrivals)
    BY <1>2 DEF Range
  <2>3. \A i \in DOMAIN InitialCalls : \A k \in DOMAIN arrivals : arrivals[k].at \notin Stored(calls[i])
    BY <1>3, <1>4, <2>2, PacketsAssumption
  <2>4. QED
    BY <1>2, <2>1, <2>3 DEF ToCome, Range
<1>10. QED
  BY <1>1, <1>2, <1>7, <1>8, <1>9 DEF DistinctInv, DistinctCalls, Range

\* The panel that saves is open only where one source is read, and a question
\* whether to overwrite a file is the panel's.
Asking == dialog.kind = "overwrite" => stack # <<>> /\ Top = "save"

SourceInv ==
  /\ StackType /\ setup \in Setups
  /\ "save" \in Range(stack) => CanSave
  /\ "kind" \in DOMAIN dialog /\ Asking

LEMMA SetupStep == Next => setup' = setup
<1>1. \A key \in Keys : PanelKey(key) => setup' = setup
  <2>1. SUFFICES ASSUME NEW key \in Keys, PanelKey(key) PROVE setup' = setup
    OBVIOUS
  <2>2. CASE ListKey(key)
    BY <2>2 DEF ListKey, ListShow, ListOpen, FilterOpen, ListSelect, ListForm, ListMenu, ListDeselect, ListQuit, Press
  <2>3. CASE ListSave(key) \/ FlowSave(key) \/ RawSave(key)
    BY <2>3 DEF ListSave, FlowSave, RawSave, Press
  <2>4. CASE ClearCalls(key) \/ FormKey(key, Action("form", key, TRUE)) \/ MenuKey(key, Action("menu", key, FALSE))
    BY <2>4 DEF ClearCalls, FormKey, MenuKey, Press
  <2>5. CASE FlowRaw(key) \/ FlowMessage(key) \/ FlowSelect(key) \/ FlowClear(key)
    BY <2>5 DEF FlowRaw, FlowMessage, FlowSelect, FlowClear, Press
  <2>6. CASE \/ FilterEdit(key) \/ FilterConfirm(key) \/ SaveEdit(key) \/ SaveConfirm(key) \/ SaveCancel(key)
             \/ OwnKey(key) \/ ColumnsAccept(key)
    BY <2>6 DEF FilterEdit, FilterConfirm, SaveEdit, SaveConfirm, SaveCancel, OwnKey, ColumnsAccept, Press
  <2>7. CASE DefaultKey(key, Action("default", key, FALSE))
    BY <2>7 DEF DefaultKey, Press
  <2>8. QED
    BY <2>1, <2>2, <2>3, <2>4, <2>5, <2>6, <2>7 DEF PanelKey
<1>2. QED
  BY <1>1 DEF Next, Draw, Packet, Dismiss, ConfirmMove, ConfirmAnswer, ConfirmTimeout

\* A question about a file is asked and kept by the save panel, and success is
\* reported by the step that saves.
StaysQuiet == "kind" \in DOMAIN dialog' /\ dialog'.kind \notin {"overwrite", "saved"}
Asks == /\ "kind" \in DOMAIN dialog' /\ dialog'.kind = "overwrite"
        /\ stack' = stack
        /\ (stack # <<>> /\ Top = "save") \/ dialog.kind = "overwrite"
Saves == /\ (stack # <<>> /\ Top = "save") \/ dialog.kind = "overwrite"
         /\ SaveRest(info["save"]) /\ stack' = stack /\ info' = info

LEMMA DialogKinds ==
  ASSUME Next, "kind" \in DOMAIN dialog, StackType
  PROVE  StaysQuiet \/ Asks \/ Saves
<1>1. NoDialog.kind = "none" /\ "kind" \in DOMAIN NoDialog
  BY DEF NoDialog
<1>2. \A kind : /\ Inform(kind).kind = kind /\ "kind" \in DOMAIN Inform(kind)
                /\ Ask(kind).kind = kind /\ "kind" \in DOMAIN Ask(kind)
  BY DEF Inform, Ask
<1>3. ASSUME dialog' = NoDialog PROVE StaysQuiet
  BY <1>1, <1>3 DEF StaysQuiet
<1>4. CASE Draw \/ Packet
  BY <1>3, <1>4 DEF Draw, Packet
<1>5. ASSUME NEW key \in Keys, Ready, PanelKey(key)
      PROVE  StaysQuiet \/ Asks \/ Saves
  <2>1. dialog = NoDialog /\ stack # <<>>
    BY <1>5 DEF Ready
  <2>2. ASSUME dialog' = dialog \/ dialog' = Ask("quit") \/ dialog' = Inform("refused") \/ dialog' = Inform("help")
        PROVE  StaysQuiet
    BY <1>2, <1>3, <2>1, <2>2 DEF StaysQuiet
  <2>3. CASE ListKey(key)
    BY <2>2, <2>3 DEF ListKey, ListShow, ListOpen, FilterOpen, ListSelect, ListForm, ListMenu, ListDeselect, ListQuit
  <2>4. CASE ListSave(key) \/ FlowSave(key) \/ RawSave(key)
    BY <2>2, <2>4 DEF ListSave, FlowSave, RawSave, Refuse
  <2>5. CASE ClearCalls(key) \/ FormKey(key, Action("form", key, TRUE)) \/ MenuKey(key, Action("menu", key, FALSE))
    BY <2>2, <2>5 DEF ClearCalls, FormKey, MenuKey
  <2>6. CASE FlowRaw(key) \/ FlowMessage(key) \/ FlowSelect(key) \/ FlowClear(key)
    BY <2>2, <2>6 DEF FlowRaw, FlowMessage, FlowSelect, FlowClear
  <2>7. CASE FilterEdit(key) \/ FilterConfirm(key) \/ SaveEdit(key) \/ SaveCancel(key) \/ OwnKey(key) \/ ColumnsAccept(key)
    BY <2>2, <2>7 DEF FilterEdit, FilterConfirm, SaveEdit, SaveCancel, OwnKey, ColumnsAccept
  <2>8. CASE DefaultKey(key, Action("default", key, FALSE))
    BY <2>2, <2>8 DEF DefaultKey
  <2>9. CASE Handler = "save" /\ SaveConfirm(key)
    <3>1. Top = "save"
      BY <2>9, HandlerFacts
    <3>2. /\ stack' = stack /\ info' = info
          /\ \/ dialog' = Inform("failed")
             \/ dialog' = Ask("overwrite")
             \/ SaveRest(info["save"])
      BY <2>9 DEF SaveConfirm
    <3>3. QED
      BY <1>2, <2>1, <3>1, <3>2 DEF StaysQuiet, Asks, Saves
  <2>10. QED
    BY <1>5, <2>3, <2>4, <2>5, <2>6, <2>7, <2>8, <2>9 DEF PanelKey
<1>6. CASE Dismiss
  BY <1>3, <1>6 DEF Dismiss
<1>7. ASSUME dialog.kind \in Questions, stack' = stack, "kind" \in DOMAIN dialog', dialog'.kind = dialog.kind
      PROVE  StaysQuiet \/ Asks
  BY <1>7 DEF StaysQuiet, Asks, Questions
<1>8. CASE ConfirmTimeout
  <2>1. "kind" \in DOMAIN dialog' /\ dialog'.kind = dialog.kind /\ dialog.kind \in Questions /\ stack' = stack
    BY <1>8 DEF ConfirmTimeout, screen
  <2>2. QED
    BY <1>7, <2>1
<1>9. ASSUME NEW key \in Keys, ConfirmMove(key) PROVE StaysQuiet \/ Asks
  <2>1. PICK a, s : dialog' = [dialog EXCEPT !.action = a, !.selected = s]
    BY <1>9 DEF ConfirmMove
  <2>2. "kind" \in DOMAIN dialog' /\ dialog'.kind = dialog.kind
    BY <2>1
  <2>3. QED
    BY <1>7, <1>9, <2>2 DEF ConfirmMove, screen
<1>10. ASSUME NEW key \in Keys, ConfirmAnswer(key) PROVE StaysQuiet \/ Saves
  BY <1>3, <1>10 DEF ConfirmAnswer, Saves
<1>11. QED
  BY <1>4, <1>5, <1>6, <1>8, <1>9, <1>10 DEF Next

LEMMA SourceStep == SourceInv /\ [Next]_vars => SourceInv'
<1> SUFFICES ASSUME SourceInv, [Next]_vars PROVE SourceInv'
  OBVIOUS
<1>1. CASE UNCHANGED vars
  BY <1>1 DEF vars, screen, SourceInv, StackType, CanSave, Asking, Top
<1>2. CASE Next
  <2>1. setup' = setup /\ (CanSave => CanSave')
    BY <1>2, SetupStep DEF CanSave
  <2>2. stack' \in Seq(PanelNames) /\ ("save" \in Range(stack') => "save" \in Range(stack) \/ CanSave)
    <3>1. CASE StackKept
      BY <3>1 DEF StackKept, SourceInv, StackType
    <3>2. CASE StackOpened
      <4>1. PICK which \in PanelNames : stack' = Append(stack, which) /\ (which = "save" => CanSave)
        BY <3>2 DEF StackOpened
      <4>2. stack' \in Seq(PanelNames) /\ Range(stack') = Range(stack) \cup {which}
        BY <4>1, AppendFacts DEF SourceInv, StackType
      <4>3. QED
        BY <4>1, <4>2
    <3>3. CASE StackClosed
      <4>1. CASE stack = <<>>
        <5>1. stack' = <<>>
          BY <3>3, <4>1 DEF StackClosed, Front
        <5>2. QED
          BY <4>1, <5>1 DEF SourceInv, StackType
      <4>2. CASE stack # <<>>
        BY <3>3, <4>2, FrontFacts DEF StackClosed, SourceInv, StackType
      <4>3. QED
        BY <4>1, <4>2
    <3>4. CASE StackCleared
      <4>1. PICK key \in Keys : stack' = HandlerStack(key)
        BY <3>4 DEF StackCleared
      <4>2. QED
        BY <4>1, HandlerStackFacts DEF SourceInv
    <3>5. QED
      BY <1>2, <3>1, <3>2, <3>3, <3>4, StackStep
  <2>3. "kind" \in DOMAIN dialog' /\ Asking'
    <3>1. CASE StaysQuiet
      BY <3>1 DEF StaysQuiet, Asking
    <3>2. CASE Asks
      BY <3>2 DEF Asks, Asking, SourceInv, Top
    <3>3. CASE Saves
      <4>1. PICK kind \in {"saved", "failed"} : dialog' = Inform(kind)
        BY <3>3 DEF Saves, SaveRest
      <4>2. dialog'.kind = kind /\ "kind" \in DOMAIN dialog'
        BY <4>1 DEF Inform
      <4>3. QED
        BY <4>2 DEF Asking
    <3>4. QED
      BY <1>2, <3>1, <3>2, <3>3, DialogKinds DEF SourceInv
  <2>4. QED
    BY <2>1, <2>2, <2>3 DEF SourceInv, StackType
<1>3. QED
  BY <1>1, <1>2

\* What is saved of a call, of which calls, and what a report says of it.
PacketsIn(c, format) == [i \in DOMAIN c.msgs |-> c.msgs[i].at] \o (IF format = "pcap_rtp" THEN c.rtp ELSE <<>>)

WantedOf(c, format) == TimesOf(c) \cup (IF format = "pcap_rtp" THEN Range(c.rtp) ELSE {})

Chosen(s, cs) ==
  CASE s.mode = "all" -> Range(cs)
    [] s.mode = "selected" -> {CHOOSE d \in Range(cs) : d.id = c : c \in Range(s.group)}
    [] s.mode = "displayed" -> {c \in Range(cs) : IsShown(c)}
    [] s.mode = "message" -> {}

Wanted(s, cs) == (UNION {WantedOf(c, s.format) : c \in cs}) \cup (IF s.mode = "message" THEN {s.msg} ELSE {})

\* What the chosen packets are written as
FileContent(packets, format) == IF IsPcap(format) THEN dump(packets) ELSE packets

Holds(content, s, cs) ==
  \E packets \in [1 .. Cardinality(Wanted(s, cs)) -> Wanted(s, cs)] :
    /\ IsInjective(packets) /\ content = FileContent(packets, s.format)
    /\ IsPcap(s.format) => InOrder(packets)

LEMMA ReportMeans ==
  /\ SavedAsReported <=>
       (dialog.kind = "saved" => /\ FileOf(info["save"]) \in DOMAIN disk
                                 /\ Holds(disk[FileOf(info["save"])], info["save"], Chosen(info["save"], calls)))
  /\ SavedAsReported' <=>
       (dialog'.kind = "saved" => /\ FileOf(info'["save"]) \in DOMAIN disk'
                                  /\ Holds(disk'[FileOf(info'["save"])], info'["save"], Chosen(info'["save"], calls')))
BY DEF SavedAsReported, Holds, FileContent, Wanted, WantedOf, Chosen, CallOf, InOrder

\* A sequence that holds the wanted packets once each is what is wanted.
LEMMA HoldsFacts ==
  ASSUME NEW packets, NEW s, NEW cs, packets \in Seq(Range(packets)), IsInjective(packets),
         Range(packets) = Wanted(s, cs), IsPcap(s.format) => InOrder(packets)
  PROVE  Holds(FileContent(packets, s.format), s, cs)
<1>1. Len(packets) = Cardinality(Wanted(s, cs))
  BY InjectiveLength
<1>2. packets \in [1 .. Len(packets) -> Range(packets)]
  OBVIOUS
<1>3. packets \in [1 .. Cardinality(Wanted(s, cs)) -> Wanted(s, cs)]
  BY <1>1, <1>2
<1>4. QED
  BY <1>3 DEF Holds

\* The packets of one call, each once.
LEMMA PacketsInFacts ==
  ASSUME NEW c \in CallRecords, OnceEach(c), NEW format
  PROVE  /\ PacketsIn(c, format) \in Seq(Nat) /\ IsInjective(PacketsIn(c, format))
         /\ Range(PacketsIn(c, format)) = WantedOf(c, format)
<1> DEFINE a == AtTimes(c.msgs)
           b == IF format = "pcap_rtp" THEN c.rtp ELSE <<>>
<1>1. c.msgs \in Seq([at : Nat, text : STRING]) /\ c.rtp \in Seq(Nat)
  BY DEF CallRecords
<1>2. a \in Seq(Nat) /\ Range(a) = TimesOf(c) /\ IsInjective(a)
  <2>1. PICK s \in Seq([at : Nat, text : STRING]) : s = c.msgs
    BY <1>1
  <2>2. Len(s) \in Nat /\ DOMAIN s = 1 .. Len(s) /\ \A i \in 1 .. Len(s) : s[i].at \in Nat
    <3>1. PICK S : S = [at : Nat, text : STRING]
      OBVIOUS
    <3>2. s \in Seq(S)
      BY <3>1
    <3>3. Len(s) \in Nat /\ DOMAIN s = 1 .. Len(s) /\ \A i \in 1 .. Len(s) : s[i] \in S
      BY <3>2
    <3>4. QED
      BY <3>1, <3>3
  <2>3. AtTimes(s) \in [1 .. Len(s) -> Nat] /\ DOMAIN AtTimes(s) = 1 .. Len(s)
        /\ \A i \in 1 .. Len(s) : AtTimes(s)[i] = s[i].at
    BY <2>2 DEF AtTimes
  <2>4. AtTimes(s) \in Seq(Nat)
    BY <2>2, <2>3
  <2>5. Range(AtTimes(s)) = {m.at : m \in Range(s)}
    BY <2>2, <2>3 DEF Range
  <2>6. QED
    BY <2>1, <2>4, <2>5 DEF TimesOf, OnceEach
<1>3. b \in Seq(Nat) /\ IsInjective(b) /\ Range(b) = IF format = "pcap_rtp" THEN Range(c.rtp) ELSE {}
  <2>1. Range(<<>>) = {} /\ IsInjective(<<>>) /\ <<>> \in Seq(Nat)
    BY DEF Range, IsInjective
  <2>2. QED
    BY <1>1, <2>1 DEF OnceEach
<1>4. Range(a) \cap Range(b) = {}
  BY <1>2, <1>3 DEF OnceEach
<1>5. PacketsIn(c, format) = a \o b
  BY DEF PacketsIn, AtTimes
<1> HIDE DEF a, b
<1>6. /\ a \o b \in Seq(Nat) /\ Len(a \o b) = Len(a) + Len(b) /\ Len(a) \in Nat /\ Len(b) \in Nat
      /\ DOMAIN a = 1 .. Len(a) /\ DOMAIN b = 1 .. Len(b) /\ DOMAIN (a \o b) = 1 .. Len(a) + Len(b)
      /\ \A i \in 1 .. Len(a) : (a \o b)[i] = a[i]
      /\ \A i \in 1 .. Len(b) : (a \o b)[Len(a) + i] = b[i]
  BY <1>2, <1>3
<1>7. PICK t : t = a \o b
  OBVIOUS
<1>8. \A i \in 1 .. Len(a) + Len(b) : \/ i \in 1 .. Len(a) /\ t[i] = a[i]
                                      \/ i - Len(a) \in 1 .. Len(b) /\ t[i] = b[i - Len(a)]
  <2>1. SUFFICES ASSUME NEW i \in 1 .. Len(a) + Len(b), i \notin 1 .. Len(a)
                 PROVE  i - Len(a) \in 1 .. Len(b) /\ t[i] = b[i - Len(a)]
    BY <1>6, <1>7
  <2>2. i - Len(a) \in 1 .. Len(b) /\ i = Len(a) + (i - Len(a))
    BY <1>6, <2>1
  <2>3. QED
    BY <1>6, <1>7, <2>2
<1>9. IsInjective(t)
  <2>1. SUFFICES ASSUME NEW i \in 1 .. Len(a) + Len(b), NEW j \in 1 .. Len(a) + Len(b), t[i] = t[j]
                 PROVE  i = j
    BY <1>6, <1>7 DEF IsInjective
  <2>2. \A k \in 1 .. Len(a), l \in 1 .. Len(b) : a[k] # b[l]
    BY <1>4, <1>6 DEF Range
  <2>3. \A k, l \in 1 .. Len(a) : a[k] = a[l] => k = l
    BY <1>2, <1>6 DEF IsInjective
  <2>4. \A k, l \in 1 .. Len(b) : b[k] = b[l] => k = l
    BY <1>3, <1>6 DEF IsInjective
  <2>5. CASE i \in 1 .. Len(a) /\ t[i] = a[i]
    BY <1>8, <2>1, <2>2, <2>3, <2>5
  <2>6. CASE i - Len(a) \in 1 .. Len(b) /\ t[i] = b[i - Len(a)]
    <3>1. j - Len(a) \in 1 .. Len(b) /\ t[j] = b[j - Len(a)]
      BY <1>8, <2>1, <2>2, <2>6
    <3>2. i - Len(a) = j - Len(a)
      BY <2>1, <2>4, <2>6, <3>1
    <3>3. QED
      BY <1>6, <3>2
  <2>7. QED
    BY <1>8, <2>5, <2>6
<1>10. Range(t) = Range(a) \cup Range(b)
  <2>1. Range(t) \subseteq Range(a) \cup Range(b)
    BY <1>6, <1>7, <1>8 DEF Range
  <2>2. \A i \in 1 .. Len(a) : i \in 1 .. Len(a) + Len(b)
    BY <1>6
  <2>3. \A i \in 1 .. Len(b) : Len(a) + i \in 1 .. Len(a) + Len(b)
    BY <1>6
  <2>4. Range(a) \subseteq Range(t)
    <3>1. \A i \in 1 .. Len(a) : t[i] = a[i]
      BY <1>6, <1>7
    <3>2. QED
      BY <1>6, <1>7, <2>2, <3>1 DEF Range
  <2>5. Range(b) \subseteq Range(t)
    <3>1. \A i \in 1 .. Len(b) : t[Len(a) + i] = b[i]
      BY <1>6, <1>7
    <3>2. \A x \in Range(b) : \E i \in 1 .. Len(b) : x = b[i]
      BY <1>6 DEF Range
    <3>3. \A i \in 1 .. Len(b) : \E k \in DOMAIN t : t[k] = b[i]
      BY <1>6, <1>7, <2>3, <3>1
    <3>4. QED
      BY <3>2, <3>3 DEF Range
  <2>6. QED
    BY <2>1, <2>4, <2>5
<1>11. QED
  BY <1>2, <1>3, <1>5, <1>6, <1>7, <1>9, <1>10 DEF WantedOf

\* The calls to be saved, each once.
LEMMA SavedCallsFacts ==
  ASSUME DistinctInv, NEW s, s.group \in CallGroups(IdsOf(calls)), s.mode \in {"all", "selected", "displayed"}
  PROVE  /\ SavedCalls(s) \in Seq(CallRecords) /\ DistinctCalls(SavedCalls(s))
         /\ s.mode = "displayed" => Range(SavedCalls(s)) = Chosen(s, Checked(calls))
         /\ s.mode # "displayed" => Range(SavedCalls(s)) = Chosen(s, calls)
<1>1. calls \in Seq(CallRecords) /\ DistinctCalls(calls) /\ ToCome(calls) /\ ColumnsOfList
  BY DEF DistinctInv, CallsType
<1>2. CASE s.mode = "all"
  BY <1>1, <1>2 DEF SavedCalls, Chosen
<1>3. CASE s.mode = "displayed"
  <2>1. SavedCalls(s) = Displayed(calls) /\ Chosen(s, Checked(calls)) = {c \in Range(Checked(calls)) : IsShown(c)}
    BY <1>3 DEF SavedCalls, Chosen
  <2>2. QED
    BY <1>1, <1>3, <2>1, DistinctDisplayed
<1>4. CASE s.mode = "selected"
  <2>1. PICK group \in Seq(IdsOf(calls)) : group = s.group /\ IsInjective(group)
    BY DEF CallGroups
  <2>2. /\ SavedCalls(s) = [i \in DOMAIN group |-> CallOf(group[i])]
        /\ Chosen(s, calls) = {CallOf(c) : c \in Range(group)}
    BY <1>4, <2>1 DEF SavedCalls, CallsOf, Chosen, CallOf
  <2>3. DOMAIN group = 1 .. Len(group) /\ Len(group) \in Nat /\ \A i \in 1 .. Len(group) : group[i] \in IdsOf(calls)
    OBVIOUS
  <2>4. \A id \in IdsOf(calls) : CallOf(id) \in Range(calls) /\ CallOf(id).id = id
    BY DEF IdsOf, CallOf
  <2>5. \A c \in Range(calls) : c \in CallRecords
    BY <1>1 DEF Range
  <2> DEFINE cs == [i \in 1 .. Len(group) |-> CallOf(group[i])]
  <2>6. cs \in [1 .. Len(group) -> CallRecords]
    BY <2>3, <2>4, <2>5
  <2>7. cs \in Seq(CallRecords)
    BY <2>3, <2>6
  <2>8. Range(cs) = {CallOf(c) : c \in Range(group)} /\ Range(cs) \subseteq Range(calls)
    BY <2>3, <2>4 DEF Range
  <2>9. IsInjective(cs)
    <3>1. SUFFICES ASSUME NEW i \in 1 .. Len(group), NEW j \in 1 .. Len(group), CallOf(group[i]) = CallOf(group[j])
                   PROVE  i = j
      BY DEF IsInjective
    <3>2. group[i] = group[j]
      BY <2>3, <2>4, <3>1
    <3>3. QED
      BY <2>1, <2>3, <3>2 DEF IsInjective
  <2> HIDE DEF cs
  <2>10. SavedCalls(s) = cs
    BY <2>2, <2>3 DEF cs
  <2>11. DistinctCalls(cs)
    BY <1>1, <2>8, <2>9, DistinctFewer
  <2>12. QED
    BY <1>4, <2>2, <2>7, <2>8, <2>10, <2>11
<1>5. QED
  BY <1>2, <1>3, <1>4

\* The loops write what was chosen, each packet once and a pcap file in order.
LEMMA WrittenFacts ==
  ASSUME NEW s, s.mode \in {"all", "selected", "displayed"}, SavedCalls(s) \in Seq(CallRecords),
         DistinctCalls(SavedCalls(s))
  PROVE  Holds(Written(s), s, Range(SavedCalls(s)))
<1> DEFINE cs == SavedCalls(s)
           ss == [i \in DOMAIN cs |-> PacketsIn(cs[i], s.format)]
           all == FlattenSeq(ss)
           wanted == UNION {WantedOf(c, s.format) : c \in Range(cs)}
           written == IF IsPcap(s.format) THEN Sorted(all) ELSE all
<1>1. Written(s) = FileContent(written, s.format)
  BY DEF Written, PacketsIn, FileContent
<1>2. Wanted(s, Range(cs)) = wanted
  BY DEF Wanted
<1>3. cs \in Seq(CallRecords) /\ DistinctCalls(cs)
  OBVIOUS
<1> HIDE DEF cs
<1>4. /\ DOMAIN cs = 1 .. Len(cs) /\ Len(cs) \in Nat
      /\ \A i \in 1 .. Len(cs) : cs[i] \in CallRecords /\ cs[i] \in Range(cs)
  BY <1>3 DEF Range
<1>5. \A i \in 1 .. Len(cs) : /\ ss[i] = PacketsIn(cs[i], s.format)
                              /\ ss[i] \in Seq(Nat) /\ IsInjective(ss[i])
                              /\ Range(ss[i]) = WantedOf(cs[i], s.format)
  BY <1>3, <1>4, PacketsInFacts DEF DistinctCalls
<1>6. ss \in Seq(Seq(Nat)) /\ Len(ss) = Len(cs)
  <2>1. ss = [i \in 1 .. Len(cs) |-> ss[i]]
    BY <1>4
  <2>2. \A i \in 1 .. Len(cs) : ss[i] \in Seq(Nat)
    BY <1>5
  <2> HIDE DEF ss
  <2>3. QED
    BY <1>3, <2>1, <2>2, MapFacts
<1>7. ASSUME NEW i \in 1 .. Len(cs), NEW j \in 1 .. Len(cs), i # j
      PROVE  Range(ss[i]) \cap Range(ss[j]) = {}
  <2>1. Stored(cs[i]) \cap Stored(cs[j]) = {}
    BY <1>3, <1>4, <1>7 DEF DistinctCalls, IsInjective, Apart
  <2>2. \A c : WantedOf(c, s.format) \subseteq Stored(c)
    BY DEF WantedOf, Stored
  <2>3. Range(ss[i]) \subseteq Stored(cs[i]) /\ Range(ss[j]) \subseteq Stored(cs[j])
    BY <1>5, <2>2
  <2>4. QED
    BY <2>1, <2>3
<1> HIDE DEF ss
<1>8. all \in Seq(Nat) /\ IsInjective(all) /\ Range(all) = UNION {Range(ss[b]) : b \in 1 .. Len(ss)}
  <2>1. PICK S : S = Nat
    OBVIOUS
  <2>2. PICK tt \in Seq(Seq(S)) : tt = ss
    BY <1>6, <2>1
  <2>3. \A b \in 1 .. Len(tt) : IsInjective(tt[b])
    BY <1>5, <1>6, <2>2
  <2>4. \A b, c \in 1 .. Len(tt) : b # c => Range(tt[b]) \cap Range(tt[c]) = {}
    BY <1>6, <1>7, <2>2
  <2>5. /\ FlattenSeq(tt) \in Seq(S) /\ IsInjective(FlattenSeq(tt))
        /\ Range(FlattenSeq(tt)) = UNION {Range(tt[b]) : b \in 1 .. Len(tt)}
    BY <2>3, <2>4, FlattenDistinct
  <2>6. QED
    BY <2>1, <2>2, <2>5
<1> HIDE DEF all
<1>9. Range(all) = wanted
  <2>1. \A x \in Range(all) : \E b \in 1 .. Len(cs) : x \in Range(ss[b])
    BY <1>6, <1>8
  <2>2. \A b \in 1 .. Len(cs) : Range(ss[b]) \subseteq Range(all)
    BY <1>6, <1>8
  <2>3. \A c \in Range(cs) : \E b \in 1 .. Len(cs) : c = cs[b]
    BY <1>4 DEF Range
  <2>4. Range(all) \subseteq wanted
    BY <1>4, <1>5, <2>1
  <2>5. wanted \subseteq Range(all)
    BY <1>5, <2>2, <2>3
  <2>6. QED
    BY <2>4, <2>5
<1>10. /\ Sorted(all) \in Seq(Nat) /\ Range(Sorted(all)) = Range(all)
       /\ IsInjective(Sorted(all)) /\ InOrder(Sorted(all))
  <2>1. PICK packets \in Seq(Nat) : packets = all /\ IsInjective(packets)
    BY <1>8
  <2>2. QED
    BY <2>1, SortedFacts
<1> HIDE DEF wanted
<1>11. /\ written \in Seq(Nat) /\ Range(written) = wanted /\ IsInjective(written)
       /\ IsPcap(s.format) => InOrder(written)
  BY <1>8, <1>9, <1>10
<1> HIDE DEF written
<1>12. written \in Seq(Range(written))
  <2>1. DOMAIN written = 1 .. Len(written) /\ Len(written) \in Nat
    BY <1>11
  <2>2. \A i \in 1 .. Len(written) : written[i] \in Range(written)
    BY <2>1 DEF Range
  <2>3. QED
    BY <1>11, <2>1, <2>2
<1>13. Holds(Written(s), s, Range(cs))
  BY <1>1, <1>2, <1>11, <1>12, HoldsFacts
<1>14. QED
  BY <1>13 DEF cs

\* Where success is reported the file was opened and holds what was chosen.
LEMMA SavedStep ==
  ASSUME LiveInv, DistinctInv, SourceInv, Saves, setup' = setup, dialog'.kind = "saved"
  PROVE  SavedAsReported'
<1> DEFINE s == info["save"]
           file == FileOf(s)
<1>1. Top = "save" /\ "save" \in Range(stack) /\ "save" \in PanelNames
  BY FrontFacts DEF Saves, SourceInv, StackType, Asking, Top, PanelNames
<1>2. LiveData("save", s, IdsOf(calls), Times(calls))
  BY <1>1 DEF LiveInv, StackLive, InfoLive
<1>3. s.group \in CallGroups(IdsOf(calls)) /\ s.mode \in {"all", "selected", "displayed", "message"}
  BY <1>2 DEF LiveData
<1>4. setup.sources = 1
  BY <1>1, SetupsAssumption DEF SourceInv, CanSave
<1>5. info' = info /\ SaveRest(s)
  BY DEF Saves
<1> HIDE DEF s
<1>6. PICK kind : dialog' = Inform(kind) /\ (kind = "saved" => SaveRest(s))
  BY <1>5 DEF SaveRest
<1>7. dialog' = Inform("saved")
  BY <1>6 DEF Inform
<1>8. Inform("failed") # Inform("saved")
  <2>1. Inform("failed").kind # Inform("saved").kind
    BY DEF Inform
  <2>2. QED
    BY <2>1
<1>9. /\ disk' = WithFile(file, Written(s))
      /\ calls' = IF s.mode = "displayed" THEN Checked(calls) ELSE calls
  BY <1>4, <1>5, <1>7, <1>8 DEF SaveRest
<1>10. FileOf(info'["save"]) = file /\ info'["save"] = s
  BY <1>5 DEF s
<1>11. file \in DOMAIN disk' /\ disk'[file] = Written(s)
  BY <1>9 DEF WithFile
<1>12. Holds(Written(s), s, Chosen(s, calls'))
  <2>1. CASE s.mode = "message"
    <3>1. Written(s) = FileContent(<<s.msg>>, s.format)
      BY <2>1 DEF Written, FileContent
    <3>2. Chosen(s, calls') = {}
      BY <2>1 DEF Chosen
    <3>3. Wanted(s, {}) = {s.msg}
      BY <2>1 DEF Wanted
    <3>4. PICK one : one = <<s.msg>>
      OBVIOUS
    <3>5. Range(one) = {s.msg} /\ IsInjective(one) /\ InOrder(one) /\ one \in Seq({s.msg})
      BY <3>4 DEF Range, IsInjective, InOrder
    <3>6. Holds(FileContent(one, s.format), s, {})
      BY <3>3, <3>5, HoldsFacts
    <3>7. QED
      BY <3>1, <3>2, <3>4, <3>6
  <2>2. CASE s.mode \in {"all", "selected", "displayed"}
    <3>1. SavedCalls(s) \in Seq(CallRecords) /\ DistinctCalls(SavedCalls(s)) /\ Range(SavedCalls(s)) = Chosen(s, calls')
      BY <1>3, <1>9, <2>2, SavedCallsFacts
    <3>2. QED
      BY <2>2, <3>1, WrittenFacts
  <2>3. QED
    BY <1>3, <2>1, <2>2
<1>13. QED
  BY <1>10, <1>11, <1>12, ReportMeans

\* A save panel that reports success has written each chosen message, and with
\* RTP each packet of the streams, once with all its frames, and a pcap file in
\* the order of their first frames, for every choice of calls, format and file
\* and however many frames packets have or share (save_to_file, dump_packet).
THEOREM SavedRightly == Spec => []SavedAsReported
<1> DEFINE IInv == LiveInv /\ DistinctInv /\ SourceInv /\ SavedAsReported
<1>1. Init => IInv
  <2> SUFFICES ASSUME Init PROVE IInv
    OBVIOUS
  <2>1. dialog.kind = "none" /\ "kind" \in DOMAIN dialog
    BY DEF Init, NoDialog
  <2>2. SavedAsReported
    BY <2>1 DEF SavedAsReported
  <2>3. Range(stack) = {"list"} /\ stack \in Seq(PanelNames)
    <3>1. stack = <<"list">> /\ "list" \in PanelNames
      BY DEF Init, PanelNames
    <3>2. QED
      BY <3>1 DEF Range
  <2>4. SourceInv
    BY <2>1, <2>3 DEF Init, SourceInv, StackType, Asking
  <2>5. QED
    BY <2>2, <2>4, InitialLive, InitialDistinct
<1>2. IInv /\ [Next]_vars => IInv'
  <2> SUFFICES ASSUME IInv, [Next]_vars PROVE IInv'
    OBVIOUS
  <2>1. LiveInv' /\ DistinctInv' /\ SourceInv'
    BY LiveStep, DistinctStep, SourceStep
  <2>2. CASE UNCHANGED vars
    <3>1. info' = info /\ calls' = calls /\ disk' = disk /\ dialog' = dialog
      BY <2>2 DEF vars, screen, store
    <3>2. SavedAsReported' <=> SavedAsReported
      BY <3>1, ReportMeans
    <3>3. QED
      BY <2>1, <3>2
  <2>3. CASE Next
    <3>1. StaysQuiet \/ Asks => SavedAsReported'
      BY DEF StaysQuiet, Asks, SavedAsReported
    <3>2. CASE Saves
      <4>1. dialog'.kind # "saved" => SavedAsReported'
        BY DEF SavedAsReported
      <4>2. setup' = setup
        BY <2>3, SetupStep
      <4>3. SavedAsReported'
        BY <3>2, <4>1, <4>2, SavedStep
      <4>4. QED
        BY <2>1, <4>3
    <3>3. StaysQuiet \/ Asks \/ Saves
      BY <2>3, DialogKinds DEF SourceInv
    <3>4. QED
      BY <2>1, <3>1, <3>2, <3>3
  <2>4. QED
    BY <2>1, <2>2, <2>3
<1>3. QED
  BY <1>1, <1>2, PTL DEF Spec

-------------------------------------------------------------------------------
(***************************************************************************)
(* Configuration.                                                          *)
(***************************************************************************)

\* A function on 1 .. n is a sequence of its own values.
LEMMA OwnValues ==
  ASSUME NEW n \in Nat, NEW s, s = [i \in 1 .. n |-> s[i]]
  PROVE  s \in Seq(Range(s)) /\ Len(s) = n /\ DOMAIN s = 1 .. n
<1>1. DOMAIN s = 1 .. n
  OBVIOUS
<1>2. \A i \in 1 .. n : s[i] \in Range(s)
  BY <1>1 DEF Range
<1>3. s \in [1 .. n -> Range(s)]
  BY <1>2
<1>4. QED
  BY <1>1, <1>3

LEMMA OwnSequence ==
  ASSUME NEW S, NEW s \in Seq(S)
  PROVE  s \in Seq(Range(s)) /\ Range(s) \subseteq S
<1>1. Len(s) \in Nat /\ s = [i \in 1 .. Len(s) |-> s[i]] /\ DOMAIN s = 1 .. Len(s)
  OBVIOUS
<1>2. \A i \in 1 .. Len(s) : s[i] \in S
  OBVIOUS
<1>3. QED
  BY <1>1, <1>2, OwnValues DEF Range

\* One sequence behind another.
LEMMA BehindFacts ==
  ASSUME NEW S, NEW s \in Seq(S), NEW T, NEW t \in Seq(T)
  PROVE  /\ s \o t \in Seq(Range(s \o t))
         /\ Range(s \o t) = Range(s) \cup Range(t)
         /\ Len(s \o t) = Len(s) + Len(t)
         /\ \A i \in 1 .. Len(s) : (s \o t)[i] = s[i]
         /\ \A i \in 1 .. Len(t) : (s \o t)[Len(s) + i] = t[i]
<1> DEFINE u == s \o t
<1>1. s \in Seq(S \cup T) /\ t \in Seq(S \cup T) /\ Len(s) \in Nat /\ Len(t) \in Nat
  OBVIOUS
<1>2. u \in Seq(S \cup T) /\ Len(u) = Len(s) + Len(t)
  BY <1>1
<1>3. /\ \A i \in 1 .. Len(s) : u[i] = s[i]
      /\ \A i \in 1 .. Len(t) : u[Len(s) + i] = t[i]
  BY <1>1
<1> HIDE DEF u
<1>4. DOMAIN u = 1 .. Len(u) /\ DOMAIN s = 1 .. Len(s) /\ DOMAIN t = 1 .. Len(t)
  BY <1>2
<1>5. Range(u) \subseteq Range(s) \cup Range(t)
  <2>1. ASSUME NEW i \in 1 .. Len(u) PROVE u[i] \in Range(s) \cup Range(t)
    <3>1. CASE i \in 1 .. Len(s)
      BY <1>3, <1>4, <3>1 DEF Range
    <3>2. CASE i > Len(s)
      <4>1. i - Len(s) \in 1 .. Len(t) /\ Len(s) + (i - Len(s)) = i
        BY <1>1, <1>2, <3>2
      <4>2. u[i] = t[i - Len(s)]
        BY <1>3, <4>1
      <4>3. QED
        BY <1>4, <4>1, <4>2 DEF Range
    <3>3. QED
      BY <1>1, <3>1, <3>2
  <2>2. QED
    BY <1>4, <2>1 DEF Range
<1>6. Range(s) \cup Range(t) \subseteq Range(u)
  <2>1. \A i \in 1 .. Len(s) : i \in DOMAIN u
    BY <1>1, <1>2, <1>4
  <2>2. \A i \in 1 .. Len(t) : Len(s) + i \in DOMAIN u
    BY <1>1, <1>2, <1>4
  <2>3. QED
    BY <1>3, <1>4, <2>1, <2>2 DEF Range
<1>7. u \in Seq(Range(u))
  BY <1>2, OwnSequence
<1>8. QED
  BY <1>2, <1>3, <1>5, <1>6, <1>7 DEF u

\* Files are files, and settings and fields are words.
FileInv ==
  /\ rc \in Seq(FileLines) \cup {Missing} /\ old \in Seq(FileLines) \cup {Missing}
  /\ settings \in [DOMAIN SettingTable -> Words] /\ fields \in [PanelSettings -> Words]

MenuItems == [attr : Range(Attributes), on : BOOLEAN]

\* The columns' panel has an item for each attribute.
MenuInv ==
  /\ columns \in Seq(AttributeNames) /\ Len(columns) <= Len(Attributes)
  /\ items \in Seq(MenuItems)
  /\ panel = "columns" => Len(items) = Len(Attributes)
  /\ items = <<>> \/ panel = "columns"

LEMMA AttributeCount ==
  /\ Len(Attributes) \in Nat /\ DOMAIN Attributes = 1 .. Len(Attributes)
  /\ DOMAIN ColumnOptions = 1 .. Len(Attributes)
<1>1. PICK S : S = Words \ {NoText}
  OBVIOUS
<1>2. Attributes \in Seq(S) /\ ColumnOptions \in Seq(Words) /\ Len(ColumnOptions) = Len(Attributes)
  BY <1>1, ColumnsAssumption
<1>3. QED
  BY <1>2

LEMMA AttributeWords ==
  Range(Attributes) \subseteq Words \ {NoText} /\ Range(ColumnOptions) \subseteq Words
<1>1. PICK S : S = Words \ {NoText}
  OBVIOUS
<1>2. Attributes \in Seq(S) /\ ColumnOptions \in Seq(Words)
  BY <1>1, ColumnsAssumption
<1>3. Range(Attributes) \subseteq S /\ Range(ColumnOptions) \subseteq Words
  BY <1>2, OwnSequence
<1>4. QED
  BY <1>1, <1>3

Copied ==
  IF old = Missing THEN <<>>
  ELSE CopyIf(old, {l \in Lines(old) : IF panel = "settings" THEN KeptBySettings(l) ELSE KeptByColumns(l)})

Added == IF panel = "settings" THEN SettingLines ELSE ColumnLines

LEMMA NewFileParts == NewFile = Copied \o Added
BY DEF NewFile, Copied, Added

\* The settings in the order they are written.
LEMMA ListedFacts ==
  /\ SetToSeq(PanelSettings) \in Seq(PanelSettings)
  /\ IsInjective(SetToSeq(PanelSettings))
  /\ Range(SetToSeq(PanelSettings)) = PanelSettings
<1> DEFINE S == PanelSettings
           n == Cardinality(S)
           q == SetToSeq(S)
<1>1. IsFiniteSet(S)
  BY SettingsAssumption
<1>2. n \in Nat
  BY <1>1, FS_CardinalityType
<1>3. PICK f : f \in Bijection(1 .. n, S)
  BY <1>1, FS_CardinalityType DEF ExistsBijection
<1>4. f \in [1 .. n -> S]
  BY <1>3, Zenon DEF Bijection, Injection
<1>5. IsInjective(f)
  BY <1>3, <1>4 DEF Bijection, Injection, IsInjective
<1>6. q \in [1 .. n -> S] /\ IsInjective(q)
  BY <1>4, <1>5, Zenon DEF SetToSeq
<1> HIDE DEF q
<1>7. q \in Injection(1 .. n, S)
  BY <1>6 DEF Injection, IsInjective
<1>8. Range(q) = S
  <2>1. Range(q) \subseteq S /\ IsFiniteSet(Range(q))
    <3>1. Range(q) \subseteq S
      BY <1>6 DEF Range
    <3>2. QED
      BY <1>1, <3>1, FS_Subset
  <2>2. q \in Surjection(1 .. n, Range(q)) /\ q \in Injection(1 .. n, Range(q))
    BY <1>6 DEF Surjection, Injection, IsInjective, Range
  <2>3. q \in Bijection(1 .. n, Range(q))
    BY <2>2 DEF Bijection
  <2>4. ExistsBijection(1 .. n, Range(q))
    BY <2>3 DEF ExistsBijection
  <2>5. Cardinality(Range(q)) = n
    BY <1>2, <2>1, <2>4, FS_CountingElements
  <2>6. QED
    BY <1>1, <2>1, <2>5, FS_Subset
<1>9. q \in Seq(S)
  BY <1>2, <1>6
<1>10. QED
  BY <1>6, <1>8, <1>9 DEF q

\* Places of the items that are on, in their order
OnPlaces == CopyIf([i \in DOMAIN items |-> i], {i \in DOMAIN items : items[i].on})

LEMMA OnPlacesFacts ==
  ASSUME MenuInv
  PROVE  /\ OnPlaces \in Seq(DOMAIN items) /\ IsInjective(OnPlaces)
         /\ Range(OnPlaces) = {i \in DOMAIN items : items[i].on}
         /\ Len(OnPlaces) <= Len(items)
<1> DEFINE D == DOMAIN items
           q == [i \in D |-> i]
           K == {i \in D : items[i].on}
<1>1. D = 1 .. Len(items) /\ Len(items) \in Nat
  BY DEF MenuInv
<1>2. q \in Seq(D) /\ IsInjective(q) /\ Len(q) = Len(items)
  BY <1>1 DEF IsInjective
<1>3. Range(q) = D
  BY DEF Range
<1>4. PICK S : S = D
  OBVIOUS
<1>5. PICK s : s = q
  OBVIOUS
<1>6. s \in Seq(S) /\ IsInjective(s) /\ Range(s) = S /\ Len(s) = Len(items)
  BY <1>2, <1>3, <1>4, <1>5
<1>7. /\ CopyIf(s, K) \in Seq(S)
      /\ Range(CopyIf(s, K)) = Range(s) \cap K
      /\ Len(CopyIf(s, K)) <= Len(s)
      /\ IsInjective(CopyIf(s, K))
  <2> HIDE DEF K
  <2>1. QED
    BY <1>6, CopyIfFacts
<1>8. OnPlaces = CopyIf(s, K)
  BY <1>5 DEF OnPlaces
<1>9. Range(s) \cap K = K
  BY <1>4, <1>6
<1>10. QED
  BY <1>4, <1>6, <1>7, <1>8, <1>9

LEMMA ColumnLinesFacts ==
  ASSUME MenuInv
  PROVE  /\ ColumnLines \in Seq(FileLines) /\ Len(ColumnLines) = Len(OnPlaces)
         /\ \A k \in 1 .. Len(OnPlaces) :
              ColumnLines[k] = Line("set", ColumnOptions[OnPlaces[k]], items[OnPlaces[k]].attr)
<1>1. ColumnLines = [k \in DOMAIN OnPlaces |-> Line("set", ColumnOptions[OnPlaces[k]], items[OnPlaces[k]].attr)]
  BY DEF ColumnLines, OnPlaces
<1>2. DOMAIN OnPlaces = 1 .. Len(OnPlaces) /\ Len(OnPlaces) \in Nat
  BY OnPlacesFacts
<1>3. ASSUME NEW k \in 1 .. Len(OnPlaces)
      PROVE  Line("set", ColumnOptions[OnPlaces[k]], items[OnPlaces[k]].attr) \in FileLines
  <2>1. OnPlaces[k] \in DOMAIN items
    BY OnPlacesFacts
  <2>2. items[OnPlaces[k]].attr \in Words
    <3>1. items[OnPlaces[k]] \in MenuItems
      BY <2>1 DEF MenuInv
    <3>2. QED
      BY <3>1, AttributeWords DEF MenuItems
  <2>3. OnPlaces[k] \in DOMAIN ColumnOptions
    <3>1. Len(items) \in Nat /\ Len(items) <= Len(Attributes)
      <4>1. Len(items) = Len(Attributes) \/ items = <<>>
        BY DEF MenuInv
      <4>2. Len(<<>>) = 0
        OBVIOUS
      <4>3. QED
        BY <4>1, <4>2, AttributeCount
    <3>2. DOMAIN items = 1 .. Len(items)
      BY DEF MenuInv
    <3>3. QED
      BY <2>1, <3>1, <3>2, AttributeCount
  <2>4. ColumnOptions[OnPlaces[k]] \in Words
    BY <2>3, AttributeWords DEF Range
  <2>5. QED
    BY <2>2, <2>4 DEF Line, FileLines, LineTypes
<1>4. ColumnLines \in [1 .. Len(OnPlaces) -> FileLines]
  BY <1>1, <1>2, <1>3
<1>5. ColumnLines \in Seq(FileLines) /\ Len(ColumnLines) = Len(OnPlaces)
  BY <1>2, <1>4
<1>6. QED
  BY <1>1, <1>2, <1>5

LEMMA SettingLinesFacts ==
  ASSUME FileInv
  PROVE  /\ SettingLines \in Seq(FileLines) /\ Len(SettingLines) = Len(SetToSeq(PanelSettings))
         /\ \A k \in 1 .. Len(SetToSeq(PanelSettings)) :
              SettingLines[k] = Line("set", SetToSeq(PanelSettings)[k], fields[SetToSeq(PanelSettings)[k]])
<1> DEFINE q == SetToSeq(PanelSettings)
<1>1. Len(q) \in Nat /\ \A k \in 1 .. Len(q) : q[k] \in PanelSettings
  BY ListedFacts
<1>2. SettingLines = [k \in 1 .. Len(q) |-> Line("set", q[k], fields[q[k]])]
  BY DEF SettingLines
<1> HIDE DEF q
<1>3. \A k \in 1 .. Len(q) : Line("set", q[k], fields[q[k]]) \in FileLines
  <2>1. PanelSettings \subseteq Words
    BY SettingsAssumption
  <2>2. \A s \in PanelSettings : fields[s] \in Words
    BY DEF FileInv
  <2>3. QED
    BY <1>1, <2>1, <2>2 DEF Line, FileLines, LineTypes
<1>4. SettingLines \in Seq(FileLines) /\ Len(SettingLines) = Len(q)
  <2>1. SettingLines \in [1 .. Len(q) -> FileLines]
    BY <1>2, <1>3
  <2>2. QED
    BY <1>1, <2>1
<1>5. QED
  BY <1>2, <1>4 DEF q

LEMMA CopiedFacts ==
  ASSUME FileInv
  PROVE  /\ Copied \in Seq(FileLines)
         /\ Range(Copied) =
              {l \in Lines(old) : IF panel = "settings" THEN KeptBySettings(l) ELSE KeptByColumns(l)}
<1> DEFINE K == {l \in Lines(old) : IF panel = "settings" THEN KeptBySettings(l) ELSE KeptByColumns(l)}
<1>1. CASE old = Missing
  <2>1. Copied = <<>> /\ Lines(old) = {}
    BY <1>1 DEF Copied, Lines
  <2>2. Range(<<>>) = {}
    BY DEF Range
  <2>3. QED
    BY <2>1, <2>2
<1>2. CASE old # Missing
  <2>1. old \in Seq(FileLines) /\ Lines(old) = Range(old)
    BY <1>2 DEF FileInv, Lines
  <2>2. Copied = CopyIf(old, K)
    BY <1>2 DEF Copied
  <2>3. K \subseteq Range(old)
    BY <2>1
  <2> HIDE DEF K
  <2>4. PICK S : S = FileLines
    OBVIOUS
  <2>5. PICK s : s = old
    OBVIOUS
  <2>6. s \in Seq(S)
    BY <2>1, <2>4, <2>5
  <2>7. CopyIf(s, K) \in Seq(S) /\ Range(CopyIf(s, K)) = Range(s) \cap K
    BY <2>6, CopyIfFacts
  <2>8. Range(Copied) = K /\ Copied \in Seq(FileLines)
    BY <2>1, <2>2, <2>3, <2>4, <2>5, <2>7
  <2>9. QED
    BY <2>8 DEF K
<1>3. QED
  BY <1>1, <1>2

LEMMA AddedFacts ==
  ASSUME FileInv, MenuInv
  PROVE  Added \in Seq(FileLines)
BY ColumnLinesFacts, SettingLinesFacts DEF Added

\* What a save writes is a file, with every line of the old one that no panel
\* writes.
LEMMA NewFileFacts ==
  ASSUME FileInv, MenuInv
  PROVE  /\ NewFile \in Seq(FileLines) /\ NewFile # Missing
         /\ \A l \in Lines(old) : l.type # "set" => l \in Range(NewFile)
<1>1. PICK s : s = Copied
  OBVIOUS
<1>2. PICK t : t = Added
  OBVIOUS
<1>3. PICK S : S = FileLines
  OBVIOUS
<1>5. s \in Seq(S) /\ t \in Seq(S)
  BY <1>1, <1>2, <1>3, CopiedFacts, AddedFacts
<1>6. s \o t \in Seq(S) /\ Range(s \o t) = Range(s) \cup Range(t)
  BY <1>5, BehindFacts
<1>7. NewFile = s \o t
  BY <1>1, <1>2, NewFileParts
<1>8. ASSUME NEW l \in Lines(old), l.type # "set" PROVE l \in Range(s)
  BY <1>1, <1>8, CopiedFacts DEF KeptBySettings, KeptByColumns
<1>9. QED
  BY <1>3, <1>6, <1>7, <1>8, FilesAssumption

-------------------------------------------------------------------------------
\* The columns of the list are names of attributes, at most one for each
\* option.
LEMMA ListColumnsFacts ==
  ASSUME NEW opts
  PROVE  /\ call_list_columns(opts) \in Seq(AttributeNames)
         /\ Len(call_list_columns(opts)) <= Len(Attributes)
<1> DEFINE q == [i \in DOMAIN ColumnOptions |-> get_option_value(opts, ColumnOptions[i])]
<1>1. Len(ColumnOptions) \in Nat /\ DOMAIN ColumnOptions = 1 .. Len(ColumnOptions)
  <2>1. ColumnOptions \in Seq(Words)
    BY ColumnsAssumption
  <2>2. QED
    BY <2>1
<1>2. call_list_columns(opts) = CopyIf(q, AttributeNames)
  BY DEF call_list_columns
<1>3. q = [i \in 1 .. Len(ColumnOptions) |-> q[i]]
  BY <1>1
<1> HIDE DEF q
<1>4. q \in Seq(Range(q)) /\ Len(q) = Len(ColumnOptions)
  BY <1>1, <1>3, OwnValues
<1>5. PICK S : S = Range(q)
  OBVIOUS
<1>6. q \in Seq(S)
  BY <1>4, <1>5
<1> DEFINE t == CopyIf(q, AttributeNames)
<1>7. t \in Seq(S) /\ Range(t) = Range(q) \cap AttributeNames /\ Len(t) <= Len(q)
  BY <1>6, CopyIfFacts
<1> HIDE DEF t
<1>8. t \in Seq(Range(t))
  BY <1>7, OwnSequence
<1>9. t \in Seq(AttributeNames)
  BY <1>7, <1>8
<1>10. QED
  BY <1>2, <1>4, <1>7, <1>9, ColumnsAssumption DEF t

\* Menus that have an item for each attribute
Menus ==
  {its \in Seq(MenuItems) :
     /\ Len(its) = Len(Attributes)
     /\ \A a \in Range(Attributes) : \E i \in 1 .. Len(its) : its[i].attr = a}

\* Where the first item of an attribute is
LEMMA ItemOf ==
  ASSUME NEW its \in Menus, NEW a \in Range(Attributes)
  PROVE  /\ SelectInSeq(its, LAMBDA it : it.attr = a) \in 1 .. Len(its)
         /\ its[SelectInSeq(its, LAMBDA it : it.attr = a)].attr = a
<1> DEFINE I == {i \in 1 .. Len(its) : its[i].attr = a}
<1>1. I \subseteq Nat /\ I # {}
  BY DEF Menus
<1>2. SelectInSeq(its, LAMBDA it : it.attr = a) = Min(I)
  BY <1>1 DEF SelectInSeq
<1>3. Min(I) \in I
  <2> HIDE DEF I
  <2>1. QED
    BY <1>1, MinOfNats
<1> DEFINE m == Min(I)
<1>4. m \in 1 .. Len(its) /\ its[m].attr = a
  <2> HIDE DEF m
  <2>1. m \in I
    BY <1>3 DEF m
  <2>2. QED
    BY <2>1
<1>5. QED
  BY <1>2, <1>4

\* The item of an attribute is toggled and changes places with the k-th.
Brings(its, k, a, new) ==
  \E i \in 1 .. Len(its) :
    /\ its[i].attr = a
    /\ new[k] = [attr |-> a, on |-> ~its[i].on]
    /\ i # k => new[i] = its[k]
    /\ \A j \in 1 .. Len(its) : j # i /\ j # k => new[j] = its[j]

\* Showing a column marks its item and brings it to the column's place.
LEMMA ShowColumnFacts ==
  ASSUME NEW its \in Menus, NEW k \in 1 .. Len(Attributes), NEW a \in Range(Attributes), columns[k] = a
  PROVE  /\ ShowColumn(its, k) \in Menus
         /\ Brings(its, k, a, ShowColumn(its, k))
<1> DEFINE i == SelectInSeq(its, LAMBDA it : it.attr = a)
           n == Len(its)
<1>1. i \in 1 .. n /\ its[i].attr = a
  BY ItemOf
<1>2. its \in Seq(MenuItems) /\ n = Len(Attributes) /\ n \in Nat
  BY DEF Menus
<1>3. \A j \in 1 .. n : its[j] \in MenuItems
  BY <1>2
<1> HIDE DEF i
<1>4. PICK up : up = [its EXCEPT ![i].on = ~its[i].on]
  OBVIOUS
<1>5. /\ up \in Seq(MenuItems) /\ Len(up) = n
      /\ up[i] = [attr |-> a, on |-> ~its[i].on]
      /\ \A j \in 1 .. n : j # i => up[j] = its[j]
  <2>1. PICK it : it = [its[i] EXCEPT !.on = ~its[i].on]
    OBVIOUS
  <2>2. it \in MenuItems /\ it = [attr |-> a, on |-> ~its[i].on]
    <3>1. its[i] \in MenuItems
      BY <1>1, <1>3
    <3>2. its[i] = [attr |-> its[i].attr, on |-> its[i].on]
      BY <3>1 DEF MenuItems
    <3>3. it = [attr |-> a, on |-> ~its[i].on]
      BY <1>1, <2>1, <3>2
    <3>4. (~its[i].on) \in BOOLEAN
      OBVIOUS
    <3>5. QED
      BY <3>3, <3>4 DEF MenuItems
  <2>3. up = [its EXCEPT ![i] = it]
    BY <1>4, <2>1
  <2>4. QED
    BY <1>1, <1>2, <2>2, <2>3
<1>6. PICK new : new = [up EXCEPT ![i] = up[k], ![k] = up[i]]
  OBVIOUS
<1>7. k \in 1 .. n /\ k # n + 1 /\ ~(k < 1)
  BY <1>2
<1>8. ShowColumn(its, k) = new
  <2>1. ShowColumn(its, k) = column_select_move_item(column_select_toggle_item(its, i), i, k)
    <3>1. i # 0
      BY <1>1, <1>2
    <3>2. ShowColumn(its, k) = IF i = 0 THEN its
                               ELSE column_select_move_item(column_select_toggle_item(its, i), i, k)
      BY DEF ShowColumn, i
    <3>3. QED
      BY <3>1, <3>2
  <2>2. column_select_toggle_item(its, i) = up
    BY <1>4 DEF column_select_toggle_item
  <2>3. ~(k = Len(up) + 1 \/ k < 1)
    BY <1>5, <1>7
  <2>4. column_select_move_item(up, i, k) = new
    BY <1>6, <2>3 DEF column_select_move_item
  <2>5. QED
    BY <2>1, <2>2, <2>4
<1>9. /\ new \in Seq(MenuItems) /\ Len(new) = n
      /\ new[k] = up[i]
      /\ i # k => new[i] = up[k]
      /\ \A j \in 1 .. n : j # i /\ j # k => new[j] = up[j]
  BY <1>1, <1>5, <1>6, <1>7
<1>10. ASSUME NEW b \in Range(Attributes) PROVE \E j \in 1 .. n : new[j].attr = b
  <2>1. PICK j \in 1 .. n : its[j].attr = b
    BY <1>10 DEF Menus
  <2>2. up[j].attr = b
    BY <1>1, <1>5, <2>1
  <2>3. CASE j = i
    BY <1>7, <1>9, <2>2, <2>3
  <2>4. CASE j = k
    BY <1>1, <1>9, <2>2, <2>4
  <2>5. CASE j # i /\ j # k
    BY <1>9, <2>2, <2>5
  <2>6. QED
    BY <2>3, <2>4, <2>5
<1>11. new \in Menus
  BY <1>2, <1>9, <1>10 DEF Menus
<1>12. /\ new[k] = [attr |-> a, on |-> ~its[i].on]
       /\ i # k => new[i] = its[k]
       /\ \A j \in 1 .. n : j # i /\ j # k => new[j] = its[j]
  BY <1>1, <1>5, <1>7, <1>9
<1>13. QED
  BY <1>1, <1>8, <1>11, <1>12 DEF Brings

\* A column no item is spelled like is not shown.
LEMMA ShowColumnNone ==
  ASSUME NEW its \in Menus, NEW k, columns[k] \notin Range(Attributes)
  PROVE  ShowColumn(its, k) = its
<1> DEFINE a == columns[k]
<1>1. \A i \in 1 .. Len(its) : its[i].attr # a
  <2>1. its \in Seq(MenuItems)
    BY DEF Menus
  <2>2. \A i \in 1 .. Len(its) : its[i] \in MenuItems
    BY <2>1
  <2>3. \A it \in MenuItems : it.attr \in Range(Attributes)
    BY DEF MenuItems
  <2>4. QED
    BY <2>2, <2>3
<1> HIDE DEF a
<1>2. SelectInSeq(its, LAMBDA it : it.attr = a) = 0
  BY <1>1 DEF SelectInSeq
<1>3. QED
  BY <1>2 DEF ShowColumn, a

\* The panel's recursion over the list's columns
Untouched == [i \in DOMAIN Attributes |-> [attr |-> Attributes[i], on |-> FALSE]]
OpeningOf(f) == [k \in 0 .. Len(columns) |-> IF k = 0 THEN Untouched ELSE ShowColumn(f[k - 1], k)]

LEMMA OpeningFacts ==
  ASSUME MenuInv, NEW shown, shown = CHOOSE f : f = OpeningOf(f)
  PROVE  /\ shown = OpeningOf(shown)
         /\ \A k \in 0 .. Len(columns) : shown[k] \in Menus
<1> DEFINE n == Len(columns)
           step == [k \in 1 .. n |-> [its \in Menus |-> ShowColumn(its, k)]]
<1>1. n \in Nat /\ n <= Len(Attributes)
  BY DEF MenuInv
<1>2. Untouched \in Menus
  <2>1. Len(Attributes) \in Nat /\ DOMAIN Attributes = 1 .. Len(Attributes)
    BY AttributeCount
  <2>2. \A i \in DOMAIN Attributes : Attributes[i] \in Range(Attributes)
    BY DEF Range
  <2>3. \A i \in DOMAIN Attributes : Untouched[i] \in MenuItems /\ Untouched[i].attr = Attributes[i]
    BY <2>2 DEF Untouched, MenuItems
  <2>4. Untouched \in [1 .. Len(Attributes) -> MenuItems]
    BY <2>1, <2>3 DEF Untouched
  <2>5. Untouched \in Seq(MenuItems) /\ Len(Untouched) = Len(Attributes)
    BY <2>1, <2>4
  <2>6. ASSUME NEW a \in Range(Attributes) PROVE \E i \in 1 .. Len(Untouched) : Untouched[i].attr = a
    <3>1. PICK i \in DOMAIN Attributes : Attributes[i] = a
      BY DEF Range
    <3>2. QED
      BY <2>1, <2>3, <2>5, <3>1
  <2>7. QED
    BY <2>5, <2>6 DEF Menus
<1>3. \A k \in 1 .. n, its \in Menus : ShowColumn(its, k) \in Menus
  <2>1. Len(Attributes) \in Nat
    BY AttributeCount
  <2>2. ASSUME NEW k \in 1 .. n, NEW its \in Menus PROVE ShowColumn(its, k) \in Menus
    <3>1. k \in 1 .. Len(Attributes)
      BY <1>1, <2>1
    <3>2. CASE columns[k] \in Range(Attributes)
      <4>1. PICK a \in Range(Attributes) : columns[k] = a
        BY <3>2
      <4>2. QED
        BY <3>1, <4>1, ShowColumnFacts
    <3>3. CASE columns[k] \notin Range(Attributes)
      BY <3>3, ShowColumnNone
    <3>4. QED
      BY <3>2, <3>3
  <2>3. QED
    BY <2>2
<1>4. step \in [1 .. n -> [Menus -> Menus]]
  BY <1>3
<1>5. \A k \in 1 .. n, its \in Menus : step[k][its] = ShowColumn(its, k)
  OBVIOUS
<1> HIDE DEF n, step
<1>6. PICK f : IsRecursion(f, n, Menus, Untouched, step)
  BY <1>1, <1>2, <1>4, RecursiveFunction
<1>7. f \in [0 .. n -> Menus] /\ f[0] = Untouched /\ \A k \in 1 .. n : f[k] = step[k][f[k - 1]]
  BY <1>6 DEF IsRecursion
<1>8. \A k \in 1 .. n : f[k] = ShowColumn(f[k - 1], k)
  <2>1. ASSUME NEW k \in 1 .. n PROVE f[k] = ShowColumn(f[k - 1], k)
    <3>1. k - 1 \in 0 .. n
      BY <1>1
    <3>2. f[k - 1] \in Menus
      BY <1>7, <3>1
    <3>3. QED
      BY <1>5, <1>7, <3>2
  <2>2. QED
    BY <2>1
<1>9. f = OpeningOf(f)
  <2>1. \A k \in 0 .. n : f[k] = IF k = 0 THEN Untouched ELSE ShowColumn(f[k - 1], k)
    <3>1. \A k \in 0 .. n : k = 0 \/ k \in 1 .. n
      BY <1>1
    <3>2. QED
      BY <1>7, <1>8, <3>1
  <2>2. QED
    BY <1>7, <2>1 DEF OpeningOf, n
<1>10. shown = OpeningOf(shown)
  BY <1>9, Zenon
<1>11. shown[0] = Untouched /\ \A k \in 1 .. n : shown[k] = ShowColumn(shown[k - 1], k)
  <2>1. \A k \in 0 .. n : shown[k] = IF k = 0 THEN Untouched ELSE ShowColumn(shown[k - 1], k)
    BY <1>10 DEF OpeningOf, n
  <2>2. 0 \in 0 .. n /\ \A k \in 1 .. n : k \in 0 .. n /\ k # 0
    BY <1>1
  <2>3. QED
    BY <2>1, <2>2
<1> DEFINE S == {k \in 0 .. n : shown[k] \in Menus}
<1>12. 0 \in S
  BY <1>1, <1>2, <1>11
<1>13. ASSUME NEW k \in 1 .. n, k - 1 \in S PROVE k \in S
  <2>1. shown[k] \in Menus
    BY <1>3, <1>11, <1>13
  <2>2. k \in 0 .. n
    BY <1>1
  <2>3. QED
    BY <2>1, <2>2
<1>14. \A k \in 0 .. n : k \in S
  <2> HIDE DEF S
  <2>1. QED
    BY <1>1, <1>12, <1>13, UpTo
<1>15. QED
  BY <1>10, <1>14 DEF n

\* Two sequences that keep items at the same places, which correspond, and
\* one of which goes on with items it does not keep
LEMMA CopyIfAlike ==
  ASSUME NEW S, NEW s \in Seq(S), NEW K, NEW T, NEW t \in Seq(T), NEW L, Len(t) <= Len(s),
         \A i \in 1 .. Len(t) : (s[i] \in K <=> t[i] \in L) /\ (t[i] \in L => s[i].attr = t[i]),
         \A i \in 1 .. Len(s) : i > Len(t) => s[i] \notin K
  PROVE  /\ Len(CopyIf(s, K)) = Len(CopyIf(t, L))
         /\ \A j \in 1 .. Len(CopyIf(t, L)) : CopyIf(s, K)[j].attr = CopyIf(t, L)[j]
<1> DEFINE n == Len(s)
           m == Len(t)
<1>1. n \in Nat /\ m \in Nat /\ m <= n /\ (\A i \in 1 .. n : s[i] \in S) /\ \A i \in 1 .. m : t[i] \in T
  OBVIOUS
<1>2. PICK F : /\ CopyIf(s, K) = F[n]
               /\ F[0] = <<>>
               /\ \A i \in 1 .. n : F[i] = IF s[i] \in K THEN Append(F[i - 1], s[i]) ELSE F[i - 1]
  BY CopyIfSteps
<1>3. PICK H : /\ CopyIf(t, L) = H[m]
               /\ H[0] = <<>>
               /\ \A i \in 1 .. m : H[i] = IF t[i] \in L THEN Append(H[i - 1], t[i]) ELSE H[i - 1]
  BY CopyIfSteps
<1>4. /\ \A i \in 1 .. m : (s[i] \in K <=> t[i] \in L) /\ (t[i] \in L => s[i].attr = t[i])
      /\ \A i \in 1 .. n : i > m => s[i] \notin K
  OBVIOUS
<1> HIDE DEF n, m
<1> DEFINE Copies(f, h) == /\ f \in Seq(S) /\ h \in Seq(T) /\ Len(f) = Len(h)
                          /\ \A j \in 1 .. Len(h) : f[j].attr = h[j]
           G == {i \in 0 .. n : Copies(F[i], H[IF i <= m THEN i ELSE m])}
<1>5. 0 \in G
  <2>1. Copies(<<>>, <<>>)
    OBVIOUS
  <2>2. 0 \in 0 .. n /\ 0 <= m
    BY <1>1
  <2> HIDE DEF Copies
  <2>3. QED
    BY <1>2, <1>3, <2>1, <2>2
<1>6. ASSUME NEW i \in 1 .. n, i - 1 \in G PROVE i \in G
  <2>1. i \in 0 .. n /\ i \in Nat /\ i > 0
    BY <1>1
  <2>2. CASE i <= m
    <3>1. i \in 1 .. m /\ i - 1 <= m
      BY <2>1, <2>2, <1>1
    <3>2. PICK f, h : f = F[i - 1] /\ h = H[i - 1]
      OBVIOUS
    <3>3. Copies(f, h)
      BY <1>6, <3>1, <3>2
    <3>4. Copies(F[i], H[i])
      <4>1. CASE t[i] \in L
        <5>1. F[i] = Append(f, s[i]) /\ H[i] = Append(h, t[i]) /\ s[i].attr = t[i]
          BY <1>2, <1>3, <1>4, <3>1, <3>2, <4>1
        <5>2. s[i] \in S /\ t[i] \in T
          BY <1>1, <3>1
        <5>3. Copies(Append(f, s[i]), Append(h, t[i]))
          BY <3>3, <5>1, <5>2
        <5>4. QED
          BY <5>1, <5>3
      <4>2. CASE t[i] \notin L
        <5>1. F[i] = f /\ H[i] = h
          BY <1>2, <1>3, <1>4, <3>1, <3>2, <4>2
        <5>2. QED
          BY <3>3, <5>1
      <4>3. QED
        BY <4>1, <4>2
    <3>5. QED
      BY <2>1, <2>2, <3>4
  <2>3. CASE i > m
    <3>1. F[i] = F[i - 1]
      BY <1>2, <1>4, <2>3
    <3>2. (IF i <= m THEN i ELSE m) = m /\ (IF i - 1 <= m THEN i - 1 ELSE m) = m
      BY <1>1, <2>1, <2>3
    <3>3. Copies(F[i - 1], H[m])
      BY <1>6, <3>2
    <3>4. Copies(F[i], H[m])
      BY <3>1, <3>3
    <3>5. QED
      BY <2>1, <3>2, <3>4
  <2>4. QED
    BY <1>1, <2>1, <2>2, <2>3
<1>7. \A i \in 0 .. n : i \in G
  <2> HIDE DEF G
  <2>1. QED
    BY <1>1, <1>5, <1>6, UpTo
<1>8. n \in G
  <2> HIDE DEF G
  <2>1. QED
    BY <1>1, <1>7
<1>9. Copies(F[n], H[m])
  <2>1. (IF n <= m THEN n ELSE m) = m
    BY <1>1
  <2>2. QED
    BY <1>8, <2>1
<1>10. QED
  BY <1>2, <1>3, <1>9

\* After the first k columns: those spelled as in the table are at their
\* places and marked, and nothing else is marked.
MarkedUpTo(its, k) ==
  \A i \in 1 .. Len(Attributes) :
    IF i <= k /\ columns[i] \in Range(Attributes) THEN its[i] = [attr |-> columns[i], on |-> TRUE]
    ELSE its[i].on = FALSE

\* One column more
LEMMA MarkedStep ==
  ASSUME MenuInv, IsInjective(columns), NEW k \in 1 .. Len(columns), NEW its \in Menus, MarkedUpTo(its, k - 1)
  PROVE  MarkedUpTo(ShowColumn(its, k), k)
<1> DEFINE n == Len(columns)
           m == Len(Attributes)
           new == ShowColumn(its, k)
           A == Range(Attributes)
<1>1. n \in Nat /\ m \in Nat /\ n <= m /\ k \in 1 .. m /\ k \in Nat /\ Len(its) = m
  BY AttributeCount DEF MenuInv, Menus
<1>2. \A i, j \in 1 .. n : columns[i] = columns[j] => i = j
  BY DEF IsInjective, MenuInv
<1>3. \A i \in 1 .. m : IF i <= k - 1 /\ columns[i] \in A THEN its[i] = [attr |-> columns[i], on |-> TRUE]
                         ELSE its[i].on = FALSE
  BY DEF MarkedUpTo
<1>4. CASE columns[k] \notin A
  <2>1. new = its
    BY <1>4, ShowColumnNone
  <2>2. \A i \in 1 .. m : (i <= k /\ columns[i] \in A) <=> (i <= k - 1 /\ columns[i] \in A)
    BY <1>1, <1>4
  <2>3. QED
    BY <1>3, <2>1, <2>2 DEF MarkedUpTo
<1>5. CASE columns[k] \in A
  <2>1. PICK a \in A : columns[k] = a
    BY <1>5
  <2>2. Brings(its, k, a, new)
    BY <1>1, <2>1, ShowColumnFacts
  <2> HIDE DEF n, m, new, A
  <2>3. PICK i \in 1 .. m :
          /\ its[i].attr = a
          /\ new[k] = [attr |-> a, on |-> ~its[i].on]
          /\ i # k => new[i] = its[k]
          /\ \A j \in 1 .. m : j # i /\ j # k => new[j] = its[j]
    BY <1>1, <2>2 DEF Brings
  <2>4. its[i].on = FALSE
    <3>1. SUFFICES ASSUME i <= k - 1 /\ columns[i] \in A PROVE FALSE
      BY <1>3, <2>3
    <3>2. its[i] = [attr |-> columns[i], on |-> TRUE]
      BY <1>3, <2>3, <3>1
    <3>3. columns[i] = columns[k]
      BY <2>1, <2>3, <3>2
    <3>4. i \in 1 .. n /\ k \in 1 .. n /\ i # k
      BY <1>1, <3>1 DEF n
    <3>5. QED
      BY <1>2, <3>3, <3>4
  <2>5. new[k] = [attr |-> columns[k], on |-> TRUE]
    BY <2>1, <2>3, <2>4
  <2>6. its[k].on = FALSE
    <3>1. ~(k <= k - 1)
      BY <1>1
    <3>2. QED
      BY <1>1, <1>3, <3>1
  <2>7. ASSUME NEW j \in 1 .. m
        PROVE  IF j <= k /\ columns[j] \in A THEN new[j] = [attr |-> columns[j], on |-> TRUE]
               ELSE new[j].on = FALSE
    <3>1. CASE j = k
      BY <1>1, <1>5, <2>5, <3>1
    <3>2. CASE j # k /\ j # i
      <4>1. new[j] = its[j] /\ (j <= k <=> j <= k - 1)
        BY <1>1, <2>3, <3>2
      <4>2. QED
        BY <1>3, <4>1
    <3>3. CASE j # k /\ j = i
      <4>1. new[j].on = FALSE
        BY <2>3, <2>6, <3>3
      <4>2. ~(j <= k /\ columns[j] \in A)
        <5>1. j <= k => j <= k - 1
          BY <1>1, <3>3
        <5>2. its[j].on = FALSE
          BY <2>4, <3>3
        <5>3. SUFFICES ASSUME j <= k, columns[j] \in A PROVE FALSE
          OBVIOUS
        <5>4. its[j] = [attr |-> columns[j], on |-> TRUE]
          BY <1>3, <5>1, <5>3
        <5>5. its[j].on = TRUE
          BY <5>4
        <5>6. QED
          BY <5>2, <5>5
      <4>3. QED
        BY <4>1, <4>2
    <3>4. QED
      BY <3>1, <3>2, <3>3
  <2>8. QED
    BY <2>7 DEF MarkedUpTo, m, A, new
<1>6. QED
  BY <1>4, <1>5

\* A panel opened on columns that differ has the known ones at their places
\* and marked, and nothing else marked.
LEMMA OpenedFacts ==
  ASSUME MenuInv, IsInjective(columns), NEW shown, shown = OpeningOf(shown),
         \A k \in 0 .. Len(columns) : shown[k] \in Menus
  PROVE  MarkedUpTo(shown[Len(columns)], Len(columns))
<1> DEFINE n == Len(columns)
           G == {k \in 0 .. n : MarkedUpTo(shown[k], k)}
<1>1. n \in Nat
  BY DEF MenuInv
<1>2. Len(Attributes) \in Nat /\ DOMAIN Attributes = 1 .. Len(Attributes)
  BY AttributeCount
<1>3. shown[0] = Untouched /\ \A k \in 1 .. n : shown[k] = ShowColumn(shown[k - 1], k)
  <2>1. \A k \in 0 .. n : shown[k] = IF k = 0 THEN Untouched ELSE ShowColumn(shown[k - 1], k)
    BY DEF OpeningOf
  <2>2. 0 \in 0 .. n /\ \A k \in 1 .. n : k \in 0 .. n /\ k # 0
    BY <1>1
  <2>3. QED
    BY <2>1, <2>2
<1>4. 0 \in G
  <2>1. \A i \in 1 .. Len(Attributes) : Untouched[i].on = FALSE /\ ~(i <= 0)
    BY <1>2 DEF Untouched
  <2>2. MarkedUpTo(shown[0], 0)
    BY <1>3, <2>1 DEF MarkedUpTo
  <2>3. QED
    BY <1>1, <2>2
<1>5. ASSUME NEW k \in 1 .. n, k - 1 \in G PROVE k \in G
  <2>1. k \in 0 .. n /\ k - 1 \in 0 .. n
    BY <1>1
  <2>2. PICK its \in Menus : its = shown[k - 1]
    BY <2>1
  <2>3. MarkedUpTo(its, k - 1)
    BY <1>5, <2>2
  <2>4. MarkedUpTo(ShowColumn(its, k), k)
    BY <2>3, MarkedStep
  <2>5. QED
    BY <1>3, <2>1, <2>2, <2>4
<1> HIDE DEF n
<1>6. \A k \in 0 .. n : k \in G
  <2> HIDE DEF G
  <2>1. QED
    BY <1>1, <1>4, <1>5, UpTo
<1>7. n \in G
  <2> HIDE DEF G
  <2>1. QED
    BY <1>1, <1>6
<1>8. QED
  BY <1>7 DEF n

LEMMA ShownFacts ==
  ASSUME NEW its \in Seq(MenuItems)
  PROVE  Shown(its) \in Seq(Range(Attributes)) /\ Len(Shown(its)) <= Len(its)
<1> DEFINE on == CopyIf(its, {it \in Range(its) : it.on})
<1>1. PICK S : S = MenuItems
  OBVIOUS
<1>2. on \in Seq(S) /\ Len(on) <= Len(its)
  BY <1>1, CopyIfFacts
<1>3. Shown(its) = [i \in DOMAIN on |-> on[i].attr]
  BY DEF Shown
<1> HIDE DEF on
<1>4. DOMAIN on = 1 .. Len(on) /\ Len(on) \in Nat /\ \A i \in 1 .. Len(on) : on[i] \in MenuItems
  BY <1>1, <1>2
<1>5. Shown(its) \in [1 .. Len(on) -> Range(Attributes)]
  BY <1>3, <1>4 DEF MenuItems
<1>6. Shown(its) \in Seq(Range(Attributes)) /\ Len(Shown(its)) = Len(on)
  BY <1>4, <1>5
<1>7. QED
  BY <1>2, <1>6

\* A panel opened on columns that differ shows the known ones.
LEMMA OpenedShows ==
  ASSUME MenuInv, IsInjective(columns), NEW shown, shown = OpeningOf(shown),
         \A k \in 0 .. Len(columns) : shown[k] \in Menus
  PROVE  Shown(shown[Len(columns)]) = CopyIf(columns, Range(Attributes))
<1> DEFINE its == shown[Len(columns)]
           K == {it \in Range(its) : it.on}
           on == CopyIf(its, K)
           m == Len(columns)
           A == Range(Attributes)
           known == CopyIf(columns, A)
<1>1. columns \in Seq(AttributeNames) /\ m \in Nat /\ m <= Len(Attributes)
  BY DEF MenuInv
<1>2. its \in Menus
  BY <1>1
<1>3. its \in Seq(MenuItems) /\ Len(its) = Len(Attributes) /\ MarkedUpTo(its, m)
  BY <1>2, OpenedFacts DEF Menus
<1>4. Shown(its) = [i \in DOMAIN on |-> on[i].attr]
  BY DEF Shown
<1> HIDE DEF its
<1>5. DOMAIN its = 1 .. Len(its) /\ Len(its) \in Nat /\ m <= Len(its)
  BY <1>1, <1>3
<1>6. ASSUME NEW i \in 1 .. Len(its)
      PROVE  /\ its[i] \in K <=> i <= m /\ columns[i] \in A
             /\ i <= m /\ columns[i] \in A => its[i].attr = columns[i]
  <2>1. its[i] \in Range(its)
    BY <1>5 DEF Range
  <2>2. IF i <= m /\ columns[i] \in A THEN its[i] = [attr |-> columns[i], on |-> TRUE] ELSE its[i].on = FALSE
    BY <1>3 DEF MarkedUpTo
  <2>3. QED
    BY <2>1, <2>2
<1>7. PICK S : S = MenuItems
  OBVIOUS
<1>8. its \in Seq(S)
  BY <1>3, <1>7
<1>9. PICK T : T = AttributeNames
  OBVIOUS
<1>10. columns \in Seq(T)
  BY <1>1, <1>9
<1>11. /\ \A i \in 1 .. Len(columns) : (its[i] \in K <=> columns[i] \in A) /\ (columns[i] \in A => its[i].attr = columns[i])
       /\ \A i \in 1 .. Len(its) : i > Len(columns) => its[i] \notin K
  <2>1. \A i \in 1 .. m : i \in 1 .. Len(its) /\ i <= m
    BY <1>1, <1>5
  <2>2. \A i \in 1 .. Len(its) : i > m => ~(i <= m)
    BY <1>1, <1>5
  <2>3. QED
    BY <1>6, <2>1, <2>2
<1> HIDE DEF K, A
<1>12. Len(on) = Len(known) /\ \A j \in 1 .. Len(known) : on[j].attr = known[j]
  <2>1. PICK s, k, t, l : s = its /\ k = K /\ t = columns /\ l = A
    OBVIOUS
  <2>2. /\ s \in Seq(S) /\ t \in Seq(T) /\ Len(t) <= Len(s)
        /\ \A i \in 1 .. Len(t) : (s[i] \in k <=> t[i] \in l) /\ (t[i] \in l => s[i].attr = t[i])
        /\ \A i \in 1 .. Len(s) : i > Len(t) => s[i] \notin k
    BY <1>5, <1>8, <1>10, <1>11, <2>1
  <2>3. /\ Len(CopyIf(s, k)) = Len(CopyIf(t, l))
        /\ \A j \in 1 .. Len(CopyIf(t, l)) : CopyIf(s, k)[j].attr = CopyIf(t, l)[j]
    BY <2>2, CopyIfAlike
  <2>4. QED
    BY <2>1, <2>3
<1>13. on \in Seq(S) /\ known \in Seq(T)
  BY <1>8, <1>10, CopyIfFacts
<1> HIDE DEF on, known
<1>14. DOMAIN on = 1 .. Len(known) /\ known = [j \in 1 .. Len(known) |-> known[j]]
  BY <1>12, <1>13
<1>15. [i \in DOMAIN on |-> on[i].attr] = known
  BY <1>12, <1>14
<1>16. QED
  BY <1>4, <1>15 DEF its, known, A

LEMMA CreateShows ==
  ASSUME MenuInv, column_select_create
  PROVE  items' \in Menus /\ (IsInjective(columns) => Shown(items') = CopyIf(columns, Range(Attributes)))
<1> DEFINE shown == CHOOSE f : f = OpeningOf(f)
<1>1. items' = shown[Len(columns)]
  BY DEF column_select_create, OpeningOf, Untouched
<1>2. PICK f : f = shown
  OBVIOUS
<1>3. f = OpeningOf(f) /\ \A k \in 0 .. Len(columns) : f[k] \in Menus
  BY <1>2, OpeningFacts
<1> HIDE DEF shown
<1>4. Len(columns) \in 0 .. Len(columns)
  BY DEF MenuInv
<1>5. QED
  BY <1>1, <1>2, <1>3, <1>4, OpenedShows

\* Columns as MenuInv wants them
ListColumns(cols) == cols \in Seq(AttributeNames) /\ Len(cols) <= Len(Attributes)

LEMMA MenuClosed ==
  ASSUME ListColumns(columns'), ClosePanel
  PROVE  MenuInv'
<1>1. panel' # "columns" /\ items' = <<>>
  BY DEF ClosePanel
<1>2. <<>> \in Seq(MenuItems)
  OBVIOUS
<1>3. MenuItems' = MenuItems
  BY DEF MenuItems
<1>4. QED
  BY <1>1, <1>2, <1>3 DEF MenuInv, ListColumns

LEMMA MenuKept ==
  ASSUME MenuInv, ListColumns(columns'), UNCHANGED <<panel, items>>
  PROVE  MenuInv'
BY DEF MenuInv, ListColumns, MenuItems

LEMMA MenuChanged ==
  ASSUME MenuInv, panel = "columns", UNCHANGED <<panel, columns>>,
         items' \in Seq(MenuItems), Len(items') = Len(items)
  PROVE  MenuInv'
<1>1. MenuItems' = MenuItems
  BY DEF MenuItems
<1>2. QED
  BY <1>1 DEF MenuInv

LEMMA ToggleFacts ==
  ASSUME NEW its \in Seq(MenuItems), NEW i
  PROVE  /\ column_select_toggle_item(its, i) \in Seq(MenuItems)
         /\ Len(column_select_toggle_item(its, i)) = Len(its)
<1> DEFINE n == Len(its)
<1>1. n \in Nat /\ \A j \in 1 .. n : its[j] \in MenuItems
  OBVIOUS
<1>2. PICK up : up = [its EXCEPT ![i].on = ~its[i].on]
  OBVIOUS
<1>3. CASE i \in 1 .. n
  <2>1. PICK it : it = [its[i] EXCEPT !.on = ~its[i].on]
    OBVIOUS
  <2>2. it \in MenuItems
    <3>1. its[i] \in MenuItems
      BY <1>1, <1>3
    <3>2. its[i] = [attr |-> its[i].attr, on |-> its[i].on] /\ its[i].attr \in Range(Attributes)
      BY <3>1 DEF MenuItems
    <3>3. it = [attr |-> its[i].attr, on |-> ~its[i].on]
      BY <2>1, <3>2
    <3>4. (~its[i].on) \in BOOLEAN
      OBVIOUS
    <3>5. QED
      BY <3>2, <3>3, <3>4 DEF MenuItems
  <2>3. up = [its EXCEPT ![i] = it]
    BY <1>2, <2>1
  <2>4. up \in Seq(MenuItems) /\ Len(up) = n
    BY <1>3, <2>2, <2>3
  <2>5. QED
    BY <1>2, <2>4 DEF column_select_toggle_item
<1>4. CASE i \notin 1 .. n
  <2>1. up = its
    BY <1>2, <1>4
  <2>2. QED
    BY <1>2, <2>1 DEF column_select_toggle_item
<1>5. QED
  BY <1>3, <1>4

LEMMA MoveFacts ==
  ASSUME NEW its \in Seq(MenuItems), NEW i \in DOMAIN its, NEW pos \in DOMAIN its
  PROVE  /\ column_select_move_item(its, i, pos) \in Seq(MenuItems)
         /\ Len(column_select_move_item(its, i, pos)) = Len(its)
<1> DEFINE new == [its EXCEPT ![i] = its[pos], ![pos] = its[i]]
<1>1. i \in 1 .. Len(its) /\ pos \in 1 .. Len(its) /\ Len(its) \in Nat
  OBVIOUS
<1>2. new \in Seq(MenuItems) /\ Len(new) = Len(its)
  BY <1>1
<1>3. column_select_move_item(its, i, pos) = new
  BY <1>1 DEF column_select_move_item
<1>4. QED
  BY <1>2, <1>3

LEMMA ColumnsMenuStep ==
  ASSUME MenuInv, NEW i \in DOMAIN Attributes,
         MenuSelect(i) \/ \E d \in {-1, 1} : ColumnMove(i, d)
  PROVE  MenuInv'
<1>1. CASE MenuSelect(i)
  <2>1. panel = "columns" /\ UNCHANGED <<panel, columns>> /\ items' = column_select_toggle_item(items, i)
    BY <1>1 DEF MenuSelect, Handling, config
  <2>2. items' \in Seq(MenuItems) /\ Len(items') = Len(items)
    BY <2>1, ToggleFacts DEF MenuInv
  <2>3. QED
    BY <2>1, <2>2, MenuChanged
<1>2. ASSUME NEW d \in {-1, 1}, ColumnMove(i, d) PROVE MenuInv'
  <2>1. /\ panel = "columns" /\ UNCHANGED <<panel, columns>> /\ i + d \in DOMAIN items
        /\ items' = column_select_move_item(items, i, i + d)
    BY <1>2 DEF ColumnMove, Handling, config
  <2>2. i \in DOMAIN items
    BY <2>1, AttributeCount DEF MenuInv
  <2>3. items' \in Seq(MenuItems) /\ Len(items') = Len(items)
    BY <2>1, <2>2, MoveFacts DEF MenuInv
  <2>4. QED
    BY <2>1, <2>3, MenuChanged
<1>3. QED
  BY <1>1, <1>2

LEMMA MenuStep ==
  ASSUME MenuInv, [ConfigNext]_configVars
  PROVE  MenuInv'
<1>1. ListColumns(columns)
  BY DEF MenuInv, ListColumns
<1>2. CASE \E noconfig \in BOOLEAN : Start(noconfig)
  <2>1. PICK opts : columns' = call_list_columns(opts)
    BY <1>2 DEF Start
  <2>2. ListColumns(columns')
    BY <2>1, ListColumnsFacts DEF ListColumns
  <2>3. UNCHANGED <<panel, items>>
    BY <1>2 DEF Start, opened
  <2>4. QED
    BY <2>2, <2>3, MenuKept
<1>3. CASE settings_create
  <2>1. items = <<>> /\ items' = items /\ columns' = columns /\ panel' = "settings"
    BY <1>3 DEF settings_create, Handling, config, MenuInv
  <2>2. QED
    BY <2>1 DEF MenuInv, MenuItems
<1>4. CASE \/ (\E s \in PanelSettings : EditField(s)) \/ SettingsSave
           \/ (\E s \in ToggleSettings : ToggleKey(s)) \/ Unlink \/ Rename \/ OpenFile
  <2>1. UNCHANGED <<panel, items, columns>>
    BY <1>4 DEF EditField, SettingsSave, ToggleKey, Unlink, Rename, OpenFile, Saving, config, opened
  <2>2. QED
    BY <1>1, <2>1, MenuKept DEF ListColumns
<1>5. CASE (\E button \in Buttons : SettingsConfirm(button)) \/ PrevScreen \/ OpenFails \/ WriteFile
  <2>1. ClosePanel /\ columns' = columns
    BY <1>5 DEF SettingsConfirm, PrevScreen, OpenFails, WriteFile, EndSave, Saving, config
  <2>2. QED
    BY <1>1, <2>1, MenuClosed DEF ListColumns
<1>6. CASE column_select_create
  <2>1. items' \in Menus /\ panel' = "columns" /\ columns' = columns
    BY <1>6, CreateShows DEF column_select_create, config
  <2>2. QED
    BY <2>1 DEF MenuInv, Menus, MenuItems
<1>7. CASE \E i \in DOMAIN Attributes : MenuSelect(i) \/ \E d \in {-1, 1} : ColumnMove(i, d)
  BY <1>7, ColumnsMenuStep
<1>8. ASSUME panel = "columns" PROVE ListColumns(Shown(items))
  <2>1. Shown(items) \in Seq(Range(Attributes)) /\ Len(Shown(items)) <= Len(Attributes)
    BY <1>8, ShownFacts, AttributeCount DEF MenuInv
  <2>2. Range(Attributes) \subseteq AttributeNames
    BY DEF AttributeNames
  <2>3. QED
    BY <2>1, <2>2 DEF ListColumns
<1>9. CASE \E button \in Buttons : ColumnsConfirm(button)
  <2>1. ClosePanel /\ panel = "columns" /\ (columns' = columns \/ columns' = Shown(items))
    BY <1>9 DEF ColumnsConfirm, Handling, column_select_update_columns
  <2>2. ListColumns(columns')
    BY <1>1, <1>8, <2>1
  <2>3. QED
    BY <2>1, <2>2, MenuClosed
<1>10. CASE ColumnsSave
  <2>1. UNCHANGED <<panel, items>> /\ panel = "columns" /\ columns' = Shown(items)
    BY <1>10 DEF ColumnsSave, Handling, column_select_update_columns, opened
  <2>2. ListColumns(columns')
    BY <1>8, <2>1
  <2>3. QED
    BY <2>1, <2>2, MenuKept
<1>11. CASE Exit \/ Kill
  <2>1. ClosePanel /\ columns' = <<>>
    BY <1>11 DEF Exit, Kill, Unset
  <2>2. ListColumns(columns')
    BY <2>1, AttributeCount DEF ListColumns
  <2>3. QED
    BY <2>1, <2>2, MenuClosed
<1>12. CASE UNCHANGED configVars
  <2>1. UNCHANGED <<panel, items, columns>>
    BY <1>12 DEF configVars, opened, config
  <2>2. QED
    BY <1>1, <2>1, MenuKept DEF ListColumns
<1>13. QED
  BY <1>2, <1>3, <1>4, <1>5, <1>6, <1>7, <1>9, <1>10, <1>11, <1>12 DEF ConfigNext
\* Only the columns' panel opens the columns' panel.
LEMMA OpensColumns ==
  ASSUME [ConfigNext]_configVars, panel = "list", panel' = "columns"
  PROVE  column_select_create
<1>1. ~(\E noconfig \in BOOLEAN : Start(noconfig))
  BY DEF Start, opened
<1>2. ~settings_create
  BY DEF settings_create
<1>3. ~(\/ (\E s \in PanelSettings : EditField(s)) \/ SettingsSave
        \/ (\E s \in ToggleSettings : ToggleKey(s)) \/ Unlink \/ Rename \/ OpenFile \/ ColumnsSave)
  BY DEF EditField, SettingsSave, ToggleKey, Unlink, Rename, OpenFile, ColumnsSave, opened
<1>4. ~((\E button \in Buttons : SettingsConfirm(button) \/ ColumnsConfirm(button))
        \/ PrevScreen \/ OpenFails \/ WriteFile \/ Exit \/ Kill)
  BY DEF SettingsConfirm, ColumnsConfirm, PrevScreen, OpenFails, WriteFile, EndSave, Exit, Kill, Unset, ClosePanel
<1>5. ~(\E i \in DOMAIN Attributes : MenuSelect(i) \/ \E d \in {-1, 1} : ColumnMove(i, d))
  BY DEF MenuSelect, ColumnMove, Handling
<1>6. ~UNCHANGED configVars
  BY DEF configVars, opened
<1>7. QED
  BY <1>1, <1>2, <1>3, <1>4, <1>5, <1>6 DEF ConfigNext

LEMMA InitialMenu ==
  ASSUME ConfigInit
  PROVE  MenuInv
<1>1. columns = <<>> /\ items = <<>> /\ panel = "list"
  BY DEF ConfigInit
<1>2. <<>> \in Seq(MenuItems) /\ <<>> \in Seq(AttributeNames) /\ Len(<<>>) = 0
  OBVIOUS
<1>3. QED
  BY <1>1, <1>2, AttributeCount DEF MenuInv

\* The columns panel opens on the columns of the list that are spelled as in
\* the table of the attributes, in their order and no others, for any
\* attributes, options and resource files that give no column twice
\* (column_select_create, call_list_create).
THEOREM ColumnsAsShownHolds == ConfigSpec => ColumnsAsShown
<1>1. ConfigInit => MenuInv
  BY InitialMenu
<1>2. MenuInv /\ [ConfigNext]_configVars => MenuInv'
  BY MenuStep
<1>3. MenuInv /\ [ConfigNext]_configVars
        => [(panel = "list" /\ panel' = "columns" /\ IsInjective(columns))
              => Shown(items') = CopyIf(columns, Range(Attributes))]_configVars
  BY OpensColumns, CreateShows
<1>4. QED
  BY <1>1, <1>2, <1>3, PTL DEF ConfigSpec, ColumnsAsShown

-------------------------------------------------------------------------------
\* The lines no panel writes, all of them, are in a file.
Keeps(file) == \A l \in Lines(first) : l.type # "set" => l \in Lines(file)

\* Where they are at each moment of a save and after it was cut short.  While
\* a save waits to open the new file, the old one is out of the way.
KeptInv ==
  /\ cut \in {"no", "cut", "again"}
  /\ writable =>
       /\ saving = "open" => rc = Missing
       /\ cut = "no" /\ saving \in {"no", "unlink", "rename"} => Keeps(rc)
       /\ cut = "no" /\ saving \in {"open", "write"} => Keeps(old)
       /\ cut = "cut" => saving \in {"no", "unlink"} /\ Keeps(old)

SaveSteps == {"no", "unlink", "rename", "open", "write"}

SavingInv == FileInv /\ KeptInv /\ saving \in SaveSteps

LEMMA NewFileKeeps ==
  ASSUME FileInv, MenuInv, Keeps(old)
  PROVE  Keeps(NewFile)
BY NewFileFacts DEF Keeps, Lines

-------------------------------------------------------------------------------
(* Reading a file.                                                         *)

Entries == [type : {"column", "alias"}, opt : Words, value : Words \ {NoText}]

IsConfig(c) ==
  /\ c = [settings |-> c.settings, options |-> c.options, bindings |-> c.bindings, crashed |-> c.crashed]
  /\ c.settings \in [DOMAIN SettingTable -> Words] /\ c.options \in Seq(Entries)

\* The value of an option is that of the first entry of this name.
LEMMA FirstEntry ==
  ASSUME NEW opts \in Seq(Entries), NEW i \in 1 .. Len(opts),
         \A j \in 1 .. Len(opts) : j < i => opts[j].opt # opts[i].opt
  PROVE  get_option_value(opts, opts[i].opt) = opts[i].value
<1> DEFINE name == opts[i].opt
           I == {j \in 1 .. Len(opts) : opts[j].opt = name}
           m == Min(I)
<1>1. I \subseteq Nat /\ i \in I
  OBVIOUS
<1>2. SelectInSeq(opts, LAMBDA o : o.opt = name) = m
  BY <1>1 DEF SelectInSeq
<1>3. m \in I /\ m <= i
  <2> HIDE DEF I
  <2>1. QED
    BY <1>1, MinOfNats
<1> HIDE DEF m
<1>4. m = i /\ m # 0
  BY <1>3
<1>5. QED
  BY <1>2, <1>4 DEF get_option_value

LEMMA NoEntry ==
  ASSUME NEW opts \in Seq(Entries), NEW name, \A j \in 1 .. Len(opts) : opts[j].opt # name
  PROVE  get_option_value(opts, name) = NoText
<1>1. SelectInSeq(opts, LAMBDA o : o.opt = name) = 0
  BY DEF SelectInSeq
<1>2. QED
  BY <1>1 DEF get_option_value

\* An option has a value when, and only when, an entry has its name.
LEMMA SomeEntry ==
  ASSUME NEW opts \in Seq(Entries), NEW name, get_option_value(opts, name) # NoText
  PROVE  \E i \in 1 .. Len(opts) :
           /\ opts[i].opt = name /\ get_option_value(opts, name) = opts[i].value
           /\ \A j \in 1 .. Len(opts) : j < i => opts[j].opt # name
<1> DEFINE I == {j \in 1 .. Len(opts) : opts[j].opt = name}
<1>1. I \subseteq Nat /\ I # {}
  <2>1. PICK j \in 1 .. Len(opts) : opts[j].opt = name
    BY NoEntry
  <2>2. QED
    BY <2>1
<1>2. PICK i \in I : \A j \in I : i <= j
  <2> HIDE DEF I
  <2>1. QED
    BY <1>1, NatMin
<1>3. /\ i \in 1 .. Len(opts) /\ opts[i].opt = name
      /\ \A j \in 1 .. Len(opts) : j < i => opts[j].opt # name
  <2>1. i \in 1 .. Len(opts) /\ opts[i].opt = name /\ Len(opts) \in Nat
    OBVIOUS
  <2>2. ASSUME NEW j \in 1 .. Len(opts), j < i PROVE opts[j].opt # name
    <3>1. j \notin I
      BY <1>2, <2>1, <2>2
    <3>2. QED
      BY <3>1
  <2>3. QED
    BY <2>1, <2>2
<1>4. get_option_value(opts, name) = opts[i].value
  BY <1>3, FirstEntry
<1>5. QED
  BY <1>3, <1>4

LEMMA EntryHasValue ==
  ASSUME NEW opts \in Seq(Entries), NEW i \in 1 .. Len(opts)
  PROVE  get_option_value(opts, opts[i].opt) # NoText
<1> DEFINE I == {j \in 1 .. Len(opts) : opts[j].opt = opts[i].opt}
<1>1. I \subseteq Nat /\ I # {}
  OBVIOUS
<1>2. PICK k \in I : \A j \in I : k <= j
  <2> HIDE DEF I
  <2>1. QED
    BY <1>1, NatMin
<1>3. k \in 1 .. Len(opts) /\ opts[k].opt = opts[i].opt /\ \A j \in 1 .. Len(opts) : j < k => opts[j].opt # opts[k].opt
  BY <1>2
<1>4. get_option_value(opts, opts[k].opt) = opts[k].value
  BY <1>3, FirstEntry
<1>5. opts[k].value # NoText
  <2>1. opts[k] \in Entries
    BY <1>3
  <2>2. QED
    BY <2>1 DEF Entries
<1>6. QED
  BY <1>3, <1>4, <1>5

\* An entry more at the end changes the value of no option that has one.
LEMMA EntryAdded ==
  ASSUME NEW opts \in Seq(Entries), NEW e \in Entries
  PROVE  /\ Append(opts, e) \in Seq(Entries)
         /\ \A name : get_option_value(opts, name) # NoText \/ name # e.opt
                     => get_option_value(Append(opts, e), name) = get_option_value(opts, name)
         /\ get_option_value(opts, e.opt) = NoText => get_option_value(Append(opts, e), e.opt) = e.value
<1> DEFINE n == Len(opts)
<1>1. PICK new : new = Append(opts, e)
  OBVIOUS
<1>2. /\ new \in Seq(Entries) /\ Len(new) = n + 1 /\ n \in Nat
      /\ \A j \in 1 .. n : new[j] = opts[j]
      /\ new[n + 1] = e
  BY <1>1
<1>3. ASSUME NEW name, get_option_value(opts, name) # NoText
      PROVE  get_option_value(new, name) = get_option_value(opts, name)
  <2>1. PICK i \in 1 .. n : /\ opts[i].opt = name /\ get_option_value(opts, name) = opts[i].value
                            /\ \A j \in 1 .. n : j < i => opts[j].opt # name
    BY <1>3, SomeEntry
  <2>2. i \in 1 .. Len(new) /\ new[i].opt = name /\ new[i].value = opts[i].value
    BY <1>2, <2>1
  <2>3. \A j \in 1 .. Len(new) : j < i => new[j].opt # new[i].opt
    <3>1. \A j \in 1 .. Len(new) : j < i => j \in 1 .. n
      BY <1>2
    <3>2. QED
      BY <1>2, <2>1, <2>2, <3>1
  <2>4. get_option_value(new, new[i].opt) = new[i].value
    BY <1>2, <2>2, <2>3, FirstEntry
  <2>5. QED
    BY <2>1, <2>2, <2>4
<1>4. ASSUME get_option_value(opts, e.opt) = NoText PROVE get_option_value(new, e.opt) = e.value
  <2>1. \A j \in 1 .. n : opts[j].opt # e.opt
    BY <1>4, EntryHasValue
  <2>2. n + 1 \in 1 .. Len(new)
    BY <1>2
  <2>3. \A j \in 1 .. Len(new) : j < n + 1 => new[j].opt # new[n + 1].opt
    <3>1. \A j \in 1 .. Len(new) : j < n + 1 => j \in 1 .. n
      BY <1>2
    <3>2. QED
      BY <1>2, <2>1, <3>1
  <2>4. get_option_value(new, new[n + 1].opt) = new[n + 1].value
    BY <1>2, <2>2, <2>3, FirstEntry
  <2>5. QED
    BY <1>2, <2>4
<1>5. ASSUME NEW name, get_option_value(opts, name) = NoText, name # e.opt
      PROVE  get_option_value(new, name) = NoText
  <2>1. \A j \in 1 .. n : opts[j].opt # name
    BY <1>5, EntryHasValue
  <2>2. \A j \in 1 .. Len(new) : j \in 1 .. n \/ j = n + 1
    BY <1>2
  <2>3. \A j \in 1 .. Len(new) : new[j].opt # name
    BY <1>2, <1>5, <2>1, <2>2
  <2>4. QED
    BY <1>2, <2>3, NoEntry
<1>6. QED
  BY <1>1, <1>2, <1>3, <1>4, <1>5

\* A set line gives its option its value, and leaves the others theirs.
LEMMA OptionSet ==
  ASSUME NEW opts \in Seq(Entries), NEW opt \in Words, NEW v \in Words \ {NoText}
  PROVE  /\ set_option_value(opts, opt, v) \in Seq(Entries)
         /\ get_option_value(set_option_value(opts, opt, v), opt) = v
         /\ \A name : name # opt
                     => get_option_value(set_option_value(opts, opt, v), name) = get_option_value(opts, name)
<1> DEFINE n == Len(opts)
<1>1. CASE get_option_value(opts, opt) = NoText
  <2>1. PICK e : e = [type |-> "column", opt |-> opt, value |-> v]
    OBVIOUS
  <2>2. e \in Entries /\ e.opt = opt /\ e.value = v
    BY <2>1 DEF Entries
  <2>3. set_option_value(opts, opt, v) = Append(opts, e)
    BY <1>1, <2>1 DEF set_option_value
  <2>4. QED
    BY <1>1, <2>2, <2>3, EntryAdded
<1>2. CASE get_option_value(opts, opt) # NoText
  <2>1. PICK new : new = [i \in DOMAIN opts |-> IF opts[i].opt = opt THEN [opts[i] EXCEPT !.value = v] ELSE opts[i]]
    OBVIOUS
  <2>2. set_option_value(opts, opt, v) = new
    BY <1>2, <2>1 DEF set_option_value
  <2>3. n \in Nat /\ DOMAIN opts = 1 .. n /\ \A i \in 1 .. n : opts[i] \in Entries
    OBVIOUS
  <2>4. ASSUME NEW i \in 1 .. n
        PROVE  /\ new[i] \in Entries /\ new[i].opt = opts[i].opt
               /\ opts[i].opt = opt => new[i].value = v
               /\ opts[i].opt # opt => new[i].value = opts[i].value
    <3>1. opts[i] = [type |-> opts[i].type, opt |-> opts[i].opt, value |-> opts[i].value]
          /\ opts[i].type \in {"column", "alias"} /\ opts[i].opt \in Words
      BY <2>3 DEF Entries
    <3>2. CASE opts[i].opt = opt
      <4>1. new[i] = [opts[i] EXCEPT !.value = v]
        BY <2>1, <2>3, <3>2
      <4>2. new[i] = [type |-> opts[i].type, opt |-> opts[i].opt, value |-> v]
        BY <3>1, <4>1
      <4>3. QED
        BY <3>1, <3>2, <4>2 DEF Entries
    <3>3. CASE opts[i].opt # opt
      <4>1. new[i] = opts[i]
        BY <2>1, <2>3, <3>3
      <4>2. QED
        BY <2>3, <3>3, <4>1
    <3>4. QED
      BY <3>2, <3>3
  <2>5. new \in Seq(Entries) /\ Len(new) = n
    <3>1. new \in [1 .. n -> Entries]
      BY <2>1, <2>3, <2>4
    <3>2. QED
      BY <2>3, <3>1
  <2>6. ASSUME NEW name, get_option_value(opts, name) # NoText
        PROVE  get_option_value(new, name) = IF name = opt THEN v ELSE get_option_value(opts, name)
    <3>1. PICK i \in 1 .. n : /\ opts[i].opt = name /\ get_option_value(opts, name) = opts[i].value
                              /\ \A j \in 1 .. n : j < i => opts[j].opt # name
      BY <2>6, SomeEntry
    <3>2. i \in 1 .. Len(new) /\ \A j \in 1 .. Len(new) : j < i => new[j].opt # new[i].opt
      BY <2>4, <2>5, <3>1
    <3>3. get_option_value(new, new[i].opt) = new[i].value
      BY <2>5, <3>2, FirstEntry
    <3>4. QED
      BY <2>4, <3>1, <3>3
  <2>7. ASSUME NEW name, get_option_value(opts, name) = NoText
        PROVE  get_option_value(new, name) = NoText
    <3>1. \A j \in 1 .. n : opts[j].opt # name
      BY <2>7, EntryHasValue
    <3>2. \A j \in 1 .. Len(new) : new[j].opt # name
      BY <2>4, <2>5, <3>1
    <3>3. QED
      BY <2>5, <3>2, NoEntry
  <2>8. QED
    BY <1>2, <2>2, <2>5, <2>6, <2>7
<1>3. QED
  BY <1>1, <1>2

\* Lines that give a setting or an option a value
Sets(l, name) == l.type \in {"set", "Set"} /\ l.name = name /\ l.value # NoText

\* Lines that neither set nor alias a name
Quiet(l, name) == l.name = name => l.type \notin {"set", "Set", "alias"}

\* Reading a line gives a setting or option its value and leaves the others
\* theirs.
LEMMA ReadLineFacts ==
  ASSUME NEW c, IsConfig(c), NEW l \in FileLines
  PROVE  /\ IsConfig(ReadLine(c, l))
         /\ c.crashed => ReadLine(c, l).crashed
         /\ ~c.crashed /\ ~ReadLine(c, l).crashed =>
              /\ \A s \in DOMAIN SettingTable :
                   ReadLine(c, l).settings[s] = IF Sets(l, s) THEN l.value ELSE c.settings[s]
              /\ \A o \in Words \ DOMAIN SettingTable :
                   /\ Sets(l, o) => get_option_value(ReadLine(c, l).options, o) = l.value
                   /\ (~Sets(l, o) /\ get_option_value(c.options, o) # NoText) \/ Quiet(l, o)
                        => get_option_value(ReadLine(c, l).options, o) = get_option_value(c.options, o)
<1>1. /\ c = [settings |-> c.settings, options |-> c.options, bindings |-> c.bindings, crashed |-> c.crashed]
      /\ c.settings \in [DOMAIN SettingTable -> Words] /\ c.options \in Seq(Entries)
  BY DEF IsConfig
<1>2. l.type \in LineTypes /\ l.name \in Words /\ l.value \in Words
  BY DEF FileLines
<1>3. CASE c.crashed \/ l.value = NoText \/ l.type = "#"
  <2>1. ReadLine(c, l) = c
    BY <1>3 DEF ReadLine
  <2>2. c.crashed \/ \A name : ~Sets(l, name)
    BY <1>3 DEF Sets
  <2>3. QED
    BY <2>1, <2>2
<1>4. CASE ~(c.crashed \/ l.value = NoText \/ l.type = "#") /\ l.type \in {"set", "Set"} /\ l.name \in DOMAIN SettingTable
  <2>1. PICK new : new = [c EXCEPT !.settings[l.name] = l.value]
    OBVIOUS
  <2>2. ReadLine(c, l) = new
    BY <1>4, <2>1 DEF ReadLine
  <2>3. PICK set : set = [c.settings EXCEPT ![l.name] = l.value]
    OBVIOUS
  <2>4. new = [settings |-> set, options |-> c.options, bindings |-> c.bindings, crashed |-> c.crashed]
    BY <1>1, <2>1, <2>3
  <2>5. /\ set \in [DOMAIN SettingTable -> Words]
        /\ \A s \in DOMAIN SettingTable : set[s] = IF s = l.name THEN l.value ELSE c.settings[s]
    BY <1>1, <1>2, <2>3
  <2>6. new.settings = set /\ new.options = c.options /\ new.crashed = c.crashed /\ new.bindings = c.bindings
    BY <2>4
  <2>7. IsConfig(new)
    BY <1>1, <2>4, <2>5, <2>6 DEF IsConfig
  <2>8. \A name : Sets(l, name) <=> name = l.name
    BY <1>4 DEF Sets
  <2>9. QED
    BY <1>4, <2>2, <2>5, <2>6, <2>7, <2>8
<1>5. CASE ~(c.crashed \/ l.value = NoText \/ l.type = "#") /\ l.type \in {"set", "Set"} /\ l.name \notin DOMAIN SettingTable
  <2>1. PICK opts : opts = set_option_value(c.options, l.name, l.value)
    OBVIOUS
  <2>2. ReadLine(c, l) = [c EXCEPT !.options = opts]
    BY <1>5, <2>1 DEF ReadLine
  <2>3. PICK new : new = [settings |-> c.settings, options |-> opts, bindings |-> c.bindings, crashed |-> c.crashed]
    OBVIOUS
  <2>4. ReadLine(c, l) = new
    BY <1>1, <2>2, <2>3
  <2>5. l.value \in Words \ {NoText}
    BY <1>2, <1>5
  <2>6. /\ opts \in Seq(Entries) /\ get_option_value(opts, l.name) = l.value
        /\ \A name : name # l.name => get_option_value(opts, name) = get_option_value(c.options, name)
    BY <1>1, <1>2, <2>1, <2>5, OptionSet
  <2>7. new.settings = c.settings /\ new.options = opts /\ new.crashed = c.crashed /\ new.bindings = c.bindings
    BY <2>3
  <2>8. IsConfig(new)
    BY <1>1, <2>3, <2>6, <2>7 DEF IsConfig
  <2>9. \A name : (Sets(l, name) <=> name = l.name) /\ (Quiet(l, name) => name # l.name)
    BY <1>5 DEF Sets, Quiet
  <2>10. QED
    BY <1>5, <2>4, <2>6, <2>7, <2>8, <2>9
<1>6. CASE ~(c.crashed \/ l.value = NoText \/ l.type = "#") /\ l.type = "alias"
  <2>1. PICK e : e = [type |-> "alias", opt |-> l.name, value |-> l.value]
    OBVIOUS
  <2>2. PICK opts : opts = Append(c.options, e)
    OBVIOUS
  <2>3. ReadLine(c, l) = [c EXCEPT !.options = opts]
    BY <1>6, <2>1, <2>2 DEF ReadLine, set_alias_value
  <2>4. PICK new : new = [settings |-> c.settings, options |-> opts, bindings |-> c.bindings, crashed |-> c.crashed]
    OBVIOUS
  <2>5. ReadLine(c, l) = new
    BY <1>1, <2>3, <2>4
  <2>6. e \in Entries
    BY <1>2, <1>6, <2>1 DEF Entries
  <2>7. /\ opts \in Seq(Entries)
        /\ \A name : get_option_value(c.options, name) # NoText \/ name # l.name
                       => get_option_value(opts, name) = get_option_value(c.options, name)
    <3>1. e.opt = l.name
      BY <2>1
    <3>2. QED
      BY <1>1, <2>2, <2>6, <3>1, EntryAdded
  <2>8. new.settings = c.settings /\ new.options = opts /\ new.crashed = c.crashed /\ new.bindings = c.bindings
    BY <2>4
  <2>9. IsConfig(new)
    BY <1>1, <2>4, <2>7, <2>8 DEF IsConfig
  <2>10. \A name : ~Sets(l, name) /\ (Quiet(l, name) => name # l.name)
    BY <1>6 DEF Sets, Quiet
  <2>11. QED
    BY <1>6, <2>5, <2>7, <2>8, <2>9, <2>10
<1>7. CASE ~(c.crashed \/ l.value = NoText \/ l.type = "#") /\ l.type \in {"bind", "unbind"}
  <2>1. PICK b, dead : ReadLine(c, l) = [settings |-> c.settings, options |-> c.options, bindings |-> b, crashed |-> dead]
    <3>1. PICK action : action = key_action_id(l.name)
      OBVIOUS
    <3>2. CASE action = Missing
      <4>1. ReadLine(c, l) = [c EXCEPT !.crashed = TRUE]
        BY <1>7, <3>1, <3>2 DEF ReadLine
      <4>2. ReadLine(c, l) = [settings |-> c.settings, options |-> c.options, bindings |-> c.bindings, crashed |-> TRUE]
        BY <1>1, <4>1
      <4>3. QED
        BY <4>2
    <3>3. CASE action # Missing
      <4>1. PICK b : b = IF l.type = "bind" THEN key_bind_action(c.bindings, action, l.value)
                         ELSE key_unbind_action(c.bindings, action, l.value)
        OBVIOUS
      <4>2. ReadLine(c, l) = [c EXCEPT !.bindings = b]
        BY <1>7, <3>1, <3>3, <4>1 DEF ReadLine
      <4>3. ReadLine(c, l) = [settings |-> c.settings, options |-> c.options, bindings |-> b, crashed |-> c.crashed]
        BY <1>1, <4>2
      <4>4. QED
        BY <4>3
    <3>4. QED
      BY <3>2, <3>3
  <2>2. PICK new : new = ReadLine(c, l)
    OBVIOUS
  <2>3. /\ new = [settings |-> c.settings, options |-> c.options, bindings |-> b, crashed |-> dead]
        /\ new.settings = c.settings /\ new.options = c.options /\ new.bindings = b /\ new.crashed = dead
    BY <2>1, <2>2
  <2>4. IsConfig(new)
    BY <1>1, <2>3 DEF IsConfig
  <2>5. \A name : ~Sets(l, name)
    BY <1>7 DEF Sets
  <2>6. QED
    BY <1>7, <2>2, <2>3, <2>4, <2>5
<1>8. QED
  BY <1>2, <1>3, <1>4, <1>5, <1>6, <1>7 DEF LineTypes

\* The last of the first n lines that give a setting or an option a value
\* gives it this one.
LastIn(file, n, name, v) ==
  \E j \in 1 .. n : /\ Sets(file[j], name) /\ file[j].value = v
                    /\ \A k \in 1 .. n : k > j => ~Sets(file[k], name)

LEMMA LastInStep ==
  ASSUME NEW file, NEW n \in Nat, NEW name, NEW v, LastIn(file, n + 1, name, v)
  PROVE  \/ Sets(file[n + 1], name) /\ file[n + 1].value = v
         \/ ~Sets(file[n + 1], name) /\ LastIn(file, n, name, v)
<1>1. PICK j \in 1 .. n + 1 : /\ Sets(file[j], name) /\ file[j].value = v
                              /\ \A k \in 1 .. n + 1 : k > j => ~Sets(file[k], name)
  BY DEF LastIn
<1>2. CASE j = n + 1
  BY <1>1, <1>2
<1>3. CASE j # n + 1
  <2>1. j \in 1 .. n /\ n + 1 > j /\ n + 1 \in 1 .. n + 1
    BY <1>3
  <2>2. \A k \in 1 .. n : k \in 1 .. n + 1
    OBVIOUS
  <2>3. LastIn(file, n, name, v)
    BY <1>1, <2>1, <2>2 DEF LastIn
  <2>4. QED
    BY <1>1, <2>1, <2>3
<1>4. QED
  BY <1>2, <1>3

\* What a start knows after some lines
ReadOf(f, c, file) == [i \in 0 .. Len(file) |-> IF i = 0 THEN c ELSE ReadLine(f[i - 1], file[i])]

LEMMA ReadSteps ==
  ASSUME NEW c, NEW file \in Seq(FileLines)
  PROVE  \E read : /\ read_options(c, file) = read[Len(file)]
                   /\ read[0] = c
                   /\ \A i \in 1 .. Len(file) : read[i] = ReadLine(read[i - 1], file[i])
<1> DEFINE n == Len(file)
           upto(f, m) == [i \in 0 .. m |-> IF i = 0 THEN c ELSE ReadLine(f[i - 1], file[i])]
           S == {m \in 0 .. n : \E f : f = upto(f, m)}
<1>1. n \in Nat
  OBVIOUS
<1> HIDE DEF n
<1>2. 0 \in S
  <2>1. PICK f : f = [i \in 0 .. 0 |-> c]
    OBVIOUS
  <2>2. f = upto(f, 0)
    <3>1. \A i \in 0 .. 0 : i = 0
      OBVIOUS
    <3>2. QED
      BY <2>1, <3>1
  <2>3. QED
    BY <1>1, <2>2
<1>3. ASSUME NEW m \in 1 .. n, m - 1 \in S PROVE m \in S
  <2>1. PICK f : f = upto(f, m - 1)
    BY <1>3
  <2>2. PICK h : h = [i \in 0 .. m |-> IF i < m THEN f[i] ELSE ReadLine(f[m - 1], file[m])]
    OBVIOUS
  <2>3. m \in Nat /\ m > 0 /\ m - 1 \in 0 .. (m - 1)
    BY <1>1
  <2>4. ASSUME NEW i \in 0 .. m PROVE h[i] = IF i = 0 THEN c ELSE ReadLine(h[i - 1], file[i])
    <3>1. CASE i = 0
      <4>1. h[i] = f[i] /\ i \in 0 .. (m - 1)
        BY <2>2, <2>3, <3>1
      <4>2. f[i] = IF i = 0 THEN c ELSE ReadLine(f[i - 1], file[i])
        BY <2>1, <4>1
      <4>3. QED
        BY <3>1, <4>1, <4>2
    <3>2. CASE i # 0 /\ i < m
      <4>1. h[i] = f[i] /\ i \in 0 .. (m - 1) /\ h[i - 1] = f[i - 1]
        BY <2>2, <2>3, <3>2
      <4>2. f[i] = IF i = 0 THEN c ELSE ReadLine(f[i - 1], file[i])
        BY <2>1, <4>1
      <4>3. QED
        BY <3>2, <4>1, <4>2
    <3>3. CASE i = m
      <4>1. h[m] = ReadLine(f[m - 1], file[m]) /\ h[m - 1] = f[m - 1]
        BY <2>2, <2>3
      <4>2. QED
        BY <2>3, <3>3, <4>1
    <3>4. QED
      BY <2>3, <3>1, <3>2, <3>3
  <2>5. h = upto(h, m)
    BY <2>2, <2>4
  <2>6. m \in 0 .. n
    BY <1>1
  <2>7. QED
    BY <2>5, <2>6
<1>4. \A m \in 0 .. n : m \in S
  <2> HIDE DEF S
  <2>1. QED
    BY <1>1, <1>2, <1>3, UpTo
<1>5. PICK f : f = upto(f, n)
  <2>1. n \in S
    <3> HIDE DEF S
    <3>1. QED
      BY <1>1, <1>4
  <2>2. QED
    BY <2>1
<1> DEFINE read == CHOOSE g : g = ReadOf(g, c, file)
<1>6. f = ReadOf(f, c, file)
  BY <1>5 DEF ReadOf, n
<1>7. read = ReadOf(read, c, file)
  BY <1>6, Zenon
<1>8. read_options(c, file) = read[n]
  BY FilesAssumption DEF read_options, ReadOf, n
<1> HIDE DEF read
<1>9. \A i \in 0 .. n : read[i] = IF i = 0 THEN c ELSE ReadLine(read[i - 1], file[i])
  BY <1>7 DEF ReadOf, n
<1>10. read[0] = c /\ \A i \in 1 .. n : read[i] = ReadLine(read[i - 1], file[i])
  <2>1. 0 \in 0 .. n /\ \A i \in 1 .. n : i \in 0 .. n /\ i # 0
    BY <1>1
  <2>2. QED
    BY <1>9, <2>1
<1>11. QED
  BY <1>8, <1>10 DEF n

\* The configuration has the value for a name.
HasValue(c, name, v) ==
  IF name \in DOMAIN SettingTable THEN c.settings[name] = v
  ELSE v # NoText /\ get_option_value(c.options, name) = v

LastSet(file, name, v) == file # Missing /\ LastIn(file, Len(file), name, v)

LEMMA LineValue ==
  ASSUME NEW c, IsConfig(c), NEW l \in FileLines, ~ReadLine(c, l).crashed, NEW name \in Words, NEW v
  PROVE  /\ ~c.crashed
         /\ Sets(l, name) /\ l.value = v => HasValue(ReadLine(c, l), name, v)
         /\ ~Sets(l, name) /\ HasValue(c, name, v) => HasValue(ReadLine(c, l), name, v)
<1>1. PICK new : new = ReadLine(c, l)
  OBVIOUS
<1>2. /\ ~c.crashed
      /\ \A s \in DOMAIN SettingTable : new.settings[s] = IF Sets(l, s) THEN l.value ELSE c.settings[s]
      /\ \A o \in Words \ DOMAIN SettingTable :
           /\ Sets(l, o) => get_option_value(new.options, o) = l.value
           /\ ~Sets(l, o) /\ get_option_value(c.options, o) # NoText
                => get_option_value(new.options, o) = get_option_value(c.options, o)
  BY <1>1, ReadLineFacts
<1>3. CASE name \in DOMAIN SettingTable
  BY <1>1, <1>2, <1>3 DEF HasValue
<1>4. CASE name \notin DOMAIN SettingTable
  <2>1. Sets(l, name) => l.value # NoText
    BY DEF Sets
  <2>2. name \in Words \ DOMAIN SettingTable
    BY <1>4
  <2>3. QED
    BY <1>1, <1>2, <1>4, <2>1, <2>2 DEF HasValue
<1>5. QED
  BY <1>3, <1>4

\* A file that was read to its end has had its last word on every setting and
\* option it sets.
LEMMA ReadFacts ==
  ASSUME NEW c, IsConfig(c), NEW file \in Seq(FileLines) \cup {Missing}
  PROVE  /\ IsConfig(read_options(c, file))
         /\ ~read_options(c, file).crashed =>
              \A name \in Words : \A v : LastSet(file, name, v) => HasValue(read_options(c, file), name, v)
<1>1. CASE file = Missing
  BY <1>1 DEF read_options, LastSet
<1>2. CASE file # Missing
  <2>1. file \in Seq(FileLines)
    BY <1>2
  <2> DEFINE n == Len(file)
  <2>2. n \in Nat /\ \A i \in 1 .. n : file[i] \in FileLines
    BY <2>1
  <2>3. PICK read : /\ read_options(c, file) = read[n]
                    /\ read[0] = c
                    /\ \A i \in 1 .. n : read[i] = ReadLine(read[i - 1], file[i])
    BY <2>1, ReadSteps, SMTT(30)
  <2> HIDE DEF n
  <2> DEFINE S == {i \in 0 .. n :
                     /\ IsConfig(read[i])
                     /\ ~read[i].crashed =>
                          \A name \in Words : \A v : LastIn(file, i, name, v) => HasValue(read[i], name, v)}
  <2>4. 0 \in S
    <3>1. \A name, v : ~LastIn(file, 0, name, v)
      BY DEF LastIn
    <3>2. QED
      BY <2>2, <2>3, <3>1
  <2>5. ASSUME NEW i \in 1 .. n, i - 1 \in S PROVE i \in S
    <3>1. PICK d : d = read[i - 1]
      OBVIOUS
    <3>2. PICK l : l = file[i]
      OBVIOUS
    <3>3. /\ IsConfig(d) /\ l \in FileLines /\ read[i] = ReadLine(d, l)
          /\ ~d.crashed => \A name \in Words : \A v : LastIn(file, i - 1, name, v) => HasValue(d, name, v)
      BY <2>2, <2>3, <2>5, <3>1, <3>2
    <3>4. IsConfig(ReadLine(d, l))
      BY <3>3, ReadLineFacts
    <3>5. ASSUME ~ReadLine(d, l).crashed, NEW name \in Words, NEW v, LastIn(file, i, name, v)
          PROVE  HasValue(ReadLine(d, l), name, v)
      <4>1. i - 1 \in Nat /\ (i - 1) + 1 = i
        BY <2>2
      <4>2. PICK k \in Nat : k = i - 1
        BY <4>1
      <4>3. LastIn(file, k + 1, name, v)
        BY <3>5, <4>1, <4>2
      <4>4. \/ Sets(l, name) /\ l.value = v
            \/ ~Sets(l, name) /\ LastIn(file, i - 1, name, v)
        BY <3>2, <4>1, <4>2, <4>3, LastInStep
      <4>5. /\ ~d.crashed
            /\ Sets(l, name) /\ l.value = v => HasValue(ReadLine(d, l), name, v)
            /\ ~Sets(l, name) /\ HasValue(d, name, v) => HasValue(ReadLine(d, l), name, v)
        BY <3>3, <3>5, LineValue
      <4>6. QED
        BY <3>3, <4>4, <4>5
    <3>6. i \in 0 .. n
      BY <2>2
    <3>7. QED
      BY <3>3, <3>4, <3>5, <3>6
  <2>6. \A i \in 0 .. n : i \in S
    <3> HIDE DEF S
    <3>1. QED
      BY <2>2, <2>4, <2>5, UpTo
  <2>7. n \in S
    <3> HIDE DEF S
    <3>1. QED
      BY <2>2, <2>6
  <2>8. /\ IsConfig(read[n])
        /\ ~read[n].crashed => \A name \in Words : \A v : LastIn(file, n, name, v) => HasValue(read[n], name, v)
    BY <2>7
  <2>9. QED
    BY <2>3, <2>8 DEF LastSet, n
<1>3. QED
  BY <1>1, <1>2

\* A file that neither sets nor aliases an option leaves it as it was.
LEMMA QuietFile ==
  ASSUME NEW c, IsConfig(c), NEW file \in Seq(FileLines) \cup {Missing}, NEW o \in Words \ DOMAIN SettingTable,
         \A l \in Lines(file) : Quiet(l, o), ~read_options(c, file).crashed
  PROVE  get_option_value(read_options(c, file).options, o) = get_option_value(c.options, o)
<1>1. CASE file = Missing
  BY <1>1 DEF read_options
<1>2. CASE file # Missing
  <2>1. file \in Seq(FileLines)
    BY <1>2
  <2> DEFINE n == Len(file)
  <2>2. n \in Nat /\ \A i \in 1 .. n : file[i] \in FileLines /\ Quiet(file[i], o)
    <3>1. \A i \in 1 .. n : i \in DOMAIN file /\ file[i] \in FileLines
      BY <2>1
    <3>2. Lines(file) = Range(file)
      BY <1>2 DEF Lines
    <3>3. QED
      BY <2>1, <3>1, <3>2 DEF Range
  <2>3. PICK read : /\ read_options(c, file) = read[n]
                    /\ read[0] = c
                    /\ \A i \in 1 .. n : read[i] = ReadLine(read[i - 1], file[i])
    BY <2>1, ReadSteps, SMTT(30)
  <2> HIDE DEF n
  <2> DEFINE S == {i \in 0 .. n :
                     /\ IsConfig(read[i])
                     /\ ~read[i].crashed => get_option_value(read[i].options, o) = get_option_value(c.options, o)}
  <2>4. 0 \in S
    BY <2>2, <2>3
  <2>5. ASSUME NEW i \in 1 .. n, i - 1 \in S PROVE i \in S
    <3>1. PICK d : d = read[i - 1]
      OBVIOUS
    <3>2. PICK l : l = file[i]
      OBVIOUS
    <3>3. /\ IsConfig(d) /\ l \in FileLines /\ Quiet(l, o) /\ read[i] = ReadLine(d, l)
          /\ ~d.crashed => get_option_value(d.options, o) = get_option_value(c.options, o)
      BY <2>2, <2>3, <2>5, <3>1, <3>2
    <3>4. /\ IsConfig(ReadLine(d, l))
          /\ d.crashed => ReadLine(d, l).crashed
          /\ ~d.crashed /\ ~ReadLine(d, l).crashed =>
               get_option_value(ReadLine(d, l).options, o) = get_option_value(d.options, o)
      BY <3>3, ReadLineFacts
    <3>5. i \in 0 .. n
      BY <2>2
    <3>6. QED
      BY <3>3, <3>4, <3>5
  <2>6. \A i \in 0 .. n : i \in S
    <3> HIDE DEF S
    <3>1. QED
      BY <2>2, <2>4, <2>5, UpTo
  <2>7. n \in S
    <3> HIDE DEF S
    <3>1. QED
      BY <2>2, <2>6
  <2>8. QED
    BY <2>3, <2>7
<1>3. QED
  BY <1>1, <1>2

LEMMA DefaultConfig == IsConfig(Defaults)
<1>1. PICK set : set = [s \in DOMAIN SettingTable |-> IF s = "savepath" THEN WorkingDir ELSE SettingTable[s].value]
  OBVIOUS
<1>2. PICK opts : opts = [i \in DOMAIN DefaultColumns |->
                            [type |-> "column", opt |-> ColumnOptions[i], value |-> DefaultColumns[i]]]
  OBVIOUS
<1>3. Defaults = [settings |-> set, options |-> opts, bindings |-> DefaultBindings, crashed |-> FALSE]
  BY <1>1, <1>2 DEF Defaults
<1>4. set \in [DOMAIN SettingTable -> Words]
  BY <1>1, SettingsAssumption
<1>5. PICK S : S = Range(Attributes)
  OBVIOUS
<1>6. DefaultColumns \in Seq(S) /\ Len(DefaultColumns) <= Len(Attributes) /\ S \subseteq Words \ {NoText}
  BY <1>5, ColumnsAssumption, AttributeWords
<1>7. PICK n \in Nat : n = Len(DefaultColumns)
  BY <1>6
<1>8. DOMAIN DefaultColumns = 1 .. n /\ \A i \in 1 .. n : DefaultColumns[i] \in Words \ {NoText}
  BY <1>6, <1>7
<1>9. \A i \in 1 .. n : ColumnOptions[i] \in Words
  <2>1. \A i \in 1 .. n : i \in DOMAIN ColumnOptions
    BY <1>6, <1>7, AttributeCount
  <2>2. QED
    BY <2>1, AttributeWords DEF Range
<1>10. opts \in [1 .. n -> Entries]
  BY <1>2, <1>8, <1>9 DEF Entries
<1>11. opts \in Seq(Entries)
  BY <1>10
<1>12. PICK d : d = Defaults
  OBVIOUS
<1>13. /\ d = [settings |-> set, options |-> opts, bindings |-> DefaultBindings, crashed |-> FALSE]
       /\ d.settings = set /\ d.options = opts /\ d.bindings = DefaultBindings /\ d.crashed = FALSE
  BY <1>3, <1>12
<1>14. QED
  BY <1>4, <1>11, <1>12, <1>13 DEF IsConfig

\* A start reads what the system's files and then the user's file say.
LEMMA StartFacts ==
  ASSUME FileInv, NEW noconfig
  PROVE  /\ IsConfig(init_options(noconfig))
         /\ ~noconfig /\ ~init_options(noconfig).crashed =>
              /\ \A name \in Words : \A v : LastSet(rc, name, v) => HasValue(init_options(noconfig), name, v)
              /\ \A o \in Words \ DOMAIN SettingTable :
                   (\A l \in Lines(rc) : Quiet(l, o)) =>
                     get_option_value(init_options(noconfig).options, o) =
                       get_option_value(read_options(Defaults, SystemLines).options, o)
<1>1. CASE noconfig
  <2>1. init_options(noconfig) = Defaults
    BY <1>1 DEF init_options
  <2>2. IsConfig(init_options(noconfig))
    BY <2>1, DefaultConfig
  <2>3. ~(~noconfig /\ ~init_options(noconfig).crashed)
    BY <1>1
  <2>4. QED
    BY <2>2, <2>3, Zenon
<1>2. CASE ~noconfig
  <2>1. PICK c : c = read_options(Defaults, SystemLines)
    OBVIOUS
  <2>2. init_options(noconfig) = read_options(c, rc)
    BY <1>2, <2>1 DEF init_options
  <2>3. IsConfig(c)
    <3>1. SystemLines \in Seq(FileLines) \cup {Missing}
      BY FilesAssumption
    <3>2. PICK d : d = Defaults
      OBVIOUS
    <3>3. IsConfig(read_options(d, SystemLines))
      BY <3>1, <3>2, DefaultConfig, ReadFacts
    <3>4. QED
      BY <2>1, <3>2, <3>3
  <2>4. rc \in Seq(FileLines) \cup {Missing}
    BY DEF FileInv
  <2>5. PICK file : file = rc
    OBVIOUS
  <2>6. /\ IsConfig(read_options(c, file))
        /\ ~read_options(c, file).crashed =>
             \A name \in Words : \A v : LastSet(file, name, v) => HasValue(read_options(c, file), name, v)
    BY <2>3, <2>4, <2>5, ReadFacts
  <2>7. ~read_options(c, file).crashed =>
          \A o \in Words \ DOMAIN SettingTable : (\A l \in Lines(file) : Quiet(l, o)) =>
            get_option_value(read_options(c, file).options, o) = get_option_value(c.options, o)
    BY <2>3, <2>4, <2>5, QuietFile
  <2>8. QED
    BY <1>2, <2>1, <2>2, <2>5, <2>6, <2>7
<1>3. QED
  BY <1>1, <1>2

-------------------------------------------------------------------------------
(* Every step leaves files of lines, and settings and fields of words.     *)

FilesOK(a, b) == a \in Seq(FileLines) \cup {Missing} /\ b \in Seq(FileLines) \cup {Missing}
SettingsOK(s) == s \in [DOMAIN SettingTable -> Words]
FieldsOK(f) == f \in [PanelSettings -> Words]

LEMMA NoFieldsOK == FieldsOK(NoFields)
<1>1. NoText \in Words
  BY SettingsAssumption
<1>2. QED
  BY <1>1 DEF FieldsOK, NoFields

LEMMA NextIsWord ==
  ASSUME NEW q \in Seq(Words), NEW v \in Range(q)
  PROVE  NextOf(q, v) \in Words
<1>1. PICK i : i = CHOOSE k \in DOMAIN q : q[k] = v
  OBVIOUS
<1>2. i \in DOMAIN q /\ q[i] = v
  BY <1>1 DEF Range
<1>3. Len(q) \in Nat /\ DOMAIN q = 1 .. Len(q) /\ \A j \in 1 .. Len(q) : q[j] \in Words
  OBVIOUS
<1>4. i \in 1 .. Len(q) /\ 1 \in 1 .. Len(q) /\ (i # Len(q) => i + 1 \in 1 .. Len(q))
  BY <1>2, <1>3
<1>5. NextOf(q, v) = IF i = Len(q) THEN q[1] ELSE q[i + 1]
  BY <1>1 DEF NextOf
<1>6. QED
  BY <1>3, <1>4, <1>5

LEMMA ValidWords ==
  ASSUME NEW s \in DOMAIN SettingTable
  PROVE  SettingTable[s].values \in Seq(Words) /\ Valid(s) \subseteq Words
<1>1. PICK q : q = SettingTable[s].values
  OBVIOUS
<1>2. q \in Seq(Words)
  BY <1>1, SettingsAssumption
<1>3. Range(q) \subseteq Words
  BY <1>2, OwnSequence
<1>4. QED
  BY <1>1, <1>2, <1>3 DEF Valid

LEMMA ToggledOK ==
  ASSUME FileInv, NEW s
  PROVE  SettingsOK(setting_toggle(s))
<1>1. PICK w : w = setting_enum_next(s, settings[s])
  OBVIOUS
<1>2. settings \in [DOMAIN SettingTable -> Words]
  BY DEF FileInv
<1>3. setting_toggle(s) = settings \/ setting_toggle(s) = [settings EXCEPT ![s] = w]
  BY <1>1 DEF setting_toggle
<1>4. ASSUME s \in DOMAIN SettingTable PROVE w \in Words
  <2>1. CASE settings[s] \notin Valid(s)
    BY <1>1, <2>1, SettingsAssumption DEF setting_enum_next
  <2>2. CASE settings[s] \in Valid(s)
    <3>1. PICK q : q = SettingTable[s].values
      OBVIOUS
    <3>2. q \in Seq(Words) /\ settings[s] \in Range(q)
      BY <1>4, <2>2, <3>1, ValidWords DEF Valid
    <3>3. NextOf(q, settings[s]) \in Words
      BY <3>2, NextIsWord
    <3>4. QED
      BY <1>1, <2>2, <3>1, <3>3 DEF setting_enum_next
  <2>3. QED
    BY <2>1, <2>2
<1>5. [settings EXCEPT ![s] = w] \in [DOMAIN SettingTable -> Words]
  BY <1>2, <1>4
<1>6. QED
  BY <1>2, <1>3, <1>5 DEF SettingsOK

LEMMA UpdatedOK ==
  ASSUME FileInv, ui_settings_update_settings
  PROVE  SettingsOK(settings')
<1>1. \A s \in DOMAIN SettingTable : (IF s \in PanelSettings THEN fields[s] ELSE settings[s]) \in Words
  BY DEF FileInv
<1>2. QED
  BY <1>1 DEF ui_settings_update_settings, SettingsOK

LEMMA FileStep ==
  ASSUME FileInv, MenuInv, [ConfigNext]_configVars
  PROVE  FileInv'
<1>1. FilesOK(rc, old) /\ SettingsOK(settings) /\ FieldsOK(fields)
  BY DEF FileInv, FilesOK, SettingsOK, FieldsOK
<1>2. SUFFICES FilesOK(rc', old') /\ SettingsOK(settings') /\ FieldsOK(fields')
  BY DEF FileInv, FilesOK, SettingsOK, FieldsOK
<1>3. ClosePanel => FieldsOK(fields')
  BY NoFieldsOK DEF ClosePanel
<1>4. EndSave => SettingsOK(settings') /\ FieldsOK(fields')
  BY <1>1, <1>3, UpdatedOK DEF EndSave
<1>5. ASSUME NEW noconfig \in BOOLEAN, Start(noconfig) PROVE SettingsOK(settings')
  <2>1. settings' = init_options(noconfig).settings
    BY <1>5 DEF Start
  <2>2. IsConfig(init_options(noconfig))
    BY StartFacts
  <2>3. QED
    BY <2>1, <2>2 DEF IsConfig, SettingsOK
<1>6. CASE \E noconfig \in BOOLEAN : Start(noconfig)
  <2>1. UNCHANGED <<rc, old, fields>>
    BY <1>6 DEF Start, files, opened
  <2>2. QED
    BY <1>1, <1>5, <1>6, <2>1
<1>7. CASE settings_create
  <2>1. UNCHANGED <<rc, old, settings>> /\ fields' = [s \in PanelSettings |-> settings[s]]
    BY <1>7 DEF settings_create, Rest, files, config
  <2>2. \A s \in PanelSettings : settings[s] \in Words
    BY <1>1, SettingsAssumption DEF SettingsOK
  <2>3. QED
    BY <1>1, <2>1, <2>2 DEF FieldsOK
<1>8. CASE \E s \in PanelSettings : EditField(s)
  <2>1. PICK s \in PanelSettings : EditField(s)
    BY <1>8
  <2>2. PICK v \in Valid(s) \cup {NoText} : fields' = [fields EXCEPT ![s] = v]
    BY <2>1 DEF EditField
  <2>3. v \in Words
    BY <2>2, ValidWords, SettingsAssumption
  <2>4. UNCHANGED <<rc, old, settings>>
    BY <2>1 DEF EditField, Rest, files, config
  <2>5. QED
    BY <1>1, <2>2, <2>3, <2>4 DEF FieldsOK
<1>9. CASE (\E button \in Buttons : SettingsConfirm(button) \/ ColumnsConfirm(button)) \/ PrevScreen
  <2>1. /\ UNCHANGED <<rc, old>> /\ ClosePanel
        /\ settings' = settings \/ ui_settings_update_settings
    BY <1>9 DEF SettingsConfirm, ColumnsConfirm, PrevScreen, Rest, files, config
  <2>2. QED
    BY <1>1, <1>3, <2>1, UpdatedOK
<1>10. CASE \E s \in ToggleSettings : ToggleKey(s)
  <2>1. UNCHANGED <<rc, old, fields>> /\ \E s : settings' = setting_toggle(s)
    BY <1>10 DEF ToggleKey, Rest, files, opened
  <2>2. QED
    BY <1>1, <2>1, ToggledOK
<1>11. CASE SettingsSave \/ ColumnsSave
  <2>1. UNCHANGED <<rc, old, fields, settings>>
    BY <1>11 DEF SettingsSave, ColumnsSave, files, opened, config
  <2>2. QED
    BY <1>1, <2>1
<1>12. CASE column_select_create \/ \E i \in DOMAIN Attributes : MenuSelect(i) \/ \E d \in {-1, 1} : ColumnMove(i, d)
  <2>1. UNCHANGED <<rc, old, fields, settings>>
    BY <1>12 DEF column_select_create, MenuSelect, ColumnMove, Rest, files, config
  <2>2. QED
    BY <1>1, <2>1
<1>13. CASE Unlink \/ Rename \/ OpenFile
  <2>1. UNCHANGED <<fields, settings>>
    BY <1>13 DEF Unlink, Rename, OpenFile, opened
  <2>2. /\ rc' \in {rc, Missing, <<>>}
        /\ old' \in {old, rc, Missing}
    BY <1>13 DEF Unlink, Rename, OpenFile
  <2>3. <<>> \in Seq(FileLines)
    OBVIOUS
  <2>4. QED
    BY <1>1, <2>1, <2>2, <2>3 DEF FilesOK
<1>14. CASE OpenFails
  <2>1. UNCHANGED <<rc, old>> /\ EndSave
    BY <1>14 DEF OpenFails
  <2>2. QED
    BY <1>1, <1>4, <2>1
<1>15. CASE WriteFile
  <2>1. rc' = NewFile /\ old' = old /\ EndSave
    BY <1>15 DEF WriteFile
  <2>2. NewFile \in Seq(FileLines)
    BY NewFileFacts
  <2>3. QED
    BY <1>1, <1>4, <2>1, <2>2 DEF FilesOK
<1>16. CASE Exit \/ Kill
  <2>1. settings' = Defaults.settings /\ ClosePanel /\ old' = old
    BY <1>16 DEF Exit, Kill, Unset
  <2>2. SettingsOK(settings')
    BY <2>1, DefaultConfig DEF IsConfig, SettingsOK
  <2>3. rc' = rc \/ \E n \in 0 .. Len(NewFile) : rc' = SubSeq(NewFile, 1, n)
    BY <1>16 DEF Exit, Kill
  <2>4. rc' \in Seq(FileLines) \cup {Missing}
    <3>1. PICK q : q = NewFile
      OBVIOUS
    <3>2. q \in Seq(FileLines) /\ Len(q) \in Nat
      BY <3>1, NewFileFacts
    <3>3. \A n \in 0 .. Len(q) : SubSeq(q, 1, n) \in Seq(FileLines)
      BY <3>2
    <3>4. QED
      BY <1>1, <2>3, <3>1, <3>3 DEF FilesOK
  <2>5. QED
    BY <1>1, <1>3, <2>1, <2>2, <2>4 DEF FilesOK
<1>17. CASE UNCHANGED configVars
  <2>1. UNCHANGED <<rc, old, fields, settings>>
    BY <1>17 DEF configVars, files, opened, config
  <2>2. QED
    BY <1>1, <2>1
<1>18. QED
  BY <1>6, <1>7, <1>8, <1>9, <1>10, <1>11, <1>12, <1>13, <1>14, <1>15, <1>16, <1>17 DEF ConfigNext

-------------------------------------------------------------------------------
(* Every step leaves the lines in a file.                                  *)

\* What KeptInv says of the lines
KeptAt(c, s, f, o) ==
  /\ s = "open" => f = Missing
  /\ c = "no" /\ s \in {"no", "unlink", "rename"} => Keeps(f)
  /\ c = "no" /\ s \in {"open", "write"} => Keeps(o)
  /\ c = "cut" => s \in {"no", "unlink"} /\ Keeps(o)

LEMMA KeptNext ==
  ASSUME first' = first, writable' = writable, cut' \in {"no", "cut", "again"},
         writable => KeptAt(cut', saving', rc', old')
  PROVE  KeptInv'
BY DEF KeptInv, KeptAt, Keeps, Lines

LEMMA NothingToKeep ==
  ASSUME Keeps(Missing), NEW file
  PROVE  Keeps(file)
BY DEF Keeps, Lines

LEMMA KeptStep ==
  ASSUME SavingInv, MenuInv, [ConfigNext]_configVars
  PROVE  KeptInv' /\ saving' \in SaveSteps
<1>1. /\ cut \in {"no", "cut", "again"} /\ saving \in SaveSteps
      /\ writable => KeptAt(cut, saving, rc, old)
  BY DEF SavingInv, KeptInv, KeptAt
<1>2. ASSUME UNCHANGED <<rc, old, writable, first, cut>>, saving' = saving \/ (saving = "no" /\ saving' = "unlink")
      PROVE  KeptInv' /\ saving' \in SaveSteps
  BY <1>1, <1>2, KeptNext DEF KeptAt, SaveSteps
<1>3. CASE \/ (\E noconfig \in BOOLEAN : Start(noconfig)) \/ SettingsSave \/ ColumnsSave
           \/ settings_create \/ (\E s \in PanelSettings : EditField(s)) \/ PrevScreen
           \/ (\E button \in Buttons : SettingsConfirm(button) \/ ColumnsConfirm(button))
           \/ (\E s \in ToggleSettings : ToggleKey(s)) \/ column_select_create
           \/ (\E i \in DOMAIN Attributes : MenuSelect(i) \/ \E d \in {-1, 1} : ColumnMove(i, d))
           \/ UNCHANGED configVars
  <2>1. ASSUME NEW noconfig, Start(noconfig) PROVE UNCHANGED <<rc, old, writable, first, cut, saving>>
    BY <2>1 DEF Start, files
  <2>2. ASSUME SettingsSave \/ ColumnsSave
        PROVE  UNCHANGED <<rc, old, writable, first, cut>> /\ saving = "no" /\ saving' = "unlink"
    BY <2>2 DEF SettingsSave, ColumnsSave, Handling, BeginSave, files
  <2>3. ASSUME settings_create \/ column_select_create \/ PrevScreen
        PROVE  UNCHANGED <<rc, old, writable, first, cut, saving>>
    BY <2>3 DEF settings_create, column_select_create, PrevScreen, Rest, files
  <2>4. ASSUME NEW b, SettingsConfirm(b) \/ ColumnsConfirm(b) \/ EditField(b) \/ ToggleKey(b) \/ MenuSelect(b)
        PROVE  UNCHANGED <<rc, old, writable, first, cut, saving>>
    BY <2>4 DEF SettingsConfirm, ColumnsConfirm, EditField, ToggleKey, MenuSelect, Rest, files
  <2>5. ASSUME NEW i, NEW d, ColumnMove(i, d) PROVE UNCHANGED <<rc, old, writable, first, cut, saving>>
    BY <2>5 DEF ColumnMove, Rest, files
  <2>6. ASSUME UNCHANGED configVars PROVE UNCHANGED <<rc, old, writable, first, cut, saving>>
    BY <2>6 DEF configVars, files
  <2>7. QED
    BY <1>2, <1>3, <2>1, <2>2, <2>3, <2>4, <2>5, <2>6
<1>4. CASE Unlink
  <2>1. /\ saving = "unlink" /\ saving' = "rename" /\ UNCHANGED <<writable, first, rc>>
        /\ cut' = IF cut = "cut" THEN "again" ELSE cut
    BY <1>4 DEF Unlink, Saving
  <2>2. writable => KeptAt(cut', saving', rc', old')
    BY <1>1, <2>1 DEF KeptAt
  <2>3. QED
    BY <1>1, <2>1, <2>2, KeptNext DEF SaveSteps
<1>5. CASE Rename
  <2>1. /\ saving = "rename" /\ saving' = "open" /\ UNCHANGED <<writable, first, cut>>
        /\ IF writable /\ rc # Missing THEN old' = rc /\ rc' = Missing ELSE UNCHANGED <<rc, old>>
    BY <1>5 DEF Rename, Saving
  <2>2. writable => KeptAt(cut', saving', rc', old')
    BY <1>1, <2>1, NothingToKeep DEF KeptAt
  <2>3. QED
    BY <1>1, <2>1, <2>2, KeptNext DEF SaveSteps
<1>6. CASE OpenFile
  <2>1. saving = "open" /\ saving' = "write" /\ UNCHANGED <<writable, first, cut, old>>
    BY <1>6 DEF OpenFile, Saving
  <2>2. writable => KeptAt(cut', saving', rc', old')
    BY <1>1, <2>1 DEF KeptAt
  <2>3. QED
    BY <1>1, <2>1, <2>2, KeptNext DEF SaveSteps
<1>7. CASE OpenFails
  <2>1. /\ saving = "open" /\ saving' = "no" /\ UNCHANGED <<writable, first, rc, old>>
        /\ cut' = IF cut = "again" THEN "again" ELSE "cut"
    BY <1>7 DEF OpenFails, Saving
  <2>2. writable => KeptAt(cut', saving', rc', old')
    BY <1>1, <2>1 DEF KeptAt
  <2>3. QED
    BY <1>1, <2>1, <2>2, KeptNext DEF SaveSteps
<1>8. writable /\ cut = "no" /\ saving = "write" => Keeps(NewFile)
  BY <1>1, NewFileKeeps DEF KeptAt, SavingInv
<1>9. CASE WriteFile
  <2>1. saving = "write" /\ saving' = "no" /\ UNCHANGED <<writable, first, cut, old>> /\ rc' = NewFile
    BY <1>9 DEF WriteFile, Saving
  <2>2. writable => KeptAt(cut', saving', rc', old')
    BY <1>1, <1>8, <2>1 DEF KeptAt
  <2>3. QED
    BY <1>1, <2>1, <2>2, KeptNext DEF SaveSteps
<1>10. CASE Exit
  <2>1. saving = "no" /\ saving' = "no" /\ UNCHANGED <<rc, old, writable, first, cut>>
    BY <1>10 DEF Exit, Unset
  <2>2. QED
    BY <1>2, <2>1
<1>11. CASE Kill
  <2>1. saving # "no" /\ saving' = "no" /\ UNCHANGED <<writable, first, old>>
    BY <1>11 DEF Kill, Unset
  <2>2. CASE saving = "write"
    <3>1. PICK q : q = NewFile
      OBVIOUS
    <3>2. PICK n \in 0 .. Len(q) : rc' = SubSeq(q, 1, n) /\ cut' = IF cut = "no" /\ n < Len(q) THEN "cut" ELSE cut
      BY <1>11, <2>2, <3>1 DEF Kill
    <3>3. q \in Seq(FileLines) /\ Len(q) \in Nat
      BY <3>1, NewFileFacts DEF SavingInv
    <3>4. n = Len(q) => rc' = q
      BY <3>2, <3>3
    <3>5. ~(n < Len(q)) => n = Len(q)
      BY <3>2, <3>3
    <3>6. cut' = "no" => cut = "no" /\ rc' = q
      BY <3>2, <3>4, <3>5
    <3>7. cut' \in {"no", "cut", "again"} /\ (cut' = "cut" => cut \in {"no", "cut"})
      BY <1>1, <3>2
    <3>8. writable => KeptAt(cut', saving', rc', old')
      BY <1>1, <1>8, <2>1, <2>2, <3>1, <3>6, <3>7 DEF KeptAt
    <3>9. QED
      BY <2>1, <3>7, <3>8, KeptNext DEF SaveSteps
  <2>3. CASE saving # "write"
    <3>1. rc' = rc /\ cut' = IF cut = "no" /\ rc = Missing THEN "cut" ELSE cut
      BY <1>11, <2>3 DEF Kill
    <3>2. saving \in {"unlink", "rename", "open"}
      BY <1>1, <2>1, <2>3 DEF SaveSteps
    <3>3. writable => KeptAt(cut', saving', rc', old')
      BY <1>1, <2>1, <3>1, <3>2, NothingToKeep DEF KeptAt
    <3>4. QED
      BY <1>1, <2>1, <3>1, <3>3, KeptNext DEF SaveSteps
  <2>4. QED
    BY <2>2, <2>3
<1>12. QED
  BY <1>3, <1>4, <1>5, <1>6, <1>7, <1>9, <1>10, <1>11 DEF ConfigNext

LEMMA InitialFiles ==
  ASSUME ConfigInit
  PROVE  SavingInv
<1>1. /\ rc \in UserFiles /\ old = Missing /\ settings = Defaults.settings /\ fields = NoFields
      /\ saving = "no" /\ cut = "no" /\ first = rc
  BY DEF ConfigInit
<1>2. rc \in Seq(FileLines) \cup {Missing}
  BY <1>1, FilesAssumption
<1>3. settings \in [DOMAIN SettingTable -> Words]
  BY <1>1, DefaultConfig DEF IsConfig
<1>4. fields \in [PanelSettings -> Words]
  BY <1>1, NoFieldsOK DEF FieldsOK
<1>5. KeptInv
  BY <1>1 DEF KeptInv, Keeps
<1>6. QED
  BY <1>1, <1>2, <1>3, <1>4, <1>5 DEF SavingInv, FileInv, SaveSteps

LEMMA SavingStep ==
  ASSUME SavingInv, MenuInv, [ConfigNext]_configVars
  PROVE  SavingInv' /\ MenuInv'
<1>1. FileInv'
  BY FileStep DEF SavingInv
<1>2. KeptInv' /\ saving' \in SaveSteps
  BY KeptStep
<1>3. SaveSteps' = SaveSteps
  BY DEF SaveSteps
<1>4. QED
  BY <1>1, <1>2, <1>3, MenuStep DEF SavingInv

LEMMA KeptImplies == SavingInv => LinesKept
<1>1. SUFFICES ASSUME SavingInv, writable, cut # "again", NEW l \in Lines(first), l.type # "set"
               PROVE  l \in Lines(rc) \cup Lines(old)
  BY DEF LinesKept
<1>2. Keeps(rc) \/ Keeps(old)
  BY <1>1 DEF SavingInv, KeptInv, SaveSteps
<1>3. QED
  BY <1>1, <1>2 DEF Keeps

\* A line of the user's file that no panel writes is in the file or in the
\* copy of it at every moment of a save, wherever the program is killed, for
\* any files, settings and columns (ui_settings_save, column_select_save_columns).
THEOREM LinesKeptHolds == ConfigSpec => []LinesKept
<1>1. ConfigInit => SavingInv /\ MenuInv
  BY InitialFiles, InitialMenu
<1>2. SavingInv /\ MenuInv /\ [ConfigNext]_configVars => (SavingInv /\ MenuInv)'
  BY SavingStep
<1>3. SavingInv => LinesKept
  BY KeptImplies
<1>4. QED
  BY <1>1, <1>2, <1>3, PTL DEF ConfigSpec

-------------------------------------------------------------------------------
(* What a save leaves set.                                                 *)

LEMMA LastInAppend ==
  ASSUME NEW S, NEW t \in Seq(S), NEW e \in S, NEW name, NEW v,
         \/ Sets(e, name) /\ e.value = v
         \/ ~Sets(e, name) /\ LastIn(t, Len(t), name, v)
  PROVE  LastIn(Append(t, e), Len(Append(t, e)), name, v)
<1> DEFINE u == Append(t, e)
           n == Len(t)
<1>1. n \in Nat /\ Len(u) = n + 1 /\ u[n + 1] = e /\ \A i \in 1 .. n : u[i] = t[i]
  OBVIOUS
<1> HIDE DEF u, n
<1>2. CASE Sets(e, name) /\ e.value = v
  <2>1. n + 1 \in 1 .. n + 1 /\ \A k \in 1 .. n + 1 : ~(k > n + 1)
    BY <1>1
  <2>2. LastIn(u, n + 1, name, v)
    BY <1>1, <1>2, <2>1 DEF LastIn
  <2>3. QED
    BY <1>1, <2>2 DEF u
<1>3. CASE ~Sets(e, name) /\ LastIn(t, Len(t), name, v)
  <2>1. PICK j \in 1 .. n : /\ Sets(t[j], name) /\ t[j].value = v
                            /\ \A k \in 1 .. n : k > j => ~Sets(t[k], name)
    BY <1>3 DEF LastIn, n
  <2>2. j \in 1 .. n + 1 /\ \A k \in 1 .. n + 1 : k \in 1 .. n \/ k = n + 1
    BY <1>1
  <2>3. \A k \in 1 .. n + 1 : k > j => ~Sets(u[k], name)
    BY <1>1, <1>3, <2>1, <2>2
  <2>4. LastIn(u, n + 1, name, v)
    BY <1>1, <2>1, <2>2, <2>3 DEF LastIn
  <2>5. QED
    BY <1>1, <2>4 DEF u
<1>4. QED
  BY <1>2, <1>3

\* A copy that leaves out none of the lines that set a name
LEMMA LastInCopy ==
  ASSUME NEW S, NEW s \in Seq(S), NEW K, NEW name, NEW v,
         \A j \in 1 .. Len(s) : Sets(s[j], name) => s[j] \in K,
         LastIn(s, Len(s), name, v)
  PROVE  LastIn(CopyIf(s, K), Len(CopyIf(s, K)), name, v)
<1> DEFINE n == Len(s)
<1>1. PICK F : /\ CopyIf(s, K) = F[n]
               /\ F[0] = <<>>
               /\ \A i \in 1 .. n : F[i] = IF s[i] \in K THEN Append(F[i - 1], s[i]) ELSE F[i - 1]
  BY CopyIfSteps
<1>2. n \in Nat /\ <<>> \in Seq(S) /\ \A i \in 1 .. n : s[i] \in S
  OBVIOUS
<1> DEFINE Good == {i \in 0 .. n : /\ F[i] \in Seq(S)
                                   /\ LastIn(s, i, name, v) => LastIn(F[i], Len(F[i]), name, v)}
<1>3. 0 \in Good
  <2>1. ~LastIn(s, 0, name, v)
    BY DEF LastIn
  <2>2. 0 \in 0 .. n /\ F[0] \in Seq(S)
    <3> HIDE DEF n
    <3>1. QED
      BY <1>1, <1>2
  <2>3. QED
    BY <2>1, <2>2
<1>4. ASSUME NEW i \in 1 .. n, i - 1 \in Good PROVE i \in Good
  <2>1. PICK t : t = F[i - 1]
    OBVIOUS
  <2>2. PICK e : e = s[i]
    OBVIOUS
  <2>3. PICK m : m = i - 1
    OBVIOUS
  <2>4. m \in Nat /\ m + 1 = i /\ i \in 0 .. n
    BY <1>2, <2>3
  <2>5. t \in Seq(S) /\ e \in S /\ (LastIn(s, m, name, v) => LastIn(t, Len(t), name, v))
    BY <1>2, <1>4, <2>1, <2>2, <2>3
  <2>6. F[i] = IF e \in K THEN Append(t, e) ELSE t
    BY <1>1, <2>1, <2>2
  <2>7. F[i] \in Seq(S)
    BY <2>5, <2>6
  <2>8. ASSUME LastIn(s, i, name, v) PROVE LastIn(F[i], Len(F[i]), name, v)
    <3>1. LastIn(s, m + 1, name, v)
      BY <2>4, <2>8
    <3>2. \/ Sets(e, name) /\ e.value = v
          \/ ~Sets(e, name) /\ LastIn(s, m, name, v)
      BY <2>2, <2>4, <3>1, LastInStep
    <3>3. \/ Sets(e, name) /\ e.value = v
          \/ ~Sets(e, name) /\ LastIn(t, Len(t), name, v)
      BY <2>5, <3>2
    <3>4. LastIn(Append(t, e), Len(Append(t, e)), name, v)
      BY <2>5, <3>3, LastInAppend
    <3>5. Sets(e, name) => e \in K
      BY <2>2
    <3>6. QED
      BY <2>6, <3>3, <3>4, <3>5
  <2>9. QED
    BY <2>4, <2>7, <2>8
<1>5. n \in Good
  <2> HIDE DEF Good, n
  <2>1. \A i \in 0 .. n : i \in Good
    BY <1>2, <1>3, <1>4, UpTo
  <2>2. QED
    BY <1>2, <2>1
<1>6. QED
  BY <1>1, <1>5

LEMMA LastInBehind ==
  ASSUME NEW S, NEW s \in Seq(S), NEW t \in Seq(S), NEW name, NEW v,
         \/ LastIn(t, Len(t), name, v)
         \/ LastIn(s, Len(s), name, v) /\ \A k \in 1 .. Len(t) : ~Sets(t[k], name)
  PROVE  LastIn(s \o t, Len(s \o t), name, v)
<1> DEFINE u == s \o t
           m == Len(s)
           n == Len(t)
<1>1. /\ m \in Nat /\ n \in Nat /\ Len(u) = m + n
      /\ \A i \in 1 .. m : u[i] = s[i]
      /\ \A i \in 1 .. n : u[m + i] = t[i]
  OBVIOUS
<1> HIDE DEF u, m, n
<1>2. \A k \in 1 .. m + n : k \in 1 .. m \/ (k - m \in 1 .. n /\ m + (k - m) = k)
  BY <1>1
<1>3. CASE LastIn(t, Len(t), name, v)
  <2>1. PICK j \in 1 .. n : /\ Sets(t[j], name) /\ t[j].value = v
                            /\ \A k \in 1 .. n : k > j => ~Sets(t[k], name)
    BY <1>3 DEF LastIn, n
  <2>2. m + j \in 1 .. m + n
    BY <1>1
  <2>3. ASSUME NEW k \in 1 .. m + n, k > m + j PROVE ~Sets(u[k], name)
    <3>1. k - m \in 1 .. n /\ m + (k - m) = k /\ k - m > j
      BY <1>1, <2>3
    <3>2. u[k] = t[k - m]
      BY <1>1, <3>1
    <3>3. QED
      BY <2>1, <3>1, <3>2
  <2>4. LastIn(u, m + n, name, v)
    BY <1>1, <2>1, <2>2, <2>3 DEF LastIn
  <2>5. QED
    BY <1>1, <2>4 DEF u
<1>4. CASE LastIn(s, Len(s), name, v) /\ \A k \in 1 .. Len(t) : ~Sets(t[k], name)
  <2>1. PICK j \in 1 .. m : /\ Sets(s[j], name) /\ s[j].value = v
                            /\ \A k \in 1 .. m : k > j => ~Sets(s[k], name)
    BY <1>4 DEF LastIn, m
  <2>2. j \in 1 .. m + n
    BY <1>1
  <2>3. ASSUME NEW k \in 1 .. m + n, k > j PROVE ~Sets(u[k], name)
    <3>1. CASE k \in 1 .. m
      BY <1>1, <2>1, <2>3, <3>1
    <3>2. CASE k - m \in 1 .. n /\ m + (k - m) = k
      <4>1. u[k] = t[k - m]
        BY <1>1, <3>2
      <4>2. QED
        BY <1>4, <3>2, <4>1 DEF n
    <3>3. QED
      BY <1>2, <3>1, <3>2
  <2>4. LastIn(u, m + n, name, v)
    BY <1>1, <2>1, <2>2, <2>3 DEF LastIn
  <2>5. QED
    BY <1>1, <2>4 DEF u
<1>5. QED
  BY <1>3, <1>4

\* The settings' panel writes the value of each of its settings, once.
LEMMA SettingsWritten ==
  ASSUME FileInv
  PROVE  /\ \A s \in PanelSettings :
              fields[s] # NoText => LastIn(SettingLines, Len(SettingLines), s, fields[s])
         /\ \A k \in 1 .. Len(SettingLines) : SettingLines[k].name \in PanelSettings
<1>1. PICK q : q = SetToSeq(PanelSettings)
  OBVIOUS
<1>2. PICK t : t = SettingLines
  OBVIOUS
<1>3. PICK n : n = Len(q)
  OBVIOUS
<1>4. /\ q \in Seq(PanelSettings) /\ IsInjective(q) /\ Range(q) = PanelSettings
      /\ t \in Seq(FileLines) /\ Len(t) = n
      /\ \A k \in 1 .. n : t[k] = Line("set", q[k], fields[q[k]])
  BY <1>1, <1>2, <1>3, ListedFacts, SettingLinesFacts
<1>5. n \in Nat /\ DOMAIN q = 1 .. n /\ \A k \in 1 .. n : q[k] \in PanelSettings
  BY <1>3, <1>4
<1>6. ASSUME NEW s \in PanelSettings, fields[s] # NoText PROVE LastIn(t, n, s, fields[s])
  <2>1. PICK j \in 1 .. n : q[j] = s
    BY <1>4, <1>5 DEF Range
  <2>2. Sets(t[j], s) /\ t[j].value = fields[s]
    BY <1>4, <1>6, <2>1 DEF Sets, Line
  <2>3. \A k \in 1 .. n : k # j => t[k].name # s
    BY <1>4, <1>5, <2>1 DEF IsInjective, Line
  <2>4. \A k \in 1 .. n : k > j => k # j
    BY <1>5
  <2>5. QED
    BY <2>1, <2>2, <2>3, <2>4 DEF LastIn, Sets
<1>7. \A k \in 1 .. n : t[k].name \in PanelSettings
  BY <1>4, <1>5 DEF Line
<1>8. QED
  BY <1>2, <1>4, <1>6, <1>7

LEMMA OptionOfItem ==
  ASSUME MenuInv, NEW i \in DOMAIN items
  PROVE  i \in DOMAIN ColumnOptions
<1>1. Len(items) = Len(Attributes) \/ items = <<>>
  BY DEF MenuInv
<1>2. DOMAIN items = 1 .. Len(items) /\ (items = <<>> => DOMAIN items = {})
  BY DEF MenuInv
<1>3. QED
  BY <1>1, <1>2, AttributeCount

\* The columns' panel writes the attribute of each item that is on, once.
LEMMA ColumnsWritten ==
  ASSUME MenuInv
  PROVE  /\ \A i \in DOMAIN items :
              items[i].on => LastIn(ColumnLines, Len(ColumnLines), ColumnOptions[i], items[i].attr)
         /\ \A k \in 1 .. Len(ColumnLines) :
              /\ ColumnLines[k].name \in Range(ColumnOptions)
              /\ ColumnLines[k].name \in {ColumnOptions[i] : i \in {j \in DOMAIN items : items[j].on}}
<1>1. PICK q : q = OnPlaces
  OBVIOUS
<1>2. PICK t : t = ColumnLines
  OBVIOUS
<1>3. PICK n : n = Len(q)
  OBVIOUS
<1>4. /\ q \in Seq(DOMAIN items) /\ IsInjective(q) /\ Range(q) = {i \in DOMAIN items : items[i].on}
      /\ t \in Seq(FileLines) /\ Len(t) = n
      /\ \A k \in 1 .. n : t[k] = Line("set", ColumnOptions[q[k]], items[q[k]].attr)
  BY <1>1, <1>2, <1>3, OnPlacesFacts, ColumnLinesFacts
<1>5. n \in Nat /\ DOMAIN q = 1 .. n /\ \A k \in 1 .. n : q[k] \in DOMAIN items /\ q[k] \in DOMAIN ColumnOptions
  BY <1>3, <1>4, OptionOfItem
<1>6. \A i, j \in DOMAIN ColumnOptions : ColumnOptions[i] = ColumnOptions[j] => i = j
  BY ColumnsAssumption DEF IsInjective
<1>7. ASSUME NEW i \in DOMAIN items, items[i].on PROVE LastIn(t, n, ColumnOptions[i], items[i].attr)
  <2>1. PICK j \in 1 .. n : q[j] = i
    BY <1>4, <1>5, <1>7 DEF Range
  <2>2. items[i].attr # NoText
    <3>1. items[i] \in MenuItems
      BY DEF MenuInv
    <3>2. QED
      BY <3>1, AttributeWords DEF MenuItems
  <2>3. Sets(t[j], ColumnOptions[i]) /\ t[j].value = items[i].attr
    BY <1>4, <2>1, <2>2 DEF Sets, Line
  <2>4. \A k \in 1 .. n : k # j => t[k].name # ColumnOptions[i]
    <3>1. \A k \in 1 .. n : k # j => q[k] # i
      BY <1>4, <1>5, <2>1 DEF IsInjective
    <3>2. i \in DOMAIN ColumnOptions
      BY OptionOfItem
    <3>3. QED
      BY <1>4, <1>5, <1>6, <3>1, <3>2 DEF Line
  <2>5. \A k \in 1 .. n : k > j => k # j
    BY <1>5
  <2>6. QED
    BY <2>1, <2>3, <2>4, <2>5 DEF LastIn, Sets
<1>8. \A k \in 1 .. n : /\ t[k].name \in Range(ColumnOptions)
                        /\ t[k].name \in {ColumnOptions[i] : i \in {j \in DOMAIN items : items[j].on}}
  <2>1. \A k \in 1 .. n : t[k].name = ColumnOptions[q[k]] /\ q[k] \in Range(q)
    BY <1>4, <1>5 DEF Line, Range
  <2>2. QED
    BY <1>4, <1>5, <2>1 DEF Range
<1>9. QED
  BY <1>2, <1>4, <1>7, <1>8

-------------------------------------------------------------------------------
(* What a panel saved is what the next start reads.                        *)

\* Lines that set a column which is not one of these
OtherColumns(file, names) == {l \in Lines(file) : IsColumnLine(l) /\ l.name \notin names}

\* A file gives the saved settings and columns their values, and no other
\* column one, but in a line no save recognises.
Restores(file, sets, cols) ==
  /\ \A s \in DOMAIN sets \cap PanelSettings : sets[s] # NoText => LastSet(file, s, sets[s])
  /\ \A o \in DOMAIN cols : LastSet(file, o, cols[o])
  /\ DOMAIN cols # {} => OtherColumns(file, DOMAIN cols) = {}

\* It is the user's file, or its copy while a save writes a new one.
SavedFile == IF saving \in {"open", "write"} THEN old ELSE rc

RestoredInv ==
  /\ saved = [settings |-> saved.settings, columns |-> saved.columns]
  /\ DOMAIN saved.columns \subseteq Range(ColumnOptions)
  /\ status # "running" => saving = "no"
  /\ writable => Restores(SavedFile, saved.settings, saved.columns)
  /\ SavedIsRestored

Keep(l) == IF panel = "settings" THEN KeptBySettings(l) ELSE KeptByColumns(l)

LEMMA CopiedSets ==
  ASSUME FileInv, NEW name, NEW v, LastSet(old, name, v),
         \A l \in FileLines : Sets(l, name) => Keep(l)
  PROVE  LastIn(Copied, Len(Copied), name, v)
<1> DEFINE K == {l \in Lines(old) : Keep(l)}
<1>1. old # Missing /\ old \in Seq(FileLines) /\ Lines(old) = Range(old)
  BY DEF LastSet, FileInv, Lines
<1>2. Copied = CopyIf(old, K)
  BY <1>1 DEF Copied, Keep
<1>3. PICK s : s = old
  OBVIOUS
<1>4. s \in Seq(FileLines) /\ LastIn(s, Len(s), name, v)
  BY <1>1, <1>3 DEF LastSet
<1>5. ASSUME NEW j \in 1 .. Len(s), Sets(s[j], name) PROVE s[j] \in K
  <2>1. s[j] \in FileLines /\ j \in DOMAIN s
    BY <1>4
  <2>2. s[j] \in Range(s)
    BY <2>1 DEF Range
  <2>3. QED
    BY <1>1, <1>3, <1>5, <2>1, <2>2
<1> HIDE DEF K
<1>6. LastIn(CopyIf(s, K), Len(CopyIf(s, K)), name, v)
  BY <1>4, <1>5, LastInCopy
<1>7. QED
  BY <1>2, <1>3, <1>6

\* A value of the old file that the panel does not write, and one it writes
LEMMA NewFileSets ==
  ASSUME FileInv, MenuInv, NEW name, NEW v,
         \/ LastIn(Added, Len(Added), name, v)
         \/ /\ LastSet(old, name, v) /\ \A l \in FileLines : Sets(l, name) => Keep(l)
            /\ \A k \in 1 .. Len(Added) : Added[k].name # name
  PROVE  LastSet(NewFile, name, v)
<1>1. PICK s : s = Copied
  OBVIOUS
<1>2. PICK t : t = Added
  OBVIOUS
<1>3. s \in Seq(FileLines) /\ t \in Seq(FileLines)
  BY <1>1, <1>2, CopiedFacts, AddedFacts
<1>4. \/ LastIn(t, Len(t), name, v)
      \/ LastIn(s, Len(s), name, v) /\ \A k \in 1 .. Len(t) : ~Sets(t[k], name)
  BY <1>1, <1>2, CopiedSets DEF Sets
<1>5. LastIn(s \o t, Len(s \o t), name, v)
  BY <1>3, <1>4, LastInBehind
<1>6. NewFile = s \o t /\ NewFile # Missing
  BY <1>1, <1>2, NewFileParts, NewFileFacts
<1>7. QED
  BY <1>5, <1>6 DEF LastSet

\* The lines of the new file
LEMMA NewFileLines ==
  ASSUME FileInv, MenuInv, NEW l \in Lines(NewFile)
  PROVE  (l \in Lines(old) /\ Keep(l)) \/ \E k \in 1 .. Len(Added) : l = Added[k]
<1>1. PICK s : s = Copied
  OBVIOUS
<1>2. PICK t : t = Added
  OBVIOUS
<1>3. PICK S : S = FileLines
  OBVIOUS
<1>4. s \in Seq(S) /\ t \in Seq(S)
  BY <1>1, <1>2, <1>3, CopiedFacts, AddedFacts
<1>5. Range(s \o t) = Range(s) \cup Range(t)
  BY <1>4, BehindFacts
<1>6. Lines(NewFile) = Range(s \o t)
  BY <1>1, <1>2, NewFileParts, NewFileFacts DEF Lines
<1>7. CASE l \in Range(s)
  BY <1>1, <1>7, CopiedFacts DEF Keep
<1>8. CASE l \in Range(t)
  <2>1. DOMAIN t = 1 .. Len(t)
    BY <1>4
  <2>2. QED
    BY <1>2, <1>8, <2>1 DEF Range
<1>9. QED
  BY <1>5, <1>6, <1>7, <1>8

\* What a panel adds are set lines.
LEMMA AddedSets ==
  ASSUME FileInv, MenuInv, NEW k \in 1 .. Len(Added)
  PROVE  Added[k].type = "set"
<1>0. \A name, value : Line("set", name, value).type = "set"
  BY DEF Line
<1>1. CASE panel = "settings"
  <2>1. Added = SettingLines
    BY <1>1 DEF Added
  <2>2. Len(Added) = Len(SetToSeq(PanelSettings))
    BY <2>1, SettingLinesFacts
  <2>3. \E name, value : Added[k] = Line("set", name, value)
    BY <2>1, <2>2, SettingLinesFacts
  <2>4. QED
    BY <1>0, <2>3
<1>2. CASE panel # "settings"
  <2>1. Added = ColumnLines
    BY <1>2 DEF Added
  <2>2. Len(Added) = Len(OnPlaces)
    BY <2>1, ColumnLinesFacts
  <2>3. \E name, value : Added[k] = Line("set", name, value)
    BY <2>1, <2>2, ColumnLinesFacts
  <2>4. QED
    BY <1>0, <2>3
<1>3. QED
  BY <1>1, <1>2

LEMMA SettingsRestored ==
  ASSUME FileInv, MenuInv, panel = "settings", NEW cols, DOMAIN cols \subseteq Range(ColumnOptions),
         NEW sets, Restores(old, sets, cols), NEW new, \A s \in PanelSettings : new[s] = fields[s]
  PROVE  Restores(NewFile, new, cols)
<1>1. Added = SettingLines
  BY DEF Added
<1>2. ASSUME NEW s \in PanelSettings, new[s] # NoText PROVE LastSet(NewFile, s, new[s])
  <2>1. LastIn(Added, Len(Added), s, new[s])
    BY <1>1, <1>2, SettingsWritten
  <2>2. QED
    BY <2>1, NewFileSets
<1>3. ASSUME NEW o \in DOMAIN cols PROVE LastSet(NewFile, o, cols[o])
  <2>1. LastSet(old, o, cols[o]) /\ o \in Range(ColumnOptions)
    BY DEF Restores
  <2>2. \A l \in FileLines : Sets(l, o) => Keep(l)
    BY <2>1 DEF Sets, Keep, KeptBySettings, IsColumnLine
  <2>3. o \notin PanelSettings
    BY <2>1, SettingsAssumption
  <2>4. \A k \in 1 .. Len(Added) : Added[k].name # o
    BY <1>1, <2>3, SettingsWritten
  <2>5. QED
    BY <2>1, <2>2, <2>4, NewFileSets
<1>4. ASSUME DOMAIN cols # {} PROVE OtherColumns(NewFile, DOMAIN cols) = {}
  <2>1. SUFFICES ASSUME NEW l \in OtherColumns(NewFile, DOMAIN cols) PROVE FALSE
    OBVIOUS
  <2>2. l \in Lines(NewFile) /\ IsColumnLine(l) /\ l.name \notin DOMAIN cols
    BY <2>1 DEF OtherColumns
  <2>3. l \notin Lines(old)
    BY <1>4, <2>2 DEF Restores, OtherColumns
  <2>4. \A k \in 1 .. Len(Added) : Added[k].name \notin Range(ColumnOptions)
    BY <1>1, SettingsWritten, SettingsAssumption
  <2>5. QED
    BY <2>2, <2>3, <2>4, NewFileLines DEF IsColumnLine
<1>5. QED
  BY <1>2, <1>3, <1>4 DEF Restores

LEMMA ColumnsRestored ==
  ASSUME FileInv, MenuInv, panel # "settings", NEW sets, NEW cols, Restores(old, sets, cols), NEW new,
         \A o \in DOMAIN new : \E i \in DOMAIN items :
           items[i].on /\ o = ColumnOptions[i] /\ new[o] = items[i].attr,
         DOMAIN new = {ColumnOptions[i] : i \in {j \in DOMAIN items : items[j].on}}
  PROVE  Restores(NewFile, sets, new)
<1>1. Added = ColumnLines
  BY DEF Added
<1>2. ASSUME NEW o \in DOMAIN new PROVE LastSet(NewFile, o, new[o])
  <2>1. LastIn(Added, Len(Added), o, new[o])
    BY <1>1, ColumnsWritten
  <2>2. QED
    BY <2>1, NewFileSets
<1>3. ASSUME NEW s \in DOMAIN sets \cap PanelSettings, sets[s] # NoText PROVE LastSet(NewFile, s, sets[s])
  <2>1. LastSet(old, s, sets[s])
    BY <1>3 DEF Restores
  <2>2. s \notin Range(ColumnOptions)
    BY SettingsAssumption
  <2>3. \A l \in FileLines : Sets(l, s) => Keep(l)
    BY <2>2 DEF Sets, Keep, KeptByColumns, IsColumnLine
  <2>4. \A k \in 1 .. Len(Added) : Added[k].name # s
    BY <1>1, <2>2, ColumnsWritten
  <2>5. QED
    BY <2>1, <2>3, <2>4, NewFileSets
<1>4. OtherColumns(NewFile, DOMAIN new) = {}
  <2>1. SUFFICES ASSUME NEW l \in OtherColumns(NewFile, DOMAIN new) PROVE FALSE
    OBVIOUS
  <2>2. l \in Lines(NewFile) /\ IsColumnLine(l) /\ l.name \notin DOMAIN new
    BY <2>1 DEF OtherColumns
  <2>3. ~Keep(l)
    BY <2>2 DEF Keep, KeptByColumns, IsColumnLine
  <2>4. \A k \in 1 .. Len(Added) : Added[k].name \in DOMAIN new
    BY <1>1, ColumnsWritten
  <2>5. QED
    BY <2>2, <2>3, <2>4, NewFileLines
<1>5. QED
  BY <1>2, <1>3, <1>4 DEF Restores

\* The columns the columns' panel says it saved
SavedColumns ==
  [o \in {ColumnOptions[i] : i \in {j \in DOMAIN items : items[j].on}} |->
     LET i == CHOOSE i \in DOMAIN items : ColumnOptions[i] = o IN items[i].attr]

LEMMA SavedColumnsFacts ==
  ASSUME MenuInv
  PROVE  /\ DOMAIN SavedColumns = {ColumnOptions[i] : i \in {j \in DOMAIN items : items[j].on}}
         /\ DOMAIN SavedColumns \subseteq Range(ColumnOptions)
         /\ \A o \in DOMAIN SavedColumns : \E i \in DOMAIN items :
              items[i].on /\ o = ColumnOptions[i] /\ SavedColumns[o] = items[i].attr
<1>1. DOMAIN SavedColumns = {ColumnOptions[i] : i \in {j \in DOMAIN items : items[j].on}}
  BY DEF SavedColumns
<1>2. DOMAIN SavedColumns \subseteq Range(ColumnOptions)
  BY <1>1, OptionOfItem DEF Range
<1>3. ASSUME NEW o \in DOMAIN SavedColumns
      PROVE  \E i \in DOMAIN items : items[i].on /\ o = ColumnOptions[i] /\ SavedColumns[o] = items[i].attr
  <2>1. PICK i \in DOMAIN items : items[i].on /\ o = ColumnOptions[i]
    BY <1>1
  <2>2. PICK c : c = CHOOSE k \in DOMAIN items : ColumnOptions[k] = o
    OBVIOUS
  <2>3. c \in DOMAIN items /\ ColumnOptions[c] = o
    BY <2>1, <2>2
  <2>4. c = i
    BY <2>1, <2>3, OptionOfItem, ColumnsAssumption DEF IsInjective
  <2>5. SavedColumns[o] = items[c].attr
    BY <1>1, <2>2 DEF SavedColumns
  <2>6. QED
    BY <2>1, <2>4, <2>5
<1>4. QED
  BY <1>1, <1>2, <1>3

\* The lines that are not set lines are those the user had written.
Inherited == \A l \in Lines(rc) \cup Lines(old) : l.type # "set" => l \in Lines(first)

LEMMA InheritedStep ==
  ASSUME FileInv, MenuInv, Inherited, [ConfigNext]_configVars
  PROVE  Inherited'
<1>1. ASSUME UNCHANGED <<rc, old, first>> PROVE Inherited'
  BY <1>1 DEF Inherited
<1>2. ASSUME NEW l \in Lines(NewFile), l.type # "set" PROVE l \in Lines(first)
  <2>1. l \in Lines(old)
    BY <1>2, NewFileLines, AddedSets
  <2>2. QED
    BY <1>2, <2>1 DEF Inherited
<1>3. ASSUME first' = first, old' \in {old, rc, Missing},
             rc' \in {rc, Missing, <<>>} \/ Lines(rc') \subseteq Lines(NewFile)
      PROVE  Inherited'
  <2>1. Lines(Missing) = {} /\ Lines(<<>>) = {}
    BY DEF Lines, Range
  <2>2. \A l \in Lines(old') : l.type # "set" => l \in Lines(first)
    BY <1>3, <2>1 DEF Inherited
  <2>3. \A l \in Lines(rc') : l.type # "set" => l \in Lines(first)
    BY <1>2, <1>3, <2>1 DEF Inherited
  <2>4. QED
    BY <1>3, <2>2, <2>3 DEF Inherited, Lines
<1>4. CASE \E noconfig \in BOOLEAN : Start(noconfig)
  BY <1>1, <1>4 DEF Start, files
<1>5. CASE \/ SettingsSave \/ ColumnsSave
           \/ settings_create \/ (\E s \in PanelSettings : EditField(s)) \/ PrevScreen
           \/ (\E button \in Buttons : SettingsConfirm(button) \/ ColumnsConfirm(button))
           \/ (\E s \in ToggleSettings : ToggleKey(s)) \/ column_select_create
           \/ (\E i \in DOMAIN Attributes : MenuSelect(i) \/ \E d \in {-1, 1} : ColumnMove(i, d))
  <2>1. ASSUME SettingsSave \/ ColumnsSave \/ settings_create \/ column_select_create \/ PrevScreen
        PROVE  UNCHANGED <<rc, old, first>>
    BY <2>1 DEF SettingsSave, ColumnsSave, settings_create, column_select_create, PrevScreen, Rest, files
  <2>2. ASSUME NEW b, SettingsConfirm(b) \/ ColumnsConfirm(b) \/ EditField(b) \/ ToggleKey(b) \/ MenuSelect(b)
        PROVE  UNCHANGED <<rc, old, first>>
    BY <2>2 DEF SettingsConfirm, ColumnsConfirm, EditField, ToggleKey, MenuSelect, Rest, files
  <2>3. ASSUME NEW i, NEW d, ColumnMove(i, d) PROVE UNCHANGED <<rc, old, first>>
    BY <2>3 DEF ColumnMove, Rest, files
  <2>4. QED
    BY <1>1, <1>5, <2>1, <2>2, <2>3
<1>6. CASE Unlink \/ Rename \/ OpenFile \/ OpenFails
  <2>1. first' = first /\ old' \in {old, rc, Missing} /\ rc' \in {rc, Missing, <<>>}
    BY <1>6 DEF Unlink, Rename, OpenFile, OpenFails, Saving
  <2>2. QED
    BY <1>3, <2>1
<1>7. CASE WriteFile
  <2>1. first' = first /\ old' = old /\ rc' = NewFile
    BY <1>7 DEF WriteFile, Saving
  <2>2. QED
    BY <1>3, <2>1
<1>8. CASE Exit
  BY <1>1, <1>8 DEF Exit, Unset
<1>9. CASE Kill
  <2>1. first' = first /\ old' = old
    BY <1>9 DEF Kill, Unset
  <2>2. CASE saving = "write"
    <3>1. PICK q : q = NewFile
      OBVIOUS
    <3>2. PICK n \in 0 .. Len(q) : rc' = SubSeq(q, 1, n)
      BY <1>9, <2>2, <3>1 DEF Kill
    <3>3. q \in Seq(FileLines) /\ q # Missing
      BY <3>1, NewFileFacts
    <3>4. PICK f : f = SubSeq(q, 1, n)
      OBVIOUS
    <3>5. f \in Seq(FileLines) /\ DOMAIN f = 1 .. n /\ \A i \in 1 .. n : f[i] = q[i] /\ i \in DOMAIN q
      BY <3>2, <3>3, <3>4
    <3>6. f # Missing
      BY <3>5, FilesAssumption
    <3>7. Range(f) \subseteq Range(q)
      BY <3>5 DEF Range
    <3>8. Lines(rc') \subseteq Lines(NewFile)
      BY <3>1, <3>2, <3>3, <3>4, <3>6, <3>7 DEF Lines
    <3>9. QED
      BY <1>3, <2>1, <3>8
  <2>3. CASE saving # "write"
    <3>1. rc' = rc
      BY <1>9, <2>3 DEF Kill
    <3>2. QED
      BY <1>1, <2>1, <3>1
  <2>4. QED
    BY <2>2, <2>3
<1>10. CASE UNCHANGED configVars
  BY <1>1, <1>10 DEF configVars, files
<1>11. QED
  BY <1>4, <1>5, <1>6, <1>7, <1>8, <1>9, <1>10 DEF ConfigNext

LEMMA InitialLines ==
  ASSUME ConfigInit
  PROVE  Inherited
BY DEF ConfigInit, Inherited, Lines

LEMMA StartRestores ==
  ASSUME FileInv, Inherited, RestoredInv, NEW noconfig \in BOOLEAN, Start(noconfig)
  PROVE  SavedIsRestored'
<1>1. PICK c : c = init_options(noconfig)
  OBVIOUS
<1>2. /\ settings' = c.settings /\ options' = c.options /\ UNCHANGED <<writable, saved>>
      /\ status' = IF c.crashed THEN "crashed" ELSE IF noconfig THEN "running" ELSE "fresh"
      /\ saving = "no"
  BY <1>1 DEF Start, files, RestoredInv
<1>3. SUFFICES ASSUME ~noconfig, ~c.crashed, writable PROVE SavedIsRestored'
  BY <1>2 DEF SavedIsRestored
<1>4. /\ \A name \in Words : \A v : LastSet(rc, name, v) => HasValue(c, name, v)
      /\ \A o \in Words \ DOMAIN SettingTable :
           (\A l \in Lines(rc) : Quiet(l, o)) =>
             get_option_value(c.options, o) = get_option_value(read_options(Defaults, SystemLines).options, o)
  BY <1>1, <1>3, StartFacts
<1>5. Restores(rc, saved.settings, saved.columns)
  BY <1>2, <1>3 DEF RestoredInv, SavedFile
<1>6. ASSUME NEW s \in DOMAIN saved.settings \cap PanelSettings, saved.settings[s] # NoText
      PROVE  c.settings[s] = saved.settings[s]
  <2>1. s \in Words /\ s \in DOMAIN SettingTable
    BY SettingsAssumption
  <2>2. LastSet(rc, s, saved.settings[s])
    BY <1>5, <1>6 DEF Restores
  <2>3. HasValue(c, s, saved.settings[s])
    BY <1>4, <2>1, <2>2
  <2>4. QED
    BY <2>1, <2>3 DEF HasValue
<1>7. ASSUME NEW o \in DOMAIN saved.columns
      PROVE  get_option_value(c.options, o) = saved.columns[o]
  <2>1. o \in Words /\ o \notin DOMAIN SettingTable
    BY AttributeWords, SettingsAssumption DEF RestoredInv
  <2>2. LastSet(rc, o, saved.columns[o])
    BY <1>5 DEF Restores
  <2>3. HasValue(c, o, saved.columns[o])
    BY <1>4, <2>1, <2>2
  <2>4. QED
    BY <2>1, <2>3 DEF HasValue
<1>8. ASSUME DOMAIN saved.columns # {}, NEW o \in Range(ColumnOptions) \ DOMAIN saved.columns, KeptFor(o) = {}
      PROVE  get_option_value(c.options, o) = get_option_value(read_options(Defaults, SystemLines).options, o)
  <2>1. o \in Words \ DOMAIN SettingTable
    BY AttributeWords, SettingsAssumption
  <2>2. ASSUME NEW l \in Lines(rc), l.name = o PROVE l.type \notin {"set", "Set", "alias"}
    <3>1. l \notin OtherColumns(rc, DOMAIN saved.columns)
      BY <1>5, <1>8 DEF Restores
    <3>2. l.type # "set"
      BY <1>8, <2>2, <3>1 DEF OtherColumns, IsColumnLine
    <3>3. l \in Lines(first)
      BY <3>2 DEF Inherited
    <3>4. QED
      BY <1>8, <2>2, <3>2, <3>3 DEF KeptFor
  <2>3. QED
    BY <1>4, <2>1, <2>2 DEF Quiet
<1>9. first' = first
  BY DEF Start
<1>10. QED
  BY <1>2, <1>6, <1>7, <1>8, <1>9 DEF SavedIsRestored, KeptFor

LEMMA WriteRestores ==
  ASSUME FileInv, MenuInv, RestoredInv, WriteFile, writable
  PROVE  Restores(NewFile, saved'.settings, saved'.columns)
<1>1. /\ saved = [settings |-> saved.settings, columns |-> saved.columns]
      /\ DOMAIN saved.columns \subseteq Range(ColumnOptions)
      /\ Restores(old, saved.settings, saved.columns)
  BY DEF RestoredInv, SavedFile, WriteFile, Saving
<1>2. CASE panel = "settings"
  <2>1. saved' = [saved EXCEPT !.settings = settings'] /\ ui_settings_update_settings
    BY <1>2 DEF WriteFile, EndSave
  <2>2. saved'.settings = settings' /\ saved'.columns = saved.columns
    BY <1>1, <2>1
  <2>3. \A s \in PanelSettings : settings'[s] = fields[s]
    BY <2>1, SettingsAssumption DEF ui_settings_update_settings
  <2>4. PICK new : new = settings'
    OBVIOUS
  <2>5. Restores(NewFile, new, saved.columns)
    BY <1>1, <1>2, <2>3, <2>4, SettingsRestored
  <2>6. QED
    BY <2>2, <2>4, <2>5
<1>3. CASE panel # "settings"
  <2>1. saved' = [saved EXCEPT !.columns = SavedColumns]
    BY <1>3 DEF WriteFile, SavedColumns
  <2>2. PICK new : new = SavedColumns
    OBVIOUS
  <2>3. saved'.settings = saved.settings /\ saved'.columns = new
    BY <1>1, <2>1, <2>2
  <2>4. Restores(NewFile, saved.settings, new)
    BY <1>1, <1>3, <2>2, SavedColumnsFacts, ColumnsRestored
  <2>5. QED
    BY <2>3, <2>4
<1>4. QED
  BY <1>2, <1>3

\* The parts of RestoredInv a step has to show
RestoredAt(st, sv, w, f, sd) ==
  /\ sd = [settings |-> sd.settings, columns |-> sd.columns]
  /\ DOMAIN sd.columns \subseteq Range(ColumnOptions)
  /\ st # "running" => sv = "no"
  /\ w => Restores(f, sd.settings, sd.columns)

LEMMA RestoredNext ==
  ASSUME RestoredAt(status', saving', writable', SavedFile', saved'), SavedIsRestored'
  PROVE  RestoredInv'
BY DEF RestoredInv, RestoredAt, Restores

LEMMA NothingSaved ==
  /\ [settings |-> <<>>, columns |-> <<>>].settings = <<>> /\ [settings |-> <<>>, columns |-> <<>>].columns = <<>>
  /\ DOMAIN <<>> = {} /\ \A f : Restores(f, <<>>, <<>>)
BY DEF Restores

\* Nothing saved can be lost with a missing file.
LEMMA MissingRestores ==
  ASSUME NEW sets, NEW cols, Restores(Missing, sets, cols), NEW f
  PROVE  Restores(f, sets, cols)
<1>1. DOMAIN cols = {} /\ \A s \in DOMAIN sets \cap PanelSettings : sets[s] = NoText
  BY DEF Restores, LastSet
<1>2. QED
  BY <1>1 DEF Restores

LEMMA RestoredStep ==
  ASSUME FileInv, MenuInv, saving \in SaveSteps, Inherited, RestoredInv, [ConfigNext]_configVars
  PROVE  RestoredInv'
<1>1. RestoredAt(status, saving, writable, SavedFile, saved)
  BY DEF RestoredInv, RestoredAt
<1>2. ASSUME status' # "fresh" PROVE SavedIsRestored'
  BY <1>2 DEF SavedIsRestored
<1>3. ASSUME UNCHANGED <<rc, old, writable, saved>>, saving' = saving \/ (saving = "no" /\ saving' = "unlink"),
             status' = "running"
      PROVE  RestoredInv'
  <2>1. SavedFile' = SavedFile
    BY <1>3 DEF SavedFile
  <2>2. RestoredAt(status', saving', writable', SavedFile', saved')
    BY <1>1, <1>3, <2>1 DEF RestoredAt
  <2>3. QED
    BY <1>2, <1>3, <2>2, RestoredNext
<1>4. CASE \E noconfig \in BOOLEAN : Start(noconfig)
  <2>1. SavedIsRestored'
    BY <1>4, StartRestores
  <2>2. UNCHANGED <<rc, old, writable, saving, saved>> /\ saving = "no"
    BY <1>4 DEF Start, files, RestoredInv
  <2>3. RestoredAt(status', saving', writable', SavedFile', saved')
    BY <1>1, <2>2 DEF RestoredAt, SavedFile
  <2>4. QED
    BY <2>1, <2>3, RestoredNext
<1>5. CASE \/ SettingsSave \/ ColumnsSave
           \/ settings_create \/ (\E s \in PanelSettings : EditField(s)) \/ PrevScreen
           \/ (\E button \in Buttons : SettingsConfirm(button) \/ ColumnsConfirm(button))
           \/ (\E s \in ToggleSettings : ToggleKey(s)) \/ column_select_create
           \/ (\E i \in DOMAIN Attributes : MenuSelect(i) \/ \E d \in {-1, 1} : ColumnMove(i, d))
  <2>2. ASSUME SettingsSave \/ ColumnsSave
        PROVE  UNCHANGED <<rc, old, writable, saved>> /\ saving = "no" /\ saving' = "unlink" /\ status' = "running"
    BY <2>2 DEF SettingsSave, ColumnsSave, Handling, BeginSave, files
  <2>3. ASSUME settings_create \/ column_select_create \/ PrevScreen
        PROVE  UNCHANGED <<rc, old, writable, saved, saving>> /\ status' = "running"
    BY <2>3 DEF settings_create, column_select_create, PrevScreen, Rest, files, Handling
  <2>4. ASSUME NEW b, SettingsConfirm(b) \/ ColumnsConfirm(b) \/ EditField(b) \/ ToggleKey(b) \/ MenuSelect(b)
        PROVE  UNCHANGED <<rc, old, writable, saved, saving>> /\ status' = "running"
    BY <2>4 DEF SettingsConfirm, ColumnsConfirm, EditField, ToggleKey, MenuSelect, Rest, files, Handling
  <2>5. ASSUME NEW i, NEW d, ColumnMove(i, d)
        PROVE  UNCHANGED <<rc, old, writable, saved, saving>> /\ status' = "running"
    BY <2>5 DEF ColumnMove, Rest, files, Handling
  <2>6. QED
    BY <1>3, <1>5, <2>2, <2>3, <2>4, <2>5
<1>6. CASE Unlink
  <2>1. saving = "unlink" /\ saving' = "rename" /\ UNCHANGED <<writable, rc, saved>> /\ status = "running" /\ status' = "running"
    BY <1>6 DEF Unlink, Saving
  <2>2. RestoredAt(status', saving', writable', SavedFile', saved')
    BY <1>1, <2>1 DEF RestoredAt, SavedFile
  <2>3. QED
    BY <1>2, <2>1, <2>2, RestoredNext
<1>7. CASE Rename
  <2>1. /\ saving = "rename" /\ saving' = "open" /\ UNCHANGED <<writable, saved>> /\ status' = "running"
        /\ IF writable /\ rc # Missing THEN old' = rc /\ rc' = Missing ELSE UNCHANGED <<rc, old>>
    BY <1>7 DEF Rename, Saving
  <2>2. SavedFile = rc /\ SavedFile' = old'
    BY <2>1 DEF SavedFile
  <2>3. RestoredAt(status', saving', writable', SavedFile', saved')
    BY <1>1, <2>1, <2>2, MissingRestores DEF RestoredAt
  <2>4. QED
    BY <1>2, <2>1, <2>3, RestoredNext
<1>8. CASE OpenFile
  <2>1. saving = "open" /\ saving' = "write" /\ UNCHANGED <<writable, old, saved>> /\ status = "running" /\ status' = "running"
    BY <1>8 DEF OpenFile, Saving
  <2>2. RestoredAt(status', saving', writable', SavedFile', saved')
    BY <1>1, <2>1 DEF RestoredAt, SavedFile
  <2>3. QED
    BY <1>2, <2>1, <2>2, RestoredNext
<1>9. ASSUME saved' = [settings |-> <<>>, columns |-> <<>>], saving' = "no"
      PROVE  RestoredAt(status', saving', writable', SavedFile', saved')
  BY <1>9, NothingSaved DEF RestoredAt
<1>10. CASE OpenFails
  <2>1. saved' = [settings |-> <<>>, columns |-> <<>>] /\ saving' = "no" /\ status' = "running"
    BY <1>10 DEF OpenFails, Saving
  <2>2. QED
    BY <1>2, <1>9, <2>1, RestoredNext
<1>11. CASE WriteFile
  <2>1. /\ saving = "write" /\ saving' = "no" /\ writable' = writable /\ rc' = NewFile
        /\ status = "running" /\ status' = "running"
    BY <1>11 DEF WriteFile, Saving
  <2>2. SavedFile' = NewFile
    BY <2>1 DEF SavedFile
  <2>3. writable => Restores(NewFile, saved'.settings, saved'.columns)
    BY <1>11, WriteRestores
  <2>4. /\ saved' = [settings |-> saved'.settings, columns |-> saved'.columns]
        /\ DOMAIN saved'.columns \subseteq Range(ColumnOptions)
    <3>1. PICK a : a = saved.settings
      OBVIOUS
    <3>2. PICK b : b = saved.columns
      OBVIOUS
    <3>3. saved = [settings |-> a, columns |-> b] /\ DOMAIN b \subseteq Range(ColumnOptions)
      BY <3>1, <3>2 DEF RestoredInv
    <3>4. \/ saved' = [saved EXCEPT !.settings = settings']
          \/ saved' = [saved EXCEPT !.columns = SavedColumns]
      BY <1>11 DEF WriteFile, SavedColumns
    <3>5. \/ saved' = [settings |-> settings', columns |-> b]
          \/ saved' = [settings |-> a, columns |-> SavedColumns]
      BY <3>3, <3>4
    <3>6. DOMAIN SavedColumns \subseteq Range(ColumnOptions)
      BY SavedColumnsFacts
    <3>7. QED
      BY <3>3, <3>5, <3>6
  <2>5. RestoredAt(status', saving', writable', SavedFile', saved')
    BY <2>1, <2>2, <2>3, <2>4 DEF RestoredAt
  <2>6. QED
    BY <1>2, <2>1, <2>5, RestoredNext
<1>12. CASE Exit
  <2>1. saving = "no" /\ saving' = "no" /\ UNCHANGED <<rc, old, writable, saved>> /\ status' = "stopped"
    BY <1>12 DEF Exit, Unset
  <2>2. RestoredAt(status', saving', writable', SavedFile', saved')
    BY <1>1, <2>1 DEF RestoredAt, SavedFile
  <2>3. QED
    BY <1>2, <2>1, <2>2, RestoredNext
<1>13. CASE Kill
  <2>1. saving # "no" /\ saving' = "no" /\ UNCHANGED <<writable, old>> /\ status' = "stopped"
    BY <1>13 DEF Kill, Unset
  <2>2. CASE saving \in {"unlink", "rename"}
    <3>1. rc' = rc /\ saved' = saved
      BY <1>13, <2>2 DEF Kill
    <3>2. SavedFile' = SavedFile
      BY <2>1, <2>2, <3>1 DEF SavedFile
    <3>3. RestoredAt(status', saving', writable', SavedFile', saved')
      BY <1>1, <2>1, <3>1, <3>2 DEF RestoredAt
    <3>4. QED
      BY <1>2, <2>1, <3>3, RestoredNext
  <2>3. CASE saving \notin {"unlink", "rename"}
    <3>1. saved' = [settings |-> <<>>, columns |-> <<>>]
      BY <1>13, <2>3 DEF Kill
    <3>2. QED
      BY <1>2, <1>9, <2>1, <3>1, RestoredNext
  <2>4. QED
    BY <2>2, <2>3
<1>14. CASE UNCHANGED configVars
  <2>1. UNCHANGED <<rc, old, writable, saved, saving, status, settings, options, first>>
    BY <1>14 DEF configVars, files, config
  <2>2. SavedFile' = SavedFile /\ SavedIsRestored'
    BY <2>1 DEF SavedFile, SavedIsRestored, RestoredInv, KeptFor
  <2>3. RestoredAt(status', saving', writable', SavedFile', saved')
    BY <1>1, <2>1, <2>2 DEF RestoredAt
  <2>4. QED
    BY <2>2, <2>3, RestoredNext
<1>15. QED
  BY <1>4, <1>5, <1>6, <1>7, <1>8, <1>10, <1>11, <1>12, <1>13, <1>14 DEF ConfigNext

LEMMA InitialSaved ==
  ASSUME ConfigInit
  PROVE  RestoredInv
<1>1. saved = [settings |-> <<>>, columns |-> <<>>] /\ status = "stopped" /\ saving = "no"
  BY DEF ConfigInit
<1>2. QED
  BY <1>1, NothingSaved DEF RestoredInv, SavedIsRestored

\* What the panels saved is what the next start reads from the file, and once
\* columns were saved no other column has a value from it, whatever panel saved
\* what, and wherever the program was killed in between, for any files,
\* settings and columns (ui_settings_save, column_select_save_columns,
\* init_options, read_options).
THEOREM SavedIsRestoredHolds == ConfigSpec => []SavedIsRestored
<1>1. ConfigInit => SavingInv /\ MenuInv /\ Inherited /\ RestoredInv
  BY InitialFiles, InitialMenu, InitialLines, InitialSaved
<1>2. SavingInv /\ MenuInv /\ Inherited /\ RestoredInv /\ [ConfigNext]_configVars
        => (SavingInv /\ MenuInv /\ Inherited /\ RestoredInv)'
  BY SavingStep, InheritedStep, RestoredStep DEF SavingInv
<1>3. RestoredInv => SavedIsRestored
  BY DEF RestoredInv
<1>4. QED
  BY <1>1, <1>2, <1>3, PTL DEF ConfigSpec

-------------------------------------------------------------------------------
(* The table of key bindings.                                              *)

\* A row stands for its action, whatever keys it has; the last row has none.
RowOK(i, row) ==
  /\ row = [id |-> RowId(i), bindcnt |-> row.bindcnt, keys |-> row.keys]
  /\ row.bindcnt \in 0 .. MAX_BINDINGS
  /\ i = ACTION_SENTINEL - 1 => row.bindcnt = 0

TableOK(b) == b = [i \in Rows |-> b[i]] /\ \A i \in Rows : RowOK(i, b[i])

LEMMA RowsFacts ==
  /\ Rows = 0 .. 53 /\ Rows \subseteq Int
  /\ \A i \in Rows : RowId(i) \in 0 .. 53
  /\ \A i \in Rows : i # 53 => RowId(i) >= i
  /\ RowId(0) = 0
  /\ \A i \in Rows \ {0} : i # 53 => RowId(i) # RowId(53)
<1>1. Rows = 0 .. 53
  BY DEF Rows, ACTION_SENTINEL
<1>2. /\ ACTION_SHOW_HOSTNAMES = 22 /\ ACTION_AUTOSCROLL = 49 /\ ACTION_TOGGLE_HINT = 48 /\ ACTION_PRINTABLE = 0
  BY DEF ACTION_SHOW_HOSTNAMES, ACTION_AUTOSCROLL, ACTION_TOGGLE_HINT, ACTION_PRINTABLE
<1>3. ASSUME NEW i \in 0 .. 53
      PROVE  /\ i < 22 => RowId(i) = i
             /\ i = 47 => RowId(i) = 49
             /\ i = 48 => RowId(i) = 48
             /\ i = 53 => RowId(i) = 0
             /\ i >= 22 /\ i \notin {47, 48, 53} => RowId(i) = i + 1
  BY <1>2 DEF RowId
<1>4. QED
  BY <1>1, <1>3

LEMMA AddKeyOK ==
  ASSUME NEW i \in Rows, i # ACTION_SENTINEL - 1, NEW row, RowOK(i, row), NEW key
  PROVE  RowOK(i, AddKey(row, key))
<1>1. CASE row.bindcnt = MAX_BINDINGS
  BY <1>1 DEF AddKey
<1>2. CASE row.bindcnt # MAX_BINDINGS
  <2>1. PICK n : n = row.bindcnt
    OBVIOUS
  <2>2. PICK ks : ks = row.keys
    OBVIOUS
  <2>3. row = [id |-> RowId(i), bindcnt |-> n, keys |-> ks] /\ n \in 0 .. MAX_BINDINGS /\ n # MAX_BINDINGS
    BY <1>2, <2>1, <2>2 DEF RowOK
  <2>4. n + 1 \in 0 .. MAX_BINDINGS
    BY <2>3 DEF MAX_BINDINGS
  <2>5. AddKey(row, key) = [row EXCEPT !.keys[n + 1] = key, !.bindcnt = n + 1]
    BY <1>2, <2>1 DEF AddKey
  <2>6. AddKey(row, key) = [id |-> RowId(i), bindcnt |-> n + 1, keys |-> [ks EXCEPT ![n + 1] = key]]
    BY <2>3, <2>5
  <2>7. QED
    BY <2>4, <2>6 DEF RowOK
<1>3. QED
  BY <1>1, <1>2

\* The row an action of a file has
LEMMA RowOfAction ==
  ASSUME NEW b, TableOK(b), NEW action, \E i \in Rows \ {0} : i # ACTION_SENTINEL - 1 /\ action = RowId(i)
  PROVE  /\ key_binding_data(b, action) \in Rows \ {0}
         /\ key_binding_data(b, action) # ACTION_SENTINEL - 1
<1> DEFINE found == {i \in Rows \ {0} : b[i].id = action}
<1>1. PICK a \in Rows \ {0} : a # 53 /\ action = RowId(a)
  BY DEF ACTION_SENTINEL
<1>2. \A i \in Rows : b[i].id = RowId(i)
  BY DEF TableOK, RowOK
<1>3. found \subseteq Nat /\ found # {} /\ found \subseteq Rows \ {0}
  <2>1. a \in found
    BY <1>1, <1>2
  <2>2. \A i \in Rows : i \in Nat
    BY RowsFacts
  <2>3. QED
    BY <2>1, <2>2
<1>4. \E x \in found : \A y \in found : x <= y
  <2> HIDE DEF found
  <2>1. QED
    BY <1>3, NatMin
<1>5. PICK r : r = key_binding_data(b, action)
  OBVIOUS
<1>6. r = CHOOSE i \in found : \A k \in found : i <= k
  BY <1>3, <1>5 DEF key_binding_data
<1>7. r \in found
  <2> HIDE DEF found
  <2>1. QED
    BY <1>4, <1>6
<1>8. r \in Rows \ {0} /\ RowId(r) = action
  BY <1>2, <1>7
<1>9. r # 53
  BY <1>1, <1>8, RowsFacts
<1>10. QED
  BY <1>5, <1>8, <1>9 DEF ACTION_SENTINEL

LEMMA RowPut ==
  ASSUME NEW b, TableOK(b), NEW i \in Rows, NEW row, RowOK(i, row)
  PROVE  TableOK([b EXCEPT ![i] = row])
<1>1. PICK c : c = [b EXCEPT ![i] = row]
  OBVIOUS
<1>2. b = [k \in Rows |-> b[k]]
  BY DEF TableOK
<1>3. c = [k \in Rows |-> IF k = i THEN row ELSE b[k]]
  BY <1>1, <1>2
<1>4. c = [k \in Rows |-> c[k]] /\ \A k \in Rows : c[k] = IF k = i THEN row ELSE b[k]
  BY <1>3
<1>5. \A k \in Rows : RowOK(k, c[k])
  BY <1>4 DEF TableOK
<1>6. QED
  BY <1>1, <1>4, <1>5 DEF TableOK

LEMMA BoundOK ==
  ASSUME NEW b, TableOK(b), NEW action, NEW key,
         \E i \in Rows \ {0} : i # ACTION_SENTINEL - 1 /\ action = RowId(i)
  PROVE  TableOK(key_bind_action(b, action, key))
<1>1. PICK i : i = key_binding_data(b, action)
  OBVIOUS
<1>2. i \in Rows \ {0} /\ i # ACTION_SENTINEL - 1
  BY <1>1, RowOfAction
<1>3. PICK row : row = AddKey(b[i], key)
  OBVIOUS
<1>4. RowOK(i, b[i])
  BY <1>2 DEF TableOK
<1>5. RowOK(i, row)
  BY <1>2, <1>3, <1>4, AddKeyOK
<1>6. key_bind_action(b, action, key) = [b EXCEPT ![i] = row]
  <2>1. i # ERR
    BY <1>2, RowsFacts DEF ERR
  <2>2. QED
    BY <1>1, <1>3, <2>1 DEF key_bind_action
<1>7. i \in Rows
  BY <1>2
<1>8. TableOK([b EXCEPT ![i] = row])
  BY <1>5, <1>7, RowPut
<1>9. QED
  BY <1>6, <1>8

\* The keys that are added again, one after another
KeptAgain(b, action, key, row, n, kept) ==
  /\ key_unbind_action(b, action, key) = [b EXCEPT ![key_binding_data(b, action)] = kept[n]]
  /\ kept[0] = [row EXCEPT !.keys = [k \in 1 .. MAX_BINDINGS |-> NoKey]]
  /\ \A j \in 1 .. n :
       kept[j] = IF row.keys[j] = key THEN kept[j - 1] ELSE AddKey(kept[j - 1], row.keys[j])

LEMMA KeptSteps ==
  ASSUME NEW b, NEW action, NEW key, NEW row, NEW n \in Nat,
         key_binding_data(b, action) # ERR, row = b[key_binding_data(b, action)], n = row.bindcnt
  PROVE  \E kept : KeptAgain(b, action, key, row, n, kept)
<1> DEFINE cleared == [row EXCEPT !.keys = [k \in 1 .. MAX_BINDINGS |-> NoKey]]
           again(f, j) == IF row.keys[j] = key THEN f[j - 1] ELSE AddKey(f[j - 1], row.keys[j])
           upto(f, m) == [j \in 0 .. m |-> IF j = 0 THEN cleared ELSE again(f, j)]
           S == {m \in 0 .. n : \E f : f = upto(f, m)}
           kept == CHOOSE f : f = upto(f, n)
<1>1. key_unbind_action(b, action, key) = [b EXCEPT ![key_binding_data(b, action)] = kept[n]]
  BY DEF key_unbind_action
<1> HIDE DEF cleared
<1>2. 0 \in S
  <2>1. PICK f : f = [j \in 0 .. 0 |-> cleared]
    OBVIOUS
  <2>2. f = upto(f, 0)
    <3>1. \A j \in 0 .. 0 : j = 0
      OBVIOUS
    <3>2. QED
      BY <2>1, <3>1
  <2>3. QED
    BY <2>2
<1>3. ASSUME NEW m \in 1 .. n, m - 1 \in S PROVE m \in S
  <2>1. PICK f : f = upto(f, m - 1)
    BY <1>3
  <2>2. PICK h : h = [j \in 0 .. m |-> IF j < m THEN f[j] ELSE again(f, m)]
    OBVIOUS
  <2>3. m \in Nat /\ m > 0 /\ m - 1 \in 0 .. (m - 1)
    OBVIOUS
  <2>4. ASSUME NEW j \in 0 .. m PROVE h[j] = IF j = 0 THEN cleared ELSE again(h, j)
    <3>1. CASE j = 0
      <4>1. h[j] = f[j] /\ j \in 0 .. (m - 1)
        BY <2>2, <2>3, <3>1
      <4>2. f[j] = IF j = 0 THEN cleared ELSE again(f, j)
        BY <2>1, <4>1
      <4>3. QED
        BY <3>1, <4>1, <4>2
    <3>2. CASE j # 0 /\ j < m
      <4>1. h[j] = f[j] /\ j \in 0 .. (m - 1) /\ h[j - 1] = f[j - 1]
        BY <2>2, <2>3, <3>2
      <4>2. f[j] = IF j = 0 THEN cleared ELSE again(f, j)
        BY <2>1, <4>1
      <4>3. QED
        BY <3>2, <4>1, <4>2
    <3>3. CASE j = m
      <4>1. h[m] = again(f, m) /\ h[m - 1] = f[m - 1]
        BY <2>2, <2>3
      <4>2. QED
        BY <2>3, <3>3, <4>1
    <3>4. QED
      BY <2>3, <3>1, <3>2, <3>3
  <2>5. h = upto(h, m)
    BY <2>2, <2>4
  <2>6. m \in 0 .. n
    OBVIOUS
  <2>7. QED
    BY <2>5, <2>6
<1>4. n \in S
  <2> HIDE DEF S
  <2>1. \A m \in 0 .. n : m \in S
    BY <1>2, <1>3, UpTo
  <2>2. QED
    BY <2>1
<1>5. kept = upto(kept, n)
  <2>1. \E f : f = upto(f, n)
    BY <1>4
  <2>2. QED
    BY <2>1, Zenon
<1> HIDE DEF kept
<1>6. \A j \in 0 .. n : kept[j] = IF j = 0 THEN cleared ELSE again(kept, j)
  BY <1>5
<1>7. kept[0] = cleared /\ \A j \in 1 .. n : kept[j] = again(kept, j)
  <2>1. 0 \in 0 .. n /\ \A j \in 1 .. n : j \in 0 .. n /\ j # 0
    OBVIOUS
  <2> HIDE DEF again
  <2>2. QED
    BY <1>6, <2>1
<1>8. QED
  BY <1>1, <1>7 DEF cleared, KeptAgain

LEMMA UnboundOK ==
  ASSUME NEW b, TableOK(b), NEW action, NEW key,
         \E i \in Rows \ {0} : i # ACTION_SENTINEL - 1 /\ action = RowId(i)
  PROVE  TableOK(key_unbind_action(b, action, key))
<1>1. PICK i : i = key_binding_data(b, action)
  OBVIOUS
<1>2. i \in Rows \ {0} /\ i # ACTION_SENTINEL - 1
  BY <1>1, RowOfAction
<1>3. PICK row : row = b[i]
  OBVIOUS
<1>4. RowOK(i, row)
  BY <1>2, <1>3 DEF TableOK
<1>5. PICK n \in 0 .. MAX_BINDINGS : n = row.bindcnt
  BY <1>4 DEF RowOK
<1>6. n \in Nat /\ i # ERR
  BY <1>2, RowsFacts DEF ERR, MAX_BINDINGS
<1>7. PICK kept : KeptAgain(b, action, key, row, n, kept)
  BY <1>1, <1>3, <1>5, <1>6, KeptSteps
<1> DEFINE S == {j \in 0 .. n : RowOK(i, kept[j])}
<1>8. 0 \in S
  <2>1. PICK none : none = [k \in 1 .. MAX_BINDINGS |-> NoKey]
    OBVIOUS
  <2>2. kept[0] = [row EXCEPT !.keys = none]
    BY <1>7, <2>1 DEF KeptAgain
  <2>3. row = [id |-> RowId(i), bindcnt |-> n, keys |-> row.keys]
    BY <1>4, <1>5 DEF RowOK
  <2>4. kept[0] = [id |-> RowId(i), bindcnt |-> n, keys |-> none]
    BY <2>2, <2>3
  <2>5. RowOK(i, kept[0])
    BY <1>2, <2>4 DEF RowOK
  <2>6. QED
    BY <1>6, <2>5
<1>9. ASSUME NEW j \in 1 .. n, j - 1 \in S PROVE j \in S
  <2>1. RowOK(i, kept[j - 1])
    BY <1>9
  <2>2. PICK k : k = row.keys[j]
    OBVIOUS
  <2>3. RowOK(i, AddKey(kept[j - 1], k))
    BY <1>2, <2>1, AddKeyOK
  <2>4. RowOK(i, kept[j])
    BY <1>7, <2>1, <2>2, <2>3 DEF KeptAgain
  <2>5. j \in 0 .. n
    BY <1>6
  <2>6. QED
    BY <2>4, <2>5
<1>10. n \in S
  <2> HIDE DEF S
  <2>1. \A j \in 0 .. n : j \in S
    BY <1>6, <1>8, <1>9, UpTo
  <2>2. QED
    BY <1>6, <2>1
<1>11. RowOK(i, kept[n])
  BY <1>10
<1>12. PICK new : new = kept[n]
  OBVIOUS
<1>13. i \in Rows /\ RowOK(i, new)
  BY <1>2, <1>11, <1>12
<1>14. TableOK([b EXCEPT ![i] = new])
  BY <1>13, RowPut
<1>15. key_unbind_action(b, action, key) = [b EXCEPT ![i] = new]
  BY <1>1, <1>7, <1>12 DEF KeptAgain
<1>16. QED
  BY <1>14, <1>15

LEMMA DefaultCounts ==
  ASSUME NEW id \in 0 .. 53
  PROVE  Len(DefaultKeys(id)) \in 0 .. MAX_BINDINGS
BY DEF DefaultKeys, MAX_BINDINGS, ACTION_UP, ACTION_DOWN, ACTION_LEFT, ACTION_RIGHT, ACTION_PREV_FIELD,
       ACTION_NEXT_FIELD, ACTION_CLEAR, ACTION_CLEAR_CALLS, ACTION_CLEAR_CALLS_SOFT, ACTION_TOGGLE_SYNTAX,
       ACTION_TOGGLE_PAUSE, ACTION_PREV_SCREEN, ACTION_SHOW_HELP, ACTION_SHOW_RAW, ACTION_SHOW_FLOW,
       ACTION_SHOW_FLOW_EX, ACTION_SHOW_FILTERS, ACTION_SHOW_COLUMNS, ACTION_SHOW_SETTINGS, ACTION_SHOW_STATS,
       ACTION_DISP_FILTER, ACTION_SAVE, ACTION_SELECT, ACTION_CONFIRM, ACTION_SORT_NEXT

LEMMA DefaultTable == TableOK(DefaultBindings)
<1>1. DefaultBindings = [i \in Rows |-> DefaultBindings[i]]
  BY DEF DefaultBindings
<1>2. ASSUME NEW i \in Rows PROVE RowOK(i, DefaultBindings[i])
  <2>1. PICK ks : ks = IF i = 53 THEN <<>> ELSE DefaultKeys(RowId(i))
    OBVIOUS
  <2>2. PICK n : n = Len(ks)
    OBVIOUS
  <2>3. n \in 0 .. MAX_BINDINGS /\ (i = 53 => n = 0)
    <3>1. CASE i = 53
      BY <2>1, <2>2, <3>1 DEF MAX_BINDINGS
    <3>2. CASE i # 53
      BY <2>1, <2>2, <3>2, RowsFacts, DefaultCounts
    <3>3. QED
      BY <3>1, <3>2
  <2>4. PICK keys : keys = [j \in 1 .. MAX_BINDINGS |-> IF j <= n THEN ks[j] ELSE NoKey]
    OBVIOUS
  <2>5. DefaultBindings[i] = [id |-> RowId(i), bindcnt |-> n, keys |-> keys]
    BY <2>1, <2>2, <2>4 DEF DefaultBindings, Row
  <2>6. QED
    BY <2>3, <2>5 DEF RowOK, ACTION_SENTINEL
<1>3. QED
  BY <1>1, <1>2 DEF TableOK

LEMMA ReadLineTable ==
  ASSUME NEW c, IsConfig(c), TableOK(c.bindings), NEW l \in FileLines
  PROVE  TableOK(ReadLine(c, l).bindings)
<1>1. c = [settings |-> c.settings, options |-> c.options, bindings |-> c.bindings, crashed |-> c.crashed]
  BY DEF IsConfig
<1>2. l.type \in LineTypes
  BY DEF FileLines
<1>3. CASE c.crashed \/ l.value = NoText \/ l.type = "#"
  BY <1>3 DEF ReadLine
<1>4. CASE ~(c.crashed \/ l.value = NoText \/ l.type = "#") /\ l.type \notin {"bind", "unbind"}
  <2>1. PICK sets : sets = [c.settings EXCEPT ![l.name] = l.value]
    OBVIOUS
  <2>2. PICK set : set = set_option_value(c.options, l.name, l.value)
    OBVIOUS
  <2>3. PICK alias : alias = set_alias_value(c.options, l.name, l.value)
    OBVIOUS
  <2>4. \/ ReadLine(c, l) = [c EXCEPT !.settings = sets]
        \/ ReadLine(c, l) = [c EXCEPT !.options = set]
        \/ ReadLine(c, l) = [c EXCEPT !.options = alias]
    BY <1>1, <1>2, <1>4, <2>1, <2>2, <2>3 DEF ReadLine, LineTypes
  <2>5. ReadLine(c, l).bindings = c.bindings
    BY <1>1, <2>4
  <2>6. QED
    BY <2>5
<1>5. CASE ~(c.crashed \/ l.value = NoText \/ l.type = "#") /\ l.type \in {"bind", "unbind"}
  <2>1. PICK a : a = key_action_id(l.name)
    OBVIOUS
  <2>2. CASE a = Missing
    <3>1. ReadLine(c, l) = [c EXCEPT !.crashed = TRUE]
      BY <1>5, <2>1, <2>2 DEF ReadLine
    <3>2. ReadLine(c, l).bindings = c.bindings
      BY <1>1, <3>1
    <3>3. QED
      BY <3>2
  <2>3. CASE a # Missing
    <3>1. \E i \in Rows \ {0} : i # ACTION_SENTINEL - 1 /\ a = RowId(i)
      BY <2>1, <2>3, ActionsAssumption DEF key_action_id
    <3>2. PICK bound : bound = key_bind_action(c.bindings, a, l.value)
      OBVIOUS
    <3>3. PICK unbound : unbound = key_unbind_action(c.bindings, a, l.value)
      OBVIOUS
    <3>4. TableOK(bound) /\ TableOK(unbound)
      BY <3>1, <3>2, <3>3, BoundOK, UnboundOK
    <3>5. ReadLine(c, l) = [c EXCEPT !.bindings = bound] \/ ReadLine(c, l) = [c EXCEPT !.bindings = unbound]
      BY <1>5, <2>1, <2>3, <3>2, <3>3 DEF ReadLine
    <3>6. ReadLine(c, l).bindings = bound \/ ReadLine(c, l).bindings = unbound
      BY <1>1, <3>5
    <3>7. QED
      BY <3>4, <3>6
  <2>4. QED
    BY <2>2, <2>3
<1>6. QED
  BY <1>3, <1>4, <1>5

LEMMA ReadTable ==
  ASSUME NEW c, IsConfig(c), TableOK(c.bindings), NEW file \in Seq(FileLines) \cup {Missing}
  PROVE  TableOK(read_options(c, file).bindings)
<1>1. CASE file = Missing
  BY <1>1 DEF read_options
<1>2. CASE file # Missing
  <2>1. file \in Seq(FileLines)
    BY <1>2
  <2> DEFINE n == Len(file)
  <2>2. n \in Nat /\ \A i \in 1 .. n : file[i] \in FileLines
    BY <2>1
  <2>3. PICK read : /\ read_options(c, file) = read[n]
                    /\ read[0] = c
                    /\ \A i \in 1 .. n : read[i] = ReadLine(read[i - 1], file[i])
    BY <2>1, ReadSteps, SMTT(30)
  <2> HIDE DEF n
  <2> DEFINE S == {i \in 0 .. n : IsConfig(read[i]) /\ TableOK(read[i].bindings)}
  <2>4. 0 \in S
    BY <2>2, <2>3
  <2>5. ASSUME NEW i \in 1 .. n, i - 1 \in S PROVE i \in S
    <3>1. PICK d : d = read[i - 1]
      OBVIOUS
    <3>2. PICK l : l = file[i]
      OBVIOUS
    <3>3. IsConfig(d) /\ TableOK(d.bindings) /\ l \in FileLines /\ read[i] = ReadLine(d, l)
      BY <2>2, <2>3, <2>5, <3>1, <3>2
    <3>4. IsConfig(ReadLine(d, l))
      BY <3>3, ReadLineFacts
    <3>5. TableOK(ReadLine(d, l).bindings)
      BY <3>3, ReadLineTable
    <3>6. i \in 0 .. n
      BY <2>2
    <3>7. QED
      BY <3>3, <3>4, <3>5, <3>6
  <2>6. n \in S
    <3> HIDE DEF S
    <3>1. \A i \in 0 .. n : i \in S
      BY <2>2, <2>4, <2>5, UpTo
    <3>2. QED
      BY <2>2, <3>1
  <2>7. QED
    BY <2>3, <2>6
<1>3. QED
  BY <1>1, <1>2

LEMMA StartTable ==
  ASSUME FileInv, NEW noconfig
  PROVE  TableOK(init_options(noconfig).bindings)
<1>1. PICK d : d = Defaults
  OBVIOUS
<1>2. IsConfig(d) /\ TableOK(d.bindings)
  <2>1. d.bindings = DefaultBindings
    BY <1>1 DEF Defaults
  <2>2. QED
    BY <1>1, <2>1, DefaultConfig, DefaultTable
<1>3. PICK c : c = read_options(d, SystemLines)
  OBVIOUS
<1>4. SystemLines \in Seq(FileLines) \cup {Missing} /\ rc \in Seq(FileLines) \cup {Missing}
  BY FilesAssumption DEF FileInv
<1>5. IsConfig(c) /\ TableOK(c.bindings)
  BY <1>2, <1>3, <1>4, ReadFacts, ReadTable
<1>6. PICK file : file = rc
  OBVIOUS
<1>7. TableOK(read_options(c, file).bindings)
  BY <1>4, <1>5, <1>6, ReadTable
<1>8. init_options(noconfig) = IF noconfig THEN d ELSE read_options(c, file)
  BY <1>1, <1>3, <1>6 DEF init_options
<1>9. QED
  BY <1>2, <1>7, <1>8

-------------------------------------------------------------------------------
(* Asking for the actions of a key.                                        *)

\* The row found after a row or an action: it stands for its own action or a
\* later one, so that the walk comes to an end.
Finds(b, key, last, f) ==
  /\ f \in Rows /\ f > last /\ f # 53
  /\ HasKey(b[f], key) \/ f = 0
  /\ \A k \in Rows : k > last /\ HasKey(b[k], key) => f <= k
  /\ key_find_action(b, key, last) = RowId(f)

LEMMA FindFacts ==
  ASSUME NEW b, TableOK(b), NEW key, NEW last \in -1 .. 53
  PROVE  \/ key_find_action(b, key, last) = ERR /\ \A k \in Rows : k > last => ~HasKey(b[k], key)
         \/ \E f : Finds(b, key, last, f)
<1> DEFINE found == {i \in Rows : i > last /\ \/ i = ACTION_PRINTABLE /\ key_is_printable(key)
                                              \/ HasKey(b[i], key)}
<1>1. CASE found = {}
  <2>1. key_find_action(b, key, last) = ERR
    BY <1>1 DEF key_find_action
  <2>2. QED
    BY <1>1, <2>1
<1>2. CASE found # {}
  <2>1. \A i \in Rows : i \in Nat
    BY RowsFacts
  <2>2. found \subseteq Nat
    BY <2>1
  <2>3. PICK f : f = CHOOSE i \in found : \A k \in found : i <= k
    OBVIOUS
  <2>4. f \in found /\ \A k \in found : f <= k
    <3> HIDE DEF found
    <3>1. \E x \in found : \A y \in found : x <= y
      BY <1>2, <2>2, NatMin
    <3>2. QED
      BY <2>3, <3>1
  <2>5. key_find_action(b, key, last) = b[f].id
    BY <1>2, <2>3 DEF key_find_action
  <2>6. f \in Rows /\ f > last /\ (HasKey(b[f], key) \/ f = 0)
    BY <2>4 DEF ACTION_PRINTABLE
  <2>7. RowOK(f, b[f])
    BY <2>6 DEF TableOK
  <2>8. f # 53
    <3>1. b[53].bindcnt = 0 => ~HasKey(b[53], key)
      BY DEF HasKey
    <3>2. QED
      BY <2>6, <2>7, <3>1 DEF RowOK, ACTION_SENTINEL
  <2>9. b[f].id = RowId(f)
    BY <2>7 DEF RowOK
  <2>10. \A k \in Rows : k > last /\ HasKey(b[k], key) => f <= k
    BY <2>4
  <2>11. Finds(b, key, last, f)
    BY <2>5, <2>6, <2>8, <2>9, <2>10 DEF Finds
  <2>12. QED
    BY <2>11
<1>3. QED
  BY <1>1, <1>2

Starts(b) == {ERR} \cup {b[i].id : i \in Rows}

LEMMA StartsFacts ==
  ASSUME NEW b, TableOK(b)
  PROVE  /\ Starts(b) \subseteq -1 .. 53 /\ ERR \in Starts(b) /\ ERR = -1
         /\ \A f \in Rows : RowId(f) \in Starts(b) /\ b[f].id = RowId(f)
<1>1. \A i \in Rows : b[i].id = RowId(i)
  BY DEF TableOK, RowOK
<1>2. \A i \in Rows : RowId(i) \in 0 .. 53
  BY RowsFacts
<1>3. QED
  BY <1>1, <1>2 DEF Starts, ERR

\* One step of the walk
NextMet(b, key, w, last) ==
  LET action == key_find_action(b, key, last) IN IF action = ERR THEN <<>> ELSE <<action>> \o w[action]

LEMMA WalkAhead ==
  ASSUME NEW b, TableOK(b), NEW key, NEW last \in Starts(b), key_find_action(b, key, last) # ERR
  PROVE  /\ key_find_action(b, key, last) \in Starts(b)
         /\ key_find_action(b, key, last) > last
<1>1. last \in -1 .. 53
  BY StartsFacts
<1>2. PICK f : Finds(b, key, last, f)
  BY <1>1, FindFacts
<1>3. f \in Rows /\ f # 53 /\ f > last /\ key_find_action(b, key, last) = RowId(f)
  BY <1>2 DEF Finds
<1>4. RowId(f) \in Starts(b) /\ RowId(f) >= f /\ RowId(f) \in Int /\ f \in Int
  BY <1>3, StartsFacts, RowsFacts
<1>5. QED
  BY <1>1, <1>3, <1>4

LEMMA WalkSteps ==
  ASSUME NEW b, TableOK(b), NEW key
  PROVE  \E w : /\ WalkFrom(b, key, ERR) = w[ERR]
                /\ \A last \in Starts(b) : w[last] = NextMet(b, key, w, last)
<1> DEFINE D == Starts(b)
           eq(g) == [last \in D |-> NextMet(b, key, g, last)]
           S == {m \in 0 .. 55 : \E g : \A last \in D : last >= 54 - m => g[last] = NextMet(b, key, g, last)}
           w == CHOOSE g : g = eq(g)
<1>1. D \subseteq -1 .. 53 /\ ERR \in D
  BY StartsFacts
<1>2. \A last \in D : key_find_action(b, key, last) # ERR =>
        key_find_action(b, key, last) \in D /\ key_find_action(b, key, last) > last
  BY WalkAhead
<1>3. WalkFrom(b, key, ERR) = w[ERR]
  BY DEF WalkFrom, Starts, NextMet
<1> HIDE DEF D, w
<1>4. 0 \in S
  <2>1. \A last \in D : ~(last >= 54 - 0)
    BY <1>1
  <2>2. QED
    BY <2>1
<1>5. ASSUME NEW m \in 1 .. 55, m - 1 \in S PROVE m \in S
  <2>1. PICK g : \A last \in D : last >= 54 - (m - 1) => g[last] = NextMet(b, key, g, last)
    BY <1>5
  <2>2. PICK new : new = NextMet(b, key, g, 54 - m)
    OBVIOUS
  <2>3. PICK h : h = [last \in D |-> IF last = 54 - m THEN new ELSE g[last]]
    OBVIOUS
  <2>4. ASSUME NEW last \in D, last >= 54 - m PROVE h[last] = NextMet(b, key, h, last)
    <3>1. last \in Int /\ m \in Int
      BY <1>1
    <3>2. NextMet(b, key, h, last) = NextMet(b, key, g, last)
      <4>1. CASE key_find_action(b, key, last) = ERR
        BY <4>1 DEF NextMet
      <4>2. CASE key_find_action(b, key, last) # ERR
        <5>1. PICK a : a = key_find_action(b, key, last)
          OBVIOUS
        <5>2. a \in D /\ a > last
          BY <1>2, <4>2, <5>1
        <5>3. a # 54 - m
          BY <1>1, <2>4, <3>1, <5>2
        <5>4. h[a] = g[a]
          BY <2>3, <5>2, <5>3
        <5>5. QED
          BY <4>2, <5>1, <5>4 DEF NextMet
      <4>3. QED
        BY <4>1, <4>2
    <3>3. CASE last = 54 - m
      BY <2>2, <2>3, <3>2, <3>3
    <3>4. CASE last # 54 - m
      <4>1. last >= 54 - (m - 1)
        BY <2>4, <3>1, <3>4
      <4>2. h[last] = g[last]
        BY <2>3, <3>4
      <4>3. QED
        BY <2>1, <3>2, <4>1, <4>2
    <3>5. QED
      BY <3>3, <3>4
  <2>5. m \in 0 .. 55
    OBVIOUS
  <2>6. QED
    BY <2>4, <2>5
<1>6. 55 \in S
  <2> HIDE DEF S
  <2>1. \A m \in 0 .. 55 : m \in S
    BY <1>4, <1>5, UpTo
  <2>2. QED
    BY <2>1
<1>7. PICK g : \A last \in D : last >= -1 => g[last] = NextMet(b, key, g, last)
  <2>1. 54 - 55 = -1
    OBVIOUS
  <2>2. QED
    BY <1>6, <2>1
<1>8. PICK h : h = [last \in D |-> g[last]]
  OBVIOUS
<1>9. ASSUME NEW last \in D PROVE h[last] = NextMet(b, key, h, last)
  <2>1. last >= -1
    BY <1>1
  <2>2. h[last] = NextMet(b, key, g, last)
    BY <1>7, <1>8, <2>1
  <2>3. key_find_action(b, key, last) # ERR =>
          h[key_find_action(b, key, last)] = g[key_find_action(b, key, last)]
    BY <1>2, <1>8
  <2>4. QED
    BY <2>2, <2>3 DEF NextMet
<1>10. h = eq(h)
  BY <1>8, <1>9
<1>11. w = eq(w)
  BY <1>10, Zenon DEF w
<1>12. \A last \in D : w[last] = NextMet(b, key, w, last)
  BY <1>11
<1>13. QED
  BY <1>3, <1>12 DEF D

\* What a walk that goes on from last meets of a row that has the key, unless
\* a row before stands for this row's place or a later one
Meets(b, key, w, last) ==
  /\ w[last] \in Seq(Int)
  /\ \A i \in Rows \ {0} :
       (i > last /\ HasKey(b[i], key)) =>
         \/ \E j \in DOMAIN w[last] : w[last][j] = b[i].id
         \/ \E k \in Rows : k < i /\ b[k].id >= i /\ HasKey(b[k], key)

LEMMA MeetsStep ==
  ASSUME NEW b, TableOK(b), NEW key, NEW w, NEW last \in Starts(b), w[last] = NextMet(b, key, w, last),
         \A a \in Starts(b) : a > last => Meets(b, key, w, a)
  PROVE  Meets(b, key, w, last)
<1>1. last \in -1 .. 53
  BY StartsFacts
<1>2. CASE key_find_action(b, key, last) = ERR
  <2>1. \A k \in Rows : k > last => ~HasKey(b[k], key)
    <3>1. ASSUME NEW f, Finds(b, key, last, f) PROVE FALSE
      BY <1>2, <3>1, RowsFacts DEF Finds, ERR
    <3>2. QED
      BY <1>1, <3>1, FindFacts
  <2>2. w[last] = <<>>
    BY <1>2 DEF NextMet
  <2>3. QED
    BY <2>1, <2>2 DEF Meets
<1>3. CASE key_find_action(b, key, last) # ERR
  <2>1. PICK f : Finds(b, key, last, f)
    BY <1>1, <1>3, FindFacts
  <2>2. PICK a : a = RowId(f)
    OBVIOUS
  <2>3. /\ f \in Rows /\ f # 53 /\ f > last /\ key_find_action(b, key, last) = a
        /\ HasKey(b[f], key) \/ f = 0
        /\ \A k \in Rows : k > last /\ HasKey(b[k], key) => f <= k
    BY <2>1, <2>2 DEF Finds
  <2>4. a \in Starts(b) /\ a >= f /\ a \in Int /\ f \in Int /\ a > last /\ b[f].id = a
    <3>1. a \in Starts(b) /\ b[f].id = a
      BY <2>2, <2>3, StartsFacts
    <3>2. a >= f /\ a \in Int /\ f \in Int
      BY <2>2, <2>3, RowsFacts
    <3>3. a > last
      BY <1>1, <2>3, <3>2
    <3>4. QED
      BY <3>1, <3>2, <3>3
  <2>5. Meets(b, key, w, a)
    BY <2>4
  <2>6. PICK t : t = w[a]
    OBVIOUS
  <2>7. w[last] = <<a>> \o t /\ t \in Seq(Int)
    BY <1>3, <2>3, <2>5, <2>6 DEF NextMet, Meets
  <2>8. /\ w[last] \in Seq(Int) /\ 1 \in DOMAIN w[last] /\ w[last][1] = a
        /\ \A j \in DOMAIN t : j + 1 \in DOMAIN w[last] /\ w[last][j + 1] = t[j]
    <3>1. PICK u : u = <<a>> \o t
      OBVIOUS
    <3>2. a \in Int
      BY <2>4
    <3>3. u \in Seq(Int) /\ Len(u) = Len(t) + 1 /\ Len(t) \in Nat /\ u[1] = a
      BY <2>7, <3>1, <3>2
    <3>4. \A j \in 1 .. Len(t) : u[j + 1] = t[j]
      BY <2>7, <3>1, <3>2
    <3>5. DOMAIN u = 1 .. Len(t) + 1 /\ DOMAIN t = 1 .. Len(t)
      BY <2>7, <3>3
    <3>6. \A j \in DOMAIN t : j + 1 \in DOMAIN u
      BY <3>3, <3>5
    <3>7. QED
      BY <2>7, <3>1, <3>3, <3>4, <3>5, <3>6
  <2>9. ASSUME NEW i \in Rows \ {0}, i > last, HasKey(b[i], key)
        PROVE  \/ \E j \in DOMAIN w[last] : w[last][j] = b[i].id
               \/ \E k \in Rows : k < i /\ b[k].id >= i /\ HasKey(b[k], key)
    <3>1. i \in Int /\ i >= 1 /\ f <= i
      BY <2>3, <2>9, RowsFacts
    <3>2. CASE f = i
      BY <2>4, <2>8, <3>2
    <3>3. CASE f # i /\ a >= i
      <4>1. f < i /\ f # 0
        <5>1. f = 0 => a = 0
          BY <2>2, RowsFacts
        <5>2. QED
          BY <2>4, <3>1, <3>3, <5>1
      <4>2. QED
        BY <2>3, <2>4, <3>3, <4>1
    <3>4. CASE f # i /\ ~(a >= i)
      <4>1. i > a
        BY <2>4, <3>1, <3>4
      <4>2. \/ \E j \in DOMAIN t : t[j] = b[i].id
            \/ \E k \in Rows : k < i /\ b[k].id >= i /\ HasKey(b[k], key)
        BY <2>5, <2>6, <2>9, <4>1 DEF Meets
      <4>3. QED
        BY <2>8, <4>2
    <3>5. QED
      BY <3>2, <3>3, <3>4
  <2>10. QED
    BY <2>8, <2>9 DEF Meets
<1>4. QED
  BY <1>2, <1>3

LEMMA WalkMeets ==
  ASSUME NEW b, TableOK(b), NEW i \in Rows \ {0}, NEW key, HasKey(b[i], key)
  PROVE  \/ \E j \in DOMAIN WalkFrom(b, key, ERR) : WalkFrom(b, key, ERR)[j] = b[i].id
         \/ \E k \in Rows : k < i /\ b[k].id >= i /\ HasKey(b[k], key)
<1>1. PICK w : /\ WalkFrom(b, key, ERR) = w[ERR]
               /\ \A last \in Starts(b) : w[last] = NextMet(b, key, w, last)
  BY WalkSteps
<1> DEFINE S == {m \in 0 .. 55 : \A last \in Starts(b) : last >= 54 - m => Meets(b, key, w, last)}
<1>2. Starts(b) \subseteq -1 .. 53 /\ ERR \in Starts(b) /\ ERR = -1
  BY StartsFacts
<1>3. 0 \in S
  <2>1. \A last \in Starts(b) : ~(last >= 54 - 0)
    BY <1>2
  <2>2. QED
    BY <2>1
<1>4. ASSUME NEW m \in 1 .. 55, m - 1 \in S PROVE m \in S
  <2>1. ASSUME NEW last \in Starts(b), last >= 54 - m PROVE Meets(b, key, w, last)
    <3>1. \A a \in Starts(b) : a > last => a >= 54 - (m - 1)
      BY <1>2, <2>1
    <3>2. \A a \in Starts(b) : a > last => Meets(b, key, w, a)
      BY <1>4, <3>1
    <3>3. QED
      BY <1>1, <3>2, MeetsStep
  <2>2. m \in 0 .. 55
    OBVIOUS
  <2>3. QED
    BY <2>1, <2>2
<1>5. 55 \in S
  <2> HIDE DEF S
  <2>1. \A m \in 0 .. 55 : m \in S
    BY <1>3, <1>4, UpTo
  <2>2. QED
    BY <2>1
<1>6. Meets(b, key, w, ERR)
  <2>1. ERR >= 54 - 55
    BY <1>2
  <2>2. QED
    BY <1>2, <1>5, <2>1
<1>7. i > ERR
  BY <1>2, RowsFacts
<1>8. QED
  BY <1>1, <1>6, <1>7 DEF Meets

LEMMA TableStep ==
  ASSUME FileInv, TableOK(bindings), [ConfigNext]_configVars
  PROVE  TableOK(bindings')
<1>1. ASSUME NEW noconfig \in BOOLEAN, Start(noconfig) PROVE TableOK(bindings')
  <2>1. PICK new : new = init_options(noconfig).bindings
    OBVIOUS
  <2>2. bindings' = new
    BY <1>1, <2>1 DEF Start
  <2>3. TableOK(new)
    BY <2>1, StartTable
  <2>4. QED
    BY <2>2, <2>3
<1>2. ASSUME Exit \/ Kill PROVE TableOK(bindings')
  BY <1>2, DefaultTable DEF Exit, Kill, Unset
<1>3. ASSUME settings_create \/ column_select_create \/ PrevScreen \/ SettingsSave \/ ColumnsSave
             \/ Unlink \/ Rename \/ OpenFile \/ OpenFails \/ WriteFile \/ UNCHANGED configVars
      PROVE  bindings' = bindings
  BY <1>3 DEF settings_create, column_select_create, PrevScreen, SettingsSave, ColumnsSave, config,
              Unlink, Rename, OpenFile, OpenFails, WriteFile, Saving, configVars
<1>4. ASSUME NEW x, EditField(x) \/ SettingsConfirm(x) \/ ColumnsConfirm(x) \/ ToggleKey(x) \/ MenuSelect(x)
      PROVE  bindings' = bindings
  BY <1>4 DEF EditField, SettingsConfirm, ColumnsConfirm, ToggleKey, MenuSelect, config
<1>5. ASSUME NEW i, NEW d, ColumnMove(i, d) PROVE bindings' = bindings
  BY <1>5 DEF ColumnMove, config
<1>6. QED
  BY <1>1, <1>2, <1>3, <1>4, <1>5 DEF ConfigNext

\* Whatever binds and unbinds the files make, a panel that asks for the
\* actions of a key, one after another, comes to an end and meets every row
\* that has the key, but the one whose place an earlier row with the key took
\* (key_find_action).
THEOREM WalkMeetsBindingsHolds == ConfigSpec => []WalkMeetsBindings
<1>1. ConfigInit => SavingInv /\ MenuInv /\ TableOK(bindings)
  BY InitialFiles, InitialMenu, DefaultTable DEF ConfigInit
<1>2. SavingInv /\ MenuInv /\ TableOK(bindings) /\ [ConfigNext]_configVars
        => (SavingInv /\ MenuInv /\ TableOK(bindings))'
  <2>1. SUFFICES ASSUME SavingInv, MenuInv, TableOK(bindings), [ConfigNext]_configVars
                 PROVE  SavingInv' /\ MenuInv' /\ TableOK(bindings')
    BY DEF TableOK, RowOK
  <2>2. QED
    BY <2>1, SavingStep, TableStep DEF SavingInv
<1>3. TableOK(bindings) => WalkMeetsBindings
  BY WalkMeets DEF WalkMeetsBindings, HasKey
<1>4. QED
  BY <1>1, <1>2, <1>3, PTL DEF ConfigSpec
===============================================================================
