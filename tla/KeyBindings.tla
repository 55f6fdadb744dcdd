---------------------------- MODULE KeyBindings ----------------------------
(***************************************************************************)
(* The table of key bindings (src/keybinding.c): which keys an action has, *)
(* how a key is bound and unbound, and how a panel asks for the actions of *)
(* a key, one after another, until it meets one it handles.                *)
(*                                                                         *)
(* Only the keys that several actions share, or that the panels of the     *)
(* model read, are in the table; the others cannot tell anything apart.    *)
(***************************************************************************)
EXTENDS Integers, Sequences, SequencesExt

\* Number of keybindings per action
MAX_BINDINGS == 5

\* enum key_actions, as far as a panel of the model handles it
ACTION_PRINTABLE == 0
ACTION_UP == 1
ACTION_DOWN == 2
ACTION_LEFT == 3
ACTION_RIGHT == 4
ACTION_PREV_FIELD == 13
ACTION_NEXT_FIELD == 14
ACTION_CLEAR == 16
ACTION_CLEAR_CALLS == 17
ACTION_CLEAR_CALLS_SOFT == 18
ACTION_TOGGLE_SYNTAX == 19
ACTION_SHOW_HOSTNAMES == 22
ACTION_TOGGLE_PAUSE == 24
ACTION_PREV_SCREEN == 25
ACTION_SHOW_HELP == 26
ACTION_SHOW_RAW == 27
ACTION_SHOW_FLOW == 28
ACTION_SHOW_FLOW_EX == 29
ACTION_SHOW_FILTERS == 30
ACTION_SHOW_COLUMNS == 31
ACTION_SHOW_SETTINGS == 32
ACTION_SHOW_STATS == 33
ACTION_DISP_FILTER == 37
ACTION_SAVE == 38
ACTION_SELECT == 39
ACTION_CONFIRM == 40
ACTION_TOGGLE_HINT == 48
ACTION_AUTOSCROLL == 49
ACTION_SORT_NEXT == 51
ACTION_SENTINEL == 54

NoKey == "\\0"
ERR == -1
Rows == 0..(ACTION_SENTINEL - 1)

\* The action of a row of the table.  ACTION_SHOW_HOSTNAMES has no row, so
\* every row below is one ahead of its action; two rows stand in each other's
\* place, and the last row was never filled in.
RowId(i) ==
  CASE i < ACTION_SHOW_HOSTNAMES -> i
    [] i = 47 -> ACTION_AUTOSCROLL
    [] i = 48 -> ACTION_TOGGLE_HINT
    [] i = 53 -> ACTION_PRINTABLE
    [] OTHER -> i + 1

\* The keys of the rows that have keys of the model
DefaultKeys(id) ==
  CASE id = ACTION_UP -> <<"Up", "k">>
    [] id = ACTION_DOWN -> <<"Down", "j">>
    [] id = ACTION_LEFT -> <<"Left", "h">>
    [] id = ACTION_RIGHT -> <<"Right", "l">>
    [] id = 10 -> <<"^U", NoKey>>                      \* ACTION_HPPAGE
    [] id = ACTION_PREV_FIELD -> <<"Up">>
    [] id = ACTION_NEXT_FIELD -> <<"Down", "Tab">>
    [] id = ACTION_CLEAR -> <<"^U", "^W">>
    [] id = ACTION_CLEAR_CALLS -> <<"F5", "^L">>
    [] id = ACTION_CLEAR_CALLS_SOFT -> <<"F9", NoKey>>
    [] id = ACTION_TOGGLE_SYNTAX -> <<"F8", "C">>
    [] id = 21 -> <<"s">>                              \* ACTION_COMPRESS
    [] id = ACTION_TOGGLE_PAUSE -> <<"p">>
    [] id = ACTION_PREV_SCREEN -> <<"Esc", "q", "Q">>
    [] id = ACTION_SHOW_HELP -> <<"F1", "h", "H", "?">>
    [] id = ACTION_SHOW_RAW -> <<"F6", "R", "r">>
    [] id = ACTION_SHOW_FLOW -> <<"Enter">>
    [] id = ACTION_SHOW_FLOW_EX -> <<"F4", "x">>
    [] id = ACTION_SHOW_FILTERS -> <<"F7", "f", "F">>
    [] id = ACTION_SHOW_COLUMNS -> <<"F10", "t", "T">>
    [] id = ACTION_SHOW_SETTINGS -> <<"F8", "o", "O">>
    [] id = ACTION_SHOW_STATS -> <<"i">>
    [] id = 36 -> <<"F2", "d">>                        \* ACTION_SDP_INFO
    [] id = ACTION_DISP_FILTER -> <<"F3", "/", "Tab">>
    [] id = ACTION_SAVE -> <<"F2", "s", "S">>
    [] id = ACTION_SELECT -> <<" ">>
    [] id = ACTION_CONFIRM -> <<"Enter">>
    [] id = 41 -> <<"F3", "m">>                        \* ACTION_TOGGLE_MEDIA
    [] id = 43 -> <<"t">>                              \* ACTION_TOGGLE_RAW
    [] id = 46 -> <<"T">>                              \* ACTION_RESET_RAW
    [] id = ACTION_SORT_NEXT -> <<">">>
    [] OTHER -> <<>>

\* keys holds MAX_BINDINGS keys, of which the first bindcnt count
Row(id, keys) ==
  [id |-> id, bindcnt |-> Len(keys),
   keys |-> [j \in 1..MAX_BINDINGS |-> IF j <= Len(keys) THEN keys[j] ELSE NoKey]]

DefaultBindings == [i \in Rows |-> Row(RowId(i), IF i = 53 THEN <<>> ELSE DefaultKeys(RowId(i)))]

Printable == {"k", "j", "h", "l", "C", "s", "p", "q", "Q", "H", "?", "R", "r", "x", "f", "F",
              "t", "T", "o", "O", "i", "d", "/", "S", " ", "m", ">"}

key_is_printable(key) == key \in Printable

-----------------------------------------------------------------------------
(* Reading the table.                                                      *)

\* The row of an action; the first row is never looked at.
key_binding_data(bindings, action) ==
  LET found == {i \in Rows \ {0} : bindings[i].id = action}
  IN  IF found = {} THEN ERR ELSE CHOOSE i \in found : \A k \in found : i <= k

HasKey(row, key) == \E j \in 1..row.bindcnt : row.keys[j] = key

\* The off-by-one a search has that skips the row after the action it
\* starts from.
FindActionLate(bindings, key, start) ==
  LET found == {i \in Rows : i > start + 1 /\ HasKey(bindings[i], key)}
      first == CHOOSE i \in found : \A k \in found : i <= k
  IN  IF found = {} THEN ERR ELSE bindings[first].id

\* The next row after start that has the key; the action it stands for is
\* where the search goes on.
key_find_action(bindings, key, start) ==
  LET found == {i \in Rows : i > start /\ \/ i = ACTION_PRINTABLE /\ key_is_printable(key)
                                          \/ HasKey(bindings[i], key)}
      first == CHOOSE i \in found : \A k \in found : i <= k
  IN  IF found = {} THEN ERR ELSE bindings[first].id

\* The actions a loop over key_find_action meets, from the start on
WalkFrom(bindings, key, start) ==
  LET walk[last \in {start} \cup {bindings[i].id : i \in Rows}] ==
        LET action == key_find_action(bindings, key, last)
        IN  IF action = ERR THEN <<>> ELSE <<action>> \o walk[action]
  IN  walk[start]

\* The first action of a key that is one of those a handler knows
FirstHandled(bindings, key, start, handled) ==
  LET met == SelectSeq(WalkFrom(bindings, key, start), LAMBDA a : a \in handled)
  IN  IF met = <<>> THEN ERR ELSE met[1]

\* The key a panel's footer shows for an action: the second one when the
\* setting asks for it.
key_action_key(bindings, action, alt) ==
  LET row == key_binding_data(bindings, action)
  IN  IF row = ERR THEN NoKey
      ELSE bindings[row].keys[IF alt /\ bindings[row].bindcnt > 1 THEN 2 ELSE 1]

-----------------------------------------------------------------------------
(* Changing the table.                                                     *)

AddKey(row, key) ==
  IF row.bindcnt = MAX_BINDINGS THEN row
  ELSE [row EXCEPT !.keys[row.bindcnt + 1] = key, !.bindcnt = row.bindcnt + 1]

key_bind_action(bindings, action, key) ==
  LET i == key_binding_data(bindings, action)
  IN  IF i = ERR THEN bindings ELSE [bindings EXCEPT ![i] = AddKey(bindings[i], key)]

\* The keys are cleared and the others added again, behind a count that was
\* not cleared with them.
key_unbind_action(bindings, action, key) ==
  LET i == key_binding_data(bindings, action)
      row == bindings[i]
      kept[j \in 0..row.bindcnt] ==
        IF j = 0 THEN [row EXCEPT !.keys = [k \in 1..MAX_BINDINGS |-> NoKey]]
        ELSE IF row.keys[j] = key THEN kept[j - 1] ELSE AddKey(kept[j - 1], row.keys[j])
  IN  IF i = ERR THEN bindings ELSE [bindings EXCEPT ![i] = kept[row.bindcnt]]
=============================================================================
