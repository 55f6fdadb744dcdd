---------------------------- MODULE Configuration ----------------------------
(***************************************************************************)
(* What the user configures: settings (src/setting.c), options, aliases    *)
(* and key bindings read from the resource files when the program starts   *)
(* (src/option.c), and the panels that change and save them                *)
(* (src/curses/ui_settings.c, src/curses/ui_column_select.c).  Saving      *)
(* replaces the user's file in several steps, and the program may be       *)
(* killed between any two of them.                                         *)
(***************************************************************************)
EXTENDS KeyBindings, Vectors

CONSTANTS
  SettingTable,   \* name -> [fmt, value, values]: format, default, values it may be given
  PanelSettings,  \* the settings the settings panel shows
  ToggleSettings, \* the settings a key toggles
  Attributes,     \* names of the attributes a column may show, in the order of their table
  ColumnOptions,  \* "cl.column0", "cl.column1"...: one for each attribute
  DefaultColumns, \* the columns of a list nobody configured
  OtherCase,      \* names of attributes in capitals, or mixed -> the attribute
  ActionNames,    \* name of an action in a resource file -> its action
  UserFiles,      \* contents the user's file may have at first
  SystemLines,    \* lines of the files every user reads before
  WorkingDir,     \* the current directory, default of the setting "savepath"
  Writable,       \* whether the directory of the user's file may be changed
  Missing,        \* no file, or no such name
  MaxEdits,       \* bound on the changes made in the panels and with keys
  MaxSaves,       \* bound on the saves
  MaxStarts       \* bound on the starts of the program

\* A file is a sequence of lines of three words, as far as they count: of the
\* first one, only what the program does with it.
Words == STRING
NoText == ""
LineTypes == {"set", "Set", "alias", "bind", "unbind", "#"}
FileLines == [type : LineTypes, name : Words, value : Words]

ASSUME FilesAssumption ==
  /\ UserFiles \cup {SystemLines} \subseteq Seq(FileLines) \cup {Missing}
  /\ Missing \notin Seq(FileLines)

\* The panel shows settings of the table, and the columns' options are no
\* settings.
ASSUME SettingsAssumption ==
  /\ IsFiniteSet(PanelSettings) /\ PanelSettings \subseteq DOMAIN SettingTable
  /\ DOMAIN SettingTable \cap Range(ColumnOptions) = {}
  /\ {NoText, WorkingDir} \cup DOMAIN SettingTable \subseteq Words
  /\ \A s \in DOMAIN SettingTable : SettingTable[s].value \in Words /\ SettingTable[s].values \in Seq(Words)

\* Every attribute has a name and an option of its own.
ASSUME ColumnsAssumption ==
  /\ Attributes \in Seq(Words \ {NoText}) /\ IsInjective(Attributes)
  /\ ColumnOptions \in Seq(Words) /\ IsInjective(ColumnOptions)
  /\ Len(ColumnOptions) = Len(Attributes)
  /\ DefaultColumns \in Seq(Range(Attributes)) /\ Len(DefaultColumns) <= Len(Attributes)
  /\ OtherCase \in [DOMAIN OtherCase -> Range(Attributes)]
  /\ DOMAIN OtherCase \subseteq Words \ ({NoText} \cup Range(Attributes))

\* The names are those of the rows from the second to the last but one.
ASSUME ActionsAssumption ==
  \A name \in DOMAIN ActionNames : \E i \in Rows \ {0} : i # ACTION_SENTINEL - 1 /\ ActionNames[name] = RowId(i)

VARIABLES
  status,    \* "stopped", "fresh" (the files were read and nothing done since), "running", "crashed"
  settings, options, bindings,
  columns,   \* columns of the call list
  rc, old,   \* the user's file and the copy a save keeps of it, sequences of lines or Missing
  writable,
  panel,     \* "list", "settings", "columns"
  fields,    \* what the settings panel shows
  items,     \* the items of the columns panel, [attr, on]
  saving,    \* what a save does next: "no", "unlink", "rename", "open", "write"
  edits, saves, starts,
  first,     \* the user's file as it was before the first start
  saved,     \* what the last complete saves wrote: [settings, columns]
  cut        \* "no"; "cut": a save left an incomplete file; "again": and another save began

files == <<rc, old, writable>>
config == <<settings, options, bindings, columns>>
opened == <<panel, fields, items>>
configVars == <<status, config, files, opened, saving, edits, saves, starts, first, saved, cut>>

\* Where Enter is pressed in a panel
Buttons == {"body", "accept", "save", "cancel"}

-----------------------------------------------------------------------------
(* Settings and options.                                                   *)

Valid(s) == Range(SettingTable[s].values)

NextOf(seq, v) ==
  LET i == CHOOSE i \in DOMAIN seq : seq[i] = v
  IN  IF i = Len(seq) THEN seq[1] ELSE seq[i + 1]

\* The value after a value; a value that is not in the list, or is empty,
\* has none.
setting_enum_next(s, v) == IF v \notin Valid(s) THEN NoText ELSE NextOf(SettingTable[s].values, v)

setting_toggle(s) ==
  IF SettingTable[s].fmt # "enum" THEN settings
  ELSE [settings EXCEPT ![s] = setting_enum_next(s, @)]

get_option_value(opts, name) ==
  LET i == SelectInSeq(opts, LAMBDA o : o.opt = name) IN IF i = 0 THEN NoText ELSE opts[i].value

\* Aliases are kept among the options, and an option's name is looked up
\* among both.
set_option_value(opts, name, value) ==
  IF get_option_value(opts, name) = NoText THEN Append(opts, [type |-> "column", opt |-> name, value |-> value])
  ELSE [i \in DOMAIN opts |-> IF opts[i].opt = name THEN [opts[i] EXCEPT !.value = value] ELSE opts[i]]

set_alias_value(opts, address, alias) ==
  Append(opts, [type |-> "alias", opt |-> address, value |-> alias])

\* The first alias of an address, or the address
get_alias_value(opts, address) ==
  LET i == SelectInSeq(opts, LAMBDA o : o.type = "alias" /\ o.opt = address)
  IN  IF i = 0 THEN address ELSE opts[i].value

-----------------------------------------------------------------------------
(* Reading the resource files.                                             *)

Line(type, name, value) == [type |-> type, name |-> name, value |-> value]

\* The id of an action; a name no row has is compared with the missing name
\* of the last row, which ends the program.
key_action_id(name) == IF name \in DOMAIN ActionNames THEN ActionNames[name] ELSE Missing

\* A line counts when it has three words.  Its first word is compared without
\* regard to case: "Set" stands for a set line in any other spelling, and "#"
\* for every line that is none of these.
ReadLine(c, l) ==
  IF c.crashed \/ l.value = NoText \/ l.type = "#" THEN c
  ELSE CASE l.type \in {"set", "Set"} ->
              IF l.name \in DOMAIN SettingTable THEN [c EXCEPT !.settings[l.name] = l.value]
              ELSE [c EXCEPT !.options = set_option_value(@, l.name, l.value)]
         [] l.type = "alias" -> [c EXCEPT !.options = set_alias_value(@, l.name, l.value)]
         [] l.type \in {"bind", "unbind"} ->
              LET action == key_action_id(l.name)
              IN  IF action = Missing THEN [c EXCEPT !.crashed = TRUE]
                  ELSE IF l.type = "bind" THEN [c EXCEPT !.bindings = key_bind_action(@, action, l.value)]
                  ELSE [c EXCEPT !.bindings = key_unbind_action(@, action, l.value)]

read_options(c, file) ==
  LET read[i \in 0..Len(file)] == IF i = 0 THEN c ELSE ReadLine(read[i - 1], file[i])
  IN  IF file = Missing THEN c ELSE read[Len(file)]

Defaults ==
  [settings |-> [s \in DOMAIN SettingTable |->
                   IF s = "savepath" THEN WorkingDir ELSE SettingTable[s].value],
   options |-> [i \in DOMAIN DefaultColumns |->
                  [type |-> "column", opt |-> ColumnOptions[i], value |-> DefaultColumns[i]]],
   bindings |-> DefaultBindings, crashed |-> FALSE]

init_options(noconfig) ==
  IF noconfig THEN Defaults ELSE read_options(read_options(Defaults, SystemLines), rc)

\* Names are looked up in the table of the attributes without regard to case.
AttributeNames == Range(Attributes) \cup DOMAIN OtherCase
sip_attr_from_name(name) == IF name \in DOMAIN OtherCase THEN OtherCase[name] ELSE name

\* The columns the options name, as the options spell them, those of unknown
\* attributes left out
call_list_columns(opts) ==
  CopyIf([i \in DOMAIN ColumnOptions |-> get_option_value(opts, ColumnOptions[i])], AttributeNames)

Start(noconfig) ==
  /\ status = "stopped" /\ starts < MaxStarts
  /\ starts' = starts + 1
  /\ LET c == init_options(noconfig)
     IN  /\ settings' = c.settings /\ options' = c.options /\ bindings' = c.bindings
         /\ columns' = call_list_columns(c.options)
         /\ status' = IF c.crashed THEN "crashed" ELSE IF noconfig THEN "running" ELSE "fresh"
  /\ UNCHANGED <<files, opened, saving, edits, saves, first, saved, cut>>

-----------------------------------------------------------------------------
(* The settings panel.                                                     *)

Handling(p) == status \in {"fresh", "running"} /\ saving = "no" /\ panel = p /\ status' = "running"
Rest == UNCHANGED <<files, saves, starts, first, saved, cut>>

\* Counts a change, or does not.
Edit == edits < MaxEdits /\ edits' = edits + 1
NoEdit == UNCHANGED edits

settings_create ==
  /\ Handling("list")
  /\ panel' = "settings"
  /\ fields' = [s \in PanelSettings |-> settings[s]]
  /\ UNCHANGED <<config, items, saving>> /\ Rest /\ NoEdit

\* A field of a list of values goes to the next one, and an empty one to the
\* first, in either direction; into the others the user types.
EditField(s) ==
  /\ Handling("settings")
  /\ \E v \in Valid(s) \cup {NoText} :
       /\ SettingTable[s].fmt = "enum" =>
            v = IF fields[s] = NoText THEN SettingTable[s].values[1]
                ELSE IF fields[s] \notin Valid(s) THEN fields[s]
                ELSE NextOf(SettingTable[s].values, fields[s])
       /\ fields' = [fields EXCEPT ![s] = v]
  /\ UNCHANGED <<config, panel, items, saving>> /\ Rest /\ Edit

\* The panel is destroyed, and what it showed with it.
NoFields == [s \in PanelSettings |-> NoText]
ClosePanel == panel' = "list" /\ fields' = NoFields /\ items' = <<>>

ui_settings_update_settings ==
  settings' = [s \in DOMAIN SettingTable |-> IF s \in PanelSettings THEN fields[s] ELSE settings[s]]

\* Which field has the focus is the user's choice.  Every button of the panel, the one that cancels too, takes the fields over.
SettingsConfirm(button) ==
  /\ Handling("settings") /\ button # "save"
  /\ ui_settings_update_settings /\ ClosePanel
  /\ UNCHANGED <<options, bindings, columns, saving>> /\ Rest /\ NoEdit

BeginSave == saves < MaxSaves /\ saves' = saves + 1 /\ saving' = "unlink"

SettingsSave ==
  /\ Handling("settings") /\ BeginSave
  /\ UNCHANGED <<config, files, opened, edits, starts, first, saved, cut>>

\* Esc, handled by the panel manager
PrevScreen ==
  /\ panel # "list" /\ Handling(panel) /\ ClosePanel
  /\ UNCHANGED <<config, saving>> /\ Rest /\ NoEdit

\* Keys of the panel manager, with any panel open
ToggleKey(s) ==
  /\ Handling(panel) /\ settings' = setting_toggle(s)
  /\ UNCHANGED <<options, bindings, columns, opened, saving>> /\ Rest /\ Edit

-----------------------------------------------------------------------------
(* The columns panel.                                                      *)

\* A move that forgets the item it displaces
MoveOver(its, i, pos) ==
  IF pos = Len(its) + 1 \/ pos < 1 THEN its ELSE [its EXCEPT ![pos] = its[i]]

\* The item changes places with the one at its destination.
column_select_move_item(its, i, pos) ==
  IF pos = Len(its) + 1 \/ pos < 1 THEN its ELSE [its EXCEPT ![i] = its[pos], ![pos] = its[i]]

column_select_toggle_item(its, i) == [its EXCEPT ![i].on = ~its[i].on]

\* One column of the list: the item spelled like it, if there is one, is
\* marked and moved to its place.
ShowColumn(its, column) ==
  LET i == SelectInSeq(its, LAMBDA it : it.attr = columns[column])
  IN  IF i = 0 THEN its ELSE column_select_move_item(column_select_toggle_item(its, i), i, column)

column_select_create ==
  /\ Handling("list")
  /\ panel' = "columns"
  /\ LET shown[k \in 0..Len(columns)] ==
           IF k = 0 THEN [i \in DOMAIN Attributes |-> [attr |-> Attributes[i], on |-> FALSE]]
           ELSE ShowColumn(shown[k - 1], k)
     IN  items' = shown[Len(columns)]
  /\ UNCHANGED <<config, fields, saving>> /\ Rest /\ NoEdit

MenuSelect(i) ==
  /\ Handling("columns") /\ items' = column_select_toggle_item(items, i)
  /\ UNCHANGED <<config, panel, fields, saving>> /\ Rest /\ Edit

\* + and - move the current item.
ColumnMove(i, d) ==
  /\ Handling("columns") /\ i + d \in DOMAIN items
  /\ items' = column_select_move_item(items, i, i + d)
  /\ UNCHANGED <<config, panel, fields, saving>> /\ Rest /\ Edit

Shown(its) ==
  LET on == CopyIf(its, {it \in Range(its) : it.on}) IN [i \in DOMAIN on |-> on[i].attr]

column_select_update_columns == columns' = Shown(items)

ColumnsConfirm(button) ==
  /\ Handling("columns") /\ button # "save"
  /\ IF button = "cancel" THEN UNCHANGED columns ELSE column_select_update_columns
  /\ ClosePanel
  /\ UNCHANGED <<settings, options, bindings, saving>> /\ Rest /\ NoEdit

ColumnsSave ==
  /\ Handling("columns") /\ BeginSave
  /\ column_select_update_columns
  /\ UNCHANGED <<settings, options, bindings, files, opened, edits, starts, first, saved, cut>>

-----------------------------------------------------------------------------
(* Saving, by either panel: the file is renamed, made anew, and its lines  *)
(* are copied from the renamed one.                                        *)

Saving(step, next) ==
  /\ status = "running" /\ saving = step /\ saving' = next
  /\ UNCHANGED <<status, options, bindings, columns, writable, edits, saves, starts, first>>

Unlink ==
  /\ Saving("unlink", "rename")
  /\ old' = IF writable THEN Missing ELSE old
  /\ cut' = IF cut = "cut" THEN "again" ELSE cut
  /\ UNCHANGED <<settings, rc, opened, saved>>

\* A renaming whose copy is removed
RenameAway == Saving("rename", "open") /\ rc' = Missing /\ old' = Missing
              /\ UNCHANGED <<settings, opened, saved, cut>>

Rename ==
  /\ Saving("rename", "open")
  /\ IF writable /\ rc # Missing THEN old' = rc /\ rc' = Missing ELSE UNCHANGED <<rc, old>>
  /\ UNCHANGED <<settings, opened, saved, cut>>

\* What ends a save of the settings: the panel's values are taken over.
EndSave ==
  /\ IF panel = "settings" THEN ui_settings_update_settings ELSE UNCHANGED settings
  /\ ClosePanel

OpenFile ==
  /\ writable \/ rc # Missing
  /\ Saving("open", "write") /\ rc' = <<>>
  /\ UNCHANGED <<settings, old, opened, saved, cut>>

\* The settings panel does not tell, the columns panel does.
OpenFails ==
  /\ Saving("open", "no") /\ rc = Missing /\ EndSave
  /\ saved' = [settings |-> <<>>, columns |-> <<>>]
  /\ cut' = IF cut = "again" THEN "again" ELSE "cut"
  /\ UNCHANGED <<rc, old>>

IsColumnLine(l) == l.type = "set" /\ l.name \in Range(ColumnOptions)

Lines(file) == IF file = Missing THEN {} ELSE Range(file)

\* The lines a save keeps of the old file
KeptBySettings(l) == l.type # "set" \/ IsColumnLine(l)

\* The columns' save with the test of the settings' one
KeptNoSet(l) == l.type # "set"

KeptByColumns(l) == l.type # "set" \/ ~IsColumnLine(l)

SettingLines == [i \in 1..Len(SetToSeq(PanelSettings)) |->
                   Line("set", SetToSeq(PanelSettings)[i], fields[SetToSeq(PanelSettings)[i]])]

\* A column is saved under the place of its item in the menu.
ColumnLines ==
  LET on == CopyIf([i \in DOMAIN items |-> i], {i \in DOMAIN items : items[i].on})
  IN  [k \in DOMAIN on |-> Line("set", ColumnOptions[on[k]], items[on[k]].attr)]

NewFile ==
  LET kept == {l \in Lines(old) : IF panel = "settings" THEN KeptBySettings(l) ELSE KeptByColumns(l)}
  IN  (IF old = Missing THEN <<>> ELSE CopyIf(old, kept))
        \o (IF panel = "settings" THEN SettingLines ELSE ColumnLines)

WriteFile ==
  /\ Saving("write", "no")
  /\ rc' = NewFile /\ EndSave
  /\ saved' = IF panel = "settings" THEN [saved EXCEPT !.settings = settings']
              ELSE [saved EXCEPT !.columns =
                      [o \in {ColumnOptions[i] : i \in {j \in DOMAIN items : items[j].on}} |->
                         LET i == CHOOSE i \in DOMAIN items : ColumnOptions[i] = o IN items[i].attr]]
  /\ UNCHANGED <<old, cut>>

-----------------------------------------------------------------------------
(* The end of the program, by the user or by a signal.                     *)

\* Nothing is left of the process.
Unset ==
  /\ settings' = Defaults.settings /\ options' = <<>> /\ bindings' = DefaultBindings /\ columns' = <<>>
  /\ ClosePanel /\ saving' = "no" /\ status' = "stopped"
  /\ UNCHANGED <<writable, edits, saves, starts, first>>

Exit ==
  /\ status \in {"fresh", "running"} /\ saving = "no" /\ panel = "list"
  /\ Unset /\ UNCHANGED <<rc, old, saved, cut>>

\* Killed in a save: of what was written, any part may have reached the file.
Kill ==
  /\ status = "running" /\ saving # "no" /\ Unset
  /\ IF saving = "write"
     THEN \E n \in 0..Len(NewFile) :
            /\ rc' = SubSeq(NewFile, 1, n)
            /\ cut' = IF cut = "no" /\ n < Len(NewFile) THEN "cut" ELSE cut
     ELSE /\ rc' = rc
          /\ cut' = IF cut = "no" /\ rc = Missing THEN "cut" ELSE cut
  /\ saved' = IF saving \in {"unlink", "rename"} THEN saved ELSE [settings |-> <<>>, columns |-> <<>>]
  /\ UNCHANGED old

ConfigInit ==
  /\ status = "stopped" /\ settings = Defaults.settings /\ options = <<>> /\ bindings = DefaultBindings
  /\ columns = <<>> /\ rc \in UserFiles /\ old = Missing /\ writable \in Writable
  /\ panel = "list" /\ fields = NoFields /\ items = <<>>
  /\ saving = "no" /\ edits = 0 /\ saves = 0 /\ starts = 0 /\ first = rc
  /\ saved = [settings |-> <<>>, columns |-> <<>>] /\ cut = "no"

ConfigNext ==
  \/ \E noconfig \in BOOLEAN : Start(noconfig)
  \/ settings_create \/ (\E s \in PanelSettings : EditField(s))
  \/ (\E button \in Buttons : SettingsConfirm(button) \/ ColumnsConfirm(button)) \/ SettingsSave \/ PrevScreen \/ (\E s \in ToggleSettings : ToggleKey(s))
  \/ column_select_create \/ (\E i \in DOMAIN Attributes : MenuSelect(i) \/ \E d \in {-1, 1} : ColumnMove(i, d))
  \/ ColumnsSave
  \/ Unlink \/ Rename \/ OpenFile \/ OpenFails \/ WriteFile
  \/ Exit \/ Kill

ConfigSpec == ConfigInit /\ [][ConfigNext]_configVars

-----------------------------------------------------------------------------
(* Properties.                                                             *)

\* The lines of the user's file that no panel writes (aliases, bindings,
\* comments) are in the file or in the copy a save made of it, at every
\* moment of a save and after the program was killed in one, until the next
\* save starts from the incomplete file that left.  It needs a directory in
\* which the file can be renamed: the save does not look whether it could.
LinesKept ==
  (writable /\ cut # "again") =>
    \A l \in Lines(first) : l.type # "set" => l \in Lines(rc) \cup Lines(old)

\* Lines of the user's file that set an option and that no save removes
KeptFor(o) == {l \in Lines(first) : l.name = o /\ l.type \in {"Set", "alias"}}

\* What the panels saved, and said they saved, is what the next start reads,
\* whatever either panel saved in between: the value of every setting the
\* panel shows that was not left empty, and the attribute of every column.
\* A column that was removed is not in the file: once columns were saved, its
\* option has, at the next start, what the defaults and the system's files
\* give it, and nothing else, unless a line of the user's file that sets it
\* is spelled so that saving keeps it.
SavedIsRestored ==
  (status = "fresh" /\ writable) =>
    /\ \A s \in DOMAIN saved.settings \cap PanelSettings :
         saved.settings[s] # NoText => settings[s] = saved.settings[s]
    /\ \A o \in DOMAIN saved.columns : get_option_value(options, o) = saved.columns[o]
    /\ DOMAIN saved.columns # {} =>
         \A o \in Range(ColumnOptions) \ DOMAIN saved.columns :
           KeptFor(o) = {} =>
             get_option_value(options, o) = get_option_value(read_options(Defaults, SystemLines).options, o)

\* The columns panel opens on the list's columns that are spelled as in the
\* table of the attributes, in their order and no others, however they got
\* there, unless the files gave the list a column twice.
ColumnsAsShown ==
  [][(panel = "list" /\ panel' = "columns" /\ IsInjective(columns))
       => Shown(items') = CopyIf(columns, Range(Attributes))]_configVars

\* With every table the files can make, a panel that asks for the actions of
\* a key comes to an end and meets each of them, unless the row before is
\* bound to the key too and stands for an action that is one ahead of it.
WalkMeetsBindings ==
  status = "fresh" =>
    \A i \in Rows \ {0} : \A key \in {bindings[i].keys[j] : j \in 1..bindings[i].bindcnt} :
      \/ \E j \in DOMAIN WalkFrom(bindings, key, ERR) : WalkFrom(bindings, key, ERR)[j] = bindings[i].id
      \/ \E k \in Rows : k < i /\ bindings[k].id >= i /\ HasKey(bindings[k], key)
=============================================================================
