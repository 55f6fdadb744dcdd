-------------------------- MODULE MCConfiguration --------------------------
(***************************************************************************)
(* Three settings, one of each format, of which the panel shows two and    *)
(* the user's file may set the third; three attributes and two default     *)
(* columns; a file with an alias, bindings, a column twice and a value     *)
(* outside its list, one with a binding for no action, and one with a      *)
(* column in another case and one saving does not recognise.               *)
(***************************************************************************)
EXTENDS Configuration

Setting(fmt, value, values) == [fmt |-> fmt, value |-> value, values |-> values]

MCSettingTable ==
  [n \in {"syntax", "savepath", "sip.xcid"} |->
     CASE n = "syntax" -> Setting("enum", "on", <<"on", "off">>)
       [] n = "savepath" -> Setting("string", "", <<"/tmp">>)
       [] n = "sip.xcid" -> Setting("string", "X-CID", <<"X-Leg">>)]

MCPanel == {"syntax", "savepath"}
MCAttributes == <<"index", "method", "state">>
MCColumnOptions == <<"cl.column0", "cl.column1", "cl.column2">>
MCDefaultColumns == <<"index", "method">>

MCActionNames ==
  [n \in {"flow", "flowex", "help", "autoscroll"} |->
     CASE n = "flow" -> ACTION_SHOW_FLOW [] n = "flowex" -> ACTION_SHOW_FLOW_EX
       [] n = "help" -> ACTION_SHOW_HELP [] n = "autoscroll" -> ACTION_AUTOSCROLL]

Alias == Line("alias", "10.0.0.1", "pbx")
MCUserFiles ==
  {<<Line("set", "sip.xcid", "X-Leg"), Alias, Line("Set", "syntax", "yes"), Line("set", "cl.column2", "index"),
     Line("unbind", "help", "h"), Line("bind", "flow", "x"), Line("bind", "autoscroll", "r")>>,
   <<Line("#", "note", "x"), Line("bind", "nothing", "x")>>,
   <<Line("Set", "cl.column2", "state"), Line("set", "cl.column1", "METHOD")>>}

MCOtherCase == [n \in {"METHOD"} |-> "method"]

MCSystemLines == <<Line("set", "syntax", "off"), Line("set", "cl.column1", "state")>>
============================================================================
