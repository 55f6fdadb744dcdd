------------------------------ MODULE MCPanels ------------------------------
(***************************************************************************)
(* Two calls, whose packets interleave in time, and a message that comes   *)
(* later, makes the first call match a filter and is that of a new call    *)
(* where the calls were cleared.  The first message has two frames, with   *)
(* the second message in between; the later one was cut from the segment   *)
(* of the second frame.  The list shows the method or the state of a call. *)
(* One source of packets with RTP, or two without.  A file that exists,    *)
(* one that exists and is read-only, and one that can only be written.     *)
(***************************************************************************)
EXTENDS Panels

MCKeys == {"Enter", " ", "Esc", "Tab", "F5", "F9", "F7", "F10", "S", "r", "o", "p", "i", "h",
           "/", ">", "^W"}

Call(id, method, msgs, rtp) == [id |-> id, method |-> method, msgs |-> msgs, rtp |-> rtp]
Msg(at, text) == [at |-> at, text |-> text]
MCInitialCalls == <<Call(1, "INVITE", <<Msg(1, "hi")>>, <<4>>),
                    Call(2, "OPTIONS", <<Msg(2, "ok")>>, <<>>)>>
MCArrivals == <<[call |-> 1, method |-> "INVITE", at |-> 6, text |-> "ok"]>>
MCMethods == {"INVITE", "OPTIONS"}
MCMatched == [e \in {"o"} |-> {"ok", "OPTIONS", "COMPLETED"}]
MCFrames == [p \in {1, 6} |-> IF p = 1 THEN <<1, 3>> ELSE <<3, 6>>]
MCLayouts == {<<"method">>, <<"state">>}
MCLineText(columns, c) ==
  IF columns = <<"method">> THEN c.method
  ELSE IF Len(c.msgs) > 1 THEN "COMPLETED" ELSE "CALL SETUP"
MCTexts == {"o", "("}
MCNames == {<<"a">>, <<"b", "txt">>}
MCDisk == [f \in {<<"a", "pcap">>, <<"a", "txt">>, <<"b", "txt">>} |->
             IF f = <<"a", "pcap">> THEN <<[packet |-> 0, at |-> 0]>> ELSE <<0>>]
MCUnreadable == {<<"a", "txt">>}
MCReadOnly == {<<"b", "txt">>}
MCSetups == {[sources |-> 1, rtp |-> TRUE, exitprompt |-> TRUE, columns |-> <<"method">>],
             [sources |-> 2, rtp |-> FALSE, exitprompt |-> FALSE, columns |-> <<"method">>]}
=============================================================================
