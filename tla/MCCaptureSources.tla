------------------------- MODULE MCCaptureSources -------------------------
(***************************************************************************)
(* Command lines with an output file, with two devices or a device and the *)
(* listener, and with an input file; a peer that forwards a SIP packet in  *)
(* versions 2 and 3, with and without the right password.                  *)
(***************************************************************************)
EXTENDS CaptureSources

Default ==
  [files |-> {}, devices |-> {}, listen |-> FALSE, version |-> 3, parse |-> FALSE,
   send |-> FALSE, out |-> FALSE, interface |-> TRUE]
MCSettings == {Default, [Default EXCEPT !.version = 2]}

O(opt) == [opt |-> opt, arg |-> {}]
Device == [opt |-> "d", arg |-> {"eth0"}]
File == [opt |-> "I", arg |-> {"call.pcap"}]

MCCommandLines ==
  {<<O("O")>>, <<Device, O("E"), O("O")>>, <<O("L"), O("O")>>,
   <<O("O"), O("L"), O("H"), Device>>, <<File, O("L"), Device>>, <<File, O("N"), O("O")>>, <<O("V")>>}

Packet(n, sip, ip, type, len) ==
  [ip |-> ip, proto |-> IF type = "udp" THEN "udp" ELSE "tcp", type |-> type, src |-> [ip |-> "a", port |-> n],
   dst |-> [ip |-> "b", port |-> 5060], time |-> [sec |-> n, usec |-> 0],
   payload |-> [sip |-> sip, id |-> n], len |-> len]

MCPackets == {Packet(1, TRUE, 4, "tcp", 500), Packet(2, FALSE, 4, "tcp", 200)}

Peer(p, version, password) == [data |-> Send(p, version, password), of |-> p]

MCDatagrams ==
  {Peer(Packet(3, TRUE, 6, "udp", 700), 3, <<"s", "3">>), Peer(Packet(4, TRUE, 4, "tls", 484), 3, <<"x">>),
   Peer(Packet(5, TRUE, 4, "udp", 484), 2, None), Peer(Packet(6, TRUE, 4, "udp", 600), 2, None),
   Peer(Packet(7, TRUE, 4, "udp", 100), 2, None)}

MCPasswords == {<<"s", "3">>, <<"x">>}
MCPassword == <<"s">>
============================================================================
