--------------------------- MODULE CaptureSources ---------------------------
(***************************************************************************)
(* A run of the program from its command line to its end (src/main.c): the *)
(* capture threads of its sources (src/capture.c, the HEP listener of      *)
(* src/capture_eep.c), the lock they parse under, the forwarding of        *)
(* packets to another host, the output file with its reopening on SIGHUP,  *)
(* the pause key, and capture_close at the end.                            *)
(*                                                                         *)
(* Reassembly, SIP and RTP parsing have models of their own: a packet      *)
(* here either is SIP or is nothing the program keeps.                     *)
(***************************************************************************)
EXTENDS HepCodec

CONSTANTS
  Settings,     \* what the configuration may say before the options:
                \* [files, devices, listen, version, send, parse, out, interface]
  CommandLines, \* sequences of options [opt, arg]
  Packets,      \* packets on the wire; a payload says whether it is SIP
  Passwords,    \* that the other hosts may be given
  Datagrams,    \* HEP datagrams other hosts send, [data, of]: data sent for a packet
  ListenPassword, \* setting eep.listen.pass
  MaxPackets,   \* bound on the packets a source reads
  MaxRotations  \* bound on the renamings of the output file

VARIABLES
  cmd,       \* the command line; None before main has parsed it
  phase,     \* of the main thread: "init", "running", "closing", "exited", "crashed"
  sources,   \* capture_cfg.sources, in the order they were added
  pc,        \* what the thread of a source is doing
  pkt,       \* the packet it handles, [packet, got, frame, rest]
  reads,     \* packets read so far
  running,   \* capinfo->running
  cancelled, \* pthread_cancel was called
  lock,      \* holder of capture_cfg.lock, or None
  paused,
  pd,        \* the dumper: [open, inode], or None
  inode,     \* capture_cfg.dump_inode
  name,      \* inode the name of the output file stands for; 0: none
  disk,      \* contents of the inodes made so far
  sighup,    \* sighup_received
  closing,   \* sources capture_close has still to stop
  stored,    \* packets handed to the call store, [packet, got, frame, source]
  misuse     \* a dumper was used after it had been closed

threads == <<pc, pkt, reads, running, cancelled>>
output == <<pd, inode, name, disk, sighup, misuse>>
vars == <<cmd, phase, sources, threads, lock, paused, output, closing, stored>>

Hep == "hep"
Names == (UNION {o.arg : o \in UNION {Range(l) : l \in CommandLines}})
           \cup (UNION {c.files \cup c.devices : c \in Settings}) \cup {Hep, "default"}

OptionLetters == {"d", "I", "O", "L", "H", "E", "N", "T", "h", "V", "D", "?"}
Configurations ==
  [files : SUBSET Names, devices : SUBSET Names, listen : BOOLEAN, version : {2, 3},
   send : BOOLEAN, parse : BOOLEAN, out : BOOLEAN, interface : BOOLEAN]

ASSUME StartAssumption ==
  /\ IsFiniteSet(Names) /\ None \notin Names
  /\ Settings \subseteq Configurations /\ None \notin Configurations
  /\ \A line \in CommandLines : line \in Seq([opt : OptionLetters, arg : SUBSET Names])

\* A packet has an address family, a protocol, the type of its SIP, two addresses
\* with ports, a time and a payload of at most MAX_CAPTURE_LEN octets.
PacketShape(p) ==
  p = [ip |-> p.ip, proto |-> p.proto, type |-> p.type, src |-> [ip |-> p.src.ip, port |-> p.src.port],
       dst |-> [ip |-> p.dst.ip, port |-> p.dst.port],
       time |-> [sec |-> p.time.sec, usec |-> p.time.usec],
       payload |-> p.payload, len |-> p.len]

IsPacket(p) ==
  /\ PacketShape(p)
  /\ p \notin {None, Crash} /\ [p EXCEPT !.type = "udp"] \notin {None, Crash}
  /\ p.ip \in {4, 6} /\ p.len \in Nat /\ p.len <= 20480 /\ p.payload.sip \in BOOLEAN

\* Datagrams are what capture_eep_send makes of packets; a password is kept in
\* 100 octets.
ASSUME PeersAssumption ==
  /\ None # Crash
  /\ \A p \in Packets : IsPacket(p)
  /\ \A password \in Passwords : Len(password) \in Nat /\ Len(password) <= 100
  /\ \A d \in Datagrams :
       /\ IsPacket(d.of)
       /\ \E password \in Passwords \cup {None} : d.data \in {SendV2(d.of), SendV3(d.of, password)}

-----------------------------------------------------------------------------
(* Start-up.                                                               *)

\* One option of getopt: what it changes in the settings, or None when it
\* ends the program at once.
ApplyOption(c, o) ==
  IF c = None THEN None
  ELSE CASE o.opt = "d" -> [c EXCEPT !.devices = @ \cup o.arg]
         [] o.opt = "I" -> [c EXCEPT !.files = @ \cup o.arg]
         [] o.opt = "O" -> [c EXCEPT !.out = TRUE]
         [] o.opt = "L" -> [c EXCEPT !.listen = TRUE]
         [] o.opt = "H" -> [c EXCEPT !.send = TRUE]
         [] o.opt = "E" -> [c EXCEPT !.parse = TRUE]
         [] o.opt \in {"N", "T"} -> [c EXCEPT !.interface = FALSE]
         [] o.opt \in {"h", "V", "D", "?"} -> None

ParseOptions(settings, line) ==
  LET after[i \in 0 .. Len(line)] == IF i = 0 THEN settings ELSE ApplyOption(after[i - 1], line[i])
  IN  after[Len(line)]

\* capture_eep_init: input files switch the listener off, and one that
\* cannot be set up is done without.
EepInit(c, broken) == IF c.listen /\ c.files = {} /\ Hep \notin broken THEN <<Hep>> ELSE <<>>

\* The default device is used when there is nothing else.
InputDevices(c, listener) ==
  IF listener = <<>> /\ c.devices = {} /\ c.files = {} THEN {"default"} ELSE c.devices

CaptureOffline(file, broken) == file \notin broken
CaptureOnline(device, broken) == device \notin broken

\* dump_open makes a new, empty file of the name; only for a single source.
CanDump(srcs) == Len(srcs) = 1

\* The options are parsed and every file and device is opened; the first
\* that cannot be, or a filter that cannot be compiled, ends the program.
Main ==
  /\ phase = "init"
  /\ \E settings \in Settings, line \in CommandLines,
        broken \in {{}} \cup {{n} : n \in Names}, compiles \in BOOLEAN :
       LET c == ParseOptions(settings, line)
           listener == EepInit(c, broken)
           devices == InputDevices(c, listener)
       IN  IF \/ c = None \/ ~compiles
              \/ \E f \in c.files : ~CaptureOffline(f, broken)
              \/ \E d \in devices : ~CaptureOnline(d, broken)
           THEN phase' = "exited" /\ UNCHANGED <<cmd, sources, running, disk, name, inode, pd>>
           ELSE /\ cmd' = c
                /\ sources' = listener \o SetToSeq(c.files) \o SetToSeq(devices)
                /\ running' = [s \in Names |-> s \in Range(sources')]
                /\ disk' = IF c.out /\ CanDump(sources') THEN <<<<>>>> ELSE <<>>
                /\ name' = Len(disk') /\ inode' = Len(disk')
                /\ pd' = IF disk' = <<>> THEN None ELSE [open |-> TRUE, inode |-> 1]
                /\ phase' = "running"
  /\ UNCHANGED <<pc, pkt, reads, cancelled, lock, paused, sighup, misuse, closing, stored>>

-----------------------------------------------------------------------------
(* The capture threads.                                                    *)

Step(s, from, to) == pc[s] = from /\ pc' = [pc EXCEPT ![s] = to]

Keep == UNCHANGED <<cmd, phase, sources, running, cancelled, paused, name, closing>>

\* parse_packet: a packet is skipped while the capture is paused, and also
\* when the store is full, the packet too long, a fragment or of a protocol
\* that is not handled.
Capture(s) ==
  /\ s \in Range(sources) \ {Hep}
  /\ reads[s] < MaxPackets /\ reads' = [reads EXCEPT ![s] = @ + 1]
  /\ \E p \in Packets, skip \in {paused, TRUE} :
       IF skip THEN Step(s, "read", "read") /\ UNCHANGED pkt
       ELSE Step(s, "read", "lock")
            /\ pkt' = [pkt EXCEPT ![s] = [packet |-> p, got |-> p, frame |-> p,
                                         via |-> "wire", rest |-> "forward"]]
  /\ UNCHANGED <<lock, pd, inode, disk, sighup, misuse, stored>> /\ Keep

\* With -E the payload of a UDP packet is tried as HEP version 3, and what
\* is found is written to the output file at once, without the lock.
CaptureEncapsulated(s) ==
  /\ s \in Range(sources) \ {Hep} /\ cmd.parse /\ ~paused
  /\ reads[s] < MaxPackets /\ reads' = [reads EXCEPT ![s] = @ + 1]
  /\ \E d \in Datagrams :
       LET password == IF Hep \in Range(sources) THEN ListenPassword ELSE None
           got == ReceiveV3(d.data, password)
       IN  /\ got # None
           /\ pkt' = [pkt EXCEPT ![s] = [packet |-> d.of, got |-> got,
                                               frame |-> BuildFrameData(got), via |-> "hep", rest |-> "forward"]]
  /\ Step(s, "read", "early")
  /\ UNCHANGED <<lock, pd, inode, disk, sighup, misuse, stored>> /\ Keep

\* accept_eep_client: pauses are not looked at.
Listen ==
  /\ Hep \in Range(sources)
  /\ reads[Hep] < MaxPackets /\ reads' = [reads EXCEPT ![Hep] = @ + 1]
  /\ \E d \in Datagrams :
       LET got == Receive(d.data, cmd.version, ListenPassword)
       IN  CASE got = None -> Step(Hep, "read", "read") /\ UNCHANGED <<phase, pkt>>
             [] got = Crash -> phase' = "crashed" /\ UNCHANGED <<pc, pkt>>
             [] OTHER -> /\ Step(Hep, "read", "early") /\ UNCHANGED phase
                         /\ pkt' = [pkt EXCEPT ![Hep] =
                                      [packet |-> d.of, got |-> got,
                                       frame |-> BuildFrameData(got), via |-> "hep", rest |-> "done"]]
  /\ pc[Hep] = "read"
  /\ UNCHANGED <<cmd, sources, running, cancelled, paused, name, closing,
                 lock, pd, inode, disk, sighup, misuse, stored>>

\* capture_lock and capture_packet_parse.
Parse(s) ==
  /\ lock = None
  /\ lock' = s
  /\ Step(s, "lock", IF pkt[s].got.payload.sip THEN pkt[s].rest ELSE "done")
  /\ stored' = IF pkt[s].got.payload.sip
               THEN stored \cup {[packet |-> pkt[s].packet, got |-> pkt[s].got,
                                  frame |-> pkt[s].frame, via |-> pkt[s].via, source |-> s]}
               ELSE stored
  /\ UNCHANGED <<pkt, reads, pd, inode, disk, sighup, misuse>> /\ Keep

\* As if a packet were either forwarded or written.
ForwardOnly(s) ==
  /\ Step(s, "forward", "done")
  /\ UNCHANGED <<pkt, reads, lock, pd, inode, disk, sighup, misuse, stored>> /\ Keep

\* capture_eep_send: a datagram goes out, with the lock held.
Forward(s) ==
  /\ Step(s, "forward", "dump")
  /\ UNCHANGED <<pkt, reads, lock, pd, inode, disk, sighup, misuse, stored>> /\ Keep

\* As if the inode of the name were not compared.
ReopenAlways(s) ==
  /\ pd # None /\ sighup
  /\ LET new == [open |-> TRUE, inode |-> Len(disk) + 1]
     IN  IF name = 0
         THEN /\ disk' = Append(disk, <<>>) /\ name' = Len(disk) + 1
              /\ inode' = Len(disk) + 1 /\ pd' = new
         ELSE /\ disk' = [disk EXCEPT ![name] = <<>>]
              /\ pd' = [open |-> TRUE, inode |-> name] /\ UNCHANGED <<name, inode>>

\* capture_dump_packet after a SIGHUP: the file is opened again if its name
\* no longer stands for the inode written to.  Opening may fail.
Reopen(s) ==
  /\ pd # None /\ sighup
  /\ IF name = inode THEN UNCHANGED <<pd, inode, name, disk>>
     ELSE \/ pd' = None /\ UNCHANGED <<inode, name, disk>>
          \/ /\ disk' = Append(disk, <<>>)
             /\ name' = Len(disk') /\ inode' = Len(disk')
             /\ pd' = [open |-> TRUE, inode |-> Len(disk')]

DumpSighup(s) ==
  /\ \E early \in {TRUE, FALSE} :
       Step(s, IF early THEN "early" ELSE "dump", IF early THEN "earlyClear" ELSE "clear")
  /\ Reopen(s)
  /\ misuse' = (misuse \/ (name # inode /\ ~pd.open))
  /\ UNCHANGED <<cmd, phase, sources, running, cancelled, paused, closing,
                 pkt, reads, lock, sighup, stored>>

\* sighup_received = 0, whatever came in meanwhile.
ClearSighup(s) ==
  /\ \E early \in {TRUE, FALSE} :
       Step(s, IF early THEN "earlyClear" ELSE "clear", IF early THEN "earlyWrite" ELSE "write")
  /\ sighup' = FALSE
  /\ UNCHANGED <<pkt, reads, lock, pd, inode, disk, misuse, stored>> /\ Keep

NoSighup(s) ==
  /\ pd = None \/ ~sighup
  /\ \E early \in {TRUE, FALSE} :
       Step(s, IF early THEN "early" ELSE "dump", IF early THEN "earlyWrite" ELSE "write")
  /\ UNCHANGED <<pkt, reads, lock, pd, inode, disk, sighup, misuse, stored>> /\ Keep

\* dump_packet.
Write(s) ==
  /\ \E early \in {TRUE, FALSE} :
       Step(s, IF early THEN "earlyWrite" ELSE "write", IF early THEN "lock" ELSE "done")
  /\ IF pd = None THEN UNCHANGED <<disk, misuse>>
     ELSE IF pd.open
     THEN /\ disk' = [disk EXCEPT ![pd.inode] = Append(@, pkt[s].frame)]
          /\ UNCHANGED misuse
     ELSE misuse' = TRUE /\ UNCHANGED disk
  /\ UNCHANGED <<pkt, reads, lock, pd, inode, sighup, stored>> /\ Keep

Unlock(s) ==
  /\ Step(s, "done", "read")
  /\ lock = s /\ lock' = None
  /\ pkt' = [pkt EXCEPT ![s] = None]
  /\ UNCHANGED <<reads, pd, inode, disk, sighup, misuse, stored>> /\ Keep

\* pcap_loop returns at the end of a file.
EndOfFile(s) ==
  /\ s \in cmd.files
  /\ Step(s, "read", "gone")
  /\ running' = [running EXCEPT ![s] = FALSE]
  /\ UNCHANGED <<cmd, phase, sources, cancelled, paused, name, closing, pkt, reads, lock,
                 pd, inode, disk, sighup, misuse, stored>>

\* A cancelled thread ends where the C library looks for it: reading,
\* sending a datagram, perhaps writing to a file; a lock it has stays taken.
Cancel(s) ==
  /\ cancelled[s]
  /\ \E at \in {"read", "write", "earlyWrite"} \cup (IF cmd.send THEN {"forward"} ELSE {}) :
       Step(s, at, "gone")
  /\ UNCHANGED <<pkt, reads, lock, pd, inode, disk, sighup, misuse, stored>> /\ Keep

-----------------------------------------------------------------------------
(* The main thread, and the log rotation of the host.                      *)

TogglePause ==
  /\ phase = "running" /\ cmd.interface /\ lock = None
  /\ paused' = ~paused
  /\ UNCHANGED <<cmd, phase, sources, threads, lock, output, closing, stored>>

\* The last panel is closed, a signal ends the program, or, without an
\* interface, no source is running any more.  capture_close begins with the
\* output file.
Close ==
  /\ phase = "running"
  /\ phase' = "closing"
  /\ closing' = sources
  /\ pd' = IF pd = None THEN None ELSE [pd EXCEPT !.open = FALSE]
  /\ UNCHANGED <<cmd, sources, threads, lock, paused, inode, name, disk, sighup, misuse, stored>>

CancelNext ==
  /\ phase = "closing" /\ closing # <<>>
  /\ running[Head(closing)] /\ ~cancelled[Head(closing)]
  /\ cancelled' = [cancelled EXCEPT ![Head(closing)] = TRUE]
  /\ UNCHANGED <<cmd, phase, sources, pc, pkt, reads, running, lock, paused, output, closing, stored>>

\* As if the first source were joined again and again.
JoinFirst ==
  /\ phase = "closing" /\ closing # <<>>
  /\ IF cancelled[Head(closing)] THEN pc[Head(closing)] = "gone" ELSE ~running[Head(closing)]
  /\ UNCHANGED vars

\* pthread_join waits for the thread; one that had ended is passed over.
JoinNext ==
  /\ phase = "closing" /\ closing # <<>>
  /\ IF cancelled[Head(closing)] THEN pc[Head(closing)] = "gone" ELSE ~running[Head(closing)]
  /\ closing' = Tail(closing)
  /\ UNCHANGED <<cmd, phase, sources, threads, lock, paused, output, stored>>

Exit ==
  /\ phase = "closing" /\ closing = <<>>
  /\ phase' = "exited"
  /\ UNCHANGED <<cmd, sources, threads, lock, paused, output, closing, stored>>

Rotate ==
  /\ phase = "running" /\ name # 0 /\ Len(disk) <= MaxRotations
  /\ name' = 0
  /\ UNCHANGED <<cmd, phase, sources, threads, lock, paused, pd, inode, disk, sighup, misuse,
                 closing, stored>>

Hangup ==
  /\ phase = "running" /\ ~sighup
  /\ sighup' = TRUE
  /\ UNCHANGED <<cmd, phase, sources, threads, lock, paused, pd, inode, name, disk, misuse,
                 closing, stored>>

-----------------------------------------------------------------------------
Init ==
  /\ cmd = None /\ phase = "init" /\ sources = <<>>
  /\ pc = [s \in Names |-> "read"] /\ pkt = [s \in Names |-> None]
  /\ reads = [s \in Names |-> 0]
  /\ running = [s \in Names |-> FALSE] /\ cancelled = [s \in Names |-> FALSE]
  /\ lock = None /\ paused = FALSE
  /\ pd = None /\ inode = 0 /\ name = 0 /\ disk = <<>> /\ sighup = FALSE /\ misuse = FALSE
  /\ closing = <<>> /\ stored = {}

Handle(s) ==
  \/ Parse(s) \/ Forward(s) \/ DumpSighup(s) \/ ClearSighup(s) \/ NoSighup(s)
  \/ Write(s) \/ Unlock(s)

Thread(s) == Capture(s) \/ CaptureEncapsulated(s) \/ Handle(s) \/ EndOfFile(s) \/ Cancel(s)

\* The lock is held by a thread that is no more.
Orphaned == lock # None /\ pc[lock] = "gone"

Stopping == CancelNext \/ JoinNext \/ Exit

Next ==
  \/ Main
  \/ /\ phase \in {"running", "closing"}
     /\ \/ \E s \in Range(sources) : Thread(s)
        \/ Listen
        \/ TogglePause \/ Close \/ Stopping \/ Rotate \/ Hangup
  \/ (phase \in {"exited", "crashed"} \/ Orphaned) /\ UNCHANGED vars

\* The scheduler runs every thread; a packet need not come, a cancelled
\* thread that reads ends.
Fairness ==
  /\ WF_vars(Stopping)
  /\ \A s \in Names :
       /\ WF_vars(phase = "closing" /\ Handle(s))
       /\ WF_vars(phase = "closing" /\ pc[s] = "read" /\ Cancel(s))

Spec == Init /\ [][Next]_vars /\ Fairness

-----------------------------------------------------------------------------
(* Properties.                                                             *)

\* A packet another host forwarded is stored as that host captured it but for
\* its type, which is that of SIP over UDP however it was carried, or came by
\* version 2, whose length field of one octet loses the length unless it is a
\* multiple of 256 (and below 256 leaves none at all).  The frame made up for
\* the output file is that of the packet when it was one of UDP over IPv4.
AsReceived(r) == IF r.via = "hep" THEN [r.packet EXCEPT !.type = "udp"] ELSE r.packet

Relayed(r) ==
  \/ r.got = AsReceived(r) /\ (r.packet.ip = 4 /\ r.packet.proto = "udp" => r.frame = r.got)
  \/ r.via = "hep" /\ cmd.version = 2 /\ TotalV2(r.packet) % 256 # 0

RelayedAsCaptured ==
  /\ \A r \in stored : Relayed(r)
  /\ phase = "crashed" => cmd.version = 2

\* The output file is never emptied: a reopening after SIGHUP leaves every
\* packet written before in some file (capture_dump_packet, dump_open).
OutputOnlyGrows ==
  [][\A i \in DOMAIN disk : i \in DOMAIN disk' /\ IsPrefix(disk[i], disk'[i])]_vars

\* While the program runs and a thread is between two packets, every SIP
\* packet it stored is in the output file, unless a reopening failed.
StoredIsWritten ==
  \A r \in stored :
    phase = "running" /\ pd # None /\ pc[r.source] = "read" =>
      \E i \in DOMAIN disk : r.frame \in Range(disk[i])

\* capture_close ends, unless a thread was cancelled while it held the lock:
\* another one that waits for the lock is then joined for ever.
CloseEnds ==
  phase = "closing" ~> (phase # "closing" \/ Orphaned)

\* A packet is only written to, and a file only closed through, a dumper
\* that is open.
WrittenWhileOpen == ~misuse
============================================================================
