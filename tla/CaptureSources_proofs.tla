------------------------ MODULE CaptureSources_proofs ------------------------
(***************************************************************************)
(* Proofs about CaptureSources: the output file only grows, every SIP      *)
(* packet a thread has stored is written to it, and what another host      *)
(* forwarded is stored as it was captured there.                           *)
(***************************************************************************)
EXTENDS CaptureSources, SequenceLemmas, FiniteSetTheorems

ThreadStates ==
  {"read", "lock", "early", "earlyClear", "earlyWrite", "forward", "dump", "clear", "write",
   "done", "gone"}

\* The states of a thread that has stored its packet and is on the way to
\* write it.
Pending == {"forward", "dump", "clear", "write"}

\* What can be captured, and the frames that are written for it.
Origins == Packets \cup {d.of : d \in Datagrams}
Received ==
  ({ReceiveV3(d.data, password) : d \in Datagrams, password \in {None, ListenPassword}}
    \cup {ReceiveV2(d.data) : d \in Datagrams}) \ {None}
Captured == Packets \cup Received
Frames == Packets \cup {BuildFrameData(got) : got \in Received}

Handled == [packet : Origins, got : Captured, frame : Frames,
            via : {"wire", "hep"}, rest : {"forward", "done"}]
Kept == [packet : Origins, got : Captured, frame : Frames,
         via : {"wire", "hep"}, source : Names]
Dumpers == [open : BOOLEAN, inode : Nat]

\* The types of the variables.
TypeOK ==
  /\ cmd \in Configurations \cup {None}
  /\ phase \in {"init", "running", "closing", "exited", "crashed"}
  /\ sources \in Seq(Names) /\ closing \in Seq(Names)
  /\ pc \in [Names -> ThreadStates]
  /\ pkt \in [Names -> Handled \cup {None}]
  /\ reads \in [Names -> Nat]
  /\ running \in [Names -> BOOLEAN] /\ cancelled \in [Names -> BOOLEAN]
  /\ lock \in Names \cup {None}
  /\ paused \in BOOLEAN /\ sighup \in BOOLEAN /\ misuse \in BOOLEAN
  /\ inode \in Nat /\ name \in Nat
  /\ disk \in Seq(Seq(Frames))
  /\ pd \in Dumpers \cup {None}
  /\ stored \subseteq Kept

\* Before main has opened anything there is nothing.
Fresh ==
  phase = "init" =>
    /\ disk = <<>> /\ stored = {} /\ pd = None
    /\ \A s \in Names : pc[s] = "read" /\ ~cancelled[s]

\* A thread that handles a packet has one.
HasPacket == \A s \in Names : pc[s] \notin {"read", "gone"} => pkt[s] \in Handled

\* The dumper writes to a file that exists; while the program runs the dumper
\* is open and no thread is cancelled.
DumperOpen ==
  /\ pd # None => pd.inode \in DOMAIN disk
  /\ phase = "running" => (pd # None => pd.open)
  /\ phase = "running" => \A s \in Names : ~cancelled[s]

Written(frame) == \E i \in DOMAIN disk : frame \in Range(disk[i])

\* A stored packet has been written, or its thread is on the way to write it;
\* one that came by the listener is written before it is stored.
StoredOnTheWay ==
  \A r \in stored : Written(r.frame) \/ (pc[r.source] \in Pending /\ pkt[r.source].frame = r.frame)
WrittenBefore ==
  \A s \in Names : pc[s] = "lock" /\ pkt[s].rest = "done" => Written(pkt[s].frame)
OnTheWay == phase = "running" /\ pd # None => StoredOnTheWay /\ WrittenBefore

Inv == TypeOK /\ Fresh /\ HasPacket /\ DumperOpen /\ OnTheWay

-------------------------------------------------------------------------------
(* Sequences and sets.                                                     *)

LEMMA HandledFields ==
  ASSUME NEW h \in Handled
  PROVE  /\ h.packet \in Origins /\ h.got \in Captured /\ h.frame \in Frames
         /\ h.via \in {"wire", "hep"} /\ h.rest \in {"forward", "done"}
BY DEF Handled

LEMMA KeptFields ==
  ASSUME NEW r \in Kept
  PROVE  r.packet \in Origins /\ r.got \in Captured /\ r.frame \in Frames /\ r.source \in Names
BY DEF Kept

\* The order SetToSeq chooses is a sequence of the elements of the set.
LEMMA SetToSeqType ==
  ASSUME NEW S, NEW T, IsFiniteSet(T), S \subseteq T
  PROVE  SetToSeq(S) \in Seq(T)
<1>1. IsFiniteSet(S)
  BY FS_Subset
<1>2. Cardinality(S) \in Nat
  BY <1>1, FS_CardinalityType
<1>3. PICK f : f \in Bijection(1 .. Cardinality(S), S)
  BY <1>1, FS_CardinalityType DEF ExistsBijection
<1>4. f \in [1 .. Cardinality(S) -> S]
  BY <1>3, Zenon DEF Bijection, Injection
<1>5. IsInjective(f)
  BY <1>3, <1>4 DEF Bijection, Injection, IsInjective
<1>6. SetToSeq(S) \in [1 .. Cardinality(S) -> S]
  BY <1>4, <1>5, Zenon DEF SetToSeq
<1>7. SetToSeq(S) \in [1 .. Cardinality(S) -> T]
  BY <1>6
<1>8. QED
  BY <1>2, <1>7

\* Files on the disk after a packet has been appended to the one at k.
Appended(d, k, x) == [d EXCEPT ![k] = Append(d[k], x)]

LEMMA AppendToFile ==
  ASSUME NEW F, NEW d \in Seq(Seq(F)), NEW k \in DOMAIN d, NEW x \in F
  PROVE  /\ Appended(d, k, x) \in Seq(Seq(F)) /\ DOMAIN Appended(d, k, x) = DOMAIN d
         /\ x \in Range(Appended(d, k, x)[k])
         /\ \A i \in DOMAIN d : /\ IsPrefix(d[i], Appended(d, k, x)[i])
                               /\ Range(d[i]) \subseteq Range(Appended(d, k, x)[i])
<1>0. PICK e : e = Appended(d, k, x)
  OBVIOUS
<1>1. DOMAIN d = 1 .. Len(d) /\ Len(d) \in Nat /\ d[k] \in Seq(F)
  OBVIOUS
<1> DEFINE a == Append(d[k], x)
<1>2. a \in Seq(F) /\ Range(a) = Range(d[k]) \cup {x}
  BY <1>1, AppendFacts
<1>3. IsPrefix(d[k], a)
  <2>1. Len(d[k]) \in Nat /\ Len(a) = Len(d[k]) + 1
    BY <1>1
  <2>2. SubSeq(a, 1, Len(d[k])) = SubSeq(d[k], 1, Len(d[k]))
    <3>1. \A i \in 1 .. Len(d[k]) : a[i] = d[k][i]
      BY <1>1
    <3> HIDE DEF a
    <3>2. QED
      BY <1>1, <1>2, <2>1, <3>1
  <2>3. QED
    BY <2>1, <2>2 DEF IsPrefix
<1> HIDE DEF a
<1>4. e = [d EXCEPT ![k] = a]
  BY <1>0 DEF a, Appended
<1>5. e \in Seq(Seq(F)) /\ DOMAIN e = DOMAIN d /\ e[k] = a /\ \A i \in DOMAIN d : i # k => e[i] = d[i]
  BY <1>1, <1>2, <1>4
<1>6. \A i \in DOMAIN d : IsPrefix(d[i], d[i])
  <2>1. ASSUME NEW i \in DOMAIN d PROVE Len(d[i]) \in Nat
    BY <1>1
  <2>2. QED
    BY <2>1 DEF IsPrefix
<1>7. QED
  BY <1>0, <1>2, <1>3, <1>5, <1>6

\* Files on the disk after an empty one has been made.
LEMMA NewFile ==
  ASSUME NEW F, NEW d \in Seq(Seq(F)), NEW e, e = Append(d, <<>>)
  PROVE  /\ e \in Seq(Seq(F)) /\ DOMAIN d \subseteq DOMAIN e
         /\ Len(e) \in Nat /\ Len(e) \in DOMAIN e
         /\ \A i \in DOMAIN d : e[i] = d[i] /\ IsPrefix(d[i], e[i])
<1>0. <<>> \in Seq(F)
  OBVIOUS
<1>1. /\ DOMAIN d = 1 .. Len(d) /\ Len(d) \in Nat
      /\ e \in Seq(Seq(F)) /\ Len(e) = Len(d) + 1
      /\ \A i \in 1 .. Len(d) : e[i] = d[i]
  BY <1>0
<1>2. DOMAIN e = 1 .. Len(e)
  BY <1>1
<1>3. \A i \in DOMAIN d : IsPrefix(d[i], d[i])
  <2>1. ASSUME NEW i \in DOMAIN d PROVE Len(d[i]) \in Nat
    BY <1>1
  <2>2. QED
    BY <2>1 DEF IsPrefix
<1>4. QED
  BY <1>1, <1>2, <1>3

-------------------------------------------------------------------------------
(* Start-up.                                                               *)

\* An option makes a configuration of a configuration, or ends the program.
LEMMA ApplyOptionType ==
  ASSUME NEW c \in Configurations \cup {None},
         NEW o \in [opt : OptionLetters, arg : SUBSET Names]
  PROVE  ApplyOption(c, o) \in Configurations \cup {None}
<1>1. CASE c = None
  BY <1>1 DEF ApplyOption
<1>2. CASE c # None
  <2>1. o.opt \in OptionLetters /\ o.arg \in SUBSET Names /\ c \in Configurations
    BY <1>2
  <2>2. /\ [c EXCEPT !.devices = @ \cup o.arg] \in Configurations
        /\ [c EXCEPT !.files = @ \cup o.arg] \in Configurations
    BY <2>1 DEF Configurations
  <2>3. /\ [c EXCEPT !.out = TRUE] \in Configurations
        /\ [c EXCEPT !.listen = TRUE] \in Configurations
        /\ [c EXCEPT !.send = TRUE] \in Configurations
        /\ [c EXCEPT !.parse = TRUE] \in Configurations
        /\ [c EXCEPT !.interface = FALSE] \in Configurations
    BY <2>1 DEF Configurations
  <2>4. QED
    BY <1>2, <2>1, <2>2, <2>3 DEF ApplyOption, OptionLetters
<1>3. QED
  BY <1>1, <1>2

LEMMA ParseOptionsType ==
  ASSUME NEW settings \in Settings, NEW line \in CommandLines
  PROVE  ParseOptions(settings, line) \in Configurations \cup {None}
<1> DEFINE T == Configurations \cup {None}
           n == Len(line)
           eq(f) == [i \in 0 .. n |-> IF i = 0 THEN settings ELSE ApplyOption(f[i - 1], line[i])]
           F == CHOOSE f : f = eq(f)
           step == [i \in 1 .. n |-> [c \in T |-> ApplyOption(c, line[i])]]
<1>1. settings \in T /\ line \in Seq([opt : OptionLetters, arg : SUBSET Names])
  BY StartAssumption
<1>2. n \in Nat /\ \A i \in 1 .. n : line[i] \in [opt : OptionLetters, arg : SUBSET Names]
  <2> DEFINE R == [opt : OptionLetters, arg : SUBSET Names]
  <2>1. line \in Seq(R)
    BY <1>1
  <2> HIDE DEF R
  <2>2. n \in Nat /\ \A i \in 1 .. n : line[i] \in R
    BY <2>1
  <2>3. QED
    BY <2>2 DEF R
<1>3. ParseOptions(settings, line) = F[n]
  BY Zenon DEF ParseOptions
<1>4. step \in [1 .. n -> [T -> T]]
  BY <1>2, ApplyOptionType
<1>5. \A i \in 1 .. n : \A c \in T : step[i][c] = ApplyOption(c, line[i])
  OBVIOUS
<1> HIDE DEF step, T
<1>6. PICK f : IsRecursion(f, n, T, settings, step)
  BY <1>1, <1>2, <1>4, RecursiveFunction
<1>7. /\ f \in [0 .. n -> T] /\ f[0] = settings
      /\ \A i \in 1 .. n : f[i] = step[i][f[i - 1]]
  BY <1>6 DEF IsRecursion
<1>8. f = eq(f)
  <2>1. ASSUME NEW i \in 0 .. n, i # 0 PROVE f[i] = ApplyOption(f[i - 1], line[i])
    <3>1. i \in 1 .. n /\ i - 1 \in 0 .. n
      BY <1>2, <2>1
    <3>2. f[i - 1] \in T
      BY <1>7, <3>1
    <3>3. QED
      BY <1>5, <1>7, <3>1, <3>2
  <2>2. QED
    BY <1>7, <2>1
<1>9. F = eq(F)
  BY <1>8
<1> HIDE DEF F
<1> DEFINE G == {i \in 0 .. n : F[i] \in T}
<1>10. 0 \in G
  BY <1>1, <1>2, <1>9
<1>11. ASSUME NEW i \in 1 .. n, i - 1 \in G PROVE i \in G
  <2>1. F[i] = ApplyOption(F[i - 1], line[i]) /\ i \in 0 .. n
    BY <1>2, <1>9
  <2>2. F[i - 1] \in T
    BY <1>11
  <2>3. F[i] \in T
    BY <1>2, <2>1, <2>2, ApplyOptionType DEF T
  <2>4. QED
    BY <2>1, <2>3
<1>12. \A i \in 0 .. n : i \in G
  <2> HIDE DEF G
  <2>1. QED
    BY <1>2, <1>10, <1>11, UpTo
<1>13. n \in G
  BY <1>2, <1>12
<1>14. QED
  BY <1>3, <1>13 DEF T

\* The sources of a configuration are named.
LEMMA SourcesType ==
  ASSUME NEW c \in Configurations, NEW broken
  PROVE  EepInit(c, broken) \o SetToSeq(c.files) \o SetToSeq(InputDevices(c, EepInit(c, broken)))
           \in Seq(Names)
<1>0. IsFiniteSet(Names)
  BY StartAssumption
<1>1. Hep \in Names /\ "default" \in Names
  BY DEF Names
<1>2. c.files \subseteq Names /\ c.devices \subseteq Names
  BY DEF Configurations
<1>3. InputDevices(c, EepInit(c, broken)) \subseteq Names
  BY <1>1, <1>2 DEF InputDevices
<1>4. EepInit(c, broken) \in Seq(Names)
  <2>1. <<Hep>> \in Seq(Names) /\ <<>> \in Seq(Names)
    BY <1>1
  <2>2. QED
    BY <2>1 DEF EepInit
<1>5. SetToSeq(c.files) \in Seq(Names) /\ SetToSeq(InputDevices(c, EepInit(c, broken))) \in Seq(Names)
  BY <1>0, <1>2, <1>3, SetToSeqType
<1>6. QED
  BY <1>4, <1>5

LEMMA MainStep ==
  ASSUME Inv, Main
  PROVE  Inv'
<1>0. TypeOK /\ Fresh /\ HasPacket /\ DumperOpen
  BY DEF Inv
<1>1. /\ phase = "init" /\ disk = <<>> /\ stored = {} /\ pd = None
      /\ \A s \in Names : pc[s] = "read" /\ ~cancelled[s]
      /\ UNCHANGED <<pc, pkt, reads, cancelled, lock, paused, sighup, misuse, closing, stored>>
  BY <1>0 DEF Main, Fresh
<1>2. CASE phase' = "exited" /\ UNCHANGED <<cmd, sources, running, disk, name, inode, pd>>
  <2>1. TypeOK'
    BY <1>0, <1>1, <1>2 DEF TypeOK
  <2>2. Fresh' /\ HasPacket' /\ DumperOpen' /\ OnTheWay'
    BY <1>1, <1>2 DEF Fresh, HasPacket, DumperOpen, OnTheWay
  <2>3. QED
    BY <2>1, <2>2 DEF Inv
<1>3. CASE ~(phase' = "exited" /\ UNCHANGED <<cmd, sources, running, disk, name, inode, pd>>)
  <2>1. PICK settings \in Settings, line \in CommandLines, broken \in {{}} \cup {{n} : n \in Names} :
          /\ ParseOptions(settings, line) # None
          /\ cmd' = ParseOptions(settings, line)
          /\ sources' = EepInit(cmd', broken) \o SetToSeq(cmd'.files)
                          \o SetToSeq(InputDevices(cmd', EepInit(cmd', broken)))
          /\ running' = [s \in Names |-> s \in Range(sources')]
          /\ disk' = IF cmd'.out /\ CanDump(sources') THEN <<<<>>>> ELSE <<>>
          /\ name' = Len(disk') /\ inode' = Len(disk')
          /\ pd' = IF disk' = <<>> THEN None ELSE [open |-> TRUE, inode |-> 1]
          /\ phase' = "running"
    BY <1>3, ZenonT(30) DEF Main
  <2>2. cmd' \in Configurations
    BY <2>1, ParseOptionsType
  <2>3. sources' \in Seq(Names)
    BY <2>1, <2>2, SourcesType
  <2>4. disk' \in Seq(Seq(Frames)) /\ Len(disk') \in Nat
    <3>1. <<>> \in Seq(Frames) /\ <<>> \in Seq(Seq(Frames))
      OBVIOUS
    <3>2. <<<<>>>> \in Seq(Seq(Frames))
      BY <3>1
    <3>3. disk' \in {<<<<>>>>, <<>>}
      BY <2>1
    <3>4. QED
      BY <3>1, <3>2, <3>3
  <2>5. pd' \in Dumpers \cup {None}
    BY <2>1 DEF Dumpers
  <2>6. running' \in [Names -> BOOLEAN]
    BY <2>1
  <2>7. TypeOK'
    BY <1>0, <1>1, <2>1, <2>2, <2>3, <2>4, <2>5, <2>6 DEF TypeOK
  <2>8. Fresh' /\ HasPacket'
    BY <1>1, <2>1 DEF Fresh, HasPacket
  <2>9. DumperOpen'
    <3>1. ASSUME pd' # None PROVE pd'.inode \in DOMAIN disk' /\ pd'.open
      <4>1. disk' = <<<<>>>> /\ pd' = [open |-> TRUE, inode |-> 1]
        BY <2>1, <3>1
      <4>2. QED
        BY <4>1
    <3>2. QED
      BY <1>1, <3>1 DEF DumperOpen
  <2>10. OnTheWay'
    BY <1>1 DEF OnTheWay, StoredOnTheWay, WrittenBefore
  <2>11. QED
    BY <2>7, <2>8, <2>9, <2>10 DEF Inv
<1>4. QED
  BY <1>2, <1>3

-------------------------------------------------------------------------------
(* Steps of the threads.                                                   *)

\* The parts of the invariant that say nothing when the program is not running.
LEMMA NotRunning ==
  ASSUME phase' # "running"
  PROVE  OnTheWay'
BY DEF OnTheWay

\* A step that leaves the disk, the dumper and the packets alone and moves one
\* thread on: it may not give up a packet it still has to write.
LEMMA MoveOn ==
  ASSUME Inv, phase # "init", NEW s \in Names, NEW to \in ThreadStates,
         pc' = [pc EXCEPT ![s] = to],
         to \notin {"read", "gone"} => pc[s] \notin {"read", "gone"},
         to # "lock",
         phase = "running" /\ pc[s] \in Pending => to \in Pending,
         UNCHANGED <<cmd, phase, sources, cancelled, paused, name, closing,
                     pkt, lock, pd, inode, disk, misuse, stored>>,
         reads' \in [Names -> Nat], running' \in [Names -> BOOLEAN], sighup' \in BOOLEAN
  PROVE  Inv'
<1>0. TypeOK /\ Fresh /\ HasPacket /\ DumperOpen /\ OnTheWay
  BY DEF Inv
<1>1. pc \in [Names -> ThreadStates]
  BY <1>0 DEF TypeOK
<1>2. /\ pc' \in [Names -> ThreadStates] /\ pc'[s] = to
      /\ \A t \in Names : t # s => pc'[t] = pc[t]
  BY <1>1
<1>3. TypeOK'
  BY <1>0, <1>2 DEF TypeOK
<1>4. HasPacket'
  BY <1>0, <1>2 DEF HasPacket
<1>5. DumperOpen' /\ Fresh'
  BY <1>0 DEF DumperOpen, Fresh
<1>6. OnTheWay'
  <2>1. SUFFICES ASSUME phase = "running", pd # None PROVE StoredOnTheWay' /\ WrittenBefore'
    BY DEF OnTheWay
  <2>2. StoredOnTheWay /\ WrittenBefore
    BY <1>0, <2>1 DEF OnTheWay
  <2>3. \A f : Written(f)' <=> Written(f)
    BY DEF Written
  <2>4. WrittenBefore'
    BY <1>2, <2>2, <2>3 DEF WrittenBefore
  <2>5. ASSUME NEW r \in stored
        PROVE  Written(r.frame)' \/ (pc'[r.source] \in Pending /\ pkt'[r.source].frame = r.frame)
    <3>1. r.source \in Names
      BY <1>0, KeptFields DEF TypeOK
    <3>2. Written(r.frame) \/ (pc[r.source] \in Pending /\ pkt[r.source].frame = r.frame)
      BY <2>2 DEF StoredOnTheWay
    <3>3. QED
      BY <1>2, <2>1, <2>3, <3>1, <3>2
  <2>6. StoredOnTheWay'
    BY <2>5 DEF StoredOnTheWay
  <2>7. QED
    BY <2>4, <2>6
<1>7. QED
  BY <1>3, <1>4, <1>5, <1>6 DEF Inv

\* A thread takes a packet.
LEMMA TakePacket ==
  ASSUME Inv, phase # "init", NEW s \in Names, NEW h \in Handled, NEW to \in {"lock", "early"},
         pc[s] = "read", pc' = [pc EXCEPT ![s] = to],
         to = "lock" => h.rest = "forward",
         pkt' = [pkt EXCEPT ![s] = h],
         UNCHANGED <<cmd, phase, sources, running, cancelled, paused, name, closing,
                     lock, pd, inode, disk, sighup, misuse, stored>>,
         reads' \in [Names -> Nat]
  PROVE  Inv'
<1>0. TypeOK /\ Fresh /\ HasPacket /\ DumperOpen /\ OnTheWay
  BY DEF Inv
<1>1. pc \in [Names -> ThreadStates] /\ pkt \in [Names -> Handled \cup {None}]
  BY <1>0 DEF TypeOK
<1>2. /\ pc' \in [Names -> ThreadStates] /\ pc'[s] = to
      /\ \A t \in Names : t # s => pc'[t] = pc[t]
  BY <1>1 DEF ThreadStates
<1>3. /\ pkt' \in [Names -> Handled \cup {None}] /\ pkt'[s] = h
      /\ \A t \in Names : t # s => pkt'[t] = pkt[t]
  BY <1>1
<1>4. TypeOK'
  BY <1>0, <1>2, <1>3 DEF TypeOK
<1>5. HasPacket'
  BY <1>0, <1>2, <1>3 DEF HasPacket
<1>6. DumperOpen' /\ Fresh'
  BY <1>0 DEF DumperOpen, Fresh
<1>7. OnTheWay'
  <2>1. SUFFICES ASSUME phase = "running", pd # None PROVE StoredOnTheWay' /\ WrittenBefore'
    BY DEF OnTheWay
  <2>2. StoredOnTheWay /\ WrittenBefore
    BY <1>0, <2>1 DEF OnTheWay
  <2>3. \A f : Written(f)' <=> Written(f)
    BY DEF Written
  <2>4. WrittenBefore'
    BY <1>2, <1>3, <2>2, <2>3 DEF WrittenBefore
  <2>5. ASSUME NEW r \in stored
        PROVE  Written(r.frame)' \/ (pc'[r.source] \in Pending /\ pkt'[r.source].frame = r.frame)
    <3>1. r.source \in Names
      BY <1>0, KeptFields DEF TypeOK
    <3>2. Written(r.frame) \/ (pc[r.source] \in Pending /\ pkt[r.source].frame = r.frame)
      BY <2>2 DEF StoredOnTheWay
    <3>3. pc[s] \notin Pending
      BY DEF Pending
    <3>4. QED
      BY <1>2, <1>3, <2>3, <3>1, <3>2, <3>3
  <2>6. StoredOnTheWay'
    BY <2>5 DEF StoredOnTheWay
  <2>7. QED
    BY <2>4, <2>6
<1>8. QED
  BY <1>4, <1>5, <1>6, <1>7 DEF Inv

\* capture_packet_parse.
LEMMA ParseStep ==
  ASSUME Inv, phase # "init", NEW s \in Names, Parse(s)
  PROVE  Inv'
<1> DEFINE sip == pkt[s].got.payload.sip
           to == IF sip THEN pkt[s].rest ELSE "done"
           new == [packet |-> pkt[s].packet, got |-> pkt[s].got, frame |-> pkt[s].frame,
                  via |-> pkt[s].via, source |-> s]
<1>0. TypeOK /\ Fresh /\ HasPacket /\ DumperOpen /\ OnTheWay
  BY DEF Inv
<1>1. pc \in [Names -> ThreadStates]
  BY <1>0 DEF TypeOK
<1>2. /\ pc[s] = "lock" /\ pc' = [pc EXCEPT ![s] = to] /\ lock' = s
      /\ stored' = IF sip THEN stored \cup {new} ELSE stored
      /\ UNCHANGED <<pkt, reads, pd, inode, disk, sighup, misuse>>
      /\ UNCHANGED <<cmd, phase, sources, running, cancelled, paused, name, closing>>
  BY DEF Parse, Step, Keep
<1>3. pkt[s] \in Handled
  BY <1>0, <1>2 DEF HasPacket
<1>4. new \in Kept
  BY <1>3, HandledFields DEF Kept
<1>5. pkt[s].rest \in {"forward", "done"}
  BY <1>3, HandledFields
<1>6. to \in {"forward", "done"} /\ (sip => to = pkt[s].rest)
  BY <1>5
<1>7. new.frame = pkt[s].frame /\ new.source = s
  OBVIOUS
<1>8. stored' \subseteq stored \cup {new} /\ (sip \/ stored' = stored)
  BY <1>2
<1>a. PICK kept \in Kept : kept = new
  BY <1>4
<1> HIDE DEF to, sip, new
<1>9. /\ pc' \in [Names -> ThreadStates] /\ pc'[s] = to
      /\ \A t \in Names : t # s => pc'[t] = pc[t]
  BY <1>1, <1>2, <1>6 DEF ThreadStates
<1>10. stored' \subseteq Kept
  BY <1>0, <1>4, <1>8 DEF TypeOK
<1>11. TypeOK'
  BY <1>0, <1>2, <1>9, <1>10 DEF TypeOK
<1>12. HasPacket'
  BY <1>0, <1>2, <1>3, <1>9 DEF HasPacket
<1>13. DumperOpen' /\ Fresh'
  BY <1>0, <1>2 DEF DumperOpen, Fresh
<1>14. OnTheWay'
  <2>1. SUFFICES ASSUME phase = "running", pd # None PROVE StoredOnTheWay' /\ WrittenBefore'
    BY <1>2 DEF OnTheWay
  <2>2. StoredOnTheWay /\ WrittenBefore
    BY <1>0, <2>1 DEF OnTheWay
  <2>3. \A f : Written(f)' <=> Written(f)
    BY <1>2 DEF Written
  <2>4. WrittenBefore'
    BY <1>2, <1>6, <1>9, <2>2, <2>3 DEF WrittenBefore
  <2>5. ASSUME NEW r \in stored
        PROVE  Written(r.frame)' \/ (pc'[r.source] \in Pending /\ pkt'[r.source].frame = r.frame)
    <3>1. r.source \in Names
      BY <1>0, KeptFields DEF TypeOK
    <3>2. Written(r.frame) \/ (pc[r.source] \in Pending /\ pkt[r.source].frame = r.frame)
      BY <2>2 DEF StoredOnTheWay
    <3>3. pc[s] \notin Pending
      BY <1>2 DEF Pending
    <3>4. QED
      BY <1>2, <1>9, <2>3, <3>1, <3>2, <3>3
  <2>6. ASSUME sip
        PROVE  Written(kept.frame)' \/ (pc'[kept.source] \in Pending /\ pkt'[kept.source].frame = kept.frame)
    <3>1. CASE pkt[s].rest = "done"
      <4>1. Written(pkt[s].frame)
        BY <1>2, <2>2, <3>1 DEF WrittenBefore
      <4>2. QED
        BY <1>2, <1>7, <1>a, <2>3, <4>1
    <3>2. CASE pkt[s].rest = "forward"
      BY <1>2, <1>6, <1>7, <1>a, <1>9, <2>6, <3>2 DEF Pending
    <3>3. QED
      BY <1>5, <3>1, <3>2
  <2>7. ASSUME NEW r \in stored'
        PROVE  Written(r.frame)' \/ (pc'[r.source] \in Pending /\ pkt'[r.source].frame = r.frame)
    <3>1. r \in stored \/ (sip /\ r = kept)
      BY <1>8, <1>a
    <3>2. QED
      BY <2>5, <2>6, <3>1
  <2>8. StoredOnTheWay'
    BY <2>7 DEF StoredOnTheWay
  <2>9. QED
    BY <2>4, <2>8
<1>15. QED
  BY <1>11, <1>12, <1>13, <1>14 DEF Inv

\* capture_dump_packet reopens the file: the packets written are still there.
LEMMA DumpSighupStep ==
  ASSUME Inv, phase # "init", NEW s \in Names, DumpSighup(s)
  PROVE  Inv'
<1>0. TypeOK /\ Fresh /\ HasPacket /\ DumperOpen /\ OnTheWay
  BY DEF Inv
<1>1. /\ Reopen(s) /\ misuse' \in BOOLEAN
      /\ UNCHANGED <<cmd, phase, sources, running, cancelled, paused, closing,
                     pkt, reads, lock, sighup, stored>>
  BY DEF DumpSighup
<1>2. PICK early \in BOOLEAN :
        /\ pc[s] = (IF early THEN "early" ELSE "dump")
        /\ pc' = [pc EXCEPT ![s] = IF early THEN "earlyClear" ELSE "clear"]
  BY DEF DumpSighup, Step
<1>3. pc \in [Names -> ThreadStates] /\ disk \in Seq(Seq(Frames)) /\ pd # None
  BY <1>0, <1>1 DEF TypeOK, Reopen
<1>4. /\ pc' \in [Names -> ThreadStates] /\ pc'[s] \in {"earlyClear", "clear"}
      /\ pc[s] \in Pending => pc'[s] \in Pending
      /\ pc[s] \in {"early", "dump"}
      /\ \A t \in Names : t # s => pc'[t] = pc[t]
  BY <1>2, <1>3 DEF ThreadStates, Pending
<1>5. /\ disk' \in Seq(Seq(Frames)) /\ inode' \in Nat /\ name' \in Nat
      /\ pd' \in Dumpers \cup {None}
      /\ pd' # None => pd'.inode \in DOMAIN disk' /\ (phase = "running" => pd'.open)
      /\ DOMAIN disk \subseteq DOMAIN disk' /\ \A i \in DOMAIN disk : disk'[i] = disk[i]
  <2>1. CASE UNCHANGED disk
    <3>1. pd' = pd \/ pd' = None
      BY <1>1, <2>1, <1>3 DEF Reopen
    <3>2. inode' \in Nat /\ name' \in Nat
      BY <1>0, <1>1, <2>1 DEF Reopen, TypeOK
    <3>3. QED
      BY <1>0, <1>3, <2>1, <3>1, <3>2 DEF DumperOpen, TypeOK
  <2>2. CASE ~UNCHANGED disk
    <3>1. /\ disk' = Append(disk, <<>>)
          /\ name' = Len(disk') /\ inode' = Len(disk')
          /\ pd' = [open |-> TRUE, inode |-> Len(disk')]
      BY <1>1, <2>2 DEF Reopen
    <3>2. /\ disk' \in Seq(Seq(Frames)) /\ DOMAIN disk \subseteq DOMAIN disk'
          /\ Len(disk') \in Nat /\ Len(disk') \in DOMAIN disk'
          /\ \A i \in DOMAIN disk : disk'[i] = disk[i]
      BY <1>3, <3>1, NewFile
    <3>3. QED
      BY <3>1, <3>2 DEF Dumpers
  <2>3. QED
    BY <2>1, <2>2
<1>6. TypeOK'
  BY <1>0, <1>1, <1>4, <1>5 DEF TypeOK
<1>7. HasPacket'
  BY <1>0, <1>1, <1>4 DEF HasPacket
<1>8. DumperOpen' /\ Fresh'
  BY <1>0, <1>1, <1>5 DEF DumperOpen, Fresh
<1>9. OnTheWay'
  <2>1. SUFFICES ASSUME phase = "running" PROVE StoredOnTheWay' /\ WrittenBefore'
    BY <1>1 DEF OnTheWay
  <2>2. StoredOnTheWay /\ WrittenBefore
    BY <1>0, <1>3, <2>1 DEF OnTheWay
  <2>3. \A f : Written(f) => Written(f)'
    BY <1>5 DEF Written
  <2>4. WrittenBefore'
    BY <1>1, <1>4, <2>2, <2>3 DEF WrittenBefore
  <2>5. ASSUME NEW r \in stored
        PROVE  Written(r.frame)' \/ (pc'[r.source] \in Pending /\ pkt'[r.source].frame = r.frame)
    <3>1. r.source \in Names
      BY <1>0, KeptFields DEF TypeOK
    <3>2. Written(r.frame) \/ (pc[r.source] \in Pending /\ pkt[r.source].frame = r.frame)
      BY <2>2 DEF StoredOnTheWay
    <3>3. QED
      BY <1>1, <1>4, <2>3, <3>1, <3>2
  <2>6. StoredOnTheWay'
    BY <1>1, <2>5 DEF StoredOnTheWay
  <2>7. QED
    BY <2>4, <2>6
<1>10. QED
  BY <1>6, <1>7, <1>8, <1>9 DEF Inv

\* dump_packet: what is written stays written, and the packet is added.
LEMMA WriteStep ==
  ASSUME Inv, phase # "init", NEW s \in Names, Write(s)
  PROVE  Inv'
<1>0. TypeOK /\ Fresh /\ HasPacket /\ DumperOpen /\ OnTheWay
  BY DEF Inv
<1>1. /\ UNCHANGED <<pkt, reads, lock, pd, inode, sighup, stored>>
      /\ UNCHANGED <<cmd, phase, sources, running, cancelled, paused, name, closing>>
  BY DEF Write, Keep
<1>2. PICK early \in BOOLEAN :
        /\ pc[s] = (IF early THEN "earlyWrite" ELSE "write")
        /\ pc' = [pc EXCEPT ![s] = IF early THEN "lock" ELSE "done"]
  BY DEF Write, Step
<1>3. pc \in [Names -> ThreadStates] /\ disk \in Seq(Seq(Frames))
  BY <1>0 DEF TypeOK
<1>4. /\ pc' \in [Names -> ThreadStates] /\ pc'[s] \in {"lock", "done"}
      /\ pc[s] \in {"earlyWrite", "write"}
      /\ \A t \in Names : t # s => pc'[t] = pc[t]
  BY <1>2, <1>3 DEF ThreadStates
<1>5. pkt[s] \in Handled /\ pkt[s].frame \in Frames
  BY <1>0, <1>4, HandledFields DEF HasPacket
<1>6. /\ disk' \in Seq(Seq(Frames)) /\ misuse' \in BOOLEAN
      /\ DOMAIN disk' = DOMAIN disk
      /\ \A i \in DOMAIN disk : Range(disk[i]) \subseteq Range(disk'[i])
      /\ phase = "running" /\ pd # None => \E i \in DOMAIN disk' : pkt[s].frame \in Range(disk'[i])
  <2>1. CASE pd # None /\ pd.open
    <3>1. disk' = Appended(disk, pd.inode, pkt[s].frame) /\ misuse' = misuse
      BY <2>1 DEF Write, Appended
    <3>2. pd.inode \in DOMAIN disk
      BY <1>0, <2>1 DEF DumperOpen
    <3>3. /\ disk' \in Seq(Seq(Frames)) /\ DOMAIN disk' = DOMAIN disk
          /\ pkt[s].frame \in Range(disk'[pd.inode])
          /\ \A i \in DOMAIN disk : Range(disk[i]) \subseteq Range(disk'[i])
      BY <1>3, <1>5, <3>1, <3>2, AppendToFile
    <3>4. misuse' \in BOOLEAN
      BY <1>0, <3>1 DEF TypeOK
    <3>5. QED
      BY <3>2, <3>3, <3>4
  <2>2. CASE ~(pd # None /\ pd.open)
    <3>1. disk' = disk /\ misuse' \in BOOLEAN
      BY <1>0, <2>2 DEF Write, TypeOK
    <3>2. ~(phase = "running" /\ pd # None)
      BY <1>0, <2>2 DEF DumperOpen
    <3>3. QED
      BY <1>3, <3>1, <3>2
  <2>3. QED
    BY <2>1, <2>2
<1>7. TypeOK'
  BY <1>0, <1>1, <1>4, <1>6 DEF TypeOK
<1>8. HasPacket'
  BY <1>0, <1>1, <1>4, <1>5 DEF HasPacket
<1>9. DumperOpen' /\ Fresh'
  BY <1>0, <1>1, <1>6 DEF DumperOpen, Fresh
<1>10. OnTheWay'
  <2>1. SUFFICES ASSUME phase = "running", pd # None PROVE StoredOnTheWay' /\ WrittenBefore'
    BY <1>1 DEF OnTheWay
  <2>2. StoredOnTheWay /\ WrittenBefore
    BY <1>0, <2>1 DEF OnTheWay
  <2>3. \A f : Written(f) => Written(f)'
    BY <1>6 DEF Written
  <2>4. \A f : f = pkt[s].frame => Written(f)'
    BY <1>6, <2>1 DEF Written
  <2>5. ASSUME NEW t \in Names, pc'[t] = "lock", pkt'[t].rest = "done" PROVE Written(pkt[t].frame)'
    <3>1. pkt'[t] = pkt[t]
      BY <1>1
    <3>2. CASE t = s
      BY <1>1, <2>4, <3>2
    <3>3. CASE t # s
      BY <1>1, <1>4, <2>2, <2>3, <2>5, <3>1, <3>3 DEF WrittenBefore
    <3>4. QED
      BY <3>2, <3>3
  <2>6. WrittenBefore'
    BY <2>5 DEF WrittenBefore
  <2>7. ASSUME NEW r \in stored
        PROVE  Written(r.frame)' \/ (pc'[r.source] \in Pending /\ pkt'[r.source].frame = r.frame)
    <3>1. r.source \in Names
      BY <1>0, KeptFields DEF TypeOK
    <3>2. Written(r.frame) \/ (pc[r.source] \in Pending /\ pkt[r.source].frame = r.frame)
      BY <2>2 DEF StoredOnTheWay
    <3>3. CASE r.source = s
      BY <2>3, <2>4, <3>2, <3>3
    <3>4. CASE r.source # s
      BY <1>1, <1>4, <2>3, <3>1, <3>2, <3>4
    <3>5. QED
      BY <3>3, <3>4
  <2>8. StoredOnTheWay'
    BY <1>1, <2>7 DEF StoredOnTheWay
  <2>9. QED
    BY <2>6, <2>8
<1>11. QED
  BY <1>7, <1>8, <1>9, <1>10 DEF Inv

\* capture_unlock: the packet is done with.
LEMMA UnlockStep ==
  ASSUME Inv, phase # "init", NEW s \in Names, Unlock(s)
  PROVE  Inv'
<1>0. TypeOK /\ Fresh /\ HasPacket /\ DumperOpen /\ OnTheWay
  BY DEF Inv
<1>1. /\ pc[s] = "done" /\ pc' = [pc EXCEPT ![s] = "read"]
      /\ lock' = None /\ pkt' = [pkt EXCEPT ![s] = None]
      /\ UNCHANGED <<reads, pd, inode, disk, sighup, misuse, stored>>
      /\ UNCHANGED <<cmd, phase, sources, running, cancelled, paused, name, closing>>
  BY DEF Unlock, Step, Keep
<1>2. pc \in [Names -> ThreadStates] /\ pkt \in [Names -> Handled \cup {None}]
  BY <1>0 DEF TypeOK
<1>3. /\ pc' \in [Names -> ThreadStates] /\ pc'[s] = "read"
      /\ \A t \in Names : t # s => pc'[t] = pc[t]
  BY <1>1, <1>2 DEF ThreadStates
<1>4. pkt' \in [Names -> Handled \cup {None}] /\ \A t \in Names : t # s => pkt'[t] = pkt[t]
  BY <1>1, <1>2
<1>5. TypeOK'
  BY <1>0, <1>1, <1>3, <1>4 DEF TypeOK
<1>6. HasPacket'
  BY <1>0, <1>3, <1>4 DEF HasPacket
<1>7. DumperOpen' /\ Fresh'
  BY <1>0, <1>1 DEF DumperOpen, Fresh
<1>8. OnTheWay'
  <2>1. SUFFICES ASSUME phase = "running", pd # None PROVE StoredOnTheWay' /\ WrittenBefore'
    BY <1>1 DEF OnTheWay
  <2>2. StoredOnTheWay /\ WrittenBefore
    BY <1>0, <2>1 DEF OnTheWay
  <2>3. \A f : Written(f)' <=> Written(f)
    BY <1>1 DEF Written
  <2>4. ASSUME NEW t \in Names, pc'[t] = "lock", pkt'[t].rest = "done" PROVE Written(pkt[t].frame)'
    <3>1. t # s /\ pc[t] = "lock" /\ pkt'[t] = pkt[t]
      BY <1>3, <1>4, <2>4
    <3>2. Written(pkt[t].frame)
      BY <2>2, <2>4, <3>1 DEF WrittenBefore
    <3>3. PICK f : f = pkt[t].frame
      OBVIOUS
    <3>4. QED
      BY <2>3, <3>1, <3>2, <3>3
  <2>5. WrittenBefore'
    BY <2>4 DEF WrittenBefore
  <2>6. ASSUME NEW r \in stored
        PROVE  Written(r.frame)' \/ (pc'[r.source] \in Pending /\ pkt'[r.source].frame = r.frame)
    <3>1. r.source \in Names
      BY <1>0, KeptFields DEF TypeOK
    <3>2. Written(r.frame) \/ (pc[r.source] \in Pending /\ pkt[r.source].frame = r.frame)
      BY <2>2 DEF StoredOnTheWay
    <3>3. pc[s] \notin Pending
      BY <1>1 DEF Pending
    <3>4. QED
      BY <1>3, <1>4, <2>3, <3>1, <3>2, <3>3
  <2>7. StoredOnTheWay'
    BY <1>1, <2>6 DEF StoredOnTheWay
  <2>8. QED
    BY <2>5, <2>7
<1>9. QED
  BY <1>5, <1>6, <1>7, <1>8 DEF Inv

-------------------------------------------------------------------------------
(* Every step.                                                             *)

\* The packets of the threads that read, and of the listener.
LEMMA CapturedPacket ==
  ASSUME NEW p \in Packets
  PROVE  [packet |-> p, got |-> p, frame |-> p, via |-> "wire", rest |-> "forward"] \in Handled
BY DEF Handled, Origins, Captured, Frames

LEMMA ReceivedPacket ==
  ASSUME NEW d \in Datagrams, NEW got \in Received, NEW rest \in {"forward", "done"}
  PROVE  [packet |-> d.of, got |-> got, frame |-> BuildFrameData(got), via |-> "hep", rest |-> rest] \in Handled
<1>1. d.of \in Origins /\ got \in Captured /\ BuildFrameData(got) \in Frames
  BY DEF Origins, Captured, Frames
<1>2. QED
  BY <1>1 DEF Handled

LEMMA ThreadStep ==
  ASSUME Inv, phase \in {"running", "closing"}, NEW s \in Range(sources), Thread(s)
  PROVE  Inv'
<1>0. TypeOK /\ HasPacket /\ DumperOpen /\ phase # "init"
  BY DEF Inv
<1>1. s \in Names
  <2>1. sources \in Seq(Names)
    BY <1>0 DEF TypeOK
  <2>2. QED
    BY <2>1 DEF Range
<1>2. /\ pc \in [Names -> ThreadStates] /\ reads \in [Names -> Nat]
      /\ running \in [Names -> BOOLEAN] /\ sighup \in BOOLEAN
  BY <1>0 DEF TypeOK
<1>3. [reads EXCEPT ![s] = @ + 1] \in [Names -> Nat]
  BY <1>1, <1>2
<1>4. CASE Capture(s)
  <2>1. PICK p \in Packets, skip \in {paused, TRUE} :
          IF skip THEN Step(s, "read", "read") /\ UNCHANGED pkt
          ELSE Step(s, "read", "lock")
               /\ pkt' = [pkt EXCEPT ![s] = [packet |-> p, got |-> p, frame |-> p,
                                             via |-> "wire", rest |-> "forward"]]
    BY <1>4 DEF Capture
  <2>2. /\ reads' \in [Names -> Nat] /\ pc[s] = "read"
        /\ UNCHANGED <<lock, pd, inode, disk, sighup, misuse, stored>>
        /\ UNCHANGED <<cmd, phase, sources, running, cancelled, paused, name, closing>>
    BY <1>3, <1>4, <2>1 DEF Capture, Keep, Step
  <2>3. CASE skip
    <3>1. pc' = [pc EXCEPT ![s] = "read"] /\ UNCHANGED pkt
      BY <2>1, <2>3 DEF Step
    <3>2. QED
      BY <1>0, <1>1, <1>2, <2>2, <3>1, MoveOn DEF ThreadStates, Pending
  <2>4. CASE ~skip
    <3> DEFINE h == [packet |-> p, got |-> p, frame |-> p, via |-> "wire", rest |-> "forward"]
    <3>1. pc' = [pc EXCEPT ![s] = "lock"] /\ pkt' = [pkt EXCEPT ![s] = h]
      BY <2>1, <2>4 DEF Step
    <3>2. h \in Handled /\ h.rest = "forward"
      BY CapturedPacket
    <3> HIDE DEF h
    <3>3. QED
      BY <1>0, <1>1, <2>2, <3>1, <3>2, TakePacket
  <2>5. QED
    BY <2>3, <2>4
<1>5. CASE CaptureEncapsulated(s)
  <2> DEFINE password == IF Hep \in Range(sources) THEN ListenPassword ELSE None
  <2>1. PICK d \in Datagrams :
          /\ ReceiveV3(d.data, password) # None
          /\ pkt' = [pkt EXCEPT ![s] = [packet |-> d.of, got |-> ReceiveV3(d.data, password),
                                        frame |-> BuildFrameData(ReceiveV3(d.data, password)),
                                        via |-> "hep", rest |-> "forward"]]
    BY <1>5 DEF CaptureEncapsulated
  <2>2. /\ reads' \in [Names -> Nat] /\ pc[s] = "read" /\ pc' = [pc EXCEPT ![s] = "early"]
        /\ UNCHANGED <<lock, pd, inode, disk, sighup, misuse, stored>>
        /\ UNCHANGED <<cmd, phase, sources, running, cancelled, paused, name, closing>>
    BY <1>3, <1>5 DEF CaptureEncapsulated, Keep, Step
  <2>3. password \in {None, ListenPassword}
    OBVIOUS
  <2> HIDE DEF password
  <2>4. PICK got : got = ReceiveV3(d.data, password)
    OBVIOUS
  <2>5. got \in Received
    BY <2>1, <2>3, <2>4 DEF Received
  <2> DEFINE h == [packet |-> d.of, got |-> got, frame |-> BuildFrameData(got),
                   via |-> "hep", rest |-> "forward"]
  <2>6. h \in Handled
    BY <2>5, ReceivedPacket
  <2>7. pkt' = [pkt EXCEPT ![s] = h]
    BY <2>1, <2>4
  <2> HIDE DEF h
  <2>8. QED
    BY <1>0, <1>1, <2>2, <2>6, <2>7, TakePacket
<1>6. CASE Handle(s)
  <2>1. CASE Parse(s)
    BY <1>0, <1>1, <2>1, ParseStep
  <2>2. CASE Forward(s)
    BY <1>0, <1>1, <1>2, <2>2, MoveOn DEF Forward, Step, Keep, ThreadStates, Pending
  <2>3. CASE DumpSighup(s)
    BY <1>0, <1>1, <2>3, DumpSighupStep
  <2>4. CASE ClearSighup(s)
    <3>1. PICK to \in {"earlyWrite", "write"} :
            /\ pc' = [pc EXCEPT ![s] = to] /\ pc[s] \in {"earlyClear", "clear"}
            /\ pc[s] = "clear" => to = "write"
      BY <2>4 DEF ClearSighup, Step
    <3>2. QED
      BY <1>0, <1>1, <1>2, <2>4, <3>1, MoveOn DEF ClearSighup, Keep, ThreadStates, Pending
  <2>5. CASE NoSighup(s)
    <3>1. PICK to \in {"earlyWrite", "write"} :
            /\ pc' = [pc EXCEPT ![s] = to] /\ pc[s] \in {"early", "dump"}
            /\ pc[s] = "dump" => to = "write"
      BY <2>5 DEF NoSighup, Step
    <3>2. QED
      BY <1>0, <1>1, <1>2, <2>5, <3>1, MoveOn DEF NoSighup, Keep, ThreadStates, Pending
  <2>6. CASE Write(s)
    BY <1>0, <1>1, <2>6, WriteStep
  <2>7. CASE Unlock(s)
    BY <1>0, <1>1, <2>7, UnlockStep
  <2>8. QED
    BY <1>6, <2>1, <2>2, <2>3, <2>4, <2>5, <2>6, <2>7 DEF Handle
<1>7. CASE EndOfFile(s)
  <2>1. running' \in [Names -> BOOLEAN]
    BY <1>1, <1>2, <1>7 DEF EndOfFile
  <2>2. QED
    BY <1>0, <1>1, <1>2, <1>7, <2>1, MoveOn DEF EndOfFile, Step, ThreadStates, Pending
<1>8. CASE Cancel(s)
  <2>1. pc' = [pc EXCEPT ![s] = "gone"] /\ cancelled[s]
    BY <1>8 DEF Cancel, Step
  <2>2. phase # "running"
    BY <1>0, <1>1, <2>1 DEF DumperOpen
  <2>3. QED
    BY <1>0, <1>1, <1>2, <1>8, <2>1, <2>2, MoveOn DEF Cancel, Keep, ThreadStates, Pending
<1>9. QED
  BY <1>4, <1>5, <1>6, <1>7, <1>8 DEF Thread

LEMMA ListenStep ==
  ASSUME Inv, phase \in {"running", "closing"}, Listen
  PROVE  Inv'
<1>0. TypeOK /\ Fresh /\ HasPacket /\ DumperOpen /\ phase # "init"
  BY DEF Inv
<1>1. Hep \in Names
  <2>1. sources \in Seq(Names)
    BY <1>0 DEF TypeOK
  <2>2. QED
    BY <2>1 DEF Listen, Range
<1>2. pc \in [Names -> ThreadStates] /\ reads \in [Names -> Nat]
  BY <1>0 DEF TypeOK
<1>3. /\ reads' \in [Names -> Nat] /\ pc[Hep] = "read"
      /\ UNCHANGED <<cmd, sources, running, cancelled, paused, name, closing,
                     lock, pd, inode, disk, sighup, misuse, stored>>
  BY <1>1, <1>2 DEF Listen
<1>4. PICK d \in Datagrams :
        LET got == Receive(d.data, cmd.version, ListenPassword)
        IN  CASE got = None -> Step(Hep, "read", "read") /\ UNCHANGED <<phase, pkt>>
              [] got = Crash -> phase' = "crashed" /\ UNCHANGED <<pc, pkt>>
              [] OTHER -> /\ Step(Hep, "read", "early") /\ UNCHANGED phase
                          /\ pkt' = [pkt EXCEPT ![Hep] =
                                       [packet |-> d.of, got |-> got,
                                        frame |-> BuildFrameData(got), via |-> "hep", rest |-> "done"]]
  BY Zenon DEF Listen
<1>5. PICK got : got = Receive(d.data, cmd.version, ListenPassword)
  OBVIOUS
<1>6. CASE got = None
  <2>0. None # Crash
    BY PeersAssumption
  <2>1. pc' = [pc EXCEPT ![Hep] = "read"] /\ UNCHANGED <<phase, pkt>>
    BY <1>4, <1>5, <1>6, <2>0 DEF Step
  <2>2. running \in [Names -> BOOLEAN] /\ sighup \in BOOLEAN
    BY <1>0 DEF TypeOK
  <2>3. QED
    BY <1>0, <1>1, <1>3, <2>1, <2>2, MoveOn DEF ThreadStates, Pending
<1>7. CASE got # None /\ got = Crash
  <2>1. phase' = "crashed" /\ UNCHANGED <<pc, pkt>>
    BY <1>4, <1>5, <1>7
  <2>2. TypeOK'
    BY <1>0, <1>3, <2>1 DEF TypeOK
  <2>3. HasPacket' /\ DumperOpen' /\ Fresh' /\ OnTheWay'
    BY <1>0, <1>3, <2>1 DEF HasPacket, DumperOpen, Fresh, OnTheWay
  <2>4. QED
    BY <2>2, <2>3 DEF Inv
<1>8. CASE got # None /\ got # Crash
  <2> DEFINE h == [packet |-> d.of, got |-> got, frame |-> BuildFrameData(got),
                   via |-> "hep", rest |-> "done"]
  <2>1. /\ pc' = [pc EXCEPT ![Hep] = "early"] /\ UNCHANGED phase
        /\ pkt' = [pkt EXCEPT ![Hep] = h]
    BY <1>4, <1>5, <1>8 DEF Step
  <2>2. got \in Received
    BY <1>5, <1>8 DEF Received, Receive
  <2>3. h \in Handled
    BY <2>2, ReceivedPacket
  <2> HIDE DEF h
  <2>4. QED
    BY <1>0, <1>1, <1>3, <2>1, <2>3, TakePacket
<1>9. QED
  BY <1>6, <1>7, <1>8

\* A step of the main thread, or of the host, that leaves the threads and the
\* disk alone.
LEMMA MainThreadStep ==
  ASSUME Inv, phase \in {"running", "closing"},
         TogglePause \/ Close \/ Stopping \/ Rotate \/ Hangup
  PROVE  Inv'
<1>0. TypeOK /\ Fresh /\ HasPacket /\ DumperOpen /\ OnTheWay
  BY DEF Inv
<1>1. /\ UNCHANGED <<cmd, sources, pc, pkt, reads, running, lock, inode, disk, misuse, stored>>
      /\ phase' \in {"running", "closing", "exited"} /\ (phase' = "running" => phase = "running")
  BY DEF TogglePause, Close, Stopping, CancelNext, JoinNext, Exit, Rotate, Hangup, threads, output
<1>2. paused' \in BOOLEAN /\ sighup' \in BOOLEAN /\ name' \in Nat
  <2>1. paused \in BOOLEAN /\ sighup \in BOOLEAN /\ name \in Nat
    BY <1>0 DEF TypeOK
  <2>2. paused' \in {paused, ~paused} /\ sighup' \in {sighup, TRUE} /\ name' \in {name, 0}
    BY DEF TogglePause, Close, Stopping, CancelNext, JoinNext, Exit, Rotate, Hangup, output
  <2>3. (~paused) \in BOOLEAN
    OBVIOUS
  <2>4. name' \in Nat
    BY <2>1, <2>2
  <2>5. QED
    BY <2>1, <2>2, <2>3, <2>4, Zenon
<1>3. closing' \in Seq(Names)
  <2>1. closing \in Seq(Names) /\ sources \in Seq(Names)
    BY <1>0 DEF TypeOK
  <2>2. closing' \in {closing, sources} \/ (closing # <<>> /\ closing' = Tail(closing))
    BY DEF TogglePause, Close, Stopping, CancelNext, JoinNext, Exit, Rotate, Hangup
  <2>3. closing # <<>> => Tail(closing) \in Seq(Names)
    BY <2>1
  <2>4. QED
    BY <2>1, <2>2, <2>3
<1>4. /\ cancelled' \in [Names -> BOOLEAN]
      /\ phase' = "running" => cancelled' = cancelled
  <2>1. cancelled \in [Names -> BOOLEAN]
    BY <1>0 DEF TypeOK
  <2>2. cancelled' = cancelled
          \/ (phase' # "running" /\ \E t : cancelled' = [cancelled EXCEPT ![t] = TRUE])
    BY DEF TogglePause, Close, Stopping, CancelNext, JoinNext, Exit, Rotate, Hangup, threads
  <2>3. QED
    BY <2>1, <2>2
<1>5. /\ pd' \in Dumpers \cup {None}
      /\ pd' # None => pd # None /\ pd'.inode = pd.inode
      /\ phase' = "running" => pd' = pd
  <2>1. pd \in Dumpers \cup {None}
    BY <1>0 DEF TypeOK
  <2>2. pd' = pd \/ (phase' # "running" /\ pd # None /\ pd' = [pd EXCEPT !.open = FALSE])
    BY DEF TogglePause, Close, Stopping, CancelNext, JoinNext, Exit, Rotate, Hangup, output
  <2>3. pd # None => /\ [pd EXCEPT !.open = FALSE] \in Dumpers
                     /\ [pd EXCEPT !.open = FALSE].inode = pd.inode
    BY <2>1 DEF Dumpers
  <2>4. QED
    BY <2>1, <2>2, <2>3
<1>6. TypeOK'
  BY <1>0, <1>1, <1>2, <1>3, <1>4, <1>5 DEF TypeOK
<1>7. HasPacket' /\ Fresh'
  BY <1>0, <1>1 DEF HasPacket, Fresh
<1>8. DumperOpen'
  BY <1>0, <1>1, <1>4, <1>5 DEF DumperOpen
<1>9. OnTheWay'
  <2>1. SUFFICES ASSUME phase' = "running", pd' # None PROVE StoredOnTheWay' /\ WrittenBefore'
    BY DEF OnTheWay
  <2>2. StoredOnTheWay /\ WrittenBefore
    BY <1>0, <1>1, <1>5, <2>1 DEF OnTheWay
  <2>3. QED
    BY <1>1, <2>2 DEF StoredOnTheWay, WrittenBefore, Written
<1>10. QED
  BY <1>6, <1>7, <1>8, <1>9 DEF Inv

LEMMA InitInv == Init => Inv
<1>1. SUFFICES ASSUME Init PROVE Inv
  OBVIOUS
<1>2. <<>> \in Seq(Names) /\ <<>> \in Seq(Seq(Frames))
  OBVIOUS
<1>3. TypeOK
  BY <1>1, <1>2 DEF Init, TypeOK, ThreadStates
<1>4. Fresh /\ HasPacket /\ DumperOpen /\ OnTheWay
  BY <1>1 DEF Init, Fresh, HasPacket, DumperOpen, OnTheWay
<1>5. QED
  BY <1>3, <1>4 DEF Inv

LEMMA StutterInv ==
  ASSUME Inv, UNCHANGED vars
  PROVE  Inv'
<1>1. UNCHANGED <<cmd, phase, sources, pc, pkt, reads, running, cancelled, lock, paused,
                  pd, inode, name, disk, sighup, misuse, closing, stored>>
  BY DEF vars, threads, output
<1>2. TypeOK'
  BY <1>1 DEF Inv, TypeOK
<1>3. Fresh' /\ HasPacket' /\ DumperOpen'
  BY <1>1 DEF Inv, Fresh, HasPacket, DumperOpen
<1>4. OnTheWay'
  BY <1>1 DEF Inv, OnTheWay, StoredOnTheWay, WrittenBefore, Written
<1>5. QED
  BY <1>2, <1>3, <1>4 DEF Inv

LEMMA NextInv ==
  ASSUME Inv, [Next]_vars
  PROVE  Inv'
<1>1. CASE Main
  BY <1>1, MainStep
<1>2. CASE phase \in {"running", "closing"} /\ \E s \in Range(sources) : Thread(s)
  BY <1>2, ThreadStep
<1>3. CASE phase \in {"running", "closing"} /\ Listen
  BY <1>3, ListenStep
<1>4. CASE phase \in {"running", "closing"} /\ (TogglePause \/ Close \/ Stopping \/ Rotate \/ Hangup)
  BY <1>4, MainThreadStep
<1>5. CASE UNCHANGED vars
  BY <1>5, StutterInv
<1>6. QED
  BY <1>1, <1>2, <1>3, <1>4, <1>5, Zenon DEF Next

\* The invariant holds of every run of the program.
THEOREM Invariance == Spec => []Inv
<1>1. Init => Inv
  BY InitInv
<1>2. Inv /\ [Next]_vars => Inv'
  BY NextInv
<1>3. QED
  BY <1>1, <1>2, PTL DEF Spec

\* The variables keep their types.
THEOREM TypeCorrect == Spec => []TypeOK
<1>1. Inv => TypeOK
  BY DEF Inv
<1>2. QED
  BY <1>1, Invariance, PTL

\* While the program runs every SIP packet a thread has stored and is done with
\* is in the output file, whatever the other threads, SIGHUP and the rotation
\* of the file do, unless a reopening failed.
THEOREM StoredPacketsWritten == Spec => []StoredIsWritten
<1>1. Inv => StoredIsWritten
  <2>1. SUFFICES ASSUME Inv, NEW r \in stored, phase = "running", pd # None, pc[r.source] = "read"
                 PROVE  \E i \in DOMAIN disk : r.frame \in Range(disk[i])
    BY DEF StoredIsWritten
  <2>2. Written(r.frame) \/ pc[r.source] \in Pending
    BY <2>1 DEF Inv, OnTheWay, StoredOnTheWay
  <2>3. QED
    BY <2>1, <2>2 DEF Written, Pending
<1>2. QED
  BY <1>1, Invariance, PTL

-------------------------------------------------------------------------------
(* The output file only grows.                                             *)

DiskGrows == \A i \in DOMAIN disk : i \in DOMAIN disk' /\ IsPrefix(disk[i], disk'[i])

LEMMA Unwritten ==
  ASSUME TypeOK, UNCHANGED disk
  PROVE  DiskGrows
<1>1. disk \in Seq(Seq(Frames))
  BY DEF TypeOK
<1>2. ASSUME NEW i \in DOMAIN disk PROVE Len(disk[i]) \in Nat
  BY <1>1
<1>3. QED
  BY <1>2 DEF DiskGrows, IsPrefix

LEMMA NextGrows ==
  ASSUME Inv, [Next]_vars
  PROVE  DiskGrows
<1>0. TypeOK /\ Fresh /\ HasPacket /\ DumperOpen
  BY DEF Inv
<1>1. disk \in Seq(Seq(Frames))
  BY <1>0 DEF TypeOK
<1>2. CASE Main
  BY <1>0, <1>2 DEF Main, Fresh, DiskGrows
<1>3. ASSUME NEW s \in Range(sources), DumpSighup(s) PROVE DiskGrows
  <2>1. UNCHANGED disk \/ disk' = Append(disk, <<>>)
    BY <1>3 DEF DumpSighup, Reopen
  <2>2. CASE disk' = Append(disk, <<>>)
    <3>1. DOMAIN disk \subseteq DOMAIN disk' /\ \A i \in DOMAIN disk : IsPrefix(disk[i], disk'[i])
      BY <1>1, <2>2, NewFile
    <3>2. QED
      BY <3>1 DEF DiskGrows
  <2>3. QED
    BY <1>0, <2>1, <2>2, Unwritten
<1>4. ASSUME NEW s \in Range(sources), Write(s) PROVE DiskGrows
  <2>1. CASE pd # None /\ pd.open
    <3>1. disk' = Appended(disk, pd.inode, pkt[s].frame)
      BY <1>4, <2>1 DEF Write, Appended
    <3>2. pd.inode \in DOMAIN disk
      BY <1>0, <2>1 DEF DumperOpen
    <3>3. sources \in Seq(Names) /\ pc[s] \in {"earlyWrite", "write"}
      BY <1>0, <1>4 DEF TypeOK, Write, Step
    <3>4. s \in Names
      BY <3>3 DEF Range
    <3>5. pkt[s].frame \in Frames
      BY <1>0, <3>3, <3>4, HandledFields DEF HasPacket
    <3>6. DOMAIN disk' = DOMAIN disk /\ \A i \in DOMAIN disk : IsPrefix(disk[i], disk'[i])
      BY <1>1, <3>1, <3>2, <3>5, AppendToFile
    <3>7. QED
      BY <3>6 DEF DiskGrows
  <2>2. CASE ~(pd # None /\ pd.open)
    <3>1. UNCHANGED disk
      BY <1>4, <2>2 DEF Write
    <3>2. QED
      BY <1>0, <3>1, Unwritten
  <2>3. QED
    BY <2>1, <2>2
<1>5. ASSUME NEW s \in Range(sources), Thread(s), ~DumpSighup(s), ~Write(s) PROVE DiskGrows
  <2>1. UNCHANGED disk
    BY <1>5 DEF Thread, Handle, Capture, CaptureEncapsulated, Parse, Forward, ClearSighup, NoSighup,
                Unlock, EndOfFile, Cancel
  <2>2. QED
    BY <1>0, <2>1, Unwritten
<1>6. CASE Listen
  BY <1>0, <1>6, Unwritten DEF Listen
<1>7. CASE TogglePause \/ Close \/ Stopping \/ Rotate \/ Hangup
  <2>1. UNCHANGED disk
    BY <1>7 DEF TogglePause, Close, Stopping, CancelNext, JoinNext, Exit, Rotate, Hangup, output
  <2>2. QED
    BY <1>0, <2>1, Unwritten
<1>8. CASE UNCHANGED vars
  BY <1>0, <1>8, Unwritten DEF vars, output
<1>9. QED
  BY <1>2, <1>3, <1>4, <1>5, <1>6, <1>7, <1>8 DEF Next

\* Whatever threads write and reopen, and however the file is renamed, no packet
\* ever leaves a file it was written to.
THEOREM FilesOnlyGrow == Spec => OutputOnlyGrows
<1>1. Inv /\ [Next]_vars => [DiskGrows]_vars
  BY NextGrows
<1>2. Spec => [][DiskGrows]_vars
  BY <1>1, Invariance, PTL DEF Spec
<1>3. QED
  BY <1>2 DEF OutputOnlyGrows, DiskGrows
-------------------------------------------------------------------------------
(* The encapsulation: what capture_eep_receive makes of what                *)
(* capture_eep_send sent.                                                   *)

\* Concatenation and length are kept closed for the provers.
Cat(a, b) == a \o b
OfLength(x, n, S) == x \in Seq(S) /\ n \in Nat /\ n = Len(x)

LEMMA Joint ==
  ASSUME NEW S, NEW a, NEW b, NEW m, NEW n, OfLength(a, m, S), OfLength(b, n, S)
  PROVE  OfLength(Cat(a, b), m + n, S)
BY DEF Cat, OfLength

LEMMA JointLeft ==
  ASSUME NEW S, NEW a, NEW b, NEW m, NEW n, OfLength(a, m, S), OfLength(b, n, S), NEW i \in 1 .. m
  PROVE  Cat(a, b)[i] = a[i]
BY DEF Cat, OfLength

LEMMA JointRight ==
  ASSUME NEW S, NEW a, NEW b, NEW m, NEW n, OfLength(a, m, S), OfLength(b, n, S),
         NEW i \in m + 1 .. m + n
  PROVE  Cat(a, b)[i] = b[i - m]
BY DEF Cat, OfLength

\* The items of a datagram: eight of a fixed length, two addresses, at most one
\* password and the payload.
IsList(s, n, S, c1, c2, c3, c4, c5, c6, c7, c8, c9, c10, auth, last) ==
  /\ OfLength(s, n + 11, S)
  /\ s[1] = c1 /\ s[2] = c2 /\ s[3] = c3 /\ s[4] = c4 /\ s[5] = c5 /\ s[6] = c6
  /\ s[7] = c7 /\ s[8] = c8 /\ s[9] = c9 /\ s[10] = c10
  /\ n > 0 => s[11] = auth[1]
  /\ s[n + 11] = last

LEMMA ListItems ==
  ASSUME NEW S, NEW c1 \in S, NEW c2 \in S, NEW c3 \in S, NEW c4 \in S, NEW c5 \in S, NEW c6 \in S,
         NEW c7 \in S, NEW c8 \in S, NEW c9 \in S, NEW c10 \in S, NEW last \in S,
         NEW auth, NEW n \in Nat, OfLength(auth, n, S)
  PROVE  IsList(Cat(Cat(Cat(<<c1, c2, c3, c4, c5, c6, c7, c8>>, <<c9, c10>>), auth), <<last>>),
                n, S, c1, c2, c3, c4, c5, c6, c7, c8, c9, c10, auth, last)
<1> DEFINE a == <<c1, c2, c3, c4, c5, c6, c7, c8>>
           b == <<c9, c10>>
           e == <<last>>
           u == Cat(a, b)
           v == Cat(u, auth)
           s == Cat(v, e)
<1>1. OfLength(a, 8, S) /\ OfLength(b, 2, S) /\ OfLength(e, 1, S)
  BY DEF OfLength
<1>2. /\ a[1] = c1 /\ a[2] = c2 /\ a[3] = c3 /\ a[4] = c4 /\ a[5] = c5 /\ a[6] = c6
      /\ a[7] = c7 /\ a[8] = c8 /\ b[1] = c9 /\ b[2] = c10 /\ e[1] = last
  OBVIOUS
<1> HIDE DEF a, b, e
<1>3. OfLength(u, 10, S)
  <2>1. OfLength(u, 8 + 2, S)
    BY <1>1, Joint
  <2>2. 8 + 2 = 10
    OBVIOUS
  <2>3. QED
    BY <2>1, <2>2
<1>4. \A i \in 1 .. 8 : u[i] = a[i]
  BY <1>1, JointLeft
<1>5. \A i \in 9 .. 10 : u[i] = b[i - 8]
  BY <1>1, JointRight
<1> HIDE DEF u
<1>6. OfLength(v, 10 + n, S)
  BY <1>3, Joint
<1>7. \A i \in 1 .. 10 : v[i] = u[i]
  BY <1>3, JointLeft
<1>8. \A i \in 11 .. 10 + n : v[i] = auth[i - 10]
  BY <1>3, JointRight
<1> HIDE DEF v
<1>9. OfLength(s, (10 + n) + 1, S)
  BY <1>1, <1>6, Joint
<1>10. \A i \in 1 .. 10 + n : s[i] = v[i]
  BY <1>1, <1>6, JointLeft
<1>11. s[n + 11] = e[1]
  BY <1>1, <1>6, JointRight
<1> HIDE DEF s
<1>12. /\ s[1] = c1 /\ s[2] = c2 /\ s[3] = c3 /\ s[4] = c4 /\ s[5] = c5 /\ s[6] = c6
       /\ s[7] = c7 /\ s[8] = c8 /\ s[9] = c9 /\ s[10] = c10
  BY <1>2, <1>4, <1>5, <1>7, <1>10
<1>13. n > 0 => s[11] = auth[1]
  BY <1>8, <1>10
<1>14. (10 + n) + 1 = n + 11
  OBVIOUS
<1>15. IsList(s, n, S, c1, c2, c3, c4, c5, c6, c7, c8, c9, c10, auth, last)
  BY <1>2, <1>9, <1>11, <1>12, <1>13, <1>14 DEF IsList
<1>16. s = Cat(Cat(Cat(<<c1, c2, c3, c4, c5, c6, c7, c8>>, <<c9, c10>>), auth), <<last>>)
  BY DEF s, v, u, a, b, e
<1>17. QED
  BY <1>15, <1>16

\* Every chunk starts where the one before it ends.
LEMMA StartFacts ==
  ASSUME NEW d, NEW n \in Nat, n = Len(d.chunks), \A j \in 1 .. n : d.chunks[j].len \in Nat
  PROVE  /\ Start(d, 1) = CtrlSize
         /\ \A j \in 1 .. n : Start(d, j) \in Nat /\ Start(d, j + 1) = Start(d, j) + d.chunks[j].len
<1> DEFINE eq(f) == [j \in 0 .. Len(d.chunks) |-> IF j = 0 THEN CtrlSize ELSE f[j - 1] + d.chunks[j].len]
           F == CHOOSE f : f = eq(f)
           step == [j \in 1 .. n |-> [x \in Nat |-> x + d.chunks[j].len]]
<1>1. \A i : Start(d, i) = F[i - 1]
  BY Zenon DEF Start
<1>2. step \in [1 .. n -> [Nat -> Nat]] /\ \A j \in 1 .. n : \A x \in Nat : step[j][x] = x + d.chunks[j].len
  OBVIOUS
<1>3. CtrlSize \in Nat
  BY DEF CtrlSize
<1> HIDE DEF step
<1>4. PICK f : IsRecursion(f, n, Nat, CtrlSize, step)
  BY <1>2, <1>3, RecursiveFunction
<1>5. f \in [0 .. n -> Nat] /\ f[0] = CtrlSize /\ \A j \in 1 .. n : f[j] = step[j][f[j - 1]]
  BY <1>4 DEF IsRecursion
<1>6. ASSUME NEW j \in 1 .. n PROVE f[j - 1] \in Nat /\ f[j] = f[j - 1] + d.chunks[j].len
  <2>1. j - 1 \in 0 .. n
    OBVIOUS
  <2>2. f[j - 1] \in Nat
    BY <1>5, <2>1
  <2>3. QED
    BY <1>2, <1>5, <2>2
<1>7. f = eq(f)
  BY <1>5, <1>6
<1>8. F = eq(F)
  BY <1>7
<1> HIDE DEF F
<1>9. F[0] = CtrlSize
  BY <1>8
<1>10. ASSUME NEW j \in 1 .. n PROVE F[j] = F[j - 1] + d.chunks[j].len
  BY <1>8
<1> DEFINE G == {j \in 0 .. n : F[j] \in Nat}
<1>11. 0 \in G
  BY <1>3, <1>9
<1>12. ASSUME NEW j \in 1 .. n, j - 1 \in G PROVE j \in G
  <2>1. F[j - 1] \in Nat /\ j \in 0 .. n /\ d.chunks[j].len \in Nat
    BY <1>12
  <2>2. F[j] \in Nat
    BY <1>10, <2>1
  <2>3. QED
    BY <2>1, <2>2
<1>13. \A j \in 0 .. n : j \in G
  <2> HIDE DEF G
  <2>1. QED
    BY <1>11, <1>12, UpTo
<1>14. ASSUME NEW j \in 1 .. n
       PROVE  Start(d, j) \in Nat /\ Start(d, j + 1) = Start(d, j) + d.chunks[j].len
  <2>1. j - 1 \in 0 .. n
    OBVIOUS
  <2>2. F[j - 1] \in Nat
    BY <1>13, <2>1
  <2>3. Start(d, j) = F[j - 1] /\ Start(d, j + 1) = F[j]
    <3>1. (j + 1) - 1 = j
      OBVIOUS
    <3>2. QED
      BY <1>1, <3>1
  <2>4. QED
    BY <1>10, <2>2, <2>3
<1>15. Start(d, 1) = CtrlSize
  <2>1. 1 - 1 = 0
    OBVIOUS
  <2>2. QED
    BY <1>1, <1>9, <2>1
<1>16. QED
  BY <1>14, <1>15

\* A type that only one chunk has is found there.
LEMMA FieldOf ==
  ASSUME NEW d, NEW n \in Nat, Read(d) = 1 .. n, NEW type, NEW k \in 1 .. n,
         \A i \in 1 .. n : d.chunks[i].type = type <=> i = k
  PROVE  /\ Field(d, type) = d.chunks[k].data
         /\ type = "payload" => PayloadLen(d) = d.chunks[k].len - ChunkSize
<1>1. {i \in Read(d) : d.chunks[i].type = type} = {k}
  OBVIOUS
<1>2. Max({k}) = k
  BY DEF Max
<1>3. Field(d, type) = d.chunks[k].data
  <2>1. {k} # {}
    OBVIOUS
  <2>2. QED
    BY <1>1, <1>2, <2>1, Zenon DEF Field
<1>4. ASSUME type = "payload" PROVE PayloadLen(d) = d.chunks[k].len - ChunkSize
  <2>1. {k} # {}
    OBVIOUS
  <2>2. {i \in Read(d) : d.chunks[i].type = "payload"} = {k}
    BY <1>1, <1>4
  <2>3. QED
    BY <1>2, <2>1, <2>2, Zenon DEF PayloadLen
<1>5. QED
  BY <1>3, <1>4

\* The bounds of a packet, without its shape.
LEMMA PacketBounds ==
  ASSUME NEW p, IsPacket(p)
  PROVE  p.ip \in {4, 6} /\ p.len \in Nat /\ p.len <= 20480 /\ p # None /\ p # Crash
BY DEF IsPacket

\* The chunk at i of a datagram d has this type, content and length.
ChunkAt(d, i, type, data, len) ==
  d.chunks[i].vendor = 0 /\ d.chunks[i].type = type /\ d.chunks[i].data = data /\ d.chunks[i].len = len

LEMMA ChunkFields ==
  ASSUME NEW d, NEW i, NEW type, NEW data, NEW size, d.chunks[i] = Chunk(type, data, size)
  PROVE  ChunkAt(d, i, type, data, 6 + size)
BY DEF Chunk, ChunkAt, ChunkSize

\* A datagram of version 3 with n chunks for a password, that take x octets.
IsDatagram(d, p, n, x) ==
  /\ d.version = 3
  /\ n \in {0, 1} /\ x \in Nat /\ x <= 106
  /\ d.length = 79 + p.len + 2 * (6 + AddressSize(p.ip)) + x
  /\ n + 11 = Len(d.chunks) /\ DOMAIN d.chunks = 1 .. n + 11
  /\ ChunkAt(d, 1, "family", p.ip, 7) /\ ChunkAt(d, 2, "proto", p.proto, 7)
  /\ ChunkAt(d, 3, "srcport", p.src.port, 8) /\ ChunkAt(d, 4, "dstport", p.dst.port, 8)
  /\ ChunkAt(d, 5, "sec", p.time.sec, 10) /\ ChunkAt(d, 6, "usec", p.time.usec, 10)
  /\ ChunkAt(d, 7, "prototype", "sip", 7) /\ ChunkAt(d, 8, "captid", "agent", 10)
  /\ ChunkAt(d, 9, "srcip", p.src.ip, 6 + AddressSize(p.ip))
  /\ ChunkAt(d, 10, "dstip", p.dst.ip, 6 + AddressSize(p.ip))
  /\ n = 0 => x = 0
  /\ n = 1 => \E password : ChunkAt(d, 11, "authkey", password, x)
  /\ ChunkAt(d, n + 11, "payload", p.payload, 6 + p.len)

LEMMA Sent ==
  ASSUME NEW p, IsPacket(p), NEW password \in Passwords \cup {None}
  PROVE  \E n, x : IsDatagram(SendV3(p, password), p, n, x)
<1> DEFINE c1 == Chunk("family", p.ip, 1)
           c2 == Chunk("proto", p.proto, 1)
           c3 == Chunk("srcport", p.src.port, 2)
           c4 == Chunk("dstport", p.dst.port, 2)
           c5 == Chunk("sec", p.time.sec, 4)
           c6 == Chunk("usec", p.time.usec, 4)
           c7 == Chunk("prototype", "sip", 1)
           c8 == Chunk("captid", "agent", 4)
           c9 == Chunk("srcip", p.src.ip, AddressSize(p.ip))
           c10 == Chunk("dstip", p.dst.ip, AddressSize(p.ip))
           key == Chunk("authkey", password, Len(password))
           last == Chunk("payload", p.payload, p.len)
           auth == IF password = None THEN <<>> ELSE <<key>>
           n == IF password = None THEN 0 ELSE 1
           x == IF password = None THEN 0 ELSE 6 + Len(password)
           s == Cat(Cat(Cat(<<c1, c2, c3, c4, c5, c6, c7, c8>>, <<c9, c10>>), auth), <<last>>)
           d == SendV3(p, password)
<1>1. d.version = 3 /\ d.chunks = s
  BY DEF SendV3, Cat
<1>2. d.length = U16(GenericSize + p.len + 2 * (ChunkSize + AddressSize(p.ip)) + ChunkSize + x)
  BY DEF SendV3, ChunkSize
<1>3. p.ip \in {4, 6} /\ p.len \in Nat /\ p.len <= 20480
  BY PacketBounds
<1>4. n \in {0, 1} /\ x \in Nat /\ x <= 106 /\ (n = 0 => x = 0) /\ (n = 1 => x = 6 + Len(password))
  <2>1. password # None => Len(password) \in Nat /\ Len(password) <= 100
    BY PeersAssumption
  <2>2. QED
    BY <2>1
<1>5. n = 1 => auth[1] = key
  OBVIOUS
<1> DEFINE S == {c1, c2, c3, c4, c5, c6, c7, c8, c9, c10, key, last}
<1>6. /\ c1 \in S /\ c2 \in S /\ c3 \in S /\ c4 \in S /\ c5 \in S /\ c6 \in S /\ c7 \in S /\ c8 \in S
      /\ c9 \in S /\ c10 \in S /\ key \in S /\ last \in S
  <2> HIDE DEF c1, c2, c3, c4, c5, c6, c7, c8, c9, c10, key, last
  <2>1. QED
    OBVIOUS
<1> HIDE DEF S, c1, c2, c3, c4, c5, c6, c7, c8, c9, c10, key, last, d, x
<1>7. OfLength(auth, n, S)
  BY <1>6 DEF OfLength
<1> HIDE DEF auth, n
<1>8. IsList(s, n, S, c1, c2, c3, c4, c5, c6, c7, c8, c9, c10, auth, last)
  <2>1. n \in Nat
    BY <1>4
  <2>2. QED
    BY <1>6, <1>7, <2>1, ListItems, Zenon
<1> HIDE DEF s
<1>9. /\ s[1] = c1 /\ s[2] = c2 /\ s[3] = c3 /\ s[4] = c4 /\ s[5] = c5 /\ s[6] = c6
      /\ s[7] = c7 /\ s[8] = c8 /\ s[9] = c9 /\ s[10] = c10
      /\ n > 0 => s[11] = auth[1]
      /\ s[n + 11] = last
  BY <1>8 DEF IsList
<1>10. n + 11 = Len(d.chunks) /\ DOMAIN d.chunks = 1 .. n + 11
  BY <1>1, <1>8 DEF IsList, OfLength
<1>11. d.length = 79 + p.len + 2 * (6 + AddressSize(p.ip)) + x
  <2>1. AddressSize(p.ip) \in {4, 16}
    BY <1>3 DEF AddressSize
  <2>2. GenericSize = 73 /\ ChunkSize = 6
    BY DEF GenericSize, CtrlSize, ChunkSize
  <2> DEFINE t == 79 + p.len + 2 * (6 + AddressSize(p.ip)) + x
  <2>3. d.length = t % 65536
    BY <1>2, <1>3, <1>4, <2>1, <2>2 DEF U16
  <2>4. t \in Nat /\ t < 65536
    <3>1. p.len \in Nat /\ p.len <= 20480 /\ x \in Nat /\ x <= 106
      BY <1>3, <1>4
    <3>2. 2 * (6 + AddressSize(p.ip)) \in Nat /\ 2 * (6 + AddressSize(p.ip)) <= 44
      BY <2>1
    <3>3. ASSUME NEW q, NEW y, q \in Nat, q <= 20480, y \in Nat, y <= 44
          PROVE  79 + q + y + x \in Nat /\ 79 + q + y + x < 65536
      BY <3>1, <3>3
    <3>4. QED
      BY <3>1, <3>2, <3>3
  <2> HIDE DEF t
  <2>5. t % 65536 = t
    BY <2>4
  <2>6. QED
    BY <2>3, <2>5 DEF t
<1>12. /\ ChunkAt(d, 1, "family", p.ip, 6 + 1) /\ ChunkAt(d, 2, "proto", p.proto, 6 + 1)
       /\ ChunkAt(d, 3, "srcport", p.src.port, 6 + 2) /\ ChunkAt(d, 4, "dstport", p.dst.port, 6 + 2)
       /\ ChunkAt(d, 5, "sec", p.time.sec, 6 + 4) /\ ChunkAt(d, 6, "usec", p.time.usec, 6 + 4)
  BY <1>1, <1>9, ChunkFields DEF c1, c2, c3, c4, c5, c6
<1>13. /\ ChunkAt(d, 7, "prototype", "sip", 6 + 1) /\ ChunkAt(d, 8, "captid", "agent", 6 + 4)
       /\ ChunkAt(d, 9, "srcip", p.src.ip, 6 + AddressSize(p.ip))
       /\ ChunkAt(d, 10, "dstip", p.dst.ip, 6 + AddressSize(p.ip))
       /\ ChunkAt(d, n + 11, "payload", p.payload, 6 + p.len)
  BY <1>1, <1>9, ChunkFields DEF c7, c8, c9, c10, last
<1>14. n = 1 => ChunkAt(d, 11, "authkey", password, x)
  <2>1. SUFFICES ASSUME n = 1 PROVE ChunkAt(d, 11, "authkey", password, x)
    OBVIOUS
  <2>2. d.chunks[11] = Chunk("authkey", password, Len(password))
    BY <1>1, <1>5, <1>9, <2>1 DEF key
  <2>3. ChunkAt(d, 11, "authkey", password, 6 + Len(password))
    BY <2>2, ChunkFields
  <2>4. QED
    BY <1>4, <2>1, <2>3
<1>15. 6 + 1 = 7 /\ 6 + 2 = 8 /\ 6 + 4 = 10
  OBVIOUS
<1>16. IsDatagram(d, p, n, x)
  BY <1>1, <1>4, <1>10, <1>11, <1>12, <1>13, <1>14, <1>15 DEF IsDatagram
<1>17. QED
  BY <1>16 DEF d

\* The chunks of such a datagram start before its end.
LEMMA AllRead ==
  ASSUME NEW d, NEW p, NEW n, NEW x, IsDatagram(d, p, n, x),
         p.ip \in {4, 6}, p.len \in Nat
  PROVE  Read(d) = 1 .. n + 11
<1> DEFINE A == AddressSize(p.ip)
           len(i) == d.chunks[i].len
<1>1. A \in {4, 16}
  BY DEF AddressSize
<1>2. /\ n \in {0, 1} /\ x \in Nat /\ n + 11 = Len(d.chunks) /\ (n = 0 => x = 0)
      /\ d.length = 79 + p.len + 2 * (6 + A) + x
  BY DEF IsDatagram
<1>3. /\ len(1) = 7 /\ len(2) = 7 /\ len(3) = 8 /\ len(4) = 8 /\ len(5) = 10 /\ len(6) = 10
      /\ len(7) = 7 /\ len(8) = 10 /\ len(9) = 6 + A /\ len(10) = 6 + A
      /\ n = 1 => len(11) = x
      /\ len(n + 11) = 6 + p.len
  BY DEF IsDatagram, ChunkAt
<1>4. \A i \in 1 .. n + 11 : d.chunks[i].vendor = 0
  <2>1. /\ d.chunks[1].vendor = 0 /\ d.chunks[2].vendor = 0 /\ d.chunks[3].vendor = 0
        /\ d.chunks[4].vendor = 0 /\ d.chunks[5].vendor = 0 /\ d.chunks[6].vendor = 0
        /\ d.chunks[7].vendor = 0 /\ d.chunks[8].vendor = 0 /\ d.chunks[9].vendor = 0
        /\ d.chunks[10].vendor = 0 /\ d.chunks[n + 11].vendor = 0
        /\ n = 1 => d.chunks[11].vendor = 0
    BY DEF IsDatagram, ChunkAt
  <2>2. \A i \in 1 .. n + 11 : \/ i = 1 \/ i = 2 \/ i = 3 \/ i = 4 \/ i = 5 \/ i = 6 \/ i = 7 \/ i = 8
                               \/ i = 9 \/ i = 10 \/ i = n + 11 \/ (n = 1 /\ i = 11)
    BY <1>2
  <2>3. QED
    BY <2>1, <2>2
<1> HIDE DEF A, len
<1>5. PICK m \in Nat : m = n + 11
  BY <1>2
<1>6. \A i \in 1 .. m : len(i) \in Nat
  <2>1. \A i \in 1 .. m : \/ i = 1 \/ i = 2 \/ i = 3 \/ i = 4 \/ i = 5 \/ i = 6 \/ i = 7 \/ i = 8
                          \/ i = 9 \/ i = 10 \/ i = n + 11 \/ (n = 1 /\ i = 11)
    BY <1>2, <1>5
  <2>2. 6 + A \in Nat /\ 6 + p.len \in Nat /\ x \in Nat
    BY <1>1, <1>2
  <2>3. /\ len(1) \in Nat /\ len(2) \in Nat /\ len(3) \in Nat /\ len(4) \in Nat /\ len(5) \in Nat
        /\ len(6) \in Nat /\ len(7) \in Nat /\ len(8) \in Nat /\ len(9) \in Nat /\ len(10) \in Nat
        /\ len(n + 11) \in Nat /\ (n = 1 => len(11) \in Nat)
    BY <1>3, <2>2
  <2>4. QED
    BY <2>1, <2>3
<1>7. /\ Start(d, 1) = 6
      /\ \A j \in 1 .. m : Start(d, j) \in Nat /\ Start(d, j + 1) = Start(d, j) + len(j)
  <2>1. m = Len(d.chunks) /\ \A j \in 1 .. m : d.chunks[j].len \in Nat
    BY <1>2, <1>5, <1>6 DEF len
  <2>2. /\ Start(d, 1) = CtrlSize
        /\ \A j \in 1 .. m : Start(d, j) \in Nat /\ Start(d, j + 1) = Start(d, j) + d.chunks[j].len
    BY <2>1, StartFacts
  <2>3. QED
    BY <2>2 DEF CtrlSize, len
<1>8. \A j \in 1 .. 11 : j \in 1 .. m
  BY <1>2, <1>5
<1>9. Start(d, 1 + 1) = 13
  BY <1>3, <1>7, <1>8
<1>10. Start(d, 2 + 1) = 20
  BY <1>3, <1>7, <1>8, <1>9
<1>11. Start(d, 3 + 1) = 28
  BY <1>3, <1>7, <1>8, <1>10
<1>12. Start(d, 4 + 1) = 36
  BY <1>3, <1>7, <1>8, <1>11
<1>13. Start(d, 5 + 1) = 46
  BY <1>3, <1>7, <1>8, <1>12
<1>14. Start(d, 6 + 1) = 56
  BY <1>3, <1>7, <1>8, <1>13
<1>15. Start(d, 7 + 1) = 63
  BY <1>3, <1>7, <1>8, <1>14
<1>16. Start(d, 8 + 1) = 73
  BY <1>3, <1>7, <1>8, <1>15
<1>17. Start(d, 9 + 1) = 79 + A
  BY <1>1, <1>3, <1>7, <1>8, <1>16
<1>18. Start(d, 10 + 1) = 85 + 2 * A
  BY <1>1, <1>3, <1>7, <1>8, <1>17
<1>19. n = 1 => Start(d, 11 + 1) = 85 + 2 * A + x
  BY <1>1, <1>2, <1>3, <1>7, <1>8, <1>18
<1>20. d.length = 91 + p.len + 2 * A + x
  BY <1>1, <1>2
<1>21. ASSUME NEW i \in 1 .. m PROVE Start(d, i) < d.length
  <2>1. \/ i = 1 \/ i = 2 \/ i = 3 \/ i = 4 \/ i = 5 \/ i = 6 \/ i = 7 \/ i = 8
        \/ i = 9 \/ i = 10 \/ i = 11 \/ (n = 1 /\ i = 12)
    BY <1>2, <1>5
  <2>2. Start(d, i) <= 85 + 2 * A + x
    <3>1. /\ Start(d, 1) = 6 /\ Start(d, 2) = 13 /\ Start(d, 3) = 20 /\ Start(d, 4) = 28
          /\ Start(d, 5) = 36 /\ Start(d, 6) = 46 /\ Start(d, 7) = 56 /\ Start(d, 8) = 63
          /\ Start(d, 9) = 73
      BY <1>7, <1>9, <1>10, <1>11, <1>12, <1>13, <1>14, <1>15, <1>16
    <3>2. Start(d, 10) = 79 + A /\ Start(d, 11) = 85 + 2 * A /\ (n = 1 => Start(d, 12) = 85 + 2 * A + x)
      BY <1>17, <1>18, <1>19
    <3>3. i \in 1 .. 9 => Start(d, i) <= 73
      BY <3>1
    <3>4. i \in 1 .. 9 \/ i = 10 \/ i = 11 \/ (n = 1 /\ i = 12)
      BY <2>1
    <3>5. 73 <= 85 + 2 * A + x /\ 79 + A <= 85 + 2 * A + x /\ 85 + 2 * A <= 85 + 2 * A + x
      BY <1>1, <1>2
    <3>6. CASE i \in 1 .. 9
      <4>1. Start(d, i) \in Nat /\ 85 + 2 * A + x \in Nat
        BY <1>1, <1>2, <1>7
      <4>2. QED
        BY <3>3, <3>5, <3>6, <4>1
    <3>7. CASE i = 10
      BY <3>2, <3>5, <3>7
    <3>8. CASE i = 11
      BY <3>2, <3>5, <3>8
    <3>9. CASE n = 1 /\ i = 12
      <4>1. Start(d, i) = 85 + 2 * A + x /\ 85 + 2 * A + x \in Nat
        BY <1>1, <1>2, <3>2, <3>9
      <4>2. QED
        BY <4>1
    <3>10. QED
      BY <3>4, <3>6, <3>7, <3>8, <3>9
  <2>3. Start(d, i) \in Nat
    BY <1>7
  <2>4. QED
    BY <1>1, <1>2, <1>20, <2>2, <2>3, SMTT(30)
<1>22. DOMAIN d.chunks = 1 .. m
  BY <1>5 DEF IsDatagram
<1>23. QED
  BY <1>4, <1>5, <1>21, <1>22 DEF Read

\* A packet put together anew from its fields differs in its type.
LEMMA TypeOnly ==
  ASSUME NEW p, PacketShape(p)
  PROVE  [p EXCEPT !.type = "udp"] =
           [ip |-> p.ip, proto |-> p.proto, type |-> "udp",
            src |-> [ip |-> p.src.ip, port |-> p.src.port],
            dst |-> [ip |-> p.dst.ip, port |-> p.dst.port],
            time |-> [sec |-> p.time.sec, usec |-> p.time.usec],
            payload |-> p.payload, len |-> p.len]
<1>1. PICK a, b, c, e, f, g, h, i :
        p = [ip |-> a, proto |-> b, type |-> i, src |-> c, dst |-> e, time |-> f,
             payload |-> g, len |-> h]
  BY DEF PacketShape
<1>2. /\ p.src = [ip |-> p.src.ip, port |-> p.src.port]
      /\ p.dst = [ip |-> p.dst.ip, port |-> p.dst.port]
      /\ p.time = [sec |-> p.time.sec, usec |-> p.time.usec]
  BY DEF PacketShape
<1>3. [p EXCEPT !.type = "udp"] =
        [ip |-> p.ip, proto |-> p.proto, type |-> "udp", src |-> p.src, dst |-> p.dst,
         time |-> p.time, payload |-> p.payload, len |-> p.len]
  BY <1>1
<1>4. QED
  BY <1>2, <1>3, Zenon

\* The receiver finds every field.
LEMMA RoundTrip ==
  ASSUME NEW p, IsPacket(p), NEW sent \in Passwords \cup {None}, NEW password,
         ReceiveV3(SendV3(p, sent), password) # None
  PROVE  ReceiveV3(SendV3(p, sent), password) = [p EXCEPT !.type = "udp"]
<1>1. PICK d : d = SendV3(p, sent)
  OBVIOUS
<1>2. PICK n, x : IsDatagram(d, p, n, x)
  BY <1>1, Sent
<1>3. p.ip \in {4, 6} /\ p.len \in Nat
  BY PacketBounds
<1>4. PICK m \in Nat : m = n + 11
  BY <1>2 DEF IsDatagram
<1>5. Read(d) = 1 .. m
  BY <1>2, <1>3, <1>4, AllRead
<1>6. n \in {0, 1}
  BY <1>2 DEF IsDatagram
<1> DEFINE type(i) == d.chunks[i].type
<1>7. /\ type(1) = "family" /\ type(2) = "proto" /\ type(3) = "srcport" /\ type(4) = "dstport"
      /\ type(5) = "sec" /\ type(6) = "usec" /\ type(7) = "prototype" /\ type(8) = "captid"
      /\ type(9) = "srcip" /\ type(10) = "dstip" /\ (n = 1 => type(11) = "authkey")
      /\ type(m) = "payload"
  BY <1>2, <1>4 DEF IsDatagram, ChunkAt
<1>8. \A i \in 1 .. m : \/ i = 1 \/ i = 2 \/ i = 3 \/ i = 4 \/ i = 5 \/ i = 6 \/ i = 7 \/ i = 8
                        \/ i = 9 \/ i = 10 \/ i = m \/ (n = 1 /\ i = 11)
  BY <1>4, <1>6
<1>9. \A j \in 1 .. 10 : j \in 1 .. m
  BY <1>4, <1>6
<1>10. m \in 1 .. m
  BY <1>4, <1>6
<1> HIDE DEF type
<1>11. /\ \A i \in 1 .. m : type(i) = "family" <=> i = 1
       /\ \A i \in 1 .. m : type(i) = "proto" <=> i = 2
       /\ \A i \in 1 .. m : type(i) = "srcport" <=> i = 3
       /\ \A i \in 1 .. m : type(i) = "dstport" <=> i = 4
       /\ \A i \in 1 .. m : type(i) = "sec" <=> i = 5
  BY <1>7, <1>8
<1>12. /\ \A i \in 1 .. m : type(i) = "usec" <=> i = 6
       /\ \A i \in 1 .. m : type(i) = "srcip" <=> i = 9
       /\ \A i \in 1 .. m : type(i) = "dstip" <=> i = 10
       /\ \A i \in 1 .. m : type(i) = "payload" <=> i = m
  BY <1>7, <1>8
<1>13. ASSUME NEW k \in 1 .. m, NEW t, \A i \in 1 .. m : type(i) = t <=> i = k
       PROVE  /\ Field(d, t) = d.chunks[k].data
              /\ t = "payload" => PayloadLen(d) = d.chunks[k].len - 6
  BY <1>5, <1>13, FieldOf DEF type, ChunkSize
<1>14. Field(d, "family") = p.ip /\ Field(d, "proto") = p.proto
  <2>1. d.chunks[1].data = p.ip /\ d.chunks[2].data = p.proto
    BY <1>2 DEF IsDatagram, ChunkAt
  <2>2. QED
    BY <1>9, <1>11, <1>13, <2>1
<1>15. Field(d, "srcport") = p.src.port /\ Field(d, "dstport") = p.dst.port
  <2>1. d.chunks[3].data = p.src.port /\ d.chunks[4].data = p.dst.port
    BY <1>2 DEF IsDatagram, ChunkAt
  <2>2. QED
    BY <1>9, <1>11, <1>13, <2>1
<1>16. Field(d, "sec") = p.time.sec /\ Field(d, "usec") = p.time.usec
  <2>1. d.chunks[5].data = p.time.sec /\ d.chunks[6].data = p.time.usec
    BY <1>2 DEF IsDatagram, ChunkAt
  <2>2. QED
    BY <1>9, <1>11, <1>12, <1>13, <2>1
<1>17. Field(d, "srcip") = p.src.ip /\ Field(d, "dstip") = p.dst.ip
  <2>1. d.chunks[9].data = p.src.ip /\ d.chunks[10].data = p.dst.ip
    BY <1>2 DEF IsDatagram, ChunkAt
  <2>2. QED
    BY <1>9, <1>12, <1>13, <2>1
<1>18. Field(d, "payload") = p.payload /\ PayloadLen(d) = p.len
  <2>1. d.chunks[m].data = p.payload /\ d.chunks[m].len = 6 + p.len
    BY <1>2, <1>4 DEF IsDatagram, ChunkAt
  <2>2. Field(d, "payload") = d.chunks[m].data /\ PayloadLen(d) = d.chunks[m].len - 6
    BY <1>10, <1>12, <1>13
  <2>3. QED
    BY <1>3, <2>1, <2>2
<1>19. ReceiveV3(d, password) =
         [ip |-> Field(d, "family"), proto |-> Field(d, "proto"), type |-> "udp",
          src |-> [ip |-> Field(d, "srcip"), port |-> Field(d, "srcport")],
          dst |-> [ip |-> Field(d, "dstip"), port |-> Field(d, "dstport")],
          time |-> [sec |-> Field(d, "sec"), usec |-> Field(d, "usec")],
          payload |-> Field(d, "payload"), len |-> PayloadLen(d)]
  BY <1>1, Zenon DEF ReceiveV3
<1>20. PacketShape(p)
  BY DEF IsPacket
<1>21. ReceiveV3(d, password) = [p EXCEPT !.type = "udp"]
  BY <1>14, <1>15, <1>16, <1>17, <1>18, <1>19, <1>20, TypeOnly
<1>22. QED
  BY <1>1, <1>21

\* Version 2: the length survives the octet if it is a multiple of 256.
LEMMA RoundTripV2 ==
  ASSUME NEW p, IsPacket(p), TotalV2(p) % 256 = 0
  PROVE  ReceiveV2(SendV2(p)) = [p EXCEPT !.type = "udp"]
<1>1. p.ip \in {4, 6} /\ p.len \in Nat /\ p.len <= 20480
  BY PacketBounds
<1>2. PICK h \in Nat : h = HeadersV2(p.ip) /\ h <= 52
  BY <1>1 DEF HeadersV2, HepHdrSize, TimeHdrSize, AddressSize
<1>3. PICK t \in Nat : t = TotalV2(p) /\ t = h + p.len /\ t < 65536 /\ t % 256 = 0
  BY <1>1, <1>2 DEF TotalV2
<1>4. PICK d : d = SendV2(p)
  OBVIOUS
<1>5. d.version = 2 /\ d.packet = p /\ d.length = HtonsOctet(t)
  <2>1. d = [version |-> 2, length |-> HtonsOctet(TotalV2(p)), packet |-> p]
    BY <1>4, Zenon DEF SendV2
  <2>2. d.version = 2 /\ d.packet = p /\ d.length = HtonsOctet(TotalV2(p))
    BY <2>1, Zenon
  <2>3. TotalV2(p) = t
    BY <1>3
  <2>4. QED
    BY <2>2, <2>3, Zenon
<1>6. NtohsOctet(d.length) = t
  <2>1. t % 65536 = t
    BY <1>3
  <2>2. (t \div 256) \in Nat /\ (t \div 256) < 256 /\ (t \div 256) * 256 = t
    BY <1>3
  <2>3. HtonsOctet(t) = t \div 256
    <3>1. ASSUME NEW q \in Nat, q < 256 PROVE q % 256 = q
      BY <3>1
    <3>2. QED
      BY <2>1, <2>2, <3>1 DEF HtonsOctet, U16
  <2>4. QED
    BY <1>5, <2>2, <2>3 DEF NtohsOctet
<1>7. NtohsOctet(d.length) - HeadersV2(d.packet.ip) = p.len
  BY <1>1, <1>2, <1>3, <1>5, <1>6
<1>8. ReceiveV2(d) = [p EXCEPT !.type = "udp", !.len = p.len]
  <2>1. ~(p.len < 0)
    BY <1>1
  <2>2. QED
    BY <1>5, <1>7, <2>1 DEF ReceiveV2
<1>9. [p EXCEPT !.type = "udp", !.len = p.len] = [p EXCEPT !.type = "udp"]
  <2>1. PacketShape(p)
    BY DEF IsPacket
  <2>2. QED
    BY <2>1 DEF PacketShape
<1>10. QED
  BY <1>4, <1>8, <1>9

\* The frame made up for a packet of UDP over IPv4 is the packet.
LEMMA FrameOf ==
  ASSUME NEW p, IsPacket(p), p.ip = 4, p.proto = "udp"
  PROVE  BuildFrameData([p EXCEPT !.type = "udp"]) = [p EXCEPT !.type = "udp"]
<1>1. PacketShape(p)
  BY DEF IsPacket
<1>2. PICK q : q = [p EXCEPT !.type = "udp"]
  OBVIOUS
<1>3. PICK a, b, c, e, time, payload, len :
        q = [ip |-> 4, proto |-> "udp", type |-> "udp", src |-> [ip |-> a, port |-> b],
             dst |-> [ip |-> c, port |-> e], time |-> time, payload |-> payload, len |-> len]
  <2>1. q = [ip |-> 4, proto |-> "udp", type |-> "udp",
             src |-> [ip |-> p.src.ip, port |-> p.src.port],
             dst |-> [ip |-> p.dst.ip, port |-> p.dst.port],
             time |-> [sec |-> p.time.sec, usec |-> p.time.usec],
             payload |-> p.payload, len |-> p.len]
    BY <1>1, <1>2, TypeOnly
  <2>2. QED
    BY <2>1, Zenon
<1>4. q.src = [ip |-> a, port |-> b] /\ q.dst = [ip |-> c, port |-> e]
  BY <1>3
<1>5. [q.src EXCEPT !.ip = q.src.ip] = q.src /\ [q.dst EXCEPT !.ip = q.dst.ip] = q.dst
  BY <1>4
<1>6. q.ip = 4
  BY <1>3
<1>7. BuildFrameData(q) = [q EXCEPT !.ip = 4, !.proto = "udp", !.src = q.src, !.dst = q.dst]
  BY <1>5, <1>6 DEF BuildFrameData
<1>8. BuildFrameData(q) = q
  BY <1>3, <1>7
<1>9. QED
  BY <1>2, <1>8

\* What a datagram yields.
LEMMA ReceivedV3 ==
  ASSUME NEW d \in Datagrams, NEW password, ReceiveV3(d.data, password) # None
  PROVE  ReceiveV3(d.data, password) = [d.of EXCEPT !.type = "udp"]
<1>1. IsPacket(d.of)
  BY PeersAssumption
<1>2. PICK sent \in Passwords \cup {None} : d.data \in {SendV2(d.of), SendV3(d.of, sent)}
  BY PeersAssumption
<1>3. SendV2(d.of).version = 2
  BY DEF SendV2
<1>4. d.data = SendV3(d.of, sent)
  BY <1>2, <1>3 DEF ReceiveV3
<1>5. QED
  BY <1>1, <1>4, RoundTrip, PacketBounds

LEMMA ReceivedV2 ==
  ASSUME NEW d \in Datagrams, ReceiveV2(d.data) # None
  PROVE  ReceiveV2(d.data) = [d.of EXCEPT !.type = "udp"] \/ TotalV2(d.of) % 256 # 0
<1>1. IsPacket(d.of)
  BY PeersAssumption
<1>2. PICK sent \in Passwords \cup {None} : d.data \in {SendV2(d.of), SendV3(d.of, sent)}
  BY PeersAssumption
<1>3. SendV3(d.of, sent).version = 3
  BY DEF SendV3
<1>4. d.data = SendV2(d.of)
  BY <1>2, <1>3 DEF ReceiveV2
<1>5. QED
  BY <1>1, <1>4, RoundTripV2

-------------------------------------------------------------------------------
(* What is stored was received as it was sent.                              *)

\* What the threads handle is the packet the other host captured, as far as the
\* version allows.
HandledRelayed == \A s \in Names : pc[s] \notin {"read", "gone"} => Relayed(pkt[s])

RelayInv == HandledRelayed /\ RelayedAsCaptured

LEMMA RelayedV3 ==
  ASSUME NEW d \in Datagrams, NEW password, NEW got, got = ReceiveV3(d.data, password), got # None,
         NEW r, r.packet = d.of, r.got = got, r.frame = BuildFrameData(got), r.via = "hep"
  PROVE  Relayed(r) /\ got # Crash
<1>1. got = [d.of EXCEPT !.type = "udp"]
  BY ReceivedV3
<1>2. IsPacket(d.of)
  BY PeersAssumption
<1>3. d.of.ip = 4 /\ d.of.proto = "udp" => BuildFrameData(got) = got
  BY <1>1, <1>2, FrameOf
<1>4. got # Crash
  BY <1>1, <1>2 DEF IsPacket
<1>5. QED
  BY <1>1, <1>3, <1>4 DEF Relayed, AsReceived

LEMMA RelayedV2 ==
  ASSUME NEW d \in Datagrams, NEW got, got = ReceiveV2(d.data), got # None, cmd.version = 2,
         NEW r, r.packet = d.of, r.got = got, r.frame = BuildFrameData(got), r.via = "hep"
  PROVE  Relayed(r)
<1>1. got = [d.of EXCEPT !.type = "udp"] \/ TotalV2(d.of) % 256 # 0
  BY ReceivedV2
<1>2. IsPacket(d.of)
  BY PeersAssumption
<1>3. CASE got = [d.of EXCEPT !.type = "udp"]
  <2>1. d.of.ip = 4 /\ d.of.proto = "udp" => BuildFrameData(got) = got
    BY <1>2, <1>3, FrameOf
  <2>2. QED
    BY <1>3, <2>1 DEF Relayed, AsReceived
<1>4. QED
  BY <1>1, <1>3 DEF Relayed

\* A step that gives no thread a packet to handle and stores none.
LEMMA NothingTaken ==
  ASSUME RelayInv, UNCHANGED <<cmd, stored>>, phase' = "crashed" => phase = "crashed",
         \A s \in Names : pc'[s] \notin {"read", "gone"} => pc[s] \notin {"read", "gone"} /\ pkt'[s] = pkt[s]
  PROVE  RelayInv'
<1>1. \A r : Relayed(r)' <=> Relayed(r)
  BY DEF Relayed, AsReceived
<1>2. ASSUME NEW s \in Names, pc'[s] \notin {"read", "gone"} PROVE Relayed(pkt[s])'
  <2>1. PICK r : r = pkt[s] /\ r = pkt'[s]
    BY <1>2
  <2>2. Relayed(r)
    BY <1>2, <2>1 DEF RelayInv, HandledRelayed
  <2>3. Relayed(r)'
    BY <1>1, <2>2
  <2>4. QED
    BY <2>1, <2>3 DEF Relayed
<1>3. HandledRelayed'
  BY <1>2 DEF HandledRelayed
<1>4. RelayedAsCaptured'
  BY <1>1 DEF RelayInv, RelayedAsCaptured
<1>5. QED
  BY <1>3, <1>4 DEF RelayInv

\* A thread takes a packet that was relayed.
LEMMA RelayedTaken ==
  ASSUME Inv, RelayInv, NEW s \in Names, NEW to \in ThreadStates, NEW h,
         pc' = [pc EXCEPT ![s] = to], pkt' = [pkt EXCEPT ![s] = h], Relayed(h),
         UNCHANGED <<cmd, stored, phase>>
  PROVE  RelayInv'
<1>1. pc \in [Names -> ThreadStates] /\ pkt \in [Names -> Handled \cup {None}]
  BY DEF Inv, TypeOK
<1>2. \A r : Relayed(r)' <=> Relayed(r)
  BY DEF Relayed, AsReceived
<1>3. pkt'[s] = h /\ \A t \in Names : t # s => pc'[t] = pc[t] /\ pkt'[t] = pkt[t]
  BY <1>1
<1>4. ASSUME NEW t \in Names, pc'[t] \notin {"read", "gone"} PROVE Relayed(pkt[t])'
  <2>1. CASE t = s
    <3>1. Relayed(h)'
      BY <1>2
    <3>2. QED
      BY <1>3, <2>1, <3>1 DEF Relayed
  <2>2. CASE t # s
    <3>1. PICK r : r = pkt[t] /\ r = pkt'[t]
      BY <1>3, <2>2
    <3>2. Relayed(r)
      BY <1>3, <1>4, <2>2, <3>1 DEF RelayInv, HandledRelayed
    <3>3. Relayed(r)'
      BY <1>2, <3>2
    <3>4. QED
      BY <3>1, <3>3 DEF Relayed
  <2>3. QED
    BY <2>1, <2>2
<1>5. HandledRelayed'
  BY <1>4 DEF HandledRelayed
<1>6. RelayedAsCaptured'
  BY <1>2 DEF RelayInv, RelayedAsCaptured
<1>7. QED
  BY <1>5, <1>6 DEF RelayInv

LEMMA RelayThread ==
  ASSUME Inv, RelayInv, NEW s \in Range(sources), Thread(s)
  PROVE  RelayInv'
<1>0. TypeOK /\ HasPacket
  BY DEF Inv
<1>1. s \in Names
  <2>1. sources \in Seq(Names)
    BY <1>0 DEF TypeOK
  <2>2. QED
    BY <2>1 DEF Range
<1>2. pc \in [Names -> ThreadStates] /\ pkt \in [Names -> Handled \cup {None}]
  BY <1>0 DEF TypeOK
<1>3. CASE Capture(s)
  <2>1. PICK p \in Packets, skip \in {paused, TRUE} :
          IF skip THEN Step(s, "read", "read") /\ UNCHANGED pkt
          ELSE Step(s, "read", "lock")
               /\ pkt' = [pkt EXCEPT ![s] = [packet |-> p, got |-> p, frame |-> p,
                                             via |-> "wire", rest |-> "forward"]]
    BY <1>3 DEF Capture
  <2>2. UNCHANGED <<cmd, stored, phase>>
    BY <1>3 DEF Capture, Keep
  <2>3. CASE skip
    <3>1. pc[s] = "read" /\ pc' = [pc EXCEPT ![s] = "read"] /\ UNCHANGED pkt
      BY <2>1, <2>3 DEF Step
    <3>2. pc' = pc
      BY <1>1, <1>2, <3>1
    <3>3. QED
      BY <2>2, <3>1, <3>2, NothingTaken
  <2>4. CASE ~skip
    <3> DEFINE h == [packet |-> p, got |-> p, frame |-> p, via |-> "wire", rest |-> "forward"]
    <3>1. pc' = [pc EXCEPT ![s] = "lock"] /\ pkt' = [pkt EXCEPT ![s] = h]
      BY <2>1, <2>4 DEF Step
    <3>2. Relayed(h)
      BY DEF Relayed, AsReceived
    <3> HIDE DEF h
    <3>3. "lock" \in ThreadStates
      BY DEF ThreadStates
    <3>4. QED
      BY <1>1, <2>2, <3>1, <3>2, <3>3, RelayedTaken
  <2>5. QED
    BY <2>3, <2>4
<1>4. CASE CaptureEncapsulated(s)
  <2> DEFINE password == IF Hep \in Range(sources) THEN ListenPassword ELSE None
  <2>1. PICK d \in Datagrams :
          /\ ReceiveV3(d.data, password) # None
          /\ pkt' = [pkt EXCEPT ![s] = [packet |-> d.of, got |-> ReceiveV3(d.data, password),
                                        frame |-> BuildFrameData(ReceiveV3(d.data, password)),
                                        via |-> "hep", rest |-> "forward"]]
    BY <1>4 DEF CaptureEncapsulated
  <2>2. pc' = [pc EXCEPT ![s] = "early"] /\ UNCHANGED <<cmd, stored, phase>>
    BY <1>4 DEF CaptureEncapsulated, Keep, Step
  <2> HIDE DEF password
  <2>3. PICK word : word = password
    OBVIOUS
  <2>4. PICK got : got = ReceiveV3(d.data, word)
    OBVIOUS
  <2> DEFINE h == [packet |-> d.of, got |-> got, frame |-> BuildFrameData(got),
                   via |-> "hep", rest |-> "forward"]
  <2>5. pkt' = [pkt EXCEPT ![s] = h] /\ got # None
    BY <2>1, <2>3, <2>4
  <2>6. h.packet = d.of /\ h.got = got /\ h.frame = BuildFrameData(got) /\ h.via = "hep"
    OBVIOUS
  <2>7. "early" \in ThreadStates
    BY DEF ThreadStates
  <2> HIDE DEF h
  <2>8. Relayed(h)
    BY <2>4, <2>5, <2>6, RelayedV3
  <2>9. QED
    BY <1>1, <2>2, <2>5, <2>7, <2>8, RelayedTaken
<1>5. CASE Parse(s)
  <2> DEFINE sip == pkt[s].got.payload.sip
             to == IF sip THEN pkt[s].rest ELSE "done"
             new == [packet |-> pkt[s].packet, got |-> pkt[s].got, frame |-> pkt[s].frame,
                  via |-> pkt[s].via, source |-> s]
  <2>1. /\ pc[s] = "lock" /\ pc' = [pc EXCEPT ![s] = to]
        /\ stored' = IF sip THEN stored \cup {new} ELSE stored
        /\ UNCHANGED <<cmd, phase, pkt>>
    BY <1>5 DEF Parse, Step, Keep
  <2>2. new.packet = pkt[s].packet /\ new.got = pkt[s].got /\ new.frame = pkt[s].frame
        /\ new.via = pkt[s].via
    OBVIOUS
  <2>3. stored' \subseteq stored \cup {new}
    BY <2>1
  <2> HIDE DEF sip, to, new
  <2>4. \A t \in Names : t # s => pc'[t] = pc[t]
    BY <1>2, <2>1
  <2>5. Relayed(pkt[s])
    BY <1>1, <2>1 DEF RelayInv, HandledRelayed
  <2>6. PICK kept : kept = new
    OBVIOUS
  <2>7. \A r : Relayed(r)' <=> Relayed(r)
    BY <2>1 DEF Relayed, AsReceived
  <2>8. Relayed(kept)
    BY <2>2, <2>5, <2>6 DEF Relayed, AsReceived
  <2>9. ASSUME NEW t \in Names, pc'[t] \notin {"read", "gone"} PROVE Relayed(pkt[t])'
    <3>1. PICK r : r = pkt[t] /\ r = pkt'[t]
      BY <2>1
    <3>2. Relayed(r)
      BY <2>4, <2>5, <2>9, <3>1 DEF RelayInv, HandledRelayed
    <3>3. Relayed(r)'
      BY <2>7, <3>2
    <3>4. QED
      BY <3>1, <3>3 DEF Relayed
  <2>10. HandledRelayed'
    BY <2>9 DEF HandledRelayed
  <2>11. ASSUME NEW r \in stored' PROVE Relayed(r)'
    <3>1. r \in stored \/ r = kept
      BY <2>3, <2>6
    <3>2. QED
      BY <2>7, <2>8, <3>1 DEF RelayInv, RelayedAsCaptured
  <2>12. RelayedAsCaptured'
    BY <2>1, <2>11 DEF RelayInv, RelayedAsCaptured
  <2>13. QED
    BY <2>10, <2>12 DEF RelayInv
<1>6. CASE Forward(s) \/ DumpSighup(s) \/ ClearSighup(s) \/ NoSighup(s) \/ Write(s)
  <2>1. PICK to : pc' = [pc EXCEPT ![s] = to]
    BY <1>6 DEF Forward, DumpSighup, ClearSighup, NoSighup, Write, Step
  <2>2. pc[s] \notin {"read", "gone"}
    BY <1>6 DEF Forward, DumpSighup, ClearSighup, NoSighup, Write, Step
  <2>3. UNCHANGED <<cmd, stored, phase, pkt>>
    BY <1>6 DEF Forward, DumpSighup, ClearSighup, NoSighup, Write, Keep
  <2>4. \A t \in Names : t # s => pc'[t] = pc[t]
    BY <1>2, <2>1
  <2>5. QED
    BY <2>2, <2>3, <2>4, NothingTaken
<1>7. CASE Unlock(s)
  <2>1. /\ pc' = [pc EXCEPT ![s] = "read"] /\ pkt' = [pkt EXCEPT ![s] = None]
        /\ UNCHANGED <<cmd, stored, phase>>
    BY <1>7 DEF Unlock, Step, Keep
  <2>2. pc'[s] = "read" /\ \A t \in Names : t # s => pc'[t] = pc[t] /\ pkt'[t] = pkt[t]
    BY <1>1, <1>2, <2>1
  <2>3. QED
    BY <2>1, <2>2, NothingTaken
<1>8. CASE EndOfFile(s) \/ Cancel(s)
  <2>1. pc' = [pc EXCEPT ![s] = "gone"] /\ UNCHANGED <<cmd, stored, phase, pkt>>
    BY <1>8 DEF EndOfFile, Cancel, Step, Keep
  <2>2. pc'[s] = "gone" /\ \A t \in Names : t # s => pc'[t] = pc[t]
    BY <1>1, <1>2, <2>1
  <2>3. QED
    BY <2>1, <2>2, NothingTaken
<1>9. QED
  BY <1>3, <1>4, <1>5, <1>6, <1>7, <1>8 DEF Thread, Handle

LEMMA RelayListen ==
  ASSUME Inv, RelayInv, Listen
  PROVE  RelayInv'
<1>0. TypeOK
  BY DEF Inv
<1>1. Hep \in Names
  <2>1. sources \in Seq(Names)
    BY <1>0 DEF TypeOK
  <2>2. QED
    BY <2>1 DEF Listen, Range
<1>2. pc \in [Names -> ThreadStates] /\ pc[Hep] = "read" /\ UNCHANGED <<cmd, stored>>
  BY <1>0 DEF TypeOK, Listen
<1>3. PICK d \in Datagrams :
        LET got == Receive(d.data, cmd.version, ListenPassword)
        IN  CASE got = None -> Step(Hep, "read", "read") /\ UNCHANGED <<phase, pkt>>
              [] got = Crash -> phase' = "crashed" /\ UNCHANGED <<pc, pkt>>
              [] OTHER -> /\ Step(Hep, "read", "early") /\ UNCHANGED phase
                          /\ pkt' = [pkt EXCEPT ![Hep] =
                                       [packet |-> d.of, got |-> got,
                                        frame |-> BuildFrameData(got), via |-> "hep", rest |-> "done"]]
  BY Zenon DEF Listen
<1>4. PICK got : got = Receive(d.data, cmd.version, ListenPassword)
  OBVIOUS
<1>5. PICK h : h = [packet |-> d.of, got |-> got, frame |-> BuildFrameData(got), via |-> "hep", rest |-> "done"]
  OBVIOUS
<1>6. h.packet = d.of /\ h.got = got /\ h.frame = BuildFrameData(got) /\ h.via = "hep"
  BY <1>5
<1>7. ASSUME got # None PROVE Relayed(h) /\ (got = Crash => cmd.version = 2)
  <2>1. CASE cmd.version = 2
    <3>1. got = ReceiveV2(d.data)
      BY <1>4, <2>1 DEF Receive
    <3>2. QED
      BY <1>6, <1>7, <2>1, <3>1, RelayedV2
  <2>2. CASE cmd.version # 2
    <3>1. got = ReceiveV3(d.data, ListenPassword)
      BY <1>4, <2>2 DEF Receive
    <3>2. QED
      BY <1>6, <1>7, <3>1, RelayedV3
  <2>3. QED
    BY <2>1, <2>2
<1>8. CASE got = None
  <2>1. None # Crash
    BY PeersAssumption
  <2>2. pc' = [pc EXCEPT ![Hep] = "read"] /\ UNCHANGED <<phase, pkt>>
    BY <1>3, <1>4, <1>8, <2>1 DEF Step
  <2>3. pc' = pc
    BY <1>1, <1>2, <2>2
  <2>4. QED
    BY <1>2, <2>2, <2>3, NothingTaken
<1>9. CASE got # None /\ got = Crash
  <2>1. phase' = "crashed" /\ UNCHANGED <<pc, pkt>>
    BY <1>3, <1>4, <1>9
  <2>2. cmd.version = 2
    BY <1>7, <1>9
  <2>3. QED
    BY <1>2, <2>1, <2>2 DEF RelayInv, HandledRelayed, RelayedAsCaptured, Relayed
<1>10. CASE got # None /\ got # Crash
  <2>1. pc' = [pc EXCEPT ![Hep] = "early"] /\ UNCHANGED phase /\ pkt' = [pkt EXCEPT ![Hep] = h]
    BY <1>3, <1>4, <1>5, <1>10 DEF Step
  <2>2. "early" \in ThreadStates
    BY DEF ThreadStates
  <2>3. QED
    BY <1>1, <1>2, <1>7, <1>10, <2>1, <2>2, RelayedTaken
<1>11. QED
  BY <1>8, <1>9, <1>10

LEMMA NextRelay ==
  ASSUME Inv, RelayInv, [Next]_vars
  PROVE  RelayInv'
<1>1. CASE Main
  <2>1. (\A s \in Names : pc[s] = "read") /\ stored = {}
    BY <1>1 DEF Inv, Fresh, Main
  <2>2. UNCHANGED <<pc, stored>> /\ phase' # "crashed"
    BY <1>1 DEF Main
  <2>3. QED
    BY <2>1, <2>2 DEF RelayInv, HandledRelayed, RelayedAsCaptured
<1>2. ASSUME NEW s \in Range(sources), Thread(s) PROVE RelayInv'
  BY <1>2, RelayThread
<1>3. CASE Listen
  BY <1>3, RelayListen
<1>4. CASE TogglePause \/ Close \/ Stopping \/ Rotate \/ Hangup
  <2>1. UNCHANGED <<cmd, pc, pkt, stored>> /\ (phase' = "crashed" => phase = "crashed")
    BY <1>4 DEF TogglePause, Close, Stopping, CancelNext, JoinNext, Exit, Rotate, Hangup, threads, output
  <2>2. QED
    BY <2>1, NothingTaken
<1>5. CASE UNCHANGED vars
  <2>1. UNCHANGED <<cmd, pc, pkt, stored, phase>>
    BY <1>5 DEF vars, threads
  <2>2. QED
    BY <2>1, NothingTaken
<1>6. QED
  BY <1>1, <1>2, <1>3, <1>4, <1>5 DEF Next

\* A packet another host forwarded, with whatever password, is stored as that
\* host captured it, with the type of SIP over UDP; only version 2 may change
\* its length, unless the total length is a multiple of 256, or crash the program.
THEOREM PacketsRelayed == Spec => []RelayedAsCaptured
<1>1. Init => RelayInv
  BY DEF Init, RelayInv, HandledRelayed, RelayedAsCaptured
<1>2. Inv /\ RelayInv /\ [Next]_vars => RelayInv'
  BY NextRelay
<1>3. RelayInv => RelayedAsCaptured
  BY DEF RelayInv
<1>4. QED
  BY <1>1, <1>2, <1>3, Invariance, PTL DEF Spec
===============================================================================
