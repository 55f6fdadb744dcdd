----------------------------- MODULE Calls_proofs -----------------------------
(***************************************************************************)
(* Theorems about the calls that sngrep keeps, for any number of Call-IDs, *)
(* packets, messages and calls, and any limit: first the store of all the  *)
(* calls, then the messages of one dialog.                                 *)
(***************************************************************************)
EXTENDS CallStore, CallDialog, SequenceLemmas

-------------------------------------------------------------------------------
(* Vectors *)

\* The group has the calls it had and the ones that are appended.
LEMMA JoinedFacts ==
  ASSUME NEW S, NEW a \in Seq(S), NEW s \in Seq(S)
  PROVE  /\ Joined(a, s) \in Seq(S)
         /\ Range(Joined(a, s)) = Range(a) \cup Range(s)
<1> DEFINE n == Len(s)
           T == Seq(S)
           step == [i \in 1 .. n |-> [t \in T |-> IF Contains(t, s[i]) THEN t ELSE Append(t, s[i])]]
           eq(f) == [i \in 0 .. n |-> IF i = 0 THEN a
                                      ELSE IF Contains(f[i - 1], s[i]) THEN f[i - 1]
                                           ELSE Append(f[i - 1], s[i])]
           F == CHOOSE f : f = eq(f)
<1>1. Joined(a, s) = F[n]
  BY DEF Joined
<1>2. n \in Nat /\ a \in T /\ \A i \in 1 .. n : s[i] \in S
  OBVIOUS
<1>3. step \in [1 .. n -> [T -> T]]
  BY <1>2
<1>4. \A i \in 1 .. n, t \in T : step[i][t] = IF Contains(t, s[i]) THEN t ELSE Append(t, s[i])
  OBVIOUS
<1> HIDE DEF n, T, step
<1>5. F = eq(F)
  <2>1. PICK f : IsRecursion(f, n, T, a, step)
    BY <1>2, <1>3, RecursiveFunction
  <2>2. f \in [0 .. n -> T] /\ f[0] = a /\ \A i \in 1 .. n : f[i] = step[i][f[i - 1]]
    BY <2>1 DEF IsRecursion
  <2>3. \A i \in 1 .. n : i - 1 \in 0 .. n /\ f[i - 1] \in T
    BY <1>2, <2>2
  <2>4. \A i \in 1 .. n : f[i] = IF Contains(f[i - 1], s[i]) THEN f[i - 1]
                                 ELSE Append(f[i - 1], s[i])
    BY <1>4, <2>2, <2>3
  <2>5. \A i \in 0 .. n : i = 0 \/ (i # 0 /\ i \in 1 .. n)
    BY <1>2
  <2>6. \A i \in 0 .. n : f[i] = IF i = 0 THEN a
                                 ELSE IF Contains(f[i - 1], s[i]) THEN f[i - 1]
                                      ELSE Append(f[i - 1], s[i])
    BY <2>2, <2>4, <2>5
  <2>7. f = eq(f)
    BY <2>2, <2>6
  <2>8. QED
    BY <2>7
<1> HIDE DEF F
<1>6. F[0] = a
  BY <1>2, <1>5
<1>7. \A i \in 1 .. n : F[i] = IF Contains(F[i - 1], s[i]) THEN F[i - 1] ELSE Append(F[i - 1], s[i])
  <2>1. \A i \in 1 .. n : i \in 0 .. n /\ i # 0
    BY <1>2
  <2>2. \A i \in 0 .. n : F[i] = eq(F)[i]
    BY <1>5
  <2>3. QED
    BY <2>1, <2>2
<1> DEFINE G == {i \in 0 .. n : F[i] \in T /\ Range(F[i]) = Range(a) \cup {s[j] : j \in 1 .. i}}
<1>8. 0 \in G
  <2>1. 1 .. 0 = {} /\ 0 \in 0 .. n
    BY <1>2
  <2>2. QED
    BY <1>2, <1>6, <2>1
<1>9. ASSUME NEW i \in 1 .. n, i - 1 \in G PROVE i \in G
  <2>1. F[i - 1] \in T /\ Range(F[i - 1]) = Range(a) \cup {s[j] : j \in 1 .. (i - 1)}
    BY <1>9
  <2>2. {s[j] : j \in 1 .. i} = {s[j] : j \in 1 .. (i - 1)} \cup {s[i]}
    OBVIOUS
  <2>3. CASE Contains(F[i - 1], s[i])
    <3>1. F[i] = F[i - 1]
      BY <1>7, <2>3
    <3>2. s[i] \in Range(F[i - 1])
      BY <2>1, <2>3 DEF Contains, Range, T
    <3>3. QED
      BY <2>1, <2>2, <3>1, <3>2
  <2>4. CASE ~Contains(F[i - 1], s[i])
    <3>1. F[i] = Append(F[i - 1], s[i])
      BY <1>7, <2>4
    <3>2. F[i] \in T /\ Range(F[i]) = Range(F[i - 1]) \cup {s[i]}
      BY <1>2, <2>1, <3>1, AppendFacts DEF T
    <3>3. QED
      BY <2>1, <2>2, <3>2
  <2>5. QED
    BY <2>3, <2>4
<1>10. \A i \in 0 .. n : i \in G
  <2> HIDE DEF G
  <2>1. QED
    BY <1>2, <1>8, <1>9, UpTo
<1>11. n \in G
  <2> HIDE DEF G
  <2>1. QED
    BY <1>2, <1>10
<1>12. Range(s) = {s[j] : j \in 1 .. n}
  BY DEF Range, n
<1>13. QED
  BY <1>1, <1>11, <1>12 DEF n, T

\* vector_append to calls.list adds the call, wherever the sorter puts it.
LEMMA ListAppendFacts ==
  ASSUME NEW S, NEW s \in Seq(S), NEW o \in S, NEW c, NEW srt
  PROVE  /\ ListAppend(c, srt, s, o) \in Seq(S)
         /\ Len(ListAppend(c, srt, s, o)) = Len(s) + 1
         /\ Range(ListAppend(c, srt, s, o)) = Range(s) \cup {o}
         /\ IsInjective(s) /\ o \notin Range(s) => IsInjective(ListAppend(c, srt, s, o))
<1>1. CASE ~managed
  BY <1>1, AppendFacts DEF ListAppend
<1>2. CASE managed
  <2> DEFINE Before(p) == IF srt.asc THEN Key(c, srt.by, o) > Key(c, srt.by, p)
                                     ELSE Key(c, srt.by, o) < Key(c, srt.by, p)
             behind == {i \in DOMAIN s : Before(s[i])}
             at == IF behind = {} THEN 1 ELSE Max(behind) + 1
  <2>1. ListAppend(c, srt, s, o) = InsertAt(s, at, o)
    BY <1>2 DEF ListAppend, Sorter
  <2>2. at \in 1 .. Len(s) + 1
    <3>1. behind \subseteq 1 .. Len(s) /\ behind \subseteq 0 .. Len(s) /\ Len(s) \in Nat
      OBVIOUS
    <3> HIDE DEF behind
    <3>2. behind # {} => Max(behind) \in 1 .. Len(s)
      BY <3>1, MaxOfNats
    <3>3. QED
      BY <3>1, <3>2
  <2> HIDE DEF at
  <2>3. QED
    BY <2>1, <2>2, InsertAtFacts
<1>3. QED
  BY <1>1, <1>2

\* Sorting the list anew keeps its calls.
LEMMA SortedFacts ==
  ASSUME NEW S, NEW s \in Seq(S), NEW c, NEW srt, IsInjective(s)
  PROVE  /\ Sorted(c, srt, s) \in Seq(S)
         /\ Len(Sorted(c, srt, s)) = Len(s)
         /\ Range(Sorted(c, srt, s)) = Range(s)
         /\ IsInjective(Sorted(c, srt, s))
<1> DEFINE n == Len(s)
           T == Seq(S)
           step == [i \in 1 .. n |-> [t \in T |-> ListAppend(c, srt, t, s[i])]]
           eq(f) == [i \in 0 .. n |-> IF i = 0 THEN <<>> ELSE ListAppend(c, srt, f[i - 1], s[i])]
           F == CHOOSE f : f = eq(f)
<1>1. Sorted(c, srt, s) = F[n]
  BY DEF Sorted
<1>2. n \in Nat /\ <<>> \in T /\ \A i \in 1 .. n : s[i] \in S
  OBVIOUS
<1>3. step \in [1 .. n -> [T -> T]]
  <2>1. \A i \in 1 .. n, t \in T : ListAppend(c, srt, t, s[i]) \in T
    BY <1>2, ListAppendFacts
  <2>2. QED
    BY <2>1
<1>4. \A i \in 1 .. n, t \in T : step[i][t] = ListAppend(c, srt, t, s[i])
  OBVIOUS
<1> HIDE DEF n, T, step
<1>5. F = eq(F)
  <2>1. PICK f : IsRecursion(f, n, T, <<>>, step)
    BY <1>2, <1>3, RecursiveFunction
  <2>2. f \in [0 .. n -> T] /\ f[0] = <<>> /\ \A i \in 1 .. n : f[i] = step[i][f[i - 1]]
    BY <2>1 DEF IsRecursion
  <2>3. \A i \in 1 .. n : i - 1 \in 0 .. n /\ f[i - 1] \in T
    BY <1>2, <2>2
  <2>4. \A i \in 1 .. n : f[i] = ListAppend(c, srt, f[i - 1], s[i])
    BY <1>4, <2>2, <2>3
  <2>5. \A i \in 0 .. n : i = 0 \/ (i # 0 /\ i \in 1 .. n)
    BY <1>2
  <2>6. \A i \in 0 .. n : f[i] = IF i = 0 THEN <<>> ELSE ListAppend(c, srt, f[i - 1], s[i])
    BY <2>2, <2>4, <2>5
  <2>7. f = eq(f)
    BY <2>2, <2>6
  <2>8. QED
    BY <2>7
<1> HIDE DEF F
<1>6. F[0] = <<>>
  BY <1>2, <1>5
<1>7. \A i \in 1 .. n : F[i] = ListAppend(c, srt, F[i - 1], s[i])
  <2>1. \A i \in 1 .. n : i \in 0 .. n /\ i # 0
    BY <1>2
  <2>2. \A i \in 0 .. n : F[i] = eq(F)[i]
    BY <1>5
  <2>3. QED
    BY <2>1, <2>2
<1> DEFINE G == {i \in 0 .. n : /\ F[i] \in T
                                /\ Range(F[i]) = {s[j] : j \in 1 .. i}
                                /\ Len(F[i]) = i
                                /\ IsInjective(F[i])}
<1>8. 0 \in G
  <2>1. Range(<<>>) = {} /\ IsInjective(<<>>) /\ Len(<<>>) = 0 /\ 1 .. 0 = {} /\ 0 \in 0 .. n
    BY <1>2 DEF Range, IsInjective
  <2>2. QED
    BY <1>2, <1>6, <2>1
<1>9. ASSUME NEW i \in 1 .. n, i - 1 \in G PROVE i \in G
  <2>1. /\ F[i - 1] \in T /\ Range(F[i - 1]) = {s[j] : j \in 1 .. (i - 1)}
        /\ Len(F[i - 1]) = i - 1 /\ IsInjective(F[i - 1])
    BY <1>9
  <2>2. {s[j] : j \in 1 .. i} = {s[j] : j \in 1 .. (i - 1)} \cup {s[i]}
    OBVIOUS
  <2>3. s[i] \notin {s[j] : j \in 1 .. (i - 1)}
    BY <1>2 DEF IsInjective, n
  <2>4. /\ F[i] \in T /\ Len(F[i]) = Len(F[i - 1]) + 1
        /\ Range(F[i]) = Range(F[i - 1]) \cup {s[i]}
        /\ IsInjective(F[i])
    <3>1. F[i] = ListAppend(c, srt, F[i - 1], s[i]) /\ s[i] \notin Range(F[i - 1])
      BY <1>7, <2>1, <2>3
    <3>2. QED
      BY <1>2, <2>1, <3>1, ListAppendFacts DEF T
  <2>5. Len(F[i]) = i
    BY <2>1, <2>4
  <2>6. QED
    BY <2>1, <2>2, <2>4, <2>5
<1>10. \A i \in 0 .. n : i \in G
  <2> HIDE DEF G
  <2>1. QED
    BY <1>2, <1>8, <1>9, UpTo
<1>11. n \in G
  <2> HIDE DEF G
  <2>1. QED
    BY <1>2, <1>10
<1>12. Range(s) = {s[j] : j \in 1 .. n}
  BY DEF Range, n
<1>13. QED
  BY <1>1, <1>11, <1>12 DEF n, T

-------------------------------------------------------------------------------
(* The memory of the calls, and groups *)

Memory == [Objects -> CallRecords \cup {None}]

\* Memory n holds the calls of memory m, with their Call-IDs and relations.
Alike(m, n) ==
  \A o \in Objects :
    /\ m[o] = None <=> n[o] = None
    /\ m[o] # None => n[o].callid = m[o].callid /\ n[o].xcalls = m[o].xcalls

LEMMA AlikeTransitive ==
  ASSUME NEW k, NEW m, NEW n, Alike(k, m), Alike(m, n)
  PROVE  Alike(k, n)
BY DEF Alike

\* Locking and unlocking calls changes nothing else.
LEMMA SetLockedAlike ==
  ASSUME NEW mem \in Memory, NEW os, NEW value \in BOOLEAN
  PROVE  SetLocked(mem, os, value) \in Memory /\ Alike(mem, SetLocked(mem, os, value))
<1> DEFINE new == SetLocked(mem, os, value)
<1>1. ASSUME NEW r \in CallRecords
      PROVE  /\ [r EXCEPT !.locked = value] \in CallRecords
             /\ [r EXCEPT !.locked = value] # None
             /\ [r EXCEPT !.locked = value].callid = r.callid
             /\ [r EXCEPT !.locked = value].xcalls = r.xcalls
  <2>1. [r EXCEPT !.locked = value] \in CallRecords
    BY DEF CallRecords
  <2>2. QED
    BY <2>1, RecordAssumption DEF CallRecords
<1>2. \A o \in Objects : new[o] = mem[o] \/ (mem[o] \in CallRecords /\ new[o] = [mem[o] EXCEPT !.locked = value])
  BY DEF SetLocked, Memory
<1>3. \A o \in Objects : new[o] \in CallRecords \cup {None}
  BY <1>1, <1>2 DEF Memory
<1>4. new \in Memory
  BY <1>3 DEF SetLocked, Memory
<1>5. ASSUME NEW o \in Objects
      PROVE  /\ mem[o] = None <=> new[o] = None
             /\ mem[o] # None => new[o].callid = mem[o].callid /\ new[o].xcalls = mem[o].xcalls
  <2> HIDE DEF new
  <2>1. CASE new[o] = mem[o]
    BY <2>1
  <2>2. CASE mem[o] \in CallRecords /\ new[o] = [mem[o] EXCEPT !.locked = value]
    BY <1>1, <2>2, RecordAssumption
  <2>3. QED
    BY <1>2, <2>1, <2>2
<1>6. QED
  BY <1>4, <1>5 DEF Alike

\* A group and the memory it is about.
Groups == [mem : Memory, calls : Seq(Objects)]

\* call_group_add, call_group_add_calls and call_group_del keep the calls, and
\* the group has the calls asked for besides the ones it had.
LEMMA GroupAddFacts ==
  ASSUME NEW g \in Groups, NEW o \in Objects
  PROVE  /\ GroupAdd(g, o) \in Groups /\ Alike(g.mem, GroupAdd(g, o).mem)
         /\ Range(GroupAdd(g, o).calls) = Range(g.calls) \cup {o}
<1>1. g.mem \in Memory /\ g.calls \in Seq(Objects)
  BY DEF Groups
<1>2. CASE Contains(g.calls, o)
  <2>1. GroupAdd(g, o) = g
    BY <1>2 DEF GroupAdd
  <2>2. o \in Range(g.calls)
    BY <1>1, <1>2 DEF Contains, Range
  <2>3. Alike(g.mem, g.mem)
    BY DEF Alike
  <2>4. QED
    BY <2>1, <2>2, <2>3
<1>3. CASE ~Contains(g.calls, o)
  <2>1. GroupAdd(g, o) = [mem |-> SetLocked(g.mem, {o}, TRUE), calls |-> Append(g.calls, o)]
    BY <1>3, StoreAssumption DEF GroupAdd
  <2>2. SetLocked(g.mem, {o}, TRUE) \in Memory /\ Alike(g.mem, SetLocked(g.mem, {o}, TRUE))
    BY <1>1, SetLockedAlike
  <2>3. Append(g.calls, o) \in Seq(Objects) /\ Range(Append(g.calls, o)) = Range(g.calls) \cup {o}
    BY <1>1, AppendFacts
  <2>4. [mem |-> SetLocked(g.mem, {o}, TRUE), calls |-> Append(g.calls, o)] \in Groups
    BY <2>2, <2>3 DEF Groups
  <2>5. GroupAdd(g, o) \in Groups
    BY <2>1, <2>4
  <2>6. /\ GroupAdd(g, o).mem = SetLocked(g.mem, {o}, TRUE)
        /\ GroupAdd(g, o).calls = Append(g.calls, o)
    BY <2>1
  <2>7. QED
    BY <2>2, <2>3, <2>5, <2>6
<1>4. QED
  BY <1>2, <1>3

LEMMA GroupAddCallsFacts ==
  ASSUME NEW g \in Groups, NEW os \in Seq(Objects)
  PROVE  /\ GroupAddCalls(g, os) \in Groups /\ Alike(g.mem, GroupAddCalls(g, os).mem)
         /\ Range(GroupAddCalls(g, os).calls) = Range(g.calls) \cup Range(os)
<1>1. g.mem \in Memory /\ g.calls \in Seq(Objects)
  BY DEF Groups
<1>2. /\ SetLocked(g.mem, Range(os), TRUE) \in Memory
      /\ Alike(g.mem, SetLocked(g.mem, Range(os), TRUE))
  BY <1>1, SetLockedAlike
<1>3. Joined(g.calls, os) \in Seq(Objects) /\ Range(Joined(g.calls, os)) = Range(g.calls) \cup Range(os)
  BY <1>1, JoinedFacts
<1>4. QED
  BY <1>2, <1>3 DEF GroupAddCalls, Groups

LEMMA GroupDelFacts ==
  ASSUME NEW g \in Groups, NEW o \in Objects
  PROVE  /\ GroupDel(g, o) \in Groups /\ Alike(g.mem, GroupDel(g, o).mem)
         /\ Range(GroupDel(g, o).calls) \subseteq Range(g.calls)
<1>1. g.mem \in Memory /\ g.calls \in Seq(Objects)
  BY DEF Groups
<1>2. SetLocked(g.mem, {o}, FALSE) \in Memory /\ Alike(g.mem, SetLocked(g.mem, {o}, FALSE))
  BY <1>1, SetLockedAlike
<1>3. /\ RemoveFirst(g.calls, o) \in Seq(Objects)
      /\ Range(RemoveFirst(g.calls, o)) \subseteq Range(g.calls)
  BY <1>1, RemoveFirstFacts
<1>4. QED
  BY <1>2, <1>3 DEF GroupDel, Groups

-------------------------------------------------------------------------------
(* The invariant *)

StoreTypeOK ==
  /\ options \in Options
  /\ call \in Memory
  /\ last_index \in 0 .. MaxCalls
  /\ list \in Seq(Objects) /\ active \in Seq(Objects)
  /\ managed \in BOOLEAN
  /\ callids \in [CallIds -> Objects \cup {None}]
  /\ sort \in [by : {"index", "msgs"}, asc : BOOLEAN]
  /\ pending \in [Threads -> Messages \cup {None}]

UiTypeOK ==
  /\ panels \in {<<>>, <<"flow">>, <<"raw">>, <<"flow", "raw">>}
  /\ group \in Seq(Objects) /\ selected \in Seq(Objects) /\ dcalls \in Seq(Objects)
  /\ groupid \in CallIds \cup {None}
  /\ cursor \in Nat
  /\ drawn \in BOOLEAN

\* The types of the variables.
TypeOK == StoreTypeOK /\ UiTypeOK

\* An index that was not given out is in no list.
IndexInv == Range(list) \subseteq 1 .. last_index

\* What the hash table needs.
HashInv == TypeOK /\ IndexInv /\ HashMatchesList

\* The calls the interface has, and the cursor of a list that waits for a key,
\* are in memory.
UiLive ==
  /\ \A o \in Range(selected) \cup Range(group) : call[o] # None
  /\ drawn /\ panels = <<>> /\ current # None => call[current] # None

\* So are the relatives of a call that is.
XcallsLive ==
  \A o \in Objects : call[o] # None => \A p \in Range(call[o].xcalls) : call[p] # None

\* While the list frees its calls, there is no call besides the listed ones.
NoStrays == managed => \A o \in Objects : call[o] # None => o \in Range(list)

\* A message that has passed the limit check finds room for its call.
RoomLeft == \A t \in Threads : pending[t] # None => Len(list) < Limit

\* What the interface needs, without rotation.
LiveInv == ~options.rotate => UiLive /\ XcallsLive /\ NoStrays /\ RoomLeft

-------------------------------------------------------------------------------
(* The interface *)

\* The relatives of a call are calls.
LEMMA XcallsType ==
  ASSUME NEW mem \in Memory, NEW o \in Objects, mem[o] # None
  PROVE  mem[o] \in CallRecords /\ mem[o].xcalls \in Seq(Objects) /\ mem[o].callid \in CallIds
BY DEF Memory, CallRecords

\* The extended flow is that of a call in the store, if there is one.
LEMMA ExtendsToFacts ==
  ASSUME TypeOK, HashMatchesList, NEW o \in Objects, call[o] # None
  PROVE  /\ ExtendsTo(o) \in Objects \cup {None}
         /\ ExtendsTo(o) # None => call[ExtendsTo(o)] # None
         /\ ExtendedId(o) \in CallIds \cup {None}
<1>1. call[o].callid \in CallIds /\ call \in Memory
  BY XcallsType DEF TypeOK, StoreTypeOK
<1>2. CASE XCallId[call[o].callid] = None
  BY <1>1, <1>2, StoreAssumption DEF ExtendsTo, ExtendedId
<1>3. CASE XCallId[call[o].callid] # None
  <2>1. XCallId[call[o].callid] \in CallIds
    BY <1>1, <1>3, StoreAssumption
  <2>2. ExtendsTo(o) = callids[XCallId[call[o].callid]] /\ ExtendsTo(o) \in Objects \cup {None}
    BY <1>3, <2>1 DEF ExtendsTo, TypeOK, StoreTypeOK
  <2>3. ExtendsTo(o) # None => call[ExtendsTo(o)] # None
    BY <2>1, <2>2 DEF HashMatchesList
  <2>4. ExtendedId(o) \in CallIds \cup {None}
    BY <1>1, <2>2, <2>3, XcallsType DEF ExtendedId
  <2>5. QED
    BY <2>2, <2>3, <2>4
<1>4. QED
  BY <1>2, <1>3

\* An extended flow has the group's calls, the call it extends to and that
\* one's relatives.
LEMMA GroupExtendedFacts ==
  ASSUME TypeOK, HashMatchesList, NEW o \in Objects, call[o] # None,
         NEW g \in Groups, Alike(call, g.mem)
  PROVE  /\ GroupExtended(g, o) \in Groups
         /\ Alike(call, GroupExtended(g, o).mem)
         /\ \A p \in Range(GroupExtended(g, o).calls) :
              \/ p \in Range(g.calls)
              \/ /\ ExtendsTo(o) # None
                 /\ p = ExtendsTo(o) \/ p \in Range(call[ExtendsTo(o)].xcalls)
<1> DEFINE root == ExtendsTo(o)
<1>1. root \in Objects \cup {None} /\ (root # None => call[root] # None)
  BY ExtendsToFacts
<1>2. call \in Memory /\ g.mem \in Memory
  BY DEF TypeOK, StoreTypeOK, Groups
<1>3. root # None => /\ g.mem[root] # None /\ g.mem[root].xcalls \in Seq(Objects)
                     /\ g.mem[root].xcalls = call[root].xcalls
  BY <1>1, <1>2, XcallsType DEF Alike
<1>4. CASE root = None
  <2>1. GroupExtended(g, o) = g
    BY <1>4, StoreAssumption DEF GroupExtended
  <2>2. QED
    BY <2>1
<1>5. CASE root = o
  <2>1. GroupExtended(g, o) = GroupAddCalls(g, g.mem[o].xcalls)
    BY <1>5, StoreAssumption DEF GroupExtended
  <2>2. o # None
    BY StoreAssumption
  <2>3. /\ GroupAddCalls(g, g.mem[o].xcalls) \in Groups
        /\ Alike(g.mem, GroupAddCalls(g, g.mem[o].xcalls).mem)
        /\ Range(GroupAddCalls(g, g.mem[o].xcalls).calls) = Range(g.calls) \cup Range(g.mem[o].xcalls)
    BY <1>3, <1>5, <2>2, GroupAddCallsFacts
  <2>4. Alike(call, GroupAddCalls(g, g.mem[o].xcalls).mem)
    BY <2>3, AlikeTransitive
  <2>5. QED
    BY <1>3, <1>5, <2>1, <2>2, <2>3, <2>4
<1>6. CASE root \notin {None, o}
  <2> DEFINE g1 == GroupDel(g, o)
             g2 == GroupAdd(g1, root)
             g3 == GroupAddCalls(g2, g.mem[root].xcalls)
  <2>1. GroupExtended(g, o) = g3
    BY <1>6 DEF GroupExtended
  <2>2. g1 \in Groups /\ Alike(g.mem, g1.mem) /\ Range(g1.calls) \subseteq Range(g.calls)
    BY GroupDelFacts
  <2>3. root \in Objects
    BY <1>1, <1>6
  <2> HIDE DEF g1, root
  <2>4. g2 \in Groups /\ Alike(g1.mem, g2.mem) /\ Range(g2.calls) = Range(g1.calls) \cup {root}
    BY <2>2, <2>3, GroupAddFacts
  <2> HIDE DEF g2
  <2>5. /\ g3 \in Groups /\ Alike(g2.mem, g3.mem)
        /\ Range(g3.calls) = Range(g2.calls) \cup Range(g.mem[root].xcalls)
    BY <1>3, <1>6, <2>4, GroupAddCallsFacts
  <2> HIDE DEF g3
  <2>6. Alike(call, g3.mem)
    BY <2>2, <2>4, <2>5, AlikeTransitive
  <2>7. \A p \in Range(g3.calls) : p \in Range(g.calls) \/ p = root \/ p \in Range(call[root].xcalls)
    BY <1>3, <1>6, <2>2, <2>4, <2>5
  <2>8. QED
    BY <1>6, <2>1, <2>5, <2>6, <2>7 DEF root
<1>7. QED
  BY <1>4, <1>5, <1>6

\* What a step of the interface does that clears and sorts nothing.
UiStep ==
  /\ call' \in Memory /\ Alike(call, call')
  /\ UNCHANGED <<storeVars, pending>>
  /\ UiTypeOK'
  /\ UiLive /\ XcallsLive => UiLive'

\* Members of a sequence of calls are calls.
LEMMA RangeType ==
  ASSUME NEW S, NEW s \in Seq(S)
  PROVE  /\ Range(s) \subseteq S
         /\ s # <<>> => s[1] \in Range(s) /\ Head(s) \in Range(s)
         /\ \A e : Contains(s, e) => e \in Range(s)
BY DEF Range, Contains

LEMMA AlikeReflexive ==
  ASSUME NEW m
  PROVE  Alike(m, m)
BY DEF Alike

\* A key is handled with the cursor on a call, or with none: afterwards the
\* list has to be drawn before the cursor counts again.
LEMMA KeyLive ==
  ASSUME TypeOK, KeyPressed, Alike(call, call'),
         selected' \in Seq(Objects), group' \in Seq(Objects),
         \A o \in Range(selected') \cup Range(group') : call[o] # None
  PROVE  UiLive'
<1>1. Range(selected') \subseteq Objects /\ Range(group') \subseteq Objects
  BY RangeType
<1>2. \A o \in Range(selected') \cup Range(group') : call'[o] # None
  BY <1>1 DEF Alike
<1>3. QED
  BY <1>2 DEF UiLive, KeyPressed

\* The call under the cursor is one of the list.
LEMMA CurrentFacts ==
  ASSUME TypeOK
  PROVE  current \in Range(dcalls) \cup {None} /\ current \in Objects \cup {None}
<1>1. dcalls \in Seq(Objects)
  BY DEF TypeOK, UiTypeOK
<1>2. current \in Range(dcalls) \cup {None}
  BY DEF current, Range
<1>3. QED
  BY <1>1, <1>2, RangeType

LEMMA CurrentKept ==
  ASSUME UNCHANGED listVars
  PROVE  current' = current
BY DEF listVars, current

LEMMA MoveToFacts ==
  ASSUME NEW lines \in Seq(Objects), NEW to \in Nat, cursor \in Nat
  PROVE  MoveTo(lines, to) \in Nat
<1>1. Len(lines) \in Nat
  OBVIOUS
<1>2. \A m, n \in Nat : Min({m, n}) \in Nat /\ Max({m, n}) \in Nat
  <2> SUFFICES ASSUME NEW m \in Nat, NEW n \in Nat
               PROVE  Min({m, n}) \in Nat /\ Max({m, n}) \in Nat
    OBVIOUS
  <2>1. {m, n} \subseteq Nat /\ {m, n} # {}
    OBVIOUS
  <2>2. Min({m, n}) \in {m, n}
    BY <2>1, MinOfNats
  <2>3. PICK k \in Nat : {m, n} \subseteq 0 .. k
    <3>1. {m, n} \subseteq 0 .. (m + n) /\ m + n \in Nat
      OBVIOUS
    <3>2. QED
      BY <3>1
  <2>4. Max({m, n}) \in {m, n}
    BY <2>1, <2>3, MaxOfNats
  <2>5. QED
    BY <2>2, <2>4
<1>3. QED
  BY <1>1, <1>2 DEF MoveTo

LEMMA DrawListStep ==
  ASSUME TypeOK, HashMatchesList, DrawList
  PROVE  UiStep
<1>1. dcalls' = Displayed(list) /\ call' = call /\ UNCHANGED <<storeVars, pending, panelVars, selected>>
  BY DEF DrawList
<1>2. list \in Seq(Objects) /\ \A o \in Range(list) : call[o] # None
  BY DEF TypeOK, StoreTypeOK, HashMatchesList
<1>3. dcalls' \in Seq(Objects) /\ Range(dcalls') \subseteq Range(list)
  BY <1>1, <1>2, CopyIfFacts DEF Displayed
<1>4. current' \in Range(dcalls') \cup {None}
  BY DEF current, Range
<1>5. current' # None => call'[current'] # None
  BY <1>1, <1>2, <1>3, <1>4
<1>6. UiTypeOK'
  <2>1. cursor \in Nat
    BY DEF TypeOK, UiTypeOK
  <2>2. \A o : vector_index(dcalls', o) \in Nat
    <3> SUFFICES ASSUME NEW o PROVE vector_index(dcalls', o) \in Nat
      OBVIOUS
    <3> DEFINE places == {i \in DOMAIN dcalls' : dcalls'[i] = o}
    <3>1. places \subseteq Nat
      BY <1>3
    <3>2. vector_index(dcalls', o) = IF places = {} THEN 0 ELSE Min(places)
      BY DEF vector_index
    <3> HIDE DEF places
    <3>3. places # {} => Min(places) \in Nat
      BY <3>1, MinOfNats
    <3>4. QED
      BY <3>2, <3>3
  <2>3. MoveTo(dcalls', vector_index(dcalls', current)) \in Nat
    BY <1>3, <2>1, <2>2, MoveToFacts
  <2>4. cursor' \in Nat
    BY <2>1, <2>3 DEF DrawList
  <2>5. QED
    BY <1>1, <1>3, <2>4 DEF DrawList, TypeOK, UiTypeOK, panelVars
<1>7. UiLive => UiLive'
  BY <1>1, <1>5 DEF UiLive, panelVars
<1>8. QED
  BY <1>1, <1>6, <1>7, AlikeReflexive DEF UiStep, TypeOK, StoreTypeOK

LEMMA DrawPanelStep ==
  ASSUME TypeOK, HashMatchesList, DrawPanel
  PROVE  UiStep
<1>1. /\ panels # <<>> /\ drawn' = TRUE
      /\ UNCHANGED <<storeVars, pending, panels, groupid, listVars>>
  BY DEF DrawPanel
<1>2. CASE UNCHANGED <<call, group>>
  BY <1>1, <1>2, AlikeReflexive DEF UiStep, TypeOK, StoreTypeOK, UiTypeOK, UiLive, listVars
<1>3. CASE ~UNCHANGED <<call, group>>
  <2> DEFINE g == [mem |-> call, calls |-> group]
             based == {o \in Range(group) : call[o] # None /\ call[o].callid = groupid}
             os == IF based = {} THEN <<>> ELSE call[Min(based)].xcalls
             h == GroupAddCalls(g, os)
  <2>1. call' = h.mem /\ group' = h.calls
    BY <1>3 DEF DrawPanel
  <2>2. g \in Groups /\ g.mem = call /\ g.calls = group /\ call \in Memory
    BY DEF Groups, TypeOK, StoreTypeOK, UiTypeOK
  <2>3. based # {} => Min(based) \in Objects /\ call[Min(based)] # None
    <3>1. group \in Seq(Objects)
      BY DEF TypeOK, UiTypeOK
    <3>2. based \subseteq Objects /\ \A o \in based : call[o] # None
      BY <3>1, RangeType
    <3>3. Objects \subseteq Nat
      BY DEF Objects
    <3> HIDE DEF based
    <3>4. QED
      BY <3>2, <3>3, MinOfNats
  <2>4. os \in Seq(Objects) /\ (XcallsLive => \A o \in Range(os) : call[o] # None)
    <3>1. CASE based = {}
      <4>1. os = <<>> /\ Range(<<>>) = {} /\ <<>> \in Seq(Objects)
        BY <3>1 DEF Range
      <4> HIDE DEF os
      <4>2. QED
        BY <4>1
    <3>2. CASE based # {}
      <4> HIDE DEF based
      <4>1. os = call[Min(based)].xcalls
        BY <3>2
      <4>2. QED
        BY <2>2, <2>3, <3>2, <4>1, XcallsType DEF XcallsLive
    <3>3. QED
      BY <3>1, <3>2
  <2> HIDE DEF g, os
  <2>5. h \in Groups /\ Alike(call, h.mem) /\ Range(h.calls) = Range(group) \cup Range(os)
    BY <2>2, <2>4, GroupAddCallsFacts
  <2>6. call' \in Memory /\ Alike(call, call') /\ group' \in Seq(Objects)
    BY <2>1, <2>5 DEF Groups
  <2>7. Range(group') \subseteq Objects /\ Range(selected') \subseteq Objects
    BY <1>1, <2>6, RangeType DEF listVars, TypeOK, UiTypeOK
  <2>8. UiLive /\ XcallsLive => \A o \in Range(selected') \cup Range(group') : call[o] # None
    BY <1>1, <2>1, <2>4, <2>5 DEF UiLive, listVars
  <2>9. UiLive /\ XcallsLive => UiLive'
    BY <1>1, <2>6, <2>7, <2>8 DEF UiLive, Alike
  <2>10. QED
    BY <1>1, <2>6, <2>9 DEF UiStep, TypeOK, UiTypeOK, listVars
<1>4. QED
  BY <1>2, <1>3

\* The cursor of a list that waits for a key.
LEMMA CursorLive ==
  ASSUME TypeOK, UiLive, KeyPressed, panels = <<>>, current # None
  PROVE  current \in Objects /\ call[current] # None
BY CurrentFacts DEF UiLive, KeyPressed

LEMMA MoveStep ==
  ASSUME TypeOK, Move \/ ClearSelection
  PROVE  UiStep
<1>1. /\ KeyPressed /\ call' = call
      /\ UNCHANGED <<storeVars, pending, panelVars, dcalls>>
  BY DEF Move, ClearSelection
<1>2. cursor' \in Nat /\ (selected' = selected \/ selected' = <<>>)
  <2>1. cursor \in Nat /\ dcalls \in Seq(Objects)
    BY DEF TypeOK, UiTypeOK
  <2>2. \A to \in 0 .. Len(dcalls) + 1 : MoveTo(dcalls, to) \in Nat
    BY <2>1, MoveToFacts
  <2>3. QED
    BY <2>1, <2>2 DEF Move, ClearSelection
<1>3. UiTypeOK'
  <2>1. selected' \in Seq(Objects)
    <3>1. <<>> \in Seq(Objects) /\ selected \in Seq(Objects)
      BY DEF TypeOK, UiTypeOK
    <3>2. QED
      BY <1>2, <3>1
  <2>2. QED
    BY <1>1, <1>2, <2>1 DEF KeyPressed, TypeOK, UiTypeOK, panelVars
<1>4. UiLive => UiLive'
  <2>1. Range(<<>>) = {}
    BY DEF Range
  <2>2. QED
    BY <1>1, <1>2, <2>1 DEF UiLive, KeyPressed, panelVars
<1>5. QED
  BY <1>1, <1>3, <1>4, AlikeReflexive DEF UiStep, TypeOK, StoreTypeOK

LEMMA SelectStep ==
  ASSUME TypeOK, Select
  PROVE  UiStep
<1> DEFINE g == [mem |-> call, calls |-> selected]
           h == IF Contains(selected, current) THEN GroupDel(g, current) ELSE GroupAdd(g, current)
<1>1. /\ KeyPressed /\ panels = <<>> /\ call' = h.mem /\ selected' = h.calls
      /\ UNCHANGED <<storeVars, pending, panelVars, dcalls, cursor>>
  BY DEF Select
<1>2. g \in Groups /\ g.mem = call /\ g.calls = selected /\ current \in Objects \cup {None}
  BY CurrentFacts DEF Groups, TypeOK, StoreTypeOK, UiTypeOK
<1> HIDE DEF g
<1>3. h \in Groups /\ Alike(call, h.mem) /\ Range(h.calls) \subseteq Range(selected) \cup ({current} \ {None})
  <2>1. CASE current = None
    <3>1. ~Contains(selected, None)
      BY StoreAssumption, RangeType DEF Contains, Range, TypeOK, UiTypeOK
    <3>2. h = g
      BY <1>2, <2>1, <3>1 DEF GroupAdd
    <3>3. QED
      BY <1>2, <3>2, AlikeReflexive
  <2>2. CASE current \in Objects
    <3>1. /\ GroupAdd(g, current) \in Groups /\ Alike(call, GroupAdd(g, current).mem)
          /\ Range(GroupAdd(g, current).calls) = Range(selected) \cup {current}
      BY <1>2, <2>2, GroupAddFacts
    <3>2. /\ GroupDel(g, current) \in Groups /\ Alike(call, GroupDel(g, current).mem)
          /\ Range(GroupDel(g, current).calls) \subseteq Range(selected)
      BY <1>2, <2>2, GroupDelFacts
    <3>3. current # None
      BY <2>2, StoreAssumption
    <3>4. h = GroupDel(g, current) \/ h = GroupAdd(g, current)
      OBVIOUS
    <3> HIDE DEF h
    <3>5. QED
      BY <3>1, <3>2, <3>3, <3>4
  <2>3. QED
    BY <1>2, <2>1, <2>2
<1> HIDE DEF h
<1>4. call' \in Memory /\ Alike(call, call') /\ selected' \in Seq(Objects) /\ group' \in Seq(Objects)
  BY <1>1, <1>3 DEF Groups, TypeOK, UiTypeOK, panelVars
<1>5. UiLive => UiLive'
  <2>1. UiLive => \A o \in Range(selected') \cup Range(group') : call[o] # None
    BY <1>1, <1>3, CursorLive DEF UiLive, panelVars
  <2>2. QED
    BY <1>1, <1>4, <2>1, KeyLive
<1>6. QED
  BY <1>1, <1>4, <1>5 DEF UiStep, TypeOK, UiTypeOK, panelVars, KeyPressed

\* call_group_clone
LEMMA ClonedFacts ==
  ASSUME TypeOK
  PROVE  /\ Cloned \in Groups /\ Alike(call, Cloned.mem)
         /\ Range(Cloned.calls) \subseteq Range(selected) \cup ({current} \ {None})
<1> DEFINE g == [mem |-> call, calls |-> selected]
<1>1. g \in Groups /\ g.mem = call /\ g.calls = selected
  BY DEF Groups, TypeOK, StoreTypeOK, UiTypeOK
<1>2. Cloned = IF selected = <<>> THEN GroupAdd(g, current) ELSE g
  BY DEF Cloned
<1> HIDE DEF g
<1>3. current \in Objects \cup {None}
  BY CurrentFacts
<1>4. CASE current = None
  <2>1. Cloned = g
    BY <1>2, <1>4 DEF GroupAdd
  <2>2. QED
    BY <1>1, <2>1, AlikeReflexive
<1>5. CASE current \in Objects
  <2>1. /\ GroupAdd(g, current) \in Groups /\ Alike(call, GroupAdd(g, current).mem)
        /\ Range(GroupAdd(g, current).calls) = Range(selected) \cup {current}
    BY <1>1, <1>5, GroupAddFacts
  <2>2. current # None
    BY <1>5, StoreAssumption
  <2>3. QED
    BY <1>1, <1>2, <2>1, <2>2, AlikeReflexive
<1>6. QED
  BY <1>3, <1>4, <1>5

LEMMA ShowStep ==
  ASSUME TypeOK, NEW panel \in {"flow", "raw"}, Show(panel)
  PROVE  UiStep
<1>1. /\ KeyPressed /\ panels = <<>> /\ panels' = <<panel>>
      /\ call' = Cloned.mem /\ group' = Cloned.calls /\ groupid' = None
      /\ UNCHANGED <<storeVars, pending, listVars>>
  BY DEF Show
<1>3. call' \in Memory /\ Alike(call, call') /\ group' \in Seq(Objects) /\ selected' \in Seq(Objects)
  BY <1>1, ClonedFacts DEF Groups, TypeOK, UiTypeOK, listVars
<1>4. UiLive => \A o \in Range(selected') \cup Range(group') : call[o] # None
  BY <1>1, ClonedFacts, CursorLive DEF UiLive, listVars
<1>5. UiLive => UiLive'
  BY <1>1, <1>3, <1>4, KeyLive
<1>6. UiTypeOK'
  BY <1>1, <1>3 DEF TypeOK, UiTypeOK, KeyPressed, listVars
<1>7. QED
  BY <1>1, <1>3, <1>5, <1>6 DEF UiStep

LEMMA ShowExtendedStep ==
  ASSUME TypeOK, HashMatchesList, ShowExtended
  PROVE  UiStep
<1> DEFINE h == GroupExtended(Cloned, current)
<1>1. /\ KeyPressed /\ panels = <<>> /\ current # None /\ call[current] # None
      /\ panels' = <<"flow">> /\ call' = h.mem /\ group' = h.calls
      /\ groupid' = ExtendedId(current)
      /\ UNCHANGED <<storeVars, pending, listVars>>
  BY DEF ShowExtended
<1>2. current \in Objects
  BY <1>1, CurrentFacts
<1>3. /\ h \in Groups /\ Alike(call, h.mem)
      /\ \A p \in Range(h.calls) :
           \/ p \in Range(Cloned.calls)
           \/ /\ ExtendsTo(current) # None
              /\ p = ExtendsTo(current) \/ p \in Range(call[ExtendsTo(current)].xcalls)
  BY <1>1, <1>2, ClonedFacts, GroupExtendedFacts
<1> HIDE DEF h
<1>4. /\ groupid' \in CallIds \cup {None}
      /\ ExtendsTo(current) # None => ExtendsTo(current) \in Objects /\ call[ExtendsTo(current)] # None
  BY <1>1, <1>2, ExtendsToFacts
<1>5. call' \in Memory /\ Alike(call, call') /\ group' \in Seq(Objects) /\ selected' \in Seq(Objects)
  BY <1>1, <1>3 DEF Groups, TypeOK, UiTypeOK, listVars
<1>6. UiLive /\ XcallsLive => \A o \in Range(selected') \cup Range(group') : call[o] # None
  BY <1>1, <1>2, <1>3, <1>4, ClonedFacts DEF UiLive, XcallsLive, listVars
<1>7. UiLive /\ XcallsLive => UiLive'
  BY <1>1, <1>5, <1>6, KeyLive
<1>8. UiTypeOK'
  BY <1>1, <1>4, <1>5 DEF TypeOK, UiTypeOK, KeyPressed, listVars
<1>9. QED
  BY <1>1, <1>5, <1>7, <1>8 DEF UiStep

LEMMA ToggleExtendedStep ==
  ASSUME TypeOK, HashMatchesList, ToggleExtended
  PROVE  UiStep
<1> DEFINE o == group[1]
           g == [mem |-> call, calls |-> group]
           h == GroupExtended(g, o)
<1>1. /\ KeyPressed /\ panels' = panels /\ group # <<>> /\ UNCHANGED <<storeVars, pending, listVars>>
  BY DEF ToggleExtended
<1>2. o \in Range(group) /\ o \in Objects /\ call \in Memory
  BY <1>1, RangeType DEF TypeOK, UiTypeOK, StoreTypeOK
<1>3. g \in Groups /\ g.mem = call /\ g.calls = group
  BY DEF Groups, TypeOK, StoreTypeOK, UiTypeOK
<1> HIDE DEF g
<1>4. SUFFICES ASSUME /\ call' \in Memory /\ Alike(call, call') /\ group' \in Seq(Objects)
                      /\ groupid' \in CallIds \cup {None}
                      /\ UiLive /\ XcallsLive => \A p \in Range(group') : call[p] # None
               PROVE  UiStep
  <2>1. CASE Len(group) = 1 /\ call[o] # None /\ call' = h.mem /\ group' = h.calls
             /\ groupid' = IF ExtendsTo(o) = None THEN groupid ELSE ExtendedId(o)
    <3>1. /\ h \in Groups /\ Alike(call, h.mem)
          /\ \A p \in Range(h.calls) :
               \/ p \in Range(group)
               \/ /\ ExtendsTo(o) # None
                  /\ p = ExtendsTo(o) \/ p \in Range(call[ExtendsTo(o)].xcalls)
      BY <1>2, <1>3, <2>1, GroupExtendedFacts, AlikeReflexive
    <3>2. /\ groupid' \in CallIds \cup {None}
          /\ ExtendsTo(o) # None => ExtendsTo(o) \in Objects /\ call[ExtendsTo(o)] # None
      BY <1>2, <2>1, ExtendsToFacts DEF TypeOK, UiTypeOK
    <3> HIDE DEF h, o
    <3>3. call' \in Memory /\ Alike(call, call') /\ group' \in Seq(Objects)
      BY <2>1, <3>1 DEF Groups
    <3>4. UiLive /\ XcallsLive => \A p \in Range(group') : call[p] # None
      BY <2>1, <3>1, <3>2 DEF UiLive, XcallsLive
    <3>5. QED
      BY <1>4, <3>2, <3>3, <3>4
  <2>2. CASE call' = SetLocked(call, {o}, TRUE) /\ group' = <<o>> /\ groupid' = None
    <3>1. call' \in Memory /\ Alike(call, call')
      BY <1>2, <2>2, SetLockedAlike
    <3>2. group' \in Seq(Objects) /\ Range(group') = {o}
      BY <1>2, <2>2 DEF Range
    <3>3. UiLive => \A p \in Range(group') : call[p] # None
      BY <1>2, <3>2 DEF UiLive
    <3>4. QED
      BY <1>4, <2>2, <3>1, <3>2, <3>3
  <2>3. QED
    BY <2>1, <2>2 DEF ToggleExtended, g
<1>5. selected' \in Seq(Objects) /\ selected' = selected
  BY <1>1 DEF TypeOK, UiTypeOK, listVars
<1>6. UiLive /\ XcallsLive => UiLive'
  <2>1. UiLive /\ XcallsLive => \A p \in Range(selected') \cup Range(group') : call[p] # None
    BY <1>4, <1>5 DEF UiLive
  <2>2. QED
    BY <1>1, <1>4, <1>5, <2>1, KeyLive
<1>7. UiTypeOK'
  BY <1>1, <1>4 DEF TypeOK, UiTypeOK, KeyPressed, listVars
<1>8. QED
  BY <1>1, <1>4, <1>6, <1>7 DEF UiStep

\* The memory after the panels' groups are destroyed.
LEMMA PanelsDestroyedFacts ==
  ASSUME TypeOK
  PROVE  PanelsDestroyed \in Memory /\ Alike(call, PanelsDestroyed)
<1>1. call \in Memory
  BY DEF TypeOK, StoreTypeOK
<1>2. QED
  BY <1>1, SetLockedAlike, AlikeReflexive DEF PanelsDestroyed, GroupDestroy

LEMMA ClosePanelStep ==
  ASSUME TypeOK, ShowFlowRaw \/ ClosePanel
  PROVE  UiStep
<1>1. KeyPressed /\ UNCHANGED <<storeVars, pending, listVars>>
  BY DEF ShowFlowRaw, ClosePanel
<1>2. call \in Memory
  BY DEF TypeOK, StoreTypeOK
<1>3. /\ call' \in Memory /\ Alike(call, call')
      /\ panels' \in {<<>>, <<"flow">>, <<"flow", "raw">>}
      /\ group' = group \/ group' = <<>>
      /\ groupid' \in CallIds \cup {None}
  BY <1>2, PanelsDestroyedFacts, AlikeReflexive
     DEF ShowFlowRaw, ClosePanel, NoPanels, TypeOK, UiTypeOK
<1>4. group' \in Seq(Objects) /\ Range(group') \subseteq Range(group)
  <2>1. <<>> \in Seq(Objects) /\ group \in Seq(Objects) /\ Range(<<>>) = {}
    BY DEF TypeOK, UiTypeOK, Range
  <2>2. QED
    BY <1>3, <2>1
<1>5. selected' = selected /\ selected' \in Seq(Objects)
  BY <1>1 DEF TypeOK, UiTypeOK, listVars
<1>6. UiLive => UiLive'
  <2>1. UiLive => \A o \in Range(selected') \cup Range(group') : call[o] # None
    BY <1>4, <1>5 DEF UiLive
  <2>2. QED
    BY <1>1, <1>3, <1>4, <1>5, <2>1, KeyLive
<1>7. UiTypeOK'
  BY <1>1, <1>3, <1>4 DEF TypeOK, UiTypeOK, KeyPressed, listVars
<1>8. QED
  BY <1>1, <1>3, <1>6, <1>7 DEF UiStep

\* The steps of the interface that clear and sort nothing.
UiNext ==
  \/ DrawList \/ DrawPanel \/ Move \/ Select \/ ClearSelection
  \/ \E panel \in {"flow", "raw"} : Show(panel)
  \/ ShowExtended \/ ToggleExtended \/ ShowFlowRaw \/ ClosePanel

LEMMA UiSteps ==
  ASSUME TypeOK, HashMatchesList, UiNext
  PROVE  UiStep
BY DrawListStep, DrawPanelStep, MoveStep, SelectStep, ShowStep, ShowExtendedStep,
   ToggleExtendedStep, ClosePanelStep DEF UiNext

-------------------------------------------------------------------------------
(* The capture threads *)

\* A message leaves a call a call, with its Call-ID and relatives.
LEMMA WithMessageFacts ==
  ASSUME NEW c \in Memory, NEW o \in Objects, c[o] # None, NEW p \in Packets
  PROVE  /\ WithMessage(c, o, p) \in Memory /\ Alike(c, WithMessage(c, o, p))
         /\ WithMessage(c, o, p)[o] \in CallRecords
<1> DEFINE r == c[o]
           invite == IF r.msgs = 0 THEN p.reqresp = INVITE ELSE r.invite
           added == [r EXCEPT !.msgs = @ + 1, !.invite = invite]
           new == IF invite THEN [added EXCEPT !.state = NextState(r.state, r.invitecseq, p),
                                               !.invitecseq = NextCseq(r.state, r.invitecseq, p)]
                            ELSE added
<1>1. r \in CallRecords
  BY XcallsType
<1>2. p.reqresp \in Nat /\ p.cseq \in Nat
  BY StoreAssumption
<1>3. NextState(r.state, r.invitecseq, p) \in States
  <2>1. r.state \in States
    BY <1>1 DEF CallRecords
  <2>2. SetupOutcome(r.invitecseq, p) \in States
    BY <1>2 DEF SetupOutcome, States
  <2> HIDE DEF r
  <2>3. QED
    BY <2>1, <2>2 DEF NextState, States
<1>4. NextCseq(r.state, r.invitecseq, p) \in {0} \cup {q.cseq : q \in Packets}
  BY <1>1 DEF NextCseq, CallRecords
<1> HIDE DEF r
<1>5. invite \in BOOLEAN
  BY <1>1 DEF CallRecords
<1> HIDE DEF invite
<1>6. added \in CallRecords /\ added.callid = r.callid /\ added.xcalls = r.xcalls
  <2>1. r.msgs + 1 \in Nat
    BY <1>1 DEF CallRecords
  <2> DEFINE k == r.msgs + 1
             one == [r EXCEPT !.msgs = k]
  <2>2. added = [one EXCEPT !.invite = invite]
    OBVIOUS
  <2> HIDE DEF k
  <2>3. one \in CallRecords /\ one.callid = r.callid /\ one.xcalls = r.xcalls
    BY <1>1, <2>1 DEF CallRecords, k
  <2> HIDE DEF one, added
  <2>4. QED
    BY <1>5, <2>2, <2>3 DEF CallRecords
<1> HIDE DEF added
<1>7. new \in CallRecords /\ new.callid = r.callid /\ new.xcalls = r.xcalls
  BY <1>3, <1>4, <1>6 DEF CallRecords
<1>8. WithMessage(c, o, p) = [c EXCEPT ![o] = new]
  BY DEF WithMessage, r, invite, added
<1> HIDE DEF new
<1>9. new # None
  BY <1>7, RecordAssumption
<1>10. WithMessage(c, o, p) \in Memory /\ WithMessage(c, o, p)[o] = new
  BY <1>7, <1>8 DEF Memory
<1>11. \A q \in Objects : q # o => WithMessage(c, o, p)[q] = c[q]
  BY <1>8 DEF Memory
<1>12. Alike(c, WithMessage(c, o, p))
  BY <1>7, <1>9, <1>10, <1>11 DEF Alike, r
<1>13. QED
  BY <1>7, <1>10, <1>12

LEMMA UpdateActiveType ==
  ASSUME NEW act \in Seq(Objects), NEW r \in CallRecords, NEW o \in Objects
  PROVE  UpdateActive(act, r, o) \in Seq(Objects)
<1>1. r.invite \in BOOLEAN
  BY DEF CallRecords
<1>2. Append(act, o) \in Seq(Objects) /\ RemoveFirst(act, o) \in Seq(Objects)
  BY RemoveFirstFacts
<1>3. QED
  BY <1>1, <1>2 DEF UpdateActive

\* The call that makes room, if one does, is in the list.
LEMMA VictimFacts ==
  ASSUME TypeOK
  PROVE  /\ Victim = None \/ Victim \in Range(list)
         /\ Len(list) # Limit => Victim = None
<1> DEFINE unlocked == {i \in DOMAIN list : ~call[list[i]].locked}
<1>1. list \in Seq(Objects)
  BY DEF TypeOK, StoreTypeOK
<1>2. unlocked \subseteq Nat /\ unlocked \subseteq DOMAIN list
  BY <1>1
<1>3. Victim = IF Len(list) # Limit \/ unlocked = {} THEN None ELSE list[Min(unlocked)]
  BY DEF Victim
<1> HIDE DEF unlocked
<1>4. unlocked # {} => Min(unlocked) \in DOMAIN list
  BY <1>2, MinOfNats
<1>5. QED
  BY <1>3, <1>4 DEF Range

\* What a new call does to the store: it takes the index o after the last one,
\* joins the list and perhaps the relatives of another, and may make the
\* victim leave.
LEMMA ParseNewFacts ==
  ASSUME TypeOK, IndexInv, HashMatchesList, NEW t \in Threads, ParseNew(t)
  PROVE  LET o == last_index + 1
         IN  /\ o \in Objects /\ o \notin Range(list)
             /\ pending[t] \in Messages /\ callids[pending[t].callid] = None
             /\ call' \in Memory
             /\ call'[o] \in CallRecords /\ call'[o].callid = pending[t].callid
             /\ call'[o].xcalls = <<>>
             /\ \A p \in Objects \ {o, Victim} :
                  /\ call'[p] = None <=> call[p] = None
                  /\ call[p] # None =>
                       /\ call'[p].callid = call[p].callid
                       /\ call'[p].xcalls \in {call[p].xcalls, Append(call[p].xcalls, o)}
             /\ active' \in Seq(Objects) /\ list' \in Seq(Objects)
             /\ Range(list') = (Range(list) \ {Victim}) \cup {o}
             /\ IsInjective(list')
             /\ callids' = [ForgetCallId(callids, Victim) EXCEPT ![pending[t].callid] = o]
<1> DEFINE m == pending[t]
           o == last_index + 1
           ids == [ForgetCallId(callids, Victim) EXCEPT ![m.callid] = o]
           kept == [Freed(call, {Victim}) EXCEPT ![o] = NewCall(m.callid)]
           joined == AddXcall(kept, ids, m.callid, o)
           parent == IF XCallId[m.callid] = None THEN None ELSE ids[XCallId[m.callid]]
<1>1. /\ m # None /\ callids[m.callid] = None /\ last_index < MaxCalls
      /\ callids' = ids
      /\ call' = WithMessage(joined, o, m.packet)
      /\ active' = UpdateActive(RemoveFirst(active, Victim), call'[o], o)
      /\ list' = ListAppend(call', sort, RemoveFirst(list, Victim), o)
  BY DEF ParseNew
<1>2. m \in Messages /\ m.callid \in CallIds /\ m.packet \in Packets
  BY <1>1 DEF TypeOK, StoreTypeOK, Messages
<1>3. o \in Objects /\ o \notin 1 .. last_index
  BY <1>1, StoreAssumption DEF Objects, TypeOK, StoreTypeOK
<1>4. o \notin Range(list)
  BY <1>3 DEF IndexInv
<1>5. Victim # o
  BY <1>3, <1>4, VictimFacts, StoreAssumption
<1> HIDE DEF o, m
<1>6. NewCall(m.callid) \in CallRecords
  BY <1>2 DEF NewCall, CallRecords, States
<1>7. kept \in Memory /\ kept[o] = NewCall(m.callid)
  BY <1>3, <1>6 DEF Freed, Memory, TypeOK, StoreTypeOK
<1>8. \A p \in Objects \ {o, Victim} : kept[p] = call[p]
  BY <1>3 DEF Freed, Memory, TypeOK, StoreTypeOK
<1> HIDE DEF kept
<1>9. parent = None \/ (parent \in Objects \ {o, Victim} /\ call[parent] # None)
  <2>1. CASE XCallId[m.callid] = None
    BY <2>1
  <2>2. CASE XCallId[m.callid] # None
    <3> DEFINE x == XCallId[m.callid]
    <3>1. x \in CallIds /\ x # m.callid
      BY <1>2, <2>2, StoreAssumption
    <3>2. parent = IF callids[x] = Victim THEN None ELSE callids[x]
      BY <1>2, <2>2, <3>1 DEF ForgetCallId
    <3>3. callids[x] \in Objects \cup {None}
      BY <3>1 DEF TypeOK, StoreTypeOK
    <3>4. callids[x] # None => callids[x] \in Range(list) /\ call[callids[x]] # None
      BY <3>1, <3>3 DEF HashMatchesList
    <3>5. QED
      BY <1>4, <3>2, <3>3, <3>4
  <2>3. QED
    BY <2>1, <2>2
<1>10. joined = IF parent = None THEN kept ELSE [kept EXCEPT ![parent].xcalls = Append(@, o)]
  BY DEF AddXcall
<1> HIDE DEF parent, joined, ids
<1>11. /\ joined \in Memory /\ joined[o] = NewCall(m.callid)
       /\ \A p \in Objects \ {o, Victim} :
            /\ joined[p] = None <=> call[p] = None
            /\ call[p] # None =>
                 /\ joined[p].callid = call[p].callid
                 /\ joined[p].xcalls \in {call[p].xcalls, Append(call[p].xcalls, o)}
  <2>1. CASE parent = None
    BY <1>7, <1>8, <1>10, <2>1
  <2>2. CASE parent # None
    <3>1. parent \in Objects /\ parent # o /\ parent # Victim /\ kept[parent] = call[parent] /\ kept[parent] # None
      BY <1>8, <1>9, <2>2
    <3>2. kept[parent] \in CallRecords /\ kept[parent].xcalls \in Seq(Objects)
      BY <1>7, <3>1, XcallsType
    <3> DEFINE new == [kept[parent] EXCEPT !.xcalls = Append(@, o)]
    <3>3. /\ new \in CallRecords /\ new.callid = kept[parent].callid
          /\ new.xcalls = Append(kept[parent].xcalls, o)
      <4>1. Append(kept[parent].xcalls, o) \in Seq(Objects)
        BY <1>3, <3>2
      <4>2. QED
        BY <3>2, <4>1 DEF CallRecords
    <3>4. joined = [kept EXCEPT ![parent] = new]
      BY <1>10, <2>2
    <3> HIDE DEF new
    <3>5. new # None
      BY <3>3, RecordAssumption
    <3>6. joined \in Memory /\ joined[parent] = new /\ \A p \in Objects : p # parent => joined[p] = kept[p]
      BY <1>7, <3>1, <3>3, <3>4 DEF Memory
    <3>7. QED
      BY <1>3, <1>7, <1>8, <3>1, <3>3, <3>5, <3>6
  <2>3. QED
    BY <2>1, <2>2
<1>12. joined[o] # None /\ joined[o].callid = m.callid /\ joined[o].xcalls = <<>>
  <2>1. NewCall(m.callid).callid = m.callid /\ NewCall(m.callid).xcalls = <<>>
    BY DEF NewCall
  <2>2. QED
    BY <1>6, <1>11, <2>1, RecordAssumption
<1>13. call' \in Memory /\ Alike(joined, call') /\ call'[o] \in CallRecords
  BY <1>1, <1>2, <1>3, <1>11, <1>12, WithMessageFacts
<1>14. call'[o].callid = m.callid /\ call'[o].xcalls = <<>>
  BY <1>3, <1>12, <1>13 DEF Alike
<1>15. \A p \in Objects \ {o, Victim} :
         /\ call'[p] = None <=> call[p] = None
         /\ call[p] # None =>
              /\ call'[p].callid = call[p].callid
              /\ call'[p].xcalls \in {call[p].xcalls, Append(call[p].xcalls, o)}
  BY <1>11, <1>13 DEF Alike
<1>16. active' \in Seq(Objects)
  <2>1. RemoveFirst(active, Victim) \in Seq(Objects)
    BY RemoveFirstFacts DEF TypeOK, StoreTypeOK
  <2>2. QED
    BY <1>1, <1>3, <1>13, <2>1, UpdateActiveType
<1>17. /\ list' \in Seq(Objects) /\ IsInjective(list')
       /\ Range(list') = (Range(list) \ {Victim}) \cup {o}
  <2>1. /\ RemoveFirst(list, Victim) \in Seq(Objects) /\ IsInjective(RemoveFirst(list, Victim))
        /\ Range(RemoveFirst(list, Victim)) = Range(list) \ {Victim}
    BY RemoveFirstFacts DEF TypeOK, StoreTypeOK, HashMatchesList
  <2>2. QED
    BY <1>1, <1>3, <1>4, <2>1, ListAppendFacts
<1>18. QED
  BY <1>1, <1>2, <1>3, <1>4, <1>13, <1>14, <1>15, <1>16, <1>17 DEF m, o, ids

-------------------------------------------------------------------------------
(* The hash table *)

\* A step that keeps the store keeps what the hash table needs.
LEMMA AlikeHash ==
  ASSUME HashInv, call' \in Memory, Alike(call, call'),
         UNCHANGED <<list, callids, last_index>>
  PROVE  IndexInv' /\ HashMatchesList'
<1>1. Range(list) \subseteq Objects
  BY RangeType DEF HashInv, TypeOK, StoreTypeOK
<1>2. IndexInv'
  BY DEF HashInv, IndexInv
<1>3. \A o \in Range(list) : call[o] # None /\ call'[o] # None /\ call'[o].callid = call[o].callid
  BY <1>1 DEF HashInv, HashMatchesList, Alike
<1>4. HashMatchesList'
  BY <1>3 DEF HashInv, HashMatchesList
<1>5. QED
  BY <1>2, <1>4

LEMMA InitHash ==
  ASSUME Init
  PROVE  HashInv
<1>1. <<>> \in Seq(Objects) /\ Range(<<>>) = {} /\ IsInjective(<<>>)
  BY DEF Range, IsInjective
<1>2. StoreTypeOK
  BY <1>1, StoreAssumption DEF Init, StoreTypeOK, Memory
<1>3. UiTypeOK
  BY <1>1 DEF Init, UiTypeOK
<1>4. HashMatchesList
  <2>1. \A c \in CallIds : callids[c] = None
    BY DEF Init
  <2>2. Range(list) = {} /\ IsInjective(list)
    BY <1>1 DEF Init
  <2>3. QED
    BY <2>1, <2>2, StoreAssumption DEF HashMatchesList
<1>5. QED
  BY <1>1, <1>2, <1>3, <1>4 DEF HashInv, TypeOK, IndexInv, Init

LEMMA UiHash ==
  ASSUME HashInv, UNCHANGED options, UiNext
  PROVE  HashInv'
<1>1. UiStep
  BY UiSteps DEF HashInv
<1>2. IndexInv' /\ HashMatchesList'
  BY <1>1, AlikeHash DEF UiStep, storeVars
<1>3. StoreTypeOK'
  BY <1>1 DEF HashInv, TypeOK, StoreTypeOK, UiStep, storeVars
<1>4. QED
  BY <1>1, <1>2, <1>3 DEF HashInv, TypeOK, UiStep

LEMMA ArriveHash ==
  ASSUME HashInv, UNCHANGED options, NEW t \in Threads,
         (\E m \in Messages : Arrive(t, m)) \/ ParseSkipped(t)
  PROVE  HashInv'
<1>1. UNCHANGED <<call, storeVars, panelVars, listVars, drawn>>
  BY DEF Arrive, ParseSkipped
<1>2. pending' \in [Threads -> Messages \cup {None}]
  BY DEF Arrive, ParseSkipped, HashInv, TypeOK, StoreTypeOK
<1>3. TypeOK'
  BY <1>1, <1>2 DEF HashInv, TypeOK, StoreTypeOK, UiTypeOK, storeVars, panelVars, listVars
<1>4. IndexInv' /\ HashMatchesList'
  BY <1>1 DEF HashInv, IndexInv, HashMatchesList, storeVars
<1>5. QED
  BY <1>3, <1>4 DEF HashInv

\* The known call of a message is in the list, and in memory.
LEMMA KnownFacts ==
  ASSUME HashInv, NEW t \in Threads, ParseKnown(t)
  PROVE  LET o == callids[pending[t].callid]
         IN  /\ o \in Range(list) /\ o \in Objects
             /\ call' \in Memory /\ Alike(call, call') /\ call'[o] \in CallRecords
<1> DEFINE o == callids[pending[t].callid]
<1>1. pending[t] \in Messages /\ pending[t].callid \in CallIds /\ pending[t].packet \in Packets
  BY DEF ParseKnown, HashInv, TypeOK, StoreTypeOK, Messages
<1>2. o \in Objects
  BY <1>1 DEF ParseKnown, HashInv, TypeOK, StoreTypeOK
<1>3. o \in Range(list) /\ call[o] # None
  BY <1>1, <1>2 DEF HashInv, HashMatchesList
<1>4. call' = WithMessage(call, o, pending[t].packet) /\ call \in Memory
  BY DEF ParseKnown, HashInv, TypeOK, StoreTypeOK
<1>5. QED
  BY <1>1, <1>2, <1>3, <1>4, WithMessageFacts

LEMMA KnownHash ==
  ASSUME HashInv, UNCHANGED options, NEW t \in Threads, ParseKnown(t)
  PROVE  HashInv'
<1> DEFINE o == callids[pending[t].callid]
<1>1. o \in Objects /\ call' \in Memory /\ Alike(call, call') /\ call'[o] \in CallRecords
  BY KnownFacts
<1>2. active' \in Seq(Objects)
  BY <1>1, UpdateActiveType DEF ParseKnown, HashInv, TypeOK, StoreTypeOK
<1>3. IndexInv' /\ HashMatchesList'
  BY <1>1, AlikeHash DEF ParseKnown
<1>4. TypeOK'
  BY <1>1, <1>2 DEF ParseKnown, HashInv, TypeOK, StoreTypeOK, UiTypeOK, panelVars, listVars
<1>5. QED
  BY <1>3, <1>4 DEF HashInv

LEMMA NewHash ==
  ASSUME HashInv, UNCHANGED options, NEW t \in Threads, ParseNew(t)
  PROVE  HashInv'
<1> DEFINE o == last_index + 1
           i == pending[t].callid
<1>1. /\ o \in Objects /\ o \notin Range(list)
      /\ pending[t] \in Messages /\ callids[i] = None
      /\ call' \in Memory
      /\ call'[o] \in CallRecords /\ call'[o].callid = i
      /\ \A p \in Objects \ {o, Victim} :
           /\ call'[p] = None <=> call[p] = None
           /\ call[p] # None => call'[p].callid = call[p].callid
      /\ active' \in Seq(Objects) /\ list' \in Seq(Objects)
      /\ Range(list') = (Range(list) \ {Victim}) \cup {o}
      /\ IsInjective(list')
      /\ callids' = [ForgetCallId(callids, Victim) EXCEPT ![i] = o]
  BY ParseNewFacts DEF HashInv
<1>2. last_index' = o /\ i \in CallIds
  BY <1>1 DEF ParseNew, Messages
<1>3. Range(list) \subseteq Objects
  BY RangeType DEF HashInv, TypeOK, StoreTypeOK
<1>4. IndexInv'
  <2>1. last_index \in Nat
    BY StoreAssumption DEF HashInv, TypeOK, StoreTypeOK
  <2>2. QED
    BY <1>1, <1>2, <2>1 DEF HashInv, IndexInv
<1>5. callids' \in [CallIds -> Objects \cup {None}]
  BY <1>1 DEF ForgetCallId, HashInv, TypeOK, StoreTypeOK
<1>6. StoreTypeOK' /\ UiTypeOK'
  <2>1. last_index' \in 0 .. MaxCalls
    BY <1>1, <1>2 DEF Objects
  <2>2. pending' \in [Threads -> Messages \cup {None}]
    BY DEF ParseNew, HashInv, TypeOK, StoreTypeOK
  <2>3. QED
    BY <1>1, <1>5, <2>1, <2>2 DEF ParseNew, HashInv, TypeOK, StoreTypeOK, UiTypeOK, panelVars, listVars
<1>7. \A c \in CallIds : callids'[c] = IF c = i THEN o ELSE IF callids[c] = Victim THEN None ELSE callids[c]
  BY <1>1, <1>2 DEF ForgetCallId
<1> HIDE DEF o, i
<1>8. \A p \in Range(list') : p \in Objects /\ call'[p] # None
  BY <1>1, <1>3, RecordAssumption DEF HashInv, HashMatchesList
<1>9. ASSUME NEW c \in CallIds, NEW p \in Objects
      PROVE  callids'[c] = p <=> (p \in Range(list') /\ call'[p].callid = c)
  <2>0. callids[c] = p <=> (p \in Range(list) /\ call[p].callid = c)
    BY DEF HashInv, HashMatchesList
  <2>1. CASE p = o
    BY <1>1, <1>7, <2>0, <2>1, StoreAssumption
  <2>2. CASE p # o /\ p = Victim
    BY <1>1, <1>7, <2>2, StoreAssumption, SMTT(30)
  <2>3. CASE p # o /\ p # Victim
    <3>1. p \in Range(list') <=> p \in Range(list)
      BY <1>1, <2>3
    <3>2. p \in Range(list) => call'[p].callid = call[p].callid
      BY <1>1, <2>3 DEF HashInv, HashMatchesList
    <3>3. CASE c = i
      <4>1. callids'[c] # p
        BY <1>7, <2>3, <3>3
      <4>2. callids[c] # p
        BY <1>1, <3>3, StoreAssumption
      <4>3. QED
        BY <2>0, <3>1, <3>2, <4>1, <4>2
    <3>4. CASE c # i
      <4>1. callids'[c] = p <=> callids[c] = p
        BY <1>7, <2>3, <3>4, StoreAssumption
      <4>2. QED
        BY <2>0, <3>1, <3>2, <4>1
    <3>5. QED
      BY <3>3, <3>4
  <2>4. QED
    BY <2>1, <2>2, <2>3
<1>10. HashMatchesList'
  BY <1>1, <1>8, <1>9 DEF HashMatchesList
<1>11. QED
  BY <1>4, <1>6, <1>10 DEF HashInv, TypeOK

\* What clearing does to the interface.
LEMMA ClearUiType ==
  ASSUME TypeOK, ClearCalls \/ ClearCallsSoft
  PROVE  UiTypeOK' /\ selected' = <<>> /\ group' = <<>> /\ drawn' = FALSE
<1>1. <<>> \in Seq(Objects)
  OBVIOUS
<1>2. /\ panels' = <<>> /\ group' = <<>> /\ groupid' = None /\ selected' = <<>>
      /\ cursor' = 0 /\ drawn' = FALSE /\ dcalls' = dcalls
  BY DEF ClearCalls, ClearCallsSoft, NoPanels, KeyPressed
<1>3. QED
  BY <1>1, <1>2 DEF TypeOK, UiTypeOK

LEMMA ClearHash ==
  ASSUME HashInv, UNCHANGED options, ClearCalls
  PROVE  HashInv'
<1>1. <<>> \in Seq(Objects) /\ Range(<<>>) = {} /\ IsInjective(<<>>)
  BY DEF Range, IsInjective
<1>2. PanelsDestroyed \in Memory
  BY PanelsDestroyedFacts DEF HashInv
<1>3. call' \in Memory
  BY <1>2 DEF ClearCalls, Freed, Memory
<1>4. callids' \in [CallIds -> Objects \cup {None}] /\ \A c \in CallIds : callids'[c] = None
  BY DEF ClearCalls
<1>5. list' = <<>> /\ active' = <<>>
  BY DEF ClearCalls
<1>6. StoreTypeOK'
  BY <1>1, <1>3, <1>4, <1>5 DEF ClearCalls, HashInv, TypeOK, StoreTypeOK
<1>7. IndexInv' /\ HashMatchesList'
  BY <1>1, <1>4, <1>5, StoreAssumption DEF IndexInv, HashMatchesList
<1>8. QED
  BY <1>6, <1>7, ClearUiType DEF HashInv, TypeOK

\* The table rebuilt from a list has each call under its Call-ID: two calls of
\* one Call-ID were never in the list.
LEMMA HashOfFacts ==
  ASSUME HashInv, NEW s \in Seq(Objects), Range(s) \subseteq Range(list)
  PROVE  /\ HashOf(s) \in [CallIds -> Objects \cup {None}]
         /\ \A c \in CallIds, o \in Objects :
              HashOf(s)[c] = o <=> (o \in Range(s) /\ call[o].callid = c)
<1>1. Range(s) \subseteq Objects /\ Range(s) \subseteq 0 .. MaxCalls
  <2>1. Range(s) \subseteq Objects
    BY RangeType
  <2>2. QED
    BY <2>1, StoreAssumption DEF Objects
<1>2. ASSUME NEW c \in CallIds
      PROVE  /\ HashOf(s)[c] \in Objects \cup {None}
             /\ \A o \in Objects : HashOf(s)[c] = o <=> (o \in Range(s) /\ call[o].callid = c)
  <2> DEFINE named == {o \in Range(s) : call[o].callid = c}
  <2>1. HashOf(s)[c] = IF named = {} THEN None ELSE Max(named)
    BY DEF HashOf
  <2>2. \A o \in named : o \in Objects /\ callids[c] = o
    BY <1>1 DEF HashInv, HashMatchesList
  <2>3. named \subseteq 0 .. MaxCalls
    BY <1>1
  <2>4. \A o \in Objects : o \in named <=> (o \in Range(s) /\ call[o].callid = c)
    OBVIOUS
  <2> HIDE DEF named
  <2>5. CASE named = {}
    BY <2>1, <2>4, <2>5, StoreAssumption
  <2>6. CASE named # {}
    <3>1. Max(named) \in named
      BY <2>3, <2>6, MaxOfNats, StoreAssumption
    <3>2. QED
      BY <2>1, <2>2, <2>4, <2>6, <3>1
  <2>7. QED
    BY <2>5, <2>6
<1>3. HashOf(s) \in [CallIds -> Objects \cup {None}]
  <2>1. \E f : HashOf(s) = [c \in CallIds |-> f[c]]
    <3>1. HashOf(s) = [c \in CallIds |-> HashOf(s)[c]]
      BY DEF HashOf
    <3>2. QED
      BY <3>1
  <2>2. QED
    BY <1>2, <2>1
<1>4. QED
  BY <1>2, <1>3

LEMMA SoftHash ==
  ASSUME HashInv, UNCHANGED options, ClearCallsSoft
  PROVE  HashInv'
<1>1. call' \in Memory /\ Alike(call, call')
  BY PanelsDestroyedFacts DEF HashInv, ClearCallsSoft
<1>2. list \in Seq(Objects) /\ active \in Seq(Objects) /\ IsInjective(list)
  BY DEF HashInv, TypeOK, StoreTypeOK, HashMatchesList
<1>3. list' \in Seq(Objects) /\ Range(list') \subseteq Range(list) /\ IsInjective(list')
  BY <1>2, CopyIfFacts DEF ClearCallsSoft, Displayed
<1>4. active' \in Seq(Objects)
  BY <1>2, CopyIfFacts DEF ClearCallsSoft, Displayed
<1>5. /\ callids' \in [CallIds -> Objects \cup {None}]
      /\ \A c \in CallIds, o \in Objects :
           callids'[c] = o <=> (o \in Range(list') /\ call[o].callid = c)
  <2>1. callids' = HashOf(list')
    BY DEF ClearCallsSoft
  <2> DEFINE s == list'
  <2>2. s \in Seq(Objects) /\ Range(s) \subseteq Range(list)
    BY <1>3
  <2>3. callids' = HashOf(s)
    BY <2>1
  <2> HIDE DEF s
  <2>4. /\ HashOf(s) \in [CallIds -> Objects \cup {None}]
        /\ \A c \in CallIds, o \in Objects :
             HashOf(s)[c] = o <=> (o \in Range(s) /\ call[o].callid = c)
    BY <2>2, HashOfFacts
  <2>5. QED
    BY <2>3, <2>4 DEF s
<1>6. \A o \in Range(list') : o \in Objects /\ call[o] # None /\ call'[o] # None /\ call'[o].callid = call[o].callid
  BY <1>1, <1>2, <1>3, RangeType DEF HashInv, HashMatchesList, Alike
<1>7. HashMatchesList'
  BY <1>3, <1>5, <1>6 DEF HashMatchesList
<1>8. IndexInv'
  BY <1>3 DEF HashInv, IndexInv, ClearCallsSoft
<1>9. StoreTypeOK'
  BY <1>1, <1>3, <1>4, <1>5 DEF ClearCallsSoft, HashInv, TypeOK, StoreTypeOK
<1>10. QED
  BY <1>7, <1>8, <1>9, ClearUiType DEF HashInv, TypeOK

LEMMA SortHash ==
  ASSUME HashInv, UNCHANGED options,
         NEW by \in {"index", "msgs"}, NEW asc \in BOOLEAN, SetSort(by, asc)
  PROVE  HashInv' /\ Range(list') = Range(list) /\ Len(list') = Len(list)
<1>1. list \in Seq(Objects) /\ IsInjective(list)
  BY DEF HashInv, TypeOK, StoreTypeOK, HashMatchesList
<1>2. list' = Sorted(call, sort', list)
  BY DEF SetSort
<1>3. /\ list' \in Seq(Objects) /\ IsInjective(list')
      /\ Range(list') = Range(list) /\ Len(list') = Len(list)
  BY <1>1, <1>2, SortedFacts
<1>4. UNCHANGED <<call, callids, last_index>>
  BY DEF SetSort
<1>5. IndexInv' /\ HashMatchesList'
  BY <1>3, <1>4 DEF HashInv, IndexInv, HashMatchesList
<1>6. sort' \in [by : {"index", "msgs"}, asc : BOOLEAN]
  BY DEF SetSort
<1>7. TypeOK'
  BY <1>3, <1>6 DEF SetSort, KeyPressed, HashInv, TypeOK, StoreTypeOK, UiTypeOK, panelVars, listVars
<1>8. QED
  BY <1>3, <1>5, <1>7 DEF HashInv

\* What the hash table needs holds in every state.
THEOREM HashInvariance == Spec => []HashInv
<1>1. Init => HashInv
  BY InitHash
<1>2. HashInv /\ [Next]_vars => HashInv'
  <2> SUFFICES ASSUME HashInv, [Next]_vars PROVE HashInv'
    OBVIOUS
  <2>1. CASE UNCHANGED vars
    BY <2>1 DEF vars, storeVars, panelVars, listVars, HashInv, TypeOK, StoreTypeOK, UiTypeOK,
                IndexInv, HashMatchesList
  <2>2. CASE Next
    BY <2>2, UiHash, ArriveHash, KnownHash, NewHash, ClearHash, SoftHash, SortHash DEF Next, UiNext
  <2>3. QED
    BY <2>1, <2>2
<1>3. QED
  BY <1>1, <1>2, PTL DEF Spec

\* Every variable keeps its type: the store, the groups and the panels hold
\* calls that were created (sip.c, group.c, ui_call_list.c).
THEOREM TypeCorrect == Spec => []TypeOK
<1>1. HashInv => TypeOK
  BY DEF HashInv
<1>2. QED
  BY <1>1, HashInvariance, PTL

\* The hash table and the list agree, however calls are rotated, cleared and
\* sorted (sip_calls_rotate, sip_calls_clear, sip_calls_clear_soft).
THEOREM HashConsistent == Spec => []HashMatchesList
<1>1. HashInv => HashMatchesList
  BY DEF HashInv
<1>2. QED
  BY <1>1, HashInvariance, PTL

-------------------------------------------------------------------------------
(* The calls that the interface works on.  parse_packet checks the limit   *)
(* before it takes the lock: with one capture thread, as with one source,  *)
(* a message that has passed the check finds room, and no call is rotated  *)
(* out unless rotation is on.                                              *)

SingleThread == \A t, u \in Threads : t = u

\* A step that keeps the calls keeps their relatives.
LEMMA AlikeXcalls ==
  ASSUME TypeOK, XcallsLive, call' \in Memory, Alike(call, call')
  PROVE  XcallsLive'
<1> SUFFICES ASSUME NEW o \in Objects, call'[o] # None, NEW p \in Range(call'[o].xcalls)
             PROVE  call'[p] # None
  BY DEF XcallsLive
<1>1. call[o] # None /\ call'[o].xcalls = call[o].xcalls /\ call \in Memory
  BY DEF Alike, TypeOK, StoreTypeOK
<1>2. call[o].xcalls \in Seq(Objects)
  BY <1>1, XcallsType
<1>3. p \in Objects
  BY <1>1, <1>2, RangeType
<1>4. call[p] # None
  BY <1>1 DEF XcallsLive
<1>5. QED
  BY <1>3, <1>4 DEF Alike

LEMMA InitLive ==
  ASSUME Init
  PROVE  LiveInv
<1>1. Range(<<>>) = {}
  BY DEF Range
<1>2. UiLive
  BY <1>1 DEF Init, UiLive
<1>3. \A o \in Objects : call[o] = None
  BY DEF Init
<1>4. \A t \in Threads : pending[t] = None
  BY DEF Init
<1>5. QED
  BY <1>2, <1>3, <1>4 DEF LiveInv, XcallsLive, NoStrays, RoomLeft

LEMMA UiLiveStep ==
  ASSUME HashInv, LiveInv, UNCHANGED options, UiNext
  PROVE  LiveInv'
<1> SUFFICES ASSUME ~options.rotate PROVE LiveInv'
  BY DEF LiveInv
<1>1. UiStep
  BY UiSteps DEF HashInv
<1>2. UiLive' /\ XcallsLive'
  BY <1>1, AlikeXcalls DEF UiStep, LiveInv, HashInv
<1>3. NoStrays' /\ RoomLeft'
  BY <1>1 DEF UiStep, storeVars, Alike, LiveInv, NoStrays, RoomLeft
<1>4. QED
  BY <1>2, <1>3 DEF LiveInv

LEMMA ArriveLive ==
  ASSUME HashInv, LiveInv, UNCHANGED options, SingleThread, NEW t \in Threads,
         (\E m \in Messages : Arrive(t, m)) \/ ParseSkipped(t)
  PROVE  LiveInv'
<1> SUFFICES ASSUME ~options.rotate PROVE LiveInv'
  BY DEF LiveInv
<1>1. UNCHANGED <<call, storeVars, panelVars, listVars, drawn>>
  BY DEF Arrive, ParseSkipped
<1>2. UiLive' /\ XcallsLive' /\ NoStrays'
  <2>1. current' = current
    BY <1>1, CurrentKept
  <2>2. QED
    BY <1>1, <2>1 DEF LiveInv, UiLive, XcallsLive, NoStrays, storeVars, panelVars, listVars
<1>3. CASE \E m \in Messages : Arrive(t, m)
  <2>1. Len(list) < Limit /\ list' = list
    BY <1>3 DEF Arrive, storeVars
  <2>2. QED
    BY <1>2, <2>1 DEF LiveInv, RoomLeft
<1>4. CASE ParseSkipped(t)
  <2>1. pending'[t] = None
    BY <1>4 DEF ParseSkipped, HashInv, TypeOK, StoreTypeOK
  <2>2. QED
    BY <1>2, <2>1 DEF LiveInv, RoomLeft, SingleThread
<1>5. QED
  BY <1>3, <1>4

LEMMA KnownLive ==
  ASSUME HashInv, LiveInv, UNCHANGED options, SingleThread, NEW t \in Threads, ParseKnown(t)
  PROVE  LiveInv'
<1> SUFFICES ASSUME ~options.rotate PROVE LiveInv'
  BY DEF LiveInv
<1>1. call' \in Memory /\ Alike(call, call')
  BY KnownFacts
<1>2. /\ UNCHANGED <<list, managed, panels, group, groupid, selected, dcalls, current, drawn>>
      /\ pending'[t] = None
  BY CurrentKept DEF ParseKnown, panelVars, listVars, HashInv, TypeOK, StoreTypeOK
<1>3. UiLive'
  <2>1. Range(selected) \subseteq Objects /\ Range(group) \subseteq Objects
    BY RangeType DEF HashInv, TypeOK, UiTypeOK
  <2>2. current # None => current \in Objects
    BY CurrentFacts DEF HashInv
  <2>3. QED
    BY <1>1, <1>2, <2>1, <2>2 DEF LiveInv, UiLive, Alike
<1>4. XcallsLive'
  BY <1>1, AlikeXcalls DEF LiveInv, HashInv
<1>5. NoStrays' /\ RoomLeft'
  BY <1>1, <1>2 DEF Alike, LiveInv, NoStrays, RoomLeft, SingleThread
<1>6. QED
  BY <1>3, <1>4, <1>5 DEF LiveInv

LEMMA NewLive ==
  ASSUME HashInv, LiveInv, UNCHANGED options, SingleThread, NEW t \in Threads, ParseNew(t)
  PROVE  LiveInv'
<1> SUFFICES ASSUME ~options.rotate PROVE LiveInv'
  BY DEF LiveInv
<1> DEFINE o == last_index + 1
<1>1. pending[t] # None
  BY DEF ParseNew
<1>2. Victim = None
  <2>1. Len(list) < Limit
    BY <1>1 DEF LiveInv, RoomLeft
  <2>2. Len(list) # Limit
    BY <2>1, StoreAssumption DEF HashInv, TypeOK, StoreTypeOK
  <2>3. QED
    BY <2>2, VictimFacts DEF HashInv
<1>3. /\ o \in Objects
      /\ call' \in Memory /\ call'[o] \in CallRecords /\ call'[o].xcalls = <<>>
      /\ \A p \in Objects \ {o, Victim} :
           /\ call'[p] = None <=> call[p] = None
           /\ call[p] # None => call'[p].xcalls \in {call[p].xcalls, Append(call[p].xcalls, o)}
      /\ Range(list') = (Range(list) \ {Victim}) \cup {o}
  BY ParseNewFacts DEF HashInv
<1> HIDE DEF o
<1>4. call'[o] # None
  BY <1>3, RecordAssumption
<1>5. \A p \in Objects : call[p] # None => call'[p] # None
  BY <1>2, <1>3, <1>4, StoreAssumption
<1>6. UiLive'
  <2>1. UNCHANGED <<panels, group, selected, current, drawn>>
    BY CurrentKept DEF ParseNew, panelVars, listVars
  <2>2. Range(selected) \subseteq Objects /\ Range(group) \subseteq Objects
    BY RangeType DEF HashInv, TypeOK, UiTypeOK
  <2>3. current # None => current \in Objects
    BY CurrentFacts DEF HashInv
  <2>4. QED
    BY <1>5, <2>1, <2>2, <2>3 DEF LiveInv, UiLive
<1>7. XcallsLive'
  <2> SUFFICES ASSUME NEW p \in Objects, call'[p] # None, NEW q \in Range(call'[p].xcalls)
               PROVE  call'[q] # None
    BY DEF XcallsLive
  <2>1. CASE p = o
    <3>1. Range(<<>>) = {}
      BY DEF Range
    <3>2. QED
      BY <1>3, <2>1, <3>1
  <2>2. CASE p # o
    <3>1. call[p] # None /\ call'[p].xcalls \in {call[p].xcalls, Append(call[p].xcalls, o)}
      BY <1>2, <1>3, <2>2, StoreAssumption
    <3>2. call[p].xcalls \in Seq(Objects)
      BY <3>1, XcallsType DEF HashInv, TypeOK, StoreTypeOK
    <3>3. Range(Append(call[p].xcalls, o)) = Range(call[p].xcalls) \cup {o}
      BY <1>3, <3>2, AppendFacts
    <3>4. q \in Range(call[p].xcalls) \cup {o}
      BY <3>1, <3>3
    <3>5. q \in Range(call[p].xcalls) => q \in Objects /\ call[q] # None
      BY <3>1, <3>2, RangeType DEF LiveInv, XcallsLive
    <3>6. QED
      BY <1>4, <1>5, <3>4, <3>5
  <2>3. QED
    BY <2>1, <2>2
<1>8. NoStrays'
  <2>1. managed' = managed
    BY DEF ParseNew
  <2>2. \A p \in Objects : call'[p] # None => p = o \/ call[p] # None
    BY <1>2, <1>3, StoreAssumption
  <2>3. Range(list') = Range(list) \cup {o}
    <3>1. Range(list) \subseteq Objects
      BY RangeType DEF HashInv, TypeOK, StoreTypeOK
    <3>2. QED
      BY <1>2, <1>3, <3>1, StoreAssumption
  <2>4. QED
    BY <2>1, <2>2, <2>3 DEF LiveInv, NoStrays
<1>9. RoomLeft'
  <2>1. pending'[t] = None
    BY DEF ParseNew, HashInv, TypeOK, StoreTypeOK
  <2>2. QED
    BY <2>1 DEF RoomLeft, SingleThread
<1>10. QED
  BY <1>6, <1>7, <1>8, <1>9 DEF LiveInv

LEMMA ClearLive ==
  ASSUME HashInv, LiveInv, UNCHANGED options, ClearCalls
  PROVE  LiveInv'
<1> SUFFICES ASSUME ~options.rotate PROVE LiveInv'
  BY DEF LiveInv
<1>1. Range(<<>>) = {} /\ Len(<<>>) = 0
  BY DEF Range
<1>2. UiLive'
  BY <1>1, ClearUiType DEF UiLive, HashInv
<1>3. PanelsDestroyed \in Memory /\ Alike(call, PanelsDestroyed)
  BY PanelsDestroyedFacts DEF HashInv
<1>4. /\ \A o \in Objects : call'[o] = IF o \in Range(list) /\ managed THEN None ELSE PanelsDestroyed[o]
      /\ managed' = managed /\ list' = <<>>
  BY DEF ClearCalls, Freed
<1>5. managed => \A o \in Objects : call'[o] = None
  BY <1>3, <1>4 DEF LiveInv, NoStrays, Alike
<1>6. XcallsLive'
  <2>1. CASE managed
    BY <1>5, <2>1 DEF XcallsLive
  <2>2. CASE ~managed
    <3>1. call' = PanelsDestroyed
      BY <1>3, <2>2 DEF ClearCalls, Freed, Memory
    <3>2. QED
      BY <1>3, <3>1, AlikeXcalls DEF LiveInv, HashInv
  <2>3. QED
    BY <2>1, <2>2
<1>7. NoStrays' /\ RoomLeft'
  BY <1>1, <1>4, <1>5, StoreAssumption DEF NoStrays, RoomLeft
<1>8. QED
  BY <1>2, <1>6, <1>7 DEF LiveInv

LEMMA SoftLive ==
  ASSUME HashInv, LiveInv, UNCHANGED options, ClearCallsSoft
  PROVE  LiveInv'
<1> SUFFICES ASSUME ~options.rotate PROVE LiveInv'
  BY DEF LiveInv
<1>1. Range(<<>>) = {}
  BY DEF Range
<1>2. UiLive'
  BY <1>1, ClearUiType DEF UiLive, HashInv
<1>3. call' \in Memory /\ Alike(call, call')
  BY PanelsDestroyedFacts DEF HashInv, ClearCallsSoft
<1>4. XcallsLive'
  BY <1>3, AlikeXcalls DEF LiveInv, HashInv
<1>5. NoStrays'
  BY DEF ClearCallsSoft, NoStrays
<1>6. RoomLeft'
  <2>1. list \in Seq(Objects) /\ pending' = pending
    BY DEF HashInv, TypeOK, StoreTypeOK, ClearCallsSoft
  <2>2. list' \in Seq(Objects) /\ Len(list') <= Len(list)
    BY <2>1, CopyIfFacts DEF ClearCallsSoft, Displayed
  <2>3. Len(list) < Limit => Len(list') < Limit
    BY <2>1, <2>2, StoreAssumption
  <2>4. QED
    BY <2>1, <2>3 DEF LiveInv, RoomLeft
<1>7. QED
  BY <1>2, <1>4, <1>5, <1>6 DEF LiveInv

LEMMA SortLive ==
  ASSUME HashInv, LiveInv, UNCHANGED options,
         NEW by \in {"index", "msgs"}, NEW asc \in BOOLEAN, SetSort(by, asc)
  PROVE  LiveInv'
<1> SUFFICES ASSUME ~options.rotate PROVE LiveInv'
  BY DEF LiveInv
<1>1. Range(list') = Range(list) /\ Len(list') = Len(list)
  BY SortHash
<1>2. UNCHANGED <<call, managed, pending, group, selected>> /\ drawn' = FALSE
  BY DEF SetSort, KeyPressed, panelVars, listVars
<1>3. QED
  BY <1>1, <1>2 DEF LiveInv, UiLive, XcallsLive, NoStrays, RoomLeft

\* Without rotation and with one capture thread, no handler of a key works on
\* a freed call: not in a group, under the cursor or among the relatives of a
\* stored call (call_destroy; ui_call_list.c, ui_call_flow.c, group.c).
THEOREM LiveCalls ==
  ASSUME SingleThread
  PROVE  Spec => []UiTouchesLiveCalls
<1>1. Init => LiveInv
  BY InitLive
<1>2. HashInv /\ LiveInv /\ [Next]_vars => LiveInv'
  <2> SUFFICES ASSUME HashInv, LiveInv, [Next]_vars PROVE LiveInv'
    OBVIOUS
  <2>1. CASE UNCHANGED vars
    BY <2>1 DEF vars, storeVars, panelVars, listVars, current, LiveInv, UiLive, XcallsLive, NoStrays, RoomLeft
  <2>2. CASE Next
    BY <2>2, UiLiveStep, ArriveLive, KnownLive, NewLive, ClearLive, SoftLive, SortLive DEF Next, UiNext
  <2>3. QED
    BY <2>1, <2>2
<1>3. HashInv /\ LiveInv => UiTouchesLiveCalls
  <2> SUFFICES ASSUME HashInv, LiveInv, ~options.rotate, NEW o \in Touched
               PROVE  call[o] # None
    BY DEF UiTouchesLiveCalls
  <2>1. Range(list) \subseteq Objects
    BY RangeType DEF HashInv, TypeOK, StoreTypeOK
  <2>2. CASE o \in Range(selected) \cup Range(group)
    BY <2>2 DEF LiveInv, UiLive
  <2>3. CASE drawn /\ panels = <<>> /\ current # None /\ o = current
    BY <2>3 DEF LiveInv, UiLive
  <2>4. CASE \E p \in Range(list) : call[p] # None /\ o \in Range(call[p].xcalls)
    BY <2>1, <2>4 DEF LiveInv, XcallsLive
  <2>5. QED
    BY <2>2, <2>3, <2>4 DEF Touched
<1>4. QED
  BY <1>1, <1>2, <1>3, HashInvariance, PTL DEF Spec

-------------------------------------------------------------------------------
(* One dialog *)

\* Only a dialog that an INVITE began has a state.
InviteFirst == state # "none" => Len(msgs) # 0 /\ msgs[1].reqresp = INVITE

\* Each conjunct says what the next one needs: a call can only begin to talk
\* out of a pending setup, and only end out of a conversation.
DialogInv ==
  /\ DialogTypeOK
  /\ InviteFirst
  /\ SetupPending
  /\ InCallAcknowledged
  /\ CompletedSpan

\* The step of a dialog that began with an INVITE, seen from its state.
LEMMA States_Step ==
  ASSUME NEW m \in DialogPackets, state \in States, UpdateState(m)
  PROVE  /\ state' \in States
         /\ state' = "callsetup" =>
              \/ state \notin {"callsetup", "incall"} /\ m.reqresp = INVITE /\ invitecseq' = m.cseq
              \/ /\ state = "callsetup" /\ invitecseq' = invitecseq /\ m.reqresp # CANCEL
                 /\ m.cseq = invitecseq => ~(m.reqresp = ACK \/ m.reqresp > 400)
         /\ state' = "incall" =>
              /\ invitecseq' = invitecseq
              /\ \/ state = "incall" /\ m.reqresp # BYE /\ cstart_msg' = cstart_msg
                 \/ /\ state = "callsetup" /\ m.reqresp = ACK /\ m.cseq = invitecseq
                    /\ cstart_msg' = Len(msgs')
         /\ state' = "completed" =>
              /\ cstart_msg' = cstart_msg
              /\ \/ state = "completed" /\ cend_msg' = cend_msg
                 \/ state = "incall" /\ m.reqresp = BYE /\ cend_msg' = Len(msgs')
<1> m.reqresp \in Nat /\ m.cseq \in Nat
  BY DialogAssumption
<1>1. CASE state = "callsetup"
  <2>1. state' = SetupOutcome(invitecseq, m)
    BY <1>1 DEF UpdateState, NextState
  <2>2. invitecseq' = invitecseq
    BY <1>1 DEF UpdateState, NextCseq, IsActive
  <2>3. state' \in {"incall", "cancelled", "busy", "rejected", "diverted", "callsetup"}
    BY <2>1 DEF SetupOutcome
  <2>4. state' = "incall" => m.reqresp = ACK /\ m.cseq = invitecseq
    BY <2>1 DEF SetupOutcome, ACK, CANCEL
  <2>5. state' = "callsetup" =>
          /\ m.reqresp # CANCEL
          /\ m.cseq = invitecseq => ~(m.reqresp = ACK \/ m.reqresp > 400)
    BY <2>1 DEF SetupOutcome, ACK, CANCEL
  <2> QED
    BY <1>1, <2>2, <2>3, <2>4, <2>5 DEF UpdateState, States
<1>2. CASE state = "incall"
  BY <1>2 DEF UpdateState, NextState, NextCseq, IsActive, States, BYE, INVITE
<1>3. CASE state \notin {"callsetup", "incall"}
  BY <1>3 DEF UpdateState, NextState, NextCseq, IsActive, States, INVITE
<1> QED
  BY <1>1, <1>2, <1>3

LEMMA DialogTypeStep ==
  ASSUME DialogTypeOK, NEW m \in DialogPackets, AddMessage(m)
  PROVE  /\ DialogTypeOK'
         /\ Len(msgs') = Len(msgs) + 1 /\ Len(msgs) \in Nat
         /\ msgs'[Len(msgs')] = m
         /\ \A i \in 1 .. Len(msgs) : msgs'[i] = msgs[i]
         /\ DOMAIN msgs = 1 .. Len(msgs) /\ DOMAIN msgs' = 1 .. Len(msgs')
<1>1. /\ msgs' \in Seq(DialogPackets)
      /\ Len(msgs') = Len(msgs) + 1 /\ Len(msgs) \in Nat
      /\ msgs'[Len(msgs')] = m
      /\ \A i \in 1 .. Len(msgs) : msgs'[i] = msgs[i]
      /\ DOMAIN msgs = 1 .. Len(msgs) /\ DOMAIN msgs' = 1 .. Len(msgs')
  BY DEF DialogTypeOK, AddMessage
<1>2. Len(msgs') <= MaxDialogMsgs
  BY <1>1, DialogAssumption DEF DialogTypeOK, AddMessage
<1>3. CASE UNCHANGED <<state, invitecseq, cstart_msg, cend_msg>>
  BY <1>1, <1>2, <1>3 DEF DialogTypeOK
<1>4. CASE UpdateState(m)
  <2>1. state' \in States
    BY <1>4, States_Step DEF DialogTypeOK
  <2>2. invitecseq' \in Cseqs
    BY <1>4 DEF DialogTypeOK, UpdateState, NextCseq, Cseqs
  <2>3. {cstart_msg', cend_msg'} \subseteq 0 .. Len(msgs')
    BY <1>4, <1>1 DEF DialogTypeOK, UpdateState
  <2> QED
    BY <1>1, <1>2, <2>1, <2>2, <2>3 DEF DialogTypeOK
<1> QED
  BY <1>1, <1>3, <1>4 DEF AddMessage

\* A message changes the state of a dialog only if an INVITE began it, and a
\* dialog that none began has no state to lose.
LEMMA InviteStep ==
  ASSUME DialogInv, NEW m \in DialogPackets, AddMessage(m)
  PROVE  /\ InviteFirst'
         /\ state' # "none" => UpdateState(m)
<1> USE DialogTypeStep DEF DialogInv
<1>1. CASE IsInvite
  <2>1. UpdateState(m)
    BY <1>1 DEF AddMessage
  <2> QED
    BY <1>1, <2>1 DEF InviteFirst, IsInvite
<1>2. CASE ~IsInvite
  <2>1. UNCHANGED state
    BY <1>2 DEF AddMessage
  <2>2. state = "none"
    BY <1>2 DEF InviteFirst, IsInvite
  <2> QED
    BY <2>1, <2>2 DEF InviteFirst
<1> QED
  BY <1>1, <1>2

LEMMA SetupStep ==
  ASSUME DialogInv, NEW m \in DialogPackets, AddMessage(m)
  PROVE  SetupPending'
<1> USE DialogTypeStep DEF DialogInv
<1> SUFFICES ASSUME state' = "callsetup"
             PROVE  \E i \in OwnInvites' : \A j \in i + 1 .. Len(msgs') :
                      /\ msgs'[j].reqresp # CANCEL
                      /\ msgs'[j].cseq = invitecseq' =>
                           ~(msgs'[j].reqresp = ACK \/ msgs'[j].reqresp > 400)
  BY DEF SetupPending
<1>1. UpdateState(m)
  BY InviteStep
<1>2. CASE state # "callsetup"
  <2>1. m.reqresp = INVITE /\ invitecseq' = m.cseq
    BY <1>1, <1>2, States_Step DEF DialogTypeOK
  <2>2. Len(msgs') \in OwnInvites'
    BY <2>1 DEF OwnInvites
  <2> QED
    BY <2>2
<1>3. CASE state = "callsetup"
  <2>1. /\ invitecseq' = invitecseq /\ m.reqresp # CANCEL
        /\ m.cseq = invitecseq => ~(m.reqresp = ACK \/ m.reqresp > 400)
    BY <1>1, <1>3, States_Step DEF DialogTypeOK
  <2>2. PICK i \in OwnInvites : \A j \in i + 1 .. Len(msgs) :
          /\ msgs[j].reqresp # CANCEL
          /\ msgs[j].cseq = invitecseq => ~(msgs[j].reqresp = ACK \/ msgs[j].reqresp > 400)
    BY <1>3 DEF SetupPending
  <2>3. i \in OwnInvites'
    BY <2>1 DEF OwnInvites
  <2>4. i \in DOMAIN msgs
    BY <2>2 DEF OwnInvites
  <2>5. ASSUME NEW j \in i + 1 .. Len(msgs')
        PROVE  /\ msgs'[j].reqresp # CANCEL
               /\ msgs'[j].cseq = invitecseq' => ~(msgs'[j].reqresp = ACK \/ msgs'[j].reqresp > 400)
    <3>1. (j \in i + 1 .. Len(msgs) /\ msgs'[j] = msgs[j]) \/ msgs'[j] = m
      BY <2>4, <2>5
    <3>2. QED
      BY <2>1, <2>2, <3>1
  <2> QED
    BY <2>3, <2>5
<1> QED
  BY <1>2, <1>3

LEMMA InCallStep ==
  ASSUME DialogInv, NEW m \in DialogPackets, AddMessage(m)
  PROVE  InCallAcknowledged'
<1> USE DialogTypeStep DEF DialogInv
<1> SUFFICES ASSUME state' = "incall" PROVE InCallAcknowledged'
  BY DEF InCallAcknowledged
<1>1. CASE state = "incall" /\ m.reqresp # BYE /\ UNCHANGED <<invitecseq, cstart_msg>>
  <2>1. PICK i \in OwnInvites : i < cstart_msg
    BY <1>1 DEF InCallAcknowledged
  <2>2. i \in OwnInvites' /\ i < cstart_msg'
    BY <1>1, <2>1 DEF OwnInvites
  <2>3. cstart_msg \in 1 .. Len(msgs)
    BY <1>1 DEF InCallAcknowledged, DialogTypeOK
  <2> QED
    BY <1>1, <2>2, <2>3 DEF InCallAcknowledged
<1>2. CASE /\ state = "callsetup" /\ m.reqresp = ACK /\ m.cseq = invitecseq
           /\ invitecseq' = invitecseq /\ cstart_msg' = Len(msgs')
  <2>1. PICK i \in OwnInvites : TRUE
    BY <1>2 DEF SetupPending
  <2>2. i \in OwnInvites' /\ i < cstart_msg'
    BY <1>2, <2>1 DEF OwnInvites
  <2> QED
    BY <1>2, <2>2 DEF InCallAcknowledged, ACK, BYE
<1>3. UpdateState(m)
  BY InviteStep
<1> QED
  BY <1>1, <1>2, <1>3, States_Step DEF DialogTypeOK

LEMMA CompletedStep ==
  ASSUME DialogInv, NEW m \in DialogPackets, AddMessage(m)
  PROVE  CompletedSpan'
<1> USE DialogTypeStep DEF DialogInv
<1> SUFFICES ASSUME state' = "completed" PROVE CompletedSpan'
  BY DEF CompletedSpan
<1>1. CASE state = "completed" /\ UNCHANGED <<cstart_msg, cend_msg>>
  <2>1. cend_msg \in 1 .. Len(msgs) /\ cstart_msg \in 1 .. Len(msgs)
    BY <1>1 DEF CompletedSpan, DialogTypeOK
  <2> QED
    BY <1>1, <2>1 DEF CompletedSpan
<1>2. CASE /\ state = "incall" /\ m.reqresp = BYE
           /\ cstart_msg' = cstart_msg /\ cend_msg' = Len(msgs')
  <2>1. cstart_msg \in 1 .. Len(msgs)
    BY <1>2 DEF InCallAcknowledged, DialogTypeOK
  <2>2. \A j \in cstart_msg' + 1 .. cend_msg' - 1 : msgs'[j].reqresp # BYE
    BY <1>2, <2>1 DEF InCallAcknowledged
  <2> QED
    BY <1>2, <2>1, <2>2 DEF CompletedSpan
<1>3. UpdateState(m)
  BY InviteStep
<1> QED
  BY <1>1, <1>2, <1>3, States_Step DEF DialogTypeOK

\* The four facts hold together in every state, for any messages in any order
\* (call_update_state and call_add_message).
THEOREM DialogInvariance == DialogSpec => []DialogInv
<1>1. DialogInit => DialogInv
  BY DialogAssumption DEF DialogInit, DialogInv, DialogTypeOK, InviteFirst, SetupPending, InCallAcknowledged,
     CompletedSpan, States, Cseqs
<1>2. DialogInv /\ [DialogNext]_dialogVars => DialogInv'
  <2> SUFFICES ASSUME DialogInv, [DialogNext]_dialogVars PROVE DialogInv'
    OBVIOUS
  <2>1. ASSUME NEW m \in DialogPackets, AddMessage(m) PROVE DialogInv'
    <3>1. DialogTypeOK'
      BY <2>1, DialogTypeStep DEF DialogInv
    <3> QED
      BY <2>1, <3>1, InviteStep, SetupStep, InCallStep, CompletedStep DEF DialogInv
  <2>2. CASE UNCHANGED dialogVars
    BY <2>2 DEF dialogVars, DialogInv, DialogTypeOK, InviteFirst, SetupPending, InCallAcknowledged,
       CompletedSpan, OwnInvites
  <2> QED
    BY <2>1, <2>2 DEF DialogNext
<1> QED
  BY <1>1, <1>2, PTL DEF DialogSpec

\* The dialog stays well typed (call_add_message, call_update_state).
THEOREM DialogTypeCorrect == DialogSpec => []DialogTypeOK
BY DialogInvariance, PTL DEF DialogInv

\* A dialog is shown "in call" only after the ACK of the INVITE that began its
\* setup and before any BYE, whatever the capture lost or reordered.
THEOREM InCall == DialogSpec => []InCallAcknowledged
BY DialogInvariance, PTL DEF DialogInv

\* A completed dialog spans its last conversation and nothing else.
THEOREM Completed == DialogSpec => []CompletedSpan
BY DialogInvariance, PTL DEF DialogInv

\* A dialog being set up has an INVITE that nothing seen since has settled.
THEOREM PendingSetup == DialogSpec => []SetupPending
BY DialogInvariance, PTL DEF DialogInv

===============================================================================
