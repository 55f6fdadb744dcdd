---------------------------- MODULE Server_proofs ----------------------------
(***************************************************************************)
(* Theorems about the web server's call registry, for every set of         *)
(* Call-IDs, class4 lines and lifetimes, and about its AMQP publisher, for *)
(* every channel capacity and any number of events and failures.           *)
(***************************************************************************)
EXTENDS ServerState, AmqpPublisher, TLAPS

----------------------------------------------------------------------------
(* The call registry *)

Backlog(T) == [CallIds -> T \cup {None}]

\* Erasing entries keeps a map's domain and type.
LEMMA EraseType ==
  ASSUME NEW S, NEW V, NEW f \in [S -> V \cup {None}], NEW gone
  PROVE  Erase(f, gone) \in [S -> V \cup {None}]
BY DEF Erase

\* Both cleanups keep the types of the four maps and of the RTP iterator.
LEMMA CleanupType ==
  ASSUME TypeOK,
         NEW sc \in [CallIds -> SipCall \cup {None}],
         NEW ci \in [CallIds -> Class4Fields \cup {Blank, None}],
         NEW t \in ReadClockAgain,
         NEW un \in Backlog(0 .. t), NEW cl \in Backlog(0 .. t),
         NEW map,
         \A c \in CallIds : sip_calls[c] # None => sc[c] # None,
         CleanupBacklogs(sc, ci, un, cl, map, t)
  PROVE  /\ sip_calls' \in [CallIds -> SipCall \cup {None}]
         /\ class4_info' \in [CallIds -> Class4Fields \cup {Blank, None}]
         /\ unclassified_backlog' \in [CallIds -> 0 .. t \cup {None}]
         /\ classified_backlog' \in [CallIds -> 0 .. t \cup {None}]
         /\ rtp_it' \in {c \in CallIds : sip_calls'[c] # None} \cup {None, Dangling}
<1>1. PICK done, rank :
        LET stale == Expired(un, UnclassifiedLifetime, t)
            legs == done \cup {e \in CallIds : map[e] \in done}
            gone == legs \cup UnclassifiedToErase(un, map, t)
        IN /\ sip_calls' = Erase(sc, gone)
           /\ class4_info' = Erase(ci, gone)
           /\ unclassified_backlog' = Erase(un, stale \cup legs)
           /\ classified_backlog' = Erase(cl, legs)
           /\ rtp_it' = IF rtp_it \in gone THEN Dangling ELSE rtp_it
  BY DEF CleanupBacklogs
<1>2. /\ sip_calls' \in [CallIds -> SipCall \cup {None}]
      /\ class4_info' \in [CallIds -> Class4Fields \cup {Blank, None}]
      /\ unclassified_backlog' \in [CallIds -> 0 .. t \cup {None}]
      /\ classified_backlog' \in [CallIds -> 0 .. t \cup {None}]
  BY <1>1, EraseType DEF Backlog, Erase
<1>3. rtp_it' \in {c \in CallIds : sip_calls'[c] # None} \cup {None, Dangling}
  BY <1>1 DEF TypeOK, Erase
<1>4. QED
  BY <1>2, <1>3

\* What was published or received by now was so by any later time.
LEMMA LaterPublished ==
  ASSUME TypeOK, NEW t \in Nat, now <= t
  PROVE  /\ last_published \in [Lines -> [received : 0 .. t, sent : 0 .. t] \cup {None}]
         /\ publishing \in [line : Lines, received : 0 .. t] \cup {None}
<1>1. 0 .. now \subseteq 0 .. t
  BY ConstantsAssumption DEF TypeOK, Time
<1>2. /\ [received : 0 .. now, sent : 0 .. now] \subseteq [received : 0 .. t, sent : 0 .. t]
      /\ [line : Lines, received : 0 .. now] \subseteq [line : Lines, received : 0 .. t]
  BY <1>1
<1>3. QED
  BY <1>2 DEF TypeOK

\* Every action keeps the types.
LEMMA TypeStep ==
  ASSUME TypeOK, [Next]_vars
  PROVE  TypeOK'
<1>1. CASE Tick
  <2>1. now \in Nat /\ now' = now + 1 /\ now' \in Time
    BY <1>1, ConstantsAssumption DEF TypeOK, Tick, Time
  <2>2. /\ last_published' \in [Lines -> [received : 0 .. now', sent : 0 .. now'] \cup {None}]
        /\ publishing' \in [line : Lines, received : 0 .. now'] \cup {None}
    BY <1>1, <2>1, LaterPublished DEF TypeOK, Tick
  <2>3. QED
    BY <1>1, <2>1, <2>2 DEF TypeOK, Tick
<1>2. ASSUME NEW c \in CallIds, NEW call \in SipCall, UpdateStateFromSngrep(c, call)
      PROVE  TypeOK'
  <2> DEFINE i  == FindIngressLeg(egress_ingress_map, c)
             sc == [sip_calls EXCEPT ![c] = call]
             un == [unclassified_backlog EXCEPT ![c] = now]
             cl == IF i = None THEN classified_backlog
                               ELSE [classified_backlog EXCEPT ![i] = now]
  <2>1. PICK t \in ReadClockAgain :
          now' = t /\ CleanupBacklogs(sc, class4_info, un, cl, egress_ingress_map, t)
    BY <1>2 DEF UpdateStateFromSngrep
  <2>2. t \in Time /\ now <= t /\ now \in Nat /\ t \in Nat
    BY ConstantsAssumption DEF ReadClockAgain, TypeOK, Time
  <2>3. /\ sc \in [CallIds -> SipCall \cup {None}]
        /\ un \in Backlog(0 .. t)
        /\ cl \in Backlog(0 .. t)
    <3>1. un \in Backlog(0 .. t)
      BY <2>2 DEF TypeOK, Backlog
    <3>2. classified_backlog \in Backlog(0 .. t)
      BY <2>2 DEF TypeOK, Backlog
    <3>3. i # None => [classified_backlog EXCEPT ![i] = now] \in Backlog(0 .. t)
      <4>1. i \in CallIds \cup {None}
        BY DEF TypeOK, FindIngressLeg
      <4>2. QED
        BY <2>2, <3>2, <4>1 DEF Backlog
    <3>4. sc \in [CallIds -> SipCall \cup {None}]
      BY DEF TypeOK
    <3>5. QED
      BY <3>1, <3>2, <3>3, <3>4
  <2>4. /\ class4_info \in [CallIds -> Class4Fields \cup {Blank, None}]
        /\ \A d \in CallIds : sip_calls[d] # None => sc[d] # None
    BY SnapshotAssumption DEF TypeOK, SipCall
  <2> HIDE DEF sc, un, cl
  <2>5. /\ sip_calls' \in [CallIds -> SipCall \cup {None}]
        /\ class4_info' \in [CallIds -> Class4Fields \cup {Blank, None}]
        /\ unclassified_backlog' \in [CallIds -> 0 .. t \cup {None}]
        /\ classified_backlog' \in [CallIds -> 0 .. t \cup {None}]
        /\ rtp_it' \in {d \in CallIds : sip_calls'[d] # None} \cup {None, Dangling}
    BY <2>1, <2>3, <2>4, CleanupType
  <2>6. UNCHANGED <<egress_ingress_map, telnet_backlog, publishing, last_published, alive>>
    BY <1>2 DEF UpdateStateFromSngrep
  <2>7. publishing = None
    BY <1>2 DEF UpdateStateFromSngrep, ServerThreadFree
  <2>8. QED
    BY <2>1, <2>2, <2>5, <2>6, <2>7, LaterPublished DEF TypeOK
<1>3. ASSUME NEW l \in Lines, DuplicateLine(l) PROVE TypeOK'
  <2>1. telnet_backlog' \in [Lines -> 0 .. now \cup {None}]
    BY <1>3, ConstantsAssumption DEF DuplicateLine, TelnetBacklogAfter, Erase, TypeOK, Time
  <2>2. QED
    BY <1>3, <2>1 DEF DuplicateLine, TypeOK
<1>4. ASSUME NEW l \in Lines, NewLine(l) PROVE TypeOK'
  <2> DEFINE map == InsertPair(l)
             ci  == [class4_info EXCEPT ![l.egress] = l.fields, ![l.ingress] = l.fields]
             un  == [unclassified_backlog EXCEPT ![l.egress] = now, ![l.ingress] = now]
             cl  == [classified_backlog EXCEPT ![l.ingress] = now]
  <2>0. l.egress \in CallIds /\ l.ingress \in CallIds /\ l.fields \in Class4Fields
    BY ConstantsAssumption
  <2>1. PICK t \in ReadClockAgain :
          now' = t /\ CleanupBacklogs(sip_calls, ci, un, cl, map, t)
    BY <1>4 DEF NewLine
  <2>2. t \in Time /\ now <= t /\ now \in Nat /\ t \in Nat
    BY ConstantsAssumption DEF ReadClockAgain, TypeOK, Time
  <2>3. /\ un \in Backlog(0 .. t)
        /\ cl \in Backlog(0 .. t)
    BY <2>0, <2>2 DEF TypeOK, Backlog
  <2>4. /\ ci \in [CallIds -> Class4Fields \cup {Blank, None}]
        /\ sip_calls \in [CallIds -> SipCall \cup {None}]
    BY <2>0 DEF TypeOK
  <2> HIDE DEF ci, un, cl, map
  <2>5. /\ sip_calls' \in [CallIds -> SipCall \cup {None}]
        /\ class4_info' \in [CallIds -> Class4Fields \cup {Blank, None}]
        /\ unclassified_backlog' \in [CallIds -> 0 .. t \cup {None}]
        /\ classified_backlog' \in [CallIds -> 0 .. t \cup {None}]
        /\ rtp_it' \in {d \in CallIds : sip_calls'[d] # None} \cup {None, Dangling}
    BY <2>1, <2>3, <2>4, CleanupType
  <2>6. telnet_backlog' \in [Lines -> 0 .. now \cup {None}]
    BY <1>4, <2>2 DEF NewLine, TelnetBacklogAfter, Erase, TypeOK
  <2>7. /\ publishing' \in [line : Lines, received : 0 .. t] \cup {None}
        /\ last_published' = last_published
    BY <1>4, <2>2 DEF NewLine
  <2>8. egress_ingress_map' \in [CallIds -> CallIds \cup {None}] /\ alive' \in BOOLEAN
    BY <1>4, <2>0 DEF NewLine, InsertPair, TypeOK
  <2>9. QED
    BY <2>1, <2>2, <2>5, <2>6, <2>7, <2>8, LaterPublished DEF TypeOK
<1>5. CASE BadLine
  BY <1>5 DEF TypeOK, BadLine
<1>6. ASSUME NEW i \in CallIds, NEW f \in Filters, CheckFilter(i, f) PROVE TypeOK'
  <2>1. class4_info' \in [CallIds -> Class4Fields \cup {Blank, None}]
    BY <1>6 DEF TypeOK, CheckFilter
  <2>2. QED
    BY <1>6, <2>1 DEF TypeOK, CheckFilter
<1>7. ASSUME NEW c \in CallIds, RtpFind(c) PROVE TypeOK'
  BY <1>7 DEF TypeOK, RtpFind
<1>8. ASSUME NEW m \in Media, NEW n \in Counts, RtpWrite(m, n) PROVE TypeOK'
  <2>1. rtp_it \in CallIds /\ sip_calls[rtp_it] \in SipCall
    BY <1>8, ConstantsAssumption DEF TypeOK, RtpWrite
  <2>2. sip_calls' = [sip_calls EXCEPT ![rtp_it] = [@ EXCEPT !.media = m, !.count = n]]
    BY <1>8, <2>1 DEF TypeOK, RtpWrite
  <2>3. [sip_calls[rtp_it] EXCEPT !.media = m, !.count = n] \in SipCall
    BY <2>1 DEF SipCall
  <2>4. sip_calls' \in [CallIds -> SipCall \cup {None}]
    BY <2>1, <2>2, <2>3 DEF TypeOK
  <2>5. QED
    BY <1>8, <2>4 DEF TypeOK, RtpWrite
<1>9. CASE RtpWriteFreed
  BY <1>9 DEF TypeOK, RtpWriteFreed
<1>10. CASE UNCHANGED vars
  BY <1>10 DEF TypeOK, vars
<1>11. CASE PublishLine
  <2>1. publishing.line \in Lines /\ publishing.received \in 0 .. now
    BY <1>11 DEF TypeOK, PublishLine
  <2>2. now \in 0 .. now
    BY ConstantsAssumption DEF TypeOK, Time
  <2>3. QED
    BY <1>11, <2>1, <2>2 DEF TypeOK, PublishLine
<1>12. QED
  BY <1>1, <1>2, <1>3, <1>4, <1>5, <1>6, <1>7, <1>8, <1>9, <1>10, <1>11 DEF Next, Exited

\* Every state the registry can be in is well typed, no timestamp lies in the
\* future, and the capture thread's iterator is valid unless its node was erased.
THEOREM TypeCorrect == Spec => []TypeOK
<1>1. Init => TypeOK
  BY ConstantsAssumption DEF Init, TypeOK, Time
<1>2. TypeOK /\ [Next]_vars => TypeOK'
  BY TypeStep
<1>3. QED
  BY <1>1, <1>2, PTL DEF Spec

----------------------------------------------------------------------------
(* The registry's invariant, stated of any values of the maps so that it can *)
(* be followed through a handler: updates first, then the two cleanups.      *)

Data(sc, ci, map, c) ==
  /\ sc[c] # None \/ ci[c] # None
  /\ ~(sc[c] = None /\ ci[c] = Blank /\ FindIngressLeg(map, c) # None)

\* Every pairing was reported by some line.
PairsReported(map) ==
  \A e \in CallIds : map[e] # None => \E l \in Lines : l.egress = e /\ l.ingress = map[e]

\* The classified backlog holds ingress legs of paired calls only.
ClassifiedPaired(cl, map) ==
  \A i \in CallIds : cl[i] # None => \E e \in CallIds : map[e] = i

Fresh(un, cl, map) ==
  \A c \in CallIds :
    LET i == FindIngressLeg(map, c)
    IN i # None /\ un[c] # None => cl[i] # None /\ un[c] <= cl[i]

Tracked(sc, ci, un, cl, map) ==
  \A c \in CallIds : Data(sc, ci, map, c) =>
    \/ un[c] # None
    \/ FindIngressLeg(map, c) # None /\ cl[FindIngressLeg(map, c)] # None

RegistryInv(sc, ci, un, cl, map) ==
  /\ PairsReported(map)
  /\ ClassifiedPaired(cl, map)
  /\ Fresh(un, cl, map)
  /\ Tracked(sc, ci, un, cl, map)

Maps(map) == map \in [CallIds -> CallIds \cup {None}]

\* What find_ingress_leg returns when the lines are well formed: an ingress
\* leg, which is no egress leg, and which the argument is or belongs to.
LEMMA IngressLegFacts ==
  ASSUME WellFormedLines, NEW map, Maps(map), PairsReported(map),
         NEW c \in CallIds, FindIngressLeg(map, c) # None
  PROVE  LET i == FindIngressLeg(map, c)
         IN /\ i \in CallIds
            /\ map[i] = None
            /\ c = i \/ map[c] = i
            /\ \E e \in CallIds : map[e] = i
<1> DEFINE i == FindIngressLeg(map, c)
<1>1. i \in CallIds /\ (c = i \/ map[c] = i) /\ \E e \in CallIds : map[e] = i
  BY ConstantsAssumption DEF FindIngressLeg, EgressLegs, Maps
<1>2. PICK e \in CallIds : map[e] = i
  BY <1>1
<1>3. \E l \in Lines : l.ingress = i
  BY <1>1, <1>2, ConstantsAssumption DEF PairsReported
<1>4. map[i] = None
  BY <1>1, <1>3 DEF WellFormedLines, PairsReported
<1>5. QED
  BY <1>1, <1>4

\* The leg of a paired call is found to belong to it.
LEMMA PairedLegs ==
  ASSUME WellFormedLines, NEW map, Maps(map), PairsReported(map),
         NEW i \in CallIds, \E e \in CallIds : map[e] = i
  PROVE  /\ FindIngressLeg(map, i) = i
         /\ \A e \in CallIds : map[e] = i => FindIngressLeg(map, e) = i
         /\ map[i] = None
<1>1. FindIngressLeg(map, i) = i
  BY DEF FindIngressLeg, EgressLegs
<1>2. map[i] = None
  BY <1>1, IngressLegFacts, ConstantsAssumption
<1>3. ASSUME NEW e \in CallIds, map[e] = i PROVE FindIngressLeg(map, e) = i
  <2>1. CASE EgressLegs(map, e) = {}
    BY <1>3, <2>1 DEF FindIngressLeg
  <2>2. CASE EgressLegs(map, e) # {}
    <3>1. FindIngressLeg(map, e) = e
      BY <2>2 DEF FindIngressLeg
    <3>2. map[e] = None
      BY <3>1, IngressLegFacts, ConstantsAssumption
    <3>3. QED
      BY <1>3, <3>2, ConstantsAssumption
  <2>3. QED
    BY <2>1, <2>2
<1>4. QED
  BY <1>1, <1>2, <1>3

\* The cleanups keep the invariant, and drop a snapshot only when its leg has
\* outlived one of the lifetimes.
LEMMA CleanupInv ==
  ASSUME WellFormedLines,
         NEW sc \in [CallIds -> SipCall \cup {None}],
         NEW ci \in [CallIds -> Class4Fields \cup {Blank, None}],
         NEW t \in Nat,
         NEW un \in Backlog(0 .. t), NEW cl \in Backlog(0 .. t),
         NEW map, Maps(map),
         RegistryInv(sc, ci, un, cl, map),
         CleanupBacklogs(sc, ci, un, cl, map, t)
  PROVE  /\ RegistryInv(sip_calls', class4_info', unclassified_backlog', classified_backlog', map)
         /\ \A c \in CallIds : sc[c] # None /\ sip_calls'[c] = None =>
              \/ un[c] = None
              \/ t - un[c] > UnclassifiedLifetime
              \/ t - un[c] > ClassifiedLifetime
<1> DEFINE stale == Expired(un, UnclassifiedLifetime, t)
           due == Expired(cl, ClassifiedLifetime, t)
<1>1. PICK done \in SUBSET due, rank \in [due -> 1 .. Cardinality(due)] :
        /\ CleanupOrder(due, cl, map, rank, done)
        /\ LET legs == done \cup {e \in CallIds : map[e] \in done}
               gone == legs \cup UnclassifiedToErase(un, map, t)
           IN /\ sip_calls' = Erase(sc, gone)
              /\ class4_info' = Erase(ci, gone)
              /\ unclassified_backlog' = Erase(un, stale \cup legs)
              /\ classified_backlog' = Erase(cl, legs)
  BY DEF CleanupBacklogs
<1> DEFINE legs == done \cup {e \in CallIds : map[e] \in done}
           gone == legs \cup UnclassifiedToErase(un, map, t)
<1>2. due \subseteq {c \in CallIds : cl[c] # None /\ t - cl[c] > ClassifiedLifetime}
  BY DEF Expired, Backlog
<1>3. \A i \in done : FindIngressLeg(map, i) = i /\ map[i] = None
  BY <1>2, PairedLegs DEF RegistryInv, ClassifiedPaired
<1>4. \A c \in CallIds : c \in legs =>
        FindIngressLeg(map, c) \in done
  BY <1>2, <1>3, PairedLegs DEF RegistryInv
<1>5. \A c \in CallIds : FindIngressLeg(map, c) # None /\ c \notin legs =>
        FindIngressLeg(map, c) \in CallIds /\ FindIngressLeg(map, c) \notin legs
  <2> SUFFICES ASSUME NEW c \in CallIds, FindIngressLeg(map, c) # None, c \notin legs
               PROVE  FindIngressLeg(map, c) \in CallIds /\ FindIngressLeg(map, c) \notin legs
    OBVIOUS
  <2> DEFINE i == FindIngressLeg(map, c)
  <2>1. i \in CallIds /\ map[i] = None /\ (c = i \/ map[c] = i)
    BY IngressLegFacts DEF RegistryInv
  <2>2. i \notin done
    BY <2>1
  <2>3. None \notin done
    BY <1>2, ConstantsAssumption
  <2>4. QED
    BY <2>1, <2>2, <2>3
<1>6. \A c \in CallIds :
        /\ sip_calls'[c] = IF c \in gone THEN None ELSE sc[c]
        /\ class4_info'[c] = IF c \in gone THEN None ELSE ci[c]
        /\ unclassified_backlog'[c] = IF c \in stale \cup legs THEN None ELSE un[c]
        /\ classified_backlog'[c] = IF c \in legs THEN None ELSE cl[c]
  BY <1>1 DEF Erase, Backlog
<1>7. \A c \in CallIds : c \in UnclassifiedToErase(un, map, t) <=>
        (c \in stale /\ FindIngressLeg(map, c) = None)
  BY DEF UnclassifiedToErase
<1>8. \A c \in CallIds : c \in stale <=> (un[c] # None /\ t - un[c] > UnclassifiedLifetime)
  BY DEF Expired, Backlog
<1> HIDE DEF legs, gone, stale, due
<1>9. \A c \in CallIds : c \in gone <=> (c \in legs \/ (c \in stale /\ FindIngressLeg(map, c) = None))
  BY <1>7 DEF gone
<1>10. PairsReported(map)
  BY DEF RegistryInv
<1>11. ClassifiedPaired(classified_backlog', map)
  BY <1>6 DEF RegistryInv, ClassifiedPaired
<1>12. Fresh(unclassified_backlog', classified_backlog', map)
  BY <1>5, <1>6 DEF RegistryInv, Fresh
<1>13. Tracked(sip_calls', class4_info', unclassified_backlog', classified_backlog', map)
  <2> SUFFICES ASSUME NEW c \in CallIds, Data(sip_calls', class4_info', map, c)
               PROVE  \/ unclassified_backlog'[c] # None
                      \/ /\ FindIngressLeg(map, c) # None
                         /\ classified_backlog'[FindIngressLeg(map, c)] # None
    BY DEF Tracked
  <2>1. c \notin gone /\ Data(sc, ci, map, c)
    BY <1>6 DEF Data
  <2>2. CASE FindIngressLeg(map, c) = None
    <3>1. un[c] # None
      BY <2>1, <2>2 DEF RegistryInv, Tracked
    <3>2. QED
      BY <3>1, <2>1, <2>2, <1>6, <1>9
  <2>3. CASE FindIngressLeg(map, c) # None
    <3>1. cl[FindIngressLeg(map, c)] # None
      BY <2>1, <2>3 DEF RegistryInv, Tracked, Fresh
    <3>2. QED
      BY <3>1, <2>1, <2>3, <1>5, <1>6, <1>9
  <2>4. QED
    BY <2>2, <2>3
<1>14. ASSUME NEW c \in CallIds, sc[c] # None, sip_calls'[c] = None, un[c] # None
       PROVE  t - un[c] > UnclassifiedLifetime \/ t - un[c] > ClassifiedLifetime
  <2>1. c \in gone
    BY <1>14, <1>6
  <2>2. CASE c \in stale
    BY <2>2, <1>8
  <2>3. CASE c \in legs
    <3> DEFINE i == FindIngressLeg(map, c)
    <3>1. i \in done /\ i # None /\ i \in CallIds
      BY <2>3, <1>4, <1>2, ConstantsAssumption
    <3>2. cl[i] # None /\ t - cl[i] > ClassifiedLifetime
      BY <3>1, <1>2
    <3>3. un[c] <= cl[i]
      BY <3>1, <1>14 DEF RegistryInv, Fresh
    <3>4. un[c] \in Nat /\ cl[i] \in Nat
      BY <3>1, <3>2, <1>14 DEF Backlog
    <3>5. QED
      BY <3>2, <3>3, <3>4, ConstantsAssumption
  <2>4. QED
    BY <2>1, <2>2, <2>3, <1>9
<1>15. QED
  BY <1>10, <1>11, <1>12, <1>13, <1>14 DEF RegistryInv

----------------------------------------------------------------------------
(* The duplicate filter and the publication of AMQP events *)

\* A published line stays in the filter until its receipt is too old.
PublishedRemembered ==
  \A l \in Lines : last_published[l] # None =>
    /\ telnet_backlog[l] # None => last_published[l].received <= telnet_backlog[l]
    /\ telnet_backlog[l] = None => now - last_published[l].received > TelnetLifetime

\* The line being broadcast is in the filter since its receipt, which came more
\* than the filter's lifetime after the receipt it was last published for.
BroadcastRemembered ==
  publishing # None =>
    LET l == publishing.line
    IN /\ telnet_backlog[l] = publishing.received
       /\ last_published[l] # None =>
            publishing.received - last_published[l].received > TelnetLifetime

\* The inductive invariant.
IInv ==
  /\ TypeOK
  /\ RegistryInv(sip_calls, class4_info, unclassified_backlog, classified_backlog,
                 egress_ingress_map)
  /\ PublishedRemembered
  /\ BroadcastRemembered

\* Two publications as NotPublishedTwice wants them.
FarApart(first, second) ==
  /\ second.received - first.received > TelnetLifetime
  /\ second.sent - first.sent > TelnetLifetime - (first.sent - first.received)

\* One step of the registry, as far as the action properties care.
SafeStep ==
  /\ \A c \in CallIds :
       sip_calls[c] # None /\ sip_calls'[c] = None =>
         \/ unclassified_backlog[c] = None
         \/ now' - unclassified_backlog[c] > UnclassifiedLifetime
         \/ now' - unclassified_backlog[c] > ClassifiedLifetime
  /\ \A l \in Lines :
       last_published'[l] # last_published[l] /\ last_published[l] # None =>
         FarApart(last_published[l], last_published'[l])

\* Inserting a well-formed line's pair: what the lookups return afterwards.
LEMMA InsertPairFacts ==
  ASSUME WellFormedLines, TypeOK, PairsReported(egress_ingress_map), NEW l \in Lines
  PROVE  LET map == InsertPair(l)
         IN /\ Maps(map)
            /\ PairsReported(map)
            /\ map[l.egress] = l.ingress
            /\ \A e \in CallIds : egress_ingress_map[e] # None => map[e] = egress_ingress_map[e]
            /\ FindIngressLeg(map, l.egress) = l.ingress
            /\ FindIngressLeg(map, l.ingress) = l.ingress
            /\ \A c \in CallIds \ {l.egress, l.ingress} :
                 FindIngressLeg(map, c) = FindIngressLeg(egress_ingress_map, c)
<1> DEFINE map == InsertPair(l)
<1>1. l.egress \in CallIds /\ l.ingress \in CallIds
  BY ConstantsAssumption
<1>2. Maps(map) /\ Maps(egress_ingress_map)
  BY <1>1 DEF InsertPair, Maps, TypeOK
<1>3. map[l.egress] = l.ingress
  BY <1>1 DEF InsertPair, TypeOK, PairsReported, WellFormedLines
<1>4. \A e \in CallIds : e # l.egress => map[e] = egress_ingress_map[e]
  BY <1>1 DEF InsertPair, TypeOK
<1>5. \A e \in CallIds : egress_ingress_map[e] # None => map[e] = egress_ingress_map[e]
  BY <1>1 DEF InsertPair, TypeOK
<1>6. PairsReported(map)
  BY <1>1, <1>3, <1>4 DEF PairsReported
<1> HIDE DEF map
<1>7. FindIngressLeg(map, l.egress) = l.ingress /\ FindIngressLeg(map, l.ingress) = l.ingress
  BY <1>1, <1>2, <1>3, <1>6, PairedLegs
<1>8. ASSUME NEW c \in CallIds, c # l.egress, c # l.ingress
      PROVE  FindIngressLeg(map, c) = FindIngressLeg(egress_ingress_map, c)
  <2>1. map[c] = egress_ingress_map[c]
    BY <1>4, <1>8
  <2>2. \A e \in CallIds : map[e] = c <=> egress_ingress_map[e] = c
    BY <1>3, <1>4, <1>5, <1>8, ConstantsAssumption
  <2>3. EgressLegs(map, c) = EgressLegs(egress_ingress_map, c)
    BY <2>2 DEF EgressLegs
  <2>4. QED
    BY <2>1, <2>3 DEF FindIngressLeg
<1>9. QED
  BY <1>2, <1>3, <1>5, <1>6, <1>7, <1>8 DEF map

LEMMA InitInv == Init => IInv
BY ConstantsAssumption
   DEF Init, IInv, TypeOK, Time, RegistryInv, PairsReported, ClassifiedPaired, Fresh, Tracked,
       Data, FindIngressLeg, EgressLegs, PublishedRemembered, BroadcastRemembered

\* A snapshot refreshes its leg and, when the leg is classified, its call.
LEMMA SngrepStep ==
  ASSUME WellFormedLines, IInv, TypeOK', NEW c \in CallIds, NEW call \in SipCall,
         UpdateStateFromSngrep(c, call)
  PROVE  IInv' /\ SafeStep
<1> DEFINE map == egress_ingress_map
           i  == FindIngressLeg(map, c)
           sc == [sip_calls EXCEPT ![c] = call]
           un == [unclassified_backlog EXCEPT ![c] = now]
           cl == IF i = None THEN classified_backlog
                             ELSE [classified_backlog EXCEPT ![i] = now]
<1>1. PICK t \in ReadClockAgain :
        now' = t /\ CleanupBacklogs(sc, class4_info, un, cl, map, t)
  BY DEF UpdateStateFromSngrep
<1>2. now \in Nat /\ t \in Nat /\ now <= t /\ now # None
  BY ConstantsAssumption DEF ReadClockAgain, IInv, TypeOK, Time
<1>3. Maps(map) /\ PairsReported(map) /\ UNCHANGED <<map, telnet_backlog, publishing, last_published>>
  BY DEF IInv, TypeOK, Maps, RegistryInv, UpdateStateFromSngrep
<1>4. /\ sip_calls \in [CallIds -> SipCall \cup {None}]
      /\ class4_info \in [CallIds -> Class4Fields \cup {Blank, None}]
      /\ unclassified_backlog \in Backlog(0 .. now)
      /\ classified_backlog \in Backlog(0 .. now)
  BY DEF IInv, TypeOK, Backlog
<1>5. i # None => i \in CallIds /\ \E e \in CallIds : map[e] = i
  BY <1>3, IngressLegFacts
<1>6. \A d \in CallIds :
        /\ sc[d] = IF d = c THEN call ELSE sip_calls[d]
        /\ un[d] = IF d = c THEN now ELSE unclassified_backlog[d]
        /\ cl[d] = IF d = i THEN now ELSE classified_backlog[d]
  <2>1. CASE i = None
    BY <1>4, <2>1, ConstantsAssumption DEF Backlog
  <2>2. CASE i # None
    BY <1>4, <1>5, <2>2 DEF Backlog
  <2>3. QED
    BY <2>1, <2>2
<1>7. sc \in [CallIds -> SipCall \cup {None}] /\ un \in Backlog(0 .. t)
  BY <1>2, <1>4 DEF Backlog
<1>8. cl \in Backlog(0 .. t)
  <2>1. CASE i = None
    BY <1>2, <1>4, <2>1 DEF Backlog
  <2>2. CASE i # None
    BY <1>2, <1>4, <1>5, <2>2 DEF Backlog
  <2>3. QED
    BY <2>1, <2>2
<1> HIDE DEF i, sc, un, cl, map
<1>9. ClassifiedPaired(cl, map)
  BY <1>5, <1>6, ConstantsAssumption DEF ClassifiedPaired, IInv, RegistryInv, map
<1>10. Fresh(un, cl, map)
  <2> SUFFICES ASSUME NEW d \in CallIds, FindIngressLeg(map, d) # None, un[d] # None
               PROVE  /\ cl[FindIngressLeg(map, d)] # None
                      /\ un[d] <= cl[FindIngressLeg(map, d)]
    BY DEF Fresh
  <2> DEFINE j == FindIngressLeg(map, d)
  <2>1. j \in CallIds
    BY <1>3, IngressLegFacts
  <2>2. CASE j = i
    <3>1. cl[j] = now
      BY <2>1, <2>2, <1>6
    <3>2. un[d] \in 0 .. now
      BY <1>2, <1>4, <1>6 DEF Backlog
    <3>3. QED
      BY <3>1, <3>2, <1>2
  <2>3. CASE j # i
    <3>1. d # c
      BY <2>3 DEF i
    <3>2. un[d] = unclassified_backlog[d] /\ cl[j] = classified_backlog[j]
      BY <2>1, <2>3, <3>1, <1>6
    <3>3. QED
      BY <3>2 DEF IInv, RegistryInv, Fresh, map
  <2>4. QED
    BY <2>2, <2>3
<1>11. Tracked(sc, class4_info, un, cl, map)
  <2> SUFFICES ASSUME NEW d \in CallIds, Data(sc, class4_info, map, d), un[d] = None
               PROVE  FindIngressLeg(map, d) # None /\ cl[FindIngressLeg(map, d)] # None
    BY DEF Tracked
  <2> DEFINE j == FindIngressLeg(map, d)
  <2>1. d # c /\ unclassified_backlog[d] = None /\ Data(sip_calls, class4_info, map, d)
    BY <1>2, <1>6 DEF Data
  <2>2. j # None /\ classified_backlog[j] # None
    BY <2>1 DEF IInv, RegistryInv, Tracked, map
  <2>3. j \in CallIds
    BY <2>2, <1>3, IngressLegFacts
  <2>4. QED
    BY <2>2, <2>3, <1>2, <1>6
<1>12. RegistryInv(sc, class4_info, un, cl, map)
  BY <1>3, <1>9, <1>10, <1>11 DEF RegistryInv
<1>13. /\ RegistryInv(sip_calls', class4_info', unclassified_backlog', classified_backlog', map)
       /\ \A d \in CallIds : sc[d] # None /\ sip_calls'[d] = None =>
            \/ un[d] = None
            \/ t - un[d] > UnclassifiedLifetime
            \/ t - un[d] > ClassifiedLifetime
  BY <1>1, <1>2, <1>3, <1>4, <1>7, <1>8, <1>12, CleanupInv
<1>14. PublishedRemembered' /\ BroadcastRemembered'
  <2>1. \A l \in Lines : last_published[l] # None => last_published[l].received \in Nat
    BY <1>2 DEF IInv, TypeOK
  <2>2. PublishedRemembered'
    BY <1>1, <1>2, <1>3, <2>1, ConstantsAssumption DEF IInv, PublishedRemembered
  <2>3. BroadcastRemembered'
    BY <1>3 DEF IInv, BroadcastRemembered
  <2>4. QED
    BY <2>2, <2>3
<1>15. SafeStep
  <2>1. ASSUME NEW d \in CallIds, sip_calls[d] # None, sip_calls'[d] = None,
               unclassified_backlog[d] # None
        PROVE  \/ now' - unclassified_backlog[d] > UnclassifiedLifetime
               \/ now' - unclassified_backlog[d] > ClassifiedLifetime
    <3>1. sc[d] # None
      BY <2>1, <1>6, SnapshotAssumption DEF SipCall
    <3>2. un[d] # None /\ un[d] \in Nat /\ unclassified_backlog[d] \in Nat
          /\ unclassified_backlog[d] <= un[d]
      BY <2>1, <1>2, <1>4, <1>6 DEF Backlog
    <3>3. t - un[d] > UnclassifiedLifetime \/ t - un[d] > ClassifiedLifetime
      BY <3>1, <3>2, <2>1, <1>13
    <3>4. QED
      BY <3>2, <3>3, <1>1, <1>2, ConstantsAssumption
  <2>2. QED
    BY <2>1, <1>3 DEF SafeStep
<1>16. QED
  BY <1>3, <1>13, <1>14, <1>15 DEF IInv, map

\* A new line refreshes both legs and their call.
LEMMA NewLineStep ==
  ASSUME WellFormedLines, IInv, TypeOK', NEW l \in Lines, NewLine(l)
  PROVE  IInv' /\ SafeStep
<1> DEFINE map == InsertPair(l)
           ci  == [class4_info EXCEPT ![l.egress] = l.fields, ![l.ingress] = l.fields]
           un  == [unclassified_backlog EXCEPT ![l.egress] = now, ![l.ingress] = now]
           cl  == [classified_backlog EXCEPT ![l.ingress] = now]
<1>1. PICK t \in ReadClockAgain :
        now' = t /\ CleanupBacklogs(sip_calls, ci, un, cl, map, t)
  BY DEF NewLine
<1>2. now \in Nat /\ t \in Nat /\ now <= t /\ now # None
  BY ConstantsAssumption DEF ReadClockAgain, IInv, TypeOK, Time
<1>3. /\ l.egress \in CallIds /\ l.ingress \in CallIds /\ l.fields \in Class4Fields
      /\ l.egress # l.ingress
  BY ConstantsAssumption DEF WellFormedLines
<1>4. /\ sip_calls \in [CallIds -> SipCall \cup {None}]
      /\ class4_info \in [CallIds -> Class4Fields \cup {Blank, None}]
      /\ unclassified_backlog \in Backlog(0 .. now)
      /\ classified_backlog \in Backlog(0 .. now)
  BY DEF IInv, TypeOK, Backlog
<1>5. \A d \in CallIds :
        /\ ci[d] = IF d \in {l.egress, l.ingress} THEN l.fields ELSE class4_info[d]
        /\ un[d] = IF d \in {l.egress, l.ingress} THEN now ELSE unclassified_backlog[d]
        /\ cl[d] = IF d = l.ingress THEN now ELSE classified_backlog[d]
  BY <1>3, <1>4 DEF Backlog
<1>6. /\ ci \in [CallIds -> Class4Fields \cup {Blank, None}]
      /\ un \in Backlog(0 .. t)
      /\ cl \in Backlog(0 .. t)
  BY <1>2, <1>3, <1>4 DEF Backlog
<1>7. egress_ingress_map' = map
  BY DEF NewLine
<1>8. /\ Maps(map)
      /\ PairsReported(map)
      /\ map[l.egress] = l.ingress
      /\ \A e \in CallIds : egress_ingress_map[e] # None => map[e] = egress_ingress_map[e]
      /\ FindIngressLeg(map, l.egress) = l.ingress
      /\ FindIngressLeg(map, l.ingress) = l.ingress
      /\ \A c \in CallIds \ {l.egress, l.ingress} :
           FindIngressLeg(map, c) = FindIngressLeg(egress_ingress_map, c)
  BY InsertPairFacts DEF IInv, RegistryInv
<1> HIDE DEF ci, un, cl, map
<1>9. ClassifiedPaired(cl, map)
  <2> SUFFICES ASSUME NEW i \in CallIds, cl[i] # None PROVE \E e \in CallIds : map[e] = i
    BY DEF ClassifiedPaired
  <2>1. CASE i = l.ingress
    BY <2>1, <1>3, <1>8
  <2>2. CASE i # l.ingress
    <3>1. \E e \in CallIds : egress_ingress_map[e] = i
      BY <2>2, <1>5 DEF IInv, RegistryInv, ClassifiedPaired
    <3>2. QED
      BY <3>1, <1>8, ConstantsAssumption
  <2>3. QED
    BY <2>1, <2>2
<1>10. Fresh(un, cl, map)
  <2> SUFFICES ASSUME NEW d \in CallIds, FindIngressLeg(map, d) # None, un[d] # None
               PROVE  /\ cl[FindIngressLeg(map, d)] # None
                      /\ un[d] <= cl[FindIngressLeg(map, d)]
    BY DEF Fresh
  <2> DEFINE j == FindIngressLeg(map, d)
  <2>1. un[d] \in 0 .. now
    BY <1>2, <1>4, <1>5 DEF Backlog
  <2>2. CASE j = l.ingress
    BY <2>1, <2>2, <1>2, <1>3, <1>5
  <2>3. CASE j # l.ingress
    <3>1. d \notin {l.egress, l.ingress} /\ j = FindIngressLeg(egress_ingress_map, d)
      BY <2>3, <1>8
    <3>2. j \in CallIds
      BY <1>8, IngressLegFacts
    <3>3. un[d] = unclassified_backlog[d] /\ cl[j] = classified_backlog[j]
      BY <2>3, <3>1, <3>2, <1>5
    <3>4. QED
      BY <3>1, <3>3 DEF IInv, RegistryInv, Fresh
  <2>4. QED
    BY <2>2, <2>3
<1>11. Tracked(sip_calls, ci, un, cl, map)
  <2> SUFFICES ASSUME NEW d \in CallIds, Data(sip_calls, ci, map, d), un[d] = None
               PROVE  FindIngressLeg(map, d) # None /\ cl[FindIngressLeg(map, d)] # None
    BY DEF Tracked
  <2> DEFINE j == FindIngressLeg(map, d)
  <2>1. /\ d \notin {l.egress, l.ingress}
        /\ unclassified_backlog[d] = None
        /\ Data(sip_calls, class4_info, egress_ingress_map, d)
    <3>1. d \notin {l.egress, l.ingress} /\ unclassified_backlog[d] = None
      BY <1>2, <1>5
    <3>2. ci[d] = class4_info[d]
          /\ FindIngressLeg(map, d) = FindIngressLeg(egress_ingress_map, d)
      BY <3>1, <1>5, <1>8
    <3>3. QED
      BY <3>1, <3>2 DEF Data
  <2>2. j = FindIngressLeg(egress_ingress_map, d)
    BY <2>1, <1>8
  <2>3. j # None /\ classified_backlog[j] # None
    BY <2>1, <2>2 DEF IInv, RegistryInv, Tracked
  <2>4. j \in CallIds
    BY <2>3, <1>8, IngressLegFacts
  <2>5. QED
    BY <2>3, <2>4, <1>2, <1>5
<1>12. RegistryInv(sip_calls, ci, un, cl, map)
  BY <1>8, <1>9, <1>10, <1>11 DEF RegistryInv
<1>13. /\ RegistryInv(sip_calls', class4_info', unclassified_backlog', classified_backlog', map)
       /\ \A d \in CallIds : sip_calls[d] # None /\ sip_calls'[d] = None =>
            \/ un[d] = None
            \/ t - un[d] > UnclassifiedLifetime
            \/ t - un[d] > ClassifiedLifetime
  BY <1>1, <1>2, <1>4, <1>6, <1>8, <1>12, CleanupInv
<1>14. \A k \in Lines :
         /\ telnet_backlog'[k] = IF k = l THEN now
                                 ELSE IF k \in Expired(telnet_backlog, TelnetLifetime, now)
                                 THEN None ELSE telnet_backlog[k]
  BY DEF NewLine, TelnetBacklogAfter, Erase, IInv, TypeOK
<1>15. publishing' = [line |-> l, received |-> now] /\ last_published' = last_published /\ ~IsDuplicate(l)
  BY DEF NewLine
<1>16. \A k \in Lines :
         /\ last_published[k] # None =>
              last_published[k].received \in Nat /\ last_published[k].received <= now
         /\ telnet_backlog[k] # None => telnet_backlog[k] \in Nat
         /\ k \in Expired(telnet_backlog, TelnetLifetime, now) <=>
              (telnet_backlog[k] # None /\ now - telnet_backlog[k] > TelnetLifetime)
  BY <1>2 DEF IInv, TypeOK, Expired
<1>17. PublishedRemembered' /\ BroadcastRemembered'
  <2>1. ASSUME NEW k \in Lines, last_published[k] # None
        PROVE  /\ telnet_backlog'[k] # None => last_published[k].received <= telnet_backlog'[k]
               /\ telnet_backlog'[k] = None => now' - last_published[k].received > TelnetLifetime
               /\ k = l => now - last_published[k].received > TelnetLifetime
    <3>1. /\ telnet_backlog[k] # None => last_published[k].received <= telnet_backlog[k]
          /\ telnet_backlog[k] = None => now - last_published[k].received > TelnetLifetime
      BY <2>1 DEF IInv, PublishedRemembered
    <3>2. k = l => telnet_backlog[k] = None \/ now - telnet_backlog[k] > TelnetLifetime
      BY <1>15, <1>16 DEF IsDuplicate
    <3>3. now - last_published[k].received > TelnetLifetime \/ telnet_backlog[k] # None
      BY <3>1
    <3>4. k \in Expired(telnet_backlog, TelnetLifetime, now) =>
            now - last_published[k].received > TelnetLifetime
      BY <2>1, <3>1, <1>2, <1>16, ConstantsAssumption
    <3>5. k = l => now - last_published[k].received > TelnetLifetime
      BY <2>1, <3>1, <3>2, <1>2, <1>16, ConstantsAssumption
    <3>6. telnet_backlog'[k] # None => last_published[k].received <= telnet_backlog'[k]
      BY <2>1, <3>1, <1>2, <1>14, <1>16
    <3>7. telnet_backlog'[k] = None => now - last_published[k].received > TelnetLifetime
      BY <3>1, <3>4, <1>2, <1>14
    <3>8. QED
      BY <2>1, <3>5, <3>6, <3>7, <1>1, <1>2, <1>16, ConstantsAssumption
  <2>2. PublishedRemembered'
    BY <2>1, <1>15 DEF PublishedRemembered
  <2>3. BroadcastRemembered'
    BY <2>1, <1>14, <1>15 DEF BroadcastRemembered
  <2>4. QED
    BY <2>2, <2>3
<1>18. SafeStep
  <2>1. ASSUME NEW d \in CallIds, sip_calls[d] # None, sip_calls'[d] = None,
               unclassified_backlog[d] # None
        PROVE  \/ now' - unclassified_backlog[d] > UnclassifiedLifetime
               \/ now' - unclassified_backlog[d] > ClassifiedLifetime
    <3>1. un[d] # None /\ un[d] \in Nat /\ unclassified_backlog[d] \in Nat
          /\ unclassified_backlog[d] <= un[d]
      BY <2>1, <1>2, <1>4, <1>5 DEF Backlog
    <3>2. t - un[d] > UnclassifiedLifetime \/ t - un[d] > ClassifiedLifetime
      BY <3>1, <2>1, <1>13
    <3>3. QED
      BY <3>1, <3>2, <1>1, <1>2, ConstantsAssumption
  <2>2. QED
    BY <2>1, <1>15 DEF SafeStep
<1>19. QED
  BY <1>7, <1>13, <1>17, <1>18 DEF IInv

\* A duplicate line only refreshes the filter.
LEMMA DuplicateStep ==
  ASSUME IInv, TypeOK', NEW l \in Lines, DuplicateLine(l)
  PROVE  IInv' /\ SafeStep
<1>1. /\ UNCHANGED <<now, sip_calls, class4_info, egress_ingress_map, unclassified_backlog,
                     classified_backlog, publishing, last_published>>
      /\ publishing = None
      /\ IsDuplicate(l)
  BY DEF DuplicateLine, ServerThreadFree
<1>2. \A k \in Lines :
        telnet_backlog'[k] = IF k = l THEN now
                             ELSE IF k \in Expired(telnet_backlog, TelnetLifetime, now)
                             THEN None ELSE telnet_backlog[k]
  BY DEF DuplicateLine, TelnetBacklogAfter, Erase, IInv, TypeOK
<1>3. /\ now \in Nat
      /\ \A k \in Lines :
           /\ last_published[k] # None =>
                last_published[k].received \in Nat /\ last_published[k].received <= now
           /\ telnet_backlog[k] # None => telnet_backlog[k] \in Nat
           /\ k \in Expired(telnet_backlog, TelnetLifetime, now) <=>
                (telnet_backlog[k] # None /\ now - telnet_backlog[k] > TelnetLifetime)
  BY ConstantsAssumption DEF IInv, TypeOK, Expired, Time
<1>4. BroadcastRemembered'
  BY <1>1 DEF BroadcastRemembered
<1>5. PublishedRemembered'
  <2> SUFFICES ASSUME NEW k \in Lines, last_published[k] # None
               PROVE  /\ telnet_backlog'[k] # None => last_published[k].received <= telnet_backlog'[k]
                      /\ telnet_backlog'[k] = None => now - last_published[k].received > TelnetLifetime
    BY <1>1 DEF PublishedRemembered
  <2>1. CASE k = l
    BY <2>1, <1>2, <1>3, ConstantsAssumption
  <2>2. CASE k # l
    BY <2>2, <1>2, <1>3, ConstantsAssumption DEF IInv, PublishedRemembered
  <2>3. QED
    BY <2>1, <2>2
<1>6. SafeStep
  BY <1>1 DEF SafeStep
<1>7. QED
  BY <1>1, <1>4, <1>5, <1>6 DEF IInv

\* A publication ends the broadcast of its line.
LEMMA PublishStep ==
  ASSUME IInv, TypeOK', PublishLine
  PROVE  IInv' /\ SafeStep
<1> DEFINE l == publishing.line
<1>1. /\ publishing # None
      /\ publishing' = None
      /\ last_published' = [last_published EXCEPT ![l] = [received |-> publishing.received, sent |-> now]]
      /\ UNCHANGED <<now, sip_calls, class4_info, egress_ingress_map, unclassified_backlog,
                     classified_backlog, telnet_backlog>>
  BY DEF PublishLine
<1>2. l \in Lines /\ publishing.received \in Nat
  BY <1>1 DEF IInv, TypeOK
<1>3. \A k \in Lines :
        last_published'[k] = IF k = l THEN [received |-> publishing.received, sent |-> now]
                                 ELSE last_published[k]
  BY <1>1 DEF IInv, TypeOK
<1>4. /\ telnet_backlog[l] = publishing.received
      /\ last_published[l] # None => publishing.received - last_published[l].received > TelnetLifetime
  BY <1>1 DEF IInv, BroadcastRemembered
<1> HIDE DEF l
<1>5. PublishedRemembered'
  <2>1. telnet_backlog[l] # None
    BY <1>2, <1>4, ConstantsAssumption
  <2>2. QED
    BY <2>1, <1>1, <1>2, <1>3, <1>4 DEF IInv, PublishedRemembered
<1>6. BroadcastRemembered'
  BY <1>1 DEF BroadcastRemembered
<1>7. SafeStep
  <2> SUFFICES ASSUME NEW k \in Lines, last_published'[k] # last_published[k],
                      last_published[k] # None
               PROVE  FarApart(last_published[k], last_published'[k])
    BY <1>1 DEF SafeStep
  <2>1. k = l /\ last_published'[k] = [received |-> publishing.received, sent |-> now]
    BY <1>3
  <2>2. publishing.received - last_published[k].received > TelnetLifetime
    BY <2>1, <1>4
  <2>3. publishing.received <= now
    BY <1>1 DEF IInv, TypeOK
  <2>4. /\ last_published[k].received \in Nat /\ last_published[k].sent \in Nat
        /\ publishing.received \in Nat /\ now \in Nat /\ TelnetLifetime \in Nat
    BY <1>2, ConstantsAssumption DEF IInv, TypeOK, Time
  <2>5. QED
    BY <2>1, <2>2, <2>3, <2>4 DEF FarApart
<1>8. QED
  BY <1>1, <1>5, <1>6, <1>7 DEF IInv

\* Every other action leaves the pairings, the backlogs and the publications
\* alone, and stores at most empty entries, for paired legs.
LEMMA QuietStep ==
  ASSUME IInv, TypeOK', now' \in Nat, now <= now',
         UNCHANGED <<egress_ingress_map, unclassified_backlog, classified_backlog,
                     telnet_backlog, publishing, last_published>>,
         \A c \in CallIds : sip_calls[c] = None <=> sip_calls'[c] = None,
         \A c \in CallIds :
           \/ class4_info'[c] = class4_info[c]
           \/ class4_info'[c] = Blank /\ FindIngressLeg(egress_ingress_map, c) # None
  PROVE  IInv' /\ SafeStep
<1>1. RegistryInv(sip_calls', class4_info', unclassified_backlog', classified_backlog',
                  egress_ingress_map')
  <2>1. Tracked(sip_calls', class4_info', unclassified_backlog, classified_backlog,
                egress_ingress_map)
    <3>1. \A c \in CallIds : 
          Data(sip_calls', class4_info', egress_ingress_map, c)
            => Data(sip_calls, class4_info, egress_ingress_map, c)
      BY DEF Data
    <3>2. QED
      BY <3>1 DEF IInv, RegistryInv, Tracked
  <2>2. QED
    BY <2>1 DEF IInv, RegistryInv
<1>2. BroadcastRemembered'
  BY DEF IInv, BroadcastRemembered
<1>3. PublishedRemembered'
  <2>1. now \in Nat /\ \A k \in Lines : last_published[k] # None => last_published[k].received \in Nat
    BY ConstantsAssumption DEF IInv, TypeOK, Time
  <2>2. QED
    BY <2>1, ConstantsAssumption DEF IInv, PublishedRemembered
<1>4. SafeStep
  BY DEF SafeStep
<1>5. QED
  BY <1>1, <1>2, <1>3, <1>4 DEF IInv

LEMMA InvStep ==
  ASSUME WellFormedLines, IInv, [Next]_vars
  PROVE  IInv' /\ SafeStep
<1>1. TypeOK' /\ TypeOK
  BY TypeStep DEF IInv
<1>2. now \in Nat /\ now' \in Nat
  BY <1>1, ConstantsAssumption DEF TypeOK, Time
<1>3. CASE Tick
  BY <1>1, <1>2, <1>3, QuietStep DEF Tick
<1>4. ASSUME NEW c \in CallIds, NEW call \in SipCall, UpdateStateFromSngrep(c, call)
      PROVE  IInv' /\ SafeStep
  BY <1>1, <1>4, SngrepStep
<1>5. ASSUME NEW l \in Lines, DuplicateLine(l) PROVE IInv' /\ SafeStep
  BY <1>1, <1>5, DuplicateStep
<1>6. ASSUME NEW l \in Lines, NewLine(l) PROVE IInv' /\ SafeStep
  BY <1>1, <1>6, NewLineStep
<1>7. CASE BadLine
  BY <1>1, <1>2, <1>7, QuietStep DEF BadLine
<1>8. ASSUME NEW i \in CallIds, NEW f \in Filters, CheckFilter(i, f) PROVE IInv' /\ SafeStep
  <2>1. PICK touched \in LookedUp(i, f) :
          class4_info' = [c \in CallIds |-> IF c \in touched /\ class4_info[c] = None
                                            THEN Blank ELSE class4_info[c]]
    BY <1>8 DEF CheckFilter
  <2>2. touched \subseteq {i} \cup EgressLegs(egress_ingress_map, i)
    BY <2>1 DEF LookedUp
  <2>3. \A c \in {i} \cup EgressLegs(egress_ingress_map, i) :
          FindIngressLeg(egress_ingress_map, c) # None
    BY <1>8, ConstantsAssumption DEF CheckFilter, FindIngressLeg, EgressLegs
  <2>4. \A c \in CallIds :
          \/ class4_info'[c] = class4_info[c]
          \/ class4_info'[c] = Blank /\ FindIngressLeg(egress_ingress_map, c) # None
    BY <2>1, <2>2, <2>3
  <2>5. QED
    BY <1>1, <1>2, <1>8, <2>4, QuietStep DEF CheckFilter
<1>9. ASSUME NEW c \in CallIds, RtpFind(c) PROVE IInv' /\ SafeStep
  BY <1>1, <1>2, <1>9, QuietStep DEF RtpFind
<1>10. ASSUME NEW m \in Media, NEW n \in Counts, RtpWrite(m, n) PROVE IInv' /\ SafeStep
  <2>1. rtp_it \in CallIds /\ sip_calls[rtp_it] # None
    BY <1>1, <1>10, ConstantsAssumption DEF RtpWrite, TypeOK
  <2>2. sip_calls[rtp_it] \in SipCall
    BY <1>1, <2>1 DEF TypeOK
  <2>3. [sip_calls[rtp_it] EXCEPT !.media = m, !.count = n] \in SipCall
    BY <2>2 DEF SipCall
  <2>4. sip_calls' = [sip_calls EXCEPT ![rtp_it] = [@ EXCEPT !.media = m, !.count = n]]
    BY <1>1, <1>10, <2>1 DEF RtpWrite, TypeOK
  <2>5. \A c \in CallIds : sip_calls[c] = None <=> sip_calls'[c] = None
    BY <1>1, <2>1, <2>3, <2>4, SnapshotAssumption DEF TypeOK, SipCall
  <2>6. UNCHANGED <<now, class4_info, egress_ingress_map, unclassified_backlog,
                    classified_backlog, telnet_backlog, publishing, last_published>>
    BY <1>10 DEF RtpWrite
  <2>7. QED
    BY <1>1, <1>2, <2>5, <2>6, QuietStep
<1>11. CASE RtpWriteFreed
  BY <1>1, <1>2, <1>11, QuietStep DEF RtpWriteFreed
<1>12. CASE UNCHANGED vars
  BY <1>1, <1>2, <1>12, QuietStep DEF vars
<1>13. CASE PublishLine
  BY <1>1, <1>13, PublishStep
<1>14. QED
  BY <1>3, <1>4, <1>5, <1>6, <1>7, <1>8, <1>9, <1>10, <1>11, <1>12, <1>13 DEF Next, Exited

\* The inductive invariant holds in every reachable state.
LEMMA Invariance ==
  ASSUME WellFormedLines
  PROVE  Spec => []IInv
<1>1. IInv /\ [Next]_vars => IInv'
  BY InvStep
<1>2. QED
  BY <1>1, InitInv, PTL DEF Spec

\* When the switch's lines are well formed, all the registry stores about a
\* leg is subject to one of the two expiry procedures, but for the empty entries
\* that filters insert for paired legs.
THEOREM OnlyEmptyEntriesLeak ==
  ASSUME WellFormedLines
  PROVE  Spec => []DataTracked
<1>1. IInv => DataTracked
  BY DEF IInv, RegistryInv, Tracked, Data, DataTracked, HasData, EmptyLeftover, SubjectToCleanup
<1>2. QED
  BY <1>1, Invariance, PTL

\* A classified call is never considered older than one of its legs.
THEOREM CallsStayFresh ==
  ASSUME WellFormedLines
  PROVE  Spec => []CallAsFreshAsItsLegs
<1>1. IInv => CallAsFreshAsItsLegs
  BY DEF IInv, RegistryInv, Fresh, CallAsFreshAsItsLegs
<1>2. QED
  BY <1>1, Invariance, PTL

\* No snapshot is dropped before its leg has outlived one of the lifetimes.
THEOREM NoEarlyEviction ==
  ASSUME WellFormedLines
  PROVE  Spec => FreshCallsKept
<1>1. IInv /\ [Next]_vars =>
        [\A c \in CallIds :
           sip_calls[c] # None /\ sip_calls'[c] = None =>
             \/ unclassified_backlog[c] = None
             \/ now' - unclassified_backlog[c] > UnclassifiedLifetime
             \/ now' - unclassified_backlog[c] > ClassifiedLifetime]_vars
  BY InvStep DEF SafeStep
<1>2. QED
  BY <1>1, Invariance, PTL DEF Spec, FreshCallsKept

\* Two receipts of one line that are published are further apart than the
\* lifetime of the duplicate filter, and their publications too, up to what the
\* first one waited for the sessions.
THEOREM PublishedOnce ==
  ASSUME WellFormedLines
  PROVE  Spec => NotPublishedTwice
<1>1. IInv /\ [Next]_vars =>
        [\A l \in Lines :
           last_published'[l] # last_published[l] /\ last_published[l] # None =>
             LET first == last_published[l]
                 second == last_published'[l]
             IN /\ second.received - first.received > TelnetLifetime
                /\ second.sent - first.sent > TelnetLifetime - (first.sent - first.received)]_vars
  BY InvStep DEF SafeStep, FarApart
<1>2. QED
  BY <1>1, Invariance, PTL DEF Spec, NotPublishedTwice

----------------------------------------------------------------------------
(* The AMQP publisher *)

\* do_amqp exists only while the context runs, and has ended before it is left.
ContextInv ==
  /\ thread \notin {"run", "close"} => pub = "none"
  /\ thread = "close" => pub = "done"

\* stop_amqp clears the flag before it cancels, so the empty message appears
\* only once the flag is cleared, and only once.
StopInv ==
  /\ server # "serving" => ~running
  /\ server \in {"serving", "stopping"} => cancelled = 0 /\ hand # Cancelled
  /\ cancelled <= 1
  /\ hand = Cancelled => cancelled = 0

PublisherInv == PublisherTypeOK /\ ContextInv /\ StopInv

----------------------------------------------------------------------------
(* The invariant *)

\* What a step of any thread changes keeps its type.
LEMMA PublisherTypeStep ==
  ASSUME PublisherTypeOK, ContextInv, [PublisherNext]_publisherVars
  PROVE  PublisherTypeOK'
<1>1. CASE PublishToAmqp
  <2>1. sent + 1 \in Messages /\ sent' \in 0 .. MaxMessages
    BY <1>1, AmqpAssumption DEF PublishToAmqp, PublisherTypeOK, Messages
  <2>2. CASE pub = "waiting"
    BY <1>1, <2>1, <2>2, AmqpAssumption DEF PublishToAmqp, PublisherTypeOK
  <2>3. CASE pub # "waiting"
    <3>1. channel' \in Seq(Messages) /\ Len(channel') <= Capacity
      BY <1>1, <2>1, <2>3, AmqpAssumption, SMTT(30) DEF PublishToAmqp, PublisherTypeOK
    <3>2. QED
      BY <1>1, <2>1, <2>3, <3>1 DEF PublishToAmqp, PublisherTypeOK
  <2>4. QED
    BY <2>2, <2>3
<1>2. CASE StopFlag \/ Join \/ ThreadLoop \/ NotConfigured \/ RunReturns \/ WakeUp
  BY <1>2 DEF StopFlag, Join, ThreadLoop, NotConfigured, RunReturns, WakeUp, PublisherTypeOK
<1>3. CASE StopCancel
  BY <1>3, AmqpAssumption DEF StopCancel, PublisherTypeOK
<1>4. CASE Connect \/ Disconnect
  <2>1. hand = NoMessage
    BY <1>4 DEF Connect, Disconnect, PublisherTypeOK, ContextInv
  <2>2. QED
    BY <1>4, <2>1 DEF Connect, Disconnect, PublisherTypeOK
<1>5. CASE ConnectFails
  BY <1>5, AmqpAssumption DEF ConnectFails, PublisherTypeOK
<1>6. CASE PubCheck \/ BeatCheck \/ BeatTimer
  BY <1>6 DEF PubCheck, BeatCheck, BeatTimer, PublisherTypeOK
<1>7. CASE PubReceive
  <2>1. CASE channel = <<>>
    BY <1>7, <2>1 DEF PubReceive, PublisherTypeOK
  <2>2. CASE channel # <<>>
    <3>1. Head(channel) \in Messages /\ Tail(channel) \in Seq(Messages)
          /\ Len(Tail(channel)) <= Capacity
      BY <2>2, AmqpAssumption DEF PublisherTypeOK
    <3>2. QED
      BY <1>7, <2>2, <3>1, AmqpAssumption DEF PubReceive, PublisherTypeOK
  <2>3. QED
    BY <2>1, <2>2
<1>8. CASE PublishOk
  <2>1. hand = Cancelled \/ hand \in Messages
    BY <1>8 DEF PublishOk, PublisherTypeOK
  <2>2. published' \in Seq(Messages) /\ cancelled' \in Nat
    <3>1. CASE hand = Cancelled
      BY <1>8, <3>1 DEF PublishOk, PublisherTypeOK
    <3>2. CASE hand \in Messages
      BY <1>8, <3>2, AmqpAssumption, SMTT(30) DEF PublishOk, PublisherTypeOK
    <3>3. QED
      BY <2>1, <3>1, <3>2
  <2>3. QED
    BY <1>8, <2>2 DEF PublishOk, PublisherTypeOK
<1>9. CASE PublishFails
  <2>1. failures' \in 0 .. MaxFailures
    BY <1>9, AmqpAssumption DEF PublishFails, PublisherTypeOK
  <2>2. beat' \in {"none", "check", "waiting", "done"}
    BY <1>9 DEF PublishFails, PublisherTypeOK
  <2>3. QED
    BY <1>9, <2>1, <2>2 DEF PublishFails, PublisherTypeOK
<1>10. CASE UNCHANGED publisherVars
  BY <1>10 DEF publisherVars, PublisherTypeOK
<1>11. QED
  BY <1>1, <1>2, <1>3, <1>4, <1>5, <1>6, <1>7, <1>8, <1>9, <1>10
  DEF PublisherNext, AmqpThread, Terminated

\* The thread leaves the context only when do_amqp has returned.
LEMMA ContextStep ==
  ASSUME PublisherTypeOK, ContextInv, [PublisherNext]_publisherVars
  PROVE  ContextInv'
<1>1. CASE PublishToAmqp \/ StopFlag \/ StopCancel \/ Join
  BY <1>1 DEF PublishToAmqp, StopFlag, StopCancel, Join, ContextInv
<1>2. CASE ThreadLoop \/ NotConfigured \/ ConnectFails \/ Connect \/ RunReturns
           \/ Disconnect \/ WakeUp
  BY <1>2 DEF ThreadLoop, NotConfigured, ConnectFails, Connect, RunReturns, Disconnect,
              WakeUp, ContextInv
<1>3. CASE PubCheck \/ PubReceive \/ PublishOk \/ PublishFails \/ BeatCheck \/ BeatTimer
  BY <1>3 DEF PubCheck, PubReceive, PublishOk, PublishFails, BeatCheck, BeatTimer, ContextInv
<1>4. CASE UNCHANGED publisherVars
  BY <1>4 DEF publisherVars, ContextInv
<1>5. QED
  BY <1>1, <1>2, <1>3, <1>4 DEF PublisherNext, AmqpThread, Terminated

\* The order of stop_amqp's two steps keeps the empty message after the stop.
LEMMA StopStep ==
  ASSUME PublisherTypeOK, StopInv, [PublisherNext]_publisherVars
  PROVE  StopInv'
<1>1. CASE PublishToAmqp
  <2>1. sent + 1 \in Messages
    BY <1>1, AmqpAssumption DEF PublishToAmqp, PublisherTypeOK, Messages
  <2>2. QED
    BY <1>1, <2>1, AmqpAssumption DEF PublishToAmqp, StopInv
<1>2. CASE StopFlag \/ StopCancel \/ Join
  BY <1>2 DEF StopFlag, StopCancel, Join, StopInv
<1>3. CASE ThreadLoop \/ NotConfigured \/ ConnectFails \/ Connect \/ RunReturns
           \/ Disconnect \/ WakeUp
  BY <1>3 DEF ThreadLoop, NotConfigured, ConnectFails, Connect, RunReturns, Disconnect,
              WakeUp, StopInv
<1>4. CASE PubCheck \/ BeatCheck \/ BeatTimer
  BY <1>4 DEF PubCheck, BeatCheck, BeatTimer, StopInv
<1>5. CASE PubReceive
  <2>1. CASE channel = <<>>
    BY <1>5, <2>1 DEF PubReceive, StopInv
  <2>2. CASE channel # <<>>
    <3>1. Head(channel) \in Messages
      BY <2>2 DEF PublisherTypeOK
    <3>2. QED
      BY <1>5, <2>2, <3>1, AmqpAssumption DEF PubReceive, StopInv
  <2>3. QED
    BY <2>1, <2>2
<1>6. CASE PublishOk \/ PublishFails
  BY <1>6, AmqpAssumption DEF PublishOk, PublishFails, StopInv
<1>7. CASE UNCHANGED publisherVars
  BY <1>7 DEF publisherVars, StopInv
<1>8. QED
  BY <1>1, <1>2, <1>3, <1>4, <1>5, <1>6, <1>7 DEF PublisherNext, AmqpThread, Terminated

\* The publisher starts in the invariant and every step keeps it.
THEOREM Invariant == PublisherSpec => []PublisherInv
<1>1. PublisherInit => PublisherInv
  <2> SUFFICES ASSUME PublisherInit
               PROVE  PublisherInv
    OBVIOUS
  <2>1. channel \in Seq(Messages) /\ Len(channel) <= Capacity /\ published \in Seq(Messages)
    BY AmqpAssumption DEF PublisherInit
  <2>2. sent \in 0 .. MaxMessages /\ failures \in 0 .. MaxFailures /\ cancelled \in Nat
    BY AmqpAssumption DEF PublisherInit
  <2>3. PublisherTypeOK
    BY <2>1, <2>2 DEF PublisherInit, PublisherTypeOK
  <2>4. ContextInv /\ StopInv
    BY AmqpAssumption DEF PublisherInit, ContextInv, StopInv
  <2>5. QED
    BY <2>3, <2>4 DEF PublisherInv
<1>2. PublisherInv /\ [PublisherNext]_publisherVars => PublisherInv'
  <2> SUFFICES ASSUME PublisherTypeOK, ContextInv, StopInv, [PublisherNext]_publisherVars
               PROVE  PublisherInv'
    BY DEF PublisherInv
  <2>1. PublisherTypeOK' /\ ContextInv' /\ StopInv'
    BY PublisherTypeStep, ContextStep, StopStep
  <2>2. QED
    BY <2>1 DEF PublisherInv
<1>3. QED
  BY <1>1, <1>2, PTL DEF PublisherSpec

\* Every reachable state of the publisher is well typed; in particular the
\* channel stays within its capacity and a receive waits only when it is empty.
THEOREM PublisherTypeCorrect == PublisherSpec => []PublisherTypeOK
<1>1. PublisherInv => PublisherTypeOK
  BY DEF PublisherInv
<1>2. QED
  BY <1>1, Invariant, PTL

\* stop_amqp sends at most one empty message to the broker, and none reaches
\* it before the stop.
THEOREM EmptyOnlyWhenStopped == PublisherSpec => []CancelledOnlyWhenStopped
<1>1. PublisherInv => CancelledOnlyWhenStopped
  BY DEF PublisherInv, PublisherTypeOK, StopInv, CancelledOnlyWhenStopped
<1>2. QED
  BY <1>1, Invariant, PTL

----------------------------------------------------------------------------
(* The publisher implements the lossy queue *)

\* The accepted events that do_amqp has not disposed of yet.
Pending == IF hand \in Messages THEN <<hand>> \o channel ELSE channel

\* publish_to_amqp accepts the event at the end of the queue, or drops it.
LEMMA AcceptStep ==
  ASSUME PublisherInv, PublishToAmqp
  PROVE  [Fifo!Next]_<<Pending, published>>
<1>1. sent + 1 \in Messages
  BY AmqpAssumption DEF PublishToAmqp, PublisherInv, PublisherTypeOK, Messages
<1>2. CASE pub = "waiting"
  <2>1. channel = <<>> /\ hand = NoMessage
    BY <1>2 DEF PublisherInv, PublisherTypeOK
  <2>2. Pending = <<>> /\ Pending' = <<sent + 1>>
    BY <1>1, <1>2, <2>1, AmqpAssumption DEF PublishToAmqp, Pending
  <2>3. Fifo!Accept(sent + 1)
    BY <1>2, <2>2, AmqpAssumption DEF PublishToAmqp, Fifo!Accept, Pending
  <2>4. QED
    BY <1>1, <2>3 DEF Fifo!Next
<1>3. CASE pub # "waiting" /\ Len(channel) < Capacity
  <2>1. channel' = Append(channel, sent + 1) /\ hand' = hand /\ published' = published
    BY <1>3 DEF PublishToAmqp
  <2>2. Pending' = Append(Pending, sent + 1) /\ Len(Pending) < Capacity + 1
    BY <1>1, <1>3, <2>1, AmqpAssumption DEF PublisherInv, PublisherTypeOK, Pending
  <2>3. Fifo!Accept(sent + 1)
    BY <2>1, <2>2 DEF Fifo!Accept, Pending
  <2>4. QED
    BY <1>1, <2>3 DEF Fifo!Next
<1>4. CASE pub # "waiting" /\ ~(Len(channel) < Capacity)
  BY <1>4 DEF PublishToAmqp, Pending
<1>5. QED
  BY <1>2, <1>3, <1>4

\* do_amqp delivers the head of the queue or loses it.
LEMMA DisposeStep ==
  ASSUME PublisherInv, PublishOk \/ PublishFails
  PROVE  [Fifo!Next]_<<Pending, published>>
<1>1. hand' = NoMessage /\ channel' = channel /\ channel \in Seq(Messages) /\ Pending' = channel
  BY AmqpAssumption DEF PublishOk, PublishFails, PublisherInv, PublisherTypeOK, Pending
<1>2. CASE hand = Cancelled
  BY <1>1, <1>2, AmqpAssumption DEF PublishOk, PublishFails, Pending
<1>3. CASE hand \in Messages
  <2>1. Pending = <<hand>> \o channel
    BY <1>3 DEF Pending
  <2>2. Pending # <<>> /\ Head(Pending) = hand /\ Tail(Pending) = channel
    BY <1>1, <1>3, <2>1
  <2>3. CASE PublishOk
    <3>1. published' = Append(published, hand)
      BY <1>3, <2>3, AmqpAssumption DEF PublishOk
    <3>2. Fifo!Deliver
      BY <1>1, <2>2, <3>1 DEF Fifo!Deliver, Pending
    <3>3. QED
      BY <3>2 DEF Fifo!Next
  <2>4. CASE PublishFails
    <3>1. Fifo!Lose
      BY <1>1, <2>2, <2>4 DEF Fifo!Lose, Pending, PublishFails
    <3>2. QED
      BY <3>1 DEF Fifo!Next
  <2>5. QED
    BY <2>3, <2>4
<1>4. hand # NoMessage
  BY DEF PublishOk, PublishFails, PublisherInv, PublisherTypeOK
<1>5. QED
  BY <1>2, <1>3, <1>4 DEF PublisherInv, PublisherTypeOK

\* Every other step leaves the queue as it is: receiving moves the head from
\* the channel into do_amqp's hands, a cancelled receive brings nothing.
LEMMA OtherStep ==
  ASSUME PublisherInv, [PublisherNext]_publisherVars, ~PublishToAmqp, ~PublishOk, ~PublishFails
  PROVE  UNCHANGED <<Pending, published>>
<1>1. CASE StopCancel
  BY <1>1, AmqpAssumption DEF StopCancel, Pending, PublisherInv, PublisherTypeOK
<1>2. CASE PubReceive
  <2>1. CASE channel = <<>>
    BY <1>2, <2>1 DEF PubReceive, Pending
  <2>2. CASE channel # <<>>
    <3>1. Head(channel) \in Messages /\ channel = <<Head(channel)>> \o Tail(channel)
      BY <2>2 DEF PublisherInv, PublisherTypeOK
    <3>2. hand \notin Messages
      BY <1>2, AmqpAssumption DEF PubReceive, PublisherInv, PublisherTypeOK
    <3>3. QED
      BY <1>2, <2>2, <3>1, <3>2 DEF PubReceive, Pending
  <2>3. QED
    BY <2>1, <2>2
<1>3. CASE ~StopCancel /\ ~PubReceive
  <2>1. UNCHANGED <<hand, channel, published>>
    BY <1>3 DEF PublisherNext, AmqpThread, Terminated, publisherVars, StopFlag, Join, ThreadLoop,
       NotConfigured, ConnectFails, Connect, RunReturns, Disconnect, WakeUp, PubCheck,
       BeatCheck, BeatTimer
  <2>2. QED
    BY <2>1 DEF Pending
<1>4. QED
  BY <1>1, <1>2, <1>3

\* The publisher implements the lossy queue: events reach the broker in the
\* order they were accepted, each at most once, and only the one do_amqp is
\* about to publish can be lost, whatever fails and however often it reconnects.
THEOREM Refinement == PublisherSpec => ImplementsLossyFifo
<1>1. PublisherInit => Fifo!Init
  BY AmqpAssumption DEF PublisherInit, Fifo!Init
<1>2. PublisherInv /\ [PublisherNext]_publisherVars => [Fifo!Next]_<<Pending, published>>
  BY AcceptStep, DisposeStep, OtherStep
<1>3. QED
  BY <1>1, <1>2, Invariant, PTL DEF PublisherSpec, ImplementsLossyFifo, Fifo!Spec, Pending
=============================================================================
