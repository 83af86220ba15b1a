-------------------------- MODULE RoutedPoolProofs --------------------------
(* For any number of replicas, readers and checkers: reads follow the      *)
(* flags, however these change while a read is being routed, and are       *)
(* spread over the healthy replicas as the balancing says.                 *)
EXTENDS RoutedPool, FiniteSetTheorems, TLAPS

(* The inductive invariant.  RoutedByFlags speaks of the replica chosen    *)
(* and of the list when it is complete; the list grows flag by flag, so    *)
(* the invariant says what it holds half-way, and how the two histories    *)
(* bound the flags while a routing is under way.  x is the record of a     *)
(* reader, S and E its steady and ever.                                    *)

Steps == {"idle", "scan", "count", "start", "first", "run"}

Reads == [step : Steps, next : 1 .. usage.replicas + 1, seen : Seq(All),
          at : All \cup {Primary, Nowhere}, load : Int]

\* The types that the steps rely on.
Shape ==
    /\ usage \in Usages
    /\ server \in [All -> {"up", "down", "hung"}]
    /\ healthy \in [All -> BOOLEAN]
    /\ active \in [All -> 0 .. Wrap - 1]
    /\ rr \in 0 .. Wrap - 1
    /\ read \in [Readers -> Reads]
    /\ check \in [Checkers -> [step : {"idle", "ping", "store"},
                               next : 1 .. usage.replicas + 1, ok : BOOLEAN]]
    /\ task \in BOOLEAN /\ changes \in 0 .. usage.changes
    /\ steady \in [Readers -> SUBSET All] /\ ever \in [Readers -> SUBSET All]

\* A check stores a result only for a replica.
Stores == \A k \in Checkers : check[k].step = "store" => check[k].next \in All

\* The list is no longer than the flags loaded, and min_by_key is inside it.
Fits(x) ==
    /\ x.step = "scan" => Len(x.seen) < x.next
    /\ x.step = "count" => Len(x.seen) <= usage.replicas /\ x.next <= Len(x.seen)

\* Only a read that runs is at the primary.
AtStep(x) ==
    /\ x.step \in {"idle", "scan"} => x.at = Nowhere
    /\ x.at = Primary => x.step = "run"

\* During a routing steady <= flags <= ever.
Between(x, S, E) ==
    x.step \in {"scan", "count", "start", "first"} => S \subseteq Marked /\ Marked \subseteq E

\* The list so far holds what was marked throughout, and nothing that never was.
Listed(x, S, E) ==
    /\ x.step = "scan" => \A r \in S : r < x.next => \E i \in DOMAIN x.seen : x.seen[i] = r
    /\ x.step \in {"scan", "count"} => \A i \in DOMAIN x.seen : x.seen[i] \in E

\* The replica chosen, also half-way through min_by_key, and the last resort.
Chosen(x, S, E) ==
    /\ x.step = "start" => x.at \in E
    /\ x.step = "run" /\ x.at # Primary => x.at \in E
    /\ x.step = "first" => x.at = 1 /\ S = {} /\ ~usage.fallback
    /\ x.step = "count" /\ x.next > 1 => x.at \in E
    /\ x.at = Primary => S = {} /\ (usage.fallback \/ All = {})

ReaderOK(x, S, E) ==
    Fits(x) /\ AtStep(x) /\ Between(x, S, E) /\ Listed(x, S, E) /\ Chosen(x, S, E)

IInv == Shape /\ Stores /\ \A u \in Readers : ReaderOK(read[u], steady[u], ever[u])

-----------------------------------------------------------------------------
LEMMA UsageType == usage \in Usages => usage.replicas \in Nat /\ usage.changes \in Nat
  BY RoutedAssumption

LEMMA InitIInv == Init => IInv
  <1> SUFFICES ASSUME Init PROVE IInv
    OBVIOUS
  <1> USE DEF Init, NotReading, NotChecking, All, Primary, Nowhere
  <1>1. usage.replicas \in Nat /\ usage.changes \in Nat /\ Wrap \in Nat \ {0}
    BY UsageType, RoutedAssumption
  <1>2. Shape
    BY <1>1 DEF Shape, Steps, Reads
  <1>3. Stores
    BY DEF Stores
  <1>4. \A u \in Readers : ReaderOK(read[u], steady[u], ever[u])
    BY DEF ReaderOK, Fits, AtStep, Between, Listed, Chosen
  <1> QED
    BY <1>2, <1>3, <1>4 DEF IInv

-----------------------------------------------------------------------------
\* A step that changes what is recorded of one reader only.
LEMMA OneReader ==
  ASSUME IInv, NEW u \in Readers, NEW x \in Reads,
         NEW S \in SUBSET All, NEW E \in SUBSET All, ReaderOK(x, S, E),
         read' = [read EXCEPT ![u] = x],
         steady' = [steady EXCEPT ![u] = S], ever' = [ever EXCEPT ![u] = E],
         active' \in [All -> 0 .. Wrap - 1], rr' \in 0 .. Wrap - 1,
         UNCHANGED <<env, healthy>>
  PROVE  IInv'
  <1> USE DEF env
  <1>1. UNCHANGED <<usage, server, check, task, changes, healthy>>
    OBVIOUS
  <1>2. All' = All /\ Reads' = Reads /\ Marked' = Marked
    BY <1>1 DEF All, Reads, Marked
  <1>3. Shape'
    BY <1>1, <1>2 DEF IInv, Shape
  <1>4. Stores'
    BY <1>1, <1>2 DEF IInv, Stores
  <1>5. ASSUME NEW v \in Readers PROVE ReaderOK(read[v], steady[v], ever[v])'
    <2>1. ReaderOK(read'[v], steady'[v], ever'[v])
      BY DEF IInv, Shape
    <2> QED
      BY <2>1, <1>1, <1>2 DEF ReaderOK, Fits, AtStep, Between, Listed, Chosen
  <1>6. (\A v \in Readers : ReaderOK(read[v], steady[v], ever[v]))'
    BY <1>5
  <1> QED
    BY <1>3, <1>4, <1>6 DEF IInv

\* The same when the histories stay.
LEMMA OneReaderNoHistory ==
  ASSUME IInv, NEW u \in Readers, NEW x \in Reads, ReaderOK(x, steady[u], ever[u]),
         read' = [read EXCEPT ![u] = x],
         active' \in [All -> 0 .. Wrap - 1], rr' \in 0 .. Wrap - 1,
         UNCHANGED <<env, healthy, steady, ever>>
  PROVE  IInv'
  <1>1. /\ steady[u] \in SUBSET All /\ ever[u] \in SUBSET All
        /\ steady' = [steady EXCEPT ![u] = steady[u]] /\ ever' = [ever EXCEPT ![u] = ever[u]]
    BY DEF IInv, Shape
  <1> QED
    BY <1>1, OneReader

\* What the lemmas ask of the variables that a step leaves alone.
LEMMA Unchanged ==
  ASSUME IInv
  PROVE  /\ active \in [All -> 0 .. Wrap - 1] /\ rr \in 0 .. Wrap - 1
         /\ Wrap \in Nat \ {0} /\ usage.replicas \in Nat
  BY UsageType, RoutedAssumption DEF IInv, Shape

-----------------------------------------------------------------------------
(* The steps of a reader.                                                  *)

LEMMA StartReadIInv == ASSUME IInv, NEW u \in Readers, StartRead(u) PROVE IInv'
  <1> DEFINE x == [step |-> "scan", next |-> 1, seen |-> <<>>, at |-> Nowhere, load |-> 0]
  <1>1. read' = [read EXCEPT ![u] = x]
    <2>1. [NotReading EXCEPT !.step = "scan"] = x
      BY DEF NotReading
    <2> QED
      BY <2>1 DEF StartRead
  <1>2. x \in Reads
    BY Unchanged DEF Reads, Steps
  <1>3. Marked \in SUBSET All
    BY DEF Marked
  <1>4. \A r \in All : ~(r < 1)
    BY Unchanged DEF All
  <1>5. ReaderOK(x, Marked, Marked)
    BY <1>3, <1>4 DEF ReaderOK, Fits, AtStep, Between, Listed, Chosen, Nowhere, Primary
  <1> QED
    BY <1>1, <1>2, <1>3, <1>5, Unchanged, OneReader DEF StartRead

LEMMA ScanIInv == ASSUME IInv, NEW u \in Readers, Scan(u) PROVE IInv'
  <1> DEFINE r == read[u].next
             list == read[u].seen
             longer == IF healthy[r] THEN Append(list, r) ELSE list
             x == [read[u] EXCEPT !.next = r + 1, !.seen = longer]
  <1>1. read' = [read EXCEPT ![u] = x]
    BY DEF Scan, IInv, Shape
  <1>2. /\ read[u] \in Reads /\ ReaderOK(read[u], steady[u], ever[u])
        /\ steady[u] \subseteq All /\ read[u].step = "scan" /\ r \in All
    BY DEF IInv, Shape, Scan
  <1>3. usage.replicas \in Nat /\ r \in 1 .. usage.replicas /\ list \in Seq(All)
    BY <1>2, Unchanged DEF All, Reads
  <1>4. longer \in Seq(All) /\ Len(longer) <= Len(list) + 1 /\ Len(list) < r
    BY <1>2, <1>3 DEF ReaderOK, Fits
  <1> HIDE DEF longer
  <1>5. x \in Reads
    <2>1. r + 1 \in 1 .. usage.replicas + 1 /\ longer \in Seq(All)
      BY <1>3, <1>4
    <2> QED
      BY <1>2, <2>1 DEF Reads
  <1>6. x.step = "scan" /\ x.next = r + 1 /\ x.seen = longer /\ x.at = read[u].at
    BY <1>2 DEF Reads
  <1>7. r \in Marked <=> healthy[r]
    BY <1>2 DEF Marked
  <1>8. Fits(x)
    BY <1>3, <1>4, <1>6 DEF Fits
  <1>9. ASSUME NEW s \in steady[u], s < r + 1 PROVE \E i \in DOMAIN longer : longer[i] = s
    <2>1. s \in Nat /\ s \in Marked
      BY <1>2, <1>3 DEF ReaderOK, Between, All
    <2>2. CASE s = r
      <3>1. longer = Append(list, r) /\ Len(longer) = Len(list) + 1 /\ longer[Len(list) + 1] = r
        BY <2>1, <2>2, <1>3, <1>2, <1>7 DEF longer
      <3>2. Len(list) + 1 \in DOMAIN longer
        BY <3>1, <1>3, <1>4
      <3> QED
        BY <3>1, <3>2, <2>2
    <2>3. CASE s < r
      <3>1. PICK i \in DOMAIN list : list[i] = s
        BY <2>3, <1>2 DEF ReaderOK, Listed
      <3>2. i \in DOMAIN longer /\ longer[i] = s
        BY <3>1, <1>3, <1>2 DEF longer
      <3> QED
        BY <3>2
    <2> QED
      BY <2>1, <2>2, <2>3, <1>3, <1>9
  <1>10. ASSUME NEW i \in DOMAIN longer PROVE longer[i] \in ever[u]
    <2>1. CASE healthy[r]
      <3>1. r \in ever[u]
        BY <2>1, <1>2, <1>7 DEF ReaderOK, Between
      <3>2. i \in DOMAIN list \/ i = Len(list) + 1
        BY <2>1, <1>2, <1>3, <1>10 DEF longer
      <3> QED
        BY <3>1, <3>2, <2>1, <1>2, <1>3 DEF longer, ReaderOK, Listed
    <2>2. CASE ~healthy[r]
      BY <2>2, <1>2, <1>10 DEF longer, ReaderOK, Listed
    <2> QED
      BY <2>1, <2>2
  <1>11. Listed(x, steady[u], ever[u])
    BY <1>6, <1>9, <1>10 DEF Listed
  <1>12. AtStep(x) /\ Between(x, steady[u], ever[u]) /\ Chosen(x, steady[u], ever[u])
    BY <1>2, <1>6 DEF ReaderOK, AtStep, Between, Chosen
  <1>13. ReaderOK(x, steady[u], ever[u])
    BY <1>8, <1>11, <1>12 DEF ReaderOK
  <1> QED
    BY <1>1, <1>5, <1>13, Unchanged, OneReaderNoHistory DEF Scan

\* A replica of the complete list is chosen at once.
LEMMA ChooseIInv ==
  ASSUME IInv, NEW u \in Readers, Scanned(u), NEW i \in DOMAIN read[u].seen,
         Choose(u, read[u].seen[i]), rr' = (rr + 1) % Wrap,
         UNCHANGED <<env, healthy, active, steady, ever, calm>>
  PROVE  IInv'
  <1> DEFINE r == read[u].seen[i]
             x == [read[u] EXCEPT !.step = "start", !.at = r]
  <1>1. read' = [read EXCEPT ![u] = x]
    BY DEF Choose, IInv, Shape
  <1>2. /\ read[u] \in Reads /\ ReaderOK(read[u], steady[u], ever[u])
        /\ steady[u] \subseteq All /\ read[u].step = "scan"
    BY DEF IInv, Shape, Scanned
  <1>3. r \in All /\ r \in ever[u] /\ r # Primary
    <2>1. read[u].seen \in Seq(All)
      BY <1>2 DEF Reads
    <2>2. r \in All
      BY <2>1
    <2>3. r \in ever[u]
      BY <1>2 DEF ReaderOK, Listed
    <2> QED
      BY <2>2, <2>3, Unchanged DEF All, Primary
  <1>4. x \in Reads /\ x.step = "start" /\ x.at = r
    BY <1>2, <1>3 DEF Reads, Steps
  <1>5. ReaderOK(x, steady[u], ever[u])
    BY <1>2, <1>3, <1>4 DEF ReaderOK, Fits, AtStep, Between, Listed, Chosen
  <1>6. rr' \in 0 .. Wrap - 1
    BY Unchanged
  <1> QED
    BY <1>1, <1>4, <1>5, <1>6, Unchanged, OneReaderNoHistory

LEMMA IndexFits ==
  ASSUME NEW n \in Nat, NEW m \in Nat \ {0} PROVE (n % m) + 1 \in 1 .. m
  OBVIOUS

LEMMA PickIInv ==
  ASSUME IInv, NEW u \in Readers, PickRoundRobin(u) \/ PickRandom(u)
  PROVE  IInv'
  <1>1. CASE PickRoundRobin(u)
    <2>1. read[u].seen \in Seq(All) /\ rr \in Nat
      BY Unchanged DEF IInv, Shape, Reads
    <2>2. Len(read[u].seen) \in Nat \ {0}
      BY <2>1, <1>1 DEF PickRoundRobin
    <2>3. (rr % Len(read[u].seen)) + 1 \in 1 .. Len(read[u].seen)
      BY <2>1, <2>2, IndexFits
    <2>4. DOMAIN read[u].seen = 1 .. Len(read[u].seen)
      BY <2>1
    <2> DEFINE i == (rr % Len(read[u].seen)) + 1
    <2>5. i \in DOMAIN read[u].seen
      BY <2>3, <2>4
    <2>6. /\ Scanned(u) /\ Choose(u, read[u].seen[i]) /\ rr' = (rr + 1) % Wrap
          /\ UNCHANGED <<env, healthy, active, steady, ever, calm>>
      BY <1>1 DEF PickRoundRobin
    <2> HIDE DEF i
    <2> QED
      BY <2>5, <2>6, ChooseIInv
  <1>2. CASE PickRandom(u)
    BY <1>2, ChooseIInv DEF PickRandom
  <1> QED
    BY <1>1, <1>2

LEMMA PickLeastIInv == ASSUME IInv, NEW u \in Readers, PickLeast(u) PROVE IInv'
  <1> DEFINE x == [read[u] EXCEPT !.step = "count", !.next = 1]
  <1>1. read' = [read EXCEPT ![u] = x]
    BY DEF PickLeast, IInv, Shape
  <1>2. /\ read[u] \in Reads /\ ReaderOK(read[u], steady[u], ever[u])
        /\ read[u].step = "scan" /\ read[u].seen # <<>> /\ read[u].next \notin All
    BY DEF IInv, Shape, Scanned, PickLeast
  <1>3. /\ usage.replicas \in Nat /\ read[u].seen \in Seq(All)
        /\ read[u].next \in 1 .. usage.replicas + 1
    BY <1>2, Unchanged DEF Reads
  <1>4. Len(read[u].seen) \in 1 .. usage.replicas
    <2>1. Len(read[u].seen) < read[u].next
      BY <1>2 DEF ReaderOK, Fits
    <2>2. Len(read[u].seen) \in Nat \ {0}
      BY <1>2, <1>3
    <2> QED
      BY <1>3, <2>1, <2>2
  <1>5. x \in Reads
    <2>1. 1 \in 1 .. usage.replicas + 1 /\ "count" \in Steps
      BY <1>3 DEF Steps
    <2> QED
      BY <1>2, <2>1 DEF Reads
  <1>6. x.step = "count" /\ x.next = 1 /\ x.seen = read[u].seen /\ x.at = read[u].at
    BY <1>2 DEF Reads
  <1>7. Fits(x)
    BY <1>4, <1>6 DEF Fits
  <1>8. AtStep(x) /\ Between(x, steady[u], ever[u]) /\ Listed(x, steady[u], ever[u])
    BY <1>2, <1>6 DEF ReaderOK, AtStep, Between, Listed, Nowhere, Primary
  <1>9. Chosen(x, steady[u], ever[u])
    BY <1>2, <1>6 DEF ReaderOK, Chosen
  <1> QED
    BY <1>1, <1>5, <1>7, <1>8, <1>9, Unchanged, OneReaderNoHistory DEF PickLeast, ReaderOK

LEMMA CountIInv == ASSUME IInv, NEW u \in Readers, Count(u) PROVE IInv'
  <1> DEFINE i == read[u].next
             list == read[u].seen
             better == i = 1 \/ active[list[i]] < read[u].load
             x == [read[u] EXCEPT !.next = i + 1,
                                  !.step = IF i = Len(list) THEN "start" ELSE @,
                                  !.at   = IF better THEN list[i] ELSE @,
                                  !.load = IF better THEN active[list[i]] ELSE @]
  <1>1. read' = [read EXCEPT ![u] = x]
    BY DEF Count, IInv, Shape
  <1>2. /\ read[u] \in Reads /\ ReaderOK(read[u], steady[u], ever[u]) /\ read[u].step = "count"
    BY DEF IInv, Shape, Count
  <1>3. /\ usage.replicas \in Nat /\ list \in Seq(All) /\ i \in 1 .. usage.replicas + 1
        /\ Len(list) <= usage.replicas /\ i <= Len(list)
    BY <1>2, Unchanged DEF Reads, ReaderOK, Fits
  <1>4. i \in DOMAIN list /\ list[i] \in All /\ list[i] # Primary
    <2>1. i \in DOMAIN list
      BY <1>3
    <2>2. list[i] \in All
      BY <2>1, <1>3
    <2> QED
      BY <2>1, <2>2, <1>3 DEF All, Primary
  <1>5. list[i] \in ever[u]
    BY <1>2, <1>4 DEF ReaderOK, Listed
  <1>6. active[list[i]] \in Int
    BY <1>4, Unchanged
  <1>7. i + 1 \in 1 .. usage.replicas + 1 /\ i + 1 > 1
    BY <1>3
  <1>8. /\ x.next = i + 1 /\ x.seen = list
        /\ x.step = (IF i = Len(list) THEN "start" ELSE "count")
        /\ x.at = (IF better THEN list[i] ELSE read[u].at)
    BY <1>2 DEF Reads
  <1>9. x \in Reads
    <2>1. (IF i = Len(list) THEN "start" ELSE read[u].step) \in Steps
      BY <1>2 DEF Steps
    <2>2. (IF better THEN list[i] ELSE read[u].at) \in All \cup {Primary, Nowhere}
      BY <1>2, <1>4 DEF Reads
    <2>3. (IF better THEN active[list[i]] ELSE read[u].load) \in Int
      BY <1>2, <1>6 DEF Reads
    <2> QED
      BY <1>2, <1>7, <2>1, <2>2, <2>3 DEF Reads
  <1>10. x.at \in ever[u] /\ x.at # Primary
    <2>1. CASE i = 1
      BY <2>1, <1>4, <1>5, <1>8
    <2>2. CASE i # 1
      <3>1. read[u].at \in ever[u] /\ read[u].at # Primary
        BY <2>2, <1>2, <1>3 DEF ReaderOK, Chosen, AtStep
      <3> QED
        BY <3>1, <1>4, <1>5, <1>8
    <2> QED
      BY <2>1, <2>2
  <1>11. Fits(x)
    BY <1>3, <1>8 DEF Fits
  <1>12. AtStep(x) /\ Chosen(x, steady[u], ever[u])
    BY <1>8, <1>10 DEF AtStep, Chosen
  <1>13. Between(x, steady[u], ever[u]) /\ Listed(x, steady[u], ever[u])
    BY <1>2, <1>8 DEF ReaderOK, Between, Listed
  <1> QED
    BY <1>1, <1>9, <1>11, <1>12, <1>13, Unchanged, OneReaderNoHistory DEF Count, ReaderOK

\* The record of a reader that begins to run at r.
Running(r) == [step |-> "run", next |-> 1, seen |-> <<>>, at |-> r, load |-> 0]

LEMMA RunningIs == \A r : [NotReading EXCEPT !.step = "run", !.at = r] = Running(r)
  <1> TAKE r
  <1> DEFINE z == [step |-> "run", next |-> 1, seen |-> <<>>, at |-> Nowhere, load |-> 0]
  <1>1. [NotReading EXCEPT !.step = "run"] = z
    BY DEF NotReading
  <1>2. [NotReading EXCEPT !.step = "run", !.at = r] = [z EXCEPT !.at = r]
    BY <1>1
  <1>3. [z EXCEPT !.at = r] = Running(r)
    BY DEF Running
  <1> QED
    BY <1>2, <1>3

LEMMA RunningOK ==
  ASSUME IInv, NEW r \in All \cup {Primary}, NEW S, NEW E,
         r = Primary => S = {} /\ (usage.fallback \/ All = {}),
         r # Primary => r \in E
  PROVE  Running(r) \in Reads /\ ReaderOK(Running(r), S, E)
  <1>1. Running(r) \in Reads
    BY Unchanged DEF Running, Reads, Steps
  <1>2. ReaderOK(Running(r), S, E)
    BY DEF Running, ReaderOK, Fits, AtStep, Between, Listed, Chosen
  <1> QED
    BY <1>1, <1>2

LEMMA IdleOK ==
  ASSUME IInv, NEW S, NEW E
  PROVE  NotReading \in Reads /\ ReaderOK(NotReading, S, E)
  <1>1. NotReading \in Reads
    BY Unchanged DEF NotReading, Reads, Steps
  <1>2. NotReading.step = "idle" /\ NotReading.at = Nowhere /\ Nowhere # Primary
    BY DEF NotReading, Nowhere, Primary
  <1>3. ReaderOK(NotReading, S, E)
    BY <1>2 DEF ReaderOK, Fits, AtStep, Between, Listed, Chosen
  <1> QED
    BY <1>1, <1>3

\* No replica is on the complete list, so none was marked throughout.
LEMMA NoneSteady ==
  ASSUME IInv, NEW u \in Readers, Scanned(u), read[u].seen = <<>>
  PROVE  steady[u] = {}
  <1>1. ReaderOK(read[u], steady[u], ever[u]) /\ read[u] \in Reads /\ steady[u] \subseteq All
    BY DEF IInv, Shape
  <1>2. \A r \in All : r < read[u].next
    BY <1>1, Unchanged DEF Reads, All, Scanned
  <1>3. \A r \in steady[u] : \E i \in DOMAIN read[u].seen : TRUE
    BY <1>1, <1>2 DEF ReaderOK, Listed, Scanned
  <1> QED
    BY <1>3

LEMMA PickNoneIInv == ASSUME IInv, NEW u \in Readers, PickNone(u) PROVE IInv'
  <1>1. /\ read[u] \in Reads /\ ReaderOK(read[u], steady[u], ever[u]) /\ steady[u] \subseteq All
        /\ read[u].step = "scan" /\ read[u].seen = <<>> /\ read[u].next \notin All
    BY DEF IInv, Shape, PickNone, Scanned
  <1>2. steady[u] = {}
    BY NoneSteady DEF PickNone
  <1>3. CASE usage.fallback \/ All = {}
    <2>1. [NotReading EXCEPT !.step = "run", !.at = Primary] = Running(Primary)
      BY RunningIs
    <2>2. read' = [read EXCEPT ![u] = Running(Primary)]
      BY <1>3, <2>1 DEF PickNone
    <2>3. Running(Primary) \in Reads /\ ReaderOK(Running(Primary), steady[u], ever[u])
      BY <1>2, <1>3, RunningOK
    <2> QED
      BY <2>2, <2>3, Unchanged, OneReaderNoHistory DEF PickNone
  <1>4. CASE ~(usage.fallback \/ All = {})
    <2>1. read' = [read EXCEPT ![u] = NotReading]
      BY <1>4 DEF PickNone
    <2> QED
      BY <2>1, IdleOK, Unchanged, OneReaderNoHistory DEF PickNone
  <1> QED
    BY <1>3, <1>4

\* The record of a reader for whom select_replica takes the first replica.
LastResort == [step |-> "first", next |-> 1, seen |-> <<>>, at |-> 1, load |-> 0]

LEMMA LastResortIs == [NotReading EXCEPT !.step = "first", !.at = 1] = LastResort
  <1> DEFINE z == [step |-> "first", next |-> 1, seen |-> <<>>, at |-> Nowhere, load |-> 0]
  <1>1. [NotReading EXCEPT !.step = "first"] = z
    BY DEF NotReading
  <1>2. [NotReading EXCEPT !.step = "first", !.at = 1] = [z EXCEPT !.at = 1]
    BY <1>1
  <1>3. [z EXCEPT !.at = 1] = LastResort
    BY DEF LastResort
  <1> QED
    BY <1>2, <1>3

LEMMA SelectFirstIInv == ASSUME IInv, NEW u \in Readers, SelectFirst(u) PROVE IInv'
  <1>1. /\ ReaderOK(read[u], steady[u], ever[u]) /\ read[u].step = "scan" /\ ~usage.fallback
        /\ read' = [read EXCEPT ![u] = LastResort] /\ All # {} /\ usage.replicas \in Nat
    BY LastResortIs, Unchanged DEF IInv, SelectFirst, Scanned
  <1>2. steady[u] = {}
    BY NoneSteady DEF SelectFirst
  <1>3. 1 \in All /\ 1 # Primary
    BY <1>1 DEF All, Primary
  <1>4. LastResort \in Reads
    BY <1>3, Unchanged DEF LastResort, Reads, Steps
  <1>5. ReaderOK(LastResort, steady[u], ever[u])
    <2> USE DEF LastResort
    <2>1. Fits(LastResort) /\ AtStep(LastResort)
      BY <1>3 DEF Fits, AtStep
    <2>2. Between(LastResort, steady[u], ever[u])
      BY <1>1 DEF ReaderOK, Between
    <2>3. Listed(LastResort, steady[u], ever[u]) /\ Chosen(LastResort, steady[u], ever[u])
      BY <1>1, <1>2, <1>3 DEF Listed, Chosen
    <2> QED
      BY <2>1, <2>2, <2>3 DEF ReaderOK
  <1> QED
    BY <1>1, <1>4, <1>5, Unchanged, OneReaderNoHistory DEF SelectFirst

LEMMA StartIInv == ASSUME IInv, NEW u \in Readers, Start(u) PROVE IInv'
  <1> DEFINE r == read[u].at
  <1>1. /\ ReaderOK(read[u], steady[u], ever[u]) /\ ever[u] \subseteq All /\ read[u].step = "start"
    BY DEF IInv, Shape, Start
  <1>2. r \in All /\ r # Primary
    BY <1>1, Unchanged DEF ReaderOK, Chosen, All, Primary
  <1>3. [NotReading EXCEPT !.step = "run", !.at = r] = Running(r)
    BY RunningIs
  <1>4. read' = [read EXCEPT ![u] = Running(r)]
    BY <1>3 DEF Start
  <1>5. Running(r) \in Reads /\ ReaderOK(Running(r), steady[u], ever[u])
    BY <1>1, <1>2, RunningOK DEF ReaderOK, Chosen
  <1>6. active' \in [All -> 0 .. Wrap - 1]
    <2>1. active[r] \in 0 .. Wrap - 1
      BY <1>2, Unchanged
    <2>2. (active[r] + 1) % Wrap \in 0 .. Wrap - 1
      BY <2>1, Unchanged
    <2> QED
      BY <1>2, <2>2, Unchanged DEF Start
  <1>7. rr' \in 0 .. Wrap - 1 /\ UNCHANGED <<env, healthy, steady, ever>>
    BY Unchanged DEF Start
  <1> QED
    BY <1>4, <1>5, <1>6, <1>7, OneReaderNoHistory

LEMMA SelectedIInv == ASSUME IInv, NEW u \in Readers, Selected(u) PROVE IInv'
  <1>1. /\ read' = [read EXCEPT ![u] = NotReading]
        /\ steady' = [steady EXCEPT ![u] = {}] /\ ever' = [ever EXCEPT ![u] = {}]
        /\ UNCHANGED <<env, healthy, active, rr>> /\ {} \in SUBSET All
    BY DEF Selected, Forget
  <1>2. active' \in [All -> 0 .. Wrap - 1] /\ rr' \in 0 .. Wrap - 1
    BY <1>1, Unchanged
  <1> QED
    BY <1>1, <1>2, IdleOK, OneReader

LEMMA FinishIInv == ASSUME IInv, NEW u \in Readers, Finish(u) PROVE IInv'
  <1> DEFINE r == read[u].at
  <1>1. active' \in [All -> 0 .. Wrap - 1]
    <2>1. CASE r = Primary
      BY <2>1, Unchanged DEF Finish
    <2>2. CASE r \in All
      <3>1. active[r] \in 0 .. Wrap - 1
        BY <2>2, Unchanged
      <3>2. (active[r] - 1) % Wrap \in 0 .. Wrap - 1
        BY <3>1, Unchanged
      <3> QED
        BY <2>2, <3>2, Unchanged DEF Finish
    <2>3. CASE r \notin All
      BY <2>3, Unchanged DEF Finish
    <2> QED
      BY <2>1, <2>2, <2>3
  <1>2. /\ read' = [read EXCEPT ![u] = NotReading]
        /\ steady' = [steady EXCEPT ![u] = {}] /\ ever' = [ever EXCEPT ![u] = {}]
        /\ UNCHANGED <<env, healthy, rr>> /\ {} \in SUBSET All
    BY DEF Finish, Forget
  <1>3. rr' \in 0 .. Wrap - 1
    BY <1>2, Unchanged
  <1> QED
    BY <1>1, <1>2, <1>3, IdleOK, OneReader

-----------------------------------------------------------------------------
(* The flags.                                                              *)

\* A replica is marked, and what is recorded of the routings follows.
LEMMA MarkIInv ==
  ASSUME IInv, NEW r \in All, NEW b \in BOOLEAN, Mark(r, b),
         UNCHANGED <<usage, server, active, rr, read, task>>,
         check' \in [Checkers -> [step : {"idle", "ping", "store"},
                                 next : 1 .. usage.replicas + 1, ok : BOOLEAN]],
         \A k \in Checkers : check'[k].step = "store" => check'[k].next \in All,
         changes' \in 0 .. usage.changes
  PROVE  IInv'
  <1>1. All' = All /\ Reads' = Reads
    BY DEF All, Reads
  <1>2. Marked' = IF b THEN Marked \cup {r} ELSE Marked \ {r}
    BY <1>1 DEF Marked, Mark, IInv, Shape
  <1>3. \A u \in Readers :
           /\ steady'[u] = IF Routing(u) /\ ~b THEN steady[u] \ {r} ELSE steady[u]
           /\ ever'[u] = IF Routing(u) /\ b THEN ever[u] \cup {r} ELSE ever[u]
    BY DEF Mark
  <1>4. Shape'
    BY <1>1 DEF IInv, Shape, Mark
  <1>5. Stores'
    BY <1>1 DEF Stores
  <1>6. ASSUME NEW u \in Readers PROVE ReaderOK(read[u], steady[u], ever[u])'
    <2>1. ReaderOK(read[u], steady[u], ever[u])
      BY DEF IInv
    <2>2. Fits(read[u])' /\ AtStep(read[u])'
      BY <2>1 DEF ReaderOK, Fits, AtStep
    <2>3. Between(read[u], steady[u], ever[u])'
      BY <2>1, <1>2, <1>3 DEF ReaderOK, Between, Routing
    <2>4. steady'[u] \subseteq steady[u] /\ ever[u] \subseteq ever'[u]
      BY <1>3
    <2>5. Listed(read[u], steady[u], ever[u])' /\ Chosen(read[u], steady[u], ever[u])'
      BY <2>1, <2>4, <1>1 DEF ReaderOK, Listed, Chosen
    <2> QED
      BY <2>2, <2>3, <2>5 DEF ReaderOK
  <1>7. (\A u \in Readers : ReaderOK(read[u], steady[u], ever[u]))'
    BY <1>6
  <1> QED
    BY <1>4, <1>5, <1>7 DEF IInv

\* A step that leaves readers, flags and histories alone.
LEMMA Frame ==
  ASSUME IInv, UNCHANGED <<usage, healthy, active, rr, read, steady, ever>>,
         server' \in [All -> {"up", "down", "hung"}], task' \in BOOLEAN,
         check' \in [Checkers -> [step : {"idle", "ping", "store"},
                                 next : 1 .. usage.replicas + 1, ok : BOOLEAN]],
         \A k \in Checkers : check'[k].step = "store" => check'[k].next \in All,
         changes' \in 0 .. usage.changes
  PROVE  IInv'
  <1>1. All' = All /\ Reads' = Reads /\ Marked' = Marked
    BY DEF All, Reads, Marked
  <1>2. Shape' /\ Stores'
    BY <1>1 DEF IInv, Shape, Stores
  <1>3. (\A u \in Readers : ReaderOK(read[u], steady[u], ever[u]))'
    BY <1>1 DEF IInv, ReaderOK, Fits, AtStep, Between, Listed, Chosen
  <1> QED
    BY <1>2, <1>3 DEF IInv

\* What the checks are, while they run.
Checks == [Checkers -> [step : {"idle", "ping", "store"},
                        next : 1 .. usage.replicas + 1, ok : BOOLEAN]]

LEMMA CheckIInv ==
  ASSUME IInv, NEW k \in Checkers,
         StartCheck(k) \/ Ping(k) \/ EndCheck(k) \/ CancelCheck(k)
  PROVE  IInv'
  <1>1. /\ check \in Checks /\ usage.replicas \in Nat /\ changes \in 0 .. usage.changes
        /\ task \in BOOLEAN /\ server \in [All -> {"up", "down", "hung"}]
    BY Unchanged DEF IInv, Shape, Checks
  <1>2. \A j \in Checkers : check[j].step = "store" => check[j].next \in All
    BY DEF IInv, Stores
  <1>3. 1 \in 1 .. usage.replicas + 1
    BY <1>1
  <1>4. CASE StartCheck(k)
    <2>1. check' \in Checks /\ \A j \in Checkers : check'[j].step = "store" => check'[j].next \in All
      BY <1>1, <1>2, <1>3, <1>4 DEF StartCheck, Checks, NotChecking
    <2> QED
      BY <1>1, <1>4, <2>1, Frame DEF StartCheck, Checks
  <1>5. CASE Ping(k)
    <2>1. check' \in Checks
      <3> DEFINE b == server[check[k].next] = "up"
      <3>1. b \in BOOLEAN
        OBVIOUS
      <3>2. check' = [check EXCEPT ![k].step = "store", ![k].ok = b]
        BY <1>5 DEF Ping
      <3> HIDE DEF b
      <3> QED
        BY <1>1, <3>1, <3>2 DEF Checks
    <2>2. \A j \in Checkers : check'[j].step = "store" => check'[j].next \in All
      BY <1>1, <1>2, <1>5 DEF Ping, Checks
    <2> QED
      BY <1>1, <1>5, <2>1, <2>2, Frame DEF Ping, Checks
  <1>6. CASE EndCheck(k) \/ CancelCheck(k)
    <2>1. check' = [check EXCEPT ![k] = NotChecking]
      BY <1>6 DEF EndCheck, CancelCheck
    <2>2. NotChecking \in [step : {"idle", "ping", "store"}, next : 1 .. usage.replicas + 1, ok : BOOLEAN]
          /\ NotChecking.step # "store"
      BY <1>3 DEF NotChecking
    <2>3. check' \in Checks /\ \A j \in Checkers : check'[j].step = "store" => check'[j].next \in All
      BY <1>1, <1>2, <2>1, <2>2 DEF Checks
    <2> QED
      BY <1>1, <1>6, <2>3, Frame DEF EndCheck, CancelCheck, Checks
  <1> QED
    BY <1>4, <1>5, <1>6

LEMMA StoreIInv == ASSUME IInv, NEW k \in Checkers, Store(k) PROVE IInv'
  <1>1. /\ check \in Checks /\ usage.replicas \in Nat /\ changes \in 0 .. usage.changes
        /\ check[k].next \in All /\ check[k].ok \in BOOLEAN
    BY Unchanged DEF IInv, Shape, Stores, Store, Checks
  <1>2. check[k].next + 1 \in 1 .. usage.replicas + 1
    BY <1>1 DEF All
  <1>3. check' \in Checks
    BY <1>1, <1>2 DEF Store, Checks
  <1>4. \A j \in Checkers : check'[j].step = "store" => check'[j].next \in All
    BY <1>1 DEF IInv, Stores, Store, Checks
  <1> QED
    BY <1>1, <1>3, <1>4, MarkIInv DEF Store, Checks

\* The application and the environment.
LEMMA OutsideIInv ==
  ASSUME IInv,
         \/ StopTask
         \/ \E r \in 1 .. MaxReplicas, b \in BOOLEAN : SetHealthy(r, b)
         \/ \E r \in 1 .. MaxReplicas, s \in {"up", "down", "hung"} : ServerTurns(r, s)
  PROVE  IInv'
  <1>1. /\ check \in Checks /\ changes \in 0 .. usage.changes /\ usage.changes \in Nat
        /\ task \in BOOLEAN /\ server \in [All -> {"up", "down", "hung"}]
        /\ \A j \in Checkers : check[j].step = "store" => check[j].next \in All
    BY UsageType DEF IInv, Shape, Stores, Checks
  <1>2. CASE StopTask
    BY <1>1, <1>2, Frame DEF StopTask, Checks
  <1>3. ASSUME NEW r \in 1 .. MaxReplicas, NEW b \in BOOLEAN, SetHealthy(r, b) PROVE IInv'
    <2>1. changes' \in 0 .. usage.changes /\ r \in All
      BY <1>1, <1>3 DEF SetHealthy
    <2> QED
      BY <1>1, <1>3, <2>1, MarkIInv DEF SetHealthy, Checks
  <1>4. ASSUME NEW r \in 1 .. MaxReplicas, NEW s \in {"up", "down", "hung"}, ServerTurns(r, s) PROVE IInv'
    <2>1. changes' \in 0 .. usage.changes /\ server' \in [All -> {"up", "down", "hung"}]
      BY <1>1, <1>4 DEF ServerTurns
    <2> QED
      BY <1>1, <1>4, <2>1, Frame DEF ServerTurns, Checks
  <1> QED
    BY <1>2, <1>3, <1>4

-----------------------------------------------------------------------------
LEMMA NextIInv == IInv /\ [Next]_vars => IInv'
  <1> SUFFICES ASSUME IInv, [Next]_vars PROVE IInv'
    OBVIOUS
  <1>1. CASE UNCHANGED vars
    <2>1. UNCHANGED <<usage, server, healthy, active, rr, read, check, task, changes, steady, ever>>
      BY <1>1 DEF vars
    <2>2. /\ check \in Checks /\ changes \in 0 .. usage.changes
          /\ task \in BOOLEAN /\ server \in [All -> {"up", "down", "hung"}]
          /\ \A j \in Checkers : check[j].step = "store" => check[j].next \in All
      BY DEF IInv, Shape, Stores, Checks
    <2> QED
      BY <2>1, <2>2, Frame DEF Checks
  <1>2. ASSUME NEW u \in Readers,
               \/ StartRead(u) \/ Scan(u) \/ PickRoundRobin(u) \/ PickRandom(u) \/ PickLeast(u)
               \/ Count(u) \/ PickNone(u) \/ SelectFirst(u) \/ Start(u) \/ Selected(u)
               \/ Finish(u)
        PROVE  IInv'
    BY <1>2, StartReadIInv, ScanIInv, PickIInv, PickLeastIInv, CountIInv, PickNoneIInv,
       SelectFirstIInv, StartIInv, SelectedIInv, FinishIInv
  <1>3. ASSUME NEW k \in Checkers,
               StartCheck(k) \/ Ping(k) \/ Store(k) \/ EndCheck(k) \/ CancelCheck(k)
        PROVE  IInv'
    BY <1>3, CheckIInv, StoreIInv
  <1> QED
    BY <1>1, <1>2, <1>3, OutsideIInv DEF Next

LEMMA InvariantTells == IInv => RoutedByFlags
  <1> SUFFICES ASSUME IInv PROVE RoutedByFlags
    OBVIOUS
  <1>1. TypeOK
    BY DEF IInv, Shape, TypeOK, Reads, Steps
  <1>2. ASSUME NEW u \in Readers
        PROVE  /\ read[u].step \in {"start", "run"} /\ read[u].at # Primary => read[u].at \in ever[u]
               /\ read[u].step = "first" => read[u].at = 1 /\ steady[u] = {} /\ ~usage.fallback
               /\ Scanned(u) /\ read[u].seen = <<>> => steady[u] = {}
               /\ read[u].at = Primary => steady[u] = {} /\ (usage.fallback \/ All = {})
    <2>1. ReaderOK(read[u], steady[u], ever[u])
      BY DEF IInv
    <2> QED
      BY <2>1, NoneSteady DEF ReaderOK, Chosen
  <1> QED
    BY <1>1, <1>2 DEF RoutedByFlags

(* The inductive invariant holds of every behaviour, whoever routes reads, *)
(* checks and marks, in any number.                                        *)
THEOREM Inductive == Spec => []IInv
  BY InitIInv, NextIInv, PTL DEF Spec

(* A read goes to a replica only if that was marked healthy at some moment *)
(* of its routing, apart from the last resort that select_replica          *)
(* documents; it is sent to the primary, refused, or given that last       *)
(* resort, only if none was marked healthy throughout (route_read,         *)
(* pick_healthy, select_replica).                                          *)
THEOREM RoutedByFlagsAlways == Spec => []RoutedByFlags
  BY Inductive, InvariantTells, PTL

-----------------------------------------------------------------------------
(* Remainders.                                                             *)

LEMMA ModIs ==
  ASSUME NEW n \in Nat \ {0}, NEW a \in Int
  PROVE  /\ a % n \in 0 .. n - 1 /\ a \div n \in Int
         /\ a = n * (a \div n) + (a % n)
  OBVIOUS

LEMMA ModUnique ==
  ASSUME NEW n \in Nat \ {0}, NEW a \in Int, NEW q \in Int, NEW r \in 0 .. n - 1,
         a = n * q + r
  PROVE  a % n = r
  <1> DEFINE p == a \div n
             s == a % n
  <1>1. p \in Int /\ s \in 0 .. n - 1 /\ a = n * p + s
    BY ModIs
  <1> HIDE DEF p, s
  <1>2. n * (p - q) = r - s
    BY <1>1
  <1>3. p = q
    <2>1. ASSUME p - q >= 1 PROVE FALSE
      <3>1. n * (p - q) >= n
        BY <1>1, <2>1
      <3> QED
        BY <1>1, <1>2, <3>1
    <2>2. ASSUME p - q <= -1 PROVE FALSE
      <3>1. n * (p - q) <= -n
        BY <1>1, <2>2
      <3> QED
        BY <1>1, <1>2, <3>1
    <2> QED
      BY <1>1, <2>1, <2>2
  <1>4. s = r
    BY <1>1, <1>2, <1>3
  <1> QED
    BY <1>4 DEF s

LEMMA ModNext ==
  ASSUME NEW n \in Nat \ {0}, NEW a \in Int
  PROVE  (a + 1) % n = IF a % n = n - 1 THEN 0 ELSE (a % n) + 1
  <1> DEFINE p == a \div n
             s == a % n
  <1>1. p \in Int /\ s \in 0 .. n - 1 /\ a = n * p + s
    BY ModIs
  <1> HIDE DEF p, s
  <1>2. CASE s = n - 1
    <2>1. a + 1 = n * (p + 1) + 0 /\ p + 1 \in Int /\ 0 \in 0 .. n - 1
      BY <1>1, <1>2
    <2>2. (a + 1) % n = 0
      BY <2>1, ModUnique
    <2> QED
      BY <1>2, <2>2 DEF s
  <1>3. CASE s # n - 1
    <2>1. a + 1 = n * p + (s + 1) /\ s + 1 \in 0 .. n - 1
      BY <1>1, <1>3
    <2>2. (a + 1) % n = s + 1
      BY <1>1, <2>1, ModUnique
    <2> QED
      BY <1>3, <2>2 DEF s
  <1> QED
    BY <1>2, <1>3

LEMMA ModBack ==
  ASSUME NEW n \in Nat \ {0}, NEW a \in Int, NEW i \in 1 .. n
  PROVE  /\ a % n = 0 => (a - i) % n = n - i
         /\ (a - i) % n = n - 1 => i = (a % n) + 1
  <1> DEFINE p == a \div n
             s == a % n
  <1>1. p \in Int /\ s \in 0 .. n - 1 /\ a = n * p + s
    BY ModIs
  <1> HIDE DEF p, s
  <1>2. CASE s < i
    <2>1. a - i = n * (p - 1) + (s - i + n) /\ s - i + n \in 0 .. n - 1
          /\ p - 1 \in Int /\ a - i \in Int
      BY <1>1, <1>2
    <2>2. (a - i) % n = s - i + n
      BY <2>1, ModUnique
    <2> QED
      BY <1>1, <2>2 DEF s
  <1>3. CASE ~ (s < i)
    <2>1. a - i = n * p + (s - i) /\ s - i \in 0 .. n - 1 /\ a - i \in Int
      BY <1>1, <1>3
    <2>2. (a - i) % n = s - i
      BY <1>1, <2>1, ModUnique
    <2> QED
      BY <1>1, <1>3, <2>2 DEF s
  <1> QED
    BY <1>2, <1>3

-----------------------------------------------------------------------------
(* The balance: three invariants, each inductive beside IInv.              *)

\* As there are fewer reads than usize has values, a count never wraps.
Exact == \A r \in All : active[r] = Cardinality(Reading(r))

\* The most that the i-th of a list of n has waited for when rr_index is v: since
\* its turn of this round or, if rr_index has wrapped since, of the last.
Waited(n, i, v) == IF i <= v THEN (v - i) % n
                   ELSE v + (IF Wrap % n = 0 THEN n - i ELSE n - 1)

InRotation ==
    /\ rotation \in [of : Seq(All), gap : [All -> Nat]]
    /\ Len(rotation.of) <= Wrap
    /\ usage.balancing # "RoundRobin" => rotation.of = <<>>
    /\ \A i \in DOMAIN rotation.of :
         rotation.gap[rotation.of[i]] <= Waited(Len(rotation.of), i, rr)

\* Half-way through min_by_key the choice is the least of those looked at, and
\* as long as nobody else starts or ends what was read of a count still holds.
OfLeast(x) ==
    /\ x.step = "count" /\ x.next > 1 =>
         /\ x.at \in All /\ x.load = active[x.at]
         /\ \A i \in 1 .. x.next - 1 : x.load <= active[x.seen[i]]
    /\ x.step = "start" => \A i \in DOMAIN x.seen : active[x.at] <= active[x.seen[i]]

Weighed ==
    /\ calm \subseteq Readers
    /\ usage.balancing = "LeastConnections" => \A u \in calm : OfLeast(read[u])

-----------------------------------------------------------------------------
(* Round robin.                                                            *)

LEMMA SmallMod ==
  ASSUME NEW n \in Nat \ {0}, NEW a \in 0 .. n - 1
  PROVE  a % n = a
  <1>1. a = n * 0 + a /\ a \in Int /\ 0 \in Int
    OBVIOUS
  <1> QED
    BY <1>1, ModUnique

LEMMA SelfMod ==
  ASSUME NEW n \in Nat \ {0}
  PROVE  n % n = 0
  <1>1. n = n * 1 + 0 /\ n \in Int /\ 1 \in Int /\ 0 \in 0 .. n - 1
    OBVIOUS
  <1> QED
    BY <1>1, ModUnique

LEMMA WaitedIs ==
  ASSUME NEW n \in 1 .. Wrap, NEW i \in 1 .. n, NEW v \in 0 .. Wrap - 1
  PROVE  Waited(n, i, v) \in Nat /\ Waited(n, i, v) < Turns(n)
  <1>1. Wrap \in Nat \ {0} /\ n \in Nat \ {0} /\ v - i \in Int
    BY RoutedAssumption
  <1>2. (v - i) % n \in 0 .. n - 1
    BY <1>1, ModIs
  <1>3. CASE i <= v
    BY <1>1, <1>2, <1>3 DEF Waited, Turns
  <1>4. CASE ~ (i <= v)
    BY <1>1, <1>4 DEF Waited, Turns
  <1> QED
    BY <1>3, <1>4

\* Whoever is not picked may wait for one more.
LEMMA WaitedGrows ==
  ASSUME NEW n \in 1 .. Wrap, NEW i \in 1 .. n, NEW v \in 0 .. Wrap - 1, i # (v % n) + 1
  PROVE  Waited(n, i, v) + 1 <= Waited(n, i, (v + 1) % Wrap)
  <1>1. /\ Wrap \in Nat \ {0} /\ n \in Nat \ {0} /\ v \in Int /\ v - i \in Int
        /\ (v - i) + 1 \in Int
    BY RoutedAssumption
  <1>2. i # v + 1
    <2>1. ASSUME i = v + 1 PROVE FALSE
      <3>1. v \in 0 .. n - 1
        BY <1>1, <2>1
      <3> QED
        BY <1>1, <2>1, <3>1, SmallMod
    <2> QED
      BY <2>1
  <1>3. ((v - i) + 1) % n = ((v - i) % n) + 1 /\ (v - i) % n \in 0 .. n - 1
    <2>1. (v - i) % n # n - 1
      BY <1>1, ModBack
    <2> QED
      BY <1>1, <2>1, ModNext, ModIs
  <1>4. CASE v + 1 < Wrap
    <2>1. (v + 1) % Wrap = v + 1
      BY <1>1, <1>4, SmallMod
    <2>2. CASE i <= v
      <3>1. Waited(n, i, v) = (v - i) % n /\ Waited(n, i, v + 1) = ((v + 1) - i) % n
        BY <1>1, <2>2 DEF Waited
      <3>2. (v + 1) - i = (v - i) + 1
        BY <1>1
      <3> QED
        BY <1>3, <2>1, <3>1, <3>2
    <2>3. CASE ~ (i <= v)
      <3> DEFINE w == IF Wrap % n = 0 THEN n - i ELSE n - 1
      <3>1. ~ (i <= v + 1) /\ w \in Int
        BY <1>1, <1>2, <2>3
      <3>2. Waited(n, i, v) = v + w /\ Waited(n, i, v + 1) = (v + 1) + w
        BY <2>3, <3>1 DEF Waited
      <3> HIDE DEF w
      <3>3. (v + w) + 1 = (v + 1) + w
        BY <1>1, <3>1
      <3> QED
        BY <1>1, <2>1, <3>1, <3>2, <3>3
    <2> QED
      BY <2>2, <2>3
  <1>5. CASE ~ (v + 1 < Wrap)
    <2>1. v + 1 = Wrap /\ (v + 1) % Wrap = 0 /\ i <= v /\ ~ (i <= 0)
      BY <1>1, <1>2, <1>5, SelfMod
    <2>2. Waited(n, i, v) = (v - i) % n
      BY <2>1 DEF Waited
    <2>3. Waited(n, i, 0) = IF Wrap % n = 0 THEN n - i ELSE n - 1
      BY <1>1, <2>1 DEF Waited
    <2>4. (v - i) + 1 = Wrap - i /\ Wrap \in Int /\ Wrap - i \in Int
      BY <1>1, <2>1
    <2>5. Wrap % n = 0 => (Wrap - i) % n = n - i
      BY <1>1, <2>4, ModBack
    <2>6. (Wrap - i) % n \in 0 .. n - 1
      BY <1>1, <2>4, ModIs
    <2> QED
      BY <1>1, <1>3, <2>1, <2>2, <2>3, <2>4, <2>5, <2>6
  <1> QED
    BY <1>4, <1>5

\* Nobody but the two picks that advance it touches rr_index.
LEMMA UsageKept ==
  ASSUME [Next]_vars
  PROVE  /\ usage' = usage
         /\ \/ UNCHANGED <<rr, rotation>>
            \/ \E u \in Readers : PickRoundRobin(u) \/ PickRandom(u)
  BY DEF Next, vars, env, StartRead, Scan, PickRoundRobin, PickRandom, PickLeast, Count, PickNone,
         SelectFirst, Start, Selected, Finish, StartCheck, Ping, Store, EndCheck, CancelCheck, StopTask,
         SetHealthy, ServerTurns

LEMMA RoundRobinKeeps ==
  ASSUME IInv, InRotation, NEW u \in Readers, PickRoundRobin(u)
  PROVE  InRotation'
  <1> DEFINE list == read[u].seen
             n == Len(list)
             j == (rr % n) + 1
             r == list[j]
             g == [s \in All |-> IF s = r \/ \A i \in DOMAIN list : list[i] # s THEN 0
                                 ELSE IF list = rotation.of THEN rotation.gap[s] + 1
                                 ELSE 1]
  <1>1. /\ usage.balancing = "RoundRobin" /\ Scanned(u) /\ list # <<>>
        /\ rotation' = [of |-> list, gap |-> g] /\ rr' = (rr + 1) % Wrap
        /\ usage' = usage
    BY DEF PickRoundRobin, Picked, env
  <1>2. /\ list \in Seq(All) /\ read[u] \in Reads /\ rr \in 0 .. Wrap - 1
        /\ read[u].step = "scan" /\ Len(list) < read[u].next
        /\ read[u].next \in 1 .. usage.replicas + 1
        /\ usage.replicas \in 0 .. Wrap /\ Wrap \in Nat \ {0}
    BY <1>1, RoutedAssumption DEF IInv, Shape, Reads, ReaderOK, Fits, Scanned
  <1>3. n \in 1 .. Wrap /\ DOMAIN list = 1 .. n
    <2> HIDE DEF list
    <2>1. n \in Nat /\ n # 0 /\ DOMAIN list = 1 .. n
      BY <1>1, <1>2
    <2> HIDE DEF n
    <2>2. n < usage.replicas + 1
      BY <1>2, <2>1 DEF n
    <2> QED
      BY <1>2, <2>1, <2>2
  <1>4. j \in 1 .. n /\ r \in All
    <2> HIDE DEF list, n
    <2>1. n \in Nat \ {0} /\ rr \in Nat
      BY <1>2, <1>3
    <2>2. j \in 1 .. n
      BY <2>1, IndexFits
    <2> HIDE DEF j
    <2>3. list[j] \in All
      BY <1>2, <1>3, <2>2 DEF n
    <2> QED
      BY <2>2, <2>3
  <1> HIDE DEF list, n, j, r
  <1>5. g \in [All -> Nat]
    BY DEF InRotation
  <1>6. ASSUME NEW i \in 1 .. n PROVE g[list[i]] <= Waited(n, i, rr')
    <2>1. list[i] \in All /\ i \in DOMAIN list
      BY <1>2, <1>3
    <2>2. rr' \in 0 .. Wrap - 1
      <3>1. rr + 1 \in Int
        BY <1>2
      <3> QED
        BY <1>1, <1>2, <3>1, ModIs
    <2>3. Waited(n, i, rr') \in Nat /\ Waited(n, i, rr) \in Nat
      BY <1>2, <1>3, <2>2, WaitedIs
    <2>4. CASE list[i] = r
      BY <2>1, <2>3, <2>4
    <2>5. CASE list[i] # r
      <3>1. i # (rr % n) + 1
        BY <2>5 DEF j, r
      <3>2. Waited(n, i, rr) + 1 <= Waited(n, i, rr')
        BY <1>1, <1>2, <1>3, <3>1, WaitedGrows
      <3>3. g[list[i]] = IF list = rotation.of THEN rotation.gap[list[i]] + 1 ELSE 1
        BY <2>1, <2>5
      <3>4. CASE list = rotation.of
        <4>1. rotation.gap[list[i]] <= Waited(n, i, rr) /\ rotation.gap[list[i]] \in Nat
          BY <2>1, <3>4 DEF InRotation, n
        <4> QED
          BY <2>3, <3>2, <3>3, <3>4, <4>1
      <3>5. CASE list # rotation.of
        BY <2>3, <3>2, <3>3, <3>5
      <3> QED
        BY <3>4, <3>5
    <2> QED
      BY <2>4, <2>5
  <1>7. All' = All
    BY <1>1 DEF All
  <1> HIDE DEF g
  <1>8. rotation'.of = list /\ rotation'.gap = g
    BY <1>1
  <1> QED
    BY <1>1, <1>2, <1>3, <1>5, <1>6, <1>7, <1>8 DEF InRotation, n

LEMMA RotationKept ==
  ASSUME IInv, InRotation, [Next]_vars
  PROVE  InRotation'
  <1>1. usage' = usage /\ All' = All
    BY UsageKept DEF All
  <1>2. CASE UNCHANGED <<rr, rotation>>
    BY <1>1, <1>2 DEF InRotation
  <1>3. ASSUME NEW u \in Readers, PickRandom(u) PROVE InRotation'
    <2>1. usage.balancing = "Random" /\ rotation' = rotation
      BY <1>3 DEF PickRandom
    <2>2. rotation.of = <<>>
      BY <2>1 DEF InRotation
    <2> QED
      BY <1>1, <2>1, <2>2 DEF InRotation
  <1> QED
    BY <1>2, <1>3, RoundRobinKeeps, UsageKept

LEMMA RotationTells ==
  ASSUME IInv, InRotation
  PROVE  RotationFair
  <1> SUFFICES ASSUME NEW i \in DOMAIN rotation.of
               PROVE  rotation.gap[rotation.of[i]] < Turns(Len(rotation.of))
    BY DEF RotationFair
  <1> DEFINE n == Len(rotation.of)
  <1>1. /\ rotation.of \in Seq(All) /\ n <= Wrap /\ rr \in 0 .. Wrap - 1
        /\ rotation.gap[rotation.of[i]] <= Waited(n, i, rr)
        /\ Wrap \in Nat
    BY Unchanged DEF InRotation
  <1>2. n \in 1 .. Wrap /\ i \in 1 .. n /\ rotation.of[i] \in All
    BY <1>1
  <1>3. Waited(n, i, rr) \in Nat /\ Waited(n, i, rr) < Turns(n)
    BY <1>1, <1>2, WaitedIs
  <1>4. Turns(n) \in Nat
    BY <1>2 DEF Turns
  <1>5. rotation.gap[rotation.of[i]] \in Nat
    BY <1>2 DEF InRotation
  <1> QED
    BY <1>1, <1>3, <1>4, <1>5

-----------------------------------------------------------------------------
(* The counts.                                                             *)

\* Of the steps of a reader these two change who is counted.
Counts(u) == Start(u) \/ Finish(u)

\* What the others do to the record y of a reader, x after it.
Uncounted(y, x) == x = y \/ (y.step # "run" /\ (x.step # "run" \/ x.at = Primary))

LEMMA OthersUncounted ==
  ASSUME IInv, [Next]_vars, \A u \in Readers : ~Counts(u)
  PROVE  active' = active /\ \A v \in Readers : Uncounted(read[v], read'[v])
  <1> USE DEF Uncounted
  <1>1. read \in [Readers -> Reads] /\ \A u \in Readers : read[u] \in Reads
    BY DEF IInv, Shape
  <1>2. ASSUME read' = read PROVE \A v \in Readers : Uncounted(read[v], read'[v])
    BY <1>2
  <1>3. ASSUME NEW u \in Readers, NEW x, read' = [read EXCEPT ![u] = x],
               Uncounted(read[u], x)
        PROVE  \A v \in Readers : Uncounted(read[v], read'[v])
    BY <1>1, <1>3
  <1>4. ASSUME NEW u \in Readers, StartRead(u)
        PROVE  active' = active /\ \A v \in Readers : Uncounted(read[v], read'[v])
    <2> DEFINE x == [NotReading EXCEPT !.step = "scan"]
    <2>1. x.step = "scan" /\ read[u].step = "idle" /\ read' = [read EXCEPT ![u] = x]
      BY <1>4 DEF StartRead, NotReading
    <2> HIDE DEF x
    <2> QED
      BY <1>3, <1>4, <2>1 DEF StartRead
  <1>5. ASSUME NEW u \in Readers, Scan(u)
        PROVE  active' = active /\ \A v \in Readers : Uncounted(read[v], read'[v])
    <2> DEFINE r == read[u].next
               longer == IF healthy[r] THEN Append(read[u].seen, r) ELSE read[u].seen
               x == [read[u] EXCEPT !.next = r + 1, !.seen = longer]
    <2>1. read' = [read EXCEPT ![u] = x]
      BY <1>1, <1>5 DEF Scan
    <2> HIDE DEF r, longer
    <2>2. x.step = read[u].step /\ read[u].step = "scan"
      BY <1>1, <1>5 DEF Scan, Reads
    <2> HIDE DEF x
    <2> QED
      BY <1>3, <1>5, <2>1, <2>2 DEF Scan
  <1>6. ASSUME NEW u \in Readers, NEW r, Scanned(u), Choose(u, r)
        PROVE  \A v \in Readers : Uncounted(read[v], read'[v])
    <2> DEFINE x == [read[u] EXCEPT !.step = "start", !.at = r]
    <2>1. read' = [read EXCEPT ![u] = x]
      BY <1>1, <1>6 DEF Choose
    <2>2. x.step = "start" /\ read[u].step = "scan"
      BY <1>1, <1>6 DEF Scanned, Reads
    <2> HIDE DEF x
    <2> QED
      BY <1>3, <2>1, <2>2
  <1>7. ASSUME NEW u \in Readers, PickRoundRobin(u) \/ PickRandom(u)
        PROVE  active' = active /\ \A v \in Readers : Uncounted(read[v], read'[v])
    <2>1. active' = active /\ \E r : Scanned(u) /\ Choose(u, r)
      BY <1>7, Zenon DEF PickRoundRobin, PickRandom
    <2> QED
      BY <1>6, <2>1
  <1>8. ASSUME NEW u \in Readers, PickLeast(u)
        PROVE  active' = active /\ \A v \in Readers : Uncounted(read[v], read'[v])
    <2> DEFINE x == [read[u] EXCEPT !.step = "count", !.next = 1]
    <2>1. read' = [read EXCEPT ![u] = x]
      BY <1>1, <1>8 DEF PickLeast
    <2>2. x.step = "count" /\ read[u].step = "scan"
      BY <1>1, <1>8 DEF PickLeast, Scanned, Reads
    <2> HIDE DEF x
    <2> QED
      BY <1>3, <1>8, <2>1, <2>2 DEF PickLeast
  <1>9. ASSUME NEW u \in Readers, Count(u)
        PROVE  active' = active /\ \A v \in Readers : Uncounted(read[v], read'[v])
    <2> DEFINE i == read[u].next
               list == read[u].seen
               better == i = 1 \/ active[list[i]] < read[u].load
               st == IF i = Len(list) THEN "start" ELSE read[u].step
               at == IF better THEN list[i] ELSE read[u].at
               ld == IF better THEN active[list[i]] ELSE read[u].load
               x == [read[u] EXCEPT !.next = i + 1, !.step = st, !.at = at, !.load = ld]
    <2>1. read' = [read EXCEPT ![u] = x]
      BY <1>1, <1>9 DEF Count
    <2>2. read[u].step = "count" /\ st \in {"start", "count"}
      BY <1>9 DEF Count
    <2> HIDE DEF i, list, better, st, at, ld
    <2>3. x.step = st
      BY <1>1 DEF Reads
    <2> HIDE DEF x
    <2> QED
      BY <1>3, <1>9, <2>1, <2>2, <2>3 DEF Count
  <1>10. ASSUME NEW u \in Readers, PickNone(u)
         PROVE  active' = active /\ \A v \in Readers : Uncounted(read[v], read'[v])
    <2> DEFINE x == IF usage.fallback \/ All = {} THEN Running(Primary) ELSE NotReading
    <2>1. read' = [read EXCEPT ![u] = x]
      BY <1>10, RunningIs DEF PickNone
    <2>2. read[u].step = "scan" /\ (x.step # "run" \/ x.at = Primary)
      BY <1>10 DEF PickNone, Scanned, Running, NotReading
    <2> HIDE DEF x
    <2> QED
      BY <1>3, <1>10, <2>1, <2>2 DEF PickNone
  <1>11. ASSUME NEW u \in Readers, Selected(u)
         PROVE  active' = active /\ \A v \in Readers : Uncounted(read[v], read'[v])
    <2>1. read' = [read EXCEPT ![u] = NotReading] /\ read[u].step \in {"start", "first"}
          /\ NotReading.step = "idle"
      BY <1>11 DEF Selected, NotReading
    <2> QED
      BY <1>3, <1>11, <2>1 DEF Selected
  <1>18. ASSUME NEW u \in Readers, SelectFirst(u)
         PROVE  active' = active /\ \A v \in Readers : Uncounted(read[v], read'[v])
    <2>1. read' = [read EXCEPT ![u] = LastResort] /\ read[u].step = "scan"
          /\ LastResort.step = "first"
      BY <1>18, LastResortIs DEF SelectFirst, Scanned, LastResort
    <2> QED
      BY <1>3, <1>18, <2>1 DEF SelectFirst
  <1>12. ASSUME NEW k \in Checkers,
                StartCheck(k) \/ Ping(k) \/ Store(k) \/ EndCheck(k) \/ CancelCheck(k)
         PROVE  active' = active /\ read' = read
    BY <1>12 DEF StartCheck, Ping, Store, EndCheck, CancelCheck
  <1>13. ASSUME StopTask PROVE active' = active /\ read' = read
    BY <1>13 DEF StopTask
  <1>14. ASSUME NEW r, NEW b, SetHealthy(r, b) PROVE active' = active /\ read' = read
    BY <1>14 DEF SetHealthy
  <1>15. ASSUME NEW r, NEW b, ServerTurns(r, b) PROVE active' = active /\ read' = read
    BY <1>15 DEF ServerTurns
  <1>16. ASSUME UNCHANGED vars PROVE active' = active /\ read' = read
    BY <1>16 DEF vars
  <1> HIDE DEF Uncounted
  <1>17. (\A u \in Readers : ~Start(u) /\ ~Finish(u))
    BY DEF Counts
  <1> QED
    BY <1>2, <1>4, <1>5, <1>7, <1>8, <1>9, <1>10, <1>11, <1>12, <1>13, <1>14, <1>15, <1>16, <1>17,
       <1>18
       DEF Next

LEMMA StillReading ==
  ASSUME IInv, usage' = usage, \A v \in Readers : Uncounted(read[v], read'[v]), NEW r \in All
  PROVE  Reading(r)' = Reading(r)
  <1>1. r # Primary
    BY Unchanged DEF All, Primary
  <1> QED
    BY <1>1 DEF Reading, Uncounted

\* There are fewer reads than usize has values.
LEMMA ReadingFinite ==
  \A r : /\ IsFiniteSet(Reading(r)) /\ Cardinality(Reading(r)) \in Nat
         /\ Cardinality(Reading(r)) < Wrap
         /\ \A u \in Readers \ Reading(r) : Cardinality(Reading(r)) + 1 < Wrap
  <1> TAKE r
  <1>1. IsFiniteSet(Readers) /\ Cardinality(Readers) \in Nat /\ Cardinality(Readers) < Wrap
        /\ Wrap \in Nat
    BY RoutedAssumption, FS_CardinalityType
  <1>2. Reading(r) \in SUBSET Readers
    BY DEF Reading
  <1>3. /\ IsFiniteSet(Reading(r)) /\ Cardinality(Reading(r)) <= Cardinality(Readers)
        /\ Cardinality(Reading(r)) \in Nat
    BY <1>1, <1>2, FS_Subset, FS_CardinalityType
  <1>4. ASSUME NEW u \in Readers \ Reading(r) PROVE Cardinality(Reading(r)) + 1 < Wrap
    <2>1. Reading(r) \cup {u} \in SUBSET Readers
      BY <1>2
    <2>2. Cardinality(Reading(r) \cup {u}) = Cardinality(Reading(r)) + 1
      BY <1>3, FS_AddElement
    <2>3. Cardinality(Reading(r) \cup {u}) <= Cardinality(Readers)
      BY <1>1, <2>1, FS_Subset
    <2> QED
      BY <1>1, <1>3, <2>2, <2>3
  <1> QED
    BY <1>1, <1>3, <1>4

LEMMA StartExact ==
  ASSUME IInv, Exact, NEW u \in Readers, Start(u)
  PROVE  Exact'
  <1>1. /\ ReaderOK(read[u], steady[u], ever[u]) /\ ever[u] \subseteq All /\ read[u].step = "start"
        /\ read \in [Readers -> Reads]
    BY DEF IInv, Shape, Start
  <1>2. PICK r \in All : r = read[u].at
    BY <1>1 DEF ReaderOK, Chosen
  <1>3. read' = [read EXCEPT ![u] = Running(r)] /\ usage' = usage
    BY <1>2, RunningIs DEF Start, env
  <1>4. active' = [active EXCEPT ![r] = (active[r] + 1) % Wrap] /\ active \in [All -> 0 .. Wrap - 1]
    BY <1>2, Unchanged DEF Start
  <1>5. Running(r).step = "run" /\ Running(r).at = r
    BY DEF Running
  <1>6. u \in Readers \ Reading(r)
    BY <1>1 DEF Reading
  <1>7. Reading(r)' = Reading(r) \cup {u} /\ \A s \in All \ {r} : Reading(s)' = Reading(s)
    BY <1>1, <1>3, <1>5 DEF Reading
  <1>8. Cardinality(Reading(r)') = active[r] + 1 /\ active[r] + 1 < Wrap /\ active[r] \in Nat
    <2>1. IsFiniteSet(Reading(r)) /\ Cardinality(Reading(r)) \in Nat
      BY ReadingFinite
    <2>2. Cardinality(Reading(r)) + 1 < Wrap
      BY <1>6, ReadingFinite
    <2>3. Cardinality(Reading(r) \cup {u}) = Cardinality(Reading(r)) + 1
      BY <1>6, <2>1, FS_AddElement
    <2>4. active[r] = Cardinality(Reading(r))
      BY DEF Exact
    <2>5. Cardinality(Reading(r)') = Cardinality(Reading(r) \cup {u})
      BY <1>7
    <2> QED
      BY <2>1, <2>2, <2>3, <2>4, <2>5
  <1>9. (active[r] + 1) % Wrap = active[r] + 1
    BY <1>8, RoutedAssumption, SmallMod
  <1>10. ASSUME NEW s \in All PROVE active'[s] = Cardinality(Reading(s)')
    <2>1. CASE s = r
      BY <1>2, <1>4, <1>8, <1>9, <2>1
    <2>2. CASE s # r
      <3>1. active'[s] = active[s] /\ Reading(s)' = Reading(s)
        BY <1>4, <1>7, <2>2
      <3> QED
        BY <3>1 DEF Exact
    <2> QED
      BY <2>1, <2>2
  <1>11. All' = All
    BY <1>3 DEF All
  <1> QED
    BY <1>10, <1>11 DEF Exact

LEMMA FinishExact ==
  ASSUME IInv, Exact, NEW u \in Readers, Finish(u)
  PROVE  Exact'
  <1>1. /\ read[u].step = "run" /\ read \in [Readers -> Reads] /\ usage' = usage /\ All' = All
        /\ read' = [read EXCEPT ![u] = NotReading] /\ NotReading.step = "idle"
        /\ active \in [All -> 0 .. Wrap - 1]
    BY DEF IInv, Shape, Finish, NotReading, env, All
  <1>2. \A s \in All : s # Primary
    BY Unchanged DEF All, Primary
  <1>3. \A s \in All : Reading(s)' = Reading(s) \ {u}
    BY <1>1 DEF Reading
  <1>4. CASE read[u].at \in All
    <2> PICK r \in All : r = read[u].at
      BY <1>4
    <2>1. active' = [active EXCEPT ![r] = (active[r] - 1) % Wrap]
      BY <1>2, <1>4 DEF Finish
    <2>2. u \in Reading(r) /\ \A s \in All \ {r} : u \notin Reading(s)
      BY <1>1 DEF Reading
    <2>3. Cardinality(Reading(r)') = active[r] - 1 /\ active[r] \in 0 .. Wrap - 1
      BY <1>1, <1>3, <1>4, <2>2, ReadingFinite, FS_RemoveElement DEF Exact
    <2>4. active[r] # 0
      BY <1>4, <2>2, ReadingFinite, FS_EmptySet DEF Exact
    <2>5. active[r] - 1 \in 0 .. Wrap - 1 /\ Wrap \in Nat \ {0}
      BY <2>3, <2>4, RoutedAssumption
    <2>6. (active[r] - 1) % Wrap = active[r] - 1
      BY <2>5, SmallMod
    <2>7. ASSUME NEW s \in All PROVE active'[s] = Cardinality(Reading(s)')
      <3>1. CASE s = r
        BY <1>1, <1>4, <2>1, <2>3, <2>6, <3>1
      <3>2. CASE s # r
        <4>1. active'[s] = active[s] /\ Reading(s)' = Reading(s)
          <5>1. active'[s] = active[s]
            BY <1>1, <2>1, <3>2
          <5>2. u \notin Reading(s) /\ Reading(s)' = Reading(s) \ {u}
            BY <1>3, <2>2, <3>2
          <5> QED
            BY <5>1, <5>2
        <4> QED
          BY <4>1 DEF Exact
      <3> QED
        BY <3>1, <3>2
    <2> QED
      BY <1>1, <2>7 DEF Exact
  <1>5. CASE read[u].at \notin All
    <2>1. \A s \in All : Reading(s)' = Reading(s) /\ active'[s] = active[s]
      <3>1. \A s \in All : u \notin Reading(s)
        BY <1>5 DEF Reading
      <3>2. active' = active
        BY <1>1, <1>5 DEF Finish
      <3> QED
        BY <1>3, <3>1, <3>2
    <2> QED
      BY <1>1, <2>1 DEF Exact
  <1> QED
    BY <1>4, <1>5

LEMMA ExactKept ==
  ASSUME IInv, Exact, [Next]_vars
  PROVE  Exact'
  <1>1. CASE \E u \in Readers : Counts(u)
    BY <1>1, StartExact, FinishExact DEF Counts
  <1>2. CASE \A u \in Readers : ~Counts(u)
    <2>1. active' = active /\ \A v \in Readers : Uncounted(read[v], read'[v])
      BY <1>2, OthersUncounted
    <2>2. usage' = usage /\ All' = All
      BY UsageKept DEF All
    <2>3. \A r \in All : Reading(r)' = Reading(r)
      BY <2>1, <2>2, StillReading
    <2> QED
      BY <2>1, <2>2, <2>3 DEF Exact
  <1> QED
    BY <1>1, <1>2

-----------------------------------------------------------------------------
(* Least connections.                                                      *)

\* A step that changes one reader and no count.
LEMMA OneWeighed ==
  ASSUME IInv, Weighed, NEW u \in Readers, NEW x, read' = [read EXCEPT ![u] = x],
         active' = active, usage' = usage, calm' \subseteq calm \cup {u},
         u \in calm' /\ usage.balancing = "LeastConnections" => OfLeast(x)
  PROVE  Weighed'
  <1>1. read \in [Readers -> Reads] /\ calm' \subseteq Readers /\ All' = All
    BY DEF IInv, Shape, Weighed, All
  <1>2. ASSUME usage.balancing = "LeastConnections", NEW v \in calm' PROVE OfLeast(read[v])'
    <2>1. OfLeast(read'[v])
      <3>1. CASE v = u
        BY <1>1, <1>2, <3>1
      <3>2. CASE v # u
        <4>1. read'[v] = read[v] /\ v \in calm
          BY <1>1, <1>2, <3>2
        <4> QED
          BY <1>2, <4>1 DEF Weighed
      <3> QED
        BY <3>1, <3>2
    <2> QED
      BY <1>1, <2>1 DEF OfLeast
  <1> QED
    BY <1>1, <1>2 DEF Weighed

LEMMA CountWeighed == ASSUME IInv, Weighed, NEW u \in Readers, Count(u) PROVE Weighed'
  <1>1. /\ read[u] \in Reads /\ ReaderOK(read[u], steady[u], ever[u]) /\ read[u].step = "count"
        /\ read \in [Readers -> Reads] /\ usage' = usage /\ active' = active /\ calm' = calm
    BY DEF IInv, Shape, Count, env
  <1>2. PICK i, list, at, load, y :
           /\ i = read[u].next /\ list = read[u].seen /\ at = read[u].at /\ load = read[u].load
           /\ y = read[u]
    OBVIOUS
  <1> DEFINE better == i = 1 \/ active[list[i]] < load
             x == [y EXCEPT !.next = i + 1,
                            !.step = IF i = Len(list) THEN "start" ELSE @,
                            !.at   = IF better THEN list[i] ELSE @,
                            !.load = IF better THEN active[list[i]] ELSE @]
  <1>3. read' = [read EXCEPT ![u] = x]
    BY <1>1, <1>2 DEF Count
  <1>4. /\ usage.replicas \in Nat /\ list \in Seq(All) /\ i \in 1 .. Len(list) /\ load \in Int
    BY <1>1, <1>2, Unchanged DEF Reads, ReaderOK, Fits
  <1>5. DOMAIN list = 1 .. Len(list) /\ \A k \in 1 .. Len(list) : list[k] \in All
    BY <1>4
  <1>6. \A k \in 1 .. Len(list) : active[list[k]] \in Int
    BY <1>5, Unchanged
  <1>7. /\ x.next = i + 1 /\ x.seen = list
        /\ x.step = (IF i = Len(list) THEN "start" ELSE "count")
        /\ x.at = (IF better THEN list[i] ELSE at)
        /\ x.load = (IF better THEN active[list[i]] ELSE load)
    BY <1>1, <1>2 DEF Reads
  <1> HIDE DEF x
  <1>8. ASSUME u \in calm, usage.balancing = "LeastConnections" PROVE OfLeast(x)
    <2>1. i # 1 => /\ at \in All /\ load = active[at]
                   /\ \A k \in 1 .. i - 1 : load <= active[list[k]]
      BY <1>1, <1>2, <1>4, <1>8 DEF Weighed, OfLeast
    <2>2. x.at \in All /\ x.load = active[x.at] /\ x.load \in Int
      BY <1>4, <1>5, <1>6, <1>7, <2>1
    <2>3. ASSUME NEW k \in 1 .. i PROVE x.load <= active[list[k]]
      <3>1. k \in 1 .. Len(list) /\ active[list[k]] \in Int /\ active[list[i]] \in Int
        BY <1>4, <1>6
      <3>2. CASE k = i
        BY <1>4, <1>7, <3>1, <3>2
      <3>3. CASE k # i
        <4>1. i # 1 /\ k \in 1 .. i - 1
          BY <1>4, <3>3
        <4>2. load <= active[list[k]]
          BY <2>1, <4>1
        <4> QED
          BY <1>4, <1>7, <3>1, <4>1, <4>2
      <3> QED
        BY <3>2, <3>3
    <2>4. CASE i = Len(list)
      <3>1. \A k \in DOMAIN x.seen : active[x.at] <= active[x.seen[k]]
        BY <1>5, <1>7, <2>2, <2>3, <2>4
      <3> QED
        BY <1>7, <2>4, <3>1 DEF OfLeast
    <2>5. CASE i # Len(list)
      <3>1. x.next - 1 = i
        BY <1>4, <1>7
      <3> QED
        BY <1>7, <2>2, <2>3, <2>5, <3>1 DEF OfLeast
    <2> QED
      BY <2>4, <2>5
  <1> QED
    BY <1>1, <1>3, <1>8, OneWeighed

LEMMA WeighedKept ==
  ASSUME IInv, Weighed, [Next]_vars
  PROVE  Weighed'
  <1>1. read \in [Readers -> Reads] /\ usage' = usage /\ All' = All
    BY UsageKept DEF IInv, Shape, All
  <1>2. ASSUME UNCHANGED <<usage, active, read, calm>> PROVE Weighed'
    BY <1>2, <1>1 DEF Weighed, OfLeast
  <1>3. ASSUME NEW u \in Readers, NEW x, x.step \notin {"count", "start"},
               read' = [read EXCEPT ![u] = x], active' = active,
               \A v \in calm' : v = u \/ v \in calm
        PROVE  Weighed'
    <2>1. OfLeast(x) /\ calm' \subseteq calm \cup {u}
      BY <1>3 DEF OfLeast
    <2> QED
      BY <1>1, <1>3, <2>1, OneWeighed
  <1>4. ASSUME NEW u \in Readers, StartRead(u) PROVE Weighed'
    <2>1. PICK x : x = [NotReading EXCEPT !.step = "scan"]
      OBVIOUS
    <2>2. read' = [read EXCEPT ![u] = x] /\ (\A v \in calm' : v = u \/ v \in calm) /\ active' = active
      BY <1>4, <2>1 DEF StartRead
    <2>3. x.step \notin {"count", "start"}
      BY <2>1 DEF NotReading
    <2> QED
      BY <1>3, <1>4, <2>2, <2>3
  <1>5. ASSUME NEW u \in Readers, Scan(u) PROVE Weighed'
    <2>1. PICK r, longer : /\ r = read[u].next
                           /\ longer = IF healthy[r] THEN Append(read[u].seen, r) ELSE read[u].seen
      OBVIOUS
    <2>2. PICK x : x = [read[u] EXCEPT !.next = r + 1, !.seen = longer]
      OBVIOUS
    <2>3. read' = [read EXCEPT ![u] = x]
      BY <1>1, <1>5, <2>1, <2>2 DEF Scan
    <2>4. x.step \notin {"count", "start"}
      BY <1>1, <1>5, <2>2 DEF Scan, Reads
    <2>5. (\A v \in calm' : v = u \/ v \in calm) /\ active' = active
      BY <1>5 DEF Scan
    <2> QED
      BY <1>3, <1>5, <2>3, <2>4, <2>5
  <1>6. ASSUME NEW u \in Readers, PickRoundRobin(u) \/ PickRandom(u) PROVE Weighed'
    <2>1. usage.balancing # "LeastConnections" /\ calm' = calm
      BY <1>6 DEF PickRoundRobin, PickRandom
    <2> QED
      BY <1>1, <2>1 DEF Weighed
  <1>7. ASSUME NEW u \in Readers, PickLeast(u) PROVE Weighed'
    <2> DEFINE x == [read[u] EXCEPT !.step = "count", !.next = 1]
    <2>1. read' = [read EXCEPT ![u] = x]
      BY <1>1, <1>7 DEF PickLeast
    <2>2. x.step = "count" /\ x.next = 1
      BY <1>1 DEF Reads
    <2> HIDE DEF x
    <2>3. OfLeast(x)
      BY <2>2 DEF OfLeast
    <2> QED
      BY <1>1, <1>7, <2>1, <2>3, OneWeighed DEF PickLeast
  <1>8. ASSUME NEW u \in Readers, PickNone(u) PROVE Weighed'
    <2>1. PICK x : /\ x = IF usage.fallback \/ All = {} THEN Running(Primary) ELSE NotReading
                   /\ read' = [read EXCEPT ![u] = x]
      BY <1>8, RunningIs DEF PickNone
    <2>2. x.step \in {"run", "idle"}
      BY <2>1 DEF Running, NotReading
    <2> QED
      BY <1>3, <1>8, <2>1, <2>2 DEF PickNone
  <1>16. ASSUME NEW u \in Readers, SelectFirst(u) PROVE Weighed'
    <2>1. read' = [read EXCEPT ![u] = LastResort] /\ LastResort.step \notin {"count", "start"}
      BY <1>16, LastResortIs DEF SelectFirst, LastResort
    <2> QED
      BY <1>3, <1>16, <2>1 DEF SelectFirst
  <1>9. ASSUME NEW u \in Readers, Selected(u) PROVE Weighed'
    <2>1. PICK x : x = NotReading
      OBVIOUS
    <2>2. read' = [read EXCEPT ![u] = x] /\ (\A v \in calm' : v = u \/ v \in calm) /\ active' = active
      BY <1>9, <2>1 DEF Selected, Forget
    <2>3. x.step \notin {"count", "start"}
      BY <2>1 DEF NotReading
    <2> QED
      BY <1>3, <1>9, <2>2, <2>3
  <1>10. ASSUME NEW u \in Readers, Start(u) \/ Finish(u) PROVE Weighed'
    <2>1. calm' = {}
      BY <1>10 DEF Start, Finish, Forget
    <2> QED
      BY <2>1 DEF Weighed
  <1>11. ASSUME NEW k \in Checkers,
                StartCheck(k) \/ Ping(k) \/ Store(k) \/ EndCheck(k) \/ CancelCheck(k)
         PROVE  UNCHANGED <<usage, active, read, calm>>
    BY <1>11 DEF StartCheck, Ping, Store, EndCheck, CancelCheck
  <1>12. ASSUME StopTask PROVE UNCHANGED <<usage, active, read, calm>>
    BY <1>12 DEF StopTask
  <1>13. ASSUME NEW r, NEW b, SetHealthy(r, b) PROVE UNCHANGED <<usage, active, read, calm>>
    BY <1>13 DEF SetHealthy
  <1>14. ASSUME NEW r, NEW b, ServerTurns(r, b) PROVE UNCHANGED <<usage, active, read, calm>>
    BY <1>14 DEF ServerTurns
  <1>15. ASSUME UNCHANGED vars PROVE UNCHANGED <<usage, active, read, calm>>
    BY <1>15 DEF vars
  <1> QED
    BY <1>2, <1>4, <1>5, <1>6, <1>7, <1>8, <1>9, <1>10, <1>11, <1>12, <1>13, <1>14, <1>15,
       <1>16, CountWeighed DEF Next

-----------------------------------------------------------------------------
LEMMA InitBalance == Init => Exact /\ InRotation /\ Weighed
  <1> SUFFICES ASSUME Init PROVE Exact /\ InRotation /\ Weighed
    OBVIOUS
  <1>1. usage.replicas \in Nat /\ Wrap \in Nat \ {0}
    BY UsageType, RoutedAssumption DEF Init
  <1>2. Exact
    <2>1. \A r \in All : Reading(r) = {} /\ active[r] = 0
      BY DEF Init, Reading, NotReading
    <2> QED
      BY <2>1, FS_EmptySet DEF Exact
  <1>3. InRotation
    <2>1. rotation = [of |-> <<>>, gap |-> [r \in All |-> 0]]
      BY DEF Init
    <2>2. rotation.of = <<>> /\ rotation.gap = [r \in All |-> 0]
      BY <2>1
    <2>3. rotation \in [of : Seq(All), gap : [All -> Nat]]
      BY <2>1
    <2> QED
      BY <1>1, <2>2, <2>3 DEF InRotation
  <1>4. Weighed
    BY DEF Init, Weighed
  <1> QED
    BY <1>2, <1>3, <1>4

LEMMA BalanceTells ==
  ASSUME IInv, Exact, InRotation, Weighed
  PROVE  Balanced
  <1>1. CountsTrue
    <2>1. ASSUME NEW r \in All PROVE active[r] = Cardinality(Reading(r)) % Wrap
      <3>1. Cardinality(Reading(r)) \in 0 .. Wrap - 1 /\ Wrap \in Nat \ {0}
        BY ReadingFinite, RoutedAssumption
      <3> QED
        BY <3>1, SmallMod DEF Exact
    <2> QED
      BY <2>1 DEF CountsTrue
  <1>2. LeastLoaded
    <2> SUFFICES ASSUME NEW u \in calm, usage.balancing = "LeastConnections",
                        read[u].step = "start", NEW i \in DOMAIN read[u].seen
                 PROVE  Cardinality(Reading(read[u].at)) <= Cardinality(Reading(read[u].seen[i]))
      BY DEF LeastLoaded
    <2>1. /\ u \in Readers /\ read[u] \in Reads
          /\ ReaderOK(read[u], steady[u], ever[u]) /\ ever[u] \subseteq All
      BY DEF IInv, Shape, Weighed
    <2>2. read[u].at \in All
      BY <2>1 DEF ReaderOK, Chosen
    <2>3. read[u].seen \in Seq(All)
      BY <2>1 DEF Reads
    <2>4. read[u].seen[i] \in All
      BY <2>3
    <2>5. active[read[u].at] <= active[read[u].seen[i]]
      BY DEF Weighed, OfLeast
    <2> QED
      BY <2>2, <2>4, <2>5 DEF Exact
  <1> QED
    BY <1>1, <1>2, RotationTells DEF Balanced

(* Reads are spread as the balancing says: round robin passes no healthy   *)
(* replica over for longer than a round (two when usize wraps), the least  *)
(* connections are those of a replica that has the fewest reads running    *)
(* unless other reads came or went meanwhile, and a replica's count is     *)
(* that of its reads (pick_healthy, InFlight).                             *)
THEOREM SpreadFairly == Spec => []Balanced
  <1>1. Init => IInv /\ Exact /\ InRotation /\ Weighed
    BY InitIInv, InitBalance
  <1>2. IInv /\ Exact /\ InRotation /\ Weighed /\ [Next]_vars
          => (IInv /\ Exact /\ InRotation /\ Weighed)'
    BY NextIInv, ExactKept, RotationKept, WeighedKept
  <1>3. IInv /\ Exact /\ InRotation /\ Weighed => Balanced
    BY BalanceTells
  <1> QED
    BY <1>1, <1>2, <1>3, PTL DEF Spec

=============================================================================
