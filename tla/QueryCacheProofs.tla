-------------------------- MODULE QueryCacheProofs --------------------------
(* For any keys, tags and threads, in every usage: nothing is cached out   *)
(* of the reach of invalidate_tag, and no invalidated entry outlives the   *)
(* operations under way, apart from the tags under which a set was raced   *)
(* by the clean-up that follows an earlier drop of its key.                *)
EXTENDS QueryCache, FiniteSetTheorems, TLAPS

(* The inductive invariant. *)
Shape == /\ usage \in Usages
         /\ entries \in [Keys -> Entries \cup {None}]
         /\ index \in [Tags -> SUBSET Keys]
         /\ call \in [Threads -> Calls]

\* Only the threads of the usage are in the middle of an operation, ...
Busy == \A i \in Threads : call[i] # Idle => i \in usage.threads

\* ... an entry whose set has not returned is the one that set is about, and
\* is not counted among the invalidated, ...
Setting == \A k \in Cached : entries[k].setter # None =>
              /\ call[entries[k].setter] = [op |-> "set", key |-> k, tags |-> entries[k].tags]
              /\ entries[k].invalid = {}

\* ... and what a clean-up is about to unlist is not cached, or still being
\* set, or raced.
Unlisting == \A k \in Cached : entries[k].setter = None =>
                \A t \in entries[k].tags \ entries[k].raced : \A j \in Threads : ~CleansUp(j, t, k)

\* An invalidation is about to drop k.
Doomed(k) == \E i \in Threads : call[i].op = "invalidate" /\ k \in call[i].keys

Listed == \A k \in Cached : \A t \in entries[k].tags \ entries[k].raced :
             k \in index[t] \/ entries[k].setter # None \/ Doomed(k)

Victim == \A k \in Cached : entries[k].invalid \subseteq entries[k].raced \/ Doomed(k)

Kept == Len <= MaxEntries \/ (MaxEntries = 0 /\ Len = 1)

IInv == Shape /\ Busy /\ Setting /\ Unlisting /\ Listed /\ Victim

-----------------------------------------------------------------------------
LEMMA InitIInv == Init => IInv
  <1> SUFFICES ASSUME Init PROVE IInv
    OBVIOUS
  <1>1. Cached = {} /\ \A k \in Cached : FALSE
    BY DEF Init, Cached
  <1>2. Shape
    BY DEF Init, Shape, Calls
  <1>3. \A i \in Threads : call[i] = Idle /\ call[i].op = "idle"
    BY DEF Init, Idle
  <1>4. Busy /\ Setting /\ Unlisting /\ Listed /\ Victim
    BY <1>1, <1>3 DEF Init, Busy, Setting, Unlisting, Listed, Victim
  <1> QED
    BY <1>2, <1>4 DEF IInv

\* The operation a thread is in the middle of.
LEMMA CallShape ==
  ASSUME Shape, NEW i \in Threads
  PROVE  /\ call[i] \in Calls
         /\ call[i].op = "idle" => call[i] = Idle
         /\ call[i].op = "set" => /\ call[i] = [op |-> "set", key |-> call[i].key, tags |-> call[i].tags]
                                  /\ call[i].key \in Keys /\ call[i].tags \in SUBSET Tags
         /\ call[i].op = "invalidate" => call[i].tag \in Tags /\ call[i].keys \in SUBSET Keys
         /\ call[i].op = "prune_index" => call[i].pairs \in SUBSET (Tags \X Keys)
         /\ call[i].op = "prune" => call[i].keys \in SUBSET Keys
  BY DEF Shape, Calls, Idle

\* A cached entry.
LEMMA EntryShape ==
  ASSUME Shape, NEW k \in Cached
  PROVE  k \in Keys /\ entries[k] \in Entries /\ entries[k] # None
  BY DEF Shape, Cached

-----------------------------------------------------------------------------
(* The steps.                                                              *)

LEMMA SetEntryIInv ==
  ASSUME IInv, NEW i \in Threads, NEW k \in Keys, NEW T \in SUBSET Tags, SetEntry(i, k, T)
  PROVE  IInv'
  <1> DEFINE op == [op |-> "set", key |-> k, tags |-> T]
  <1>1. Shape /\ i \in usage.threads /\ call[i] = Idle /\ call[i].op = "idle" /\ T \in usage.tagSets
    BY DEF IInv, SetEntry, Ready, Idle
  <1>2. PICK E \in Victims(k) :
          /\ entries' = [x \in Keys |-> IF x = k THEN Entry(T, i) ELSE IF x \in E THEN None ELSE entries[x]]
          /\ index' = Unlist(E)
    BY DEF SetEntry
  <1>3. E \in SUBSET Cached /\ k \notin E
    BY DEF Victims, Cached
  <1>4. usage' = usage /\ call' = [call EXCEPT ![i] = op]
    BY DEF SetEntry
  <1>5. call'[i] = op /\ \A j \in Threads : j # i => call'[j] = call[j]
    BY <1>1, <1>4 DEF Shape
  <1>6. Entry(T, i) \in Entries /\ Entry(T, i).tags = T /\ Entry(T, i).setter = i
          /\ Entry(T, i).invalid = {} /\ i # None
    BY CacheAssumption DEF Entry, Entries
  <1>7. entries'[k] = Entry(T, i)
    BY <1>2
  <1>8. \A x \in Cached' : x = k \/ (x # k /\ x \in Cached /\ x \notin E /\ entries'[x] = entries[x])
    BY <1>2 DEF Cached
  <1>9. \A t \in Tags : /\ index'[t] \subseteq index[t]
                        /\ \A x \in index[t] : x \notin E => x \in index'[t]
    BY <1>2 DEF Unlist
  <1>10. \A x : Doomed(x)' <=> Doomed(x)
    BY <1>1, <1>5 DEF Doomed
  <1>11. \A j \in Threads : \A t, x : CleansUp(j, t, x)' <=> CleansUp(j, t, x)
    BY <1>1, <1>5 DEF CleansUp
  <1>12. Shape'
    <2>1. entries' \in [Keys -> Entries \cup {None}]
      BY <1>1, <1>2, <1>6 DEF Shape
    <2>2. index' \in [Tags -> SUBSET Keys]
      BY <1>1, <1>2 DEF Shape, Unlist
    <2>3. call' \in [Threads -> Calls]
      BY <1>1, <1>4 DEF Shape, Calls
    <2> QED
      BY <2>1, <2>2, <2>3, <1>1, <1>4 DEF Shape
  <1>13. Busy'
    BY <1>1, <1>4, <1>5 DEF IInv, Busy
  <1>14. Setting'
    <2> SUFFICES ASSUME NEW x \in Cached', entries'[x].setter # None
                 PROVE  /\ call'[entries'[x].setter] = [op |-> "set", key |-> x, tags |-> entries'[x].tags]
                        /\ entries'[x].invalid = {}
      BY DEF Setting
    <2>1. CASE x = k
      BY <2>1, <1>5, <1>6, <1>7
    <2>2. CASE x # k
      <3>1. x \in Cached /\ entries'[x] = entries[x]
        BY <2>2, <1>8
      <3>2. /\ call[entries[x].setter] = [op |-> "set", key |-> x, tags |-> entries[x].tags]
            /\ entries[x].invalid = {}
        BY <3>1 DEF IInv, Setting
      <3>3. entries[x].setter \in Threads /\ entries[x].setter # i
        BY <1>1, <3>1, <3>2, EntryShape DEF Entries, Idle
      <3> QED
        BY <3>1, <3>2, <3>3, <1>5
    <2> QED
      BY <2>1, <2>2
  <1>16. Unlisting'
    BY <1>6, <1>7, <1>8, <1>11 DEF IInv, Unlisting
  <1>17. Listed'
    <2> SUFFICES ASSUME NEW x \in Cached', NEW t \in entries'[x].tags \ entries'[x].raced, x # k
                 PROVE  x \in index'[t] \/ entries'[x].setter # None \/ Doomed(x)'
      BY <1>6, <1>7 DEF Listed
    <2>1. x \in Cached /\ x \notin E /\ entries'[x] = entries[x]
      BY <1>8
    <2>2. t \in Tags
      BY <1>1, <2>1, EntryShape DEF Entries
    <2>3. x \in index[t] \/ entries[x].setter # None \/ Doomed(x)
      BY <2>1 DEF IInv, Listed
    <2> QED
      BY <2>1, <2>2, <2>3, <1>9, <1>10
  <1>18. Victim'
    BY <1>6, <1>7, <1>8, <1>10 DEF IInv, Victim
  <1> QED
    BY <1>12, <1>13, <1>14, <1>16, <1>17, <1>18 DEF IInv

\* What every step of a thread shares: its own call and no other changes.
LEMMA OneCall ==
  ASSUME IInv, NEW i \in Threads, i \in usage.threads, NEW c \in Calls,
         usage' = usage, call' = [call EXCEPT ![i] = c],
         entries' \in [Keys -> Entries \cup {None}], index' \in [Tags -> SUBSET Keys]
  PROVE  /\ Shape' /\ Busy'
         /\ call'[i] = c /\ \A j \in Threads : j # i => call'[j] = call[j]
  <1>1. Shape /\ Busy
    BY DEF IInv
  <1>2. call'[i] = c /\ \A j \in Threads : j # i => call'[j] = call[j]
    BY <1>1 DEF Shape
  <1>3. call' \in [Threads -> Calls]
    BY <1>1 DEF Shape
  <1>4. Shape'
    BY <1>1, <1>3 DEF Shape
  <1>5. Busy'
    BY <1>1, <1>2 DEF Busy
  <1> QED
    BY <1>1, <1>2, <1>4, <1>5

\* ... and a thread in the middle of an operation is one of the usage.
LEMMA InUsage ==
  ASSUME IInv, NEW i \in Threads, call[i].op # "idle"
  PROVE  i \in usage.threads
  BY DEF IInv, Busy, Idle

LEMMA SetIndexIInv ==
  ASSUME IInv, NEW i \in Threads, SetIndex(i)
  PROVE  IInv'
  <1> DEFINE k == call[i].key
             T == call[i].tags
             R == {t \in T : \E j \in Threads : CleansUp(j, t, k)}
  <1>1. Shape /\ call[i].op = "set" /\ i \in usage.threads
    BY InUsage DEF IInv, SetIndex
  <1>2. k \in Keys /\ T \in SUBSET Tags /\ call[i] = [op |-> "set", key |-> k, tags |-> T]
    BY <1>1, CallShape
  <1>3. /\ index' = [t \in Tags |-> IF t \in T THEN index[t] \cup {k} ELSE index[t]]
        /\ entries' = IF entries[k] # None /\ entries[k].setter = i
                      THEN [entries EXCEPT ![k].setter = None, ![k].raced = R] ELSE entries
        /\ usage' = usage /\ call' = [call EXCEPT ![i] = Idle]
    BY DEF SetIndex
  <1>4. index' \in [Tags -> SUBSET Keys]
    BY <1>1, <1>2, <1>3 DEF Shape
  <1>5. entries' \in [Keys -> Entries \cup {None}]
    <2>1. R \subseteq Tags
      BY <1>2
    <2> HIDE DEF R
    <2> QED
      BY <1>1, <1>2, <1>3, <2>1 DEF Shape, Entries
  <1>6. Idle \in Calls /\ Idle.op = "idle"
    BY DEF Calls, Idle
  <1>7. /\ Shape' /\ Busy'
        /\ call'[i] = Idle /\ \A j \in Threads : j # i => call'[j] = call[j]
    BY <1>1, <1>3, <1>4, <1>5, <1>6, OneCall
  <1>8. \A x \in Cached' : /\ x \in Cached /\ entries'[x].tags = entries[x].tags
                           /\ entries'[x].invalid = entries[x].invalid
                           /\ entries[x].setter # i => entries'[x] = entries[x]
                           /\ entries[x].setter = i /\ x = k =>
                                 entries'[x].setter = None /\ entries'[x].raced = R
    <2> HIDE DEF R
    <2> QED
      BY <1>1, <1>2, <1>3, CacheAssumption DEF Cached, Shape, Entries
  <1>9. \A x \in Cached : entries[x].setter = i =>
                             x = k /\ entries[x].tags = T /\ entries[x].invalid = {}
    <2> SUFFICES ASSUME NEW x \in Cached, entries[x].setter = i
                 PROVE  x = k /\ entries[x].tags = T /\ entries[x].invalid = {}
      OBVIOUS
    <2>1. /\ call[i] = [op |-> "set", key |-> x, tags |-> entries[x].tags]
          /\ entries[x].invalid = {}
      BY CacheAssumption DEF IInv, Setting
    <2>2. call[i].key = x /\ call[i].tags = entries[x].tags
      BY <2>1
    <2> QED
      BY <2>1, <2>2
  <1>10. \A x : Doomed(x)' <=> Doomed(x)
    BY <1>1, <1>6, <1>7 DEF Doomed
  <1>11. Setting'
    BY <1>1, <1>7, <1>8, <1>9, EntryShape DEF IInv, Setting, Entries
  <1>12. \A j \in Threads : \A t, x : CleansUp(j, t, x)' => CleansUp(j, t, x)
    BY <1>6, <1>7 DEF CleansUp
  <1>13. Unlisting'
    <2> SUFFICES ASSUME NEW x \in Cached', entries'[x].setter = None,
                        NEW t \in entries'[x].tags \ entries'[x].raced, NEW j \in Threads
                 PROVE  ~CleansUp(j, t, x)'
      BY DEF Unlisting
    <2>1. CASE entries[x].setter = i
      <3>1. x = k /\ t \in T /\ t \notin R
        BY <2>1, <1>8, <1>9
      <3> QED
        BY <3>1, <1>12
    <2>2. CASE entries[x].setter # i
      <3>1. x \in Cached /\ entries'[x] = entries[x]
        BY <2>2, <1>8
      <3> QED
        BY <3>1, <1>12 DEF IInv, Unlisting
    <2> QED
      BY <2>1, <2>2
  <1>14. Listed'
    <2> SUFFICES ASSUME NEW x \in Cached', NEW t \in entries'[x].tags \ entries'[x].raced
                 PROVE  x \in index'[t] \/ entries'[x].setter # None \/ Doomed(x)'
      BY DEF Listed
    <2>1. x \in Cached /\ t \in entries[x].tags /\ t \in Tags
      BY <1>1, <1>8, EntryShape DEF Entries
    <2>2. CASE entries[x].setter = i
      BY <2>1, <2>2, <1>3, <1>9
    <2>3. CASE entries[x].setter # i
      <3>1. entries'[x] = entries[x]
        BY <2>3, <1>8
      <3>2. x \in index[t] \/ entries[x].setter # None \/ Doomed(x)
        BY <2>1, <3>1 DEF IInv, Listed
      <3> QED
        BY <2>1, <3>1, <3>2, <1>3, <1>10
    <2> QED
      BY <2>2, <2>3
  <1>15. Victim'
    <2> SUFFICES ASSUME NEW x \in Cached'
                 PROVE  entries'[x].invalid \subseteq entries'[x].raced \/ Doomed(x)'
      BY DEF Victim
    <2>1. CASE entries[x].setter = i
      BY <2>1, <1>8, <1>9
    <2>2. CASE entries[x].setter # i
      BY <2>2, <1>8, <1>10 DEF IInv, Victim
    <2> QED
      BY <2>1, <2>2
  <1> QED
    BY <1>7, <1>11, <1>13, <1>14, <1>15 DEF IInv

LEMMA InvalidateIndexIInv ==
  ASSUME IInv, NEW i \in Threads, NEW t \in Tags, InvalidateIndex(i, t)
  PROVE  IInv'
  <1> DEFINE op == [op |-> "invalidate", tag |-> t, keys |-> index[t]]
  <1>1. Shape /\ i \in usage.threads /\ call[i] = Idle /\ call[i].op = "idle"
    BY DEF IInv, InvalidateIndex, Ready, Idle
  <1>2. /\ usage' = usage /\ call' = [call EXCEPT ![i] = op]
        /\ index' = [index EXCEPT ![t] = {}]
        /\ entries' = [k \in Keys |->
                         IF entries[k] # None /\ entries[k].setter = None /\ t \in entries[k].tags
                         THEN [entries[k] EXCEPT !.invalid = @ \cup {t}] ELSE entries[k]]
    BY DEF InvalidateIndex
  <1>3. op \in Calls
    BY <1>1 DEF Shape, Calls
  <1>4. index' \in [Tags -> SUBSET Keys]
    BY <1>1, <1>2 DEF Shape
  <1>5. entries' \in [Keys -> Entries \cup {None}]
    BY <1>1, <1>2 DEF Shape, Entries
  <1>6. /\ Shape' /\ Busy'
        /\ call'[i] = op /\ \A j \in Threads : j # i => call'[j] = call[j]
    BY <1>1, <1>2, <1>3, <1>4, <1>5, OneCall
  <1>7. \A x \in Cached' :
            /\ x \in Cached /\ entries'[x].tags = entries[x].tags
            /\ entries'[x].setter = entries[x].setter /\ entries'[x].raced = entries[x].raced
            /\ \/ entries'[x].invalid = entries[x].invalid
               \/ /\ entries[x].setter = None /\ t \in entries[x].tags
                  /\ entries'[x].invalid = entries[x].invalid \cup {t}
    <2> SUFFICES ASSUME NEW x \in Cached'
                 PROVE  /\ x \in Cached /\ entries'[x].tags = entries[x].tags
                        /\ entries'[x].setter = entries[x].setter /\ entries'[x].raced = entries[x].raced
                        /\ \/ entries'[x].invalid = entries[x].invalid
                           \/ /\ entries[x].setter = None /\ t \in entries[x].tags
                              /\ entries'[x].invalid = entries[x].invalid \cup {t}
      OBVIOUS
    <2>1. x \in Keys /\ entries'[x] # None
      BY DEF Cached
    <2>2. entries[x] # None /\ x \in Cached
      BY <2>1, <1>2 DEF Cached
    <2> QED
      BY <2>1, <2>2, <1>1, <1>2 DEF Shape, Entries
  <1>8. \A x : Doomed(x)' <=> Doomed(x) \/ x \in index[t]
    BY <1>1, <1>6 DEF Doomed
  <1>9. Setting'
    <2> SUFFICES ASSUME NEW x \in Cached', entries'[x].setter # None
                 PROVE  /\ call'[entries'[x].setter] = [op |-> "set", key |-> x, tags |-> entries'[x].tags]
                        /\ entries'[x].invalid = {}
      BY DEF Setting
    <2>1. /\ x \in Cached /\ entries'[x].setter = entries[x].setter /\ entries'[x].tags = entries[x].tags
          /\ entries'[x].invalid = entries[x].invalid
      BY <1>7
    <2>2. /\ call[entries[x].setter] = [op |-> "set", key |-> x, tags |-> entries[x].tags]
          /\ entries[x].invalid = {}
      BY <2>1 DEF IInv, Setting
    <2>3. entries[x].setter \in Threads /\ entries[x].setter # i
      BY <1>1, <2>1, <2>2, EntryShape DEF Entries
    <2> QED
      BY <2>1, <2>2, <2>3, <1>6
  <1>10. \A j \in Threads : \A u, x : CleansUp(j, u, x)' => CleansUp(j, u, x)
    BY <1>6 DEF CleansUp
  <1>11. Unlisting'
    BY <1>7, <1>10 DEF IInv, Unlisting
  <1>12. Listed'
    <2> SUFFICES ASSUME NEW x \in Cached', NEW u \in entries'[x].tags \ entries'[x].raced
                 PROVE  x \in index'[u] \/ entries'[x].setter # None \/ Doomed(x)'
      BY DEF Listed
    <2>1. x \in Cached /\ u \in entries[x].tags \ entries[x].raced /\ u \in Tags
      BY <1>1, <1>7, EntryShape DEF Entries
    <2>2. x \in index[u] \/ entries[x].setter # None \/ Doomed(x)
      BY <2>1 DEF IInv, Listed
    <2>3. u # t => index'[u] = index[u]
      BY <1>1, <1>2, <2>1 DEF Shape
    <2> QED
      BY <2>2, <2>3, <1>7, <1>8
  <1>13. Victim'
    <2> SUFFICES ASSUME NEW x \in Cached', ~Doomed(x)'
                 PROVE  entries'[x].invalid \subseteq entries'[x].raced
      BY DEF Victim
    <2>1. x \in Cached /\ ~Doomed(x) /\ x \notin index[t] /\ entries[x].invalid \subseteq entries[x].raced
      BY <1>7, <1>8 DEF IInv, Victim
    <2>2. entries[x].setter = None /\ t \in entries[x].tags => t \in entries[x].raced
      BY <2>1 DEF IInv, Listed
    <2> QED
      BY <2>1, <2>2, <1>7
  <1> QED
    BY <1>6, <1>9, <1>11, <1>12, <1>13 DEF IInv

\* A step that drops entries and unlists keys, but none that stays cached:
\* thread i goes on with c, and the entries of gone are dropped.
Shrink(i, c, gone) ==
    /\ i \in usage.threads /\ call[i].op # "set"
    /\ c \in Calls /\ c.op \notin {"set", "invalidate"}
    /\ usage' = usage /\ call' = [call EXCEPT ![i] = c]
    /\ entries' \in [Keys -> Entries \cup {None}]
    /\ \A x \in Cached' : x \in Cached /\ x \notin gone /\ entries'[x] = entries[x]
    /\ index' \in [Tags -> SUBSET Keys] /\ \A t \in Tags : index'[t] \subseteq index[t]
    /\ \A x \in Cached : x \in gone \/ entries[x].setter # None
          \/ \A t \in entries[x].tags \ entries[x].raced : x \in index[t] => x \in index'[t]
    /\ call[i].op = "invalidate" => call[i].keys \cap Cached \subseteq gone
    /\ c.op = "prune_index" => \A p \in c.pairs : p[2] \in gone
    /\ c.op = "clear" => Cached \subseteq gone

LEMMA Shrinks ==
  ASSUME IInv, NEW i \in Threads, NEW c, NEW gone, Shrink(i, c, gone)
  PROVE  IInv'
  <1> USE DEF Shrink
  <1>1. Shape
    BY DEF IInv
  <1>3. /\ Shape' /\ Busy'
        /\ call'[i] = c /\ \A j \in Threads : j # i => call'[j] = call[j]
    BY OneCall
  <1>4. \A x \in Cached' : x \in Cached /\ x \notin gone /\ entries'[x] = entries[x]
    OBVIOUS
  <1>5. \A x \in Cached' : Doomed(x) => Doomed(x)'
    <2> SUFFICES ASSUME NEW x \in Cached', NEW j \in Threads,
                        call[j].op = "invalidate", x \in call[j].keys
                 PROVE  Doomed(x)'
      BY DEF Doomed
    <2>1. j # i
      BY <1>4
    <2> QED
      BY <2>1, <1>3 DEF Doomed
  <1>6. Setting'
    <2> SUFFICES ASSUME NEW x \in Cached', entries'[x].setter # None
                 PROVE  /\ call'[entries'[x].setter] = [op |-> "set", key |-> x, tags |-> entries'[x].tags]
                        /\ entries'[x].invalid = {}
      BY DEF Setting
    <2>1. x \in Cached /\ entries'[x] = entries[x]
      BY <1>4
    <2>2. /\ call[entries[x].setter] = [op |-> "set", key |-> x, tags |-> entries[x].tags]
          /\ entries[x].invalid = {}
      BY <2>1 DEF IInv, Setting
    <2>3. entries[x].setter \in Threads /\ entries[x].setter # i
      BY <1>1, <2>1, <2>2, EntryShape DEF Entries
    <2> QED
      BY <2>1, <2>2, <2>3, <1>3
  <1>7. \A j \in Threads : \A x \in Cached' : \A t : CleansUp(j, t, x)' => CleansUp(j, t, x)
    <2> SUFFICES ASSUME NEW j \in Threads, NEW x \in Cached', NEW t, CleansUp(j, t, x)'
                 PROVE  CleansUp(j, t, x)
      OBVIOUS
    <2>1. x \in Cached /\ x \notin gone
      BY <1>4
    <2>2. CASE j = i
      <3>1. \/ c.op = "prune_index" /\ <<t, x>> \in c.pairs
            \/ c.op = "clear"
        BY <2>2, <1>3 DEF CleansUp
      <3>2. <<t, x>>[2] = x
        OBVIOUS
      <3> QED
        BY <2>1, <3>1, <3>2
    <2>3. CASE j # i
      BY <2>3, <1>3 DEF CleansUp
    <2> QED
      BY <2>2, <2>3
  <1>8. Unlisting'
    BY <1>4, <1>7 DEF IInv, Unlisting
  <1>9. Listed'
    <2> SUFFICES ASSUME NEW x \in Cached', NEW t \in entries'[x].tags \ entries'[x].raced
                 PROVE  x \in index'[t] \/ entries'[x].setter # None \/ Doomed(x)'
      BY DEF Listed
    <2>1. x \in Cached /\ x \notin gone /\ entries'[x] = entries[x]
      BY <1>4
    <2>2. x \in index[t] \/ entries[x].setter # None \/ Doomed(x)
      BY <2>1 DEF IInv, Listed
    <2> QED
      BY <2>1, <2>2, <1>5
  <1>10. Victim'
    BY <1>4, <1>5 DEF IInv, Victim
  <1> QED
    BY <1>3, <1>6, <1>8, <1>9, <1>10 DEF IInv

\* What Unlist does to the listings.
LEMMA UnlistShape ==
  ASSUME Shape, NEW K
  PROVE  /\ Unlist(K) \in [Tags -> SUBSET Keys]
         /\ \A t \in Tags : Unlist(K)[t] \subseteq index[t]
         /\ \A x \in Cached : x \in K \/ \A t \in entries[x].tags : x \in index[t] => x \in Unlist(K)[t]
  BY EntryShape DEF Shape, Unlist, Entries

\* Dropping the entries of some keys, or none.
LEMMA Drops ==
  ASSUME Shape, NEW gone, entries' = [k \in Keys |-> IF k \in gone THEN None ELSE entries[k]]
  PROVE  /\ entries' \in [Keys -> Entries \cup {None}]
         /\ \A x \in Cached' : x \in Cached /\ x \notin gone /\ entries'[x] = entries[x]
  BY DEF Shape, Cached

LEMMA NoneGone ==
  ASSUME Shape, UNCHANGED entries
  PROVE  /\ entries' \in [Keys -> Entries \cup {None}]
         /\ \A x \in Cached' : x \in Cached /\ x \notin {} /\ entries'[x] = entries[x]
  BY DEF Shape, Cached

LEMMA InvalidateEntriesIInv ==
  ASSUME IInv, NEW i \in Threads, InvalidateEntries(i)
  PROVE  IInv'
  <1> DEFINE gone == call[i].keys \cap Cached
             pairs == UNION {{<<u, k>> : u \in entries[k].tags \ {call[i].tag}} : k \in gone}
             c == [op |-> "prune_index", pairs |-> pairs]
  <1>1. Shape /\ call[i].op = "invalidate" /\ i \in usage.threads
    BY InUsage DEF IInv, InvalidateEntries
  <1>2. /\ entries' = [k \in Keys |-> IF k \in gone THEN None ELSE entries[k]]
        /\ usage' = usage /\ call' = [call EXCEPT ![i] = c] /\ index' = index
    BY DEF InvalidateEntries
  <1>3. \A k \in gone : k \in Keys /\ entries[k].tags \subseteq Tags
    BY <1>1, EntryShape DEF Entries
  <1>4. c \in Calls
    <2>1. pairs \in SUBSET (Tags \X Keys)
      BY <1>3
    <2> QED
      BY <2>1 DEF Calls
  <1>5. \A p \in pairs : p[2] \in gone
    OBVIOUS
  <1>7. \A x \in Cached : x \in gone \/ \A t \in entries[x].tags : x \in index[t] => x \in index'[t]
    BY <1>2
  <1>8. index' \in [Tags -> SUBSET Keys] /\ \A t \in Tags : index'[t] \subseteq index[t]
    BY <1>1, <1>2 DEF Shape
  <1>9. c.op = "prune_index" /\ c.pairs = pairs
    OBVIOUS
  <1> HIDE DEF gone, pairs, c
  <1>10. call[i].keys \cap Cached \subseteq gone
    BY DEF gone
  <1>11. /\ call[i].op # "set" /\ c.op \notin {"set", "invalidate"}
         /\ c.op = "prune_index" => \A p \in c.pairs : p[2] \in gone
         /\ c.op = "clear" => Cached \subseteq gone
    BY <1>1, <1>5, <1>9
  <1>12. call[i].op = "invalidate" => call[i].keys \cap Cached \subseteq gone
    BY <1>10
  <1>13. /\ entries' \in [Keys -> Entries \cup {None}]
         /\ \A x \in Cached' : x \in Cached /\ x \notin gone /\ entries'[x] = entries[x]
    BY <1>1, <1>2, Drops
  <1>20. Shrink(i, c, gone)
    BY <1>1, <1>4, <1>7, <1>8, <1>11, <1>12, <1>2, <1>13 DEF Shrink
  <1> QED
    BY <1>20, Shrinks

LEMMA InvalidatePruneIInv ==
  ASSUME IInv, NEW i \in Threads, InvalidatePrune(i)
  PROVE  IInv'
  <1>1. Shape /\ call[i].op = "prune_index" /\ i \in usage.threads
    BY InUsage DEF IInv, InvalidatePrune
  <1>2. /\ index' = [t \in Tags |-> {k \in index[t] : <<t, k>> \notin call[i].pairs}]
        /\ usage' = usage /\ call' = [call EXCEPT ![i] = Idle] /\ entries' = entries
    BY DEF InvalidatePrune
  <1>3. Idle \in Calls /\ Idle.op = "idle"
    BY DEF Calls, Idle
  <1>4. \A x \in Cached : entries[x].setter = None =>
           \A t \in entries[x].tags \ entries[x].raced : <<t, x>> \notin call[i].pairs
    BY <1>1 DEF IInv, Unlisting, CleansUp
  <1>5. \A x \in Cached : x \in {} \/ entries[x].setter # None
           \/ \A t \in entries[x].tags \ entries[x].raced : x \in index[t] => x \in index'[t]
    BY <1>1, <1>2, <1>4, EntryShape DEF Entries
  <1>6. index' \in [Tags -> SUBSET Keys] /\ \A t \in Tags : index'[t] \subseteq index[t]
    BY <1>1, <1>2 DEF Shape
  <1>7. /\ entries' \in [Keys -> Entries \cup {None}]
        /\ \A x \in Cached' : x \in Cached /\ x \notin {} /\ entries'[x] = entries[x]
    BY <1>1, <1>2, NoneGone
  <1>9. /\ call[i].op # "set" /\ call[i].op # "invalidate"
        /\ Idle.op \notin {"set", "invalidate"} /\ Idle.op # "prune_index" /\ Idle.op # "clear"
    BY <1>1, <1>3
  <1>20. Shrink(i, Idle, {})
    BY <1>1, <1>2, <1>3, <1>5, <1>6, <1>7, <1>9 DEF Shrink
  <1> QED
    BY <1>20, Shrinks

LEMMA PruneCollectIInv ==
  ASSUME IInv, NEW i \in Threads, PruneCollect(i)
  PROVE  IInv'
  <1> DEFINE c == [op |-> "prune", keys |-> {k \in Cached : entries[k].expired}]
  <1>1. Shape /\ call[i] = Idle /\ call[i].op = "idle" /\ i \in usage.threads
    BY DEF IInv, PruneCollect, Ready, Idle
  <1>2. usage' = usage /\ call' = [call EXCEPT ![i] = c] /\ entries' = entries /\ index' = index
    BY DEF PruneCollect
  <1>3. c \in Calls /\ c.op = "prune"
    BY DEF Calls, Cached
  <1>4. /\ entries' \in [Keys -> Entries \cup {None}]
        /\ \A x \in Cached' : x \in Cached /\ x \notin {} /\ entries'[x] = entries[x]
    BY <1>1, <1>2, NoneGone
  <1>5. index' \in [Tags -> SUBSET Keys] /\ \A t \in Tags : index'[t] \subseteq index[t]
    BY <1>1, <1>2 DEF Shape
  <1> HIDE DEF c
  <1>9. /\ call[i].op # "set" /\ call[i].op # "invalidate"
        /\ c.op \notin {"set", "invalidate"} /\ c.op # "prune_index"
    BY <1>1, <1>3
  <1>20. Shrink(i, c, {})
    BY <1>1, <1>2, <1>3, <1>4, <1>5, <1>9 DEF Shrink
  <1> QED
    BY <1>20, Shrinks

LEMMA PruneRemoveIInv ==
  ASSUME IInv, NEW i \in Threads, PruneRemove(i)
  PROVE  IInv'
  <1> DEFINE gone == call[i].keys \cap Cached
  <1>1. Shape /\ call[i].op = "prune" /\ i \in usage.threads
    BY InUsage DEF IInv, PruneRemove
  <1>2. /\ index' = Unlist(gone)
        /\ entries' = [k \in Keys |-> IF k \in gone THEN None ELSE entries[k]]
        /\ usage' = usage /\ call' = [call EXCEPT ![i] = Idle]
    BY DEF PruneRemove
  <1>3. Idle \in Calls /\ Idle.op = "idle"
    BY DEF Calls, Idle
  <1> HIDE DEF gone
  <1>4. /\ index' \in [Tags -> SUBSET Keys] /\ \A t \in Tags : index'[t] \subseteq index[t]
        /\ \A x \in Cached : x \in gone \/ \A t \in entries[x].tags : x \in index[t] => x \in index'[t]
    BY <1>1, <1>2, UnlistShape
  <1>9. /\ call[i].op # "set" /\ call[i].op # "invalidate"
        /\ Idle.op \notin {"set", "invalidate"} /\ Idle.op # "prune_index" /\ Idle.op # "clear"
    BY <1>1, <1>3
  <1>10. /\ entries' \in [Keys -> Entries \cup {None}]
         /\ \A x \in Cached' : x \in Cached /\ x \notin gone /\ entries'[x] = entries[x]
    BY <1>1, <1>2, Drops
  <1>20. Shrink(i, Idle, gone)
    BY <1>1, <1>3, <1>4, <1>9, <1>2, <1>10 DEF Shrink
  <1> QED
    BY <1>20, Shrinks

LEMMA ClearEntriesIInv ==
  ASSUME IInv, NEW i \in Threads, ClearEntries(i)
  PROVE  IInv'
  <1> DEFINE c == [op |-> "clear"]
  <1>1. Shape /\ call[i] = Idle /\ call[i].op = "idle" /\ i \in usage.threads /\ usage.clearing
    BY DEF IInv, ClearEntries, Ready, Idle
  <1>2. /\ entries' = [k \in Keys |-> IF k \in Keys THEN None ELSE entries[k]]
        /\ usage' = usage /\ call' = [call EXCEPT ![i] = c] /\ index' = index
    BY DEF ClearEntries
  <1>3. c \in Calls /\ c.op = "clear"
    BY DEF Calls
  <1>4. Cached \subseteq Keys
    BY DEF Cached
  <1>5. index' \in [Tags -> SUBSET Keys] /\ \A t \in Tags : index'[t] \subseteq index[t]
    BY <1>1, <1>2 DEF Shape
  <1> HIDE DEF c
  <1>9. /\ call[i].op # "set" /\ call[i].op # "invalidate"
        /\ c.op \notin {"set", "invalidate"} /\ c.op # "prune_index"
    BY <1>1, <1>3
  <1>10. /\ entries' \in [Keys -> Entries \cup {None}]
         /\ \A x \in Cached' : x \in Cached /\ x \notin Keys /\ entries'[x] = entries[x]
    BY <1>1, <1>2, Drops
  <1>20. Shrink(i, c, Keys)
    BY <1>1, <1>3, <1>4, <1>5, <1>9, <1>2, <1>10 DEF Shrink
  <1> QED
    BY <1>20, Shrinks

LEMMA ClearIndexIInv ==
  ASSUME IInv, NEW i \in Threads, ClearIndex(i)
  PROVE  IInv'
  <1>1. Shape /\ call[i].op = "clear" /\ i \in usage.threads
    BY InUsage DEF IInv, ClearIndex
  <1>2. /\ index' = [t \in Tags |-> {}]
        /\ usage' = usage /\ call' = [call EXCEPT ![i] = Idle] /\ entries' = entries
    BY DEF ClearIndex
  <1>3. Idle \in Calls /\ Idle.op = "idle"
    BY DEF Calls, Idle
  <1>5. \A x \in Cached : x \in {} \/ entries[x].setter # None
           \/ \A t \in entries[x].tags \ entries[x].raced : x \in index[t] => x \in index'[t]
    BY <1>1 DEF IInv, Unlisting, CleansUp
  <1>6. index' \in [Tags -> SUBSET Keys] /\ \A t \in Tags : index'[t] \subseteq index[t]
    BY <1>1, <1>2 DEF Shape
  <1>7. /\ entries' \in [Keys -> Entries \cup {None}]
        /\ \A x \in Cached' : x \in Cached /\ x \notin {} /\ entries'[x] = entries[x]
    BY <1>1, <1>2, NoneGone
  <1>9. /\ call[i].op # "set" /\ call[i].op # "invalidate"
        /\ Idle.op \notin {"set", "invalidate"} /\ Idle.op # "prune_index" /\ Idle.op # "clear"
    BY <1>1, <1>3
  <1>20. Shrink(i, Idle, {})
    BY <1>1, <1>2, <1>3, <1>5, <1>6, <1>7, <1>9 DEF Shrink
  <1> QED
    BY <1>20, Shrinks

LEMMA ExpireIInv ==
  ASSUME IInv, NEW k \in Keys, Expire(k)
  PROVE  IInv'
  <1>1. /\ Shape /\ entries[k] # None
        /\ entries' = [entries EXCEPT ![k].expired = TRUE]
        /\ usage' = usage /\ index' = index /\ call' = call
    BY DEF IInv, Expire
  <1>2. entries' \in [Keys -> Entries \cup {None}]
    BY <1>1 DEF Shape, Entries
  <1>3. \A x \in Cached' : /\ x \in Cached /\ entries'[x].tags = entries[x].tags
                           /\ entries'[x].setter = entries[x].setter
                           /\ entries'[x].invalid = entries[x].invalid
                           /\ entries'[x].raced = entries[x].raced
    BY <1>1 DEF Cached, Shape, Entries
  <1>4. \A x : Doomed(x)' <=> Doomed(x)
    BY <1>1 DEF Doomed
  <1>5. \A j \in Threads : \A t, x : CleansUp(j, t, x)' <=> CleansUp(j, t, x)
    BY <1>1 DEF CleansUp
  <1>6. Shape' /\ Busy'
    BY <1>1, <1>2 DEF IInv, Shape, Busy
  <1>7. Setting'
    BY <1>1, <1>3 DEF IInv, Setting
  <1>9. Unlisting'
    BY <1>3, <1>5 DEF IInv, Unlisting
  <1>10. Listed' /\ Victim'
    BY <1>1, <1>3, <1>4 DEF IInv, Listed, Victim
  <1> QED
    BY <1>6, <1>7, <1>9, <1>10 DEF IInv

-----------------------------------------------------------------------------
LEMMA NextIInv == IInv /\ [Next]_vars => IInv'
  <1> SUFFICES ASSUME IInv, [Next]_vars PROVE IInv'
    OBVIOUS
  <1>1. CASE UNCHANGED vars
    BY <1>1 DEF vars, IInv, Shape, Busy, Setting, Unlisting, CleansUp, Listed, Victim, Doomed, Cached
  <1>2. CASE Next
    BY <1>2, SetEntryIInv, SetIndexIInv, InvalidateIndexIInv, InvalidateEntriesIInv,
       InvalidatePruneIInv, PruneCollectIInv, PruneRemoveIInv, ClearEntriesIInv,
       ClearIndexIInv, ExpireIInv DEF Next
  <1> QED
    BY <1>1, <1>2

-----------------------------------------------------------------------------
(* The capacity is kept in every usage.                                    *)

Bounded == Shape /\ IsFiniteSet(Cached) /\ Kept

LEMMA InitBounded == Init => Bounded
  <1> SUFFICES ASSUME Init PROVE Bounded
    OBVIOUS
  <1>1. Cached = {}
    BY DEF Init, Cached
  <1>2. Shape
    BY DEF Init, Shape, Calls
  <1> QED
    BY <1>1, <1>2, FS_EmptySet, CacheAssumption DEF Bounded, Kept, Len

\* Only set adds an entry, and no more than it takes away when the cache is full.
LEMMA SetEntryBounded ==
  ASSUME Bounded, NEW i \in Threads, NEW k \in Keys, NEW T \in SUBSET Tags, SetEntry(i, k, T)
  PROVE  Bounded'
  <1>1. PICK E \in Victims(k) :
          /\ entries' = [x \in Keys |-> IF x = k THEN Entry(T, i) ELSE IF x \in E THEN None ELSE entries[x]]
          /\ index' = Unlist(E)
    BY DEF SetEntry
  <1>2. usage' = usage /\ call' = [call EXCEPT ![i] = [op |-> "set", key |-> k, tags |-> T]]
    BY DEF SetEntry
  <1>3. Shape /\ IsFiniteSet(Cached) /\ Kept /\ Len \in Nat
    BY FS_CardinalityType DEF Bounded, Len
  <1>4. Shape'
    <2>1. Entry(T, i) \in Entries
      BY DEF Entry, Entries
    <2>2. [op |-> "set", key |-> k, tags |-> T] \in Calls
      BY DEF Calls
    <2> QED
      BY <1>1, <1>2, <1>3, <2>1, <2>2 DEF Shape, Unlist
  <1>5. Cached' \subseteq (Cached \ E) \cup {k}
    BY <1>1 DEF Cached
  <1>6. IsFiniteSet(Cached \ E)
    BY <1>3, FS_Subset
  <1>7. /\ IsFiniteSet((Cached \ E) \cup {k}) /\ IsFiniteSet(Cached')
        /\ Cardinality(Cached') <= Cardinality((Cached \ E) \cup {k})
        /\ Cardinality((Cached \ E) \cup {k}) <= Cardinality(Cached \ E) + 1
        /\ Cardinality(Cached') \in Nat /\ Cardinality(Cached \ E) \in Nat
        /\ Cardinality((Cached \ E) \cup {k}) \in Nat
    <2>1. IsFiniteSet((Cached \ E) \cup {k}) /\ Cardinality(Cached \ E) \in Nat
      BY <1>6, FS_AddElement, FS_CardinalityType
    <2>2. IsFiniteSet(Cached') /\ Cardinality(Cached') <= Cardinality((Cached \ E) \cup {k})
      BY <2>1, <1>5, FS_Subset
    <2>3. Cardinality((Cached \ E) \cup {k}) <= Cardinality(Cached \ E) + 1
      BY <1>6, <2>1, FS_AddElement
    <2>4. Cardinality(Cached') \in Nat /\ Cardinality((Cached \ E) \cup {k}) \in Nat
      BY <2>1, <2>2, FS_CardinalityType
    <2> QED
      BY <2>1, <2>2, <2>3, <2>4
  <1>8. Kept'
    <2>1. MaxEntries \in Nat
      BY CacheAssumption
    <2>2. CASE entries[k] # None
      <3>1. k \in Cached /\ E = {}
        BY <2>2 DEF Victims, Cached
      <3>2. (Cached \ E) \cup {k} = Cached
        BY <3>1
      <3> QED
        BY <3>2, <1>3, <1>7, <2>1 DEF Kept, Len
    <2>3. CASE entries[k] = None /\ Cached = {}
      <3>1. Cardinality(Cached \ E) = 0
        BY <2>3, FS_EmptySet
      <3> QED
        BY <3>1, <1>7, <2>1 DEF Kept, Len
    <2>4. CASE entries[k] = None /\ Cached # {} /\ Len >= MaxEntries
      <3>1. PICK v \in Cached : E = {v}
        BY <2>4 DEF Victims
      <3>2. Cardinality(Cached \ E) = Cardinality(Cached) - 1
        BY <3>1, <1>3, FS_RemoveElement
      <3> QED
        BY <3>2, <1>3, <1>7, <2>1 DEF Kept, Len
    <2>5. CASE entries[k] = None /\ ~(Len >= MaxEntries)
      <3>1. Cached \ E = Cached
        BY <2>5 DEF Victims
      <3> QED
        BY <3>1, <2>5, <1>3, <1>7, <2>1 DEF Kept, Len
    <2> QED
      BY <2>2, <2>3, <2>4, <2>5
  <1> QED
    BY <1>4, <1>7, <1>8 DEF Bounded

\* Every other step leaves at most the entries there were.
LEMMA NoEntryAdded ==
  ASSUME Bounded, Shape', Cached' \subseteq Cached PROVE Bounded'
  <1>1. /\ IsFiniteSet(Cached') /\ Cardinality(Cached') <= Cardinality(Cached)
        /\ Cardinality(Cached') \in Nat /\ Cardinality(Cached) \in Nat
    <2>1. IsFiniteSet(Cached)
      BY DEF Bounded
    <2>2. IsFiniteSet(Cached') /\ Cardinality(Cached') <= Cardinality(Cached)
      BY <2>1, FS_Subset
    <2> QED
      BY <2>1, <2>2, FS_CardinalityType
  <1>2. Kept'
    BY <1>1, CacheAssumption DEF Bounded, Kept, Len
  <1> QED
    BY <1>1, <1>2 DEF Bounded

LEMMA NextBounded == Bounded /\ [Next]_vars => Bounded'
  <1> SUFFICES ASSUME Bounded, [Next]_vars PROVE Bounded'
    OBVIOUS
  <1>0. Shape
    BY DEF Bounded
  <1> SUFFICES (\E i \in Threads, k \in Keys, T \in SUBSET Tags : SetEntry(i, k, T))
                  \/ (Shape' /\ Cached' \subseteq Cached)
    BY SetEntryBounded, NoEntryAdded
  <1>1. CASE UNCHANGED vars
    BY <1>0, <1>1 DEF vars, Shape, Cached
  <1>2. ASSUME NEW i \in Threads, SetIndex(i) PROVE Shape' /\ Cached' \subseteq Cached
    <2>1. call[i].op = "set"
      BY <1>2 DEF SetIndex
    <2>2. call[i].key \in Keys /\ Idle \in Calls
      BY <1>0, <2>1, CallShape DEF Calls
    <2> DEFINE k == call[i].key
               R == {t \in call[i].tags : \E j \in Threads : CleansUp(j, t, k)}
    <2>4. /\ entries' = IF entries[k] # None /\ entries[k].setter = i
                        THEN [entries EXCEPT ![k].setter = None, ![k].raced = R] ELSE entries
          /\ R \subseteq Tags
      BY <1>0, <1>2, <2>1, CallShape DEF SetIndex
    <2>3. entries' \in [Keys -> Entries \cup {None}] /\ Cached' \subseteq Cached
      <3> HIDE DEF R
      <3> QED
        BY <1>0, <2>2, <2>4 DEF Shape, Entries, Cached
    <2> QED
      BY <1>0, <1>2, <2>2, <2>3 DEF SetIndex, Shape
  <1>3. ASSUME NEW i \in Threads, NEW t \in Tags, InvalidateIndex(i, t)
        PROVE  Shape' /\ Cached' \subseteq Cached
    <2>1. [op |-> "invalidate", tag |-> t, keys |-> index[t]] \in Calls
      BY <1>0 DEF Shape, Calls
    <2>2. entries' \in [Keys -> Entries \cup {None}] /\ Cached' \subseteq Cached
      BY <1>0, <1>3 DEF InvalidateIndex, Shape, Entries, Cached
    <2> QED
      BY <1>0, <1>3, <2>1, <2>2 DEF InvalidateIndex, Shape
  <1>4. ASSUME NEW i \in Threads, InvalidateEntries(i) PROVE Shape' /\ Cached' \subseteq Cached
    <2> DEFINE gone == call[i].keys \cap Cached
               pairs == UNION {{<<u, k>> : u \in entries[k].tags \ {call[i].tag}} : k \in gone}
    <2>1. /\ entries' = [k \in Keys |-> IF k \in gone THEN None ELSE entries[k]]
          /\ call' = [call EXCEPT ![i] = [op |-> "prune_index", pairs |-> pairs]]
          /\ usage' = usage /\ index' = index
      BY <1>4 DEF InvalidateEntries
    <2>2. \A k \in gone : k \in Keys /\ entries[k].tags \subseteq Tags
      BY <1>0, EntryShape DEF Entries
    <2>3. pairs \in SUBSET (Tags \X Keys)
      BY <2>2
    <2>4. [op |-> "prune_index", pairs |-> pairs] \in Calls
      BY <2>3 DEF Calls
    <2> HIDE DEF gone, pairs
    <2> QED
      BY <1>0, <2>1, <2>4, Drops DEF Shape
  <1>5. ASSUME NEW i \in Threads, InvalidatePrune(i) PROVE Shape' /\ Cached' \subseteq Cached
    <2>1. Idle \in Calls
      BY DEF Calls
    <2> QED
      BY <1>0, <1>5, <2>1 DEF InvalidatePrune, Shape, Cached
  <1>6. ASSUME NEW i \in Threads, PruneCollect(i) PROVE Shape' /\ Cached' \subseteq Cached
    <2>1. [op |-> "prune", keys |-> {k \in Cached : entries[k].expired}] \in Calls
      BY DEF Calls, Cached
    <2> QED
      BY <1>0, <1>6, <2>1 DEF PruneCollect, Shape, Cached
  <1>7. ASSUME NEW i \in Threads, PruneRemove(i) PROVE Shape' /\ Cached' \subseteq Cached
    <2> DEFINE gone == call[i].keys \cap Cached
    <2>1. /\ index' = Unlist(gone) /\ usage' = usage /\ call' = [call EXCEPT ![i] = Idle]
          /\ entries' = [k \in Keys |-> IF k \in gone THEN None ELSE entries[k]]
      BY <1>7 DEF PruneRemove
    <2>2. Idle \in Calls
      BY DEF Calls
    <2> HIDE DEF gone
    <2>3. index' \in [Tags -> SUBSET Keys]
      BY <1>0, <2>1, UnlistShape
    <2> QED
      BY <1>0, <2>1, <2>2, <2>3, Drops DEF Shape
  <1>8. ASSUME NEW i \in Threads, ClearEntries(i) PROVE Shape' /\ Cached' \subseteq Cached
    <2>1. [op |-> "clear"] \in Calls
      BY DEF Calls
    <2> QED
      BY <1>0, <1>8, <2>1 DEF ClearEntries, Shape, Cached
  <1>9. ASSUME NEW i \in Threads, ClearIndex(i) PROVE Shape' /\ Cached' \subseteq Cached
    <2>1. Idle \in Calls
      BY DEF Calls
    <2> QED
      BY <1>0, <1>9, <2>1 DEF ClearIndex, Shape, Cached
  <1>10. ASSUME NEW k \in Keys, Expire(k) PROVE Shape' /\ Cached' \subseteq Cached
    BY <1>0, <1>10 DEF Expire, Shape, Entries, Cached
  <1> QED
    BY <1>1, <1>2, <1>3, <1>4, <1>5, <1>6, <1>7, <1>8, <1>9, <1>10 DEF Next

-----------------------------------------------------------------------------
(* The theorems.                                                           *)

\* The cache holds no more than max_entries entries (one, if that is zero),
\* whatever the threads do (cache.rs:122-135).
THEOREM CapacityKept == Spec => []TypeOK
  <1>1. Bounded => TypeOK
    BY DEF Bounded, TypeOK, Shape, Kept
  <1> QED
    BY <1>1, InitBounded, NextBounded, PTL DEF Spec

LEMMA Invariant == Spec => []IInv
  BY InitIInv, NextIInv, PTL DEF Spec

\* In every usage every entry whose set has returned is within the reach of
\* invalidate_tag, by each of its tags that was not raced (cache.rs:122-190).
THEOREM AlwaysReachable == Spec => []Reachable
  <1>1. IInv /\ TypeOK => Reachable
    BY DEF IInv, Listed, Doomed, Reachable
  <1> QED
    BY <1>1, Invariant, CapacityKept, PTL

\* In every usage no entry invalidated under a tag that was not raced is served
\* once the operations under way have returned (cache.rs:18).
THEOREM NoneOutlivesInvalidation == Spec => []InvalidationSettles
  <1>1. IInv => InvalidationSettles
    <2> SUFFICES ASSUME IInv, \A i \in Threads : call[i] = Idle, NEW k \in Keys, Hit(k)
                 PROVE  entries[k].invalid \subseteq entries[k].raced
      BY DEF InvalidationSettles
    <2>1. k \in Cached /\ ~Doomed(k)
      BY DEF Hit, Cached, Doomed, Idle
    <2> QED
      BY <2>1 DEF IInv, Victim
  <1> QED
    BY <1>1, Invariant, PTL

=============================================================================
