----------------------------- MODULE QueryCache -----------------------------
(***************************************************************************)
(* InMemoryCache of crates/runtime/src/cache.rs: cached results under a    *)
(* key, and an index from tags to the keys that carry them.  The two maps  *)
(* have a lock each, and an operation takes them one after the other, so   *)
(* each critical section is one action and threads interleave in between.  *)
(* (Where the code takes the index lock inside the entries lock the whole  *)
(* section is one action.)  An entry's data is not modelled.               *)
(***************************************************************************)
EXTENDS Naturals, FiniteSets

CONSTANTS Keys, Tags, Threads,
          MaxEntries,  \* max_entries
          Usages,      \* the ways of using the cache to explore, see usage
          None         \* no entry; no thread

ASSUME CacheAssumption ==
    /\ MaxEntries \in Nat
    /\ Usages \subseteq [threads  : SUBSET Threads,
                        tagSets  : SUBSET SUBSET Tags,
                        clearing : BOOLEAN]
    /\ None \notin Threads

(* A behaviour has one usage throughout: the threads that call the cache,   *)
(* the sets of tags they cache under, and whether they call clear.          *)
VARIABLES usage,
          entries,  \* entries[k]: the cached entry, or None
          index,    \* tag_index[t]: the keys listed under t
          call      \* call[i]: the operation thread i is in the middle of

vars == <<usage, entries, index, call>>

(* An entry: its tags, whether its time is up, and three history fields:   *)
(* the thread whose set has not returned yet; those of its tags that were  *)
(* invalidated since; and those that were raced, see CleansUp.             *)
Entry(tags, i) == [tags |-> tags, expired |-> FALSE,
                   setter |-> i, invalid |-> {}, raced |-> {}]

Idle == [op |-> "idle"]

\* Thread i may call an operation.
Ready(i) == i \in usage.threads /\ call[i] = Idle

Cached == {k \in Keys : entries[k] # None}

Init == /\ usage \in Usages
        /\ entries = [k \in Keys |-> None]
        /\ index = [t \in Tags |-> {}]
        /\ call = [i \in Threads |-> Idle]

\* Thread j has dropped an entry of k, and is about to unlist it under t: a set
\* of k that began after the one and returns before the other is raced.
CleansUp(j, t, k) == \/ call[j].op = "prune_index" /\ <<t, k>> \in call[j].pairs
                     \/ call[j].op = "clear"

\* Unlist keys K under the tags each of them carries.
Unlist(K) == [t \in Tags |-> index[t] \ {k \in K : t \in entries[k].tags}]

-----------------------------------------------------------------------------
(* get and len read one map under its lock and change nothing. *)
Hit(k) == entries[k] # None /\ ~entries[k].expired
Len == Cardinality(Cached)

\* The TTL of an entry runs out.
Expire(k) == /\ entries[k] # None /\ ~entries[k].expired
             /\ entries' = [entries EXCEPT ![k].expired = TRUE]
             /\ UNCHANGED <<usage, index, call>>

-----------------------------------------------------------------------------
(* set *)

\* The key set may push out: any one, when a new key meets a full cache.
Victims(k) == IF Len >= MaxEntries /\ entries[k] = None /\ Cached # {}
              THEN {{v} : v \in Cached} ELSE {{}}

\* Mutant: a full cache takes one more.
SetEntry_NoEviction(i, k, T) ==
    /\ Ready(i) /\ T \in usage.tagSets
    /\ entries' = [entries EXCEPT ![k] = Entry(T, i)]
    /\ call' = [call EXCEPT ![i] = [op |-> "set", key |-> k, tags |-> T]]
    /\ UNCHANGED <<usage, index>>

\* Under the entries lock: evict, with the evicted key's listings, and insert.
SetEntry(i, k, T) ==
    /\ Ready(i) /\ T \in usage.tagSets
    /\ \E E \in Victims(k) :
         /\ entries' = [x \in Keys |-> IF x = k THEN Entry(T, i)
                                       ELSE IF x \in E THEN None ELSE entries[x]]
         /\ index' = Unlist(E)
    /\ call' = [call EXCEPT ![i] = [op |-> "set", key |-> k, tags |-> T]]
    /\ UNCHANGED usage

\* Under the index lock: list the key.  The listings of an entry it
\* overwrote under other tags stay.
SetIndex(i) ==
    /\ call[i].op = "set"
    /\ LET k == call[i].key IN
       /\ index' = [t \in Tags |-> IF t \in call[i].tags THEN index[t] \cup {k} ELSE index[t]]
       /\ entries' = IF entries[k] # None /\ entries[k].setter = i
                     THEN [entries EXCEPT ![k].setter = None,
                             ![k].raced = {t \in call[i].tags : \E j \in Threads : CleansUp(j, t, k)}]
                     ELSE entries
    /\ call' = [call EXCEPT ![i] = Idle]
    /\ UNCHANGED usage

-----------------------------------------------------------------------------
(* invalidate_tag *)

\* Under the index lock: take the keys listed under t.
InvalidateIndex(i, t) ==
    /\ Ready(i)
    /\ call' = [call EXCEPT ![i] = [op |-> "invalidate", tag |-> t, keys |-> index[t]]]
    /\ index' = [index EXCEPT ![t] = {}]
    /\ entries' = [k \in Keys |->
                     IF entries[k] # None /\ entries[k].setter = None /\ t \in entries[k].tags
                     THEN [entries[k] EXCEPT !.invalid = @ \cup {t}] ELSE entries[k]]
    /\ UNCHANGED usage

\* Mutant: one key is dropped, not all of them.
InvalidateEntries_FirstOnly(i) ==
    /\ call[i].op = "invalidate"
    /\ LET all  == call[i].keys \cap Cached
           gone == IF all = {} THEN {} ELSE {CHOOSE k \in all : TRUE}
       IN entries' = [k \in Keys |-> IF k \in gone THEN None ELSE entries[k]]
    /\ call' = [call EXCEPT ![i] = [op |-> "prune_index", pairs |-> {}]]
    /\ UNCHANGED <<usage, index>>

\* Under the entries lock: drop those keys, noting their other tags.
InvalidateEntries(i) ==
    /\ call[i].op = "invalidate"
    /\ LET gone == call[i].keys \cap Cached IN
       /\ entries' = [k \in Keys |-> IF k \in gone THEN None ELSE entries[k]]
       /\ call' = [call EXCEPT ![i] =
                     [op |-> "prune_index",
                      pairs |-> UNION {{<<u, k>> : u \in entries[k].tags \ {call[i].tag}} : k \in gone}]]
    /\ UNCHANGED <<usage, index>>

\* Mutant: they are unlisted wherever they are listed by now.
InvalidatePrune_Everywhere(i) ==
    /\ call[i].op = "prune_index"
    /\ index' = [t \in Tags |-> {k \in index[t] : \A u \in Tags : <<u, k>> \notin call[i].pairs}]
    /\ call' = [call EXCEPT ![i] = Idle]
    /\ UNCHANGED <<usage, entries>>

\* Under the index lock again: unlist them under their other tags.
InvalidatePrune(i) ==
    /\ call[i].op = "prune_index"
    /\ index' = [t \in Tags |-> {k \in index[t] : <<t, k>> \notin call[i].pairs}]
    /\ call' = [call EXCEPT ![i] = Idle]
    /\ UNCHANGED <<usage, entries>>

-----------------------------------------------------------------------------
(* prune_expired and clear *)

\* Under a read lock: note the expired keys.
PruneCollect(i) ==
    /\ Ready(i)
    /\ \E k \in Cached : entries[k].expired
    /\ call' = [call EXCEPT ![i] = [op |-> "prune",
                                    keys |-> {k \in Cached : entries[k].expired}]]
    /\ UNCHANGED <<usage, entries, index>>

\* Mutant: a refreshed entry is spared, and unlisted all the same.
PruneRemove_UnlistsSpared(i) ==
    /\ call[i].op = "prune"
    /\ LET noted == call[i].keys \cap Cached IN
       /\ index' = Unlist(noted)
       /\ entries' = [k \in Keys |-> IF k \in noted /\ entries[k].expired
                                     THEN None ELSE entries[k]]
    /\ call' = [call EXCEPT ![i] = Idle]
    /\ UNCHANGED usage

\* Under both write locks: drop what is cached under those keys by now.
PruneRemove(i) ==
    /\ call[i].op = "prune"
    /\ LET gone == call[i].keys \cap Cached IN
       /\ index' = Unlist(gone)
       /\ entries' = [k \in Keys |-> IF k \in gone THEN None ELSE entries[k]]
    /\ call' = [call EXCEPT ![i] = Idle]
    /\ UNCHANGED usage

ClearEntries(i) ==
    /\ usage.clearing /\ Ready(i)
    /\ entries' = [k \in Keys |-> None]
    /\ call' = [call EXCEPT ![i] = [op |-> "clear"]]
    /\ UNCHANGED <<usage, index>>

ClearIndex(i) ==
    /\ call[i].op = "clear"
    /\ index' = [t \in Tags |-> {}]
    /\ call' = [call EXCEPT ![i] = Idle]
    /\ UNCHANGED <<usage, entries>>

-----------------------------------------------------------------------------
Next == \/ \E i \in Threads :
              \/ \E k \in Keys, T \in SUBSET Tags : SetEntry(i, k, T)
              \/ SetIndex(i)
              \/ \E t \in Tags : InvalidateIndex(i, t)
              \/ InvalidateEntries(i) \/ InvalidatePrune(i)
              \/ PruneCollect(i) \/ PruneRemove(i)
              \/ ClearEntries(i) \/ ClearIndex(i)
        \/ \E k \in Keys : Expire(k)

Spec == Init /\ [][Next]_vars

-----------------------------------------------------------------------------
(* Properties *)

Entries == [tags : SUBSET Tags, expired : BOOLEAN,
            setter : Threads \cup {None}, invalid : SUBSET Tags, raced : SUBSET Tags]

Calls == {Idle} \cup [op : {"set"}, key : Keys, tags : SUBSET Tags]
                \cup [op : {"invalidate"}, tag : Tags, keys : SUBSET Keys]
                \cup [op : {"prune_index"}, pairs : SUBSET (Tags \X Keys)]
                \cup [op : {"prune"}, keys : SUBSET Keys]
                \cup [op : {"clear"}]

\* The variables have their types, and the cache never holds more than
\* max_entries entries, however many threads insert (a capacity of zero still
\* keeps one; cache.rs:122-135).
TypeOK == /\ usage \in Usages
          /\ Len <= MaxEntries \/ (MaxEntries = 0 /\ Len = 1)
          /\ entries \in [Keys -> Entries \cup {None}]
          /\ index \in [Tags -> SUBSET Keys]
          /\ call \in [Threads -> Calls]

\* Every entry whose set has returned is listed under each of its tags, or an
\* invalidation of such a tag is about to drop it: nothing is cached out of
\* the reach of invalidate_tag, and the capacity is kept (cache.rs:122-190).
\* Excepted are tags that were raced: the clean-up of an entry dropped before
\* (cache.rs:181-190, 195-202) may unlist the one that has taken its place.
Reachable ==
  /\ TypeOK
  /\ \A k \in Cached : \A t \in entries[k].tags \ entries[k].raced :
        \/ k \in index[t]
        \/ entries[k].setter # None
        \/ \E i \in Threads : call[i].op = "invalidate" /\ k \in call[i].keys

\* When no operation is under way, no entry is served that some invalidation
\* should have dropped: late is allowed, never is not (cache.rs:18).  Excepted
\* again are invalidations of a tag under which its set was raced.
InvalidationSettles ==
    (\A i \in Threads : call[i] = Idle) =>
        \A k \in Keys : Hit(k) => entries[k].invalid \subseteq entries[k].raced

=============================================================================
