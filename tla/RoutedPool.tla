----------------------------- MODULE RoutedPool -----------------------------
(***************************************************************************)
(* RoutedPool of crates/runtime/src/pool.rs and its executor: reads routed *)
(* to the replicas that are marked healthy, and the checks that mark them. *)
(*                                                                         *)
(* The flags, the counts in flight and the round-robin index are separate  *)
(* atomics; every load, store or fetch_add is one action, so threads       *)
(* interleave between any two of them.  check_health also awaits between   *)
(* its steps.  A server that hangs answers no ping.                        *)
(***************************************************************************)
EXTENDS Integers, FiniteSets, Sequences

CONSTANTS Readers,     \* callers of the executor, one read at a time each
          Checkers,    \* callers of check_health
          Task,        \* the task of spawn_health_checks, one of Checkers
          Wrap,        \* number of values of usize
          Usages       \* the routers and uses to explore, see usage

\* A vector of replicas, or of futures that read, is shorter than usize counts.
ASSUME RoutedAssumption ==
    /\ Wrap \in Nat \ {0}
    /\ IsFiniteSet(Readers) /\ Cardinality(Readers) < Wrap
    /\ \A g \in Usages : /\ g.replicas \in 0 .. Wrap /\ g.changes \in Nat
                         /\ g.balancing \in {"RoundRobin", "LeastConnections", "Random"}
                         /\ g.fallback \in BOOLEAN
                         /\ g.readers \subseteq Readers /\ g.checkers \subseteq Checkers

(* usage: the number of replicas, load_balancing, fallback_to_primary, who *)
(* reads and who checks, and the bound on changes.                         *)
VARIABLES usage,
          server,   \* server[r]: "up", "down" or "hung"
          healthy,  \* healthy[r]: the flag
          active,   \* active[r]: the count active_conns
          rr,       \* rr_index
          read,     \* read[u]: the routing or the read of u
          check,    \* check[k]: the check_health of k
          task,     \* whether the handle of the background task is held
          changes,  \* how often servers turned or set_healthy was called
          steady,   \* history: flags set throughout the last routing of u
          ever,     \* history: flags set at some moment of it; both are kept
                    \* until the read ends
          calm,     \* history: nobody else's count changed during it
          rotation  \* history: the last list picked from, and gap[r], the
                    \* picks from it since r was picked

vars == <<usage, server, healthy, active, rr, read, check, task, changes,
          steady, ever, calm, rotation>>
env == <<usage, server, check, task, changes>>

All     == 1 .. usage.replicas
Primary == 0
Nowhere == -1

Routing(u) == read[u].step \in {"scan", "count", "start", "first"}
Marked     == {r \in All : healthy[r]}
Reading(r) == {u \in Readers : read[u].step = "run" /\ read[u].at = r}

NotReading  == [step |-> "idle", next |-> 1, seen |-> <<>>, at |-> Nowhere, load |-> 0]
NotChecking == [step |-> "idle", next |-> 1, ok |-> FALSE]

Init == /\ usage \in Usages
        /\ server = [r \in All |-> "up"]
        /\ healthy = [r \in All |-> TRUE]
        /\ active = [r \in All |-> 0]
        /\ rr = 0
        /\ read = [u \in Readers |-> NotReading]
        /\ check = [k \in Checkers |-> NotChecking]
        /\ task = (Task \in usage.checkers)
        /\ changes = 0
        /\ steady = [u \in Readers |-> {}] /\ ever = [u \in Readers |-> {}]
        /\ calm = {}
        /\ rotation = [of |-> <<>>, gap |-> [r \in All |-> 0]]

-----------------------------------------------------------------------------
(* Routing a read *)

\* A read, or select_replica, begins pick_healthy.
StartRead(u) ==
    /\ read[u].step = "idle" /\ u \in usage.readers
    /\ read' = [read EXCEPT ![u] = [NotReading EXCEPT !.step = "scan"]]
    /\ steady' = [steady EXCEPT ![u] = Marked]
    /\ ever' = [ever EXCEPT ![u] = Marked]
    /\ calm' = calm \cup {u}
    /\ UNCHANGED <<env, healthy, active, rr, rotation>>

\* The filter loads the next flag.
Scan(u) ==
    /\ read[u].step = "scan" /\ read[u].next \in All
    /\ LET r == read[u].next IN
         read' = [read EXCEPT ![u].next = r + 1,
                              ![u].seen = IF healthy[r] THEN Append(@, r) ELSE @]
    /\ UNCHANGED <<env, healthy, active, rr, steady, ever, calm, rotation>>

Scanned(u) == read[u].step = "scan" /\ read[u].next \notin All

Choose(u, r) == read' = [read EXCEPT ![u].step = "start", ![u].at = r]

\* History: the routing of u is over, and those in c remain calm.
Forget(u, c) ==
    /\ steady' = [steady EXCEPT ![u] = {}]
    /\ ever' = [ever EXCEPT ![u] = {}]
    /\ calm' = c

\* History: r was picked from list.
Picked(r, list) ==
    rotation' = [of |-> list,
                 gap |-> [s \in All |-> IF s = r \/ \A i \in DOMAIN list : list[i] # s THEN 0
                                        ELSE IF list = rotation.of THEN rotation.gap[s] + 1
                                        ELSE 1]]

\* Mutant: the index is into all replicas.
PickRoundRobin_AllReplicas(u) ==
    /\ usage.balancing = "RoundRobin" /\ Scanned(u) /\ read[u].seen # <<>>
    /\ Choose(u, (rr % usage.replicas) + 1)
    /\ Picked((rr % usage.replicas) + 1, read[u].seen)
    /\ rr' = (rr + 1) % Wrap
    /\ UNCHANGED <<env, healthy, active, steady, ever, calm>>

\* Mutant: modulo the number of replicas, and the first if that is not there.
PickRoundRobin_Skewed(u) ==
    /\ usage.balancing = "RoundRobin" /\ Scanned(u) /\ read[u].seen # <<>>
    /\ LET list == read[u].seen
           i == rr % usage.replicas
           r == IF i < Len(list) THEN list[i + 1] ELSE list[1]
       IN  Choose(u, r) /\ Picked(r, list)
    /\ rr' = (rr + 1) % Wrap
    /\ UNCHANGED <<env, healthy, active, steady, ever, calm>>

PickRoundRobin(u) ==
    /\ usage.balancing = "RoundRobin" /\ Scanned(u) /\ read[u].seen # <<>>
    /\ LET list == read[u].seen
           r == list[(rr % Len(list)) + 1]
       IN  Choose(u, r) /\ Picked(r, list)
    /\ rr' = (rr + 1) % Wrap
    /\ UNCHANGED <<env, healthy, active, steady, ever, calm>>

PickRandom(u) ==
    /\ usage.balancing = "Random" /\ Scanned(u)
    /\ \E i \in DOMAIN read[u].seen : Choose(u, read[u].seen[i])
    /\ rr' = (rr + 1) % Wrap
    /\ UNCHANGED <<env, healthy, active, steady, ever, calm, rotation>>

\* min_by_key begins; load is meaningless until the first count is read.
PickLeast(u) ==
    /\ usage.balancing = "LeastConnections" /\ Scanned(u) /\ read[u].seen # <<>>
    /\ read' = [read EXCEPT ![u].step = "count", ![u].next = 1]
    /\ UNCHANGED <<env, healthy, active, rr, steady, ever, calm, rotation>>

\* Mutant: max_by_key.
Count_Most(u) ==
    /\ read[u].step = "count"
    /\ LET i == read[u].next
           list == read[u].seen
           better == i = 1 \/ active[list[i]] > read[u].load
       IN  read' = [read EXCEPT ![u].next = i + 1,
                                ![u].step = IF i = Len(list) THEN "start" ELSE @,
                                ![u].at   = IF better THEN list[i] ELSE @,
                                ![u].load = IF better THEN active[list[i]] ELSE @]
    /\ UNCHANGED <<env, healthy, active, rr, steady, ever, calm, rotation>>

\* min_by_key reads the next count, and keeps the first of the least.
Count(u) ==
    /\ read[u].step = "count"
    /\ LET i == read[u].next
           list == read[u].seen
           better == i = 1 \/ active[list[i]] < read[u].load
       IN  read' = [read EXCEPT ![u].next = i + 1,
                                ![u].step = IF i = Len(list) THEN "start" ELSE @,
                                ![u].at   = IF better THEN list[i] ELSE @,
                                ![u].load = IF better THEN active[list[i]] ELSE @]
    /\ UNCHANGED <<env, healthy, active, rr, steady, ever, calm, rotation>>

\* None was found healthy: route_read answers Primary, or NoHealthyReplica, at
\* which the executor refuses the read.
PickNone(u) ==
    /\ Scanned(u) /\ read[u].seen = <<>>
    /\ read' = [read EXCEPT ![u] = IF usage.fallback \/ All = {}
                                   THEN [NotReading EXCEPT !.step = "run", !.at = Primary]
                                   ELSE NotReading]
    /\ UNCHANGED <<env, healthy, active, rr, steady, ever, calm, rotation>>

\* Mutant: the read holds no count while it runs.
Start_Uncounted(u) ==
    /\ read[u].step = "start"
    /\ read' = [read EXCEPT ![u] = [NotReading EXCEPT !.step = "run", !.at = read[u].at]]
    /\ UNCHANGED <<env, healthy, active, rr, steady, ever, calm, rotation>>

\* At NoHealthyReplica select_replica takes the first replica, marked as it is.
SelectFirst(u) ==
    /\ Scanned(u) /\ read[u].seen = <<>> /\ ~usage.fallback /\ All # {}
    /\ read' = [read EXCEPT ![u] = [NotReading EXCEPT !.step = "first", !.at = 1]]
    /\ UNCHANGED <<env, healthy, active, rr, steady, ever, calm, rotation>>

\* Mutant: the executor runs the read where select_replica would send it.
Start_Unmarked(u) ==
    /\ read[u].step \in {"start", "first"}
    /\ active' = [active EXCEPT ![read[u].at] = (@ + 1) % Wrap]
    /\ read' = [read EXCEPT ![u] = [NotReading EXCEPT !.step = "run", !.at = read[u].at]]
    /\ calm' = {}
    /\ UNCHANGED <<env, healthy, rr, steady, ever, rotation>>

\* InFlight::start
Start(u) ==
    /\ read[u].step = "start"
    /\ active' = [active EXCEPT ![read[u].at] = (@ + 1) % Wrap]
    /\ read' = [read EXCEPT ![u] = [NotReading EXCEPT !.step = "run", !.at = read[u].at]]
    /\ calm' = {}
    /\ UNCHANGED <<env, healthy, rr, steady, ever, rotation>>

\* select_replica returns the pool, uncounted.
Selected(u) ==
    /\ read[u].step \in {"start", "first"}
    /\ read' = [read EXCEPT ![u] = NotReading]
    /\ Forget(u, calm \ {u})
    /\ UNCHANGED <<env, healthy, active, rr, rotation>>

\* The result is returned, or the future or the stream is dropped.
Finish(u) ==
    /\ read[u].step = "run"
    /\ active' = IF read[u].at = Primary THEN active
                 ELSE [active EXCEPT ![read[u].at] = (@ - 1) % Wrap]
    /\ read' = [read EXCEPT ![u] = NotReading]
    /\ Forget(u, {})
    /\ UNCHANGED <<env, healthy, rr, rotation>>

-----------------------------------------------------------------------------
(* The flags *)

\* Replica r is marked b; the routings under way have it in their history.
Mark(r, b) ==
    /\ healthy' = [healthy EXCEPT ![r] = b]
    /\ steady' = [u \in Readers |-> IF Routing(u) /\ ~b THEN steady[u] \ {r} ELSE steady[u]]
    /\ ever' = [u \in Readers |-> IF Routing(u) /\ b THEN ever[u] \cup {r} ELSE ever[u]]

\* check_health is called, or the ticker of the background task ticks.
StartCheck(k) ==
    /\ check[k].step = "idle" /\ k \in usage.checkers
    /\ k = Task => task
    /\ check' = [check EXCEPT ![k] = [NotChecking EXCEPT !.step = "ping"]]
    /\ UNCHANGED <<usage, server, healthy, active, rr, read, task, changes, steady, ever, calm, rotation>>

\* ping returns
Ping(k) ==
    /\ check[k].step = "ping" /\ check[k].next \in All
    /\ server[check[k].next] # "hung"
    /\ check' = [check EXCEPT ![k].step = "store", ![k].ok = (server[check[k].next] = "up")]
    /\ UNCHANGED <<usage, server, healthy, active, rr, read, task, changes, steady, ever, calm, rotation>>

\* Mutant: a replica that answers is not marked healthy again.
Store_OnlyDown(k) ==
    /\ check[k].step = "store"
    /\ Mark(check[k].next, healthy[check[k].next] /\ check[k].ok)
    /\ check' = [check EXCEPT ![k].step = "ping", ![k].next = @ + 1, ![k].ok = FALSE]
    /\ UNCHANGED <<usage, server, active, rr, read, task, changes, calm, rotation>>

\* set_healthy(ok), and the loop goes on.
Store(k) ==
    /\ check[k].step = "store"
    /\ Mark(check[k].next, check[k].ok)
    /\ check' = [check EXCEPT ![k].step = "ping", ![k].next = @ + 1, ![k].ok = FALSE]
    /\ UNCHANGED <<usage, server, active, rr, read, task, changes, calm, rotation>>

\* The loop is over.
EndCheck(k) ==
    /\ check[k].step = "ping" /\ check[k].next \notin All
    /\ check' = [check EXCEPT ![k] = NotChecking]
    /\ UNCHANGED <<usage, server, healthy, active, rr, read, task, changes, steady, ever, calm, rotation>>

\* The future of check_health is dropped, which it can be at the ping.
CancelCheck(k) ==
    /\ check[k].step = "ping" /\ (k = Task => ~task)
    /\ check' = [check EXCEPT ![k] = NotChecking]
    /\ UNCHANGED <<usage, server, healthy, active, rr, read, task, changes, steady, ever, calm, rotation>>

\* HealthCheckTask::stop or its drop: the task is aborted at its next await.
StopTask ==
    /\ task /\ task' = FALSE
    /\ UNCHANGED <<usage, server, healthy, active, rr, read, check, changes, steady, ever, calm, rotation>>

\* The application calls set_healthy.
SetHealthy(r, b) ==
    /\ r \in All /\ changes < usage.changes /\ changes' = changes + 1
    /\ Mark(r, b)
    /\ UNCHANGED <<usage, server, active, rr, read, check, task, calm, rotation>>

\* A replica's server stops, hangs or recovers (external).
ServerTurns(r, s) ==
    /\ r \in All /\ server[r] # s /\ changes < usage.changes /\ changes' = changes + 1
    /\ usage.checkers # {}
    /\ server' = [server EXCEPT ![r] = s]
    /\ UNCHANGED <<usage, healthy, active, rr, read, check, task, steady, ever, calm, rotation>>

-----------------------------------------------------------------------------

MaxReplicas == LET ns == {g.replicas : g \in Usages}
               IN  CHOOSE n \in ns : \A m \in ns : m <= n

Next == \/ \E u \in Readers : StartRead(u)
        \/ \E u \in Readers : Scan(u)
        \/ \E u \in Readers : PickRoundRobin(u)
        \/ \E u \in Readers : PickRandom(u)
        \/ \E u \in Readers : PickLeast(u)
        \/ \E u \in Readers : Count(u)
        \/ \E u \in Readers : PickNone(u)
        \/ \E u \in Readers : SelectFirst(u)
        \/ \E u \in Readers : Start(u)
        \/ \E u \in Readers : Selected(u)
        \/ \E u \in Readers : Finish(u)
        \/ \E k \in Checkers : StartCheck(k)
        \/ \E k \in Checkers : Ping(k)
        \/ \E k \in Checkers : Store(k)
        \/ \E k \in Checkers : EndCheck(k)
        \/ \E k \in Checkers : CancelCheck(k)
        \/ StopTask
        \/ \E r \in 1 .. MaxReplicas, b \in BOOLEAN : SetHealthy(r, b)
        \/ \E r \in 1 .. MaxReplicas, s \in {"up", "down", "hung"} : ServerTurns(r, s)

Spec == Init /\ [][Next]_vars

\* A check that can go on does; the ticker of the background task ticks.
FairSpec == /\ Spec
            /\ \A k \in Checkers : WF_vars(Ping(k) \/ Store(k) \/ EndCheck(k))
            /\ WF_vars(StartCheck(Task))

-----------------------------------------------------------------------------

(* The state has its type.                                                 *)
TypeOK ==
    /\ usage \in Usages
    /\ server \in [All -> {"up", "down", "hung"}]
    /\ healthy \in [All -> BOOLEAN]
    /\ active \in [All -> 0 .. Wrap - 1]
    /\ rr \in 0 .. Wrap - 1
    /\ \A u \in Readers : /\ read[u].step \in {"idle", "scan", "count", "start", "first", "run"}
                          /\ read[u].at \in All \cup {Primary, Nowhere}
                          /\ read[u].next \in 1 .. usage.replicas + 1
    /\ \A k \in Checkers : /\ check[k].step \in {"idle", "ping", "store"}
                           /\ check[k].next \in 1 .. usage.replicas + 1
    /\ task \in BOOLEAN /\ changes \in 0 .. usage.changes

(* What the flags decide, however they change under a routing (route_read, *)
(* pick_healthy): a read of the executor runs on a replica, and            *)
(* select_replica returns one, only if that replica was marked healthy at  *)
(* some moment of the routing, with the exception that select_replica      *)
(* documents: without fallback_to_primary, when none was marked healthy    *)
(* throughout, it returns the first replica.  No healthy replica is found, *)
(* which sends the read to the primary or fails it, only if none was       *)
(* marked healthy throughout, and the primary reads only if it may.        *)
RoutedByFlags ==
    /\ TypeOK
    /\ \A u \in Readers :
        /\ read[u].step \in {"start", "run"} /\ read[u].at # Primary => read[u].at \in ever[u]
        /\ read[u].step = "first" => read[u].at = 1 /\ steady[u] = {} /\ ~usage.fallback
        /\ Scanned(u) /\ read[u].seen = <<>> => steady[u] = {}
        /\ read[u].at = Primary => steady[u] = {} /\ (usage.fallback \/ All = {})

(* Round robin leaves no replica out: of any n picks in a row from the     *)
(* same n healthy replicas, made by any threads, each replica gets one.    *)
(* If n does not divide 2^64, the picks around the wrap of rr_index may    *)
(* pass a replica over once, and it is 2n picks.                           *)
Turns(n) == IF Wrap % n = 0 THEN n ELSE 2 * n
RotationFair ==
    \A i \in DOMAIN rotation.of :
        rotation.gap[rotation.of[i]] < Turns(Len(rotation.of))

(* LeastConnections sends a read to a healthy replica that really has the  *)
(* fewest reads running, provided that no other read started or ended      *)
(* while it was being routed (pick_healthy, InFlight).                     *)
LeastLoaded ==
    \A u \in calm :
        usage.balancing = "LeastConnections" /\ read[u].step = "start"
            => \A i \in DOMAIN read[u].seen :
                 Cardinality(Reading(read[u].at)) <= Cardinality(Reading(read[u].seen[i]))

(* A replica's count is that of the reads it runs, whichever ended first   *)
(* and however they ended (InFlight).                                      *)
CountsTrue == \A r \in All : active[r] = Cardinality(Reading(r)) % Wrap

(* Reads are spread over the healthy replicas as the balancing says, which *)
(* for LeastConnections needs true counts (pick_healthy).                  *)
Balanced == RotationFair /\ LeastLoaded /\ CountsTrue

(* With the background checks running, the flags come to say which servers *)
(* answer, whatever other checks and calls of set_healthy were under way   *)
(* (check_health, spawn_health_checks).  The proviso is needed: one server *)
(* that hangs stops the checks of all.                                     *)
HealthFollows ==
    <>[](task /\ \A r \in All : server[r] # "hung")
        => <>[](\A r \in All : healthy[r] <=> server[r] = "up")
=============================================================================
