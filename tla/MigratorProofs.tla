--------------------------- MODULE MigratorProofs ---------------------------
(***************************************************************************)
(* Migrations: the runner of Migrator, and the commands of MigrateCli that *)
(* use it.                                                                 *)
(*                                                                         *)
(* The runner, for any number of processes, migrations and statements,     *)
(* with statements that fail and processes that die anywhere: in every     *)
(* usage a migration recorded as applied is in effect; where nobody else   *)
(* runs commands while a migration is undone, none is half done, and they  *)
(* keep their order.                                                       *)
(*                                                                         *)
(* The commands, for any tables, any number of migrations and any moment   *)
(* at which a command dies: except after the commands off tells of, the    *)
(* migrations that are recorded are the first of those on disk and lead to *)
(* the tables there are; and a snapshot that is not stale tells these.     *)
(* CliInv is the inductive invariant.  Most of this part is about Replay:  *)
(* what a history leads to depends on the files it is made of alone, and   *)
(* one more file, later than all of them, runs after them.                 *)
(***************************************************************************)
EXTENDS Migrator, MigrateCli, FiniteSetTheorems, WellFoundedInduction, TLAPS

Alone == \A p, q \in mode.procs : p = q
DeployOnly == mode.commands \subseteq {"apply"}

\* The usages for which the order and NothingHalfDone are promised.
Orderly == Alone \/ DeployOnly

-----------------------------------------------------------------------------
(* The inductive invariant, in three parts. *)

Steps == {"idle", "verify", "read", "next", "lock", "recheck", "run", "down", "drop"}

ProcType == [step : Steps, todo : Seq(Ids), k : 0 .. Stmts, stale : BOOLEAN, accept : BOOLEAN,
             outcome : {"none", "done", "mismatch", "refused", "exists", "failed", "crashed"}]

\* A process has a migration in hand, and has no outcome before it returns.
Busy(p) == /\ proc[p].step \in {"lock", "recheck", "run"} => proc[p].todo # <<>>
           /\ proc[p].step = "verify" => proc[p].outcome = "none"

Typed == TypeOK /\ \A p \in Procs : Busy(p)

\* The checksum a migration is recorded with: that of the version run, but
\* that of meta.json where the file was edited before.
RanSum(m) == IF m \in Drifted THEN meta[m] ELSE ran[m]

SumTrue == \A m \in Ids : Applied(m) => tracking[m].sum = RanSum(m)

Listed(p, m) == \E i \in DOMAIN proc[p].todo : proc[p].todo[i] = m

\* A deployer's list ascends, and holds whatever is not applied, ...
Deploys(p) == proc[p].step \in {"next", "lock", "recheck", "run"} =>
    /\ \A i, j \in DOMAIN proc[p].todo : i < j => proc[p].todo[i] < proc[p].todo[j]
    /\ \A m \in Ids : Applied(m) \/ Listed(p, m)

\* ... and the list of a rollback descends, and holds the newest applied.
RollsBack(p) == proc[p].step = "down" =>
    /\ \A i, j \in DOMAIN proc[p].todo : i < j => proc[p].todo[i] > proc[p].todo[j]
    /\ \A m \in Ids : Applied(m) => Listed(p, m) \/ \A i \in DOMAIN proc[p].todo : m < proc[p].todo[i]
    /\ proc[p].k > 0 => proc[p].todo # <<>> /\ schema[Current(p)] = Stmts - proc[p].k

\* On Postgres the lock is held from the second look at the table to the commit.
Holds(p) == mode.provider = "postgres" =>
    /\ proc[p].step \in {"recheck", "run"} => lock = p
    /\ proc[p].step = "run" => ~Applied(Current(p))
    /\ proc[p].outcome # "exists"

\* Who undoes anything is alone.
Permitted(p) == /\ ~Idle(p) => p \in mode.procs
                /\ proc[p].step \in {"down", "drop"} => Alone

ProcOK(p) == Permitted(p) /\ Deploys(p) /\ RollsBack(p) /\ Holds(p)

NoneHalf == Transactional => \A m \in Ids : ~Applied(m) => schema[m] = 0

OrderInv == Orderly /\ NoneHalf /\ AppliedInOrder /\ \A p \in Procs : ProcOK(p)

-----------------------------------------------------------------------------
(* Lists of migrations in order.                                           *)

LEMMA LeastNumber ==
  ASSUME NEW D \in SUBSET Nat, D # {}
  PROVE  \E n \in D : \A m \in D : n <= m
  <1> DEFINE R == OpToRel(<, Nat)
  <1>1. \A m, n \in Nat : <<m, n>> \in R <=> m < n
    BY DEF OpToRel
  <1>2. IsWellFoundedOn(R, Nat)
    BY NatLessThanWellFounded
  <1> HIDE DEF R
  <1>3. PICK n \in D : \A m \in D : ~ (<<m, n>> \in R)
    BY <1>2, WFMin
  <1>4. \A m \in D : m \in Nat /\ n \in Nat /\ ~ (m < n)
    BY <1>1, <1>3
  <1>5. \A m \in D : n <= m
    BY <1>4
  <1> QED
    BY <1>5

Ascends(s, S) ==
    /\ s \in [1 .. Cardinality(S) -> S]
    /\ \A i, j \in 1 .. Cardinality(S) : i < j => s[i] < s[j]

\* Any finite set of numbers can be listed in ascending order: there is no
\* least n for which some subset of 1 .. n cannot.
LEMMA CanBeListed ==
  ASSUME NEW n \in Nat, NEW S \in SUBSET (1 .. n)
  PROVE  \E s : Ascends(s, S)
  <1> DEFINE D == {m \in Nat : ~ \A T \in SUBSET (1 .. m) : \E s : Ascends(s, T)}
  <1> SUFFICES ASSUME D # {} PROVE FALSE
    OBVIOUS
  <1>1. PICK m \in D : \A k \in D : m <= k
    BY LeastNumber
  <1>2. PICK T \in SUBSET (1 .. m) : ~ \E s : Ascends(s, T)
    BY <1>1
  <1>3. m \in Nat
    OBVIOUS
  <1>4. IsFiniteSet(T)
    <2>1. IsFiniteSet(1 .. m)
      BY <1>3, FS_Interval
    <2> QED
      BY <2>1, FS_Subset
  <1>5. T # {}
    <2>1. T = {} => Ascends(<<>>, T)
      BY FS_EmptySet DEF Ascends
    <2> QED
      BY <2>1, <1>2
  <1>6. m # 0
    <2>1. m = 0 => 1 .. m = {}
      BY <1>3
    <2> QED
      BY <2>1, <1>5
  <1>7. m - 1 \in Nat /\ m - 1 \notin D
    BY <1>1, <1>6
  <1> DEFINE U == T \ {m}
             c == Cardinality(U)
  <1>8. U \in SUBSET (1 .. m - 1)
    BY <1>3
  <1>9. PICK s : Ascends(s, U)
    BY <1>7, <1>8
  <1>10. m \in T
    <2>1. m \notin T => U = T
      OBVIOUS
    <2> QED
      BY <2>1, <1>9, <1>2
  <1>11. Cardinality(T) = c + 1 /\ c \in Nat
    BY <1>4, <1>10, FS_RemoveElement, FS_Subset, FS_CardinalityType
  <1>12. \A i \in 1 .. c : s[i] \in U /\ s[i] < m
    <2>1. \A i \in 1 .. c : s[i] \in U
      BY <1>9 DEF Ascends
    <2>2. \A u \in 1 .. m - 1 : u < m
      BY <1>3
    <2> QED
      BY <2>1, <2>2, <1>8
  <1>13. \A i, j \in 1 .. c : i < j => s[i] < s[j]
    BY <1>9 DEF Ascends
  <1> DEFINE t == [i \in 1 .. c + 1 |-> IF i = c + 1 THEN m ELSE s[i]]
  <1> HIDE DEF c, U
  <1>14. t \in [1 .. c + 1 -> T]
    BY <1>10, <1>11, <1>12 DEF U
  <1>15. \A i, j \in 1 .. c + 1 : i < j => t[i] < t[j]
    BY <1>11, <1>12, <1>13
  <1> HIDE DEF t
  <1>16. Ascends(t, T)
    BY <1>11, <1>14, <1>15 DEF Ascends
  <1> QED
    BY <1>16, <1>2

\* What InNameOrder returns.
LEMMA InNameOrderIs ==
  ASSUME NEW S \in SUBSET Ids
  PROVE  /\ InNameOrder(S) \in Seq(Ids)
         /\ \A i, j \in DOMAIN InNameOrder(S) : i < j => InNameOrder(S)[i] < InNameOrder(S)[j]
         /\ \A m \in Ids : m \in S <=> \E i \in DOMAIN InNameOrder(S) : InNameOrder(S)[i] = m
  <1> DEFINE c == Cardinality(S)
             s == InNameOrder(S)
  <1>1. N \in Nat
    BY MigratorAssumption
  <1>2. IsFiniteSet(S) /\ c \in Nat
    <2>1. IsFiniteSet(Ids)
      BY <1>1, FS_Interval DEF Ids
    <2>2. IsFiniteSet(S)
      BY <2>1, FS_Subset
    <2> QED
      BY <2>2, FS_CardinalityType
  <1>3. \E t \in [1 .. c -> S] : \A i, j \in 1 .. c : i < j => t[i] < t[j]
    BY <1>1, CanBeListed DEF Ids, Ascends
  <1>4. s \in [1 .. c -> S] /\ \A i, j \in 1 .. c : i < j => s[i] < s[j]
    BY <1>3 DEF InNameOrder
  <1> HIDE DEF s, c
  <1>5. s \in Injection(1 .. c, S)
    <2>1. \A i \in 1 .. c : s[i] \in S /\ S \subseteq Int
      BY <1>1, <1>4 DEF Ids
    <2>2. ASSUME NEW i \in 1 .. c, NEW j \in 1 .. c, s[i] = s[j] PROVE i = j
      <3>1. ~ (i < j) /\ ~ (j < i)
        BY <1>4, <2>1, <2>2
      <3> QED
        BY <3>1, <1>2
    <2> QED
      BY <1>4, <2>2 DEF Injection, IsInjective
  <1>6. IsFiniteSet(1 .. c) /\ Cardinality(1 .. c) = Cardinality(S)
    BY <1>2, FS_Interval DEF c
  <1>7. s \in Surjection(1 .. c, S)
    BY <1>2, <1>5, <1>6, FS_Injection
  <1>8. \A m \in S : \E i \in 1 .. c : s[i] = m
    BY <1>7 DEF Surjection
  <1>9. s \in Seq(Ids) /\ DOMAIN s = 1 .. c
    BY <1>2, <1>4
  <1> QED
    BY <1>4, <1>8, <1>9 DEF s

-----------------------------------------------------------------------------
(* Types.                                                                  *)

\* The types of the variables, as the steps below use them.
LEMMA Types ==
  Typed <=> /\ mode \in Modes
            /\ up \in [Ids -> Versions] /\ meta \in [Ids -> Versions \cup {None}]
            /\ schema \in [Ids -> 0 .. Stmts]
            /\ tracking \in [Ids -> [sum : Versions \cup {None}, back : BOOLEAN]]
            /\ lock \in Procs \cup {None}
            /\ proc \in [Procs -> ProcType]
            /\ ran \in [Ids -> Versions]
            /\ resolved \subseteq Ids /\ undoing \subseteq Ids
            /\ \A p \in Procs : Busy(p)
  BY DEF Typed, TypeOK, ProcType, Steps

\* What the assumptions on the constants say of them.
LEMMA Consts == /\ N \in Nat /\ Stmts \in Nat /\ Stmts > 0 /\ MaxVersion \in Nat
                /\ None \notin Procs /\ None \notin Versions
  BY MigratorAssumption

LEMMA EndedType ==
  ASSUME NEW o \in {"none", "done", "mismatch", "refused", "exists", "failed", "crashed"}
  PROVE  /\ Ended(o) \in ProcType /\ Ended(o).step = "idle" /\ Ended(o).todo = <<>>
         /\ Ended(o).outcome = o /\ Ended(o).k = 0
  BY Consts DEF Ended, ProcType, Steps

\* The migration in hand, and the rest of the list.
LEMMA HeadTail ==
  ASSUME Typed, NEW p \in Procs, proc[p].todo # <<>>
  PROVE  /\ Current(p) \in Ids /\ Tail(proc[p].todo) \in Seq(Ids)
         /\ Current(p) = proc[p].todo[1] /\ 1 \in DOMAIN proc[p].todo
         /\ \A i \in DOMAIN Tail(proc[p].todo) :
               i + 1 \in DOMAIN proc[p].todo /\ i > 0 /\ i \in Nat /\ Tail(proc[p].todo)[i] = proc[p].todo[i + 1]
         /\ \A i \in DOMAIN proc[p].todo :
               i # 1 => i - 1 \in DOMAIN Tail(proc[p].todo) /\ i > 1 /\ Tail(proc[p].todo)[i - 1] = proc[p].todo[i]
  <1>1. proc[p].todo \in Seq(Ids)
    BY Types DEF ProcType
  <1> HIDE DEF Typed
  <1> DEFINE s == proc[p].todo
  <1>2. s \in Seq(Ids) /\ s # <<>>
    BY <1>1
  <1>3. Current(p) = Head(s)
    BY DEF Current
  <1> HIDE DEF s
  <1>4. Len(s) \in Nat /\ Len(s) > 0 /\ DOMAIN s = 1 .. Len(s)
    BY <1>2
  <1>5. Head(s) = s[1] /\ Tail(s) \in Seq(Ids) /\ DOMAIN Tail(s) = 1 .. Len(s) - 1
         /\ \A i \in 1 .. Len(s) - 1 : Tail(s)[i] = s[i + 1]
    BY <1>2, <1>4
  <1>6. Head(s) \in Ids
    BY <1>2, <1>4, <1>5
  <1>7. \A i \in DOMAIN Tail(s) : i + 1 \in DOMAIN s /\ i > 0 /\ i \in Nat /\ Tail(s)[i] = s[i + 1]
    BY <1>4, <1>5
  <1>8. \A i \in DOMAIN s : i # 1 => i - 1 \in DOMAIN Tail(s) /\ i > 1 /\ Tail(s)[i - 1] = s[i]
    BY <1>4, <1>5
  <1> QED
    BY <1>3, <1>4, <1>5, <1>6, <1>7, <1>8 DEF s

LEMMA InitTyped == Init => Typed
  <1> SUFFICES ASSUME Init PROVE Typed
    OBVIOUS
  <1>1. 0 \in Versions /\ 0 \in 0 .. Stmts
    BY Consts DEF Versions
  <1>2. proc \in [Procs -> ProcType] /\ \A p \in Procs : Busy(p)
    BY EndedType DEF Init, Busy
  <1>3. tracking \in [Ids -> [sum : Versions \cup {None}, back : BOOLEAN]]
    BY DEF Init, NoRow
  <1> QED
    BY <1>1, <1>2, <1>3, Types DEF Init

\* A step of one process p, which goes on as r.
LEMMA OneProc ==
  ASSUME Typed, NEW p \in Procs, NEW r \in ProcType, proc' = [proc EXCEPT ![p] = r]
  PROVE  /\ proc' \in [Procs -> ProcType] /\ proc'[p] = r
         /\ \A q \in Procs : q # p => proc'[q] = proc[q]
  BY Types

LEMMA OneProcTyped ==
  ASSUME Typed, NEW p \in Procs, NEW r \in ProcType, proc' = [proc EXCEPT ![p] = r],
         r.step \in {"lock", "recheck", "run"} => r.todo # <<>>,
         r.step = "verify" => r.outcome = "none",
         UNCHANGED <<disk, ran>>, schema' \in [Ids -> 0 .. Stmts],
         tracking' \in [Ids -> [sum : Versions \cup {None}, back : BOOLEAN]],
         lock' \in Procs \cup {None}, resolved' \subseteq Ids, undoing' \subseteq Ids
  PROVE  Typed'
  <1>1. /\ proc' \in [Procs -> ProcType] /\ proc'[p] = r
        /\ \A q \in Procs : q # p => proc'[q] = proc[q]
    BY OneProc
  <1>2. (\A q \in Procs : Busy(q))'
    BY <1>1, Types DEF Busy
  <1> QED
    BY <1>1, <1>2, Types DEF disk, Typed, TypeOK, ProcType, Steps

\* A step that changes neither the database nor the files.
LEMMA QuietTyped ==
  ASSUME Typed, NEW p \in Procs, NEW r \in ProcType, proc' = [proc EXCEPT ![p] = r],
         r.step \in {"lock", "recheck", "run"} => r.todo # <<>>,
         r.step = "verify" => r.outcome = "none",
         UNCHANGED <<disk, schema, tracking, history>>, lock' \in Procs \cup {None}
  PROVE  Typed'
  BY OneProcTyped, Types DEF history

\* The record that each step leaves in proc[p], and what that makes of the lock.
LEMMA EndRecord ==
  ASSUME Typed, NEW p \in Procs, NEW o, End(p, o),
         o \in {"none", "done", "mismatch", "refused", "exists", "failed", "crashed"}
  PROVE  /\ proc' = [proc EXCEPT ![p] = Ended(o)] /\ Ended(o) \in ProcType
         /\ lock' \in Procs \cup {None} /\ lock' # p
         /\ \A q \in Procs : q # p /\ lock = q => lock' = q
  BY EndedType, Types, Consts DEF End, Free

LEMMA GotoRecord ==
  ASSUME Typed, NEW p \in Procs, NEW s \in Steps, Goto(p, s)
  PROVE  LET r == [proc[p] EXCEPT !.step = s]
         IN  proc' = [proc EXCEPT ![p] = r] /\ r \in ProcType
  BY Types DEF Goto, ProcType

-----------------------------------------------------------------------------
(* Every step keeps the types.                                             *)

\* A step that ends a command, or goes on to another of its steps.
LEMMA EndTyped ==
  ASSUME Typed, NEW p \in Procs, NEW o, End(p, o),
         o \in {"none", "done", "mismatch", "refused", "exists", "failed", "crashed"},
         UNCHANGED <<disk, schema, tracking, history>>
  PROVE  Typed'
  <1>1. /\ proc' = [proc EXCEPT ![p] = Ended(o)] /\ Ended(o) \in ProcType
        /\ lock' \in Procs \cup {None}
    BY EndRecord
  <1>2. Ended(o).step = "idle"
    BY EndedType
  <1> QED
    BY <1>1, <1>2, QuietTyped

LEMMA GotoTyped ==
  ASSUME Typed, NEW p \in Procs, NEW s \in Steps, Goto(p, s), s # "verify",
         s \in {"lock", "recheck", "run"} => proc[p].todo # <<>>,
         UNCHANGED <<disk, schema, tracking, history>>, lock' \in Procs \cup {None}
  PROVE  Typed'
  <1> DEFINE r == [proc[p] EXCEPT !.step = s]
  <1>1. proc' = [proc EXCEPT ![p] = r] /\ r \in ProcType
    BY GotoRecord
  <1>2. r.step = s /\ r.todo = proc[p].todo
    BY Types DEF ProcType
  <1> HIDE DEF r
  <1> QED
    BY <1>1, <1>2, QuietTyped

LEMMA StartApplyRecord ==
  ASSUME Typed, NEW p \in Procs, NEW accept \in BOOLEAN, StartApply(p, accept)
  PROVE  LET r == [Ended("none") EXCEPT !.step = "verify", !.accept = accept]
         IN  /\ proc' = [proc EXCEPT ![p] = r] /\ r \in ProcType
             /\ r.step = "verify" /\ r.outcome = "none"
  <1>1. Ended("none") \in ProcType /\ Ended("none").outcome = "none"
    BY EndedType
  <1> QED
    BY <1>1 DEF StartApply, ProcType, Steps

LEMMA ReadPendingRecord ==
  ASSUME Typed, NEW p \in Procs, ReadPending(p)
  PROVE  LET r == [proc[p] EXCEPT !.step = "next", !.todo = InNameOrder({m \in Ids : ~Applied(m)})]
         IN  /\ proc' = [proc EXCEPT ![p] = r] /\ r \in ProcType /\ r.outcome = proc[p].outcome
             /\ r.step = "next" /\ r.todo = InNameOrder({m \in Ids : ~Applied(m)}) /\ r.k = proc[p].k
  <1>1. InNameOrder({m \in Ids : ~Applied(m)}) \in Seq(Ids)
    BY InNameOrderIs
  <1> QED
    BY <1>1, Types DEF ReadPending, ProcType, Steps

\* The two ways out of Recheck.
LEMMA RecheckRecord ==
  ASSUME Typed, NEW p \in Procs, Recheck(p)
  PROVE  \/ LET r == [proc[p] EXCEPT !.step = "next", !.todo = Tail(@)]
            IN  /\ proc' = [proc EXCEPT ![p] = r] /\ r \in ProcType
                /\ r.step = "next" /\ r.todo = Tail(proc[p].todo) /\ r.outcome = proc[p].outcome
                /\ Applied(Current(p)) /\ Free(p)
         \/ LET r == [proc[p] EXCEPT !.step = "run", !.k = 0, !.stale = FALSE]
            IN  /\ proc' = [proc EXCEPT ![p] = r] /\ r \in ProcType
                /\ r.step = "run" /\ r.todo = proc[p].todo /\ r.outcome = proc[p].outcome
                /\ ~Applied(Current(p)) /\ lock' = lock
  <1>1. proc[p].todo # <<>>
    BY DEF Recheck, Typed, Busy
  <1>2. Tail(proc[p].todo) \in Seq(Ids)
    BY <1>1, HeadTail
  <1>3. proc[p] \in ProcType
    BY Types
  <1>4. CASE Applied(Current(p))
    <2> DEFINE r == [proc[p] EXCEPT !.step = "next", !.todo = Tail(@)]
    <2>1. proc' = [proc EXCEPT ![p] = r]
      BY <1>4, Types DEF Recheck
    <2>2. /\ r \in ProcType /\ r.step = "next" /\ r.todo = Tail(proc[p].todo)
          /\ r.outcome = proc[p].outcome
      BY <1>2, <1>3 DEF ProcType, Steps
    <2> QED
      BY <1>4, <2>1, <2>2 DEF Recheck
  <1>5. CASE ~Applied(Current(p))
    <2> DEFINE r == [proc[p] EXCEPT !.step = "run", !.k = 0, !.stale = FALSE]
    <2>1. proc' = [proc EXCEPT ![p] = r]
      BY <1>5, Types DEF Recheck
    <2>2. /\ r \in ProcType /\ r.step = "run" /\ r.todo = proc[p].todo
          /\ r.outcome = proc[p].outcome
      <3>1. 0 \in 0 .. Stmts /\ "run" \in Steps
        BY Consts DEF Steps
      <3> QED
        BY <1>3, <3>1 DEF ProcType
    <2> QED
      BY <1>5, <2>1, <2>2 DEF Recheck
  <1> QED
    BY <1>4, <1>5

\* A statement of p.
LEMMA CountRecord ==
  ASSUME Typed, NEW p \in Procs, proc[p].k < Stmts, proc' = [proc EXCEPT ![p].k = @ + 1]
  PROVE  LET r == [proc[p] EXCEPT !.k = @ + 1]
         IN  /\ proc' = [proc EXCEPT ![p] = r] /\ r \in ProcType /\ r.k = proc[p].k + 1
             /\ r.step = proc[p].step /\ r.todo = proc[p].todo /\ r.outcome = proc[p].outcome
  <1>1. proc[p].k \in 0 .. Stmts /\ proc[p].k + 1 \in 0 .. Stmts
    BY Types, Consts DEF ProcType
  <1> QED
    BY <1>1, Types DEF ProcType

\* What a commit does to the processes.
LEMMA CommitRecord ==
  ASSUME Typed, NEW p \in Procs, Commit(p)
  PROVE  /\ proc' \in [Procs -> ProcType] /\ proc[p].todo # <<>> /\ Current(p) \in Ids
         /\ proc'[p].step = "next" /\ proc'[p].todo = Tail(proc[p].todo)
         /\ proc'[p].outcome = proc[p].outcome
         /\ \A q \in Procs : q # p =>
               /\ proc'[q].step = proc[q].step /\ proc'[q].todo = proc[q].todo
               /\ proc'[q].outcome = proc[q].outcome /\ proc'[q].k = proc[q].k
  <1>1. proc[p].todo # <<>>
    BY DEF Commit, Typed, Busy
  <1>2. Tail(proc[p].todo) \in Seq(Ids) /\ Current(p) \in Ids
    BY <1>1, HeadTail
  <1>3. proc' = [q \in Procs |->
                  IF q = p THEN [proc[p] EXCEPT !.step = "next", !.todo = Tail(@)]
                  ELSE [proc[q] EXCEPT !.stale = proc[q].step = "run"]]
    BY DEF Commit
  <1>4. [proc[p] EXCEPT !.step = "next", !.todo = Tail(@)] \in ProcType
    BY <1>2, Types DEF ProcType, Steps
  <1>5. \A q \in Procs : [proc[q] EXCEPT !.stale = (proc[q].step = "run")] \in ProcType
    BY Types DEF ProcType
  <1> QED
    BY <1>1, <1>2, <1>3, <1>4, <1>5, Types DEF ProcType

LEMMA CommitTyped == ASSUME Typed, NEW p \in Procs, Commit(p) PROVE Typed'
  <1>1. /\ proc' \in [Procs -> ProcType] /\ Current(p) \in Ids
        /\ proc'[p].step = "next"
        /\ \A q \in Procs : q # p => /\ proc'[q].step = proc[q].step /\ proc'[q].todo = proc[q].todo
                                     /\ proc'[q].outcome = proc[q].outcome
    BY CommitRecord
  <1>2. (\A q \in Procs : Busy(q))'
    BY <1>1, Types DEF Busy
  <1>3. RecordedSum(Current(p)) \in Versions \cup {None} /\ up[Current(p)] \in Versions
    BY <1>1, Types DEF RecordedSum
  <1>4. schema' \in [Ids -> 0 .. Stmts] /\ ran' \in [Ids -> Versions] /\ resolved' \subseteq Ids
    BY <1>1, <1>3, Consts, Types DEF Commit
  <1>5. tracking' \in [Ids -> [sum : Versions \cup {None}, back : BOOLEAN]]
    BY <1>1, <1>3, Types DEF Commit
  <1>6. lock' \in Procs \cup {None} /\ UNCHANGED <<disk, undoing>>
    BY Types DEF Commit, Free
  <1> QED
    BY <1>1, <1>2, <1>4, <1>5, <1>6, Types DEF disk, Typed, TypeOK, ProcType, Steps

\* The list of a rollback: the n newest applied migrations, newest first.
LEMMA RollbackList ==
  ASSUME Typed, NEW n \in Ids
  PROVE  LET ids == Reverse(InNameOrder({m \in Ids : Applied(m)}))
             s == SubSeq(ids, 1, IF n < Len(ids) THEN n ELSE Len(ids))
         IN  /\ s \in Seq(Ids)
             /\ \A i, j \in DOMAIN s : i < j => s[i] > s[j]
             /\ \A i \in DOMAIN s : s[i] \in Ids /\ Applied(s[i])
             /\ \A m \in Ids : Applied(m) =>
                    (\E i \in DOMAIN s : s[i] = m) \/ \A i \in DOMAIN s : m < s[i]
  <1> DEFINE S == {m \in Ids : Applied(m)}
             a == InNameOrder(S)
             ids == Reverse(a)
             l == IF n < Len(ids) THEN n ELSE Len(ids)
             s == SubSeq(ids, 1, l)
  <1>1. /\ a \in Seq(Ids)
        /\ \A i, j \in DOMAIN a : i < j => a[i] < a[j]
        /\ \A m \in Ids : m \in S <=> \E i \in DOMAIN a : a[i] = m
    BY InNameOrderIs
  <1> HIDE DEF a
  <1>2. Len(a) \in Nat /\ DOMAIN a = 1 .. Len(a)
    BY <1>1
  <1>3. \A i \in 1 .. Len(a) : Len(a) - i + 1 \in 1 .. Len(a)
    BY <1>2
  <1>4. \A i \in 1 .. Len(a) : a[i] \in Ids
    BY <1>1, <1>2
  <1>5. /\ ids \in Seq(Ids) /\ Len(ids) = Len(a)
        /\ \A i \in 1 .. Len(a) : ids[i] = a[Len(a) - i + 1]
    BY <1>2, <1>3, <1>4 DEF Reverse
  <1> HIDE DEF ids
  <1>6. \A i \in 1 .. Len(a) : ids[i] \in Ids /\ ids[i] \in S
    BY <1>1, <1>2, <1>3, <1>4, <1>5
  <1>7. \A i, j \in 1 .. Len(a) : i < j => ids[j] < ids[i]
    <2> SUFFICES ASSUME NEW i \in 1 .. Len(a), NEW j \in 1 .. Len(a), i < j
                 PROVE  ids[j] < ids[i]
      OBVIOUS
    <2>1. Len(a) - j + 1 < Len(a) - i + 1
      BY <1>2
    <2> QED
      BY <2>1, <1>1, <1>2, <1>3, <1>5
  <1>8. \A m \in S : \E i \in 1 .. Len(a) : ids[i] = m
    <2> SUFFICES ASSUME NEW m \in S PROVE \E i \in 1 .. Len(a) : ids[i] = m
      OBVIOUS
    <2>1. PICK i \in 1 .. Len(a) : a[i] = m
      BY <1>1, <1>2
    <2>2. Len(a) - i + 1 \in 1 .. Len(a) /\ Len(a) - (Len(a) - i + 1) + 1 = i
      BY <1>2
    <2> QED
      BY <2>1, <2>2, <1>5
  <1>9. l \in Nat /\ l <= Len(a)
    BY <1>2, <1>5, Consts DEF Ids
  <1> HIDE DEF l
  <1>10. s \in Seq(Ids) /\ Len(s) = l /\ DOMAIN s = 1 .. l /\ \A i \in 1 .. l : s[i] = ids[i]
    BY <1>2, <1>5, <1>9
  <1> HIDE DEF s
  <1>11. 1 .. l \subseteq 1 .. Len(a)
    BY <1>2, <1>9
  <1>12. \A i, j \in DOMAIN s : i < j => s[i] > s[j]
    <2> SUFFICES ASSUME NEW i \in 1 .. l, NEW j \in 1 .. l, i < j PROVE s[i] > s[j]
      BY <1>10
    <2>1. ids[j] < ids[i] /\ ids[j] \in Int /\ ids[i] \in Int
      BY <1>6, <1>7, <1>11 DEF Ids
    <2> QED
      BY <2>1, <1>10
  <1>13. \A i \in DOMAIN s : s[i] \in Ids /\ Applied(s[i])
    BY <1>6, <1>10, <1>11
  <1>14. ASSUME NEW m \in Ids, Applied(m), ~ \E i \in DOMAIN s : s[i] = m, NEW i \in DOMAIN s
         PROVE  m < s[i]
    <2>1. PICK j \in 1 .. Len(a) : ids[j] = m
      BY <1>8, <1>14
    <2>2. j \notin 1 .. l
      BY <2>1, <1>10, <1>14
    <2>3. i \in 1 .. l /\ i < j /\ i \in 1 .. Len(a)
      BY <2>2, <1>9, <1>10, <1>11
    <2> QED
      BY <2>1, <2>3, <1>7, <1>10
  <1> QED
    BY <1>10, <1>12, <1>13, <1>14 DEF s, l, ids, a

LEMMA StartRollbackRecord ==
  ASSUME Typed, NEW p \in Procs, NEW n \in Ids, StartRollback(p, n)
  PROVE  LET ids == Reverse(InNameOrder({m \in Ids : Applied(m)}))
             s == SubSeq(ids, 1, IF n < Len(ids) THEN n ELSE Len(ids))
             r == [Ended("none") EXCEPT !.step = "down", !.todo = s]
         IN  /\ proc' = [proc EXCEPT ![p] = r] /\ r \in ProcType
             /\ r.step = "down" /\ r.todo = s /\ r.k = 0 /\ r.outcome = "none"
  <1> DEFINE ids == Reverse(InNameOrder({m \in Ids : Applied(m)}))
             s == SubSeq(ids, 1, IF n < Len(ids) THEN n ELSE Len(ids))
  <1>1. s \in Seq(Ids)
    BY RollbackList
  <1>2. proc' = [proc EXCEPT ![p] = [Ended("none") EXCEPT !.step = "down", !.todo = s]]
    BY DEF StartRollback
  <1> HIDE DEF s
  <1>3. Ended("none") \in ProcType /\ Ended("none").outcome = "none" /\ Ended("none").k = 0
    BY EndedType
  <1>4. LET r == [Ended("none") EXCEPT !.step = "down", !.todo = s]
        IN  r \in ProcType /\ r.step = "down" /\ r.todo = s /\ r.k = 0 /\ r.outcome = "none"
    BY <1>1, <1>3 DEF ProcType, Steps
  <1> QED
    BY <1>2, <1>4 DEF s

LEMMA MarkRecord ==
  ASSUME Typed, NEW p \in Procs, MarkRolledBack(p)
  PROVE  LET r == [proc[p] EXCEPT !.todo = Tail(@), !.k = 0]
         IN  /\ proc' = [proc EXCEPT ![p] = r] /\ r \in ProcType /\ r.step = "down"
             /\ r.todo = Tail(proc[p].todo) /\ r.k = 0 /\ r.outcome = proc[p].outcome
  <1>1. proc[p].todo # <<>> /\ proc[p].step = "down"
    BY DEF MarkRolledBack
  <1>2. Tail(proc[p].todo) \in Seq(Ids)
    BY <1>1, HeadTail
  <1>3. 0 \in 0 .. Stmts /\ proc[p] \in ProcType
    BY Types, Consts
  <1>4. LET r == [proc[p] EXCEPT !.todo = Tail(@), !.k = 0]
        IN  /\ r \in ProcType /\ r.step = "down" /\ r.todo = Tail(proc[p].todo) /\ r.k = 0
            /\ r.outcome = proc[p].outcome
    BY <1>1, <1>2, <1>3 DEF ProcType
  <1>5. proc' = [proc EXCEPT ![p] = [proc[p] EXCEPT !.todo = Tail(@), !.k = 0]]
    BY Types DEF MarkRolledBack
  <1> QED
    BY <1>4, <1>5

\* The steps of a deployment.
LEMMA DeployTyped ==
  ASSUME Typed, NEW p \in Procs,
         \/ \E accept \in BOOLEAN : StartApply(p, accept)
         \/ Verify(p) \/ ReadPending(p) \/ NextMigration(p) \/ TakeLock(p) \/ Recheck(p)
         \/ RunStatement(p) \/ StatementFails(p) \/ Commit(p)
  PROVE  Typed'
  <1>1. ASSUME NEW accept \in BOOLEAN, StartApply(p, accept) PROVE Typed'
    <2> DEFINE r == [Ended("none") EXCEPT !.step = "verify", !.accept = accept]
    <2>1. proc' = [proc EXCEPT ![p] = r] /\ r \in ProcType /\ r.step = "verify" /\ r.outcome = "none"
      BY <1>1, StartApplyRecord
    <2> HIDE DEF r
    <2>2. UNCHANGED <<disk, schema, tracking, history>> /\ lock' \in Procs \cup {None}
      BY <1>1, Types DEF StartApply
    <2> QED
      BY <2>1, <2>2, QuietTyped
  <1>2. CASE Verify(p)
    <2>1. \/ End(p, "mismatch") /\ UNCHANGED <<disk, schema, tracking, history>>
          \/ Goto(p, "read") /\ UNCHANGED <<lock, disk, schema, tracking, history>>
      BY <1>2 DEF Verify
    <2> QED
      BY <2>1, EndTyped, GotoTyped, Types DEF Steps
  <1>3. CASE ReadPending(p)
    <2> DEFINE r == [proc[p] EXCEPT !.step = "next", !.todo = InNameOrder({m \in Ids : ~Applied(m)})]
    <2>1. proc' = [proc EXCEPT ![p] = r] /\ r \in ProcType /\ r.step = "next"
      BY <1>3, ReadPendingRecord
    <2> HIDE DEF r
    <2>2. UNCHANGED <<disk, schema, tracking, history>> /\ lock' \in Procs \cup {None}
      BY <1>3, Types DEF ReadPending
    <2> QED
      BY <2>1, <2>2, QuietTyped
  <1>4. CASE NextMigration(p)
    <2>1. UNCHANGED <<disk, schema, tracking, history>>
      BY <1>4 DEF NextMigration
    <2>2. \/ End(p, "done") \/ End(p, "refused")
          \/ /\ proc[p].todo # <<>> /\ lock' = lock
             /\ Goto(p, "lock") \/ Goto(p, "recheck")
      BY <1>4 DEF NextMigration
    <2> QED
      BY <2>1, <2>2, EndTyped, GotoTyped, Types DEF Steps
  <1>5. CASE TakeLock(p)
    <2>1. /\ Goto(p, "recheck") /\ UNCHANGED <<disk, schema, tracking, history>> /\ lock' = p
          /\ proc[p].todo # <<>>
      BY <1>5 DEF TakeLock, Typed, Busy
    <2> QED
      BY <2>1, GotoTyped DEF Steps
  <1>6. CASE Recheck(p)
    <2>1. /\ UNCHANGED <<disk, schema, tracking, history>> /\ lock' \in Procs \cup {None}
          /\ proc[p].todo # <<>>
      BY <1>6, Types DEF Recheck, Free, Busy
    <2>2. PICK r \in ProcType : /\ proc' = [proc EXCEPT ![p] = r]
                                /\ r.step = "next" \/ (r.step = "run" /\ r.todo = proc[p].todo)
      BY <1>6, RecheckRecord
    <2> QED
      BY <2>1, <2>2, QuietTyped
  <1>7. CASE RunStatement(p)
    <2> DEFINE r == [proc[p] EXCEPT !.k = @ + 1]
    <2>1. /\ proc[p].step = "run" /\ proc[p].todo # <<>> /\ proc[p].k < Stmts
          /\ UNCHANGED <<disk, tracking, history>>
      BY <1>7 DEF RunStatement, Typed, Busy
    <2>2. /\ proc' = [proc EXCEPT ![p] = r] /\ r \in ProcType /\ r.k = proc[p].k + 1
          /\ r.step = "run" /\ r.todo = proc[p].todo
      BY <1>7, <2>1, CountRecord DEF RunStatement
    <2>3. r.k \in 0 .. Stmts
      BY <2>2 DEF ProcType
    <2> HIDE DEF r
    <2>4. schema' \in [Ids -> 0 .. Stmts]
      BY <1>7, <2>2, <2>3, Types DEF RunStatement
    <2>5. lock' \in Procs \cup {None}
      BY <1>7, Types DEF RunStatement
    <2> QED
      BY <2>1, <2>2, <2>4, <2>5, OneProcTyped, Types DEF history
  <1>8. CASE StatementFails(p)
    <2>1. /\ End(p, "exists") \/ End(p, "failed")
          /\ UNCHANGED <<disk, schema, tracking, history>>
      BY <1>8 DEF StatementFails
    <2> QED
      BY <2>1, EndTyped
  <1> QED
    BY <1>1, <1>2, <1>3, <1>4, <1>5, <1>6, <1>7, <1>8, CommitTyped

\* The other commands.
LEMMA UndoTyped ==
  ASSUME Typed, NEW p \in Procs,
         \/ \E n \in Ids : StartRollback(p, n)
         \/ \E m \in Ids : Resolve(p, m)
         \/ DownStatement(p) \/ DownFails(p) \/ MarkRolledBack(p) \/ RollbackEnds(p)
         \/ StartReset(p) \/ DropTables(p) \/ ClearTracking(p) \/ Crash(p)
  PROVE  Typed'
  <1>1. ASSUME NEW n \in Ids, StartRollback(p, n) PROVE Typed'
    <2> DEFINE ids == Reverse(InNameOrder({m \in Ids : Applied(m)}))
               s == SubSeq(ids, 1, IF n < Len(ids) THEN n ELSE Len(ids))
               r == [Ended("none") EXCEPT !.step = "down", !.todo = s]
    <2>1. proc' = [proc EXCEPT ![p] = r] /\ r \in ProcType /\ r.step = "down"
      BY <1>1, StartRollbackRecord
    <2> HIDE DEF r
    <2>2. UNCHANGED <<disk, schema, tracking, history>> /\ lock' \in Procs \cup {None}
      BY <1>1, Types DEF StartRollback
    <2> QED
      BY <2>1, <2>2, QuietTyped
  <1>2. ASSUME NEW m \in Ids, Resolve(p, m) PROVE Typed'
    <2>1. /\ tracking' = [tracking EXCEPT ![m] = [sum |-> up[m], back |-> FALSE]]
          /\ ran' = [ran EXCEPT ![m] = up[m]] /\ resolved' = resolved \cup {m}
          /\ UNCHANGED <<disk, schema, lock, proc, undoing>> /\ up[m] \in Versions
      BY <1>2, Types DEF Resolve
    <2>2. tracking' \in [Ids -> [sum : Versions \cup {None}, back : BOOLEAN]]
            /\ ran' \in [Ids -> Versions] /\ resolved' \subseteq Ids
      BY <2>1, Types
    <2>3. (\A q \in Procs : Busy(q))'
      BY <2>1, Types DEF Busy
    <2> QED
      BY <2>1, <2>2, <2>3, Types DEF disk, Typed, TypeOK, ProcType, Steps
  <1>3. CASE DownStatement(p)
    <2>1. /\ proc[p].step = "down" /\ proc[p].todo # <<>> /\ proc[p].k < Stmts
          /\ proc' = [proc EXCEPT ![p].k = @ + 1] /\ schema[Current(p)] = Stmts - proc[p].k
          /\ schema' = [schema EXCEPT ![Current(p)] = @ - 1] /\ undoing' = undoing \cup {Current(p)}
          /\ UNCHANGED <<disk, tracking, lock, ran, resolved>>
      BY <1>3 DEF DownStatement
    <2>2. PICK r \in ProcType : proc' = [proc EXCEPT ![p] = r] /\ r.step = "down"
      BY <2>1, CountRecord
    <2>3. Current(p) \in Ids /\ schema[Current(p)] - 1 \in 0 .. Stmts
      <3>1. Current(p) \in Ids /\ proc[p].k \in 0 .. Stmts
        BY <2>1, HeadTail, Types DEF ProcType
      <3> QED
        BY <2>1, <3>1, Consts
    <2>4. schema' \in [Ids -> 0 .. Stmts] /\ undoing' \subseteq Ids
      BY <2>1, <2>3, Types
    <2> QED
      BY <2>1, <2>2, <2>4, OneProcTyped, Types
  <1>4. CASE MarkRolledBack(p)
    <2>1. PICK r \in ProcType : proc' = [proc EXCEPT ![p] = r] /\ r.step = "down"
      BY <1>4, MarkRecord
    <2>2. Current(p) \in Ids
      BY <1>4, HeadTail DEF MarkRolledBack
    <2>3. /\ tracking' \in [Ids -> [sum : Versions \cup {None}, back : BOOLEAN]]
          /\ undoing' \subseteq Ids /\ resolved' \subseteq Ids /\ UNCHANGED <<disk, schema, lock, ran>>
      BY <1>4, <2>2, Types DEF MarkRolledBack
    <2> QED
      BY <2>1, <2>3, OneProcTyped, Types
  <1>5. CASE StartReset(p)
    <2>1. Goto(p, "drop") /\ UNCHANGED <<disk, schema, tracking, lock, history>>
      BY <1>5 DEF StartReset
    <2> QED
      BY <2>1, GotoTyped, Types DEF Steps
  <1>6. CASE DropTables(p)
    <2>1. PICK D : /\ schema' = [m \in Ids |-> IF m \in D THEN 0 ELSE schema[m]]
                   /\ undoing' = undoing \cup {m \in D : Applied(m)} /\ D \subseteq Ids
      BY <1>6 DEF DropTables
    <2>2. schema' \in [Ids -> 0 .. Stmts] /\ undoing' \subseteq Ids
      BY <2>1, Types, Consts
    <2>3. UNCHANGED <<disk, tracking, lock, proc, ran, resolved>>
      BY <1>6 DEF DropTables
    <2>4. (\A q \in Procs : Busy(q))'
      BY <2>3, Types DEF Busy
    <2> QED
      BY <2>2, <2>3, <2>4, Types DEF disk, Typed, TypeOK, ProcType, Steps
  <1>7. CASE ClearTracking(p)
    <2>1. /\ proc' = [proc EXCEPT ![p] = Ended("done")] /\ Ended("done") \in ProcType
          /\ lock' \in Procs \cup {None}
      BY <1>7, EndRecord DEF ClearTracking
    <2>2. Ended("done").step = "idle"
      BY EndedType
    <2>3. tracking' \in [Ids -> [sum : Versions \cup {None}, back : BOOLEAN]]
      BY <1>7 DEF ClearTracking, NoRow
    <2>4. resolved' = {} /\ undoing' = {} /\ UNCHANGED <<disk, schema, ran>>
      BY <1>7 DEF ClearTracking
    <2> QED
      BY <2>1, <2>2, <2>3, <2>4, OneProcTyped, Types
  <1>8. CASE DownFails(p) \/ RollbackEnds(p) \/ Crash(p)
    <2>1. /\ End(p, "failed") \/ End(p, "done") \/ End(p, "crashed")
          /\ UNCHANGED <<disk, schema, tracking, history>>
      BY <1>8 DEF DownFails, RollbackEnds, Crash
    <2> QED
      BY <2>1, EndTyped
  <1> QED
    BY <1>1, <1>2, <1>3, <1>4, <1>5, <1>6, <1>7, <1>8

LEMMA EditTyped == ASSUME Typed, NEW m \in Ids, Edit(m) PROVE Typed'
  <1>1. /\ \E v \in Versions \ {up[m]} : up' = [up EXCEPT ![m] = v]
        /\ UNCHANGED <<mode, meta, schema, tracking, lock, proc, history>>
    BY DEF Edit
  <1>2. up' \in [Ids -> Versions]
    BY <1>1, Types
  <1>3. (\A q \in Procs : Busy(q))'
    BY <1>1, Types DEF Busy
  <1> QED
    BY <1>1, <1>2, <1>3, Types DEF history, Typed, TypeOK, ProcType, Steps

LEMMA NextTyped == Typed /\ [Next]_vars => Typed'
  <1> SUFFICES ASSUME Typed, [Next]_vars PROVE Typed'
    OBVIOUS
  <1>1. CASE UNCHANGED vars
    BY <1>1 DEF vars, Typed, TypeOK, Busy
  <1>2. CASE Next
    BY <1>2, DeployTyped, UndoTyped, EditTyped DEF Next, Step
  <1> QED
    BY <1>1, <1>2

-----------------------------------------------------------------------------
(* What is recorded as applied is in effect, in every usage.               *)

\* The steps that change neither the tables nor their record.
Leaves == UNCHANGED <<schema, tracking, history>>

LEMMA StepsThatLeave ==
  ASSUME [Next]_vars
  PROVE  \/ Leaves
         \/ \E p \in Procs : \/ RunStatement(p) \/ Commit(p) \/ DownStatement(p) \/ MarkRolledBack(p)
                             \/ DropTables(p) \/ ClearTracking(p)
                             \/ \E m \in Ids : Resolve(p, m)
  <1>1. CASE UNCHANGED vars
    BY <1>1 DEF vars, Leaves, history
  <1>2. ASSUME NEW p \in Procs,
               \/ \E accept \in BOOLEAN : StartApply(p, accept)
               \/ \E n \in Ids : StartRollback(p, n)
               \/ StartReset(p) \/ Crash(p) \/ Verify(p) \/ ReadPending(p) \/ NextMigration(p)
               \/ TakeLock(p) \/ Recheck(p) \/ StatementFails(p) \/ DownFails(p) \/ RollbackEnds(p)
        PROVE  Leaves
    BY <1>2 DEF Leaves, StartApply, StartRollback, StartReset, Crash, Verify, ReadPending,
                NextMigration, TakeLock, Recheck, StatementFails, DownFails, RollbackEnds
  <1>3. ASSUME NEW m \in Ids, Edit(m) PROVE Leaves
    BY <1>3 DEF Edit, Leaves
  <1> QED
    BY <1>1, <1>2, <1>3 DEF Next, Step

LEMMA InEffectStays ==
  ASSUME Typed, AppliedInEffect, [Next]_vars PROVE AppliedInEffect'
  <1> SUFFICES ASSUME NEW m \in Ids, Applied(m)', m \notin (resolved \cup undoing)'
               PROVE  schema'[m] = Stmts
    BY DEF AppliedInEffect
  <1>0. Applied(m) => schema[m] = Stmts \/ m \in resolved \cup undoing
    BY DEF AppliedInEffect
  <1>1. CASE Leaves
    BY <1>0, <1>1 DEF Leaves, history, Applied
  <1>2. ASSUME NEW p \in Procs, RunStatement(p) PROVE schema'[m] = Stmts
    <2>1. proc[p].todo # <<>> /\ Applied(m) /\ UNCHANGED <<resolved, undoing>>
      BY <1>2 DEF RunStatement, Typed, Busy, Applied, history
    <2>2. Current(p) \in Ids /\ proc[p].k \in 0 .. Stmts /\ schema[m] = Stmts
      BY <2>1, <1>0, HeadTail, Types DEF ProcType
    <2>3. Current(p) = m => FALSE
      BY <2>2, <1>2, Consts DEF RunStatement, InEffect
    <2> QED
      BY <2>2, <2>3, <1>2, Types DEF RunStatement
  <1>3. ASSUME NEW p \in Procs, Commit(p) PROVE schema'[m] = Stmts
    <2>1. Current(p) \in Ids
      BY <1>3, CommitRecord
    <2>2. CASE m = Current(p)
      BY <2>1, <2>2, <1>3, Types DEF Commit
    <2>3. CASE m # Current(p)
      BY <2>1, <2>3, <1>0, <1>3, Types DEF Commit, Applied
    <2> QED
      BY <2>2, <2>3
  <1>4. ASSUME NEW p \in Procs, DownStatement(p) PROVE schema'[m] = Stmts
    <2>1. m # Current(p) /\ Applied(m)
      BY <1>4 DEF DownStatement, Applied
    <2> QED
      BY <2>1, <1>0, <1>4, Types DEF DownStatement
  <1>5. ASSUME NEW p \in Procs, MarkRolledBack(p) PROVE schema'[m] = Stmts
    <2>1. m # Current(p)
      BY <1>5, Types DEF MarkRolledBack, Applied
    <2> QED
      BY <2>1, <1>0, <1>5, Types DEF MarkRolledBack, Applied
  <1>6. ASSUME NEW p \in Procs, DropTables(p) PROVE schema'[m] = Stmts
    <2>1. PICK D : /\ schema' = [n \in Ids |-> IF n \in D THEN 0 ELSE schema[n]]
                   /\ undoing' = undoing \cup {n \in D : Applied(n)}
      BY <1>6 DEF DropTables
    <2>2. Applied(m) /\ resolved' = resolved
      BY <1>6 DEF DropTables, Applied
    <2> QED
      BY <2>1, <2>2, <1>0
  <1>7. ASSUME NEW p \in Procs, ClearTracking(p) PROVE schema'[m] = Stmts
    BY <1>7 DEF ClearTracking, NoRow, Applied
  <1>8. ASSUME NEW p \in Procs, NEW e \in Ids, Resolve(p, e) PROVE schema'[m] = Stmts
    <2>1. m # e
      BY <1>8 DEF Resolve
    <2> QED
      BY <2>1, <1>0, <1>8, Types DEF Resolve, Applied
  <1> QED
    BY <1>1, <1>2, <1>3, <1>4, <1>5, <1>6, <1>7, <1>8, StepsThatLeave

-----------------------------------------------------------------------------
(* The recorded checksums, in every usage.                                 *)

LEMMA InitSum == Init => SumTrue
  BY DEF Init, SumTrue, Applied, NoRow

\* Recording apart, a step leaves all that SumTrue is about: edits change up.
LEMMA SumStays ==
  ASSUME Typed, SumTrue, [Next]_vars PROVE SumTrue'
  <1>1. meta' = meta
    BY DEF Next, Step, vars, disk, StartApply, StartRollback, Resolve, StartReset, Crash, Edit,
           Verify, ReadPending, NextMigration, TakeLock, Recheck, RunStatement, StatementFails,
           Commit, DownStatement, DownFails, MarkRolledBack, RollbackEnds, DropTables, ClearTracking
  <1> SUFFICES ASSUME NEW m \in Ids, Applied(m)' PROVE tracking'[m].sum = RanSum(m)'
    BY DEF SumTrue
  <1>2. Applied(m) => tracking[m].sum = RanSum(m)
    BY DEF SumTrue
  <1>3. CASE UNCHANGED <<tracking, ran, resolved>>
    BY <1>1, <1>2, <1>3 DEF Applied, RanSum, Drifted
  <1>4. ASSUME NEW p \in Procs, Commit(p) PROVE tracking'[m].sum = RanSum(m)'
    <2>1. Current(p) \in Ids
      BY <1>4, CommitRecord
    <2>2. CASE m = Current(p)
      <3>1. /\ tracking'[m].sum = RecordedSum(m)
            /\ ran'[m] = up[m] /\ m \notin resolved'
        BY <2>1, <2>2, <1>4, Types DEF Commit
      <3> QED
        BY <3>1, <1>1 DEF RecordedSum, RanSum, Drifted
    <2>3. CASE m # Current(p)
      BY <2>1, <2>3, <1>1, <1>2, <1>4, Types DEF Commit, Applied, RanSum, Drifted
    <2> QED
      BY <2>2, <2>3
  <1>5. ASSUME NEW p \in Procs, MarkRolledBack(p) PROVE tracking'[m].sum = RanSum(m)'
    <2>1. m # Current(p)
      BY <1>5, Types DEF MarkRolledBack, Applied
    <2> QED
      BY <2>1, <1>1, <1>2, <1>5, Types DEF MarkRolledBack, Applied, RanSum, Drifted
  <1>6. ASSUME NEW p \in Procs, ClearTracking(p) PROVE tracking'[m].sum = RanSum(m)'
    BY <1>6 DEF ClearTracking, NoRow, Applied
  <1>7. ASSUME NEW p \in Procs, NEW e \in Ids, Resolve(p, e) PROVE tracking'[m].sum = RanSum(m)'
    BY <1>1, <1>2, <1>7, Types DEF Resolve, Applied, RanSum, Drifted
  <1>8. ASSUME NEW p \in Procs, RunStatement(p) \/ DownStatement(p) \/ DropTables(p)
        PROVE  UNCHANGED <<tracking, ran, resolved>>
    BY <1>8 DEF RunStatement, DownStatement, DropTables, history
  <1>9. Leaves => UNCHANGED <<tracking, ran, resolved>>
    BY DEF Leaves, history
  <1> QED
    BY <1>3, <1>4, <1>5, <1>6, <1>7, <1>8, <1>9, StepsThatLeave

-----------------------------------------------------------------------------
(* The order of migrations, and what is half done.                         *)

LEMMA InitOrder == Init /\ Orderly => OrderInv
  <1> SUFFICES ASSUME Init, Orderly PROVE OrderInv
    OBVIOUS
  <1>1. \A m \in Ids : ~Applied(m) /\ schema[m] = 0
    BY DEF Init, Applied, NoRow
  <1>2. \A p \in Procs : proc[p].step = "idle" /\ proc[p].outcome = "none"
    BY EndedType DEF Init
  <1>3. \A p \in Procs : ProcOK(p)
    BY <1>2 DEF ProcOK, Permitted, Idle, Deploys, RollsBack, Holds
  <1> QED
    BY <1>1, <1>3 DEF OrderInv, NoneHalf, AppliedInOrder

\* A process that does nothing is all right.
LEMMA IdleOK ==
  ASSUME NEW p, proc[p].step = "idle", proc[p].outcome # "exists"
  PROVE  ProcOK(p)
  BY DEF ProcOK, Permitted, Idle, Deploys, RollsBack, Holds

\* The other processes while p takes a step: they are idle, or all deploy, and
\* then migrations are only applied, on Postgres by the holder of the lock.
Others(p) == \A q \in Procs : q # p =>
    /\ proc'[q].step = proc[q].step /\ proc'[q].todo = proc[q].todo
    /\ proc'[q].outcome = proc[q].outcome /\ (lock = q => lock' = q)

OnlyApplies(p) == \A m \in Ids :
    /\ Applied(m) => Applied(m)'
    /\ Applied(m)' => Applied(m) \/ mode.provider # "postgres" \/ lock = p

LEMMA OthersOK ==
  ASSUME Typed, OrderInv, NEW p \in Procs, p \in mode.procs, mode' = mode, Others(p),
         Alone \/ OnlyApplies(p), NEW q \in Procs, q # p
  PROVE  ProcOK(q)'
  <1>1. ProcOK(q) /\ Orderly
    BY DEF OrderInv
  <1>2. /\ proc'[q].step = proc[q].step /\ proc'[q].todo = proc[q].todo
        /\ proc'[q].outcome = proc[q].outcome /\ (lock = q => lock' = q)
    BY DEF Others
  <1>3. CASE Alone
    <2>1. proc[q].step = "idle"
      BY <1>1, <1>3 DEF ProcOK, Permitted, Idle, Alone
    <2> QED
      BY <1>1, <1>2, <2>1 DEF ProcOK, Permitted, Idle, Deploys, RollsBack, Holds
  <1>4. CASE ~Alone
    <2>1. proc[q].step \notin {"down", "drop"} /\ OnlyApplies(p)
      BY <1>1, <1>4 DEF ProcOK, Permitted
    <2>2. Permitted(q)' /\ RollsBack(q)'
      BY <1>1, <1>2, <2>1 DEF ProcOK, Permitted, Idle, RollsBack
    <2>3. Deploys(q)'
      BY <1>1, <1>2, <2>1 DEF ProcOK, Deploys, Listed, OnlyApplies
    <2>4. Holds(q)'
      <3>1. SUFFICES ASSUME mode.provider = "postgres"
                     PROVE  /\ proc[q].step \in {"recheck", "run"} => lock' = q
                            /\ proc[q].step = "run" => ~Applied(Current(q))'
                            /\ proc[q].outcome # "exists"
        BY <1>2 DEF Holds
      <3>2. proc[q].step \in {"recheck", "run"} => lock = q
        BY <1>1, <3>1 DEF ProcOK, Holds
      <3>3. proc[q].step = "run" => ~Applied(Current(q)) /\ proc[q].todo # <<>> /\ Current(q) \in Ids
        BY <1>1, <3>1, HeadTail DEF ProcOK, Holds, Typed, Busy
      <3>4. Current(q)' = Current(q)
        BY <1>2 DEF Current
      <3>5. proc[q].step = "run" => ~Applied(Current(q))'
        BY <3>1, <3>2, <3>3, <3>4, <2>1 DEF OnlyApplies, Applied
      <3> QED
        BY <1>1, <1>2, <3>1, <3>2, <3>5 DEF ProcOK, Holds
    <2> QED
      BY <2>2, <2>3, <2>4 DEF ProcOK
  <1> QED
    BY <1>3, <1>4

\* A step of p that leaves the tables and their record alone.
LEMMA QuietOrder ==
  ASSUME Typed, OrderInv, NEW p \in Procs, p \in mode.procs, mode' = mode, Leaves,
         Others(p), ProcOK(p)'
  PROVE  OrderInv'
  <1>1. UNCHANGED <<schema, tracking, resolved>>
    BY DEF Leaves, history
  <1>2. OnlyApplies(p)
    BY <1>1 DEF OnlyApplies, Applied
  <1>3. \A q \in Procs : ProcOK(q)'
    BY <1>2, OthersOK
  <1>4. Orderly' /\ NoneHalf' /\ AppliedInOrder'
    BY <1>1 DEF OrderInv, Orderly, Alone, DeployOnly, NoneHalf, Transactional, AppliedInOrder, Applied
  <1>5. (\A q \in Procs : ProcOK(q))'
    BY <1>3
  <1> QED
    BY <1>4, <1>5 DEF OrderInv

\* p goes on with record r.
LEMMA OneProcOthers ==
  ASSUME Typed, NEW p \in Procs, NEW r \in ProcType, proc' = [proc EXCEPT ![p] = r],
         \A q \in Procs : q # p /\ lock = q => lock' = q
  PROVE  Others(p) /\ proc'[p] = r
  BY OneProc DEF Others

LEMMA EndOrder ==
  ASSUME Typed, OrderInv, NEW p \in Procs, ~Idle(p), NEW o, End(p, o), mode' = mode, Leaves,
         o \in {"none", "done", "mismatch", "refused", "failed", "crashed"}
  PROVE  OrderInv'
  <1>1. /\ proc' = [proc EXCEPT ![p] = Ended(o)] /\ Ended(o) \in ProcType
        /\ \A q \in Procs : q # p /\ lock = q => lock' = q
    BY EndRecord
  <1>2. Others(p) /\ proc'[p] = Ended(o)
    BY <1>1, OneProcOthers
  <1>3. proc'[p].step = "idle" /\ proc'[p].outcome # "exists"
    BY <1>2, EndedType
  <1>4. ProcOK(p)'
    BY <1>3 DEF ProcOK, Permitted, Idle, Deploys, RollsBack, Holds
  <1>5. p \in mode.procs
    BY DEF OrderInv, ProcOK, Permitted
  <1> QED
    BY <1>2, <1>4, <1>5, QuietOrder

\* p goes on to step s.
LEMMA GotoIs ==
  ASSUME Typed, NEW p \in Procs, NEW s \in Steps, Goto(p, s),
         \A q \in Procs : q # p /\ lock = q => lock' = q
  PROVE  /\ Others(p) /\ proc'[p].step = s /\ proc'[p].todo = proc[p].todo
         /\ proc'[p].outcome = proc[p].outcome /\ proc'[p].k = proc[p].k
  <1> DEFINE r == [proc[p] EXCEPT !.step = s]
  <1>1. proc' = [proc EXCEPT ![p] = r] /\ r \in ProcType
    BY GotoRecord
  <1>2. r.step = s /\ r.todo = proc[p].todo /\ r.outcome = proc[p].outcome /\ r.k = proc[p].k
    BY Types DEF ProcType
  <1> HIDE DEF r
  <1> QED
    BY <1>1, <1>2, OneProcOthers

\* The list without its first migration still ascends, and still holds what is
\* not applied, when that first one is.
LEMMA RestOfList ==
  ASSUME Typed, NEW p \in Procs, proc[p].todo # <<>>, Deploys(p),
         proc[p].step \in {"next", "lock", "recheck", "run"},
         proc'[p].step = "next", proc'[p].todo = Tail(proc[p].todo),
         \A m \in Ids : Applied(m) \/ m = Current(p) => Applied(m)'
  PROVE  Deploys(p)'
  <1> DEFINE s == proc[p].todo
             t == proc'[p].todo
  <1>1. /\ \A i \in DOMAIN t : i + 1 \in DOMAIN s /\ i \in Nat /\ t[i] = s[i + 1]
        /\ \A i \in DOMAIN s : i # 1 => i - 1 \in DOMAIN t /\ t[i - 1] = s[i]
        /\ s[1] = Current(p)
    BY HeadTail
  <1>2. \A i, j \in DOMAIN t : i < j => t[i] < t[j]
    <2> SUFFICES ASSUME NEW i \in DOMAIN t, NEW j \in DOMAIN t, i < j PROVE t[i] < t[j]
      OBVIOUS
    <2>1. i + 1 < j + 1 /\ i + 1 \in DOMAIN s /\ j + 1 \in DOMAIN s
      BY <1>1
    <2> QED
      BY <2>1, <1>1 DEF Deploys
  <1>3. ASSUME NEW m \in Ids, ~Applied(m)' PROVE Listed(p, m)'
    <2>1. ~Applied(m) /\ m # Current(p)
      BY <1>3
    <2>2. PICK i \in DOMAIN s : s[i] = m
      BY <2>1 DEF Deploys, Listed
    <2>3. i # 1
      BY <2>1, <2>2, <1>1
    <2> QED
      BY <2>2, <2>3, <1>1 DEF Listed
  <1> QED
    BY <1>2, <1>3 DEF Deploys

LEMMA Working ==
  ASSUME OrderInv, NEW p \in Procs, ~Idle(p)
  PROVE  p \in mode.procs /\ ProcOK(p)
  BY DEF OrderInv, ProcOK, Permitted

LEMMA ReadPendingOrder == ASSUME Typed, OrderInv, NEW p \in Procs, ReadPending(p) PROVE OrderInv'
  <1> DEFINE s == InNameOrder({m \in Ids : ~Applied(m)})
             r == [proc[p] EXCEPT !.step = "next", !.todo = s]
  <1>1. /\ proc' = [proc EXCEPT ![p] = r] /\ r \in ProcType /\ r.step = "next" /\ r.todo = s
        /\ r.outcome = proc[p].outcome
    BY ReadPendingRecord
  <1>2. /\ \A i, j \in DOMAIN s : i < j => s[i] < s[j]
        /\ \A m \in Ids : ~Applied(m) => \E i \in DOMAIN s : s[i] = m
    BY InNameOrderIs
  <1>3. UNCHANGED <<mode, lock, tracking>> /\ Leaves /\ ~Idle(p)
    BY DEF ReadPending, disk, Leaves, Idle
  <1> HIDE DEF r, s
  <1>4. Others(p) /\ proc'[p] = r
    BY <1>1, <1>3, OneProcOthers
  <1>5. p \in mode.procs /\ ProcOK(p)
    BY <1>3, Working
  <1>6. Deploys(p)'
    BY <1>1, <1>2, <1>3, <1>4 DEF Deploys, Listed, Applied
  <1>7. Permitted(p)' /\ RollsBack(p)' /\ Holds(p)'
    BY <1>1, <1>3, <1>4, <1>5 DEF ProcOK, Permitted, RollsBack, Holds
  <1> QED
    BY <1>3, <1>4, <1>5, <1>6, <1>7, QuietOrder DEF ProcOK

LEMMA NextMigrationOrder == ASSUME Typed, OrderInv, NEW p \in Procs, NextMigration(p) PROVE OrderInv'
  <1>1. mode' = mode /\ tracking' = tracking /\ Leaves /\ ~Idle(p) /\ proc[p].step = "next"
    BY DEF NextMigration, disk, Leaves, Idle
  <1>2. p \in mode.procs /\ ProcOK(p)
    BY <1>1, Working
  <1>3. ASSUME NEW s \in {"lock", "recheck"}, Goto(p, s), lock' = lock,
               mode.provider = "postgres" => s = "lock"
        PROVE  OrderInv'
    <2>1. /\ Others(p) /\ proc'[p].step = s /\ proc'[p].todo = proc[p].todo
          /\ proc'[p].outcome = proc[p].outcome
      BY <1>3, GotoIs DEF Steps
    <2>2. Permitted(p)' /\ RollsBack(p)' /\ Holds(p)'
      BY <1>1, <1>2, <1>3, <2>1 DEF ProcOK, Permitted, RollsBack, Holds
    <2>3. Deploys(p)'
      BY <1>1, <1>2, <2>1 DEF ProcOK, Deploys, Listed, Applied
    <2> QED
      BY <1>1, <1>2, <2>1, <2>2, <2>3, QuietOrder DEF ProcOK
  <1>4. \/ End(p, "done") \/ End(p, "refused")
        \/ /\ Goto(p, IF mode.provider = "postgres" THEN "lock" ELSE "recheck") /\ lock' = lock
    BY DEF NextMigration
  <1> QED
    BY <1>1, <1>3, <1>4, EndOrder

LEMMA TakeLockOrder == ASSUME Typed, OrderInv, NEW p \in Procs, TakeLock(p) PROVE OrderInv'
  <1>1. /\ mode' = mode /\ tracking' = tracking /\ Leaves /\ ~Idle(p) /\ proc[p].step = "lock"
        /\ lock = None /\ lock' = p /\ Goto(p, "recheck")
    BY DEF TakeLock, disk, Leaves, Idle
  <1>2. p \in mode.procs /\ ProcOK(p)
    BY <1>1, Working
  <1>3. \A q \in Procs : q # p /\ lock = q => lock' = q
    BY <1>1, Consts
  <1>4. /\ Others(p) /\ proc'[p].step = "recheck" /\ proc'[p].todo = proc[p].todo
        /\ proc'[p].outcome = proc[p].outcome
    BY <1>1, <1>3, GotoIs DEF Steps
  <1>5. Permitted(p)' /\ RollsBack(p)' /\ Holds(p)'
    BY <1>1, <1>2, <1>4 DEF ProcOK, Permitted, RollsBack, Holds
  <1>6. Deploys(p)'
    BY <1>1, <1>2, <1>4 DEF ProcOK, Deploys, Listed, Applied
  <1> QED
    BY <1>1, <1>2, <1>4, <1>5, <1>6, QuietOrder DEF ProcOK

LEMMA RecheckOrder == ASSUME Typed, OrderInv, NEW p \in Procs, Recheck(p) PROVE OrderInv'
  <1>1. /\ mode' = mode /\ tracking' = tracking /\ Leaves /\ ~Idle(p) /\ proc[p].step = "recheck"
        /\ proc[p].todo # <<>>
    BY DEF Recheck, disk, Leaves, Idle, Typed, Busy
  <1>2. p \in mode.procs /\ ProcOK(p)
    BY <1>1, Working
  <1>3. CASE Applied(Current(p))
    <2>1. PICK r \in ProcType : /\ proc' = [proc EXCEPT ![p] = r] /\ r.step = "next" /\ Free(p)
                                /\ r.todo = Tail(proc[p].todo) /\ r.outcome = proc[p].outcome
      BY <1>3, RecheckRecord
    <2>2. \A q \in Procs : q # p /\ lock = q => lock' = q
      BY <2>1 DEF Free
    <2>3. Others(p) /\ proc'[p] = r
      BY <2>1, <2>2, OneProcOthers
    <2>4. Permitted(p)' /\ RollsBack(p)' /\ Holds(p)'
      BY <1>1, <1>2, <2>1, <2>3 DEF ProcOK, Permitted, RollsBack, Holds
    <2>5. Deploys(p)'
      BY <1>1, <1>2, <1>3, <2>1, <2>3, RestOfList DEF ProcOK, Applied
    <2> QED
      BY <1>1, <1>2, <2>3, <2>4, <2>5, QuietOrder DEF ProcOK
  <1>4. CASE ~Applied(Current(p))
    <2>1. PICK r \in ProcType : /\ proc' = [proc EXCEPT ![p] = r] /\ r.step = "run" /\ lock' = lock
                                /\ r.todo = proc[p].todo /\ r.outcome = proc[p].outcome
      BY <1>4, RecheckRecord
    <2>2. Others(p) /\ proc'[p] = r
      BY <2>1, OneProcOthers
    <2>3. Permitted(p)' /\ RollsBack(p)'
      BY <1>1, <1>2, <2>1, <2>2 DEF ProcOK, Permitted, RollsBack
    <2>4. Current(p)' = Current(p)
      BY <2>1, <2>2 DEF Current
    <2>5. Holds(p)'
      BY <1>1, <1>2, <1>4, <2>1, <2>2, <2>4 DEF ProcOK, Holds, Applied
    <2>6. Deploys(p)'
      BY <1>1, <1>2, <2>1, <2>2 DEF ProcOK, Deploys, Listed, Applied
    <2> QED
      BY <1>1, <1>2, <2>2, <2>3, <2>5, <2>6, QuietOrder DEF ProcOK
  <1> QED
    BY <1>3, <1>4

\* On Postgres no statement meets its own effect.
LEMMA NoEffectMet ==
  ASSUME Typed, OrderInv, NEW p \in Procs, proc[p].step = "run", mode.provider = "postgres"
  PROVE  ~InEffect(p)
  <1>1. proc[p].todo # <<>> /\ ProcOK(p) /\ proc[p].k \in 0 .. Stmts
    BY Working, Types DEF Typed, Busy, Idle, ProcType
  <1>2. Current(p) \in Ids /\ ~Applied(Current(p))
    BY <1>1, HeadTail DEF ProcOK, Holds
  <1>3. schema[Current(p)] = 0
    BY <1>2 DEF OrderInv, NoneHalf, Transactional
  <1> QED
    BY <1>1, <1>3, Consts DEF InEffect

LEMMA StatementFailsOrder == ASSUME Typed, OrderInv, NEW p \in Procs, StatementFails(p) PROVE OrderInv'
  <1>1. /\ mode' = mode /\ Leaves /\ ~Idle(p) /\ proc[p].step = "run"
        /\ End(p, IF InEffect(p) THEN "exists" ELSE "failed")
    BY DEF StatementFails, disk, Leaves, Idle
  <1>2. CASE ~InEffect(p)
    BY <1>1, <1>2, EndOrder
  <1>3. CASE InEffect(p)
    <2>1. mode.provider # "postgres" /\ End(p, "exists")
      BY <1>1, <1>3, NoEffectMet
    <2>2. /\ proc' = [proc EXCEPT ![p] = Ended("exists")] /\ Ended("exists") \in ProcType
          /\ \A q \in Procs : q # p /\ lock = q => lock' = q
      BY <2>1, EndRecord
    <2>3. Others(p) /\ proc'[p] = Ended("exists")
      BY <2>2, OneProcOthers
    <2>4. proc'[p].step = "idle"
      BY <2>3, EndedType
    <2>5. ProcOK(p)'
      BY <1>1, <2>1, <2>4 DEF ProcOK, Permitted, Idle, Deploys, RollsBack, Holds
    <2> QED
      BY <1>1, <2>3, <2>5, QuietOrder, Working
  <1> QED
    BY <1>2, <1>3

LEMMA RunStatementOrder == ASSUME Typed, OrderInv, NEW p \in Procs, RunStatement(p) PROVE OrderInv'
  <1>1. /\ mode' = mode /\ tracking' = tracking /\ resolved' = resolved /\ ~Idle(p)
        /\ proc[p].step = "run" /\ proc[p].k < Stmts
        /\ proc' = [proc EXCEPT ![p].k = @ + 1] /\ ~Locked(p)
        /\ lock' = IF mode.provider = "sqlite" THEN p ELSE lock
        /\ Transactional => schema' = schema
    BY DEF RunStatement, disk, history, Idle
  <1>2. p \in mode.procs /\ ProcOK(p)
    BY <1>1, Working
  <1>3. PICK r \in ProcType : /\ proc' = [proc EXCEPT ![p] = r] /\ r.step = "run"
                              /\ r.todo = proc[p].todo /\ r.outcome = proc[p].outcome
    BY <1>1, CountRecord
  <1>4. \A q \in Procs : q # p /\ lock = q => lock' = q
    BY <1>1, Consts DEF Locked
  <1>5. Others(p) /\ proc'[p] = r
    BY <1>3, <1>4, OneProcOthers
  <1>6. Permitted(p)' /\ RollsBack(p)'
    BY <1>1, <1>2, <1>3, <1>5 DEF ProcOK, Permitted, RollsBack
  <1>7. Current(p)' = Current(p)
    BY <1>3, <1>5 DEF Current
  <1>8. Holds(p)'
    BY <1>1, <1>2, <1>3, <1>5, <1>7 DEF ProcOK, Holds, Applied
  <1>9. Deploys(p)'
    BY <1>1, <1>2, <1>3, <1>5 DEF ProcOK, Deploys, Listed, Applied
  <1>10. OnlyApplies(p)
    BY <1>1 DEF OnlyApplies, Applied
  <1>11. \A q \in Procs : ProcOK(q)'
    BY <1>1, <1>2, <1>5, <1>6, <1>8, <1>9, <1>10, OthersOK DEF ProcOK
  <1>12. Orderly' /\ NoneHalf' /\ AppliedInOrder'
    BY <1>1 DEF OrderInv, Orderly, Alone, DeployOnly, NoneHalf, Transactional, AppliedInOrder, Applied
  <1>13. (\A q \in Procs : ProcOK(q))'
    BY <1>11
  <1> QED
    BY <1>12, <1>13 DEF OrderInv

LEMMA CommitOrder == ASSUME Typed, OrderInv, NEW p \in Procs, Commit(p) PROVE OrderInv'
  <1> DEFINE c == Current(p)
  <1>1. /\ mode' = mode /\ ~Idle(p) /\ proc[p].step = "run" /\ Free(p)
        /\ schema' = [schema EXCEPT ![c] = Stmts]
        /\ tracking' = [tracking EXCEPT ![c] = [sum |-> RecordedSum(c), back |-> FALSE]]
        /\ resolved' = resolved \ {c}
    BY DEF Commit, disk, Idle
  <1>2. p \in mode.procs /\ ProcOK(p)
    BY <1>1, Working
  <1>3. /\ proc[p].todo # <<>> /\ c \in Ids
        /\ proc'[p].step = "next" /\ proc'[p].todo = Tail(proc[p].todo)
        /\ proc'[p].outcome = proc[p].outcome
        /\ \A q \in Procs : q # p => /\ proc'[q].step = proc[q].step /\ proc'[q].todo = proc[q].todo
                                     /\ proc'[q].outcome = proc[q].outcome
    BY CommitRecord
  <1>4. RecordedSum(c) # None
    BY <1>3, Types, Consts DEF RecordedSum
  <1> HIDE DEF c
  <1>5. \A m \in Ids : Applied(m)' <=> Applied(m) \/ m = c
    BY <1>1, <1>3, <1>4, Types DEF Applied
  <1>6. Others(p)
    BY <1>1, <1>3 DEF Others, Free
  <1>7. OnlyApplies(p)
    BY <1>1, <1>2, <1>5 DEF OnlyApplies, ProcOK, Holds
  <1>8. Permitted(p)' /\ RollsBack(p)' /\ Holds(p)'
    BY <1>1, <1>2, <1>3 DEF ProcOK, Permitted, RollsBack, Holds
  <1>9. Deploys(p)'
    <2>1. \A m \in Ids : Applied(m) \/ m = Current(p) => Applied(m)'
      BY <1>5 DEF c
    <2> QED
      BY <1>1, <1>2, <1>3, <2>1, RestOfList DEF ProcOK
  <1>10. \A q \in Procs : ProcOK(q)'
    BY <1>1, <1>2, <1>6, <1>7, <1>8, <1>9, OthersOK DEF ProcOK
  <1>11. Orderly'
    BY <1>1 DEF OrderInv, Orderly, Alone, DeployOnly
  <1>12. NoneHalf'
    BY <1>1, <1>3, <1>5, Types DEF OrderInv, NoneHalf, Transactional
  <1>13. AppliedInOrder'
    <2> SUFFICES ASSUME NEW m \in Ids, NEW e \in Ids, e < m, Applied(m)'
                 PROVE  Applied(e)' \/ m \in resolved'
      BY DEF AppliedInOrder
    <2>1. CASE m # c
      BY <2>1, <1>1, <1>5 DEF OrderInv, AppliedInOrder
    <2>2. CASE m = c
      <3>1. ~Listed(p, e)
        <4> SUFFICES ASSUME NEW i \in DOMAIN proc[p].todo, proc[p].todo[i] = e PROVE FALSE
          BY DEF Listed
        <4>1. proc[p].todo[1] = c /\ 1 \in DOMAIN proc[p].todo /\ (i # 1 => i > 1)
          BY <1>3, HeadTail DEF c
        <4>2. i # 1 => c < e
          BY <4>1, <1>1, <1>2 DEF ProcOK, Deploys
        <4> QED
          BY <4>1, <4>2, <2>2, Consts DEF Ids
      <3> QED
        BY <3>1, <1>1, <1>2, <1>5 DEF ProcOK, Deploys
    <2> QED
      BY <2>1, <2>2
  <1>14. (\A q \in Procs : ProcOK(q))'
    BY <1>10
  <1> QED
    BY <1>11, <1>12, <1>13, <1>14 DEF OrderInv

\* The steps of one who is alone: only p's own part of the invariant is at stake.
LEMMA AloneOrder ==
  ASSUME Typed, OrderInv, NEW p \in Procs, p \in mode.procs, Alone, mode' = mode,
         Others(p), ProcOK(p)', NoneHalf', AppliedInOrder'
  PROVE  OrderInv'
  <1>1. \A q \in Procs : ProcOK(q)'
    BY OthersOK
  <1>2. (\A q \in Procs : ProcOK(q))'
    BY <1>1
  <1>3. Orderly'
    BY DEF Orderly, Alone
  <1> QED
    BY <1>2, <1>3 DEF OrderInv

\* Only apply may be run by several.
LEMMA MayUndo ==
  ASSUME OrderInv, NEW p \in Procs, NEW cmd, cmd # "apply", May(p, cmd)
  PROVE  Alone /\ p \in mode.procs
  BY DEF OrderInv, Orderly, DeployOnly, May

LEMMA StartOrder ==
  ASSUME Typed, OrderInv, NEW p \in Procs,
         \/ \E accept \in BOOLEAN : StartApply(p, accept)
         \/ \E n \in Ids : StartRollback(p, n)
         \/ StartReset(p)
  PROVE  OrderInv'
  <1>1. UNCHANGED <<mode, lock, tracking, schema>> /\ Leaves /\ p \in mode.procs /\ Idle(p)
    BY DEF StartApply, StartRollback, StartReset, disk, Leaves, May
  <1>2. ASSUME NEW accept \in BOOLEAN, StartApply(p, accept) PROVE Others(p) /\ ProcOK(p)'
    <2> DEFINE r == [Ended("none") EXCEPT !.step = "verify", !.accept = accept]
    <2>1. proc' = [proc EXCEPT ![p] = r] /\ r \in ProcType /\ r.step = "verify" /\ r.outcome = "none"
      BY <1>2, StartApplyRecord
    <2> HIDE DEF r
    <2>2. Others(p) /\ proc'[p] = r
      BY <2>1, <1>1, OneProcOthers
    <2>3. ProcOK(p)'
      BY <2>1, <2>2, <1>1 DEF ProcOK, Permitted, Idle, Deploys, RollsBack, Holds
    <2> QED
      BY <2>2, <2>3
  <1>3. ASSUME NEW n \in Ids, StartRollback(p, n) PROVE Others(p) /\ ProcOK(p)'
    <2> DEFINE ids == Reverse(InNameOrder({m \in Ids : Applied(m)}))
               s == SubSeq(ids, 1, IF n < Len(ids) THEN n ELSE Len(ids))
               r == [Ended("none") EXCEPT !.step = "down", !.todo = s]
    <2>1. /\ proc' = [proc EXCEPT ![p] = r] /\ r \in ProcType /\ r.step = "down" /\ r.todo = s
          /\ r.k = 0 /\ r.outcome = "none"
      BY <1>3, StartRollbackRecord
    <2>2. /\ \A i, j \in DOMAIN s : i < j => s[i] > s[j]
          /\ \A m \in Ids : Applied(m) => (\E i \in DOMAIN s : s[i] = m) \/ \A i \in DOMAIN s : m < s[i]
      BY RollbackList
    <2> HIDE DEF r, s
    <2>3. Others(p) /\ proc'[p] = r
      BY <2>1, <1>1, OneProcOthers
    <2>4. Alone
      BY <1>3, MayUndo DEF StartRollback
    <2>5. RollsBack(p)'
      BY <2>1, <2>2, <2>3, <1>1 DEF RollsBack, Listed, Applied
    <2>6. Permitted(p)' /\ Deploys(p)' /\ Holds(p)'
      BY <2>1, <2>3, <2>4, <1>1 DEF Permitted, Alone, Deploys, Holds
    <2> QED
      BY <2>3, <2>5, <2>6 DEF ProcOK
  <1>4. CASE StartReset(p)
    <2>1. Alone /\ Goto(p, "drop")
      BY <1>4, MayUndo DEF StartReset
    <2>2. Others(p) /\ proc'[p].step = "drop" /\ proc'[p].outcome = proc[p].outcome
      BY <2>1, <1>1, GotoIs DEF Steps
    <2>3. ProcOK(p)
      BY DEF OrderInv
    <2>4. ProcOK(p)'
      BY <2>1, <2>2, <2>3, <1>1 DEF ProcOK, Permitted, Alone, Deploys, RollsBack, Holds
    <2> QED
      BY <1>1, <2>2, <2>4, QuietOrder
  <1> QED
    BY <1>1, <1>2, <1>3, <1>4, QuietOrder

LEMMA DownStatementOrder == ASSUME Typed, OrderInv, NEW p \in Procs, DownStatement(p) PROVE OrderInv'
  <1> DEFINE c == Current(p)
  <1>1. /\ UNCHANGED <<mode, tracking, lock, resolved>> /\ ~Idle(p) /\ proc[p].step = "down"
        /\ proc[p].todo # <<>> /\ proc[p].k < Stmts /\ schema[c] = Stmts - proc[p].k
        /\ schema' = [schema EXCEPT ![c] = @ - 1] /\ proc' = [proc EXCEPT ![p].k = @ + 1]
    BY DEF DownStatement, disk, Idle
  <1>2. p \in mode.procs /\ ProcOK(p) /\ Alone
    BY <1>1, Working DEF ProcOK, Permitted
  <1>3. PICK r \in ProcType : /\ proc' = [proc EXCEPT ![p] = r] /\ r.step = "down"
                              /\ r.k = proc[p].k + 1
                              /\ r.todo = proc[p].todo /\ r.outcome = proc[p].outcome
    BY <1>1, CountRecord
  <1>4. Others(p) /\ proc'[p] = r
    BY <1>1, <1>3, OneProcOthers
  <1>5. c \in Ids /\ proc[p].k \in Nat /\ Current(p)' = c
    BY <1>1, <1>3, <1>4, HeadTail, Types, Consts DEF ProcType, Current
  <1> HIDE DEF c
  <1>6. schema'[c] = Stmts - (proc[p].k + 1)
    BY <1>1, <1>5, Types, Consts
  <1>7. RollsBack(p)'
    <2>1. /\ \A i, j \in DOMAIN proc'[p].todo : i < j => proc'[p].todo[i] > proc'[p].todo[j]
          /\ \A m \in Ids : Applied(m)' => Listed(p, m)' \/ \A i \in DOMAIN proc'[p].todo : m < proc'[p].todo[i]
      BY <1>1, <1>2, <1>3, <1>4 DEF ProcOK, RollsBack, Listed, Applied
    <2>2. proc'[p].todo # <<>> /\ schema'[Current(p)'] = Stmts - proc'[p].k
      BY <1>1, <1>3, <1>4, <1>5, <1>6
    <2> QED
      BY <2>1, <2>2 DEF RollsBack
  <1>8. Permitted(p)' /\ Deploys(p)' /\ Holds(p)'
    BY <1>1, <1>2, <1>3, <1>4 DEF ProcOK, Permitted, Alone, Deploys, Holds
  <1>9. Transactional => Applied(c)
    BY <1>1, <1>5, Consts DEF OrderInv, NoneHalf
  <1>10. NoneHalf'
    BY <1>1, <1>5, <1>9, Types DEF OrderInv, NoneHalf, Transactional, Applied
  <1>11. AppliedInOrder'
    BY <1>1 DEF OrderInv, AppliedInOrder, Applied
  <1> QED
    BY <1>1, <1>2, <1>4, <1>7, <1>8, <1>10, <1>11, AloneOrder DEF ProcOK

LEMMA MarkOrder == ASSUME Typed, OrderInv, NEW p \in Procs, MarkRolledBack(p) PROVE OrderInv'
  <1> DEFINE c == Current(p)
             s == proc[p].todo
             t == Tail(proc[p].todo)
  <1>1. /\ UNCHANGED <<mode, schema, lock>> /\ ~Idle(p) /\ proc[p].step = "down"
        /\ s # <<>> /\ proc[p].k = Stmts
        /\ tracking' = [tracking EXCEPT ![c].back = TRUE] /\ resolved' = resolved \ {c}
    BY DEF MarkRolledBack, disk, Idle
  <1>2. p \in mode.procs /\ ProcOK(p) /\ Alone
    BY <1>1, Working DEF ProcOK, Permitted
  <1>3. PICK r \in ProcType : /\ proc' = [proc EXCEPT ![p] = r] /\ r.step = "down" /\ r.k = 0
                              /\ r.todo = t /\ r.outcome = proc[p].outcome
    BY MarkRecord
  <1>4. Others(p) /\ proc'[p] = r
    BY <1>1, <1>3, OneProcOthers
  <1>5. /\ c \in Ids /\ s[1] = c /\ 1 \in DOMAIN s
        /\ \A i \in DOMAIN t : i + 1 \in DOMAIN s /\ i > 0 /\ i \in Nat /\ t[i] = s[i + 1]
        /\ \A i \in DOMAIN s : i # 1 => i - 1 \in DOMAIN t /\ i > 1 /\ t[i - 1] = s[i]
        /\ \A i \in DOMAIN s : s[i] \in Ids
    <2>1. s \in Seq(Ids)
      BY Types DEF ProcType
    <2>2. \A i \in DOMAIN s : s[i] \in Ids
      BY <2>1
    <2> QED
      BY <2>2, <1>1, HeadTail
  <1>6. /\ \A i, j \in DOMAIN s : i < j => s[i] > s[j]
        /\ \A m \in Ids : Applied(m) => Listed(p, m) \/ \A i \in DOMAIN s : m < s[i]
        /\ schema[c] = Stmts - Stmts
    BY <1>1, <1>2, Consts DEF ProcOK, RollsBack
  <1> HIDE DEF c, t
  <1>7. \A m \in Ids : Applied(m)' <=> Applied(m) /\ m # c
    BY <1>1, <1>5, Types DEF Applied
  <1>8. RollsBack(p)'
    <2>1. \A i, j \in DOMAIN t : i < j => t[i] > t[j]
      <3> SUFFICES ASSUME NEW i \in DOMAIN t, NEW j \in DOMAIN t, i < j PROVE t[i] > t[j]
        OBVIOUS
      <3>1. i + 1 < j + 1 /\ i + 1 \in DOMAIN s /\ j + 1 \in DOMAIN s
        BY <1>5
      <3> QED
        BY <3>1, <1>5, <1>6
    <2>2. ASSUME NEW m \in Ids, Applied(m)' PROVE Listed(p, m)' \/ \A i \in DOMAIN t : m < t[i]
      <3>1. Applied(m) /\ m # c
        BY <1>7, <2>2
      <3>2. CASE Listed(p, m)
        <4>1. PICK i \in DOMAIN s : s[i] = m
          BY <3>2 DEF Listed
        <4>2. i # 1
          BY <4>1, <3>1, <1>5
        <4> QED
          BY <4>1, <4>2, <1>3, <1>4, <1>5 DEF Listed
      <3>3. CASE \A i \in DOMAIN s : m < s[i]
        BY <3>3, <1>5
      <3> QED
        BY <3>1, <3>2, <3>3, <1>6
    <2> QED
      BY <2>1, <2>2, <1>3, <1>4 DEF RollsBack
  <1>9. Permitted(p)' /\ Deploys(p)' /\ Holds(p)'
    BY <1>1, <1>2, <1>3, <1>4 DEF ProcOK, Permitted, Alone, Deploys, Holds
  <1>10. NoneHalf'
    BY <1>1, <1>5, <1>6, <1>7, Consts DEF OrderInv, NoneHalf, Transactional
  <1>11. AppliedInOrder'
    <2> SUFFICES ASSUME NEW m \in Ids, NEW e \in Ids, e < m, Applied(m)'
                 PROVE  Applied(e)' \/ m \in resolved'
      BY DEF AppliedInOrder
    <2>1. Applied(m) /\ m # c
      BY <1>7
    <2>2. Applied(e) \/ m \in resolved
      BY <2>1 DEF OrderInv, AppliedInOrder
    <2>3. CASE e # c
      BY <2>1, <2>2, <2>3, <1>1, <1>7
    <2>4. CASE e = c
      <3>1. ~ \A i \in DOMAIN s : m < s[i]
        BY <2>4, <1>5, Consts DEF Ids
      <3>2. PICK i \in DOMAIN s : s[i] = m
        BY <3>1, <2>1, <1>6 DEF Listed
      <3>3. i # 1 /\ i > 1
        BY <3>2, <2>1, <1>5
      <3>4. s[1] > s[i]
        BY <3>3, <1>5, <1>6
      <3> QED
        BY <3>2, <3>4, <2>4, <1>5, Consts DEF Ids
    <2> QED
      BY <2>3, <2>4
  <1> QED
    BY <1>1, <1>2, <1>4, <1>8, <1>9, <1>10, <1>11, AloneOrder DEF ProcOK

LEMMA ResolveOrder ==
  ASSUME Typed, OrderInv, NEW p \in Procs, NEW m \in Ids, Resolve(p, m) PROVE OrderInv'
  <1>1. /\ UNCHANGED <<mode, schema, lock, proc>> /\ Idle(p)
        /\ tracking' = [tracking EXCEPT ![m] = [sum |-> up[m], back |-> FALSE]]
        /\ resolved' = resolved \cup {m} /\ up[m] # None
    BY Types, Consts DEF Resolve, disk, May
  <1>2. Alone /\ p \in mode.procs
    BY MayUndo DEF Resolve
  <1>3. Others(p) /\ ProcOK(p)
    BY <1>1 DEF Others, OrderInv
  <1>4. ProcOK(p)'
    BY <1>1, <1>2, <1>3 DEF ProcOK, Permitted, Idle, Alone, Deploys, RollsBack, Holds
  <1>5. \A e \in Ids : Applied(e)' <=> Applied(e) \/ e = m
    BY <1>1, Types DEF Applied
  <1>6. NoneHalf' /\ AppliedInOrder'
    BY <1>1, <1>5 DEF OrderInv, NoneHalf, Transactional, AppliedInOrder
  <1> QED
    BY <1>1, <1>2, <1>3, <1>4, <1>6, AloneOrder

LEMMA DropTablesOrder == ASSUME Typed, OrderInv, NEW p \in Procs, DropTables(p) PROVE OrderInv'
  <1>1. UNCHANGED <<mode, tracking, lock, proc, resolved>> /\ ~Idle(p) /\ proc[p].step = "drop"
    BY DEF DropTables, disk, Idle
  <1>2. p \in mode.procs /\ ProcOK(p) /\ Alone
    BY <1>1, Working DEF ProcOK, Permitted
  <1>3. Others(p)
    BY <1>1 DEF Others
  <1>4. ProcOK(p)'
    BY <1>1, <1>2 DEF ProcOK, Permitted, Idle, Alone, Deploys, RollsBack, Holds
  <1>5. Transactional => schema' = [m \in Ids |-> IF m \in Ids THEN 0 ELSE schema[m]]
    BY DEF DropTables
  <1>6. NoneHalf'
    BY <1>1, <1>5 DEF NoneHalf, Transactional
  <1>7. AppliedInOrder'
    BY <1>1 DEF OrderInv, AppliedInOrder, Applied
  <1> QED
    BY <1>1, <1>2, <1>3, <1>4, <1>6, <1>7, AloneOrder

LEMMA ClearTrackingOrder == ASSUME Typed, OrderInv, NEW p \in Procs, ClearTracking(p) PROVE OrderInv'
  <1>1. /\ UNCHANGED <<mode, schema>> /\ ~Idle(p) /\ proc[p].step = "drop" /\ End(p, "done")
        /\ \A m \in Ids : schema[m] = 0
        /\ tracking' = [m \in Ids |-> NoRow]
    BY DEF ClearTracking, disk, Idle
  <1>2. p \in mode.procs /\ Alone
    BY <1>1, Working DEF ProcOK, Permitted
  <1>3. /\ proc' = [proc EXCEPT ![p] = Ended("done")] /\ Ended("done") \in ProcType
        /\ \A q \in Procs : q # p /\ lock = q => lock' = q
    BY <1>1, EndRecord
  <1>4. Others(p) /\ proc'[p] = Ended("done")
    BY <1>3, OneProcOthers
  <1>5. proc'[p].step = "idle" /\ proc'[p].outcome # "exists"
    BY <1>4, EndedType
  <1>6. ProcOK(p)'
    BY <1>5 DEF ProcOK, Permitted, Idle, Deploys, RollsBack, Holds
  <1>7. NoneHalf'
    BY <1>1 DEF NoneHalf
  <1>8. \A m \in Ids : ~Applied(m)'
    BY <1>1 DEF Applied, NoRow
  <1>9. AppliedInOrder'
    BY <1>8 DEF AppliedInOrder
  <1> QED
    BY <1>1, <1>2, <1>4, <1>6, <1>7, <1>9, AloneOrder

\* What OrderInv is about does not depend on the files.
LEMMA FilesOrder ==
  ASSUME OrderInv, UNCHANGED <<mode, schema, tracking, lock, proc, resolved>> PROVE OrderInv'
  BY DEF OrderInv, Orderly, Alone, DeployOnly, NoneHalf, Transactional, AppliedInOrder, Applied,
         ProcOK, Permitted, Idle, Deploys, RollsBack, Holds, Listed, Current

LEMMA OrderStays == ASSUME Typed, OrderInv, [Next]_vars PROVE OrderInv'
  <1>1. CASE UNCHANGED vars
    BY <1>1, FilesOrder DEF vars
  <1>2. ASSUME NEW m \in Ids, Edit(m) PROVE OrderInv'
    BY <1>2, FilesOrder DEF Edit, history
  <1>3. ASSUME NEW p \in Procs, Verify(p) PROVE OrderInv'
    <2>1. mode' = mode /\ tracking' = tracking /\ Leaves /\ ~Idle(p) /\ proc[p].step = "verify"
      BY <1>3 DEF Verify, disk, Leaves, Idle
    <2>2. p \in mode.procs /\ ProcOK(p)
      BY <2>1, Working
    <2>3. CASE Goto(p, "read") /\ lock' = lock
      <3>1. Others(p) /\ proc'[p].step = "read" /\ proc'[p].outcome = proc[p].outcome
        BY <2>3, GotoIs DEF Steps
      <3>2. ProcOK(p)'
        BY <2>1, <2>2, <3>1 DEF ProcOK, Permitted, Idle, Deploys, RollsBack, Holds
      <3> QED
        BY <2>1, <2>2, <3>1, <3>2, QuietOrder
    <2>4. CASE End(p, "mismatch")
      BY <2>1, <2>4, EndOrder
    <2> QED
      BY <1>3, <2>3, <2>4 DEF Verify
  <1>4. ASSUME NEW p \in Procs, DownFails(p) \/ RollbackEnds(p) \/ Crash(p) PROVE OrderInv'
    <2>1. /\ End(p, "failed") \/ End(p, "done") \/ End(p, "crashed")
          /\ mode' = mode /\ Leaves /\ ~Idle(p)
      BY <1>4 DEF DownFails, RollbackEnds, Crash, disk, Leaves, Idle
    <2> QED
      BY <2>1, EndOrder
  <1> QED
    BY <1>1, <1>2, <1>3, <1>4, StartOrder, ReadPendingOrder, NextMigrationOrder, TakeLockOrder,
       RecheckOrder, StatementFailsOrder, RunStatementOrder, CommitOrder, DownStatementOrder,
       MarkOrder, ResolveOrder, DropTablesOrder, ClearTrackingOrder DEF Next, Step

-----------------------------------------------------------------------------
(* The theorems.                                                           *)

\* The variables have their types, in every usage.
THEOREM TypeCorrect == Spec => []TypeOK
  <1>1. Typed => TypeOK
    BY DEF Typed
  <1> QED
    BY <1>1, InitTyped, NextTyped, PTL DEF Spec

LEMMA AlwaysTyped == Spec => []Typed
  BY InitTyped, NextTyped, PTL DEF Spec

\* Whatever commands are run, by however many processes, with failures and
\* crashes: a migration recorded as applied is in effect, whole, unless it was
\* only resolved or is being undone (runner.rs:292-334, 366-408).
THEOREM RecordedInEffect == Spec => []AppliedInEffect
  <1>1. Init => AppliedInEffect
    BY DEF Init, AppliedInEffect, Applied, NoRow
  <1>2. Typed /\ AppliedInEffect /\ [Next]_vars => AppliedInEffect'
    BY InEffectStays
  <1> QED
    BY <1>1, <1>2, AlwaysTyped, PTL DEF Spec

LEMMA AlwaysOrder == Spec /\ Orderly => []OrderInv
  <1>1. Typed /\ OrderInv /\ [Next]_vars => OrderInv'
    BY OrderStays
  <1> QED
    BY <1>1, InitOrder, AlwaysTyped, PTL DEF Spec

\* One operator, or any number of deployers: the tracking table tells what is
\* in the database, and nothing is half done where DDL is transactional
\* (runner.rs:225, 292-334).
THEOREM TrackingIsTrue == Spec /\ Orderly => []TrackingTrue
  <1>1. TypeOK /\ AppliedInEffect /\ OrderInv => TrackingTrue
    BY DEF OrderInv, NoneHalf, TrackingTrue, NothingHalfDone
  <1> QED
    BY <1>1, TypeCorrect, RecordedInEffect, AlwaysOrder, PTL

\* In the same usages: migrations run in their order, and on Postgres no
\* deployer meets the effect of another (runner.rs:83, 271-274, 356).
THEOREM RunInOrder == Spec /\ Orderly => []InOrder
  <1>1. OrderInv => InOrder
    BY DEF OrderInv, ProcOK, Holds, InOrder, NoneTooMany
  <1> QED
    BY <1>1, AlwaysOrder, PTL

\* In every usage, edits beside a meta.json included: apply_all reports a
\* mismatch exactly when an applied file has changed since it ran or, if it had
\* been edited before that, is not the generated one (error.rs:24, main.rs:719).
THEOREM MismatchTellsEdit == Spec => MismatchIsEdit
  <1>1. Typed /\ SumTrue /\ [Next]_vars => SumTrue'
    BY SumStays
  <1>2. ASSUME Typed, SumTrue, NEW p \in Procs, Verify(p)
        PROVE  proc'[p].outcome = "mismatch" <=> \E m \in Ids : Applied(m) /\ up[m] # RanSum(m)
    <2>1. (\E m \in Ids : Applied(m) /\ tracking[m].sum # up[m])
             <=> \E m \in Ids : Applied(m) /\ up[m] # RanSum(m)
      BY <1>2 DEF SumTrue
    <2>2. CASE \E m \in Ids : Applied(m) /\ tracking[m].sum # up[m]
      <3>1. End(p, "mismatch")
        BY <2>2, <1>2 DEF Verify
      <3>2. proc'[p] = Ended("mismatch")
        BY <3>1, <1>2, Types DEF End
      <3> QED
        BY <2>1, <2>2, <3>2, EndedType
    <2>3. CASE ~ \E m \in Ids : Applied(m) /\ tracking[m].sum # up[m]
      <3>1. Goto(p, "read") /\ lock' = lock /\ proc[p].outcome = "none"
        BY <2>3, <1>2 DEF Verify, Typed, Busy
      <3>2. proc'[p].outcome = "none"
        BY <3>1, <1>2, GotoIs DEF Steps
      <3> QED
        BY <2>1, <2>3, <3>2
    <2> QED
      BY <2>2, <2>3
  <1>3. Typed /\ SumTrue =>
          \A p \in Procs : Verify(p) =>
             (proc'[p].outcome = "mismatch" <=>
                \E m \in Ids : Applied(m) /\ up[m] # IF m \in Drifted THEN meta[m] ELSE ran[m])
    BY <1>2 DEF RanSum
  <1> QED
    BY <1>1, <1>3, InitSum, AlwaysTyped, PTL DEF Spec, MismatchIsEdit

-----------------------------------------------------------------------------
(* Replaying a history.                                                    *)

\* What the n-th migration makes of the database d, if it is one of ids.
Next1(f, ids, d, n) ==
    IF n \notin ids \/ d = Broken THEN d
    ELSE IF Runs(f[n], d) THEN After(f[n], d) ELSE Broken

\* at[n] is the database after the migrations up to n.
Passes(at, f, ids, m) ==
    at = [n \in 0 .. m |-> IF n = 0 THEN {} ELSE Next1(f, ids, at[n - 1], n)]

LEMMA PassesExists ==
  ASSUME NEW f, NEW ids, NEW m \in Nat
  PROVE  \E at : Passes(at, f, ids, m)
  <1> SUFFICES ASSUME \A at : ~Passes(at, f, ids, m) PROVE FALSE
    OBVIOUS
  <1> DEFINE D == {n \in Nat : \A at : ~Passes(at, f, ids, n)}
  <1>1. PICK n \in D : \A k \in D : n <= k
    BY LeastNumber
  <1>2. CASE n = 0
    <2>1. Passes([k \in 0 .. 0 |-> {}], f, ids, 0)
      BY DEF Passes
    <2> QED
      BY <1>1, <1>2, <2>1
  <1>3. CASE n # 0
    <2>1. n - 1 \in Nat /\ n - 1 \notin D
      BY <1>1, <1>3
    <2>2. PICK at : Passes(at, f, ids, n - 1)
      BY <2>1
    <2> DEFINE more == [k \in 0 .. n |-> IF k = n THEN Next1(f, ids, at[n - 1], n) ELSE at[k]]
    <2>3. Passes(more, f, ids, n)
      <3>1. ASSUME NEW k \in 0 .. n
            PROVE  more[k] = IF k = 0 THEN {} ELSE Next1(f, ids, more[k - 1], k)
        <4>1. CASE k = n
          BY <1>1, <1>3, <4>1
        <4>2. CASE k # n
          <5>1. k \in 0 .. n - 1 /\ (k # 0 => k - 1 \in 0 .. n - 1)
            BY <1>1, <4>2
          <5>2. at[k] = IF k = 0 THEN {} ELSE Next1(f, ids, at[k - 1], k)
            BY <2>2, <5>1 DEF Passes
          <5> QED
            BY <5>1, <5>2, <4>2, <1>1
        <4> QED
          BY <4>1, <4>2
      <3> HIDE DEF more
      <3>2. more = [k \in 0 .. n |-> more[k]]
        BY DEF more
      <3> QED
        BY <3>1, <3>2 DEF Passes
    <2> QED
      BY <1>1, <2>3
  <1> QED
    BY <1>2, <1>3

\* Replay, of any files.
Replayed(f, ids) ==
  LET at[n \in 0 .. MaxFiles] ==
        IF n = 0 THEN {}
        ELSE IF n \notin ids \/ at[n - 1] = Broken THEN at[n - 1]
        ELSE IF Runs(f[n], at[n - 1]) THEN After(f[n], at[n - 1]) ELSE Broken
  IN  at[MaxFiles]

LEMMA ReplayIs ==
  ASSUME NEW ids
  PROVE  Replay(ids) = Replayed(files, ids)
  BY DEF Replay, Replayed

Follows(at, f, ids) ==
    /\ at[0] = {}
    /\ \A n \in 1 .. MaxFiles : at[n] = Next1(f, ids, at[n - 1], n)

LEMMA ReplayedFollows ==
  ASSUME NEW f, NEW ids
  PROVE  \E at : Follows(at, f, ids) /\ Replayed(f, ids) = at[MaxFiles]
  <1> DEFINE Good(at) == at = [n \in 0 .. MaxFiles |->
                                 IF n = 0 THEN {}
                                 ELSE IF n \notin ids \/ at[n - 1] = Broken THEN at[n - 1]
                                 ELSE IF Runs(f[n], at[n - 1]) THEN After(f[n], at[n - 1])
                                      ELSE Broken]
  <1>1. PICK at0 : Passes(at0, f, ids, MaxFiles)
    BY PassesExists, CliAssumption
  <1>2. Good(at0)
    BY <1>1 DEF Passes, Next1
  <1>3. Replayed(f, ids) = (CHOOSE at : Good(at))[MaxFiles]
    BY DEF Replayed
  <1>4. Good(CHOOSE at : Good(at))
    BY <1>2
  <1>5. PICK at : Good(at) /\ Replayed(f, ids) = at[MaxFiles]
    BY <1>3, <1>4
  <1>6. Follows(at, f, ids)
    <2>1. MaxFiles \in Nat
      BY CliAssumption
    <2>2. at[0] = {}
      BY <1>5, <2>1
    <2>3. ASSUME NEW n \in 1 .. MaxFiles PROVE at[n] = Next1(f, ids, at[n - 1], n)
      <3>1. n \in 0 .. MaxFiles /\ n # 0
        BY <2>1, <2>3
      <3> QED
        BY <1>5, <3>1 DEF Next1
    <2> QED
      BY <2>2, <2>3 DEF Follows
  <1> QED
    BY <1>5, <1>6

\* Two histories with the same migrations up to m.
LEMMA SameUpTo ==
  ASSUME NEW at1, NEW f1, NEW ids1, Follows(at1, f1, ids1),
         NEW at2, NEW f2, NEW ids2, Follows(at2, f2, ids2), NEW m \in 0 .. MaxFiles,
         \A n \in 1 .. m : (n \in ids1 <=> n \in ids2) /\ (n \in ids1 => f1[n] = f2[n])
  PROVE  at1[m] = at2[m]
  <1> SUFFICES ASSUME at1[m] # at2[m] PROVE FALSE
    OBVIOUS
  <1>1. MaxFiles \in Nat
    BY CliAssumption
  <1> DEFINE D == {n \in Nat : n \in 0 .. m /\ at1[n] # at2[n]}
  <1>2. PICK n \in D : \A k \in D : n <= k
    <2>1. m \in D
      BY <1>1
    <2> HIDE DEF D
    <2>2. D \in SUBSET Nat
      BY DEF D
    <2> QED
      BY <2>1, <2>2, LeastNumber
  <1>3. n \in 1 .. m /\ n \in 1 .. MaxFiles /\ n - 1 \in Nat /\ n - 1 \in 0 .. m
    BY <1>1, <1>2 DEF Follows
  <1>4. at1[n - 1] = at2[n - 1]
    BY <1>2, <1>3
  <1>5. at1[n] = Next1(f1, ids1, at1[n - 1], n) /\ at2[n] = Next1(f2, ids2, at2[n - 1], n)
    BY <1>3 DEF Follows
  <1>6. (n \in ids1 <=> n \in ids2) /\ (n \in ids1 => f1[n] = f2[n])
    BY <1>3
  <1>7. at1[n] = at2[n]
    BY <1>4, <1>5, <1>6 DEF Next1
  <1> QED
    BY <1>2, <1>7

\* Nothing happens after the last migration, nor after one that cannot be run.
LEMMA Rest ==
  ASSUME NEW at, NEW f, NEW ids, Follows(at, f, ids), NEW m \in 0 .. MaxFiles,
         at[m] = Broken \/ \A n \in m + 1 .. MaxFiles : n \notin ids
  PROVE  at[MaxFiles] = at[m]
  <1> SUFFICES ASSUME at[MaxFiles] # at[m] PROVE FALSE
    OBVIOUS
  <1>1. MaxFiles \in Nat
    BY CliAssumption
  <1> DEFINE D == {n \in Nat : n \in m .. MaxFiles /\ at[n] # at[m]}
  <1>2. PICK n \in D : \A k \in D : n <= k
    <2>1. MaxFiles \in D
      BY <1>1
    <2> HIDE DEF D
    <2>2. D \in SUBSET Nat
      BY DEF D
    <2> QED
      BY <2>1, <2>2, LeastNumber
  <1>3. n \in m + 1 .. MaxFiles /\ n \in 1 .. MaxFiles /\ n - 1 \in Nat /\ n - 1 \in m .. MaxFiles
    BY <1>1, <1>2
  <1>4. at[n - 1] = at[m]
    BY <1>2, <1>3
  <1>5. at[n] = Next1(f, ids, at[n - 1], n)
    BY <1>3 DEF Follows
  <1>6. at[n] = at[m]
    BY <1>3, <1>4, <1>5 DEF Next1
  <1> QED
    BY <1>2, <1>6

LEMMA SameHistory ==
  ASSUME NEW f1, NEW f2, NEW ids, \A n \in ids : f1[n] = f2[n]
  PROVE  Replayed(f1, ids) = Replayed(f2, ids)
  <1>1. PICK at1 : Follows(at1, f1, ids) /\ Replayed(f1, ids) = at1[MaxFiles]
    BY ReplayedFollows
  <1>2. PICK at2 : Follows(at2, f2, ids) /\ Replayed(f2, ids) = at2[MaxFiles]
    BY ReplayedFollows
  <1>3. MaxFiles \in 0 .. MaxFiles
    BY CliAssumption
  <1> QED
    BY <1>1, <1>2, <1>3, SameUpTo

LEMMA NoHistory ==
  ASSUME NEW f
  PROVE  Replayed(f, {}) = {}
  <1>1. PICK at : Follows(at, f, {}) /\ Replayed(f, {}) = at[MaxFiles]
    BY ReplayedFollows
  <1>2. 0 \in 0 .. MaxFiles
    BY CliAssumption
  <1>3. at[MaxFiles] = at[0]
    BY <1>1, <1>2, Rest
  <1> QED
    BY <1>1, <1>3 DEF Follows

\* A migration later than all others is run last.
LEMMA OneMore ==
  ASSUME NEW f, NEW ids, NEW id \in FileIds, \A n \in ids : n < id
  PROVE  Replayed(f, ids \cup {id}) = Next1(f, {id}, Replayed(f, ids), id)
  <1>1. PICK at1 : Follows(at1, f, ids) /\ Replayed(f, ids) = at1[MaxFiles]
    BY ReplayedFollows
  <1>2. PICK at2 : Follows(at2, f, ids \cup {id}) /\ Replayed(f, ids \cup {id}) = at2[MaxFiles]
    BY ReplayedFollows
  <1>3. MaxFiles \in Nat /\ id \in 1 .. MaxFiles /\ id - 1 \in 0 .. MaxFiles /\ id \in 0 .. MaxFiles
    BY CliAssumption DEF FileIds
  <1>4. \A n \in id - 1 + 1 .. MaxFiles : n \notin ids
    BY <1>3
  <1>5. \A n \in id + 1 .. MaxFiles : n \notin ids \cup {id}
    BY <1>3
  <1>6. at1[MaxFiles] = at1[id - 1]
    BY <1>1, <1>3, <1>4, Rest
  <1>7. at2[MaxFiles] = at2[id]
    BY <1>2, <1>3, <1>5, Rest
  <1>8. at1[id - 1] = at2[id - 1]
    <2>1. \A n \in 1 .. id - 1 : (n \in ids <=> n \in ids \cup {id}) /\ (n \in ids => f[n] = f[n])
      BY <1>3
    <2> QED
      BY <1>1, <1>2, <1>3, <2>1, SameUpTo
  <1>9. at2[id] = Next1(f, ids \cup {id}, at2[id - 1], id)
    BY <1>2, <1>3 DEF Follows
  <1> QED
    BY <1>1, <1>2, <1>6, <1>7, <1>8, <1>9 DEF Next1

\* If all of a history can be run, so can the next migration after its beginning.
LEMMA Ahead ==
  ASSUME NEW f, NEW all, NEW ids, NEW id \in FileIds, id \in all,
         \A n \in FileIds : n < id => (n \in ids <=> n \in all),
         \A n \in ids : n < id,
         Replayed(f, all) # Broken
  PROVE  Runs(f[id], Replayed(f, ids))
  <1>1. PICK at1 : Follows(at1, f, ids) /\ Replayed(f, ids) = at1[MaxFiles]
    BY ReplayedFollows
  <1>2. PICK at2 : Follows(at2, f, all) /\ Replayed(f, all) = at2[MaxFiles]
    BY ReplayedFollows
  <1>3. MaxFiles \in Nat /\ id \in 1 .. MaxFiles /\ id - 1 \in 0 .. MaxFiles /\ id \in 0 .. MaxFiles
    BY CliAssumption DEF FileIds
  <1>4. \A n \in id - 1 + 1 .. MaxFiles : n \notin ids
    BY <1>3
  <1>5. at1[MaxFiles] = at1[id - 1]
    BY <1>1, <1>3, <1>4, Rest
  <1>6. at1[id - 1] = at2[id - 1]
    <2>1. \A n \in 1 .. id - 1 : (n \in ids <=> n \in all) /\ (n \in ids => f[n] = f[n])
      BY <1>3 DEF FileIds
    <2> QED
      BY <1>1, <1>2, <1>3, <2>1, SameUpTo
  <1>7. at2[id] = Next1(f, all, at2[id - 1], id)
    BY <1>2, <1>3 DEF Follows
  <1>8. at2[id - 1] # Broken /\ at2[id] # Broken
    BY <1>2, <1>3, Rest
  <1>9. Runs(f[id], at2[id - 1])
    BY <1>7, <1>8 DEF Next1
  <1> QED
    BY <1>1, <1>5, <1>6, <1>9

-----------------------------------------------------------------------------
(* The inductive invariant.                                                *)

MigrationFile == [add : SUBSET Tables, drop : SUBSET Tables, destructive : BOOLEAN, there : BOOLEAN]

\* The steps each command takes.
Script == {<<"", "idle">>,
           <<"dev", "apply">>, <<"dev", "generate">>, <<"dev", "save">>,
           <<"deploy", "apply">>, <<"deploy", "end">>,
           <<"reset", "drop">>, <<"reset", "clear">>,
           <<"reset", "apply">>, <<"reset", "generate">>, <<"reset", "save">>,
           <<"squash", "archive">>, <<"squash", "baseline">>, <<"squash", "forget">>,
           <<"squash", "resolve">>,
           <<"push", "execute">>, <<"push", "save">>}

Command == [cmd : {"", "dev", "deploy", "reset", "squash", "push"},
            step : {"idle", "apply", "generate", "save", "end", "drop", "clear",
                    "archive", "baseline", "forget", "resolve", "execute"},
            schema : SUBSET Tables, accept : BOOLEAN, clean : BOOLEAN,
            outcome : {"none", "done", "stopped", "failed"}]

CliTyped ==
  /\ wanted \in SUBSET Tables /\ snapshot \in (SUBSET Tables) \cup {Broken}
  /\ files \in [FileIds -> MigrationFile] /\ written \in 0 .. MaxFiles
  /\ tables \in SUBSET Tables /\ recorded \in SUBSET FileIds
  /\ op \in Command /\ <<op.cmd, op.step>> \in Script
  /\ stale \in BOOLEAN /\ off \in BOOLEAN

\* No id is later than the last that was given.
Numbered == \A id \in OnDisk \cup recorded : id <= written

\* What is recorded comes before all that is left to be applied, and led here.
History ==
  ~off => /\ recorded \subseteq OnDisk
          /\ \A id \in recorded, left \in PendingFiles : id < left
          /\ Replayed(files, recorded) = tables

Told == /\ ~stale => snapshot = tables
        /\ op.outcome = "failed" => ~op.clean

\* A command that began where the snapshot told the tables and nothing was left
\* to be applied, or a reset whose migrations make its schema, can go on.
OnCourse ==
  op.clean =>
    /\ op.step = "apply" /\ op.cmd = "dev" =>
         \/ /\ ~stale /\ PendingFiles = {written}
            /\ files[written] = Diff(tables, op.schema)
         \/ PendingFiles = {} /\ tables = op.schema
    /\ op.cmd # "deploy"
    /\ op.cmd = "reset" /\ op.step \in {"drop", "clear", "apply"} => Replayed(files, OnDisk) = op.schema
    /\ op.step \in {"generate", "save"} => tables = op.schema
    /\ op.step = "execute" => snapshot = tables

Resets == /\ op.step = "clear" => tables = {}
          /\ op.cmd = "reset" /\ op.step = "apply" => ~off

Baseline == /\ OnDisk = {written}
            /\ files[written].add = op.schema /\ files[written].drop = {}
Squashes == /\ op.step = "archive" => off \/ OnDisk # {}
            /\ op.step \in {"baseline", "forget", "resolve"} => off
            /\ op.step = "baseline" => OnDisk = {}
            /\ op.step \in {"forget", "resolve"} => Baseline
            /\ op.step = "resolve" => recorded = {}

CliInv == CliTyped /\ Numbered /\ History /\ Told /\ OnCourse /\ Resets /\ Squashes

-----------------------------------------------------------------------------
(* The command that is running.                                            *)

LEMMA BeginIs ==
  ASSUME CliInv, NEW cmd, NEW step, NEW accept \in BOOLEAN, NEW clean \in BOOLEAN,
         <<cmd, step>> \in Script, Begin(cmd, step, accept, clean)
  PROVE  /\ op' \in Command /\ <<op'.cmd, op'.step>> \in Script
         /\ op'.cmd = cmd /\ op'.step = step /\ op'.schema = wanted
         /\ op'.clean = clean /\ op'.outcome = "none"
  <1>1. op' = [cmd |-> cmd, step |-> step, schema |-> wanted, accept |-> accept,
               clean |-> clean, outcome |-> "none"]
    BY DEF Begin
  <1>2. cmd \in {"", "dev", "deploy", "reset", "squash", "push"}
        /\ step \in {"idle", "apply", "generate", "save", "end", "drop", "clear",
                     "archive", "baseline", "forget", "resolve", "execute"}
    BY DEF Script
  <1>3. wanted \in SUBSET Tables
    BY DEF CliInv, CliTyped
  <1> QED
    BY <1>1, <1>2, <1>3 DEF Command

LEMMA ThenIs ==
  ASSUME CliInv, NEW step, Then(step), <<op.cmd, step>> \in Script
  PROVE  /\ op' \in Command /\ <<op'.cmd, op'.step>> \in Script
         /\ op'.cmd = op.cmd /\ op'.step = step /\ op'.schema = op.schema
         /\ op'.clean = op.clean /\ op'.outcome = op.outcome
  <1>1. op \in Command /\ op' = [op EXCEPT !.step = step]
    BY DEF CliInv, CliTyped, Then
  <1>2. step \in {"idle", "apply", "generate", "save", "end", "drop", "clear",
                  "archive", "baseline", "forget", "resolve", "execute"}
    BY DEF Script
  <1> QED
    BY <1>1, <1>2 DEF Command

\* No command is running, and none is clean.
Rests == op.step = "idle" /\ op.cmd = "" /\ op \in Command /\ ~op.clean

LEMMA NoOpIs ==
  ASSUME NEW outcome \in {"none", "done", "stopped", "failed"}, op' = NoOp(outcome)
  PROVE  Rests'
  BY DEF Rests, NoOp, Command

LEMMA OverIs ==
  ASSUME CliInv, NEW outcome \in {"done", "stopped"}, Over(outcome)
  PROVE  Rests'
  BY NoOpIs DEF Over

LEMMA FailedIs ==
  ASSUME CliInv, Over("failed"), ~op.clean
  PROVE  Rests'
  <1> DEFINE n == NoOp("failed")
  <1>1. n \in Command /\ n.step = "idle" /\ n.cmd = ""
    BY DEF NoOp, Command
  <1>2. op' = [n EXCEPT !.clean = op.clean]
    BY DEF Over
  <1> HIDE DEF n
  <1>3. op.clean \in BOOLEAN
    BY DEF CliInv, CliTyped, Command
  <1> QED
    BY <1>1, <1>2, <1>3 DEF Rests, Command

\* A command that has ended leaves everything else to the other conjuncts.
LEMMA AtRest ==
  ASSUME Rests'
  PROVE  /\ <<op'.cmd, op'.step>> \in Script /\ op' \in Command
         /\ (op.outcome = "failed" => ~op.clean)' /\ OnCourse' /\ Resets' /\ Squashes'
  BY DEF Rests, OnCourse, Resets, Squashes, Script

\* A step that changes only which command is running.
LEMMA OpOnly ==
  ASSUME CliInv, UNCHANGED <<snapshot, files, written, database, stale, off>>,
         wanted' \in SUBSET Tables, op' \in Command, <<op'.cmd, op'.step>> \in Script,
         (op.outcome = "failed" => ~op.clean)', OnCourse', Resets', Squashes'
  PROVE  CliInv'
  <1> USE DEF database
  <1>1. CliTyped'
    BY DEF CliInv, CliTyped
  <1>2. OnDisk' = OnDisk /\ PendingFiles' = PendingFiles
    BY DEF OnDisk, PendingFiles
  <1>3. Numbered'
    BY <1>2 DEF CliInv, Numbered
  <1>4. History'
    <2>1. off' = off /\ recorded' = recorded /\ files' = files /\ tables' = tables
      OBVIOUS
    <2>2. Replayed(files, recorded)' = Replayed(files, recorded)
      BY <2>1
    <2> QED
      BY <1>2, <2>1, <2>2 DEF CliInv, History
  <1>5. Told'
    BY DEF CliInv, Told
  <1> QED
    BY <1>1, <1>3, <1>4, <1>5 DEF CliInv

LEMMA IdleInv ==
  ASSUME CliInv, UNCHANGED <<snapshot, files, written, database, stale, off>>,
         wanted' \in SUBSET Tables, Rests'
  PROVE  CliInv'
  <1>1. /\ <<op'.cmd, op'.step>> \in Script /\ op' \in Command
        /\ (op.outcome = "failed" => ~op.clean)' /\ OnCourse' /\ Resets' /\ Squashes'
    BY AtRest
  <1> QED
    BY <1>1, OpOnly

\* A step that leaves the command alone.
LEMMA SchemaOnly ==
  ASSUME CliInv, UNCHANGED <<snapshot, files, written, database, op, stale, off>>,
         wanted' \in SUBSET Tables
  PROVE  CliInv'
  <1>1. op' \in Command /\ <<op'.cmd, op'.step>> \in Script /\ (op.outcome = "failed" => ~op.clean)'
    BY DEF CliInv, CliTyped, Told
  <1>2. OnCourse' /\ Resets' /\ Squashes'
    BY DEF CliInv, OnCourse, Resets, Squashes, Baseline, OnDisk, PendingFiles, database, Diff
  <1> QED
    BY <1>1, <1>2, OpOnly

-----------------------------------------------------------------------------
(* The commands begin, and end.                                            *)

LEMMA EditInv ==
  ASSUME CliInv, EditSchema \/ DbPull
  PROVE  CliInv'
  <1>1. wanted' \in SUBSET Tables
    BY DEF CliInv, CliTyped, EditSchema, DbPull
  <1> QED
    BY <1>1, SchemaOnly DEF EditSchema, DbPull

LEMMA DeployInv ==
  ASSUME CliInv, MigrateDeploy \/ CommandEnds
  PROVE  CliInv'
  <1>1. wanted' \in SUBSET Tables
    BY DEF CliInv, CliTyped, MigrateDeploy, CommandEnds, workspace
  <1>2. CASE CommandEnds
    BY <1>1, <1>2, OverIs, IdleInv DEF CommandEnds, workspace
  <1>3. CASE MigrateDeploy
    <2>1. /\ op' \in Command /\ <<op'.cmd, op'.step>> \in Script
          /\ op'.cmd = "deploy" /\ op'.step = "apply" /\ ~op'.clean /\ op'.outcome = "none"
      <3>1. <<"deploy", "apply">> \in Script
        BY DEF Script
      <3> QED
        BY <1>3, <3>1, BeginIs DEF MigrateDeploy
    <2>2. OnCourse' /\ Resets' /\ Squashes'
      BY <2>1 DEF OnCourse, Resets, Squashes
    <2> QED
      BY <1>1, <1>3, <2>1, <2>2, OpOnly DEF MigrateDeploy, workspace
  <1> QED
    BY <1>2, <1>3

LEMMA GenerateInv ==
  ASSUME CliInv, GenerateClient
  PROVE  CliInv'
  <1>1. wanted' \in SUBSET Tables
    BY DEF CliInv, CliTyped, GenerateClient, workspace
  <1>2. CASE Over("stopped")
    BY <1>1, <1>2, OverIs, IdleInv DEF GenerateClient, workspace
  <1>3. CASE Then("save")
    <2>1. op.step = "generate" /\ <<op.cmd, "save">> \in Script
      BY DEF GenerateClient, Running, CliInv, CliTyped, Script
    <2>2. /\ op' \in Command /\ <<op'.cmd, op'.step>> \in Script
          /\ op'.cmd = op.cmd /\ op'.step = "save" /\ op'.schema = op.schema
          /\ op'.clean = op.clean /\ op'.outcome = op.outcome
      BY <1>3, <2>1, ThenIs
    <2>3. tables' = tables
      BY DEF GenerateClient, database
    <2>4. OnCourse' /\ Resets' /\ Squashes'
      BY <2>1, <2>2, <2>3 DEF CliInv, OnCourse, Resets, Squashes
    <2>5. (op.outcome = "failed" => ~op.clean)'
      BY <2>2 DEF CliInv, Told
    <2> QED
      BY <1>1, <2>2, <2>4, <2>5, OpOnly DEF GenerateClient, workspace
  <1> QED
    BY <1>2, <1>3 DEF GenerateClient

LEMMA ResetBeginInv ==
  ASSUME CliInv, MigrateReset
  PROVE  CliInv'
  <1>1. wanted' = wanted /\ wanted \in SUBSET Tables
    BY DEF CliInv, CliTyped, MigrateReset, workspace
  <1>2. /\ op' \in Command /\ <<op'.cmd, op'.step>> \in Script
        /\ op'.cmd = "reset" /\ op'.step = "drop" /\ op'.schema = wanted
        /\ op'.clean = (wanted = Replayed(files, OnDisk)) /\ op'.outcome = "none"
    <2>1. <<"reset", "drop">> \in Script
      BY DEF Script
    <2>2. Begin("reset", "drop", TRUE, wanted = Replayed(files, OnDisk))
      BY ReplayIs DEF MigrateReset
    <2> HIDE DEF Begin
    <2> QED
      BY <2>1, <2>2, BeginIs
  <1>3. files' = files /\ OnDisk' = OnDisk
    BY DEF MigrateReset, workspace, OnDisk
  <1>4. OnCourse' /\ Resets' /\ Squashes'
    BY <1>2, <1>3 DEF OnCourse, Resets, Squashes
  <1> QED
    BY <1>1, <1>2, <1>4, OpOnly DEF MigrateReset, workspace

LEMMA SquashBeginInv ==
  ASSUME CliInv, MigrateSquash
  PROVE  CliInv'
  <1>1. wanted' = wanted /\ wanted \in SUBSET Tables
    BY DEF CliInv, CliTyped, MigrateSquash, workspace
  <1>2. CASE Refuse
    BY <1>1, <1>2, NoOpIs, IdleInv DEF MigrateSquash, workspace, Refuse
  <1>3. CASE OnDisk # {} /\ Begin("squash", "archive", FALSE, FALSE)
    <2>1. /\ op' \in Command /\ <<op'.cmd, op'.step>> \in Script
          /\ op'.cmd = "squash" /\ op'.step = "archive" /\ ~op'.clean /\ op'.outcome = "none"
      <3>1. <<"squash", "archive">> \in Script
        BY DEF Script
      <3> QED
        BY <1>3, <3>1, BeginIs
    <2>2. OnDisk' = OnDisk
      BY DEF MigrateSquash, workspace, OnDisk
    <2>3. OnCourse' /\ Resets' /\ Squashes'
      BY <1>3, <2>1, <2>2 DEF OnCourse, Resets, Squashes
    <2> QED
      BY <1>1, <2>1, <2>3, OpOnly DEF MigrateSquash, workspace
  <1> QED
    BY <1>2, <1>3 DEF MigrateSquash

LEMMA PushBeginInv ==
  ASSUME CliInv, NEW accept \in BOOLEAN, DbPush(accept)
  PROVE  CliInv'
  <1>1. wanted' = wanted /\ wanted \in SUBSET Tables
    BY DEF CliInv, CliTyped, DbPush, workspace
  <1>2. CASE Refuse
    BY <1>1, <1>2, NoOpIs, IdleInv DEF DbPush, workspace, Refuse
  <1>3. CASE Begin("push", "execute", accept, ~stale)
    <2>1. /\ op' \in Command /\ <<op'.cmd, op'.step>> \in Script
          /\ op'.cmd = "push" /\ op'.step = "execute" /\ op'.clean = ~stale /\ op'.outcome = "none"
      <3>1. <<"push", "execute">> \in Script
        BY DEF Script
      <3> QED
        BY <1>3, <3>1, BeginIs DEF CliInv, CliTyped
    <2>2. snapshot' = snapshot /\ tables' = tables
      BY DEF DbPush, workspace, database
    <2>3. OnCourse' /\ Resets' /\ Squashes'
      BY <2>1, <2>2 DEF OnCourse, Resets, Squashes, CliInv, Told
    <2> QED
      BY <1>1, <2>1, <2>3, OpOnly DEF DbPush, workspace
  <1> QED
    BY <1>2, <1>3 DEF DbPush

-----------------------------------------------------------------------------
(* Migrations are written.                                                 *)

LEMMA WrittenIs ==
  ASSUME CliInv, NEW file \in MigrationFile, file.there = TRUE, WriteMigration(file)
  PROVE  /\ files' \in [FileIds -> MigrationFile] /\ written' \in 0 .. MaxFiles
         /\ written' = written + 1 /\ written' \in FileIds
         /\ written' \notin OnDisk /\ written' \notin recorded
         /\ OnDisk' = OnDisk \cup {written'} /\ files'[written'] = file
         /\ \A id \in FileIds \ {written'} : files'[id] = files[id]
         /\ \A id \in OnDisk \cup recorded : id < written'
  <1>1. /\ MaxFiles \in Nat /\ written \in 0 .. MaxFiles /\ written < MaxFiles
        /\ files \in [FileIds -> MigrationFile] /\ recorded \in SUBSET FileIds
        /\ written' = written + 1 /\ files' = [files EXCEPT ![written + 1] = file]
    BY CliAssumption DEF CliInv, CliTyped, WriteMigration
  <1>2. OnDisk \subseteq FileIds /\ \A id \in FileIds : id \in Nat
    BY DEF OnDisk, FileIds
  <1>3. written' \in FileIds /\ written' \in 0 .. MaxFiles
    BY <1>1 DEF FileIds
  <1>4. \A id \in OnDisk \cup recorded : id < written'
    BY <1>1, <1>2 DEF CliInv, Numbered
  <1>5. written' \notin OnDisk /\ written' \notin recorded
    BY <1>1, <1>4
  <1>6. files'[written'] = file /\ \A id \in FileIds \ {written'} : files'[id] = files[id]
    BY <1>1, <1>3
  <1>7. files' \in [FileIds -> MigrationFile]
    BY <1>1, <1>3
  <1>8. OnDisk' = OnDisk \cup {written'}
    BY <1>3, <1>6 DEF OnDisk
  <1> QED
    BY <1>1, <1>3, <1>4, <1>5, <1>6, <1>7, <1>8

\* The history is that of the files it had.
LEMMA WrittenHistory ==
  ASSUME CliInv, NEW file \in MigrationFile, file.there = TRUE, WriteMigration(file),
         UNCHANGED <<database, off>>
  PROVE  Numbered' /\ History' /\ PendingFiles' = PendingFiles \cup {written'}
  <1> USE DEF database
  <1>1. /\ written' = written + 1 /\ written' \notin recorded
        /\ OnDisk' = OnDisk \cup {written'}
        /\ \A id \in FileIds \ {written'} : files'[id] = files[id]
        /\ \A id \in OnDisk \cup recorded : id < written'
    BY WrittenIs
  <1>2. PendingFiles' = PendingFiles \cup {written'}
    BY <1>1 DEF PendingFiles
  <1>3. /\ recorded \subseteq FileIds /\ written \in Nat
        /\ \A id \in OnDisk \cup recorded : id \in Nat
    BY DEF CliInv, CliTyped, OnDisk, FileIds
  <1>4. Numbered'
    <2>1. \A id \in OnDisk' \cup recorded' : id <= written'
      BY <1>1, <1>3
    <2> QED
      BY <2>1 DEF Numbered
  <1>5. Replayed(files', recorded') = Replayed(files, recorded)
    <2>1. \A id \in recorded : files'[id] = files[id]
      BY <1>1, <1>3
    <2> QED
      BY <2>1, SameHistory
  <1>6. History'
    <2> SUFFICES ASSUME ~off' PROVE /\ recorded' \subseteq OnDisk'
                                    /\ \A id \in recorded', left \in PendingFiles' : id < left
                                    /\ Replayed(files', recorded') = tables'
      BY DEF History
    <2>1. \A id \in recorded, left \in PendingFiles : id < left
      BY DEF CliInv, History
    <2>2. \A id \in recorded : id < written'
      BY <1>1
    <2> QED
      BY <1>1, <1>2, <1>5, <2>1, <2>2 DEF CliInv, History
  <1> QED
    BY <1>2, <1>4, <1>6

LEMMA DiffIs ==
  ASSUME NEW S \in SUBSET Tables, NEW T \in SUBSET Tables
  PROVE  /\ Diff(S, T) \in MigrationFile /\ Diff(S, T).there = TRUE
         /\ Runs(Diff(S, T), S) /\ After(Diff(S, T), S) = T
  BY DEF Diff, MigrationFile, Runs, After

LEMMA DevInv ==
  ASSUME CliInv, NEW create_only \in BOOLEAN, NEW accept \in BOOLEAN,
         MigrateDev(create_only, accept)
  PROVE  CliInv'
  <1> DEFINE change == Diff(snapshot, wanted)
  <1>1. /\ wanted' = wanted /\ wanted \in SUBSET Tables /\ snapshot' = snapshot
        /\ snapshot \in SUBSET Tables /\ stale' = stale /\ off' = off
        /\ tables' = tables /\ recorded' = recorded /\ tables \in SUBSET Tables
    <2>1. snapshot # Broken /\ UNCHANGED <<wanted, snapshot, tables, recorded, stale, off>>
      BY DEF MigrateDev, database
    <2> QED
      BY <2>1 DEF CliInv, CliTyped
  <1>2. CASE Refuse /\ UNCHANGED <<files, written>>
    BY <1>1, <1>2, NoOpIs, IdleInv DEF MigrateDev, Refuse, database
  <1>3. CASE WriteMigration(change) /\ (IF create_only THEN op' = NoOp("done")
                                        ELSE Begin("dev", "apply", accept, InOrderNow))
    <2>1. change \in MigrationFile /\ change.there = TRUE
      BY <1>1, DiffIs
    <2> HIDE DEF change
    <2>2. /\ files' \in [FileIds -> MigrationFile] /\ written' \in 0 .. MaxFiles
          /\ OnDisk' = OnDisk \cup {written'} /\ files'[written'] = change
      BY <1>3, <2>1, WrittenIs
    <2>3. Numbered' /\ History' /\ PendingFiles' = PendingFiles \cup {written'}
      BY <1>1, <1>3, <2>1, WrittenHistory DEF database
    <2>4. /\ op' \in Command /\ <<op'.cmd, op'.step>> \in Script /\ (op.outcome = "failed" => ~op.clean)'
          /\ OnCourse' /\ Resets' /\ Squashes'
      <3>1. CASE create_only
        BY <1>3, <3>1, NoOpIs, AtRest
      <3>2. CASE ~create_only
        <4>1. InOrderNow \in BOOLEAN
          BY DEF InOrderNow
        <4>2. <<"dev", "apply">> \in Script
          BY DEF Script
        <4>3. /\ op' \in Command /\ <<op'.cmd, op'.step>> \in Script
              /\ op'.cmd = "dev" /\ op'.step = "apply" /\ op'.schema = wanted
              /\ op'.clean = InOrderNow /\ op'.outcome = "none"
          BY <1>3, <3>2, <4>1, <4>2, BeginIs
        <4>4. ASSUME op'.clean PROVE /\ ~stale' /\ PendingFiles' = {written'}
                                     /\ files'[written'] = Diff(tables', op'.schema)
          <5>1. ~stale /\ PendingFiles = {} /\ snapshot = tables
            BY <4>3, <4>4 DEF InOrderNow, CliInv, Told
          <5> QED
            BY <1>1, <2>2, <2>3, <4>3, <5>1 DEF change
        <4>5. OnCourse'
          <5> SUFFICES ASSUME op'.clean PROVE OnCourse'
            BY DEF OnCourse
          <5>1. (~stale /\ PendingFiles = {written} /\ files[written] = Diff(tables, op.schema))'
            BY <4>4
          <5> QED
            BY <4>3, <5>1 DEF OnCourse
        <4>6. Resets' /\ Squashes'
          BY <4>3 DEF Resets, Squashes
        <4> QED
          BY <4>3, <4>5, <4>6
      <3> QED
        BY <3>1, <3>2
    <2>5. CliTyped'
      BY <1>1, <2>2, <2>4 DEF CliInv, CliTyped
    <2>6. Told'
      BY <1>1, <2>4 DEF CliInv, Told
    <2> QED
      BY <2>3, <2>4, <2>5, <2>6 DEF CliInv
  <1>4. CASE WriteUpSql(change) /\ op' = NoOp("stopped")
    <2> DEFINE file == [change EXCEPT !.destructive = change.drop # {}]
    <2>6. change \in MigrationFile /\ change.there = TRUE
      BY <1>1, DiffIs
    <2> HIDE DEF change
    <2>1. file \in MigrationFile /\ file.there = TRUE /\ WriteMigration(file)
      BY <1>4, <2>6 DEF MigrationFile, WriteUpSql
    <2> HIDE DEF file
    <2>2. files' \in [FileIds -> MigrationFile] /\ written' \in 0 .. MaxFiles
      BY <2>1, WrittenIs
    <2>3. Numbered' /\ History'
      BY <1>1, <2>1, WrittenHistory DEF database
    <2>4. /\ op' \in Command /\ <<op'.cmd, op'.step>> \in Script /\ (op.outcome = "failed" => ~op.clean)'
          /\ OnCourse' /\ Resets' /\ Squashes'
      BY <1>4, NoOpIs, AtRest
    <2>5. CliTyped' /\ Told'
      BY <1>1, <2>2, <2>4 DEF CliInv, CliTyped, Told
    <2> QED
      BY <2>3, <2>4, <2>5 DEF CliInv
  <1> QED
    BY <1>2, <1>3, <1>4 DEF MigrateDev

-----------------------------------------------------------------------------
(* Migrations are applied.                                                 *)

LEMMA MinIs ==
  ASSUME NEW D \in SUBSET Nat, D # {}
  PROVE  Min(D) \in D /\ \A n \in D : Min(D) <= n
  <1>1. \E x \in D : \A y \in D : x =< y
    BY LeastNumber
  <1> QED
    BY <1>1 DEF Min

\* The next migration can be run, if the command is on its course.
LEMMA CourseRuns ==
  ASSUME CliInv, Running("apply"), op.clean, NEW id \in PendingFiles,
         \A left \in PendingFiles : id <= left
  PROVE  /\ Runs(files[id], tables)
         /\ op.cmd = "dev" => PendingFiles = {id} /\ After(files[id], tables) = op.schema
  <1>1. op.step = "apply" /\ op.cmd \in {"dev", "reset"}
    BY DEF Running, CliInv, CliTyped, Script, OnCourse
  <1>2. CASE op.cmd = "dev"
    <2>1. PendingFiles = {written} /\ files[written] = Diff(tables, op.schema)
      BY <1>1, <1>2 DEF CliInv, OnCourse
    <2>2. op.schema \in SUBSET Tables /\ tables \in SUBSET Tables
      BY DEF CliInv, CliTyped, Command
    <2>3. files[id] = Diff(tables, op.schema) /\ PendingFiles = {id}
      BY <2>1
    <2>4. Runs(Diff(tables, op.schema), tables) /\ After(Diff(tables, op.schema), tables) = op.schema
      BY <2>2, DiffIs
    <2> QED
      BY <2>3, <2>4
  <1>3. CASE op.cmd = "reset"
    <2>1. /\ ~off /\ Replayed(files, OnDisk) = op.schema /\ op.schema \in SUBSET Tables
      BY <1>1, <1>3 DEF CliInv, Resets, OnCourse, CliTyped, Command
    <2>2. /\ recorded \subseteq OnDisk /\ Replayed(files, recorded) = tables
          /\ \A n \in recorded : n < id
      BY <2>1 DEF CliInv, History
    <2>3. id \in FileIds /\ id \in OnDisk /\ id \in Nat /\ \A n \in FileIds : n \in Nat
      BY DEF PendingFiles, OnDisk, FileIds
    <2>4. ASSUME NEW n \in FileIds, n < id PROVE n \in recorded <=> n \in OnDisk
      <3>1. n \notin PendingFiles
        BY <2>3, <2>4
      <3> QED
        BY <2>2, <3>1 DEF PendingFiles
    <2>5. Replayed(files, OnDisk) # Broken
      BY <2>1, CliAssumption
    <2>6. Runs(files[id], Replayed(files, recorded))
      BY <2>2, <2>3, <2>4, <2>5, Ahead
    <2> QED
      BY <1>3, <2>2, <2>6
  <1> QED
    BY <1>1, <1>2, <1>3

LEMMA ApplyOne ==
  ASSUME CliInv, Running("apply"), NEW id \in PendingFiles,
         \A left \in PendingFiles : id <= left,
         Runs(files[id], tables), tables' = After(files[id], tables),
         recorded' = recorded \cup {id}, stale' = TRUE, UNCHANGED <<op, workspace, off>>
  PROVE  CliInv'
  <1> USE DEF workspace
  <1>1. /\ id \in FileIds /\ id \in OnDisk /\ id \notin recorded
        /\ OnDisk' = OnDisk /\ PendingFiles' = PendingFiles \ {id}
        /\ \A n \in FileIds : n \in Nat
    BY DEF PendingFiles, OnDisk, FileIds
  <1>2. files[id] \in MigrationFile /\ tables \in SUBSET Tables
    BY <1>1 DEF CliInv, CliTyped
  <1>3. tables' \in SUBSET Tables
    BY <1>2 DEF After, MigrationFile
  <1>4. CliTyped'
    BY <1>1, <1>3 DEF CliInv, CliTyped
  <1>5. Numbered'
    BY <1>1 DEF CliInv, Numbered
  <1>6. History'
    <2> SUFFICES ASSUME ~off PROVE /\ recorded' \subseteq OnDisk'
                                   /\ \A n \in recorded', left \in PendingFiles' : n < left
                                   /\ Replayed(files', recorded') = tables'
      BY DEF History
    <2>1. /\ recorded \subseteq OnDisk /\ Replayed(files, recorded) = tables
          /\ \A n \in recorded, left \in PendingFiles : n < left
      BY DEF CliInv, History
    <2>2. Replayed(files, recorded \cup {id}) = Next1(files, {id}, Replayed(files, recorded), id)
      BY <1>1, <2>1, OneMore
    <2>3. tables # Broken
      BY <1>2, CliAssumption
    <2>4. Replayed(files', recorded') = tables'
      BY <2>1, <2>2, <2>3 DEF Next1
    <2>5. ASSUME NEW left \in PendingFiles' PROVE \A n \in recorded' : n < left
      <3>1. left \in PendingFiles /\ left # id /\ left \in Nat /\ id \in Nat /\ id <= left
        BY <1>1, <2>5 DEF PendingFiles, OnDisk
      <3>2. id < left
        BY <3>1
      <3> QED
        BY <2>1, <3>1, <3>2
    <2> QED
      BY <1>1, <2>1, <2>4, <2>5
  <1>7. Told'
    BY DEF CliInv, Told
  <1>8. OnCourse'
    <2> SUFFICES ASSUME op.clean PROVE OnCourse'
      BY DEF OnCourse
    <2>1. op.cmd = "dev" => PendingFiles' = {} /\ tables' = op.schema
      BY <1>1, CourseRuns
    <2>2. op.step = "apply" /\ op.cmd \in {"dev", "reset"}
      BY DEF Running, CliInv, CliTyped, Script, OnCourse
    <2>3. Replayed(files', OnDisk') = Replayed(files, OnDisk)
      BY <1>1
    <2> QED
      BY <2>1, <2>2, <2>3 DEF CliInv, OnCourse
  <1>9. Resets' /\ Squashes'
    BY DEF Running, CliInv, Resets, Squashes
  <1> QED
    BY <1>4, <1>5, <1>6, <1>7, <1>8, <1>9 DEF CliInv

LEMMA ApplyInv ==
  ASSUME CliInv, ApplyNext
  PROVE  CliInv'
  <1>1. wanted' = wanted /\ wanted \in SUBSET Tables /\ op.step = "apply" /\ Running("apply")
    BY DEF CliInv, CliTyped, ApplyNext, workspace, Running
  <1>2. op.cmd \in {"dev", "deploy", "reset"}
    BY <1>1 DEF CliInv, CliTyped, Script
  <1>3. CASE PendingFiles = {}
    <2> DEFINE step == IF op.cmd = "deploy" THEN "end" ELSE "generate"
    <2>1. Then(step) /\ UNCHANGED <<database, stale, workspace, off>>
      BY <1>3 DEF ApplyNext
    <2>2. <<op.cmd, step>> \in Script
      BY <1>2 DEF Script
    <2>3. /\ op' \in Command /\ <<op'.cmd, op'.step>> \in Script
          /\ op'.cmd = op.cmd /\ op'.step = step /\ op'.schema = op.schema
          /\ op'.clean = op.clean /\ op'.outcome = op.outcome
      BY <2>1, <2>2, ThenIs
    <2>4. (op.outcome = "failed" => ~op.clean)'
      BY <2>3 DEF CliInv, Told
    <2>5. Resets' /\ Squashes'
      BY <1>2, <2>3 DEF Resets, Squashes
    <2>6. ASSUME op.clean PROVE op.cmd # "deploy" /\ tables = op.schema
      <3>1. CASE op.cmd = "dev"
        BY <1>1, <1>3, <2>6, <3>1 DEF CliInv, OnCourse
      <3>2. CASE op.cmd = "reset"
        <4>1. ~off /\ Replayed(files, OnDisk) = op.schema
          BY <1>1, <2>6, <3>2 DEF CliInv, Resets, OnCourse
        <4>2. recorded = OnDisk /\ Replayed(files, recorded) = tables
          BY <1>3, <4>1 DEF CliInv, History, PendingFiles
        <4> QED
          BY <3>2, <4>1, <4>2
      <3>3. op.cmd # "deploy"
        BY <2>6 DEF CliInv, OnCourse
      <3> QED
        BY <1>2, <3>1, <3>2, <3>3
    <2>7. OnCourse'
      <3> SUFFICES ASSUME op'.clean PROVE OnCourse'
        BY DEF OnCourse
      <3>1. tables' = op'.schema /\ op'.step = "generate" /\ op'.cmd # "deploy"
        BY <2>1, <2>3, <2>6 DEF database
      <3> QED
        BY <3>1 DEF OnCourse
    <2> HIDE DEF step
    <2> QED
      BY <1>1, <2>1, <2>3, <2>4, <2>5, <2>7, OpOnly DEF workspace
  <1>4. CASE PendingFiles # {}
    <2>1. PICK id : id = Min(PendingFiles)
      OBVIOUS
    <2>2. id \in PendingFiles /\ \A left \in PendingFiles : id <= left
      <3>1. PendingFiles \in SUBSET Nat
        BY DEF PendingFiles, OnDisk, FileIds
      <3> QED
        BY <1>4, <2>1, <3>1, MinIs
    <2>3. CASE Over("stopped") /\ UNCHANGED <<database, stale>>
      BY <1>1, <2>3, OverIs, IdleInv DEF ApplyNext, workspace
    <2>4. CASE ~Runs(files[id], tables) /\ Over("failed") /\ UNCHANGED <<database, stale>>
      <3>1. ~op.clean
        BY <1>1, <2>2, <2>4, CourseRuns
      <3> QED
        BY <1>1, <2>4, <3>1, FailedIs, IdleInv DEF ApplyNext, workspace
    <2>5. CASE /\ Runs(files[id], tables) /\ tables' = After(files[id], tables)
               /\ recorded' = recorded \cup {id} /\ stale' = TRUE /\ UNCHANGED op
      BY <1>1, <2>2, <2>5, ApplyOne DEF ApplyNext
    <2> QED
      BY <1>4, <2>1, <2>3, <2>4, <2>5 DEF ApplyNext
  <1> QED
    BY <1>3, <1>4

-----------------------------------------------------------------------------
(* The snapshot is saved, or the command dies.                             *)

LEMMA SnapshotInv ==
  ASSUME CliInv, SaveSnapshot \/ Dies
  PROVE  CliInv'
  <1>1. /\ UNCHANGED <<wanted, files, written, tables, recorded, off>>
        /\ Rests'
    BY OverIs DEF SaveSnapshot, Dies, database
  <1>2. /\ snapshot' \in (SUBSET Tables) \cup {Broken} /\ stale' \in BOOLEAN
        /\ ~stale' => snapshot' = tables
    <2>1. CASE SaveSnapshot
      <3>1. snapshot' = op.schema /\ stale' = ~op.clean /\ op.step = "save"
        BY <2>1 DEF SaveSnapshot, Running
      <3>2. op.schema \in SUBSET Tables /\ op.clean \in BOOLEAN /\ (op.clean => tables = op.schema)
        BY <3>1 DEF CliInv, CliTyped, Command, OnCourse
      <3> QED
        BY <3>1, <3>2
    <2>2. CASE Dies
      <3>1. UNCHANGED <<snapshot, stale>> \/ (snapshot' = Broken /\ stale' = TRUE)
        BY <2>2 DEF Dies
      <3> QED
        BY <3>1 DEF CliInv, CliTyped, Told
    <2> QED
      BY <2>1, <2>2
  <1>3. /\ <<op'.cmd, op'.step>> \in Script /\ op' \in Command
        /\ (op.outcome = "failed" => ~op.clean)' /\ OnCourse' /\ Resets' /\ Squashes'
    BY <1>1, AtRest
  <1>4. CliTyped'
    BY <1>1, <1>2, <1>3 DEF CliInv, CliTyped
  <1>5. OnDisk' = OnDisk /\ PendingFiles' = PendingFiles
    BY <1>1 DEF OnDisk, PendingFiles
  <1>6. Numbered' /\ History'
    <2>1. Replayed(files', recorded') = Replayed(files, recorded)
      BY <1>1
    <2> QED
      BY <1>1, <1>5, <2>1 DEF CliInv, Numbered, History
  <1>7. Told'
    BY <1>1, <1>2, <1>3 DEF Told
  <1> QED
    BY <1>3, <1>4, <1>6, <1>7 DEF CliInv

-----------------------------------------------------------------------------
(* Resolve, and reset.                                                     *)

LEMMA ResolveInv ==
  ASSUME CliInv, NEW id \in FileIds, MigrateResolve(id)
  PROVE  CliInv'
  <1>1. /\ UNCHANGED <<wanted, snapshot, files, written, tables, op, stale>>
        /\ id \in OnDisk /\ recorded' = recorded \cup {id} /\ off' = (off \/ id \notin recorded)
        /\ op.step = "idle" /\ OnDisk' = OnDisk
    BY DEF MigrateResolve, Running, workspace, OnDisk
  <1>2. op.cmd = ""
    BY <1>1 DEF CliInv, CliTyped, Script
  <1>3. CliTyped'
    BY <1>1 DEF CliInv, CliTyped
  <1>4. Numbered' /\ Told'
    BY <1>1 DEF CliInv, Numbered, Told
  <1>5. History'
    <2> SUFFICES ASSUME ~off' PROVE History'
      BY DEF History
    <2>1. ~off /\ recorded' = recorded
      BY <1>1 DEF CliInv, CliTyped
    <2>2. Replayed(files', recorded') = Replayed(files, recorded) /\ PendingFiles' = PendingFiles
      BY <1>1, <2>1 DEF PendingFiles
    <2> QED
      BY <1>1, <2>1, <2>2 DEF CliInv, History
  <1>6. OnCourse' /\ Resets' /\ Squashes'
    <2>1. op'.step = "idle" /\ op'.cmd = ""
      BY <1>1, <1>2
    <2> QED
      BY <2>1 DEF OnCourse, Resets, Squashes
  <1> QED
    BY <1>3, <1>4, <1>5, <1>6 DEF CliInv

LEMMA DropInv ==
  ASSUME CliInv, ResetDrops
  PROVE  CliInv'
  <1>1. /\ UNCHANGED <<wanted, snapshot, files, written, recorded>> /\ OnDisk' = OnDisk
        /\ tables' = {} /\ stale' = TRUE /\ off' = TRUE /\ op.step = "drop" /\ Then("clear")
    BY DEF ResetDrops, Running, workspace, OnDisk
  <1>2. op.cmd = "reset" /\ <<op.cmd, "clear">> \in Script
    BY <1>1 DEF CliInv, CliTyped, Script
  <1>3. /\ op' \in Command /\ <<op'.cmd, op'.step>> \in Script
        /\ op'.cmd = op.cmd /\ op'.step = "clear" /\ op'.schema = op.schema
        /\ op'.clean = op.clean /\ op'.outcome = op.outcome
    BY <1>1, <1>2, ThenIs
  <1>4. CliTyped'
    BY <1>1, <1>3 DEF CliInv, CliTyped
  <1>5. Numbered' /\ History' /\ Told'
    BY <1>1, <1>3 DEF CliInv, Numbered, History, Told
  <1>6. OnCourse'
    <2>1. Replayed(files', OnDisk') = Replayed(files, OnDisk)
      BY <1>1
    <2>2. op.clean => Replayed(files, OnDisk) = op.schema
      BY <1>1, <1>2 DEF CliInv, OnCourse
    <2> QED
      BY <1>2, <1>3, <2>1, <2>2 DEF OnCourse
  <1>7. Resets' /\ Squashes'
    BY <1>1, <1>2, <1>3 DEF Resets, Squashes
  <1> QED
    BY <1>4, <1>5, <1>6, <1>7 DEF CliInv

LEMMA ClearInv ==
  ASSUME CliInv, ResetClears
  PROVE  CliInv'
  <1>1. /\ UNCHANGED <<wanted, snapshot, files, written, tables, stale>> /\ OnDisk' = OnDisk
        /\ recorded' = {} /\ off' = FALSE /\ op.step = "clear" /\ Then("apply")
    BY DEF ResetClears, Running, workspace, OnDisk
  <1>2. op.cmd = "reset" /\ <<op.cmd, "apply">> \in Script /\ tables = {}
    BY <1>1 DEF CliInv, CliTyped, Script, Resets
  <1>3. /\ op' \in Command /\ <<op'.cmd, op'.step>> \in Script
        /\ op'.cmd = op.cmd /\ op'.step = "apply" /\ op'.schema = op.schema
        /\ op'.clean = op.clean /\ op'.outcome = op.outcome
    BY <1>1, <1>2, ThenIs
  <1>4. CliTyped'
    BY <1>1, <1>3 DEF CliInv, CliTyped
  <1>5. Numbered' /\ Told'
    BY <1>1, <1>3 DEF CliInv, Numbered, Told
  <1>6. History'
    <2>1. Replayed(files', recorded') = {}
      BY <1>1, NoHistory
    <2> QED
      BY <1>1, <1>2, <2>1 DEF History
  <1>7. OnCourse'
    <2>1. Replayed(files', OnDisk') = Replayed(files, OnDisk)
      BY <1>1
    <2>2. op.clean => Replayed(files, OnDisk) = op.schema
      BY <1>1, <1>2 DEF CliInv, OnCourse
    <2> QED
      BY <1>2, <1>3, <2>1, <2>2 DEF OnCourse
  <1>8. Resets' /\ Squashes'
    BY <1>1, <1>3 DEF Resets, Squashes
  <1> QED
    BY <1>4, <1>5, <1>6, <1>7, <1>8 DEF CliInv

-----------------------------------------------------------------------------
(* Squash.                                                                 *)

LEMMA ArchiveInv ==
  ASSUME CliInv, ArchiveOne
  PROVE  CliInv'
  <1>1. UNCHANGED <<wanted, snapshot, written, tables, recorded, stale>> /\ op.step = "archive"
    BY DEF ArchiveOne, Running, database
  <1>2. op.cmd = "squash"
    BY <1>1 DEF CliInv, CliTyped, Script
  <1>3. CASE OnDisk = {}
    <2>1. Then("baseline") /\ UNCHANGED <<files, off>> /\ OnDisk' = OnDisk
      BY <1>3 DEF ArchiveOne, OnDisk
    <2>2. <<op.cmd, "baseline">> \in Script
      BY <1>2 DEF Script
    <2>3. /\ op' \in Command /\ <<op'.cmd, op'.step>> \in Script
          /\ op'.cmd = op.cmd /\ op'.step = "baseline" /\ op'.schema = op.schema
          /\ op'.clean = op.clean /\ op'.outcome = op.outcome
      BY <2>1, <2>2, ThenIs
    <2>4. (op.outcome = "failed" => ~op.clean)'
      BY <2>3 DEF CliInv, Told
    <2>5. OnCourse' /\ Resets' /\ Squashes'
      BY <1>1, <1>2, <1>3, <2>1, <2>3 DEF CliInv, OnCourse, Resets, Squashes
    <2>6. wanted' \in SUBSET Tables
      BY <1>1 DEF CliInv, CliTyped
    <2> QED
      BY <1>1, <2>1, <2>3, <2>4, <2>5, <2>6, OpOnly DEF database
  <1>4. CASE OnDisk # {}
    <2>1. PICK id : id = Min(OnDisk)
      OBVIOUS
    <2>2. files' = [files EXCEPT ![id] = NoFile] /\ off' = TRUE /\ op' = op
      BY <1>4, <2>1 DEF ArchiveOne
    <2>3. OnDisk' \subseteq OnDisk /\ NoFile \in MigrationFile
      BY <2>2 DEF OnDisk, NoFile, MigrationFile, CliInv, CliTyped
    <2>4. CliTyped'
      BY <1>1, <2>2, <2>3 DEF CliInv, CliTyped
    <2>5. Numbered' /\ History' /\ Told'
      BY <1>1, <2>2, <2>3 DEF CliInv, Numbered, History, Told
    <2>6. OnCourse' /\ Resets' /\ Squashes'
      BY <1>1, <1>2, <2>2 DEF CliInv, OnCourse, Resets, Squashes
    <2> QED
      BY <2>4, <2>5, <2>6 DEF CliInv
  <1> QED
    BY <1>3, <1>4

LEMMA BaselineInv ==
  ASSUME CliInv, WriteBaseline
  PROVE  CliInv'
  <1> DEFINE file == [add |-> op.schema, drop |-> {}, destructive |-> op.schema # {}, there |-> TRUE]
  <1>1. /\ UNCHANGED <<wanted, snapshot, tables, recorded, stale, off>> /\ op.step = "baseline"
        /\ wanted \in SUBSET Tables /\ op.schema \in SUBSET Tables
    BY DEF WriteBaseline, Running, database, CliInv, CliTyped, Command
  <1>2. op.cmd = "squash" /\ <<op.cmd, "forget">> \in Script /\ off /\ OnDisk = {}
    BY <1>1 DEF CliInv, CliTyped, Script, Squashes
  <1>3. ASSUME NEW f \in MigrationFile, f.there = TRUE, WriteMigration(f)
        PROVE  /\ files' \in [FileIds -> MigrationFile] /\ written' \in 0 .. MaxFiles
               /\ OnDisk' = OnDisk \cup {written'} /\ files'[written'] = f
               /\ Numbered' /\ History'
    BY <1>1, <1>3, WrittenIs, WrittenHistory DEF database
  <1>4. CASE WriteMigration(file) /\ Then("forget")
    <2>1. /\ file \in MigrationFile /\ file.there = TRUE
          /\ file.add = op.schema /\ file.drop = {}
      BY <1>1 DEF MigrationFile
    <2> HIDE DEF file
    <2>2. /\ files' \in [FileIds -> MigrationFile] /\ written' \in 0 .. MaxFiles
          /\ OnDisk' = OnDisk \cup {written'} /\ files'[written'] = file
          /\ Numbered' /\ History'
      BY <1>3, <1>4, <2>1
    <2>3. /\ op' \in Command /\ <<op'.cmd, op'.step>> \in Script
          /\ op'.cmd = op.cmd /\ op'.step = "forget" /\ op'.schema = op.schema
          /\ op'.clean = op.clean /\ op'.outcome = op.outcome
      BY <1>4, <1>2, ThenIs
    <2>4. CliTyped'
      BY <1>1, <2>2, <2>3 DEF CliInv, CliTyped
    <2>5. Told' /\ OnCourse' /\ Resets'
      BY <1>1, <1>2, <2>3 DEF CliInv, Told, OnCourse, Resets
    <2>6. Squashes'
      BY <1>1, <1>2, <2>1, <2>2, <2>3 DEF Squashes, Baseline
    <2> QED
      BY <2>2, <2>4, <2>5, <2>6 DEF CliInv
  <1>5. CASE WriteUpSql(file) /\ Over("stopped")
    <2> DEFINE f == [file EXCEPT !.destructive = file.drop # {}]
    <2>1. f \in MigrationFile /\ f.there = TRUE /\ WriteMigration(f)
      BY <1>1, <1>5 DEF MigrationFile, WriteUpSql
    <2> HIDE DEF f
    <2>2. /\ files' \in [FileIds -> MigrationFile] /\ written' \in 0 .. MaxFiles
          /\ Numbered' /\ History'
      BY <1>3, <2>1
    <2>3. /\ <<op'.cmd, op'.step>> \in Script /\ op' \in Command
          /\ (op.outcome = "failed" => ~op.clean)' /\ OnCourse' /\ Resets' /\ Squashes'
      BY <1>5, OverIs, AtRest
    <2>4. CliTyped' /\ Told'
      BY <1>1, <2>2, <2>3 DEF CliInv, CliTyped, Told
    <2> QED
      BY <2>2, <2>3, <2>4 DEF CliInv
  <1> QED
    BY <1>4, <1>5 DEF WriteBaseline

LEMMA ForgetInv ==
  ASSUME CliInv, ForgetRecorded
  PROVE  CliInv'
  <1>1. /\ UNCHANGED <<wanted, snapshot, files, written, tables, stale, off>>
        /\ recorded' = {} /\ op.step = "forget" /\ Then("resolve") /\ OnDisk' = OnDisk
    BY DEF ForgetRecorded, Running, workspace, OnDisk
  <1>2. op.cmd = "squash" /\ <<op.cmd, "resolve">> \in Script /\ off /\ Baseline
    BY <1>1 DEF CliInv, CliTyped, Script, Squashes
  <1>3. /\ op' \in Command /\ <<op'.cmd, op'.step>> \in Script
        /\ op'.cmd = op.cmd /\ op'.step = "resolve" /\ op'.schema = op.schema
        /\ op'.clean = op.clean /\ op'.outcome = op.outcome
    BY <1>1, <1>2, ThenIs
  <1>4. CliTyped'
    BY <1>1, <1>3 DEF CliInv, CliTyped
  <1>5. Numbered' /\ History' /\ Told'
    BY <1>1, <1>2, <1>3 DEF CliInv, Numbered, History, Told
  <1>6. OnCourse' /\ Resets'
    BY <1>1, <1>2, <1>3 DEF CliInv, OnCourse, Resets
  <1>7. Squashes'
    BY <1>1, <1>2, <1>3 DEF Squashes, Baseline
  <1> QED
    BY <1>4, <1>5, <1>6, <1>7 DEF CliInv

LEMMA RecordInv ==
  ASSUME CliInv, RecordBaseline
  PROVE  CliInv'
  <1>1. /\ UNCHANGED <<wanted, snapshot, files, written, tables, stale>>
        /\ recorded' = recorded \cup {written} /\ off' = (op.schema # tables)
        /\ op.step = "resolve" /\ Over("done") /\ OnDisk' = OnDisk
    BY DEF RecordBaseline, Running, workspace, OnDisk
  <1>2. Baseline /\ recorded = {} /\ recorded' = {written}
    BY <1>1 DEF CliInv, Squashes
  <1>3. Rests'
    BY <1>1, OverIs
  <1>4. /\ <<op'.cmd, op'.step>> \in Script /\ op' \in Command
        /\ (op.outcome = "failed" => ~op.clean)' /\ OnCourse' /\ Resets' /\ Squashes'
    BY <1>3, AtRest
  <1>5. written \in FileIds
    BY <1>2 DEF Baseline, OnDisk
  <1>6. CliTyped'
    BY <1>1, <1>2, <1>4, <1>5 DEF CliInv, CliTyped
  <1>7. Numbered'
    BY <1>1, <1>2 DEF CliInv, Numbered, Baseline
  <1>8. Told'
    BY <1>1, <1>4 DEF CliInv, Told
  <1>9. History'
    <2> SUFFICES ASSUME op.schema = tables PROVE History'
      BY <1>1 DEF History
    <2>1. Replayed(files, {} \cup {written}) = Next1(files, {written}, Replayed(files, {}), written)
      BY <1>5, OneMore
    <2>2. Replayed(files, {}) = {} /\ {} # Broken
      BY NoHistory, CliAssumption
    <2>3. Replayed(files, {} \cup {written}) = op.schema
      BY <1>2, <2>1, <2>2 DEF Next1, Baseline, Runs, After
    <2>4. Replayed(files', recorded') = tables'
      BY <1>1, <1>2, <2>3
    <2>5. recorded' \subseteq OnDisk' /\ PendingFiles' = {}
      BY <1>1, <1>2 DEF Baseline, PendingFiles
    <2> QED
      BY <2>4, <2>5 DEF History
  <1> QED
    BY <1>4, <1>6, <1>7, <1>8, <1>9 DEF CliInv

-----------------------------------------------------------------------------
(* Push.                                                                   *)

LEMMA PushInv ==
  ASSUME CliInv, PushExecutes
  PROVE  CliInv'
  <1> DEFINE change == Diff(snapshot, op.schema)
  <1>1. /\ UNCHANGED <<wanted, snapshot, files, written, recorded>> /\ op.step = "execute"
        /\ wanted \in SUBSET Tables /\ OnDisk' = OnDisk /\ PendingFiles' = PendingFiles
    BY DEF PushExecutes, Running, workspace, CliInv, CliTyped, OnDisk, PendingFiles
  <1>2. op.cmd = "push" /\ op.schema \in SUBSET Tables /\ tables \in SUBSET Tables
    BY <1>1 DEF CliInv, CliTyped, Script, Command
  <1>3. op.clean => Runs(change, tables) /\ After(change, tables) = op.schema
    <2>1. op.clean => snapshot = tables
      BY <1>1 DEF CliInv, OnCourse
    <2> QED
      BY <1>2, <2>1, DiffIs
  <1>4. CASE ~Runs(change, tables) /\ Over("failed") /\ UNCHANGED <<tables, stale, off>>
    BY <1>1, <1>3, <1>4, FailedIs, IdleInv DEF database
  <1>5. CASE /\ Runs(change, tables) /\ tables' = After(change, tables)
             /\ stale' = TRUE /\ off' = (off \/ tables' # tables) /\ Then("save")
    <2>1. <<op.cmd, "save">> \in Script
      BY <1>2 DEF Script
    <2>2. /\ op' \in Command /\ <<op'.cmd, op'.step>> \in Script
          /\ op'.cmd = op.cmd /\ op'.step = "save" /\ op'.schema = op.schema
          /\ op'.clean = op.clean /\ op'.outcome = op.outcome
      BY <1>5, <2>1, ThenIs
    <2>3. tables' \in SUBSET Tables
      BY <1>2, <1>5 DEF Diff, After
    <2>4. CliTyped'
      BY <1>1, <1>5, <2>2, <2>3 DEF CliInv, CliTyped
    <2>5. Numbered' /\ Told'
      BY <1>1, <1>5, <2>2 DEF CliInv, Numbered, Told
    <2>6. History'
      <3> SUFFICES ASSUME ~off' PROVE History'
        BY DEF History
      <3>1. ~off /\ tables' = tables
        BY <1>5
      <3>2. Replayed(files', recorded') = Replayed(files, recorded)
        BY <1>1
      <3> QED
        BY <1>1, <3>1, <3>2 DEF CliInv, History
    <2>7. OnCourse'
      <3>1. op'.clean => tables' = op'.schema
        BY <1>3, <1>5, <2>2
      <3> QED
        BY <1>2, <2>2, <3>1 DEF OnCourse
    <2>8. Resets' /\ Squashes'
      BY <1>2, <2>2 DEF Resets, Squashes
    <2> QED
      BY <2>4, <2>5, <2>6, <2>7, <2>8 DEF CliInv
  <1> QED
    BY <1>4, <1>5 DEF PushExecutes

-----------------------------------------------------------------------------
LEMMA InitInv == CliInit => CliInv
  <1> SUFFICES ASSUME CliInit PROVE CliInv
    OBVIOUS
  <1>1. /\ wanted = {} /\ snapshot = {} /\ files = [id \in FileIds |-> NoFile] /\ written = 0
        /\ tables = {} /\ recorded = {} /\ op = NoOp("none") /\ stale = FALSE /\ off = FALSE
    BY DEF CliInit
  <1>2. /\ op \in Command /\ op.step = "idle" /\ op.cmd = "" /\ op.clean = FALSE
        /\ op.outcome = "none"
    BY <1>1 DEF NoOp, Command
  <1>3. OnDisk = {} /\ NoFile \in MigrationFile
    BY <1>1 DEF OnDisk, NoFile, MigrationFile
  <1>4. CliTyped
    <2>1. wanted \in SUBSET Tables /\ snapshot \in (SUBSET Tables) \cup {Broken}
      BY <1>1
    <2>2. files \in [FileIds -> MigrationFile]
      BY <1>1, <1>3
    <2>3. written \in 0 .. MaxFiles
      BY <1>1, CliAssumption
    <2>4. tables \in SUBSET Tables /\ recorded \in SUBSET FileIds
      BY <1>1
    <2>5. <<op.cmd, op.step>> \in Script
      BY <1>2 DEF Script
    <2>6. stale \in BOOLEAN /\ off \in BOOLEAN
      BY <1>1
    <2> QED
      BY <1>2, <2>1, <2>2, <2>3, <2>4, <2>5, <2>6 DEF CliTyped
  <1>5. Numbered /\ Told
    BY <1>1, <1>2, <1>3 DEF Numbered, Told
  <1>6. History
    BY <1>1, <1>3, NoHistory DEF History, PendingFiles
  <1>7. OnCourse /\ Resets /\ Squashes
    BY <1>2 DEF OnCourse, Resets, Squashes
  <1> QED
    BY <1>4, <1>5, <1>6, <1>7 DEF CliInv

LEMMA NextInv == CliInv /\ [CliNext]_cvars => CliInv'
  <1> SUFFICES ASSUME CliInv, [CliNext]_cvars PROVE CliInv'
    OBVIOUS
  <1>1. CASE UNCHANGED cvars
    <2>1. wanted' \in SUBSET Tables
      BY <1>1 DEF cvars, CliInv, CliTyped
    <2> QED
      BY <1>1, <2>1, SchemaOnly DEF cvars, database
  <1>2. CASE CliNext
    BY <1>2, DevInv, PushBeginInv, DeployInv, ResolveInv, ApplyInv, GenerateInv, SnapshotInv,
       ResetBeginInv, DropInv, ClearInv, SquashBeginInv, ArchiveInv, BaselineInv, ForgetInv,
       RecordInv, PushInv, EditInv DEF CliNext
  <1> QED
    BY <1>1, <1>2

(* The migrations that are recorded as applied, run in their order on a    *)
(* new database, lead to the tables there are, and none of them fails, in  *)
(* a history of any length, except where a push, a migration that was only *)
(* resolved, a squash or a reset in its middle, or a squash of a schema    *)
(* ahead of the database said otherwise (main.rs:838, 868, 965).           *)
THEOREM HistoryLeadsHere == CliSpec => []HistoryReplays
  <1>1. CliInv => HistoryReplays
    BY ReplayIs DEF CliInv, History, HistoryReplays
  <1> QED
    BY <1>1, InitInv, NextInv, PTL DEF CliSpec

(* The snapshot tells the tables of the database, and a command that began *)
(* where it did, with nothing left to be applied, never fails, unless one  *)
(* that applied a migration did not come to save it (main.rs:792).         *)
THEOREM SnapshotIsTrue == CliSpec => []SnapshotTells
  <1>1. CliInv => SnapshotTells
    BY DEF CliInv, Told, SnapshotTells
  <1> QED
    BY <1>1, InitInv, NextInv, PTL DEF CliSpec

=============================================================================
