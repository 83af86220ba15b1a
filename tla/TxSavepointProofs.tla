------------------------- MODULE TxSavepointProofs --------------------------
(* For any number of tasks, rows and savepoints, with calls that fail and  *)
(* futures dropped anywhere: no two savepoints share a name, and, as long  *)
(* as calls follow each other to their end and handles end youngest first, *)
(* handles nest as their savepoints do, no row written under an abandoned  *)
(* one is committed, and the transaction behaves as the stack of restore   *)
(* points of NestedTx.                                                     *)
EXTENDS TxSavepoint, FiniteSetTheorems, WellFoundedInduction, TLAPS

-----------------------------------------------------------------------------
(* The inductive invariant.  Two parts hold in every mode ... *)

StackType == Seq([name : Names, rows : SUBSET Rows])
DbType == [stack : StackType, rows : SUBSET Rows, aborted : BOOLEAN]

\* A call has an argument of its kind.
Argued(t) == /\ op[t].kind = "write" => op[t].arg \in Rows
             /\ op[t].kind \in {"savepoint", "release", "rollback"} => op[t].arg \in Names

Typed == TypeOK /\ db \in DbType /\ \A t \in Tasks : Argued(t)

\* A name on its way to the server is not there yet, and is one call's.
Named ==
    /\ \A i, j \in DOMAIN db.stack : db.stack[i].name = db.stack[j].name => i = j
    /\ \A i \in DOMAIN db.stack : db.stack[i].name < counter
    /\ \A t \in Tasks : op[t].kind = "savepoint" =>
         /\ op[t].arg < counter
         /\ \A i \in DOMAIN db.stack : db.stack[i].name # op[t].arg
         /\ \A u \in Tasks : op[u].kind = "savepoint" /\ op[u].arg = op[t].arg => u = t

(* ... and the others while the callers are not astray. *)

\* The task that is in a call.
User == CHOOSE t \in Tasks : Busy(t)

\* The names that the next flush visits, or that are left of the present one.
Queue == IF \E t \in Tasks : Busy(t) THEN op[User].todo ELSE Reverse(pending)

\* a is older than any savepoint yet to be opened.
Old(a) == a < counter /\ \A t \in Tasks : op[t].kind = "savepoint" => a < op[t].arg

Turn(t) == /\ ~Busy(t) => op[t].todo = <<>>
           /\ Busy(t) => pending = <<>> /\ phase = "open" /\ \A u \in Tasks : Busy(u) => u = t
           /\ op[t].kind \in {"commit", "abort"} => live = {}
           /\ op[t].kind = "savepoint" => op[t].arg = counter - 1 /\ parent[op[t].arg] \in live \cup {Root}
           /\ op[t].kind \in {"release", "rollback"} => \A m \in live : m < op[t].arg
           /\ op[t].kind = "write" => op[t].arg \notin db.rows

Turns == /\ \A t \in Tasks : Turn(t)
         /\ phase = "open" => durable = {}
         /\ phase # "open" => live = {}

\* A handle was opened through an older one that is alive, or the transaction.
Opened == \A n \in live : parent[n] \in live \cup {Root} /\ parent[n] < n

\* Older savepoints are lower on the stack and remember fewer rows.
Stacked ==
    /\ \A i, j \in DOMAIN db.stack : i < j =>
         /\ db.stack[i].name < db.stack[j].name
         /\ db.stack[i].rows \subseteq db.stack[j].rows
    /\ \A i \in DOMAIN db.stack :
         /\ Old(db.stack[i].name)
         /\ db.stack[i].rows \subseteq db.rows
         /\ \A r \in db.stack[i].rows : \A a \in under[r] : a < db.stack[i].name
    /\ live \subseteq OnStack(db)

\* The queue goes from the oldest name to the newest, all of them newer than any
\* handle; while the first is on the stack all are, and then none is.
Queued ==
    /\ Queue \in Seq(Names)
    /\ \A i, j \in DOMAIN Queue : i < j => Queue[i] < Queue[j]
    /\ \A i \in DOMAIN Queue : \A m \in live : m < Queue[i]
    /\ \/ \A i \in DOMAIN Queue : Queue[i] \in OnStack(db)
       \/ (\E t \in Tasks : Busy(t)) /\ \A i \in DOMAIN Queue : Queue[i] \notin OnStack(db)

\* Rows written under an abandoned savepoint are there only as long as it is in
\* the queue and on the stack.
Clean ==
    /\ \A a \in abandoned : Old(a) /\ a \notin live
    /\ \A r \in db.rows : \A a \in under[r] :
         /\ Old(a)
         /\ a \in abandoned => a \in OnStack(db) /\ \E i \in DOMAIN Queue : Queue[i] = a
    /\ \A r \in durable : under[r] \cap abandoned = {}

InOrder == Turns /\ Opened /\ Stacked /\ Queued /\ Clean

-----------------------------------------------------------------------------
(* Stacks and lists.                                                       *)

LEMMA PrefixIs ==
  ASSUME NEW S, NEW s \in Seq(S), NEW k \in 0 .. Len(s)
  PROVE  /\ SubSeq(s, 1, k) \in Seq(S)
         /\ Len(SubSeq(s, 1, k)) = k
         /\ \A i \in 1 .. k : SubSeq(s, 1, k)[i] = s[i]
  OBVIOUS

LEMMA ElementIs ==
  ASSUME NEW S, NEW s \in Seq(S), NEW i \in 1 .. Len(s)
  PROVE  s[i] \in S
  OBVIOUS

LEMMA OnStackIs ==
  ASSUME NEW d \in DbType
  PROVE  /\ Len(d.stack) \in Nat /\ DOMAIN d.stack = 1 .. Len(d.stack)
         /\ \A i \in DOMAIN d.stack : /\ d.stack[i].name \in Names
                                      /\ d.stack[i].rows \subseteq Rows
  <1>1. d.stack \in StackType
    BY DEF DbType
  <1>2. Len(d.stack) \in Nat /\ DOMAIN d.stack = 1 .. Len(d.stack)
    BY <1>1 DEF StackType
  <1>3. \A i \in 1 .. Len(d.stack) : d.stack[i] \in [name : Names, rows : SUBSET Rows]
    BY <1>1, ElementIs DEF StackType
  <1> QED
    BY <1>2, <1>3

LEMMA DepthIs ==
  ASSUME NEW d \in DbType, NEW x \in OnStack(d)
  PROVE  /\ Depth(d, x) \in 1 .. Len(d.stack)
         /\ d.stack[Depth(d, x)].name = x
  <1>1. PICK i \in DOMAIN d.stack : d.stack[i].name = x
    BY DEF OnStack
  <1>2. Depth(d, x) \in DOMAIN d.stack /\ d.stack[Depth(d, x)].name = x
    BY <1>1 DEF Depth
  <1> QED
    BY <1>2 DEF DbType, StackType

\* ROLLBACK TO cuts the stack above x, and restores its rows.
LEMMA RollbackIs ==
  ASSUME NEW d \in DbType, NEW x \in OnStack(d)
  PROVE  LET e == Effect(d, "rollback", x)
             k == Depth(d, x)
         IN /\ e \in DbType /\ k \in 1 .. Len(d.stack)
            /\ Len(e.stack) = k /\ DOMAIN e.stack = 1 .. k
            /\ \A i \in 1 .. k : e.stack[i] = d.stack[i]
            /\ d.stack[k].name = x /\ e.rows = d.stack[k].rows
  <1> DEFINE e == Effect(d, "rollback", x)
             k == Depth(d, x)
  <1>1. k \in 1 .. Len(d.stack) /\ d.stack[k].name = x
    BY DepthIs
  <1>2. d.stack \in StackType /\ Len(d.stack) \in Nat
    BY DEF DbType, StackType
  <1>3. e = [stack |-> SubSeq(d.stack, 1, k), rows |-> d.stack[k].rows, aborted |-> FALSE]
    BY DEF Effect, DbType, Snapshot
  <1> HIDE DEF k, e
  <1>4. /\ SubSeq(d.stack, 1, k) \in StackType
        /\ Len(SubSeq(d.stack, 1, k)) = k
        /\ \A i \in 1 .. k : SubSeq(d.stack, 1, k)[i] = d.stack[i]
    <2>1. k \in 0 .. Len(d.stack)
      BY <1>1, <1>2
    <2> QED
      BY <1>2, <2>1, PrefixIs DEF StackType
  <1>5. d.stack[k] \in [name : Names, rows : SUBSET Rows]
    BY <1>1, <1>2, ElementIs DEF StackType
  <1>6. e \in DbType
    BY <1>3, <1>4, <1>5 DEF DbType
  <1>7. DOMAIN e.stack = 1 .. k
    BY <1>1, <1>3, <1>4 DEF StackType
  <1> QED
    BY <1>1, <1>3, <1>4, <1>6, <1>7 DEF e, k

\* RELEASE cuts the stack below x.
LEMMA ReleaseIs ==
  ASSUME NEW d \in DbType, NEW x \in OnStack(d)
  PROVE  LET e == Effect(d, "release", x)
             k == Depth(d, x)
         IN /\ e \in DbType /\ k \in 1 .. Len(d.stack)
            /\ Len(e.stack) = k - 1 /\ DOMAIN e.stack = 1 .. k - 1
            /\ \A i \in 1 .. k - 1 : e.stack[i] = d.stack[i]
            /\ d.stack[k].name = x /\ e.rows = d.rows
  <1> DEFINE e == Effect(d, "release", x)
             k == Depth(d, x)
  <1>1. k \in 1 .. Len(d.stack) /\ d.stack[k].name = x
    BY DepthIs
  <1>2. d.stack \in StackType /\ Len(d.stack) \in Nat
    BY DEF DbType, StackType
  <1>3. e = [stack |-> SubSeq(d.stack, 1, k - 1), rows |-> d.rows, aborted |-> d.aborted]
    BY DEF Effect, DbType
  <1> HIDE DEF k, e
  <1>4. /\ SubSeq(d.stack, 1, k - 1) \in StackType
        /\ Len(SubSeq(d.stack, 1, k - 1)) = k - 1
        /\ \A i \in 1 .. k - 1 : SubSeq(d.stack, 1, k - 1)[i] = d.stack[i]
    <2>1. k - 1 \in 0 .. Len(d.stack)
      BY <1>1, <1>2
    <2> QED
      BY <1>2, <2>1, PrefixIs DEF StackType
  <1>5. e \in DbType
    BY <1>3, <1>4 DEF DbType
  <1>6. DOMAIN e.stack = 1 .. k - 1
    BY <1>1, <1>3, <1>4 DEF StackType
  <1> QED
    BY <1>1, <1>3, <1>4, <1>5, <1>6 DEF e, k

LEMMA SavepointIs ==
  ASSUME NEW d \in DbType, NEW x \in Names
  PROVE  LET e == Effect(d, "savepoint", x)
             k == Len(d.stack)
         IN /\ e \in DbType /\ k \in Nat
            /\ DOMAIN d.stack = 1 .. k /\ DOMAIN e.stack = 1 .. k + 1
            /\ \A i \in 1 .. k : e.stack[i] = d.stack[i]
            /\ e.stack[k + 1].name = x /\ e.stack[k + 1].rows = d.rows
            /\ e.rows = d.rows
  <1> DEFINE v == [name |-> x, rows |-> d.rows]
             s == d.stack
             k == Len(s)
             e == Effect(d, "savepoint", x)
  <1>1. /\ s \in StackType /\ k \in Nat /\ DOMAIN s = 1 .. k
        /\ v \in [name : Names, rows : SUBSET Rows]
    BY DEF DbType, StackType
  <1>2. e = [stack |-> Append(s, v), rows |-> d.rows, aborted |-> d.aborted]
    BY DEF Effect, DbType
  <1> HIDE DEF e, s, v
  <1>3. /\ Append(s, v) \in StackType
        /\ DOMAIN Append(s, v) = 1 .. k + 1
        /\ \A i \in 1 .. k : Append(s, v)[i] = s[i]
        /\ Append(s, v)[k + 1] = v
    BY <1>1 DEF StackType
  <1>4. e \in DbType
    BY <1>2, <1>3 DEF DbType
  <1>5. e.stack = Append(s, v) /\ e.rows = d.rows
    BY <1>2
  <1>6. v.name = x /\ v.rows = d.rows
    BY DEF v
  <1> QED
    BY <1>1, <1>3, <1>4, <1>5, <1>6 DEF e, s

LEMMA WriteIs ==
  ASSUME NEW d \in DbType, NEW r \in Rows
  PROVE  /\ Effect(d, "write", r) \in DbType
         /\ Effect(d, "write", r).stack = d.stack
         /\ Effect(d, "write", r).rows = d.rows \cup {r}
  BY DEF Effect, DbType

\* A statement that fails may abort the transaction, and leaves all else.
LEMMA FailedIs ==
  ASSUME Typed
  PROVE  Failed(db) \in DbType /\ Failed(db).stack = db.stack /\ Failed(db).rows = db.rows
  BY TxAssumption DEF Failed, DbType, Typed, TypeOK

LEMMA ReverseIs ==
  ASSUME NEW s \in Seq(Names)
  PROVE  /\ Reverse(s) \in Seq(Names) /\ Len(s) \in Nat
         /\ Len(Reverse(s)) = Len(s)
         /\ DOMAIN Reverse(s) = 1 .. Len(s) /\ DOMAIN s = 1 .. Len(s)
         /\ \A i \in 1 .. Len(s) : Reverse(s)[i] = s[Len(s) - i + 1]
  <1>1. Len(s) \in Nat /\ \A i \in 1 .. Len(s) : s[i] \in Names
    OBVIOUS
  <1>2. \A i \in 1 .. Len(s) : Len(s) - i + 1 \in 1 .. Len(s)
    BY <1>1
  <1> QED
    BY <1>1, <1>2 DEF Reverse

LEMMA ReverseEmpty ==
  /\ Reverse(<<>>) = <<>> /\ DOMAIN Reverse(<<>>) = {}
  /\ Reverse(<<>>) \in Seq(Names)
  <1> DEFINE e == Reverse(<<>>)
  <1>1. <<>> \in Seq(Names) /\ Len(<<>>) = 0
    OBVIOUS
  <1>2. e \in Seq(Names) /\ Len(e) = 0
    BY <1>1, ReverseIs
  <1> HIDE DEF e
  <1>3. e = <<>>
    BY <1>2
  <1>4. DOMAIN e = {}
    BY <1>3
  <1> QED
    BY <1>2, <1>3, <1>4 DEF e

-----------------------------------------------------------------------------
(* What the steps have in common: a call begins, a call is over, and what  *)
(* a statement leaves on the stack.                                        *)

Statements == {"write", "savepoint", "release", "rollback"}

LEMMA Entered ==
  ASSUME Typed, NEW t \in Tasks, NEW kind \in Statements \cup {"commit", "abort"},
         NEW x \in Rows \cup Names \cup {Root},
         kind = "write" => x \in Rows,
         kind \in {"savepoint", "release", "rollback"} => x \in Names,
         Enter(t, kind, x)
  PROVE  /\ op' \in [Tasks -> Calls]
         /\ op'[t].kind = kind /\ op'[t].arg = x /\ op'[t].todo = Reverse(pending)
         /\ \A u \in Tasks \ {t} : op'[u] = op[u]
         /\ (\A u \in Tasks : Argued(u))'
         /\ pending' = <<>> /\ pending' \in Seq(Names)
  <1> DEFINE c == [kind |-> kind, arg |-> x, todo |-> Reverse(pending)]
  <1>1. op \in [Tasks -> Calls] /\ pending \in Seq(Names)
    BY DEF Typed, TypeOK
  <1>2. Reverse(pending) \in Seq(Names)
    BY <1>1, ReverseIs
  <1>3. c \in Calls
    BY <1>2 DEF Calls, Statements
  <1>4. op' = [op EXCEPT ![t] = c] /\ pending' = <<>>
    BY DEF Enter, FlushOrder
  <1>5. c.kind = kind /\ c.arg = x /\ c.todo = Reverse(pending)
    OBVIOUS
  <1> HIDE DEF c
  <1>6. /\ op' \in [Tasks -> Calls]
        /\ op'[t] = c
        /\ \A u \in Tasks \ {t} : op'[u] = op[u]
    BY <1>1, <1>3, <1>4
  <1>7. \A u \in Tasks : Argued(u)
    BY DEF Typed
  <1>8. \A u \in Tasks : Argued(u)'
    BY <1>5, <1>6, <1>7 DEF Argued
  <1> QED
    BY <1>4, <1>5, <1>6, <1>8

LEMMA Finished ==
  ASSUME Typed, NEW t \in Tasks, NEW result, Finish(t, result)
  PROVE  /\ op' \in [Tasks -> Calls]
         /\ op'[t].kind = "idle" /\ op'[t].todo = <<>>
         /\ \A u \in Tasks \ {t} : op'[u] = op[u]
         /\ (\A u \in Tasks : Argued(u))'
         /\ outcome' = result
         /\ phase' \in {"open", "committed", "rolledBack"}
  <1>1. Idle \in Calls /\ Idle.kind = "idle" /\ Idle.todo = <<>>
    BY DEF Idle, Calls
  <1>2. op' = [op EXCEPT ![t] = Idle] /\ op \in [Tasks -> Calls]
    BY DEF Finish, Typed, TypeOK
  <1>3. /\ op' \in [Tasks -> Calls]
        /\ op'[t] = Idle
        /\ \A u \in Tasks \ {t} : op'[u] = op[u]
    BY <1>1, <1>2
  <1>4. \A u \in Tasks : Argued(u)
    BY DEF Typed
  <1>5. \A u \in Tasks : Argued(u)'
    BY <1>1, <1>3, <1>4 DEF Argued
  <1>6. phase' \in {"open", "committed", "rolledBack"} /\ outcome' = result
    BY DEF Finish, Typed, TypeOK
  <1> QED
    BY <1>1, <1>3, <1>5, <1>6

LEMMA EffectIs ==
  ASSUME Typed, NEW cmd \in Statements, NEW x,
         cmd = "write" => x \in Rows,
         cmd \in {"savepoint", "release", "rollback"} => x \in Names,
         Succeeds(db, cmd, x)
  PROVE  LET e == Effect(db, cmd, x)
         IN /\ e \in DbType
            /\ cmd # "savepoint" =>
                 \A i \in DOMAIN e.stack : i \in DOMAIN db.stack /\ e.stack[i] = db.stack[i]
  <1>1. db \in DbType /\ DOMAIN db.stack = 1 .. Len(db.stack) /\ Len(db.stack) \in Nat
    BY DEF Typed, DbType, StackType
  <1>2. CASE cmd = "write"
    BY <1>1, <1>2, WriteIs
  <1>3. CASE cmd = "savepoint"
    BY <1>1, <1>3, SavepointIs
  <1>4. CASE cmd = "release"
    <2>1. x \in OnStack(db)
      BY <1>4 DEF Succeeds
    <2> DEFINE e == Effect(db, "release", x)
               k == Depth(db, x)
    <2>2. /\ e \in DbType /\ k \in 1 .. Len(db.stack)
          /\ DOMAIN e.stack = 1 .. k - 1
          /\ \A i \in 1 .. k - 1 : e.stack[i] = db.stack[i]
      BY <1>1, <2>1, ReleaseIs
    <2> HIDE DEF e, k
    <2>3. \A i \in DOMAIN e.stack : i \in DOMAIN db.stack /\ e.stack[i] = db.stack[i]
      BY <1>1, <2>2
    <2> QED
      BY <1>4, <2>2, <2>3 DEF e
  <1>5. CASE cmd = "rollback"
    <2>1. x \in OnStack(db)
      BY <1>5 DEF Succeeds
    <2> DEFINE e == Effect(db, "rollback", x)
               k == Depth(db, x)
    <2>2. /\ e \in DbType /\ k \in 1 .. Len(db.stack)
          /\ DOMAIN e.stack = 1 .. k
          /\ \A i \in 1 .. k : e.stack[i] = db.stack[i]
      BY <1>1, <2>1, RollbackIs
    <2> HIDE DEF e, k
    <2>3. \A i \in DOMAIN e.stack : i \in DOMAIN db.stack /\ e.stack[i] = db.stack[i]
      BY <1>1, <2>2
    <2> QED
      BY <1>5, <2>2, <2>3 DEF e
  <1> QED
    BY <1>2, <1>3, <1>4, <1>5 DEF Statements

-----------------------------------------------------------------------------
(* Types.                                                                  *)

LEMMA InitTyped == Init => Typed
  <1> SUFFICES ASSUME Init PROVE Typed
    OBVIOUS
  <1>1. Idle \in Calls /\ Idle.kind = "idle"
    BY DEF Idle, Calls
  <1>2. db \in DbType /\ <<>> \in Seq(Names)
    BY DEF Init, DbType, StackType
  <1>3. op \in [Tasks -> Calls] /\ \A t \in Tasks : op[t] = Idle
    BY <1>1 DEF Init
  <1>4. \A t \in Tasks : Argued(t)
    BY <1>1, <1>3 DEF Argued
  <1>5. counter \in 0 .. MaxSavepoints /\ under \in [Rows -> SUBSET Names]
        /\ parent \in [Names -> Names \cup {Root}]
    BY TxAssumption DEF Init
  <1>6. TypeOK
    BY <1>2, <1>3, <1>5 DEF Init, TypeOK, DbType, StackType
  <1> QED
    BY <1>2, <1>4, <1>6 DEF Typed

LEMMA FlushTyped ==
  ASSUME Typed, NEW t \in Tasks, Flush(t)
  PROVE  Typed'
  <1> DEFINE n == Head(op[t].todo)
  <1>1. op[t] \in Calls /\ op[t].todo \in Seq(Names) /\ op[t].todo # <<>>
    BY DEF Typed, TypeOK, Calls, Flush
  <1>2. n \in Names /\ Tail(op[t].todo) \in Seq(Names)
    BY <1>1
  <1>3. UNCHANGED <<mode, durable, counter, pending, live, parent, abandoned, under, astray>>
    BY DEF Flush
  <1>4. CASE Succeeds(db, "rollback", n)
    <2>1. /\ db' = Effect(db, "rollback", n)
          /\ op' = [op EXCEPT ![t].todo = Tail(@)]
          /\ UNCHANGED <<phase, outcome>>
      BY <1>4 DEF Flush
    <2>2. db' \in DbType
      BY <1>2, <1>4, <2>1, EffectIs DEF Statements
    <2>3. op' = [op EXCEPT ![t] = [op[t] EXCEPT !.todo = Tail(op[t].todo)]]
      BY <2>1
    <2>4. [op[t] EXCEPT !.todo = Tail(op[t].todo)] \in Calls
      BY <1>1, <1>2 DEF Calls
    <2>5. op' \in [Tasks -> Calls]
      BY <2>3, <2>4 DEF Typed, TypeOK
    <2>6. \A u \in Tasks : op'[u].kind = op[u].kind /\ op'[u].arg = op[u].arg
      BY <1>1, <2>3 DEF Typed, TypeOK, Calls
    <2>7. (\A u \in Tasks : Argued(u))'
      BY <2>6 DEF Typed, Argued
    <2> QED
      BY <1>3, <2>1, <2>2, <2>5, <2>7 DEF Typed, TypeOK, DbType, StackType
  <1>5. CASE ~ Succeeds(db, "rollback", n)
    <2>1. db' = Failed(db) /\ Finish(t, "error")
      BY <1>5 DEF Flush
    <2>2. db' \in DbType
      BY <2>1, FailedIs
    <2> QED
      BY <1>3, <2>1, <2>2, Finished DEF Typed, TypeOK, DbType, StackType
  <1> QED
    BY <1>4, <1>5

LEMMA RunTyped ==
  ASSUME Typed, NEW t \in Tasks, Run(t)
  PROVE  Typed'
  <1> DEFINE kind == op[t].kind
             x == op[t].arg
  <1>1. /\ kind \in Statements /\ Argued(t)
    BY DEF Run, Typed, Statements
  <1>2. /\ Succeeds(db, kind, x) /\ db' = Effect(db, kind, x)
        /\ live' = IF kind = "savepoint" THEN live \cup {x} ELSE live
        /\ abandoned' = IF kind = "rollback" THEN abandoned \cup {x} ELSE abandoned
        /\ under' = IF kind = "write" THEN [under EXCEPT ![x] = live] ELSE under
        /\ Finish(t, kind)
        /\ UNCHANGED <<mode, durable, counter, pending, parent, astray>>
    BY DEF Run
  <1>3. db' \in DbType
    BY <1>1, <1>2, EffectIs DEF Argued
  <1> HIDE DEF kind, x
  <1>4. /\ live' \subseteq Names /\ abandoned' \subseteq Names
        /\ under' \in [Rows -> SUBSET Names]
    BY <1>1, <1>2 DEF Typed, TypeOK, Argued, kind, x
  <1>5. /\ op' \in [Tasks -> Calls] /\ (\A u \in Tasks : Argued(u))'
        /\ phase' \in {"open", "committed", "rolledBack"} /\ outcome' = kind
    BY <1>2, Finished
  <1> QED
    BY <1>1, <1>2, <1>3, <1>4, <1>5 DEF Typed, TypeOK, DbType, StackType, Statements

\* A dropped future: the statement it was in may have been carried out.
LEMMA CancelIs ==
  ASSUME Typed, NEW t \in Tasks, Cancel(t)
  PROVE  /\ astray' = TRUE /\ Finish(t, "cancelled")
         /\ UNCHANGED <<mode, durable, counter, pending, live, parent, abandoned, under>>
         /\ \/ db' = db
            \/ \E cmd \in Statements : \E x \in Rows \cup Names :
                 /\ cmd = "write" => x \in Rows
                 /\ cmd \in {"savepoint", "release", "rollback"} => x \in Names
                 /\ cmd = "savepoint" => op[t].kind = cmd /\ op[t].arg = x
                 /\ Succeeds(db, cmd, x)
                 /\ db' = Effect(db, cmd, x)
  <1> DEFINE cmd == IF op[t].todo # <<>> THEN "rollback" ELSE op[t].kind
             x   == IF op[t].todo # <<>> THEN Head(op[t].todo) ELSE op[t].arg
  <1>1. /\ astray' = TRUE /\ Finish(t, "cancelled") /\ Busy(t)
        /\ UNCHANGED <<mode, durable, counter, pending, live, parent, abandoned, under>>
        /\ db' \in {db} \cup (IF cmd \notin {"commit", "abort"} /\ Succeeds(db, cmd, x)
                              THEN {Effect(db, cmd, x)} ELSE {})
    BY DEF Cancel, Stray
  <1>2. op[t] \in Calls /\ op[t].todo \in Seq(Names) /\ Argued(t)
    BY DEF Typed, TypeOK, Calls
  <1>3. op[t].todo # <<>> => Head(op[t].todo) \in Names
    BY <1>2
  <1>4. cmd \notin {"commit", "abort"} => cmd \in Statements
    BY <1>1, <1>2 DEF Calls, Busy, Statements
  <1>5. /\ cmd = "write" => x \in Rows
        /\ cmd \in {"savepoint", "release", "rollback"} => x \in Names
        /\ cmd = "savepoint" => op[t].kind = cmd /\ op[t].arg = x
    BY <1>2, <1>3 DEF Argued
  <1> HIDE DEF cmd, x
  <1>6. cmd \in Statements => x \in Rows \cup Names
    BY <1>5 DEF Statements
  <1> QED
    BY <1>1, <1>4, <1>5, <1>6

LEMMA NextTyped ==
  ASSUME Typed, [Next]_vars
  PROVE  Typed'
  <1> USE DEF Stray
  <1>1. CASE UNCHANGED vars
    BY <1>1 DEF vars, Typed, TypeOK, Argued
  <1>2. ASSUME NEW t \in Tasks, NEW r \in Rows, CallWrite(t, r) PROVE Typed'
    <2>1. /\ Enter(t, "write", r)
          /\ UNCHANGED <<mode, db, phase, durable, counter, live, parent, outcome, abandoned, under>>
          /\ astray' \in BOOLEAN
      BY <1>2 DEF CallWrite, Typed, TypeOK
    <2>2. /\ op' \in [Tasks -> Calls] /\ (\A u \in Tasks : Argued(u))'
          /\ pending' \in Seq(Names)
      BY <2>1, Entered DEF Statements
    <2> QED
      BY <2>1, <2>2 DEF Typed, TypeOK
  <1>3. ASSUME NEW t \in Tasks, NEW p \in Names \cup {Root}, CallSavepoint(t, p) PROVE Typed'
    <2>1. /\ Enter(t, "savepoint", counter)
          /\ counter < mode.savepoints /\ counter' = counter + 1
          /\ parent' = [parent EXCEPT ![counter] = p]
          /\ UNCHANGED <<mode, db, phase, durable, live, outcome, abandoned, under>>
          /\ astray' \in BOOLEAN
      BY <1>3 DEF CallSavepoint, Typed, TypeOK
    <2>2. counter \in Nat /\ mode.savepoints \in 0 .. MaxSavepoints
      BY TxAssumption DEF Typed, TypeOK
    <2>3. counter \in Names /\ counter' \in 0 .. MaxSavepoints
      BY <2>1, <2>2, TxAssumption DEF Names
    <2>4. /\ op' \in [Tasks -> Calls] /\ (\A u \in Tasks : Argued(u))'
          /\ pending' \in Seq(Names)
      BY <2>1, <2>3, Entered DEF Statements
    <2>5. parent' \in [Names -> Names \cup {Root}]
      BY <2>1 DEF Typed, TypeOK
    <2> QED
      BY <2>1, <2>3, <2>4, <2>5 DEF Typed, TypeOK
  <1>4. ASSUME NEW t \in Tasks, NEW h \in Names, NEW kind \in {"release", "rollback"},
               CallClose(t, kind, h)
        PROVE  Typed'
    <2>1. /\ Enter(t, kind, h) /\ live' = live \ {h}
          /\ UNCHANGED <<mode, db, phase, durable, counter, parent, outcome, abandoned, under>>
          /\ astray' \in BOOLEAN
      BY <1>4 DEF CallClose, Typed, TypeOK
    <2>2. /\ op' \in [Tasks -> Calls] /\ (\A u \in Tasks : Argued(u))'
          /\ pending' \in Seq(Names)
      BY <2>1, Entered DEF Statements
    <2> QED
      BY <2>1, <2>2 DEF Typed, TypeOK
  <1>5. ASSUME NEW t \in Tasks, NEW kind \in {"commit", "abort"}, CallEnd(t, kind) PROVE Typed'
    <2>1. /\ Enter(t, kind, Root)
          /\ UNCHANGED <<mode, db, phase, durable, counter, live, parent, outcome, abandoned, under, astray>>
      BY <1>5 DEF CallEnd
    <2>2. /\ op' \in [Tasks -> Calls] /\ (\A u \in Tasks : Argued(u))'
          /\ pending' \in Seq(Names)
      BY <2>1, Entered DEF Statements
    <2> QED
      BY <2>1, <2>2 DEF Typed, TypeOK
  <1>6. ASSUME NEW t \in Tasks, RunFails(t) PROVE Typed'
    BY <1>6, FailedIs, Finished DEF RunFails, Typed, TypeOK, DbType, StackType
  <1>7. ASSUME NEW t \in Tasks, RunCommit(t) PROVE Typed'
    <2>1. op' = [op EXCEPT ![t] = Idle] /\ Idle \in Calls /\ Idle.kind = "idle"
      BY <1>7 DEF RunCommit, Idle, Calls
    <2>2. op' \in [Tasks -> Calls] /\ \A u \in Tasks : op'[u] \in {op[u], Idle}
      BY <2>1 DEF Typed, TypeOK
    <2>3. (\A u \in Tasks : Argued(u))'
      BY <2>1, <2>2 DEF Typed, Argued
    <2>4. durable' \subseteq Rows
      BY <1>7 DEF RunCommit, Typed, TypeOK
    <2> QED
      BY <1>7, <2>2, <2>3, <2>4 DEF RunCommit, Typed, TypeOK
  <1>8. ASSUME NEW t \in Tasks, RunAbort(t) PROVE Typed'
    <2>1. /\ UNCHANGED <<mode, db, durable, counter, pending, live, parent, abandoned, under, astray>>
          /\ \E result \in {"error", "abort"} : Finish(t, result)
      BY <1>8 DEF RunAbort
    <2> QED
      BY <2>1, Finished DEF Typed, TypeOK
  <1>9. ASSUME NEW t \in Tasks, Cancel(t) PROVE Typed'
    <2>1. db' \in DbType
      <3>1. CASE db' = db
        BY <3>1 DEF Typed
      <3>2. CASE db' # db
        <4>1. PICK cmd \in Statements, x \in Rows \cup Names :
                /\ cmd = "write" => x \in Rows
                /\ cmd \in {"savepoint", "release", "rollback"} => x \in Names
                /\ Succeeds(db, cmd, x)
                /\ db' = Effect(db, cmd, x)
          BY <1>9, <3>2, CancelIs
        <4> QED
          BY <4>1, EffectIs
      <3> QED
        BY <3>1, <3>2
    <2> QED
      BY <1>9, <2>1, CancelIs, Finished DEF Typed, TypeOK, DbType, StackType
  <1>10. ASSUME NEW h \in Names, DropHandle(h) PROVE Typed'
    <2>1. pending' \in Seq(Names)
      BY <1>10 DEF DropHandle, Typed, TypeOK
    <2> QED
      BY <1>10, <2>1 DEF DropHandle, Typed, TypeOK, Argued
  <1>11. CASE DropTx
    BY <1>11 DEF DropTx, Typed, TypeOK, Argued
  <1> QED
    BY <1>1, <1>2, <1>3, <1>4, <1>5, <1>6, <1>7, <1>8, <1>9, <1>10, <1>11, FlushTyped, RunTyped
       DEF Next, Step

-----------------------------------------------------------------------------
(* Names are distinct.                                                     *)

\* Nothing is pushed, and no call opens a savepoint that did not before.
NoneNamed ==
    /\ \A i \in DOMAIN db'.stack : i \in DOMAIN db.stack /\ db'.stack[i] = db.stack[i]
    /\ counter' = counter
    /\ \A u \in Tasks : op'[u].kind = "savepoint" =>
         op[u].kind = "savepoint" /\ op'[u].arg = op[u].arg

LEMMA NoneNamedKeeps ==
  ASSUME Named, NoneNamed
  PROVE  Named'
  BY DEF Named, NoneNamed

LEMMA PushNamed ==
  ASSUME Typed, Named, NEW t \in Tasks, NEW result, op[t].kind = "savepoint",
         db' = Effect(db, "savepoint", op[t].arg), Finish(t, result), counter' = counter
  PROVE  Named'
  <1> DEFINE x == op[t].arg
             k == Len(db.stack)
  <1>1. /\ x \in Names /\ x < counter
        /\ \A i \in DOMAIN db.stack : db.stack[i].name # x /\ db.stack[i].name < counter
        /\ \A i, j \in DOMAIN db.stack : db.stack[i].name = db.stack[j].name => i = j
    BY DEF Typed, Argued, Named
  <1>2. /\ k \in Nat /\ DOMAIN db.stack = 1 .. k /\ DOMAIN db'.stack = 1 .. k + 1
        /\ \A i \in 1 .. k : db'.stack[i] = db.stack[i]
        /\ db'.stack[k + 1].name = x
    BY <1>1, SavepointIs DEF Typed
  <1>3. \A u \in Tasks : op'[u].kind = "savepoint" =>
          u # t /\ op'[u] = op[u]
    BY Finished
  <1>4. \A u \in Tasks : op'[u].kind = "savepoint" =>
          /\ op[u].arg < counter /\ op[u].arg # x
          /\ \A i \in DOMAIN db.stack : db.stack[i].name # op[u].arg
          /\ \A v \in Tasks : op[v].kind = "savepoint" /\ op[v].arg = op[u].arg => v = u
    BY <1>3 DEF Named
  <1> HIDE DEF x, k
  <1>5. \A i \in 1 .. k + 1 : i \in 1 .. k \/ i = k + 1
    BY <1>2
  <1>6. \A i, j \in DOMAIN db'.stack : db'.stack[i].name = db'.stack[j].name => i = j
    BY <1>1, <1>2, <1>5
  <1>7. \A i \in DOMAIN db'.stack : db'.stack[i].name < counter
    BY <1>1, <1>2, <1>5
  <1>8. \A u \in Tasks : op'[u].kind = "savepoint" =>
          \A i \in DOMAIN db'.stack : db'.stack[i].name # op'[u].arg
    BY <1>2, <1>3, <1>4, <1>5
  <1> QED
    BY <1>3, <1>4, <1>6, <1>7, <1>8 DEF Named

LEMMA NextNamed ==
  ASSUME Typed, Named, [Next]_vars
  PROVE  Named'
  <1>1. CASE UNCHANGED vars
    BY <1>1 DEF vars, Named
  <1>2. ASSUME NEW t \in Tasks, NEW r \in Rows, CallWrite(t, r) PROVE Named'
    <2>1. Enter(t, "write", r) /\ UNCHANGED <<db, counter>>
      BY <1>2 DEF CallWrite
    <2>2. op'[t].kind = "write" /\ \A u \in Tasks \ {t} : op'[u] = op[u]
      BY <2>1, Entered DEF Statements
    <2>3. NoneNamed
      BY <2>1, <2>2 DEF NoneNamed
    <2> QED
      BY <2>3, NoneNamedKeeps
  <1>3. ASSUME NEW t \in Tasks, NEW p \in Names \cup {Root}, CallSavepoint(t, p) PROVE Named'
    <2>1. /\ Enter(t, "savepoint", counter)
          /\ counter < mode.savepoints /\ counter' = counter + 1 /\ UNCHANGED db
      BY <1>3 DEF CallSavepoint
    <2>2. counter \in Nat /\ counter \in Names
      BY <2>1, TxAssumption DEF Typed, TypeOK, Names
    <2>3. /\ op'[t].kind = "savepoint" /\ op'[t].arg = counter
          /\ \A u \in Tasks \ {t} : op'[u] = op[u]
      BY <2>1, <2>2, Entered DEF Statements
    <2>4. \A i \in DOMAIN db.stack : db.stack[i].name \in Nat /\ db.stack[i].name < counter
      BY OnStackIs, TxAssumption DEF Named, Typed, Names
    <2>5. \A u \in Tasks : op[u].kind = "savepoint" => op[u].arg \in Nat /\ op[u].arg < counter
      BY TxAssumption DEF Named, Typed, Argued, Names
    <2>6. \A u \in Tasks : op'[u].kind = "savepoint" =>
            /\ op'[u].arg < counter'
            /\ \A i \in DOMAIN db.stack : db.stack[i].name # op'[u].arg
      BY <2>1, <2>2, <2>3, <2>4, <2>5 DEF Named
    <2>7. \A u, v \in Tasks : op'[u].kind = "savepoint" /\ op'[v].kind = "savepoint"
                              /\ op'[u].arg = op'[v].arg => u = v
      BY <2>2, <2>3, <2>5 DEF Named
    <2>8. \A i \in DOMAIN db.stack : db.stack[i].name < counter'
      BY <2>1, <2>2, <2>4
    <2>9. \A i, j \in DOMAIN db.stack : db.stack[i].name = db.stack[j].name => i = j
      BY DEF Named
    <2> QED
      BY <2>1, <2>6, <2>7, <2>8, <2>9 DEF Named
  <1>4. ASSUME NEW t \in Tasks, NEW h \in Names, NEW kind \in {"release", "rollback"},
               CallClose(t, kind, h)
        PROVE  Named'
    <2>1. Enter(t, kind, h) /\ UNCHANGED <<db, counter>>
      BY <1>4 DEF CallClose
    <2>2. op'[t].kind = kind /\ \A u \in Tasks \ {t} : op'[u] = op[u]
      BY <2>1, Entered DEF Statements
    <2>3. NoneNamed
      BY <2>1, <2>2 DEF NoneNamed
    <2> QED
      BY <2>3, NoneNamedKeeps
  <1>5. ASSUME NEW t \in Tasks, NEW kind \in {"commit", "abort"}, CallEnd(t, kind) PROVE Named'
    <2>1. Enter(t, kind, Root) /\ UNCHANGED <<db, counter>>
      BY <1>5 DEF CallEnd
    <2>2. op'[t].kind = kind /\ \A u \in Tasks \ {t} : op'[u] = op[u]
      BY <2>1, Entered DEF Statements
    <2>3. NoneNamed
      BY <2>1, <2>2 DEF NoneNamed
    <2> QED
      BY <2>3, NoneNamedKeeps
  <1>6. ASSUME NEW t \in Tasks, Flush(t) PROVE Named'
    <2> DEFINE n == Head(op[t].todo)
    <2>1. op[t] \in Calls /\ op[t].todo \in Seq(Names) /\ op[t].todo # <<>> /\ counter' = counter
      BY <1>6 DEF Typed, TypeOK, Calls, Flush
    <2>2. n \in Names
      BY <2>1
    <2>3. CASE Succeeds(db, "rollback", n)
      <3>1. /\ db' = Effect(db, "rollback", n)
            /\ op' = [op EXCEPT ![t].todo = Tail(@)]
        BY <1>6, <2>3 DEF Flush
      <3>2. \A i \in DOMAIN db'.stack : i \in DOMAIN db.stack /\ db'.stack[i] = db.stack[i]
        BY <2>2, <2>3, <3>1, EffectIs DEF Statements
      <3>3. \A u \in Tasks : op'[u].kind = op[u].kind /\ op'[u].arg = op[u].arg
        BY <2>1, <3>1 DEF Typed, TypeOK, Calls
      <3> QED
        BY <2>1, <3>2, <3>3, NoneNamedKeeps DEF NoneNamed
    <2>4. CASE ~ Succeeds(db, "rollback", n)
      <3>1. db' = Failed(db) /\ Finish(t, "error")
        BY <1>6, <2>4 DEF Flush
      <3> QED
        BY <2>1, <3>1, FailedIs, Finished, NoneNamedKeeps DEF NoneNamed
    <2> QED
      BY <2>3, <2>4
  <1>7. ASSUME NEW t \in Tasks, Run(t) PROVE Named'
    <2>1. /\ op[t].kind \in Statements /\ Argued(t)
          /\ Succeeds(db, op[t].kind, op[t].arg)
          /\ db' = Effect(db, op[t].kind, op[t].arg)
          /\ Finish(t, op[t].kind) /\ counter' = counter
      BY <1>7 DEF Run, Typed, Statements
    <2>2. CASE op[t].kind = "savepoint"
      BY <2>1, <2>2, PushNamed
    <2>3. CASE op[t].kind # "savepoint"
      <3>1. \A i \in DOMAIN db'.stack : i \in DOMAIN db.stack /\ db'.stack[i] = db.stack[i]
        BY <2>1, <2>3, EffectIs DEF Argued
      <3> QED
        BY <2>1, <3>1, Finished, NoneNamedKeeps DEF NoneNamed
    <2> QED
      BY <2>2, <2>3
  <1>8. ASSUME NEW t \in Tasks, RunFails(t) PROVE Named'
    <2>1. db' = Failed(db) /\ Finish(t, "error") /\ counter' = counter
      BY <1>8 DEF RunFails
    <2> QED
      BY <2>1, FailedIs, Finished, NoneNamedKeeps DEF NoneNamed
  <1>9. ASSUME NEW t \in Tasks, RunCommit(t) PROVE Named'
    <2>1. op' = [op EXCEPT ![t] = Idle] /\ Idle.kind = "idle" /\ UNCHANGED <<db, counter>>
      BY <1>9 DEF RunCommit, Idle
    <2>2. \A u \in Tasks : op'[u] \in {op[u], Idle}
      BY <2>1 DEF Typed, TypeOK
    <2> QED
      BY <2>1, <2>2, NoneNamedKeeps DEF NoneNamed
  <1>10. ASSUME NEW t \in Tasks, RunAbort(t) PROVE Named'
    <2>1. UNCHANGED <<db, counter>> /\ \E result \in {"error", "abort"} : Finish(t, result)
      BY <1>10 DEF RunAbort
    <2> QED
      BY <2>1, Finished, NoneNamedKeeps DEF NoneNamed
  <1>11. ASSUME NEW t \in Tasks, Cancel(t) PROVE Named'
    <2>1. Finish(t, "cancelled") /\ counter' = counter
      BY <1>11, CancelIs
    <2>2. CASE db' = db
      BY <2>1, <2>2, Finished, NoneNamedKeeps DEF NoneNamed
    <2>3. CASE db' # db
      <3>1. PICK cmd \in Statements, x \in Rows \cup Names :
              /\ cmd = "write" => x \in Rows
              /\ cmd \in {"savepoint", "release", "rollback"} => x \in Names
              /\ cmd = "savepoint" => op[t].kind = cmd /\ op[t].arg = x
              /\ Succeeds(db, cmd, x)
              /\ db' = Effect(db, cmd, x)
        BY <1>11, <2>3, CancelIs
      <3>2. CASE cmd = "savepoint"
        BY <2>1, <3>1, <3>2, PushNamed
      <3>3. CASE cmd # "savepoint"
        <4>1. \A i \in DOMAIN db'.stack : i \in DOMAIN db.stack /\ db'.stack[i] = db.stack[i]
          BY <3>1, <3>3, EffectIs
        <4> QED
          BY <2>1, <4>1, Finished, NoneNamedKeeps DEF NoneNamed
      <3> QED
        BY <3>2, <3>3
    <2> QED
      BY <2>2, <2>3
  <1>12. ASSUME NEW h \in Names, DropHandle(h) PROVE Named'
    BY <1>12 DEF DropHandle, Named
  <1>13. CASE DropTx
    BY <1>13 DEF DropTx, Named
  <1> QED
    BY <1>1, <1>2, <1>3, <1>4, <1>5, <1>6, <1>7, <1>8, <1>9, <1>10, <1>11, <1>12, <1>13
       DEF Next, Step

\* Every state is well typed (the state of tx.rs:54-72 and 506-516).
THEOREM WellTyped == Spec => []TypeOK
  <1>1. Init => Typed
    BY InitTyped
  <1>2. Typed /\ [Next]_vars => Typed'
    BY NextTyped
  <1>3. Typed => TypeOK
    BY DEF Typed
  <1> QED
    BY <1>1, <1>2, <1>3, PTL DEF Spec

\* However many tasks open savepoints, and whatever fails or is cancelled, no
\* two on the stack share a name (tx.rs:142-151).
THEOREM NamesDistinct == Spec => []DistinctNames
  <1>1. Init => Typed /\ Named
    <2>1. Init => Named
      BY DEF Init, Named, Idle
    <2> QED
      BY <2>1, InitTyped
  <1>2. Typed /\ Named /\ [Next]_vars => Typed' /\ Named'
    BY NextTyped, NextNamed
  <1>3. Named => DistinctNames
    BY DEF Named, DistinctNames
  <1> QED
    BY <1>1, <1>2, <1>3, PTL DEF Spec

-----------------------------------------------------------------------------
(* Calls and handles in order.                                             *)

LEMMA Numbers ==
  ASSUME Typed
  PROVE  /\ counter \in Nat /\ Names \subseteq Nat /\ live \subseteq Nat /\ abandoned \subseteq Nat
         /\ Root \in Int /\ Root \notin Names /\ \A p \in Names : Root < p
         /\ \A n \in Names : parent[n] \in Int
         /\ \A r \in Rows : under[r] \subseteq Nat
         /\ db \in DbType /\ DOMAIN db.stack = 1 .. Len(db.stack) /\ Len(db.stack) \in Nat
         /\ \A i \in DOMAIN db.stack : /\ db.stack[i].name \in Nat /\ db.stack[i].name \in Names
                                       /\ db.stack[i].rows \subseteq Rows
  <1>1. Names \subseteq Nat /\ Root \in Int /\ Root \notin Names /\ \A p \in Names : Root < p
    BY TxAssumption DEF Names, Root
  <1>2. counter \in Nat /\ db \in DbType
    BY TxAssumption DEF Typed, TypeOK
  <1>3. live \subseteq Nat /\ abandoned \subseteq Nat
    BY <1>1 DEF Typed, TypeOK
  <1>4. \A n \in Names : parent[n] \in Int
    <2> SUFFICES ASSUME NEW n \in Names PROVE parent[n] \in Int
      OBVIOUS
    <2>1. parent[n] \in Names \/ parent[n] = Root
      BY DEF Typed, TypeOK
    <2>2. Root \in Int /\ \A p \in Names : p \in Int
      BY <1>1
    <2> QED
      BY <2>1, <2>2
  <1>5. \A r \in Rows : under[r] \subseteq Nat
    BY <1>1 DEF Typed, TypeOK
  <1> QED
    BY <1>1, <1>2, <1>3, <1>4, <1>5, OnStackIs

\* The others were not opened through a handle that nothing borrows.
LEMMA UnborrowedCloses ==
  ASSUME Typed, Opened, NEW h \in live, ~ Borrowed(h), live' = live \ {h}, parent' = parent
  PROVE  Opened'
  BY DEF Opened, Borrowed

\* A handle than which none is younger.
LEMMA YoungestIs ==
  ASSUME Typed, NEW h \in live, ~ Younger(h)
  PROVE  /\ \A m \in live : m <= h
         /\ \A m \in live \ {h} : m < h
  BY Numbers DEF Younger

\* One call is under way at most.
LEMMA UserIs ==
  ASSUME NEW t \in Tasks, Busy(t), \A u \in Tasks : Busy(u) => u = t
  PROVE  User = t
  BY DEF User

LEMMA TurnIs ==
  ASSUME InOrder, NEW t \in Tasks, Busy(t)
  PROVE  /\ t = User /\ pending = <<>> /\ phase = "open"
         /\ \A u \in Tasks \ {t} : ~ Busy(u) /\ Turn(u)
  BY UserIs DEF InOrder, Turns, Turn

\* A call begins: it takes the queue over as it stands.
LEMMA Begins ==
  ASSUME Typed, ~ astray', Stray(Overlap) \/ ~ Overlap, InOrder, NEW t \in Tasks,
         NEW kind \in Statements \cup {"commit", "abort"}, NEW x \in Rows \cup Names \cup {Root},
         kind = "write" => x \in Rows,
         kind \in {"savepoint", "release", "rollback"} => x \in Names,
         Enter(t, kind, x), UNCHANGED <<mode, db, durable, under, abandoned, phase>>,
         live' \subseteq live,
         \/ kind # "savepoint" /\ counter' = counter
         \/ x = counter /\ counter' = counter + 1
  PROVE  /\ (\A u \in Tasks : ~ Busy(u)) /\ User' = t /\ \A u \in Tasks \ {t} : ~Busy(u)' /\ op'[u].todo = <<>>
         /\ phase = "open" /\ Busy(t)' /\ ~ Busy(t) /\ Queue' = Queue
         /\ (Stacked /\ Queued /\ Clean)'
  <1>1. phase = "open" /\ ~ Busy(t)
    BY DEF Enter
  <1>3. \A u \in Tasks : ~ Busy(u)
    BY DEF Stray, Overlap
  <1>4. /\ op'[t].kind = kind /\ op'[t].arg = x /\ op'[t].todo = Reverse(pending)
        /\ \A u \in Tasks \ {t} : op'[u] = op[u]
    BY Entered
  <1>5. Busy(t)' /\ \A u \in Tasks \ {t} : ~Busy(u)'
    BY <1>3, <1>4 DEF Busy, Statements
  <1>2. User' = t
    BY <1>5 DEF User
  <1>6. Queue' = Queue
    BY <1>2, <1>3, <1>4, <1>5 DEF Queue
  <1>7. ASSUME NEW a \in Nat, Old(a) PROVE Old(a)'
    BY <1>3, <1>4, <1>7, Numbers DEF Old, Busy
  <1>8. Stacked'
    <2>1. \A i \in DOMAIN db.stack : Old(db.stack[i].name)'
      BY <1>7, Numbers DEF InOrder, Stacked
    <2> QED
      BY <2>1 DEF InOrder, Stacked
  <1>9. Queued'
    BY <1>3, <1>6 DEF InOrder, Queued
  <1>10. Clean'
    <2>1. \A a \in abandoned : Old(a)'
      BY <1>7, Numbers DEF InOrder, Clean
    <2>2. \A r \in db.rows : \A a \in under[r] : Old(a)'
      BY <1>7, Numbers DEF InOrder, Clean, Typed, DbType
    <2> QED
      BY <1>6, <2>1, <2>2 DEF InOrder, Clean
  <1>11. \A u \in Tasks \ {t} : op'[u].todo = <<>>
    BY <1>3, <1>4 DEF InOrder, Turns, Turn
  <1> QED
    BY <1>1, <1>2, <1>3, <1>5, <1>6, <1>8, <1>9, <1>10, <1>11

\* The four ways in which one does.
LEMMA InOrderCalls ==
  ASSUME Typed, ~ astray', InOrder, NEW t \in Tasks,
         \/ \E r \in Rows : CallWrite(t, r)
         \/ \E p \in Names \cup {Root} : CallSavepoint(t, p)
         \/ \E h \in Names, kind \in {"release", "rollback"} : CallClose(t, kind, h)
         \/ \E kind \in {"commit", "abort"} : CallEnd(t, kind)
  PROVE  InOrder'
  <1>1. ASSUME NEW r \in Rows, CallWrite(t, r) PROVE InOrder'
    <2>1. /\ Enter(t, "write", r) /\ r \notin db.rows
          /\ Stray(Overlap)
          /\ UNCHANGED <<mode, db, phase, durable, counter, live, parent, outcome, abandoned, under>>
      BY <1>1 DEF CallWrite
    <2>2. /\ \A u \in Tasks \ {t} : ~Busy(u)' /\ op'[u].todo = <<>>
          /\ phase = "open" /\ Busy(t)'
          /\ (Stacked /\ Queued /\ Clean)'
      BY <2>1, Begins DEF Statements
    <2>3. op'[t].kind = "write" /\ op'[t].arg = r /\ pending' = <<>>
      BY <2>1, Entered DEF Statements
    <2>4. (\A u \in Tasks : Turn(u))'
      BY <2>1, <2>2, <2>3 DEF Turn, Busy
    <2>5. Turns' /\ Opened'
      BY <2>1, <2>2, <2>4 DEF Turns, Opened, InOrder
    <2> QED
      BY <2>2, <2>5 DEF InOrder
  <1>2. ASSUME NEW p \in Names \cup {Root}, CallSavepoint(t, p) PROVE InOrder'
    <2>1. /\ Enter(t, "savepoint", counter) /\ counter < mode.savepoints /\ p \in live \cup {Root}
          /\ Stray(Overlap)
          /\ counter' = counter + 1 /\ parent' = [parent EXCEPT ![counter] = p]
          /\ UNCHANGED <<mode, db, phase, durable, live, outcome, abandoned, under>>
      BY <1>2 DEF CallSavepoint
    <2>2. counter \in Nat /\ counter \in Names
      BY <2>1, TxAssumption DEF Typed, TypeOK, Names
    <2>3. /\ \A u \in Tasks \ {t} : ~Busy(u)' /\ op'[u].todo = <<>>
          /\ phase = "open" /\ Busy(t)'
          /\ (Stacked /\ Queued /\ Clean)'
      BY <2>1, <2>2, Begins DEF Statements
    <2>4. op'[t].kind = "savepoint" /\ op'[t].arg = counter /\ pending' = <<>>
      BY <2>1, <2>2, Entered DEF Statements
    <2>5. parent'[counter] = p /\ \A n \in Names : n # counter => parent'[n] = parent[n]
      BY <2>1, <2>2 DEF Typed, TypeOK
    <2>7. (\A u \in Tasks : Turn(u))'
      BY <2>1, <2>2, <2>3, <2>4, <2>5 DEF Turn, Busy
    <2>8. \A n \in live : n \in Names /\ n # counter
      <3>1. \A n \in live : n \in OnStack(db) /\ n \in Names
        BY DEF InOrder, Stacked, Typed, TypeOK
      <3> QED
        BY <2>2, <3>1, Numbers DEF OnStack, InOrder, Stacked, Old
    <2>9. Opened'
      <3>1. \A n \in live : parent'[n] = parent[n]
        BY <2>5, <2>8
      <3> QED
        BY <2>1, <3>1 DEF Opened, InOrder
    <2> QED
      BY <2>1, <2>3, <2>7, <2>9 DEF InOrder, Turns
  <1>3. ASSUME NEW h \in Names, NEW kind \in {"release", "rollback"}, CallClose(t, kind, h)
        PROVE  InOrder'
    <2>1. /\ Enter(t, kind, h) /\ h \in live /\ ~ Borrowed(h) /\ live' = live \ {h}
          /\ ~ Younger(h) /\ Stray(Overlap) /\ parent' = parent
          /\ UNCHANGED <<mode, db, phase, durable, counter, parent, outcome, abandoned, under>>
      BY <1>3 DEF CallClose, Stray
    <2>2. /\ \A u \in Tasks \ {t} : ~Busy(u)' /\ op'[u].todo = <<>>
          /\ phase = "open" /\ Busy(t)'
          /\ (Stacked /\ Queued /\ Clean)'
      BY <2>1, Begins DEF Statements
    <2>3. op'[t].kind = kind /\ op'[t].arg = h /\ pending' = <<>>
      BY <2>1, Entered DEF Statements
    <2>4. \A m \in live' : m < h
      BY <2>1, YoungestIs
    <2>5. (\A u \in Tasks : Turn(u))'
      BY <2>1, <2>2, <2>3, <2>4 DEF Turn, Busy
    <2>6. Opened'
      BY <2>1, UnborrowedCloses DEF InOrder
    <2> QED
      BY <2>1, <2>2, <2>5, <2>6 DEF InOrder, Turns
  <1>4. ASSUME NEW kind \in {"commit", "abort"}, CallEnd(t, kind) PROVE InOrder'
    <2>1. /\ Enter(t, kind, Root) /\ live = {} /\ ~ Overlap
          /\ UNCHANGED <<mode, db, phase, durable, counter, live, parent, outcome, abandoned, under>>
      BY <1>4 DEF CallEnd, Overlap
    <2>2. /\ \A u \in Tasks \ {t} : ~Busy(u)' /\ op'[u].todo = <<>>
          /\ phase = "open" /\ Busy(t)'
          /\ (Stacked /\ Queued /\ Clean)'
      BY <2>1, Begins DEF Statements
    <2>3. op'[t].kind = kind /\ pending' = <<>>
      BY <2>1, Entered DEF Statements
    <2>4. (\A u \in Tasks : Turn(u))'
      BY <2>1, <2>2, <2>3 DEF Turn, Busy
    <2>5. Turns' /\ Opened'
      BY <2>1, <2>2, <2>4 DEF Turns, Opened, InOrder
    <2> QED
      BY <2>2, <2>5 DEF InOrder
  <1> QED
    BY <1>1, <1>2, <1>3, <1>4

LEMMA InOrderDrops ==
  ASSUME Typed, ~ astray', InOrder, NEW h \in Names, DropHandle(h)
  PROVE  InOrder'
  <1>1. /\ h \in live /\ ~ Borrowed(h) /\ live' = live \ {h}
        /\ pending' = Append(pending, h) /\ abandoned' = abandoned \cup {h}
        /\ UNCHANGED <<mode, db, phase, durable, counter, parent, op, under>>
        /\ ~ Younger(h) /\ \A t \in Tasks : ~ Busy(t)
    BY DEF DropHandle, Stray, Overlap
  <1>2. /\ \A m \in live : m <= h
        /\ \A m \in live' : m \in live /\ m < h
    BY <1>1, YoungestIs
  <1>3. Opened'
    BY <1>1, UnborrowedCloses DEF InOrder
  <1>4. Turns'
    BY <1>1 DEF InOrder, Turns, Turn, Busy
  <1>5. \A a : Old(a)' <=> Old(a)
    BY <1>1 DEF Old
  <1>6. Stacked'
    BY <1>1, <1>5 DEF InOrder, Stacked
  <1>7. pending \in Seq(Names) /\ pending' \in Seq(Names) /\ Len(pending') = Len(pending) + 1
        /\ pending'[Len(pending) + 1] = h
        /\ \A i \in 1 .. Len(pending) : pending'[i] = pending[i]
    BY <1>1 DEF Typed, TypeOK
  <1>8. Queue = Reverse(pending) /\ Queue' = Reverse(pending')
    BY <1>1 DEF Queue, Busy
  <1> DEFINE k == Len(pending)
             q == Queue
             r == Reverse(pending')
  <1>9. /\ q \in Seq(Names) /\ k \in Nat /\ DOMAIN q = 1 .. k
        /\ r \in Seq(Names) /\ DOMAIN r = 1 .. k + 1 /\ r[1] = h
        /\ \A i \in 1 .. k : r[i + 1] = q[i]
    <2>1. /\ k \in Nat /\ DOMAIN q = 1 .. k /\ q \in Seq(Names)
          /\ \A i \in 1 .. k : q[i] = pending[k - i + 1]
      BY <1>7, <1>8, ReverseIs
    <2>2. /\ r \in Seq(Names) /\ DOMAIN r = 1 .. k + 1
          /\ \A i \in 1 .. k + 1 : r[i] = pending'[k + 1 - i + 1]
      BY <1>7, <1>8, ReverseIs
    <2>3. r[1] = h
      BY <1>7, <2>1, <2>2
    <2>4. ASSUME NEW i \in 1 .. k PROVE r[i + 1] = q[i]
      <3>1. r[i + 1] = pending'[k - i + 1] /\ k - i + 1 \in 1 .. k
        BY <2>1, <2>2
      <3> QED
        BY <1>7, <2>1, <3>1
    <2> QED
      BY <2>1, <2>2, <2>3, <2>4
  <1>10. /\ \A i, j \in 1 .. k : i < j => q[i] < q[j]
         /\ \A i \in 1 .. k : \A m \in live : m < q[i]
         /\ \A i \in 1 .. k : q[i] \in OnStack(db)
    BY <1>1, <1>9 DEF InOrder, Queued
  <1>11. h \in OnStack(db)
    BY <1>1 DEF InOrder, Stacked
  <1>12. Queue' = r
    BY <1>8
  <1> HIDE DEF k, q, r
  <1>13. \A i \in 1 .. k + 1 : i = 1 \/ \E j \in 1 .. k : i = j + 1
    <2>1. \A i \in 1 .. k + 1 : i = 1 \/ (i - 1 \in 1 .. k /\ i = (i - 1) + 1)
      BY <1>9
    <2> QED
      BY <2>1
  <1>14. Queued'
    <2>1. \A i, j \in 1 .. k + 1 : i < j => r[i] < r[j]
      <3> SUFFICES ASSUME NEW i \in 1 .. k + 1, NEW j \in 1 .. k + 1, i < j PROVE r[i] < r[j]
        OBVIOUS
      <3>1. PICK jj \in 1 .. k : j = jj + 1
        BY <1>9, <1>13
      <3>2. r[j] = q[jj]
        BY <1>9, <3>1
      <3>3. CASE i = 1
        BY <1>1, <1>9, <1>10, <3>2, <3>3
      <3>4. CASE i # 1
        <4>1. PICK ii \in 1 .. k : i = ii + 1
          BY <1>13, <3>4
        <4>2. r[i] = q[ii] /\ ii < jj
          BY <1>9, <3>1, <4>1
        <4> QED
          BY <1>10, <3>2, <4>2
      <3> QED
        BY <3>3, <3>4
    <2>2. \A i \in 1 .. k + 1 : \A m \in live' : m < r[i]
      BY <1>2, <1>9, <1>10, <1>13
    <2>3. \A i \in 1 .. k + 1 : r[i] \in OnStack(db)
      BY <1>9, <1>10, <1>11, <1>13
    <2> QED
      BY <1>1, <1>9, <1>12, <2>1, <2>2, <2>3 DEF Queued
  <1>15. Clean'
    <2>1. Old(h)
      BY <1>11 DEF OnStack, InOrder, Stacked
    <2>2. \A a \in abandoned' : Old(a)' /\ a \notin live'
      BY <1>1, <1>5, <2>1 DEF InOrder, Clean
    <2>3. ASSUME NEW i \in 1 .. k PROVE i + 1 \in 1 .. k + 1 /\ 1 \in 1 .. k + 1
      BY <1>9
    <2>4. ASSUME NEW x \in db.rows, NEW a \in under[x]
          PROVE  /\ Old(a)'
                 /\ a \in abandoned' => a \in OnStack(db) /\ \E i \in 1 .. k + 1 : r[i] = a
      <3>1. /\ Old(a)
            /\ a \in abandoned => a \in OnStack(db) /\ \E i \in 1 .. k : q[i] = a
        BY <1>9 DEF InOrder, Clean, q
      <3>2. CASE a = h
        BY <1>5, <1>9, <1>11, <2>1, <3>2
      <3>3. CASE a # h
        BY <1>1, <1>5, <1>9, <2>3, <3>1, <3>3
      <3> QED
        BY <3>2, <3>3
    <2>5. durable' = {}
      BY <1>1 DEF InOrder, Turns
    <2> QED
      BY <1>1, <1>9, <1>12, <2>2, <2>4, <2>5 DEF Clean
  <1> QED
    BY <1>3, <1>4, <1>6, <1>14, <1>15 DEF InOrder

\* The call is over: nobody is in one, and nothing is queued.
LEMMA Over ==
  ASSUME Typed, InOrder, NEW t \in Tasks, Busy(t), NEW result,
         Finish(t, result), counter' = counter, pending' = pending
  PROVE  /\ t = User /\ Queue = op[t].todo /\ Queue' = <<>>
         /\ phase = "open" /\ (phase' = "open" \/ live = {})
         /\ \A u \in Tasks : op'[u].kind = "idle" /\ Turn(u)'
         /\ Queued'
         /\ \A a : Old(a)' <=> a < counter
  <1>1. t = User /\ pending = <<>> /\ phase = "open" /\ \A u \in Tasks \ {t} : ~ Busy(u) /\ Turn(u)
    BY TurnIs
  <1>2. /\ op'[t].kind = "idle" /\ op'[t].todo = <<>>
        /\ \A u \in Tasks \ {t} : op'[u] = op[u]
    BY Finished
  <1>3. \A u \in Tasks : op'[u].kind = "idle" /\ op'[u].todo = <<>>
    BY <1>1, <1>2 DEF Busy, Turn
  <1>4. \A u \in Tasks : Turn(u)'
    BY <1>3 DEF Turn, Busy
  <1>5. Queue = op[t].todo
    BY <1>1 DEF Queue
  <1>6. Queue' = Reverse(pending')
    BY <1>3 DEF Queue, Busy
  <1>7. Queue' = Reverse(<<>>)
    BY <1>1, <1>6
  <1>8. Queue' = <<>> /\ Queue' \in Seq(Names) /\ DOMAIN Queue' = {}
    BY <1>7, ReverseEmpty
  <1>9. Queued'
    BY <1>8 DEF Queued
  <1>10. \A a : Old(a)' <=> a < counter
    BY <1>3 DEF Old
  <1>11. phase' = "open" \/ live = {}
    BY <1>1 DEF Finish, InOrder, Turns, Turn
  <1> QED
    BY <1>1, <1>3, <1>4, <1>5, <1>8, <1>9, <1>10, <1>11

\* When the flush is over, or cannot go on, no abandoned row is left.
LEMMA Flushed ==
  ASSUME Typed, InOrder, NEW t \in Tasks, Busy(t),
         op[t].todo = <<>> \/ Head(op[t].todo) \notin OnStack(db)
  PROVE  \A r \in db.rows : under[r] \cap abandoned = {}
  <1>1. t = User
    BY TurnIs
  <1>2. Queue = op[t].todo /\ Queue \in Seq(Names)
    BY <1>1 DEF Queue, InOrder, Queued
  <1>3. \A i \in DOMAIN Queue : Queue[i] \notin OnStack(db)
    BY <1>2 DEF InOrder, Queued
  <1> QED
    BY <1>3 DEF InOrder, Clean

\* It failed, or was the last: rows and savepoints stay.
LEMMA InOrderEnds ==
  ASSUME Typed, InOrder, NEW t \in Tasks, Busy(t), NEW result,
         Finish(t, result), db'.stack = db.stack, db'.rows = db.rows,
         op[t].todo = <<>> \/ Head(op[t].todo) \notin OnStack(db),
         UNCHANGED <<mode, durable, counter, pending, live, parent, abandoned, under>>
  PROVE  InOrder'
  <1>1. /\ phase = "open" /\ (phase' = "open" \/ live = {})
        /\ \A u \in Tasks : Turn(u)'
        /\ Queued'
        /\ \A a : Old(a)' <=> a < counter
    BY Over
  <1>2. \A r \in db.rows : under[r] \cap abandoned = {}
    BY Flushed
  <1>3. durable = {}
    BY <1>1 DEF InOrder, Turns
  <1>4. Turns' /\ Opened'
    BY <1>1, <1>3 DEF InOrder, Turns, Opened
  <1>5. Stacked'
    BY <1>1 DEF InOrder, Stacked, OnStack, Old
  <1>6. Clean'
    BY <1>1, <1>2, <1>3 DEF InOrder, Clean, Old
  <1> QED
    BY <1>1, <1>4, <1>5, <1>6 DEF InOrder

LEMMA InOrderCommits ==
  ASSUME Typed, InOrder, NEW t \in Tasks, RunCommit(t)
  PROVE  InOrder'
  <1>1. /\ op[t].kind = "commit" /\ op[t].todo = <<>> /\ Busy(t)
        /\ op' = [op EXCEPT ![t] = Idle] /\ phase' = "committed"
        /\ durable' = IF db.aborted THEN {} ELSE db.rows
        /\ UNCHANGED <<mode, db, counter, pending, live, parent, abandoned, under>>
    BY DEF RunCommit, Busy
  <1>2. t = User /\ pending = <<>> /\ live = {} /\ \A u \in Tasks \ {t} : ~ Busy(u) /\ Turn(u)
    BY <1>1, TurnIs DEF InOrder, Turns, Turn
  <1>3. op'[t] = Idle /\ \A u \in Tasks \ {t} : op'[u] = op[u]
    BY <1>1 DEF Typed, TypeOK
  <1>4. \A u \in Tasks : op'[u].kind = "idle" /\ op'[u].todo = <<>>
    BY <1>2, <1>3 DEF Busy, Turn, Idle
  <1>5. Turns'
    BY <1>1, <1>2, <1>4 DEF Turns, Turn, Busy
  <1>6. Queue' = Reverse(pending')
    BY <1>4 DEF Queue, Busy
  <1>7. Queue' \in Seq(Names) /\ DOMAIN Queue' = {}
    <2>1. Queue' = Reverse(<<>>)
      BY <1>1, <1>2, <1>6
    <2> QED
      BY <2>1, ReverseEmpty
  <1>8. Queued'
    BY <1>7 DEF Queued
  <1>9. \A a : Old(a)' <=> a < counter
    BY <1>1, <1>4 DEF Old
  <1>10. \A r \in db.rows : under[r] \cap abandoned = {}
    BY <1>1, Flushed
  <1>11. Stacked'
    BY <1>1, <1>9 DEF InOrder, Stacked, Old
  <1>12. Clean'
    BY <1>1, <1>2, <1>9, <1>10 DEF InOrder, Clean, Old
  <1>13. Opened'
    BY <1>1 DEF InOrder, Opened
  <1> QED
    BY <1>5, <1>8, <1>11, <1>12, <1>13 DEF InOrder

\* One turn of the flush: the stack is cut above the oldest name in the queue.
LEMMA InOrderFlushes ==
  ASSUME Typed, InOrder, NEW t \in Tasks, op[t].todo # <<>>,
         Head(op[t].todo) \in OnStack(db),
         db' = Effect(db, "rollback", Head(op[t].todo)),
         op' = [op EXCEPT ![t].todo = Tail(@)],
         UNCHANGED <<mode, phase, durable, counter, pending, live, parent, abandoned, under>>
  PROVE  InOrder'
  <1> DEFINE q == op[t].todo
             n == Head(q)
             k == Depth(db, n)
  <1>1. Busy(t)
    BY DEF InOrder, Turns, Turn
  <1>0. t = User /\ phase = "open"
    BY <1>1, TurnIs
  <1>2. q \in Seq(Names) /\ q # <<>> /\ Queue = q /\ op[t] \in Calls
    BY <1>0, <1>1 DEF Typed, TypeOK, Calls, Queue
  <1>3. op'[t] = [op[t] EXCEPT !.todo = Tail(q)] /\ \A u \in Tasks \ {t} : op'[u] = op[u]
    BY DEF Typed, TypeOK
  <1>4. /\ op'[t].todo = Tail(q)
        /\ \A u \in Tasks : op'[u].kind = op[u].kind /\ op'[u].arg = op[u].arg
    BY <1>2, <1>3 DEF Calls
  <1>5. \A u \in Tasks : Busy(u)' <=> Busy(u)
    BY <1>4 DEF Busy
  <1>19. User' = User
    BY <1>5 DEF User
  <1>6. Queue' = Tail(q)
    BY <1>0, <1>1, <1>4, <1>5, <1>19 DEF Queue
  <1>7. \A a : Old(a)' <=> Old(a)
    BY <1>4 DEF Old
  <1>8. /\ n \in Names /\ Tail(q) \in Seq(Names) /\ n = q[1] /\ 1 \in DOMAIN q
        /\ \A i \in DOMAIN Tail(q) : i + 1 \in DOMAIN q /\ Tail(q)[i] = q[i + 1] /\ i \in Nat \ {0}
    BY <1>2
  <1>9. /\ \A i, j \in DOMAIN q : i < j => q[i] < q[j]
        /\ \A i \in DOMAIN q : \A m \in live : m < q[i]
    BY <1>2 DEF InOrder, Queued
  <1>10. /\ db' \in DbType /\ k \in 1 .. Len(db.stack) /\ Len(db.stack) \in Nat
         /\ DOMAIN db.stack = 1 .. Len(db.stack) /\ DOMAIN db'.stack = 1 .. k
         /\ \A i \in 1 .. k : db'.stack[i] = db.stack[i]
         /\ db.stack[k].name = n /\ db'.rows = db.stack[k].rows
    BY RollbackIs, Numbers
  <1> HIDE DEF k
  <1>11. /\ \A i, j \in DOMAIN db.stack : i < j =>
              /\ db.stack[i].name < db.stack[j].name
              /\ db.stack[i].rows \subseteq db.stack[j].rows
         /\ \A i \in DOMAIN db.stack :
              /\ Old(db.stack[i].name)
              /\ db.stack[i].rows \subseteq db.rows
              /\ \A r \in db.stack[i].rows : \A a \in under[r] : a < db.stack[i].name
    BY DEF InOrder, Stacked
  <1>12. \A i \in 1 .. k : i \in DOMAIN db.stack /\ (i = k \/ i < k)
    BY <1>10
  <1>13. \A m \in live : m \in OnStack(db')
    <2> SUFFICES ASSUME NEW m \in live PROVE m \in OnStack(db')
      OBVIOUS
    <2>1. PICK i \in DOMAIN db.stack : db.stack[i].name = m
      BY DEF InOrder, Stacked, OnStack
    <2>2. m < n /\ m \in Nat /\ n \in Nat
      BY <1>8, <1>9, Numbers
    <2>3. i \in 1 .. k
      BY <1>10, <1>11, <2>1, <2>2
    <2> QED
      BY <1>10, <2>1, <2>3 DEF OnStack
  <1>14. Stacked'
    <2>1. \A i \in DOMAIN db'.stack : db'.stack[i].rows \subseteq db'.rows
      BY <1>10, <1>11, <1>12
    <2>2. \A i, j \in DOMAIN db'.stack : i < j =>
              /\ db'.stack[i].name < db'.stack[j].name
              /\ db'.stack[i].rows \subseteq db'.stack[j].rows
      BY <1>10, <1>11, <1>12
    <2>3. \A i \in DOMAIN db'.stack :
              /\ Old(db'.stack[i].name)
              /\ \A r \in db'.stack[i].rows : \A a \in under[r] : a < db'.stack[i].name
      BY <1>10, <1>11, <1>12
    <2> QED
      BY <1>7, <1>13, <2>1, <2>2, <2>3 DEF Stacked
  <1>15. \A i \in 1 .. k : db.stack[i].name <= n /\ db.stack[i].name \in Nat
    <2> SUFFICES ASSUME NEW i \in 1 .. k
                 PROVE  db.stack[i].name <= n /\ db.stack[i].name \in Nat
      OBVIOUS
    <2>1. db.stack[i].name \in Nat /\ n \in Nat /\ k \in DOMAIN db.stack
      BY <1>8, <1>10, <1>12, Numbers
    <2>2. i = k \/ db.stack[i].name < db.stack[k].name
      BY <1>11, <1>12, <2>1
    <2> QED
      BY <1>10, <2>1, <2>2
  <1>16. Queued'
    <2>1. ASSUME NEW i \in DOMAIN Tail(q), NEW j \in DOMAIN Tail(q), i < j
          PROVE  Tail(q)[i] < Tail(q)[j]
      <3>1. i + 1 < j + 1 /\ i + 1 \in DOMAIN q /\ j + 1 \in DOMAIN q
        BY <1>8, <2>1
      <3> QED
        BY <1>8, <1>9, <3>1
    <2>2. \A i \in DOMAIN Tail(q) : \A m \in live : m < Tail(q)[i]
      BY <1>8, <1>9
    <2>3. ASSUME NEW i \in DOMAIN Tail(q)
          PROVE  n < Tail(q)[i] /\ Tail(q)[i] \in Nat
      <3>1. 1 < i + 1 /\ i + 1 \in DOMAIN q /\ Tail(q)[i] = q[i + 1]
        BY <1>8
      <3>2. q[i + 1] \in Nat
        BY <1>2, <3>1, Numbers
      <3> QED
        BY <1>8, <1>9, <3>1, <3>2
    <2>4. ASSUME NEW i \in DOMAIN Tail(q), Tail(q)[i] \in OnStack(db') PROVE FALSE
      <3>1. PICK j \in 1 .. k : db.stack[j].name = Tail(q)[i]
        BY <1>10, <2>4 DEF OnStack
      <3>2. n \in Nat
        BY <1>8, Numbers
      <3> QED
        BY <1>15, <2>3, <3>1, <3>2
    <2> QED
      BY <1>1, <1>5, <1>6, <1>8, <2>1, <2>2, <2>4 DEF Queued
  <1>17. Clean'
    <2>1. db'.rows \subseteq db.rows /\ k \in DOMAIN db.stack
      BY <1>10, <1>11
    <2>2. ASSUME NEW r \in db'.rows, NEW a \in under[r], a \in abandoned PROVE FALSE
      <3>1. a < n /\ a \in Nat
        <4>1. r \in Rows
          BY <2>1 DEF Typed, TypeOK
        <4> QED
          BY <1>10, <1>11, <2>1, <4>1, Numbers
      <3>2. PICK i \in DOMAIN q : q[i] = a
        BY <1>2, <2>1, <2>2 DEF InOrder, Clean
      <3>3. i = 1 \/ 1 < i
        BY <1>2, <3>2
      <3>4. n <= a
        BY <1>8, <1>9, <3>2, <3>3, Numbers
      <3> QED
        BY <1>8, <3>1, <3>4, Numbers
    <2>3. \A r \in db'.rows : \A a \in under[r] : Old(a)
      BY <2>1 DEF InOrder, Clean
    <2> QED
      BY <1>7, <2>2, <2>3 DEF InOrder, Clean
  <1>18. Turns' /\ Opened'
    <2>1. db'.rows \subseteq db.rows
      BY <1>10, <1>11
    <2>2. \A u \in Tasks : Turn(u)'
      BY <1>0, <1>1, <1>3, <1>4, <1>5, <2>1 DEF InOrder, Turns, Turn
    <2> QED
      BY <2>2 DEF InOrder, Turns, Opened
  <1> QED
    BY <1>14, <1>16, <1>17, <1>18 DEF InOrder

LEMMA InOrderWrites ==
  ASSUME Typed, InOrder, NEW t \in Tasks, Run(t), op[t].kind = "write"
  PROVE  InOrder'
  <1> DEFINE r == op[t].arg
  <1>1. /\ op[t].todo = <<>> /\ Busy(t) /\ db' = Effect(db, "write", r) /\ Finish(t, "write")
        /\ under' = [under EXCEPT ![r] = live]
        /\ UNCHANGED <<mode, durable, counter, pending, live, parent, abandoned>>
    BY DEF Run, Busy
  <1>2. r \in Rows /\ r \notin db.rows
    BY DEF Typed, Argued, InOrder, Turns, Turn
  <1>3. /\ phase = "open" /\ (phase' = "open" \/ live = {})
        /\ \A u \in Tasks : Turn(u)'
        /\ Queued'
        /\ \A a : Old(a)' <=> a < counter
    BY <1>1, Over
  <1>4. \A s \in db.rows : under[s] \cap abandoned = {}
    BY <1>1, Flushed
  <1>5. durable = {}
    BY <1>3 DEF InOrder, Turns
  <1>6. db'.stack = db.stack /\ db'.rows = db.rows \cup {r}
    BY <1>1, <1>2, WriteIs, Numbers
  <1>7. under'[r] = live /\ \A s \in Rows : s # r => under'[s] = under[s]
    BY <1>1, <1>2 DEF Typed, TypeOK
  <1>8. Turns' /\ Opened'
    BY <1>1, <1>3, <1>5 DEF InOrder, Turns, Opened
  <1>9. Stacked'
    <2>1. \A i \in DOMAIN db.stack : db.stack[i].name < counter
      BY DEF InOrder, Stacked, Old
    <2>2. \A i \in DOMAIN db.stack : \A s \in db.stack[i].rows : under'[s] = under[s]
      BY <1>2, <1>7, Numbers DEF InOrder, Stacked
    <2> QED
      BY <1>1, <1>3, <1>6, <2>1, <2>2 DEF InOrder, Stacked, OnStack
  <1>10. \A m \in live : m < counter /\ m \notin abandoned
    BY DEF InOrder, Stacked, OnStack, Old, Clean
  <1>11. \A s \in db.rows : s # r /\ under'[s] = under[s]
    BY <1>2, <1>7 DEF Typed, TypeOK
  <1>12. Clean'
    <2>1. \A s \in db'.rows : \A a \in under'[s] : a < counter /\ a \notin abandoned
      BY <1>4, <1>6, <1>7, <1>10, <1>11 DEF InOrder, Clean, Old
    <2>2. \A a \in abandoned : a < counter /\ a \notin live
      BY DEF InOrder, Clean, Old
    <2> QED
      BY <1>1, <1>3, <1>5, <2>1, <2>2 DEF Clean
  <1> QED
    BY <1>3, <1>8, <1>9, <1>12 DEF InOrder

LEMMA InOrderOpens ==
  ASSUME Typed, InOrder, NEW t \in Tasks, Run(t), op[t].kind = "savepoint"
  PROVE  InOrder'
  <1> DEFINE x == op[t].arg
             k == Len(db.stack)
  <1>1. /\ op[t].todo = <<>> /\ Busy(t) /\ db' = Effect(db, "savepoint", x)
        /\ Finish(t, "savepoint") /\ live' = live \cup {x}
        /\ UNCHANGED <<mode, durable, counter, pending, parent, abandoned, under>>
    BY DEF Run, Busy
  <1>2. x \in Names /\ x \in Nat /\ x < counter
    BY Numbers DEF Typed, Argued, InOrder, Turns, Turn
  <1>3. parent[x] \in live \cup {Root}
    BY <1>2, Numbers DEF InOrder, Turns, Turn
  <1>4. \A a : Old(a) => a < x /\ a < counter
    BY DEF Old
  <1>5. /\ phase = "open" /\ phase' \in {"open", "rolledBack"}
        /\ \A u \in Tasks : Turn(u)'
        /\ Queued'
        /\ \A a : Old(a)' <=> a < counter
    BY <1>1, Over DEF Finish
  <1>6. phase' = "open" /\ durable = {}
    BY <1>1, <1>5 DEF Finish, InOrder, Turns
  <1>7. \A s \in db.rows : under[s] \cap abandoned = {}
    BY <1>1, Flushed
  <1>8. /\ k \in Nat /\ DOMAIN db.stack = 1 .. k /\ DOMAIN db'.stack = 1 .. k + 1
        /\ \A i \in 1 .. k : db'.stack[i] = db.stack[i]
        /\ db'.stack[k + 1].name = x /\ db'.stack[k + 1].rows = db.rows
        /\ db'.rows = db.rows
    BY <1>1, <1>2, SavepointIs, Numbers
  <1>9. \A m \in live : m \in Nat /\ m < x
    BY <1>4, Numbers DEF InOrder, Stacked, OnStack
  <1> HIDE DEF x, k
  <1>10. Opened'
    <2>1. parent[x] < x
      BY <1>2, <1>3, <1>9 DEF Root
    <2> QED
      BY <1>1, <1>3, <2>1 DEF InOrder, Opened
  <1>11. /\ \A i, j \in 1 .. k : i < j =>
              /\ db.stack[i].name < db.stack[j].name
              /\ db.stack[i].rows \subseteq db.stack[j].rows
         /\ \A i \in 1 .. k :
              /\ db.stack[i].name < x /\ db.stack[i].name < counter
              /\ db.stack[i].rows \subseteq db.rows
              /\ \A r \in db.stack[i].rows : \A a \in under[r] : a < db.stack[i].name
    BY <1>4, <1>8 DEF InOrder, Stacked
  <1>12. \A i \in 1 .. k + 1 : i \in 1 .. k \/ i = k + 1
    BY <1>8
  <1>13. Stacked'
    <2>1. \A i, j \in DOMAIN db'.stack : i < j =>
              /\ db'.stack[i].name < db'.stack[j].name
              /\ db'.stack[i].rows \subseteq db'.stack[j].rows
      <3> SUFFICES ASSUME NEW i \in 1 .. k + 1, NEW j \in 1 .. k + 1, i < j
                   PROVE  /\ db'.stack[i].name < db'.stack[j].name
                          /\ db'.stack[i].rows \subseteq db'.stack[j].rows
        BY <1>8
      <3>1. i \in 1 .. k
        BY <1>8
      <3> QED
        BY <1>8, <1>11, <1>12, <3>1
    <2>2. \A r \in db.rows : \A a \in under[r] : a < x
      BY <1>4 DEF InOrder, Clean
    <2>3. \A i \in DOMAIN db'.stack :
              /\ db'.stack[i].name < counter
              /\ db'.stack[i].rows \subseteq db'.rows
              /\ \A r \in db'.stack[i].rows : \A a \in under[r] : a < db'.stack[i].name
      BY <1>2, <1>8, <1>11, <1>12, <2>2
    <2>4. live' \subseteq OnStack(db')
      <3>1. ASSUME NEW m \in live PROVE m \in OnStack(db')
        <4>1. PICK i \in 1 .. k : db.stack[i].name = m
          BY <1>8 DEF InOrder, Stacked, OnStack
        <4>2. i \in 1 .. k + 1
          BY <1>8
        <4> QED
          BY <1>8, <4>1, <4>2 DEF OnStack
      <3>2. x \in OnStack(db')
        <4>1. k + 1 \in 1 .. k + 1
          BY <1>8
        <4> QED
          BY <1>8, <4>1 DEF OnStack
      <3> QED
        BY <1>1, <3>1, <3>2
    <2> QED
      BY <1>1, <1>5, <2>1, <2>3, <2>4 DEF Stacked
  <1>14. Clean'
    <2>1. \A a \in abandoned : a < counter /\ a \notin live'
      BY <1>1, <1>2, <1>4 DEF InOrder, Clean
    <2>2. \A s \in db.rows : \A a \in under[s] : a < counter /\ a \notin abandoned
      BY <1>4, <1>7 DEF InOrder, Clean
    <2> QED
      BY <1>1, <1>5, <1>6, <1>8, <2>1, <2>2 DEF Clean
  <1>15. Turns'
    BY <1>1, <1>5, <1>6 DEF Turns
  <1> QED
    BY <1>5, <1>10, <1>13, <1>14, <1>15 DEF InOrder

\* What release and rollback leave of the stack.
LEMMA StackCut ==
  ASSUME Typed, Stacked, NEW k \in Nat, k <= Len(db.stack), DOMAIN db'.stack = 1 .. k,
         \A i \in 1 .. k : db'.stack[i] = db.stack[i],
         \A i \in 1 .. k : db.stack[i].rows \subseteq db'.rows,
         live' \subseteq OnStack(db'), under' = under, counter' = counter,
         \A a : Old(a)' <=> a < counter
  PROVE  Stacked'
  <1>1. \A i \in 1 .. k : i \in DOMAIN db.stack
    BY Numbers
  <1>2. \A i \in 1 .. k : Old(db.stack[i].name)'
    BY <1>1 DEF Stacked, Old
  <1>3. \A i, j \in 1 .. k : i < j =>
          /\ db'.stack[i].name < db'.stack[j].name
          /\ db'.stack[i].rows \subseteq db'.stack[j].rows
    BY <1>1 DEF Stacked
  <1>4. \A i \in 1 .. k : \A r \in db'.stack[i].rows : \A a \in under[r] : a < db'.stack[i].name
    BY <1>1 DEF Stacked
  <1> QED
    BY <1>2, <1>3, <1>4 DEF Stacked

\* A handle older than x keeps its savepoint when the stack is cut at x.
LEMMA OlderStay ==
  ASSUME Typed, Stacked, NEW k \in 1 .. Len(db.stack), NEW m \in live,
         m < db.stack[k].name
  PROVE  \E i \in 1 .. k - 1 : db.stack[i].name = m
  <1>1. PICK i \in DOMAIN db.stack : db.stack[i].name = m
    BY DEF Stacked, OnStack
  <1>2. /\ k \in DOMAIN db.stack /\ k \in Nat /\ i \in Nat /\ 1 <= i
        /\ db.stack[i].name \in Nat /\ db.stack[k].name \in Nat
    BY Numbers
  <1>3. ~ (k <= i)
    <2> SUFFICES ASSUME k <= i PROVE FALSE
      OBVIOUS
    <2>1. k = i \/ k < i
      BY <1>2
    <2> QED
      BY <1>1, <1>2, <2>1 DEF Stacked
  <1>4. i \in 1 .. k - 1
    BY <1>2, <1>3
  <1> QED
    BY <1>1, <1>4

LEMMA InOrderReleases ==
  ASSUME Typed, InOrder, NEW t \in Tasks, Run(t), op[t].kind = "release"
  PROVE  InOrder'
  <1> DEFINE x == op[t].arg
             k == Depth(db, x)
  <1>1. /\ op[t].todo = <<>> /\ Busy(t) /\ x \in OnStack(db) /\ db' = Effect(db, "release", x)
        /\ Finish(t, "release")
        /\ UNCHANGED <<mode, durable, counter, pending, live, parent, abandoned, under>>
    BY DEF Run, Busy, Succeeds
  <1>2. \A m \in live : m < x
    BY DEF InOrder, Turns, Turn
  <1>3. /\ phase = "open" /\ (phase' = "open" \/ live = {})
        /\ \A u \in Tasks : Turn(u)'
        /\ Queued'
        /\ \A a : Old(a)' <=> a < counter
    BY <1>1, Over
  <1>4. \A s \in db.rows : under[s] \cap abandoned = {}
    BY <1>1, Flushed
  <1>5. durable = {}
    BY <1>3 DEF InOrder, Turns
  <1>6. /\ k \in 1 .. Len(db.stack) /\ DOMAIN db'.stack = 1 .. k - 1 /\ Len(db.stack) \in Nat
        /\ \A i \in 1 .. k - 1 : db'.stack[i] = db.stack[i]
        /\ db.stack[k].name = x /\ db'.rows = db.rows
    BY <1>1, ReleaseIs, Numbers
  <1> HIDE DEF x, k
  <1>7. live' \subseteq OnStack(db')
    BY <1>1, <1>2, <1>6, OlderStay DEF OnStack, InOrder
  <1>8. k - 1 \in Nat /\ k - 1 <= Len(db.stack) /\ \A i \in 1 .. k - 1 : i \in DOMAIN db.stack
    BY <1>6, Numbers
  <1>9. \A i \in 1 .. k - 1 : db.stack[i].rows \subseteq db'.rows
    BY <1>6, <1>8 DEF InOrder, Stacked
  <1>10. Stacked'
    BY <1>1, <1>3, <1>6, <1>7, <1>8, <1>9, StackCut DEF InOrder
  <1>11. Clean'
    BY <1>1, <1>3, <1>4, <1>5, <1>6 DEF InOrder, Clean, Old
  <1>12. Turns' /\ Opened'
    BY <1>1, <1>3, <1>5 DEF InOrder, Turns, Opened
  <1> QED
    BY <1>3, <1>10, <1>11, <1>12 DEF InOrder

LEMMA InOrderRollsBack ==
  ASSUME Typed, InOrder, NEW t \in Tasks, Run(t), op[t].kind = "rollback"
  PROVE  InOrder'
  <1> DEFINE x == op[t].arg
             k == Depth(db, x)
  <1>1. /\ op[t].todo = <<>> /\ Busy(t) /\ x \in OnStack(db) /\ db' = Effect(db, "rollback", x)
        /\ Finish(t, "rollback") /\ abandoned' = abandoned \cup {x}
        /\ UNCHANGED <<mode, durable, counter, pending, live, parent, under>>
    BY DEF Run, Busy, Succeeds
  <1>2. \A m \in live : m < x /\ m \in Nat
    BY Numbers DEF InOrder, Turns, Turn
  <1>3. /\ phase = "open" /\ (phase' = "open" \/ live = {})
        /\ \A u \in Tasks : Turn(u)'
        /\ Queued'
        /\ \A a : Old(a)' <=> a < counter
    BY <1>1, Over
  <1>4. \A s \in db.rows : under[s] \cap abandoned = {}
    BY <1>1, Flushed
  <1>5. durable = {}
    BY <1>3 DEF InOrder, Turns
  <1>6. /\ k \in 1 .. Len(db.stack) /\ DOMAIN db'.stack = 1 .. k /\ Len(db.stack) \in Nat
        /\ \A i \in 1 .. k : db'.stack[i] = db.stack[i]
        /\ db.stack[k].name = x /\ db'.rows = db.stack[k].rows
    BY <1>1, RollbackIs, Numbers
  <1> HIDE DEF x, k
  <1>7. live' \subseteq OnStack(db')
    <2>1. \A m \in live : \E i \in 1 .. k - 1 : db.stack[i].name = m
      BY <1>2, <1>6, OlderStay DEF InOrder
    <2>2. \A i \in 1 .. k - 1 : i \in 1 .. k
      BY <1>6
    <2> QED
      BY <1>1, <1>6, <2>1, <2>2 DEF OnStack
  <1>8. /\ k \in Nat /\ k <= Len(db.stack) /\ k \in DOMAIN db.stack
        /\ \A i \in 1 .. k : i \in DOMAIN db.stack /\ (i = k \/ i < k)
    BY <1>6, Numbers
  <1>9. \A i \in 1 .. k : db.stack[i].rows \subseteq db'.rows
    BY <1>6, <1>8 DEF InOrder, Stacked
  <1>10. Stacked'
    BY <1>1, <1>3, <1>6, <1>7, <1>8, <1>9, StackCut DEF InOrder
  <1>11. db'.rows \subseteq db.rows /\ x < counter /\ x \in Nat
    BY <1>6, <1>8, Numbers DEF InOrder, Stacked, Old
  <1>12. \A s \in db'.rows : \A a \in under[s] : a < counter /\ a \notin abandoned'
    <2> SUFFICES ASSUME NEW s \in db'.rows, NEW a \in under[s]
                 PROVE  a < counter /\ a \notin abandoned'
      OBVIOUS
    <2>1. s \in db.rows /\ s \in Rows
      BY <1>11 DEF Typed, TypeOK
    <2>2. a < counter /\ a \notin abandoned
      BY <1>4, <2>1 DEF InOrder, Clean, Old
    <2>3. a < x /\ a \in Nat
      BY <1>6, <1>8, <2>1, Numbers DEF InOrder, Stacked
    <2> QED
      BY <1>1, <1>11, <2>2, <2>3
  <1>13. \A a \in abandoned' : a < counter /\ a \notin live
    BY <1>1, <1>2, <1>11 DEF InOrder, Clean, Old
  <1>14. Clean'
    BY <1>1, <1>3, <1>5, <1>12, <1>13 DEF Clean
  <1>15. Turns' /\ Opened'
    BY <1>1, <1>3, <1>5 DEF InOrder, Turns, Opened
  <1> QED
    BY <1>3, <1>10, <1>14, <1>15 DEF InOrder

LEMMA NextInOrder ==
  ASSUME Typed, ~ astray => InOrder, [Next]_vars
  PROVE  (~ astray => InOrder)'
  <1>1. astray => astray'
    BY DEF vars, Next, Step, CallWrite, CallSavepoint, CallClose, CallEnd, Flush, Run, RunFails,
           RunCommit, RunAbort, Cancel, DropHandle, DropTx, Stray
  <1> SUFFICES ASSUME ~ astray', InOrder PROVE InOrder'
    BY <1>1
  <1>2. CASE UNCHANGED vars
    <2>1. Turns' /\ Opened'
      BY <1>2 DEF vars, InOrder, Turns, Turn, Opened, Busy
    <2>2. Stacked'
      BY <1>2 DEF vars, InOrder, Stacked, Old, OnStack
    <2>3. Queue' = Queue
      BY <1>2 DEF vars, Queue, Busy, User
    <2>4. Queued' /\ Clean'
      BY <1>2, <2>3 DEF vars, InOrder, Queued, Clean, Old, OnStack, Busy
    <2> QED
      BY <2>1, <2>2, <2>4 DEF InOrder
  <1>3. ASSUME NEW t \in Tasks, Flush(t) PROVE InOrder'
    <2>1. op[t].todo # <<>> /\ Busy(t)
      BY <1>3 DEF Flush, InOrder, Turns, Turn
    <2>2. CASE Head(op[t].todo) \in OnStack(db)
      BY <1>3, <2>1, <2>2, InOrderFlushes DEF Flush, Succeeds
    <2>3. CASE Head(op[t].todo) \notin OnStack(db)
      BY <1>3, <2>1, <2>3, FailedIs, InOrderEnds DEF Flush, Succeeds
    <2> QED
      BY <2>2, <2>3
  <1>4. ASSUME NEW t \in Tasks, Run(t) PROVE InOrder'
    BY <1>4, InOrderWrites, InOrderOpens, InOrderReleases, InOrderRollsBack DEF Run
  <1>5. ASSUME NEW t \in Tasks, RunFails(t) PROVE InOrder'
    BY <1>5, FailedIs, InOrderEnds DEF RunFails, Busy
  <1>6. ASSUME NEW t \in Tasks, RunAbort(t) PROVE InOrder'
    BY <1>6, InOrderEnds DEF RunAbort, Busy
  <1>7. ASSUME NEW t \in Tasks, Cancel(t) PROVE InOrder'
    BY <1>7 DEF Cancel, Stray
  <1>8. CASE DropTx
    <2>1. /\ phase' = "rolledBack" /\ live = {} /\ \A t \in Tasks : ~ Busy(t)
          /\ UNCHANGED <<mode, db, durable, counter, pending, live, parent, op, abandoned, under>>
      BY <1>8 DEF DropTx
    <2>2. Turns' /\ Opened'
      BY <2>1 DEF InOrder, Turns, Turn, Opened, Busy
    <2>3. Stacked'
      BY <2>1 DEF InOrder, Stacked, Old, OnStack
    <2>4. Queue' = Queue
      BY <2>1 DEF Queue, Busy
    <2>5. Queued' /\ Clean'
      BY <2>1, <2>4 DEF InOrder, Queued, Clean, Old, OnStack, Busy
    <2> QED
      BY <2>2, <2>3, <2>5 DEF InOrder
  <1> QED
    BY <1>2, <1>3, <1>4, <1>5, <1>6, <1>7, <1>8, InOrderCalls, InOrderDrops, InOrderCommits
       DEF Next, Step

LEMMA InitInOrder == Init => InOrder
  <1> SUFFICES ASSUME Init PROVE InOrder
    OBVIOUS
  <1>1. /\ \A t \in Tasks : op[t].kind = "idle" /\ op[t].todo = <<>>
        /\ db.rows = {} /\ db.stack = <<>> /\ live = {} /\ phase = "open" /\ durable = {}
        /\ pending = <<>> /\ abandoned = {}
    BY DEF Init, Idle
  <1>2. Queue = Reverse(<<>>)
    BY <1>1 DEF Queue, Busy
  <1>3. Queue \in Seq(Names) /\ DOMAIN Queue = {} /\ DOMAIN db.stack = {}
    BY <1>1, <1>2, ReverseEmpty
  <1>4. Turns /\ Opened
    BY <1>1 DEF Turns, Turn, Busy, Opened
  <1>5. Stacked /\ Queued /\ Clean
    BY <1>1, <1>3 DEF Stacked, Queued, Clean, OnStack
  <1> QED
    BY <1>4, <1>5 DEF InOrder

\* As long as calls follow each other to their end and handles end youngest
\* first, whichever tasks call and however handles were opened, a transaction
\* keeps every live handle's savepoint, above the one it was opened through, and
\* commits no row written under a savepoint that was dropped, or rolled back with
\* success; astray or not, it is well typed and its savepoints have distinct
\* names (tx.rs:142-151, 321-346, 527-536).
THEOREM HandlesHold == Spec => []SavepointsHold
  <1> DEFINE I == Typed /\ Named /\ (~ astray => InOrder)
  <1>1. Init => I
    <2>1. Init => Named
      BY DEF Init, Named, Idle
    <2> QED
      BY <2>1, InitTyped, InitInOrder
  <1>2. I /\ [Next]_vars => I'
    BY NextTyped, NextNamed, NextInOrder
  <1>3. I => SavepointsHold
    <2> SUFFICES ASSUME Typed, Named, ~ astray => InOrder PROVE SavepointsHold
      OBVIOUS
    <2>1. TypeOK /\ DistinctNames
      BY DEF Typed, Named, DistinctNames
    <2>2. ASSUME ~ astray, NEW n \in live, parent[n] # Root
          PROVE  Depth(db, parent[n]) < Depth(db, n)
      <3>1. /\ parent[n] \in live /\ parent[n] < n /\ parent[n] \in Nat /\ n \in Nat
            /\ live \subseteq OnStack(db)
        BY <2>2, Numbers DEF InOrder, Opened, Stacked
      <3> DEFINE i == Depth(db, parent[n])
                 j == Depth(db, n)
      <3>2. /\ i \in 1 .. Len(db.stack) /\ db.stack[i].name = parent[n]
            /\ j \in 1 .. Len(db.stack) /\ db.stack[j].name = n
        BY <3>1, DepthIs, Numbers
      <3> HIDE DEF i, j
      <3>3. /\ DOMAIN db.stack = 1 .. Len(db.stack) /\ Len(db.stack) \in Nat
            /\ (j < i => db.stack[j].name < db.stack[i].name)
        BY <2>2, <3>2, Numbers DEF InOrder, Stacked
      <3>4. i < j
        BY <3>1, <3>2, <3>3
      <3> QED
        BY <3>4 DEF i, j
    <2>3. LiveOnStack
      BY <2>1, <2>2 DEF LiveOnStack, InOrder, Stacked
    <2>4. AbandonedNotCommitted
      BY DEF AbandonedNotCommitted, InOrder, Clean
    <2> QED
      BY <2>3, <2>4 DEF SavepointsHold
  <1> QED
    BY <1>1, <1>2, <1>3, PTL DEF Spec
-----------------------------------------------------------------------------
(* The points of a transaction, in the order of their numbers.             *)

\* A set of numbers that is not empty has a least one.
LEMMA SmallestNumber ==
  ASSUME NEW S, S \subseteq Nat, S # {}
  PROVE  \E m \in S : \A l \in S : m <= l
  <1> DEFINE R == OpToRel(<, Nat)
  <1>1. \A x, y \in Nat : <<x, y>> \in R <=> x < y
    BY DEF OpToRel
  <1>2. IsWellFoundedOn(R, Nat)
    BY NatLessThanWellFounded
  <1> HIDE DEF R
  <1>3. PICK m \in S : \A l \in S : ~(<<l, m>> \in R)
    BY <1>2, WFMin
  <1>4. \A l \in S : l \in Nat /\ m \in Nat /\ ~(l < m)
    BY <1>1, <1>3
  <1> QED
    BY <1>4

LEMMA FiniteNames ==
  ASSUME NEW S, S \subseteq Names
  PROVE  IsFiniteSet(S) /\ Cardinality(S) \in Nat
  <1>1. IsFiniteSet(Names)
    BY FS_Interval, TxAssumption DEF Names
  <1>2. S \in SUBSET Names
    OBVIOUS
  <1>3. IsFiniteSet(S)
    BY <1>1, <1>2, FS_Subset
  <1> QED
    BY <1>3, FS_CardinalityType

\* A set of names that is not empty has a greatest one.
LEMMA LargestName ==
  ASSUME NEW S, S \subseteq Names, S # {}
  PROVE  \E x \in S : \A m \in S : m <= x
  <1> DEFINE B == {b \in Nat : \A m \in S : m <= b}
  <1>1. \A m \in S : m \in Nat /\ m <= MaxSavepoints
    BY TxAssumption DEF Names
  <1>2. MaxSavepoints \in B
    BY <1>1, TxAssumption
  <1>3. PICK b \in B : \A l \in B : b <= l
    BY <1>2, SmallestNumber
  <1>4. b \in Nat /\ \A m \in S : m <= b
    BY <1>3
  <1>5. b \in S
    <2> SUFFICES ASSUME b \notin S PROVE FALSE
      OBVIOUS
    <2>1. \A m \in S : m <= b - 1 /\ b - 1 \in Nat
      BY <1>1, <1>4
    <2>2. b - 1 \in B
      BY <2>1
    <2> QED
      BY <1>3, <1>4, <2>2
  <1> QED
    BY <1>4, <1>5

\* A greater number comes last, and leaves the ranks of the others.
LEMMA RankedMore ==
  ASSUME NEW S, NEW x \in Names, S \subseteq Names, \A m \in S : m < x
  PROVE  /\ Cardinality(S \cup {x}) = Cardinality(S) + 1
         /\ \A i \in 1 .. Cardinality(S) : Ranked(S \cup {x}, i) = Ranked(S, i)
         /\ Ranked(S \cup {x}, Cardinality(S) + 1) = {x}
  <1> DEFINE U == S \cup {x}
             c == Cardinality(S)
             Below(n) == {m \in S : m < n}
  <1>1. /\ IsFiniteSet(S) /\ c \in Nat /\ x \notin S
        /\ \A m \in U : m \in Nat
    <2>1. \A m \in U : m \in Nat
      BY TxAssumption DEF Names
    <2> QED
      BY <2>1, FiniteNames
  <1>2. Cardinality(U) = c + 1
    BY <1>1, FS_AddElement
  <1>3. {m \in U : m < x} = S
    BY <1>1
  <1>4. \A n \in S : {m \in U : m < n} = Below(n)
    BY <1>1
  <1>5. ASSUME NEW n \in S
        PROVE  Cardinality(Below(n)) \in Nat /\ Cardinality(Below(n)) < c
    <2>1. Below(n) \in SUBSET S /\ n \notin Below(n)
      BY <1>1
    <2> HIDE DEF Below
    <2>2. Cardinality(Below(n)) <= c /\ (c = Cardinality(Below(n)) => S = Below(n))
      BY <1>1, <2>1, FS_Subset
    <2>3. Cardinality(Below(n)) \in Nat
      BY <2>1, FiniteNames
    <2> QED
      BY <1>1, <2>1, <2>2, <2>3
  <1> HIDE DEF c, Below
  <1>6. Ranked(U, c + 1) = {x}
    BY <1>1, <1>3, <1>4, <1>5 DEF Ranked, c
  <1>7. ASSUME NEW i \in 1 .. c PROVE Ranked(U, i) = Ranked(S, i)
    <2>1. ~(c = i - 1)
      BY <1>1
    <2>2. x \notin Ranked(U, i)
      BY <1>3, <2>1 DEF Ranked, c
    <2>3. \A n \in S : n \in Ranked(U, i) <=> n \in Ranked(S, i)
      BY <1>4 DEF Ranked, Below
    <2>4. Ranked(U, i) \subseteq U /\ Ranked(S, i) \subseteq S
      BY DEF Ranked
    <2> QED
      BY <2>2, <2>3, <2>4
  <1> QED
    BY <1>2, <1>6, <1>7 DEF c

\* Every rank is taken.
LEMMA NthIs ==
  ASSUME NEW S, S \subseteq Names, NEW i \in 1 .. Cardinality(S)
  PROVE  Nth(S, i) \in S
  <1> DEFINE Full(T) == \A j \in 1 .. Cardinality(T) : Ranked(T, j) # {}
             Bad == {c \in Nat : \E T \in SUBSET Names : Cardinality(T) = c /\ ~Full(T)}
  <1>1. \A T \in SUBSET Names : Full(T)
    <2> SUFFICES ASSUME NEW U \in SUBSET Names, ~Full(U) PROVE FALSE
      OBVIOUS
    <2>1. Cardinality(U) \in Bad
      BY FiniteNames
    <2>2. PICK c \in Bad : \A l \in Bad : c <= l
      BY <2>1, SmallestNumber
    <2>3. PICK T \in SUBSET Names : Cardinality(T) = c /\ ~Full(T)
      BY <2>2
    <2>4. IsFiniteSet(T) /\ c \in Nat /\ T # {}
      <3>1. IsFiniteSet(T) /\ c \in Nat
        BY <2>3, FiniteNames
      <3>2. 1 .. 0 = {}
        OBVIOUS
      <3>3. T # {}
        BY <2>3, <3>2, FS_EmptySet
      <3> QED
        BY <3>1, <3>3
    <2>5. PICK x \in T : \A m \in T : m <= x
      BY <2>4, LargestName
    <2> DEFINE W == T \ {x}
    <2>6. /\ W \subseteq Names /\ W \cup {x} = T /\ x \in Names /\ x \notin W
          /\ \A m \in W : m < x
      <3>1. \A m \in T : m \in Nat
        BY TxAssumption DEF Names
      <3> QED
        BY <2>5, <3>1
    <2>7. Cardinality(W) = c - 1 /\ Cardinality(W) \in Nat
      BY <2>3, <2>4, <2>5, <2>6, FiniteNames, FS_RemoveElement
    <2> HIDE DEF Bad, W
    <2>8. W \in SUBSET Names /\ Full(W)
      <3>1. Cardinality(W) \notin Bad
        BY <2>2, <2>4, <2>7
      <3> QED
        BY <2>6, <2>7, <3>1 DEF Bad
    <2>9. /\ \A j \in 1 .. c - 1 : Ranked(T, j) = Ranked(W, j)
          /\ Ranked(T, c) = {x}
      BY <2>4, <2>6, <2>7, RankedMore
    <2>10. \A j \in 1 .. c : j = c \/ j \in 1 .. c - 1
      BY <2>4
    <2> QED
      BY <2>3, <2>7, <2>8, <2>9, <2>10
  <1>2. Ranked(S, i) # {} /\ Ranked(S, i) \subseteq S
    BY <1>1 DEF Ranked
  <1> QED
    BY <1>2 DEF Nth

-----------------------------------------------------------------------------
(* What the points restore.                                                *)

Distinct(d) == \A i, j \in DOMAIN d.stack : d.stack[i].name = d.stack[j].name => i = j

LEMMA SnapshotIs ==
  ASSUME NEW d \in DbType, Distinct(d), NEW i \in DOMAIN d.stack
  PROVE  /\ d.stack[i].name \in OnStack(d)
         /\ Snapshot(d, d.stack[i].name) = d.stack[i].rows
  <1>1. d.stack[i].name \in OnStack(d)
    BY DEF OnStack
  <1>2. /\ Depth(d, d.stack[i].name) \in DOMAIN d.stack
        /\ d.stack[Depth(d, d.stack[i].name)].name = d.stack[i].name
    BY <1>1, DepthIs, OnStackIs
  <1>3. Depth(d, d.stack[i].name) = i
    BY <1>2 DEF Distinct
  <1> QED
    BY <1>1, <1>3 DEF Snapshot

\* Two stacks that agree on x restore the same rows for it.
LEMMA SnapshotKept ==
  ASSUME NEW d \in DbType, NEW e \in DbType, Distinct(d), Distinct(e),
         NEW i \in DOMAIN d.stack, i \in DOMAIN e.stack, e.stack[i] = d.stack[i]
  PROVE  /\ d.stack[i].name \in OnStack(e)
         /\ Snapshot(e, d.stack[i].name) = Snapshot(d, d.stack[i].name)
  <1>1. Snapshot(d, d.stack[i].name) = d.stack[i].rows
    BY SnapshotIs
  <1>2. /\ e.stack[i].name \in OnStack(e)
        /\ Snapshot(e, e.stack[i].name) = e.stack[i].rows
    BY SnapshotIs
  <1> QED
    BY <1>1, <1>2

\* The rows that the points S restore, in the order of their numbers.
Snaps(d, S) == [i \in 1 .. Cardinality(S) |-> Snapshot(d, Nth(S, i))]

LEMMA SnapsKept ==
  ASSUME NEW d, NEW e, NEW S, S \subseteq Names, \A n \in S : Snapshot(e, n) = Snapshot(d, n)
  PROVE  Snaps(e, S) = Snaps(d, S)
  <1>1. \A i \in 1 .. Cardinality(S) : Snapshot(e, Nth(S, i)) = Snapshot(d, Nth(S, i))
    BY NthIs
  <1> QED
    BY <1>1 DEF Snaps

LEMMA SnapsNone == ASSUME NEW d PROVE Snaps(d, {}) = <<>>
  <1>1. Cardinality({}) = 0
    BY FS_EmptySet
  <1> QED
    BY <1>1 DEF Snaps

LEMMA ListIs ==
  ASSUME NEW n \in Nat, NEW f, f = [i \in 1 .. n |-> f[i]], NEW T, \A i \in 1 .. n : f[i] \in T
  PROVE  f \in Seq(T) /\ Len(f) = n /\ DOMAIN f = 1 .. n
  <1>1. f \in [1 .. n -> T]
    OBVIOUS
  <1> QED
    BY <1>1

LEMMA AppendIs ==
  ASSUME NEW T, NEW s \in Seq(T), NEW v \in T, NEW u \in Seq(T), Len(u) = Len(s) + 1,
         \A i \in 1 .. Len(s) : u[i] = s[i],
         u[Len(s) + 1] = v
  PROVE  /\ u = Append(s, v)
         /\ SubSeq(u, 1, Len(u) - 1) = s
  <1>1. /\ Append(s, v) \in Seq(T) /\ Len(Append(s, v)) = Len(s) + 1
        /\ Len(s) \in Nat
        /\ \A i \in 1 .. Len(s) : Append(s, v)[i] = s[i]
        /\ Append(s, v)[Len(s) + 1] = v
    OBVIOUS
  <1>2. \A i \in 1 .. Len(s) + 1 : i \in 1 .. Len(s) \/ i = Len(s) + 1
    BY <1>1
  <1>3. \A i \in 1 .. Len(s) + 1 : u[i] = Append(s, v)[i]
    BY <1>1, <1>2
  <1>4. u = Append(s, v)
    BY <1>1, <1>3
  <1>5. Len(s) \in 0 .. Len(u) /\ Len(u) - 1 = Len(s)
    BY <1>1
  <1>6. /\ SubSeq(u, 1, Len(s)) \in Seq(T) /\ Len(SubSeq(u, 1, Len(s))) = Len(s)
        /\ \A i \in 1 .. Len(s) : SubSeq(u, 1, Len(s))[i] = u[i]
    BY <1>5, PrefixIs
  <1>7. SubSeq(u, 1, Len(s)) = s
    BY <1>6
  <1> QED
    BY <1>4, <1>5, <1>7

\* A point with a greater number than the others comes last.
LEMMA SnapsGrow ==
  ASSUME NEW d, NEW S, NEW x \in Names, S \subseteq Names, \A m \in S : m < x
  PROVE  \E T : /\ Snaps(d, S) \in Seq(T) /\ Snaps(d, S \cup {x}) \in Seq(T)
                /\ Snapshot(d, x) \in T
                /\ Len(Snaps(d, S \cup {x})) = Len(Snaps(d, S)) + 1
                /\ \A i \in 1 .. Len(Snaps(d, S)) : Snaps(d, S \cup {x})[i] = Snaps(d, S)[i]
                /\ Snaps(d, S \cup {x})[Len(Snaps(d, S)) + 1] = Snapshot(d, x)
  <1> DEFINE U == S \cup {x}
             s == Snaps(d, S)
             u == Snaps(d, U)
             c == Cardinality(S)
             T == {Snapshot(d, n) : n \in Names}
  <1>1. c \in Nat /\ c + 1 \in Nat
    BY FiniteNames
  <1>2. /\ Cardinality(U) = c + 1
        /\ \A i \in 1 .. c : Ranked(U, i) = Ranked(S, i)
        /\ Ranked(U, c + 1) = {x}
    BY RankedMore
  <1>3. Nth(U, c + 1) = x /\ \A i \in 1 .. c : Nth(U, i) = Nth(S, i)
    BY <1>2 DEF Nth
  <1>4. U \subseteq Names
    OBVIOUS
  <1> HIDE DEF U
  <1>5. /\ \A i \in 1 .. c : Snapshot(d, Nth(S, i)) \in T
        /\ \A i \in 1 .. c + 1 : Snapshot(d, Nth(U, i)) \in T
    BY <1>2, <1>4, NthIs
  <1>6. /\ u = [i \in 1 .. c + 1 |-> u[i]] /\ \A i \in 1 .. c + 1 : u[i] = Snapshot(d, Nth(U, i))
        /\ s = [i \in 1 .. c |-> s[i]] /\ \A i \in 1 .. c : s[i] = Snapshot(d, Nth(S, i))
    BY <1>2 DEF Snaps
  <1> HIDE DEF c, s, u, T
  <1>7. s \in Seq(T) /\ Len(s) = c
    BY <1>1, <1>5, <1>6, ListIs
  <1>8. u \in Seq(T) /\ Len(u) = c + 1
    <2> DEFINE k == c + 1
    <2>1. /\ k \in Nat /\ u = [i \in 1 .. k |-> u[i]] /\ \A i \in 1 .. k : u[i] \in T
      BY <1>1, <1>5, <1>6
    <2> HIDE DEF k
    <2>2. u \in Seq(T) /\ Len(u) = k
      BY <2>1, ListIs
    <2> QED
      BY <2>2 DEF k
  <1>9. c + 1 \in 1 .. c + 1 /\ \A i \in 1 .. c : i \in 1 .. c + 1
    BY <1>1
  <1>10. u[c + 1] = Snapshot(d, x) /\ \A i \in 1 .. c : u[i] = s[i]
    BY <1>3, <1>6, <1>9
  <1>11. Snapshot(d, x) \in T
    BY DEF T
  <1>12. /\ s \in Seq(T) /\ u \in Seq(T) /\ Snapshot(d, x) \in T
         /\ Len(u) = Len(s) + 1
         /\ \A i \in 1 .. Len(s) : u[i] = s[i]
         /\ u[Len(s) + 1] = Snapshot(d, x)
    BY <1>7, <1>8, <1>10, <1>11
  <1> QED
    BY <1>12 DEF s, u, U

LEMMA SnapsAppend ==
  ASSUME NEW d, NEW S, NEW x \in Names, S \subseteq Names, \A m \in S : m < x
  PROVE  Snaps(d, S \cup {x}) = Append(Snaps(d, S), Snapshot(d, x))
  <1> DEFINE s == Snaps(d, S)
             u == Snaps(d, S \cup {x})
             v == Snapshot(d, x)
  <1>1. PICK T : /\ s \in Seq(T) /\ u \in Seq(T) /\ v \in T
                 /\ Len(u) = Len(s) + 1
                 /\ \A i \in 1 .. Len(s) : u[i] = s[i]
                 /\ u[Len(s) + 1] = v
    BY SnapsGrow
  <1> HIDE DEF s, u, v
  <1>2. u = Append(s, v)
    BY <1>1, AppendIs
  <1> QED
    BY <1>2 DEF s, u, v

\* Without it the others are left.
LEMMA SnapsFront ==
  ASSUME NEW d, NEW S, NEW x \in Names, S \subseteq Names, \A m \in S : m < x,
         NEW u, u = Snaps(d, S \cup {x})
  PROVE  /\ u # <<>> /\ u[Len(u)] = Snapshot(d, x)
         /\ SubSeq(u, 1, Len(u) - 1) = Snaps(d, S)
  <1> DEFINE s == Snaps(d, S)
  <1>1. PICK T : /\ s \in Seq(T) /\ u \in Seq(T) /\ Snapshot(d, x) \in T
                 /\ Len(u) = Len(s) + 1
                 /\ \A i \in 1 .. Len(s) : u[i] = s[i]
                 /\ u[Len(s) + 1] = Snapshot(d, x)
    BY SnapsGrow
  <1> HIDE DEF s
  <1>2. SubSeq(u, 1, Len(u) - 1) = s
    BY <1>1, AppendIs
  <1>3. u # <<>> /\ u[Len(u)] = Snapshot(d, x)
    BY <1>1
  <1> QED
    BY <1>2, <1>3 DEF s

-----------------------------------------------------------------------------
(* What NestedTx sees.                                                     *)

\* The flush has nothing left that it can roll back to.
Settled == Queue = <<>> \/ Queue[1] \notin OnStack(db)

\* The names that will be rolled back to are those of the queue, on the stack.
LEMMA UnflushedIs ==
  Typed /\ InOrder
    => Unflushed = {Queue[i] : i \in DOMAIN Queue} \cap OnStack(db)
  <1> SUFFICES ASSUME Typed, InOrder
               PROVE  Unflushed = {Queue[i] : i \in DOMAIN Queue} \cap OnStack(db)
    OBVIOUS
  <1>1. \A t \in Tasks : op[t].todo # <<>> => Busy(t) /\ t = User /\ pending = <<>>
    BY TurnIs DEF InOrder, Turns, Turn
  <1>2. ToSet(<<>>) = {}
    BY DEF ToSet
  <1>3. CASE \E t \in Tasks : Busy(t)
    <2>1. User \in Tasks /\ pending = <<>> /\ Queue = op[User].todo
      BY <1>3, TurnIs DEF Queue
    <2>2. \A t \in Tasks : t # User => ToSet(op[t].todo) = {}
      BY <1>1, <1>2
    <2>3. UNION {ToSet(op[t].todo) : t \in Tasks} = ToSet(Queue)
      BY <2>1, <2>2
    <2> QED
      BY <1>2, <2>1, <2>3 DEF Unflushed, ToSet
  <1>4. CASE ~ \E t \in Tasks : Busy(t)
    <2>1. Queue = Reverse(pending) /\ pending \in Seq(Names)
      BY <1>4 DEF Queue, Typed, TypeOK
    <2>2. \A t \in Tasks : ToSet(op[t].todo) = {}
      BY <1>1, <1>2, <1>4
    <2> DEFINE k == Len(pending)
    <2>3. /\ DOMAIN Queue = 1 .. k /\ DOMAIN pending = 1 .. k /\ k \in Nat
          /\ \A i \in 1 .. k : Queue[i] = pending[k - i + 1]
      BY <2>1, ReverseIs
    <2> HIDE DEF k
    <2>4. \A i \in 1 .. k : k - i + 1 \in 1 .. k /\ Queue[k - i + 1] = pending[i]
      <3> SUFFICES ASSUME NEW i \in 1 .. k
                   PROVE  k - i + 1 \in 1 .. k /\ Queue[k - i + 1] = pending[i]
        OBVIOUS
      <3>1. k - i + 1 \in 1 .. k /\ k - (k - i + 1) + 1 = i
        BY <2>3
      <3> QED
        BY <2>3, <3>1
    <2>5. {Queue[i] : i \in DOMAIN Queue} = ToSet(pending)
      BY <2>3, <2>4 DEF ToSet
    <2> QED
      BY <2>2, <2>5 DEF Unflushed
  <1> QED
    BY <1>3, <1>4

LEMMA VisibleIs ==
  Typed /\ InOrder =>
    /\ Settled => VisibleRows = db.rows /\ BrokenNow = db.aborted
    /\ ~ Settled => VisibleRows = Snapshot(db, Queue[1]) /\ BrokenNow = FALSE
  <1> SUFFICES ASSUME Typed, InOrder
               PROVE  /\ Settled => VisibleRows = db.rows /\ BrokenNow = db.aborted
                      /\ ~ Settled => VisibleRows = Snapshot(db, Queue[1]) /\ BrokenNow = FALSE
    OBVIOUS
  <1>1. Unflushed = {Queue[i] : i \in DOMAIN Queue} \cap OnStack(db)
    BY UnflushedIs
  <1>2. /\ Queue \in Seq(Names) /\ db.aborted \in BOOLEAN
        /\ \A i, j \in DOMAIN Queue : i < j => Queue[i] < Queue[j]
        /\ \/ \A i \in DOMAIN Queue : Queue[i] \in OnStack(db)
           \/ \A i \in DOMAIN Queue : Queue[i] \notin OnStack(db)
    BY DEF InOrder, Queued, Typed, TypeOK
  <1>3. Queue # <<>> => 1 \in DOMAIN Queue
    BY <1>2
  <1>4. CASE Settled
    <2>1. Unflushed = {}
      BY <1>1, <1>2, <1>3, <1>4 DEF Settled
    <2> QED
      BY <1>2, <1>4, <2>1 DEF VisibleRows, BrokenNow
  <1>5. CASE ~ Settled
    <2>1. Queue # <<>> /\ Queue[1] \in OnStack(db)
      BY <1>5 DEF Settled
    <2>2. Queue[1] \in Unflushed
      BY <1>1, <1>3, <2>1
    <2>3. ASSUME NEW n \in Unflushed PROVE n \in Nat /\ Queue[1] \in Nat /\ Queue[1] <= n
      <3>1. PICK i \in DOMAIN Queue : Queue[i] = n
        BY <1>1
      <3>2. Queue[i] \in Nat /\ Queue[1] \in Nat /\ i \in Nat /\ 1 <= i
        BY <1>2, <1>3, <2>1, Numbers
      <3>3. i = 1 \/ Queue[1] < Queue[i]
        BY <1>2, <1>3, <2>1, <3>2
      <3> QED
        BY <3>1, <3>2, <3>3
    <2>4. /\ Least(Unflushed) \in Unflushed
          /\ \A m \in Unflushed : Least(Unflushed) <= m
      BY <2>2, <2>3 DEF Least
    <2>5. Least(Unflushed) = Queue[1]
      BY <2>2, <2>3, <2>4
    <2>6. Unflushed # {}
      BY <2>2
    <2> QED
      BY <1>5, <2>5, <2>6 DEF VisibleRows, BrokenNow
  <1> QED
    BY <1>4, <1>5

LEMMA VisibleNext ==
  (Typed /\ InOrder =>
     /\ Settled => VisibleRows = db.rows /\ BrokenNow = db.aborted
     /\ ~ Settled => VisibleRows = Snapshot(db, Queue[1]) /\ BrokenNow = FALSE)'
  BY VisibleIs, PTL

\* The savepoint that a call is closing is still there, and older than any name
\* the call has yet to flush.
Closing ==
  \A t \in Tasks : op[t].kind \in {"release", "rollback"} =>
     /\ op[t].arg \in OnStack(db)
     /\ \A i \in DOMAIN op[t].todo : op[t].arg < op[t].todo[i]

Orderly == Typed /\ Named /\ ~ astray /\ InOrder /\ Closing

LEMMA PointsLive ==
  ASSUME \A t \in Tasks : op[t].kind \notin {"release", "rollback"}
  PROVE  OpenPoints = live
  BY DEF OpenPoints

\* A call that closes a handle still counts as its savepoint.
LEMMA PointsClosing ==
  ASSUME Orderly, NEW t \in Tasks, op[t].kind \in {"release", "rollback"}
  PROVE  /\ OpenPoints = live \cup {op[t].arg}
         /\ op[t].arg \in Names /\ \A m \in live : m < op[t].arg
  <1>1. \A u \in Tasks : op[u].kind \in {"release", "rollback"} => u = t
    BY DEF Orderly, InOrder, Turns, Turn, Busy
  <1>2. {u \in Tasks : op[u].kind \in {"release", "rollback"}} = {t}
    BY <1>1
  <1>3. op[t].arg \in Names /\ \A m \in live : m < op[t].arg
    BY DEF Orderly, InOrder, Turns, Turn, Typed, Argued
  <1> QED
    BY <1>2, <1>3 DEF OpenPoints

LEMMA PointsAre ==
  ASSUME Orderly
  PROVE  /\ OpenPoints \subseteq Names /\ OpenPoints \subseteq OnStack(db)
         /\ \A n \in OpenPoints : \A i \in DOMAIN Queue : n < Queue[i]
  <1>1. /\ live \subseteq Names /\ live \subseteq OnStack(db)
        /\ \A n \in live : \A i \in DOMAIN Queue : n < Queue[i]
    BY DEF Orderly, InOrder, Stacked, Queued, Typed, TypeOK
  <1>2. CASE \A t \in Tasks : op[t].kind \notin {"release", "rollback"}
    BY <1>1, <1>2, PointsLive
  <1>3. ASSUME NEW t \in Tasks, op[t].kind \in {"release", "rollback"}
        PROVE  /\ OpenPoints \subseteq Names /\ OpenPoints \subseteq OnStack(db)
               /\ \A n \in OpenPoints : \A i \in DOMAIN Queue : n < Queue[i]
    <2>1. Busy(t) /\ t = User
      BY <1>3, TurnIs DEF Orderly, Busy
    <2>2. Queue = op[t].todo
      BY <2>1 DEF Queue
    <2>3. /\ op[t].arg \in OnStack(db) /\ op[t].arg \in Names
          /\ \A i \in DOMAIN Queue : op[t].arg < Queue[i]
      BY <1>3, <2>2, PointsClosing DEF Orderly, Closing
    <2> QED
      BY <1>1, <1>3, <2>3, PointsClosing
  <1> QED
    BY <1>2, <1>3

\* What NestedTx sees stays as it is.
Unseen == UNCHANGED <<VisibleRows, RestorePoints, BrokenNow, outcome, phase, durable>>

\* A call begins: its task takes over the pending list, and closes what it held.
LEMMA CallUnseen ==
  ASSUME Orderly, ~ astray', Typed', InOrder', NEW t \in Tasks,
         NEW kind \in Statements \cup {"commit", "abort"}, NEW x \in Rows \cup Names \cup {Root},
         kind = "write" => x \in Rows,
         kind \in {"savepoint", "release", "rollback"} => x \in Names,
         Enter(t, kind, x), Stray(Overlap) \/ ~ Overlap,
         UNCHANGED <<mode, db, durable, under, abandoned, phase, outcome>>,
         IF kind \in {"release", "rollback"}
           THEN x \in live /\ live' = live \ {x} ELSE live' = live,
         \/ kind # "savepoint" /\ counter' = counter
         \/ x = counter /\ counter' = counter + 1
  PROVE  Closing' /\ Unseen
  <1>1. /\ User' = t /\ \A u \in Tasks \ {t} : ~Busy(u)'
        /\ Busy(t)' /\ Queue' = Queue
    BY Begins DEF Orderly
  <1>2. op'[t].kind = kind /\ op'[t].arg = x
    BY Entered DEF Orderly
  <1>3. Queue' = op'[t].todo
    BY <1>1 DEF Queue
  <1>4. \A u \in Tasks : ~ Busy(u)
    BY Begins DEF Orderly
  <1>5. Closing'
    <2>1. ASSUME kind \in {"release", "rollback"}
          PROVE  x \in OnStack(db) /\ \A i \in DOMAIN Queue : x < Queue[i]
      BY <2>1 DEF Orderly, InOrder, Stacked, Queued
    <2>2. \A u \in Tasks : op'[u].kind \in {"release", "rollback"} => u = t
      BY <1>1 DEF Busy
    <2>3. \A i \in DOMAIN op'[t].todo : i \in DOMAIN Queue /\ op'[t].todo[i] = Queue[i]
      BY <1>1, <1>3
    <2> QED
      BY <1>2, <2>1, <2>2, <2>3 DEF Closing
  <1>6. OpenPoints = live
    BY <1>4, PointsLive DEF Busy
  <1>7. OpenPoints' = live
    <2>1. CASE kind \in {"release", "rollback"}
      <3>1. {u \in Tasks : op'[u].kind \in {"release", "rollback"}} = {t}
        BY <1>1, <1>2, <2>1 DEF Busy
      <3> QED
        BY <1>2, <2>1, <3>1 DEF OpenPoints
    <2>2. CASE kind \notin {"release", "rollback"}
      <3>1. {u \in Tasks : op'[u].kind \in {"release", "rollback"}} = {}
        BY <1>1, <1>2, <2>2 DEF Busy
      <3> QED
        BY <2>2, <3>1 DEF OpenPoints
    <2> QED
      BY <2>1, <2>2
  <1>8. RestorePoints' = RestorePoints
    BY <1>6, <1>7 DEF RestorePoints
  <1>9. Settled' <=> Settled
    BY <1>1 DEF Settled
  <1>10. VisibleRows' = VisibleRows /\ BrokenNow' = BrokenNow
    <2>1. CASE Settled
      BY <1>9, <2>1, VisibleIs, VisibleNext DEF Orderly
    <2>2. CASE ~ Settled
      BY <1>1, <1>9, <2>2, VisibleIs, VisibleNext DEF Orderly
    <2> QED
      BY <2>1, <2>2
  <1> QED
    BY <1>5, <1>8, <1>10 DEF Unseen

\* One turn of the flush: the rows that it restores were those to be seen.
LEMMA FlushUnseen ==
  ASSUME Orderly, ~ astray', Typed', Named', InOrder', NEW t \in Tasks, Flush(t),
         Head(op[t].todo) \in OnStack(db)
  PROVE  Closing' /\ Unseen
  <1> DEFINE q == op[t].todo
             n == Head(q)
             k == Depth(db, n)
  <1>1. /\ q # <<>> /\ n \in OnStack(db)
        /\ db' = Effect(db, "rollback", n)
        /\ op' = [op EXCEPT ![t].todo = Tail(@)]
        /\ UNCHANGED <<mode, phase, outcome, durable, counter, pending, live, parent, abandoned, under>>
    BY DEF Flush, Succeeds
  <1>2. Busy(t)
    BY <1>1 DEF Orderly, InOrder, Turns, Turn
  <1>0. t = User
    BY <1>2, TurnIs DEF Orderly
  <1>3. q \in Seq(Names) /\ Queue = q /\ op[t] \in Calls
    BY <1>0, <1>2 DEF Orderly, Typed, TypeOK, Calls, Queue
  <1>4. op'[t] = [op[t] EXCEPT !.todo = Tail(q)] /\ \A u \in Tasks \ {t} : op'[u] = op[u]
    BY <1>1 DEF Orderly, Typed, TypeOK
  <1>5. /\ op'[t].todo = Tail(q)
        /\ \A u \in Tasks : op'[u].kind = op[u].kind /\ op'[u].arg = op[u].arg
    BY <1>3, <1>4 DEF Calls
  <1>19. \A u \in Tasks : Busy(u)' <=> Busy(u)
    BY <1>5 DEF Busy
  <1>20. User' = User
    BY <1>19 DEF User
  <1>6. Queue' = Tail(q)
    BY <1>0, <1>2, <1>5, <1>19, <1>20 DEF Queue
  <1>7. /\ n \in Names /\ n \in Nat /\ Tail(q) \in Seq(Names) /\ n = q[1] /\ 1 \in DOMAIN q
        /\ \A i \in DOMAIN Tail(q) : i + 1 \in DOMAIN q /\ Tail(q)[i] = q[i + 1] /\ 1 < i + 1
    <2>1. /\ n \in Names /\ Tail(q) \in Seq(Names) /\ n = q[1] /\ 1 \in DOMAIN q
          /\ \A i \in DOMAIN Tail(q) : i + 1 \in DOMAIN q /\ Tail(q)[i] = q[i + 1] /\ 1 < i + 1
      BY <1>1, <1>3
    <2> QED
      BY <2>1, Numbers DEF Orderly
  <1>8. /\ db \in DbType /\ db' \in DbType /\ k \in 1 .. Len(db.stack) /\ Len(db.stack) \in Nat
        /\ DOMAIN db.stack = 1 .. Len(db.stack) /\ DOMAIN db'.stack = 1 .. k
        /\ \A i \in 1 .. k : db'.stack[i] = db.stack[i]
        /\ db.stack[k].name = n /\ db'.rows = db.stack[k].rows
        /\ Distinct(db) /\ Distinct(db')
    BY <1>1, RollbackIs, Numbers DEF Orderly, Named, Distinct
  <1> HIDE DEF k
  <1>9. k \in DOMAIN db.stack /\ \A i \in 1 .. k : i \in DOMAIN db.stack /\ (i = k \/ i < k)
    BY <1>8
  <1>10. \A i, j \in DOMAIN db.stack : i < j => db.stack[i].name < db.stack[j].name
    BY DEF Orderly, InOrder, Stacked
  <1>11. \A i \in 1 .. k : db.stack[i].name <= n /\ db.stack[i].name \in Nat
    <2> SUFFICES ASSUME NEW i \in 1 .. k
                 PROVE  db.stack[i].name <= n /\ db.stack[i].name \in Nat
      OBVIOUS
    <2>1. db.stack[i].name \in Nat /\ i \in DOMAIN db.stack
      BY <1>9, Numbers DEF Orderly
    <2>2. i = k \/ db.stack[i].name < db.stack[k].name
      BY <1>9, <1>10
    <2> QED
      BY <1>7, <1>8, <2>1, <2>2
  <1>12. ASSUME NEW i \in DOMAIN Tail(q) PROVE Tail(q)[i] \notin OnStack(db')
    <2>1. n < Tail(q)[i] /\ Tail(q)[i] \in Nat
      <3>1. q[i + 1] \in Nat /\ q[i + 1] = Tail(q)[i] /\ i + 1 \in DOMAIN q /\ 1 < i + 1
        BY <1>3, <1>7, Numbers DEF Orderly
      <3> QED
        BY <1>3, <1>7, <3>1 DEF Orderly, InOrder, Queued
    <2> SUFFICES ASSUME Tail(q)[i] \in OnStack(db') PROVE FALSE
      OBVIOUS
    <2>2. PICK j \in 1 .. k : db.stack[j].name = Tail(q)[i]
      BY <1>8 DEF OnStack
    <2> QED
      BY <1>7, <1>11, <2>1, <2>2
  <1>13. Settled' /\ ~ Settled
    <2>1. Queue' # <<>> => 1 \in DOMAIN Queue'
      BY <1>6, <1>7
    <2>2. Settled'
      BY <1>6, <1>12, <2>1 DEF Settled
    <2> QED
      BY <1>1, <1>3, <1>7, <2>2 DEF Settled
  <1>14. VisibleRows' = VisibleRows /\ BrokenNow' = BrokenNow
    <2>1. VisibleRows' = db'.rows /\ BrokenNow' = db'.aborted
      BY <1>1, <1>13, VisibleNext DEF Orderly
    <2>2. VisibleRows = Snapshot(db, n) /\ BrokenNow = FALSE
      BY <1>3, <1>7, <1>13, VisibleIs DEF Orderly
    <2>3. db'.aborted = FALSE /\ db'.rows = Snapshot(db, n)
      BY <1>1, <1>8 DEF Effect, DbType
    <2> QED
      BY <2>1, <2>2, <2>3
  <1>15. OpenPoints' = OpenPoints
    BY <1>1, <1>5 DEF OpenPoints
  <1>16. ASSUME NEW m \in OpenPoints
         PROVE  m \in OnStack(db') /\ Snapshot(db', m) = Snapshot(db, m)
    <2>1. m \in OnStack(db) /\ m < n
      BY <1>3, <1>7, PointsAre
    <2>2. PICK i \in DOMAIN db.stack : db.stack[i].name = m
      BY <2>1 DEF OnStack
    <2>3. i \in 1 .. k
      <3>1. m \in Nat /\ i \in Nat
        BY <2>2, Numbers DEF Orderly
      <3>2. ~ (k < i)
        BY <1>7, <1>8, <1>9, <1>10, <2>1, <2>2, <3>1
      <3> QED
        BY <1>8, <2>2, <3>1, <3>2
    <2> QED
      BY <1>8, <2>2, <2>3, SnapshotKept
  <1>17. RestorePoints' = RestorePoints
    <2>1. RestorePoints = Snaps(db, OpenPoints) /\ RestorePoints' = Snaps(db', OpenPoints)
      BY <1>15 DEF RestorePoints, Snaps
    <2> QED
      BY <1>16, <2>1, PointsAre, SnapsKept
  <1>18. Closing'
    <2> SUFFICES ASSUME NEW u \in Tasks, op'[u].kind \in {"release", "rollback"}
                 PROVE  /\ op'[u].arg \in OnStack(db')
                        /\ \A i \in DOMAIN op'[u].todo : op'[u].arg < op'[u].todo[i]
      BY DEF Closing
    <2>1. op[u].kind \in {"release", "rollback"} /\ op'[u].arg = op[u].arg
      BY <1>5
    <2>2. u = t
      BY <1>2, <2>1 DEF Orderly, InOrder, Turns, Turn, Busy
    <2>3. op[u].arg \in OpenPoints
      BY <2>1, PointsClosing
    <2>4. \A i \in DOMAIN Tail(q) : op[u].arg < Tail(q)[i]
      BY <1>3, <1>7, <2>3, PointsAre
    <2> QED
      BY <1>5, <1>16, <2>1, <2>2, <2>3, <2>4
  <1> QED
    BY <1>1, <1>14, <1>17, <1>18 DEF Unseen

-----------------------------------------------------------------------------
(* Each step refines one of NestedTx, or is not seen.                      *)

\* The call is over: nothing is left to flush, and only handles are open points.
LEMMA OverSeen ==
  ASSUME Orderly, ~ astray', Typed', InOrder', NEW t \in Tasks, Busy(t), NEW result, Finish(t, result),
         UNCHANGED <<mode, counter, pending>>
  PROVE  /\ Closing' /\ phase = "open"
         /\ VisibleRows' = db'.rows /\ BrokenNow' = db'.aborted
         /\ OpenPoints' = live' /\ RestorePoints' = Snaps(db', live')
         /\ op[t].todo = <<>> \/ Head(op[t].todo) \notin OnStack(db)
              => VisibleRows = db.rows /\ BrokenNow = db.aborted
  <1>1. /\ Queue = op[t].todo /\ Queue' = <<>> /\ phase = "open"
        /\ \A u \in Tasks : op'[u].kind = "idle"
    BY Over DEF Orderly
  <1>2. Closing'
    BY <1>1 DEF Closing
  <1>3. Settled'
    BY <1>1 DEF Settled
  <1>4. VisibleRows' = db'.rows /\ BrokenNow' = db'.aborted
    BY <1>3, VisibleNext DEF Orderly
  <1>5. OpenPoints' = live'
    BY <1>1 DEF OpenPoints
  <1>6. RestorePoints' = Snaps(db', live')
    BY <1>5 DEF RestorePoints, Snaps
  <1>7. ASSUME op[t].todo = <<>> \/ Head(op[t].todo) \notin OnStack(db)
        PROVE  VisibleRows = db.rows /\ BrokenNow = db.aborted
    <2>1. Queue \in Seq(Names)
      BY DEF Orderly, InOrder, Queued
    <2>2. Settled
      BY <1>1, <1>7, <2>1 DEF Settled
    <2> QED
      BY <2>2, VisibleIs DEF Orderly
  <1> QED
    BY <1>1, <1>2, <1>4, <1>5, <1>6, <1>7

\* The points before a call that closes one.
LEMMA ClosingSeen ==
  ASSUME Orderly, NEW t \in Tasks, op[t].kind \in {"release", "rollback"}
  PROVE  LET x == op[t].arg
         IN /\ RestorePoints # <<>>
            /\ RestorePoints[Len(RestorePoints)] = Snapshot(db, x)
            /\ SubSeq(RestorePoints, 1, Len(RestorePoints) - 1) = Snaps(db, live)
  <1> DEFINE x == op[t].arg
  <1>1. /\ OpenPoints = live \cup {x} /\ x \in Names /\ \A m \in live : m < x
        /\ live \subseteq Names
    BY PointsClosing DEF Orderly, Typed, TypeOK
  <1>2. RestorePoints = Snaps(db, live \cup {x})
    BY <1>1 DEF RestorePoints, Snaps
  <1> DEFINE u == Snaps(db, live \cup {x})
  <1> HIDE DEF x, u
  <1>3. u # <<>> /\ u[Len(u)] = Snapshot(db, x) /\ SubSeq(u, 1, Len(u) - 1) = Snaps(db, live)
    BY <1>1, SnapsFront DEF u
  <1> QED
    BY <1>2, <1>3 DEF x, u

LEMMA OthersSeen ==
  ASSUME Orderly, NEW t \in Tasks, Busy(t), op[t].kind \notin {"release", "rollback"}
  PROVE  RestorePoints = Snaps(db, live)
  <1>1. \A u \in Tasks : op[u].kind \notin {"release", "rollback"}
    BY DEF Orderly, InOrder, Turns, Turn, Busy
  <1>2. OpenPoints = live
    BY <1>1, PointsLive
  <1> QED
    BY <1>2 DEF RestorePoints, Snaps

\* A flush that cannot go on, or a statement that fails.
LEMMA ErrorSeen ==
  ASSUME Orderly, ~ astray', Typed', InOrder', NEW t \in Tasks, Busy(t), Finish(t, "error"), db' = Failed(db),
         op[t].todo = <<>> \/ Head(op[t].todo) \notin OnStack(db),
         UNCHANGED <<mode, durable, counter, pending, live, parent, abandoned, under>>
  PROVE  /\ Closing' /\ phase = "open" /\ durable' = durable
         /\ \/ Nested!Fail /\ phase' = phase
            \/ Nested!Abort
  <1>1. /\ Closing' /\ phase = "open"
        /\ VisibleRows' = db'.rows /\ BrokenNow' = db'.aborted
        /\ RestorePoints' = Snaps(db', live)
        /\ VisibleRows = db.rows /\ BrokenNow = db.aborted
    BY OverSeen
  <1>2. db'.rows = db.rows /\ db'.stack = db.stack
    BY FailedIs DEF Orderly
  <1>3. db'.aborted \in {db.aborted, mode.strict}
    <2>1. db'.aborted = (db.aborted \/ mode.strict)
      BY DEF Failed, Orderly, Typed, DbType
    <2>2. db.aborted \in BOOLEAN /\ mode.strict \in BOOLEAN
      BY TxAssumption DEF Orderly, Typed, TypeOK
    <2> QED
      BY <2>1, <2>2
  <1>4. \A n : Snapshot(db', n) = Snapshot(db, n)
    BY <1>2 DEF Snapshot, Depth
  <1>5. Snaps(db', live) = Snaps(db, live)
    BY <1>4, SnapsKept DEF Orderly, Typed, TypeOK
  <1>6. outcome' = "error"
    BY DEF Finish
  <1>7. CASE op[t].kind \in {"commit", "abort"}
    <2>1. phase' = "rolledBack"
      BY <1>7 DEF Finish
    <2>2. RestorePoints' = RestorePoints
      BY <1>1, <1>5, <1>7, OthersSeen
    <2>3. Nested!Abort
      BY <1>1, <1>2, <1>3, <1>6, <2>1, <2>2 DEF Nested!Abort, Sequential, Orderly
    <2> QED
      BY <1>1, <2>3
  <1>8. CASE op[t].kind \notin {"commit", "abort"}
    <2>1. phase' = phase
      BY <1>8 DEF Finish
    <2>2. \/ RestorePoints' = RestorePoints
          \/ /\ RestorePoints # <<>>
             /\ RestorePoints' = SubSeq(RestorePoints, 1, Len(RestorePoints) - 1)
      BY <1>1, <1>5, ClosingSeen, OthersSeen
    <2>3. Nested!Fail
      BY <1>1, <1>2, <1>3, <1>6, <2>2 DEF Nested!Fail, Nested!Front, Sequential, Orderly
    <2> QED
      BY <1>1, <2>1, <2>3
  <1> QED
    BY <1>7, <1>8

\* The calls' own statements, when they succeed.
LEMMA RunSeen ==
  ASSUME Orderly, ~ astray', Typed', Named', InOrder', NEW t \in Tasks, Run(t)
  PROVE  /\ Closing' /\ phase = "open" /\ phase' = "open" /\ durable' = durable
         /\ \/ \E r \in Rows : Nested!Write(r)
            \/ Nested!Open \/ Nested!Release \/ Nested!Discard
  <1> DEFINE x == op[t].arg
             kind == op[t].kind
  <1>1. /\ kind \in Statements /\ op[t].todo = <<>> /\ Busy(t)
        /\ Succeeds(db, kind, x) /\ db' = Effect(db, kind, x) /\ Finish(t, kind)
        /\ live' = IF kind = "savepoint" THEN live \cup {x} ELSE live
        /\ UNCHANGED <<mode, durable, counter, pending, parent>>
    BY DEF Run, Busy, Statements
  <1>2. /\ Closing' /\ phase = "open"
        /\ VisibleRows' = db'.rows /\ BrokenNow' = db'.aborted
        /\ RestorePoints' = Snaps(db', live')
        /\ VisibleRows = db.rows /\ BrokenNow = db.aborted
    BY <1>1, OverSeen
  <1>3. phase' = "open" /\ outcome' = kind
    BY <1>1, <1>2 DEF Finish, Statements
  <1>4. /\ db \in DbType /\ DOMAIN db.stack = 1 .. Len(db.stack) /\ Len(db.stack) \in Nat
        /\ Distinct(db) /\ Distinct(db') /\ live \subseteq Names /\ live \subseteq OnStack(db)
        /\ Argued(t)
    BY Numbers DEF Orderly, Named, Distinct, Typed, TypeOK, InOrder, Stacked
  <1>5. CASE kind = "write"
    <2>1. x \in Rows /\ ~ db.aborted
      BY <1>1, <1>4, <1>5 DEF Argued, Succeeds
    <2>2. db'.stack = db.stack /\ db'.rows = db.rows \cup {x} /\ db'.aborted = db.aborted
      BY <1>1, <1>4, <1>5 DEF Effect, DbType
    <2>3. \A n : Snapshot(db', n) = Snapshot(db, n)
      BY <2>2 DEF Snapshot, Depth
    <2>4. Snaps(db', live) = Snaps(db, live)
      BY <1>4, <2>3, SnapsKept
    <2>5. RestorePoints' = RestorePoints
      BY <1>1, <1>2, <1>5, <2>4, OthersSeen
    <2>6. Nested!Write(x)
      BY <1>1, <1>2, <1>3, <1>5, <2>1, <2>2, <2>5 DEF Nested!Write, Sequential, Orderly
    <2> QED
      BY <1>1, <1>2, <1>3, <2>1, <2>6
  <1>6. CASE kind = "savepoint"
    <2>1. x \in Names /\ ~ db.aborted /\ \A m \in live : m < x
      <3>1. x = counter - 1 /\ x \in Names /\ \A n \in live : n < counter /\ n # x
        BY <1>4, <1>6, Numbers DEF Orderly, InOrder, Turns, Turn, Argued, Named, OnStack
      <3> QED
        BY <1>1, <1>6, <3>1, Numbers DEF Succeeds, Orderly
    <2> DEFINE k == Len(db.stack)
    <2>2. /\ db' \in DbType /\ k \in Nat
          /\ DOMAIN db.stack = 1 .. k /\ DOMAIN db'.stack = 1 .. k + 1
          /\ \A i \in 1 .. k : db'.stack[i] = db.stack[i]
          /\ db'.stack[k + 1].name = x /\ db'.stack[k + 1].rows = db.rows
          /\ db'.rows = db.rows
      BY <1>1, <1>4, <1>6, <2>1, SavepointIs
    <2>3. db'.aborted = db.aborted
      BY <1>1, <1>4, <1>6 DEF Effect, DbType
    <2> HIDE DEF k, x
    <2>4. Snapshot(db', x) = db.rows
      <3>1. k + 1 \in DOMAIN db'.stack
        BY <2>2
      <3>2. Snapshot(db', db'.stack[k + 1].name) = db'.stack[k + 1].rows
        BY <1>4, <2>2, <3>1, SnapshotIs
      <3> QED
        BY <2>2, <3>2
    <2>5. ASSUME NEW m \in live PROVE Snapshot(db', m) = Snapshot(db, m)
      <3>1. PICK i \in DOMAIN db.stack : db.stack[i].name = m
        BY <1>4 DEF OnStack
      <3>2. i \in DOMAIN db'.stack /\ db'.stack[i] = db.stack[i]
        BY <2>2
      <3> QED
        BY <1>4, <2>2, <3>1, <3>2, SnapshotKept
    <2>6. Snaps(db', live) = Snaps(db, live)
      BY <1>4, <2>5, SnapsKept
    <2>7. Snaps(db', live \cup {x}) = Append(Snaps(db', live), Snapshot(db', x))
      BY <1>4, <2>1, SnapsAppend
    <2>8. RestorePoints' = Append(RestorePoints, db.rows)
      BY <1>1, <1>2, <1>6, <2>4, <2>6, <2>7, OthersSeen
    <2>9. Nested!Open
      BY <1>1, <1>2, <1>3, <1>6, <2>1, <2>2, <2>3, <2>8 DEF Nested!Open, Sequential, Orderly
    <2> QED
      BY <1>1, <1>2, <1>3, <2>9
  <1>7. CASE kind = "release" \/ kind = "rollback"
    <2>1. /\ x \in Names /\ x \in OnStack(db) /\ \A m \in live : m < x
          /\ kind = "release" => ~ db.aborted
      BY <1>1, <1>7, PointsClosing DEF Succeeds
    <2> DEFINE k == Depth(db, x)
    <2>2. /\ k \in 1 .. Len(db.stack) /\ db.stack[k].name = x
          /\ db' \in DbType
          /\ \A i \in 1 .. k - 1 : i \in DOMAIN db'.stack /\ db'.stack[i] = db.stack[i]
      <3>1. CASE kind = "release"
        BY <1>1, <1>4, <2>1, <3>1, ReleaseIs
      <3>2. CASE kind = "rollback"
        <4>1. /\ k \in 1 .. Len(db.stack) /\ db.stack[k].name = x
              /\ db' \in DbType /\ DOMAIN db'.stack = 1 .. k
              /\ \A i \in 1 .. k : db'.stack[i] = db.stack[i]
          BY <1>1, <1>4, <2>1, <3>2, RollbackIs
        <4> HIDE DEF k
        <4>2. \A i \in 1 .. k - 1 : i \in 1 .. k
          BY <1>4, <4>1
        <4> QED
          BY <4>1, <4>2
      <3> QED
        BY <1>7, <3>1, <3>2
    <2> HIDE DEF k
    <2>3. ASSUME NEW m \in live PROVE Snapshot(db', m) = Snapshot(db, m)
      <3>1. PICK i \in 1 .. k - 1 : db.stack[i].name = m
        BY <2>1, <2>2, OlderStay DEF Orderly, InOrder
      <3>2. i \in DOMAIN db'.stack /\ db'.stack[i] = db.stack[i] /\ i \in DOMAIN db.stack
        BY <1>4, <2>2
      <3> QED
        BY <1>4, <2>2, <3>1, <3>2, SnapshotKept
    <2>4. Snaps(db', live) = Snaps(db, live)
      BY <1>4, <2>3, SnapsKept
    <2>5. /\ RestorePoints # <<>>
          /\ RestorePoints[Len(RestorePoints)] = Snapshot(db, x)
          /\ RestorePoints' = SubSeq(RestorePoints, 1, Len(RestorePoints) - 1)
      BY <1>1, <1>2, <1>7, <2>4, ClosingSeen
    <2>6. CASE kind = "release"
      <3>1. db'.rows = db.rows /\ db'.aborted = db.aborted
        BY <1>1, <1>4, <2>6 DEF Effect, DbType
      <3>2. Nested!Release
        BY <1>1, <1>2, <1>3, <2>1, <2>5, <2>6, <3>1
           DEF Nested!Release, Nested!Front, Sequential, Orderly
      <3> QED
        BY <1>1, <1>2, <1>3, <3>2
    <2>7. CASE kind = "rollback"
      <3>1. db'.rows = Snapshot(db, x) /\ db'.aborted = FALSE
        BY <1>1, <1>4, <2>7 DEF Effect, DbType
      <3>2. Nested!Discard
        BY <1>1, <1>2, <1>3, <2>5, <2>7, <3>1
           DEF Nested!Discard, Nested!Front, Nested!Top, Sequential, Orderly
      <3> QED
        BY <1>1, <1>2, <1>3, <3>2
    <2> QED
      BY <1>7, <2>6, <2>7
  <1> QED
    BY <1>1, <1>5, <1>6, <1>7 DEF Statements

\* A handle is dropped: its savepoint is the first to be rolled back to.
LEMMA DropSeen ==
  ASSUME Orderly, ~ astray', Typed', InOrder', NEW h \in Names, DropHandle(h)
  PROVE  /\ Closing' /\ phase = "open" /\ phase' = "open" /\ durable' = durable
         /\ Nested!Discard
  <1>1. /\ h \in live /\ ~ Borrowed(h) /\ live' = live \ {h}
        /\ pending' = Append(pending, h) /\ outcome' = "drop"
        /\ UNCHANGED <<mode, db, phase, durable, counter, parent, op, under>>
        /\ ~ Younger(h) /\ \A t \in Tasks : ~ Busy(t)
    BY DEF DropHandle, Stray, Overlap
  <1>2. phase = "open"
    BY <1>1 DEF Orderly, InOrder, Turns
  <1>3. Closing'
    BY <1>1 DEF Closing, Busy
  <1>4. OpenPoints = live /\ OpenPoints' = live'
    BY <1>1 DEF OpenPoints, Busy
  <1>5. \A m \in live' : m < h
    BY <1>1, YoungestIs DEF Orderly
  <1>6. h \in OnStack(db) /\ live' \subseteq Names /\ live = live' \cup {h}
    BY <1>1 DEF Orderly, InOrder, Stacked, Typed, TypeOK
  <1>7. /\ RestorePoints # <<>>
        /\ RestorePoints[Len(RestorePoints)] = Snapshot(db, h)
        /\ RestorePoints' = SubSeq(RestorePoints, 1, Len(RestorePoints) - 1)
    <2> DEFINE S == live'
               u == Snaps(db, S \cup {h})
    <2>1. RestorePoints = u /\ RestorePoints' = Snaps(db, S)
      BY <1>1, <1>4, <1>6 DEF RestorePoints, Snaps
    <2>2. S \subseteq Names /\ \A m \in S : m < h
      BY <1>5, <1>6
    <2> HIDE DEF S, u
    <2>3. u # <<>> /\ u[Len(u)] = Snapshot(db, h) /\ SubSeq(u, 1, Len(u) - 1) = Snaps(db, S)
      BY <2>2, SnapsFront DEF u
    <2> QED
      BY <2>1, <2>3 DEF u
  <1>8. Queue' # <<>> /\ Queue'[1] = h
    <2> DEFINE s == Append(pending, h)
    <2>1. s \in Seq(Names) /\ Len(s) = Len(pending) + 1 /\ Len(pending) \in Nat
          /\ s[Len(pending) + 1] = h
      BY DEF Orderly, Typed, TypeOK
    <2>2. Queue' = Reverse(s)
      BY <1>1 DEF Queue, Busy
    <2> HIDE DEF s
    <2>3. Len(Reverse(s)) = Len(s) /\ Reverse(s)[1] = s[Len(s)] /\ Reverse(s) # <<>>
      <3>1. /\ Reverse(s) \in Seq(Names) /\ Len(Reverse(s)) = Len(s)
            /\ \A i \in 1 .. Len(s) : Reverse(s)[i] = s[Len(s) - i + 1]
        BY <2>1, ReverseIs
      <3>2. 1 \in 1 .. Len(s) /\ Len(s) - 1 + 1 = Len(s) /\ Len(s) # 0
        BY <2>1
      <3> QED
        BY <3>1, <3>2
    <2> QED
      BY <2>1, <2>2, <2>3
  <1>9. VisibleRows' = Snapshot(db, h) /\ BrokenNow' = FALSE
    <2>1. ~ Settled'
      BY <1>1, <1>6, <1>8 DEF Settled
    <2> QED
      BY <1>1, <1>8, <2>1, VisibleNext DEF Orderly
  <1>10. Nested!Discard
    BY <1>1, <1>7, <1>9 DEF Nested!Discard, Nested!Front, Nested!Top, Sequential, Orderly
  <1> QED
    BY <1>1, <1>2, <1>3, <1>10

LEMMA AbortSeen ==
  ASSUME Orderly, ~ astray', Typed', InOrder', NEW t \in Tasks, RunAbort(t)
  PROVE  /\ Closing' /\ phase = "open"
         /\ Nested!Abort
  <1>1. /\ op[t].kind \in {"commit", "abort"} /\ op[t].todo = <<>> /\ Busy(t)
        /\ UNCHANGED <<mode, db, durable, counter, pending, live, parent, abandoned, under>>
    BY DEF RunAbort, Busy
  <1>2. PICK result \in {"error", "abort"} : Finish(t, result)
    BY DEF RunAbort
  <1>3. /\ Closing' /\ phase = "open"
        /\ VisibleRows' = db'.rows /\ BrokenNow' = db'.aborted
        /\ RestorePoints' = Snaps(db', live')
        /\ VisibleRows = db.rows /\ BrokenNow = db.aborted
    BY <1>1, <1>2, OverSeen
  <1>4. RestorePoints' = RestorePoints
    BY <1>1, <1>3, OthersSeen
  <1>5. phase' = "rolledBack" /\ outcome' = result
    BY <1>1, <1>2 DEF Finish
  <1>6. VisibleRows' = VisibleRows /\ BrokenNow' = BrokenNow
    BY <1>1, <1>3
  <1>7. Nested!Abort
    BY <1>1, <1>4, <1>5, <1>6 DEF Nested!Abort, Sequential, Orderly
  <1> QED
    BY <1>3, <1>7

LEMMA CommitSeen ==
  ASSUME Orderly, ~ astray', Typed', InOrder', NEW t \in Tasks, RunCommit(t)
  PROVE  /\ Closing' /\ phase = "open"
         /\ Nested!Commit
  <1>1. /\ op[t].kind = "commit" /\ op[t].todo = <<>> /\ Busy(t)
        /\ op' = [op EXCEPT ![t] = Idle]
        /\ outcome' = "commit" /\ phase' = "committed"
        /\ durable' = IF db.aborted THEN {} ELSE db.rows
        /\ UNCHANGED <<mode, db, counter, pending, live, parent, abandoned, under>>
    BY DEF RunCommit, Busy
  <1>2. /\ t = User /\ pending = <<>> /\ live = {} /\ phase = "open"
        /\ \A u \in Tasks \ {t} : ~ Busy(u)
    BY <1>1, TurnIs DEF Orderly, InOrder, Turns, Turn
  <1>3. \A u \in Tasks : op'[u].kind = "idle"
    <2>1. op'[t] = Idle /\ \A u \in Tasks \ {t} : op'[u] = op[u]
      BY <1>1 DEF Orderly, Typed, TypeOK
    <2> QED
      BY <1>2, <2>1 DEF Busy, Idle
  <1>4. Closing'
    BY <1>3 DEF Closing
  <1>5. Settled /\ Settled'
    <2>1. Queue = <<>>
      BY <1>1, <1>2 DEF Queue
    <2>2. Queue' = Reverse(pending') /\ pending' = <<>>
      BY <1>1, <1>2, <1>3 DEF Queue, Busy
    <2>3. Queue' = <<>>
      BY <2>2, ReverseEmpty
    <2> QED
      BY <2>1, <2>3 DEF Settled
  <1>6. /\ VisibleRows = db.rows /\ BrokenNow = db.aborted
        /\ VisibleRows' = db.rows /\ BrokenNow' = db.aborted
    BY <1>1, <1>5, VisibleIs, VisibleNext DEF Orderly
  <1>7. RestorePoints = <<>> /\ RestorePoints' = RestorePoints
    <2>1. OpenPoints' = live'
      BY <1>3 DEF OpenPoints
    <2>2. RestorePoints = Snaps(db, {}) /\ RestorePoints' = Snaps(db, {})
      BY <1>1, <1>2, <2>1, OthersSeen DEF RestorePoints, Snaps
    <2> QED
      BY <2>2, SnapsNone
  <1>8. Nested!Commit
    BY <1>1, <1>6, <1>7 DEF Nested!Commit, Sequential, Orderly
  <1> QED
    BY <1>2, <1>4, <1>8

LEMMA DropTxSeen ==
  ASSUME Orderly, DropTx
  PROVE  /\ Closing' /\ phase = "open"
         /\ Nested!Abort
  <1>1. /\ phase = "open" /\ phase' = "rolledBack"
        /\ UNCHANGED <<mode, db, durable, counter, pending, live, parent, op, outcome, abandoned, under,
                       astray>>
    BY DEF DropTx
  <1>2. Closing'
    BY <1>1 DEF Closing, Orderly, OnStack
  <1>3. UNCHANGED <<OpenPoints, Unflushed>>
    BY <1>1 DEF OpenPoints, Unflushed, OnStack
  <1>4. UNCHANGED <<VisibleRows, RestorePoints, BrokenNow>>
    BY <1>1, <1>3 DEF VisibleRows, RestorePoints, BrokenNow
  <1>5. Nested!Abort
    BY <1>1, <1>4 DEF Nested!Abort, Sequential, Orderly
  <1> QED
    BY <1>1, <1>2, <1>5

LEMMA InitSeen == Init => Nested!Init
  <1> SUFFICES ASSUME Init PROVE Nested!Init
    OBVIOUS
  <1>1. mode.strict \in BOOLEAN
    BY TxAssumption DEF Init
  <1>2. /\ op = [t \in Tasks |-> Idle] /\ Idle.kind = "idle" /\ astray = FALSE
        /\ db.stack = <<>> /\ db.rows = {} /\ db.aborted = FALSE /\ live = {}
        /\ phase = "open" /\ durable = {} /\ outcome = "none"
    BY DEF Init, Idle
  <1>3. OpenPoints = {}
    BY <1>2 DEF OpenPoints
  <1>4. Unflushed = {}
    BY <1>2 DEF Unflushed, OnStack
  <1>5. RestorePoints = <<>>
    BY <1>3, SnapsNone DEF RestorePoints, Snaps
  <1>6. VisibleRows = {} /\ BrokenNow = FALSE
    BY <1>2, <1>4 DEF VisibleRows, BrokenNow
  <1> QED
    BY <1>1, <1>2, <1>5, <1>6 DEF Nested!Init, Sequential

\* A step that does not lead astray is one of NestedTx or is not seen.
LEMMA OrderlyStep ==
  ASSUME Orderly, ~ astray', [Next]_vars, Typed', Named', InOrder', mode' = mode
  PROVE  Closing' /\ [Nested!Next]_(Nested!vars)
  <1>1. Unseen => UNCHANGED Nested!vars
    BY DEF Unseen, Nested!vars, Sequential, Orderly, Typed, TypeOK
  <1>2. ASSUME phase = "open", phase' = "open", durable' = durable,
               \/ \E r \in Rows : Nested!Write(r)
               \/ Nested!Open \/ Nested!Release \/ Nested!Discard \/ Nested!Fail
        PROVE  Nested!Next
    BY <1>2 DEF Nested!Next, Nested!Kept, Sequential, Orderly
  <1>3. ASSUME phase = "open", Nested!Commit \/ Nested!Abort PROVE Nested!Next
    BY <1>3 DEF Nested!Next, Nested!Kept, Sequential, Orderly
  <1>4. CASE UNCHANGED vars
    <2>1. Closing'
      BY <1>4 DEF vars, Closing, Orderly, OnStack
    <2>2. UNCHANGED <<OpenPoints, Unflushed>>
      BY <1>4 DEF vars, OpenPoints, Unflushed, OnStack
    <2>3. Unseen
      BY <1>4, <2>2 DEF vars, Unseen, VisibleRows, RestorePoints, BrokenNow
    <2> QED
      BY <1>1, <2>1, <2>3
  <1>5. ASSUME NEW t \in Tasks, NEW r \in Rows, CallWrite(t, r) PROVE Closing' /\ Unseen
    BY <1>5, CallUnseen DEF CallWrite, Statements
  <1>6. ASSUME NEW t \in Tasks, NEW p \in Names \cup {Root}, CallSavepoint(t, p)
        PROVE  Closing' /\ Unseen
    <2>1. counter \in Names
      BY <1>6, TxAssumption DEF CallSavepoint, Orderly, Typed, TypeOK, Names
    <2> QED
      BY <1>6, <2>1, CallUnseen DEF CallSavepoint, Statements
  <1>7. ASSUME NEW t \in Tasks, NEW h \in Names, NEW kind \in {"release", "rollback"},
               CallClose(t, kind, h)
        PROVE  Closing' /\ Unseen
    BY <1>7, CallUnseen DEF CallClose, Statements, Stray
  <1>8. ASSUME NEW t \in Tasks, NEW kind \in {"commit", "abort"}, CallEnd(t, kind)
        PROVE  Closing' /\ Unseen
    BY <1>8, CallUnseen DEF CallEnd, Statements, Overlap
  <1>9. ASSUME NEW t \in Tasks, Flush(t) PROVE Closing' /\ [Nested!Next]_(Nested!vars)
    <2>1. CASE Head(op[t].todo) \in OnStack(db)
      BY <1>1, <1>9, <2>1, FlushUnseen
    <2>2. CASE Head(op[t].todo) \notin OnStack(db)
      <3>1. Busy(t)
        BY <1>9 DEF Flush, Orderly, InOrder, Turns, Turn
      <3>2. /\ Closing' /\ phase = "open" /\ durable' = durable
            /\ \/ Nested!Fail /\ phase' = phase
               \/ Nested!Abort
        BY <1>9, <2>2, <3>1, ErrorSeen DEF Flush, Succeeds
      <3> QED
        BY <1>2, <1>3, <3>2
    <2> QED
      BY <2>1, <2>2
  <1>10. ASSUME NEW t \in Tasks, Run(t) PROVE Closing' /\ Nested!Next
    BY <1>2, <1>10, RunSeen
  <1>11. ASSUME NEW t \in Tasks, RunFails(t) PROVE Closing' /\ Nested!Next
    <2>1. /\ Closing' /\ phase = "open" /\ durable' = durable
          /\ \/ Nested!Fail /\ phase' = phase
             \/ Nested!Abort
      BY <1>11, ErrorSeen DEF RunFails, Busy
    <2> QED
      BY <1>2, <1>3, <2>1
  <1>12. ASSUME NEW t \in Tasks, RunCommit(t) PROVE Closing' /\ Nested!Next
    BY <1>3, <1>12, CommitSeen
  <1>13. ASSUME NEW t \in Tasks, RunAbort(t) PROVE Closing' /\ Nested!Next
    BY <1>3, <1>13, AbortSeen
  <1>14. ASSUME NEW t \in Tasks, Cancel(t) PROVE FALSE
    BY <1>14 DEF Cancel, Stray
  <1>15. ASSUME NEW h \in Names, DropHandle(h) PROVE Closing' /\ Nested!Next
    BY <1>2, <1>15, DropSeen
  <1>16. CASE DropTx
    BY <1>3, <1>16, DropTxSeen
  <1> QED
    BY <1>1, <1>4, <1>5, <1>6, <1>7, <1>8, <1>9, <1>10, <1>11, <1>12, <1>13, <1>14, <1>15, <1>16
       DEF Next, Step

\* As long as calls follow each other to their end and handles end youngest
\* first, with statements that fail and handles that are dropped anywhere, a
\* transaction is a stack of restore points: whatever order drops and flushes
\* come in, each point gives back the rows it was opened on, and an operation
\* that reports an error has changed none (tx.rs:321-346, 378-400, 527-603).
THEOREM RefinesNestedTx == Spec => ImplementsNestedTx
  <1> DEFINE I == Typed /\ Named /\ (~ astray => InOrder /\ Closing)
  <1>1. Init => I /\ Nested!Init
    <2>1. Init => Named /\ Closing
      BY DEF Init, Named, Idle, Closing
    <2> QED
      BY <2>1, InitTyped, InitInOrder, InitSeen
  <1>2. I /\ [Next]_vars => I' /\ [Nested!Next]_(Nested!vars)
    <2> SUFFICES ASSUME I, [Next]_vars PROVE I' /\ [Nested!Next]_(Nested!vars)
      OBVIOUS
    <2>1. mode' = mode /\ (astray => astray')
      <3>1. mode' = mode
        BY DEF vars, Next, Step, CallWrite, CallSavepoint, CallClose, CallEnd, Flush, Run, RunFails,
               RunCommit, RunAbort, Cancel, DropHandle, DropTx
      <3>2. astray => astray'
        BY DEF vars, Next, Step, CallWrite, CallSavepoint, CallClose, CallEnd, Flush, Run, RunFails,
               RunCommit, RunAbort, Cancel, DropHandle, DropTx, Stray
      <3> QED
        BY <3>1, <3>2
    <2>2. Typed' /\ Named' /\ (~ astray => InOrder)'
      BY NextTyped, NextNamed, NextInOrder
    <2>3. CASE astray'
      <3>1. Nested!Next
        BY <2>1, <2>3 DEF Nested!Next
      <3> QED
        BY <2>2, <2>3, <3>1
    <2>4. CASE ~ astray'
      <3>1. Orderly /\ InOrder'
        BY <2>1, <2>2, <2>4 DEF Orderly
      <3> QED
        BY <2>1, <2>2, <2>4, <3>1, OrderlyStep
    <2> QED
      BY <2>3, <2>4
  <1> QED
    BY <1>1, <1>2, PTL DEF Spec, ImplementsNestedTx, Nested!Spec
=============================================================================
