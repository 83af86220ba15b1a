---------------------------- MODULE TxSavepoint -----------------------------
(***************************************************************************)
(* Tx and Savepoint of crates/runtime/src/tx.rs, over one database         *)
(* connection.  Every operation first flushes: it takes the list of the    *)
(* savepoints whose handles were dropped, rolls back to each of them, and  *)
(* only then runs its own statement.  Each statement holds the lock of     *)
(* `inner`, and so is one action; the operations of several tasks sharing  *)
(* &Tx interleave between statements.                                      *)
(*                                                                         *)
(* Borrows are what the signatures enforce: a handle is closed only when   *)
(* no handle was opened through it, and commit and rollback of the         *)
(* transaction consume it, so no handle and no call is alive then.  They   *)
(* do not make handles nest: savepoint takes &self, so siblings may be     *)
(* opened side by side, and closed or dropped in any order.                *)
(***************************************************************************)
EXTENDS Integers, SequencesExt

CONSTANTS Tasks,          \* the concurrent users of &Tx
          Rows,           \* the rows the application writes
          MaxSavepoints,  \* bound on the savepoints of a transaction
          Modes           \* the servers and usages to explore, see mode

ASSUME TxAssumption ==
    /\ MaxSavepoints \in Nat
    /\ Modes \subseteq [strict : BOOLEAN, shared : BOOLEAN, savepoints : 0 .. MaxSavepoints]

Names == 0 .. MaxSavepoints - 1
Root  == -1      \* the parent of a savepoint opened through the Tx itself

(* A behaviour has one mode throughout.  strict: a failed statement aborts  *)
(* the transaction (Postgres; the others let it go on).  shared and         *)
(* savepoints bound it: whether several tasks use the transaction, and how  *)
(* many savepoints it opens, at most.                                       *)
VARIABLES mode,
          db,        \* the connection: savepoint stack, rows, aborted
          phase,     \* "open", "committed" or "rolledBack"
          durable,   \* the rows left in the database
          counter,   \* savepoint_counter
          pending,   \* pending_rollback
          live,      \* the handles neither closed nor dropped
          parent,    \* the handle each savepoint was opened through
          op,        \* the call each task is in
          outcome,   \* the last thing that ended, or "error"
          abandoned, \* history: handles dropped, or rolled back with success
          under,     \* history: the handles alive when a row was written
          astray     \* history: calls overlapped, a call was cancelled, or a
                     \* handle ended before one opened after it

vars == <<mode, db, phase, durable, counter, pending, live, parent, op, outcome,
          abandoned, under, astray>>

Idle == [kind |-> "idle", arg |-> Root, todo |-> <<>>]

Init == /\ mode \in Modes
        /\ db = [stack |-> <<>>, rows |-> {}, aborted |-> FALSE]
        /\ phase = "open" /\ durable = {}
        /\ counter = 0 /\ pending = <<>>
        /\ live = {} /\ parent = [n \in Names |-> Root]
        /\ op = [t \in Tasks |-> Idle]
        /\ outcome = "none"
        /\ abandoned = {} /\ under = [r \in Rows |-> {}]
        /\ astray = FALSE

-----------------------------------------------------------------------------
(* The database, as the statements of tx.rs drive it (external). *)

OnStack(d) == {d.stack[i].name : i \in DOMAIN d.stack}
Depth(d, n) == CHOOSE i \in DOMAIN d.stack : d.stack[i].name = n
Snapshot(d, n) == d.stack[Depth(d, n)].rows

\* An aborted transaction accepts nothing but a rollback; RELEASE and ROLLBACK
\* TO need their savepoint on the stack.
Succeeds(d, cmd, x) ==
    CASE cmd = "rollback" -> x \in OnStack(d)
      [] cmd = "release"  -> ~d.aborted /\ x \in OnStack(d)
      [] OTHER            -> ~d.aborted

\* RELEASE forgets the savepoint and those above it; ROLLBACK TO restores its
\* rows, forgets those above it and keeps it.
Effect(d, cmd, x) ==
    CASE cmd = "write"     -> [d EXCEPT !.rows = @ \cup {x}]
      [] cmd = "savepoint" -> [d EXCEPT !.stack = Append(@, [name |-> x, rows |-> d.rows])]
      [] cmd = "release"   -> [d EXCEPT !.stack = SubSeq(@, 1, Depth(d, x) - 1)]
      [] cmd = "rollback"  -> [d EXCEPT !.stack = SubSeq(@, 1, Depth(d, x)),
                                        !.rows = Snapshot(d, x),
                                        !.aborted = FALSE]

Failed(d) == [d EXCEPT !.aborted = @ \/ mode.strict]

-----------------------------------------------------------------------------
(* Calls *)

\* The tasks that make calls.
Users == IF mode.shared THEN Tasks ELSE {CHOOSE t \in Tasks : TRUE}

Busy(t) == op[t].kind # "idle"

\* Handle h is borrowed by a handle opened through it, or by a call that opens
\* or closes one.
Borrowed(h) == \/ \E n \in live : parent[n] = h
               \/ \E t \in Tasks : /\ op[t].kind \in {"savepoint", "release", "rollback"}
                                   /\ parent[op[t].arg] = h

\* commit and rollback consume the Tx.
Consumed == \E t \in Tasks : op[t].kind \in {"commit", "abort"}

\* History: what the callers do is out of order for good once b was so.  Calls
\* are to follow each other, and the handle to end is to be the youngest.
Stray(b)   == astray' = (astray \/ b)
Overlap    == \E t \in Tasks : Busy(t)
Younger(h) == \E m \in live : h < m

\* The order in which flush_pending_rollback visits the names it took.
FlushOrder(names) == Reverse(names)

\* The synchronous prefix of every call: take the pending list, whole.
Enter(t, kind, x) ==
    /\ t \in Users /\ phase = "open" /\ ~Busy(t) /\ ~Consumed
    /\ op' = [op EXCEPT ![t] = [kind |-> kind, arg |-> x,
                                todo |-> FlushOrder(pending)]]
    /\ pending' = <<>>

\* Tx::execute and the fetches, through the Tx or any of its handles.
CallWrite(t, r) ==
    /\ r \notin db.rows
    /\ \A u \in Tasks : op[u].kind = "write" => op[u].arg # r
    /\ Enter(t, "write", r)
    /\ Stray(Overlap)
    /\ UNCHANGED <<mode, db, phase, durable, counter, live, parent, outcome, abandoned, under>>

\* Tx::savepoint and Savepoint::savepoint: the counter advances first.
CallSavepoint(t, p) ==
    /\ counter < mode.savepoints
    /\ p \in live \cup {Root}
    /\ Enter(t, "savepoint", counter)
    /\ counter' = counter + 1
    /\ parent' = [parent EXCEPT ![counter] = p]
    /\ Stray(Overlap)
    /\ UNCHANGED <<mode, db, phase, durable, live, outcome, abandoned, under>>

\* Mutant: release and rollback only borrow the handle.
CallClose_KeepsHandle(t, kind, h) ==
    /\ h \in live /\ ~Borrowed(h)
    /\ Enter(t, kind, h)
    /\ Stray(Overlap \/ Younger(h))
    /\ UNCHANGED <<mode, db, phase, durable, counter, live, parent, outcome, abandoned, under>>

\* Mutant: release and rollback do not flush.
CallClose_Unflushed(t, kind, h) ==
    /\ h \in live /\ ~Borrowed(h) /\ phase = "open" /\ ~Busy(t) /\ ~Consumed
    /\ op' = [op EXCEPT ![t] = [kind |-> kind, arg |-> h, todo |-> <<>>]]
    /\ live' = live \ {h}
    /\ Stray(Overlap \/ Younger(h))
    /\ UNCHANGED <<mode, db, phase, durable, counter, pending, parent, outcome, abandoned, under>>

\* Savepoint::release and Savepoint::rollback: the handle is consumed and
\* marked finished before anything is sent, so its Drop does nothing.
CallClose(t, kind, h) ==
    /\ h \in live /\ ~Borrowed(h)
    /\ Enter(t, kind, h)
    /\ live' = live \ {h}
    /\ Stray(Overlap \/ Younger(h))
    /\ UNCHANGED <<mode, db, phase, durable, counter, parent, outcome, abandoned, under>>

\* Mutant: the drop queues nothing.
DropHandle_Silent(h) ==
    /\ h \in live /\ ~Borrowed(h) /\ \A t \in Tasks : ~Busy(t)
    /\ live' = live \ {h}
    /\ abandoned' = abandoned \cup {h}
    /\ outcome' = "drop"
    /\ Stray(Overlap \/ Younger(h))
    /\ UNCHANGED <<mode, db, phase, durable, counter, pending, parent, op, under>>

\* Savepoint::drop, by a task that is in no call: the name joins the pending
\* list, nothing is sent.
DropHandle(h) ==
    /\ h \in live /\ ~Borrowed(h)
    /\ \E t \in Users : ~Busy(t)
    /\ live' = live \ {h}
    /\ pending' = Append(pending, h)
    /\ abandoned' = abandoned \cup {h}
    /\ outcome' = "drop"
    /\ Stray(Overlap \/ Younger(h))
    /\ UNCHANGED <<mode, db, phase, durable, counter, parent, op, under>>

\* Mutant: commit and rollback do not flush.
CallEnd_Unflushed(t, kind) ==
    /\ live = {} /\ \A u \in Tasks : ~Busy(u)
    /\ phase = "open"
    /\ op' = [op EXCEPT ![t] = [kind |-> kind, arg |-> Root, todo |-> <<>>]]
    /\ UNCHANGED <<mode, db, phase, durable, counter, pending, live, parent, outcome, abandoned, under, astray>>

\* Tx::commit and Tx::rollback.
CallEnd(t, kind) ==
    /\ live = {} /\ \A u \in Tasks : ~Busy(u)
    /\ Enter(t, kind, Root)
    /\ UNCHANGED <<mode, db, phase, durable, counter, live, parent, outcome, abandoned, under, astray>>

-----------------------------------------------------------------------------
(* Statements *)

\* The call of t is over.  A commit or rollback that returns early drops the
\* Tx, and the driver rolls the transaction back.
Finish(t, result) ==
    /\ op' = [op EXCEPT ![t] = Idle]
    /\ outcome' = result
    /\ phase' = IF op[t].kind \in {"commit", "abort"} THEN "rolledBack" ELSE phase

\* One turn of the loop in flush_pending_rollback.
Flush(t) ==
    /\ op[t].todo # <<>>
    /\ LET n == Head(op[t].todo) IN
       IF Succeeds(db, "rollback", n)
       THEN /\ db' = Effect(db, "rollback", n)
            /\ op' = [op EXCEPT ![t].todo = Tail(@)]
            /\ UNCHANGED <<mode, phase, outcome>>
       ELSE /\ db' = Failed(db)       \* `?` drops the rest of the list
            /\ Finish(t, "error")
    /\ UNCHANGED <<mode, durable, counter, pending, live, parent, abandoned, under, astray>>

\* The flush is over: the call's own statement succeeds ...
Run(t) ==
    LET kind == op[t].kind
        x    == op[t].arg
    IN /\ kind \in {"write", "savepoint", "release", "rollback"}
       /\ op[t].todo = <<>>
       /\ Succeeds(db, kind, x)
       /\ db' = Effect(db, kind, x)
       /\ live' = IF kind = "savepoint" THEN live \cup {x} ELSE live
       /\ abandoned' = IF kind = "rollback" THEN abandoned \cup {x} ELSE abandoned
       /\ under' = IF kind = "write" THEN [under EXCEPT ![x] = live] ELSE under
       /\ Finish(t, kind)
       /\ UNCHANGED <<mode, durable, counter, pending, parent, astray>>

\* ... or fails, as any statement may for reasons of its own.
RunFails(t) ==
    /\ op[t].kind \in {"write", "savepoint", "release", "rollback"}
    /\ op[t].todo = <<>>
    /\ op[t].kind = "write" \/ ~Succeeds(db, op[t].kind, op[t].arg)
    /\ db' = Failed(db)
    /\ Finish(t, "error")
    /\ UNCHANGED <<mode, durable, counter, pending, live, parent, abandoned, under, astray>>

\* COMMIT.  On a transaction the server has aborted it is carried out as a
\* ROLLBACK, and reported as a success.
RunCommit(t) ==
    /\ op[t].kind = "commit" /\ op[t].todo = <<>>
    /\ op' = [op EXCEPT ![t] = Idle]
    /\ outcome' = "commit"
    /\ phase' = "committed"
    /\ durable' = IF db.aborted THEN {} ELSE db.rows
    /\ UNCHANGED <<mode, db, counter, pending, live, parent, abandoned, under, astray>>

\* COMMIT fails, or the call was Tx::rollback.
RunAbort(t) ==
    /\ op[t].kind \in {"commit", "abort"} /\ op[t].todo = <<>>
    /\ Finish(t, IF op[t].kind = "commit" THEN "error" ELSE "abort")
    /\ UNCHANGED <<mode, db, durable, counter, pending, live, parent, abandoned, under, astray>>

\* The future of a call is dropped while it waits: its next statement may or
\* may not have reached the server, and what is left of its list is lost.
Cancel(t) ==
    /\ Busy(t)
    /\ LET cmd == IF op[t].todo # <<>> THEN "rollback" ELSE op[t].kind
           x   == IF op[t].todo # <<>> THEN Head(op[t].todo) ELSE op[t].arg
       IN db' \in {db} \cup (IF cmd \notin {"commit", "abort"} /\ Succeeds(db, cmd, x)
                             THEN {Effect(db, cmd, x)} ELSE {})
    /\ Finish(t, "cancelled")
    /\ Stray(TRUE)
    /\ UNCHANGED <<mode, durable, counter, pending, live, parent, abandoned, under>>

\* The Tx is dropped without commit or rollback; the driver rolls it back.
DropTx ==
    /\ phase = "open" /\ live = {} /\ \A t \in Tasks : ~Busy(t)
    /\ phase' = "rolledBack"
    /\ UNCHANGED <<mode, db, durable, counter, pending, live, parent, op, outcome, abandoned, under, astray>>

Step(t) == \/ \E r \in Rows : CallWrite(t, r)
           \/ \E p \in Names \cup {Root} : CallSavepoint(t, p)
           \/ \E h \in Names, kind \in {"release", "rollback"} : CallClose(t, kind, h)
           \/ \E kind \in {"commit", "abort"} : CallEnd(t, kind)
           \/ Flush(t) \/ Run(t) \/ RunFails(t) \/ RunCommit(t) \/ RunAbort(t)
           \/ Cancel(t)

Next == \/ \E t \in Tasks : Step(t)
        \/ \E h \in Names : DropHandle(h)
        \/ DropTx

Spec == Init /\ [][Next]_vars

-----------------------------------------------------------------------------
(* Properties *)

Calls == [kind : {"idle", "write", "savepoint", "release", "rollback", "commit", "abort"},
          arg  : Rows \cup Names \cup {Root},
          todo : Seq(Names)]

TypeOK == /\ mode \in Modes
          /\ db.stack \in Seq([name : Names, rows : SUBSET Rows])
          /\ db.rows \subseteq Rows /\ db.aborted \in BOOLEAN
          /\ phase \in {"open", "committed", "rolledBack"}
          /\ durable \subseteq Rows
          /\ counter \in 0 .. MaxSavepoints
          /\ pending \in Seq(Names)
          /\ live \subseteq Names
          /\ parent \in [Names -> Names \cup {Root}]
          /\ op \in [Tasks -> Calls]
          /\ outcome \in {"none", "write", "savepoint", "release", "rollback", "drop",
                         "commit", "abort", "error", "cancelled"}
          /\ abandoned \subseteq Names
          /\ under \in [Rows -> SUBSET Names]
         /\ astray \in BOOLEAN

\* No row written under a savepoint that was dropped, or rolled back with
\* success, is committed with the outer transaction (tx.rs:321-323).  The code
\* keeps to that only while calls follow each other to their end and handles end
\* youngest first: astray names what else the signatures allow.
AbandonedNotCommitted ==
    ~astray => \A r \in durable : under[r] \cap abandoned = {}

\* No two savepoints of a transaction share a name, whoever opens them and in
\* whatever order their statements arrive (tx.rs:151, 142-144).
DistinctNames ==
    \A i, j \in DOMAIN db.stack : db.stack[i].name = db.stack[j].name => i = j

\* The state is well typed and names are distinct; unless the callers went
\* astray, a live handle's savepoint exists in the database, above the one it was
\* opened through, so that release and rollback act on what the handle stands
\* for (tx.rs:527-536).
LiveOnStack ==
  /\ TypeOK
  /\ DistinctNames
  /\ ~astray =>
       /\ live \subseteq OnStack(db)
       /\ \A n \in live : parent[n] # Root => Depth(db, parent[n]) < Depth(db, n)

\* The savepoints of a transaction do what their handles stand for
\* (tx.rs:321-323, 527-536).
SavepointsHold == LiveOnStack /\ AbandonedNotCommitted

(* The refinement of NestedTx: a dropped handle is discarded at once there, *)
(* and here when the next call has flushed it.                              *)
Unflushed == (ToSet(pending) \cup UNION {ToSet(op[t].todo) : t \in Tasks}) \cap OnStack(db)
Least(S) == CHOOSE n \in S : \A m \in S : n <= m
Ranked(S, i) == {n \in S : Cardinality({m \in S : m < n}) = i - 1}
Nth(S, i)    == CHOOSE n \in Ranked(S, i) : TRUE
OpenPoints == live \cup {op[t].arg : t \in {u \in Tasks : op[u].kind \in {"release", "rollback"}}}

\* The rows and the abort that are left when the flush is done, and the rows
\* each point would restore, in the order of their numbers.
VisibleRows   == IF Unflushed = {} THEN db.rows ELSE Snapshot(db, Least(Unflushed))
BrokenNow     == db.aborted /\ Unflushed = {}
RestorePoints == [i \in 1 .. Cardinality(OpenPoints) |-> Snapshot(db, Nth(OpenPoints, i))]

Sequential(value, otherwise) == IF astray THEN otherwise ELSE value

Nested == INSTANCE NestedTx WITH
    strict  <- mode.strict,
    cur     <- Sequential(VisibleRows, {}),
    snaps   <- Sequential(RestorePoints, <<>>),
    broken  <- Sequential(BrokenNow, FALSE),
    outcome <- Sequential(outcome, "none"),
    ended   <- Sequential(phase # "open", FALSE),
    durable <- Sequential(durable, {}),
    lost    <- astray

\* As long as calls follow each other to their end and handles end youngest
\* first, a transaction behaves as a stack of restore points, whichever tasks
\* call and however savepoints are opened; nothing is claimed once that fails
\* (the whole of tx.rs's savepoints, 142-202 and 561-625).
ImplementsNestedTx == Nested!Spec
=============================================================================
