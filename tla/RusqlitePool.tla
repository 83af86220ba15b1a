---------------------------- MODULE RusqlitePool ----------------------------
(***************************************************************************)
(* The native SQLite pool, crates/runtime/src/rusqlite.rs: a fixed set of  *)
(* connections behind a mutex and a condition variable.  A one-shot query  *)
(* borrows a connection for one statement; a transaction owns one from     *)
(* BEGIN until COMMIT, ROLLBACK or drop.  Every thread here is one         *)
(* spawn_blocking closure, or the task that drives a transaction.          *)
(*                                                                         *)
(* A step that runs under the mutex of the free list is one action; the    *)
(* notification, sent after that mutex is released, is an action of its    *)
(* own.  The free list is a bag, so that a connection returned twice would *)
(* show; which free connection a caller gets is left open (the code pops   *)
(* the last one returned).                                                 *)
(***************************************************************************)
EXTENDS Integers, FiniteSets

CONSTANTS Conns,    \* the connections opened by `connect`
          Threads,  \* the callers
          None      \* no connection

ASSUME ConnsAssumption   == IsFiniteSet(Conns) /\ Conns # {}
ASSUME ThreadsAssumption == IsFiniteSet(Threads)
ASSUME NoneAssumption    == None \notin Conns /\ None \notin Threads

VARIABLES idle,     \* idle[c]: copies of c in the free list `conns`
          open,     \* open[c]: a transaction is open on c
          poisoned, \* poisoned[c]: a panic poisoned the mutex around c
          pc,       \* where each thread is
          want,     \* what the thread asked a connection for
          held,     \* the connection the thread holds, or None
          expired,  \* the thread's acquire deadline has passed
          waiters   \* the pool's counter of blocked callers

vars == <<idle, open, poisoned, pc, want, held, expired, waiters>>

(* The states of a thread.  asking, waiting and woken lie inside pop_conn. *)
InPop   == {"asking", "waiting", "woken"}
Holding == {"query", "begin", "tx", "failedCommit", "returning"}
States  == {"out", "notify"} \cup InPop \cup Holding

Waiting   == {t \in Threads : pc[t] = "waiting"}
Woken     == {t \in Threads : pc[t] = "woken"}
Notifying == {t \in Threads : pc[t] = "notify"}

IsEmpty == \A c \in Conns : idle[c] = 0

Init == /\ idle     = [c \in Conns |-> 1]
        /\ open     = [c \in Conns |-> FALSE]
        /\ poisoned = [c \in Conns |-> FALSE]
        /\ pc       = [t \in Threads |-> "out"]
        /\ want     = [t \in Threads |-> "query"]
        /\ held     = [t \in Threads |-> None]
        /\ expired  = [t \in Threads |-> FALSE]
        /\ waiters  = 0

Goto(t, s) == pc' = [pc EXCEPT ![t] = s]

-----------------------------------------------------------------------------
(* pop_conn *)

\* A caller enters pop_conn: the waiter guard counts it, and its deadline
\* starts to run.
Ask(t, purpose) ==
    /\ pc[t] = "out"
    /\ Goto(t, "asking")
    /\ want'    = [want EXCEPT ![t] = purpose]
    /\ expired' = [expired EXCEPT ![t] = FALSE]
    /\ waiters' = waiters + 1
    /\ UNCHANGED <<idle, open, poisoned, held>>

\* Mutant: the emptiness test is not repeated under the mutex.
Pop_Unchecked(t, c) ==
    /\ pc[t] \in {"asking", "woken"}
    /\ idle'    = [idle EXCEPT ![c] = @ - 1]
    /\ held'    = [held EXCEPT ![t] = c]
    /\ Goto(t, IF want[t] = "tx" THEN "begin" ELSE "query")
    /\ waiters' = waiters - 1
    /\ UNCHANGED <<open, poisoned, want, expired>>

\* With the mutex held and a connection free: take it and leave pop_conn.
Pop(t, c) ==
    /\ pc[t] \in {"asking", "woken"}
    /\ idle[c] > 0
    /\ idle'    = [idle EXCEPT ![c] = @ - 1]
    /\ held'    = [held EXCEPT ![t] = c]
    /\ Goto(t, IF want[t] = "tx" THEN "begin" ELSE "query")
    /\ waiters' = waiters - 1
    /\ UNCHANGED <<open, poisoned, want, expired>>

\* Mutant: every wait gets the full timeout again.
Wait_AnyTime(t) ==
    /\ pc[t] \in {"asking", "woken"}
    /\ IsEmpty
    /\ Goto(t, "waiting")
    /\ UNCHANGED <<idle, open, poisoned, want, held, expired, waiters>>

\* Nothing free and time left: wait on the condition variable, which
\* releases the mutex.
Wait(t) ==
    /\ pc[t] \in {"asking", "woken"}
    /\ IsEmpty
    /\ ~expired[t]
    /\ Goto(t, "waiting")
    /\ UNCHANGED <<idle, open, poisoned, want, held, expired, waiters>>

\* The deadline of a blocked caller passes.
DeadlinePasses(t) ==
    /\ pc[t] \in InPop
    /\ ~expired[t]
    /\ expired' = [expired EXCEPT ![t] = TRUE]
    /\ UNCHANGED <<idle, open, poisoned, pc, want, held, waiters>>

\* wait_timeout returns without a notification: the time ran out, or the
\* platform woke the thread spuriously.
WakeAlone(t) ==
    /\ pc[t] = "waiting"
    /\ Goto(t, "woken")
    /\ UNCHANGED <<idle, open, poisoned, want, held, expired, waiters>>

\* Nothing free and no time left: PoolExhausted.
Exhausted(t) ==
    /\ pc[t] \in {"asking", "woken"}
    /\ IsEmpty
    /\ expired[t]
    /\ Goto(t, "out")
    /\ waiters' = waiters - 1
    /\ UNCHANGED <<idle, open, poisoned, want, held, expired>>

-----------------------------------------------------------------------------
(* One-shot statements: fetch_all, execute, fetch_all_sync_decoded *)

\* The statement succeeds or fails, or the mutex turns out to be poisoned;
\* the ConnGuard drops either way.
QueryEnds(t) ==
    /\ pc[t] = "query"
    /\ Goto(t, "returning")
    /\ UNCHANGED <<idle, open, poisoned, want, held, expired, waiters>>

\* Decoding a row panics with the connection's mutex held: the mutex is
\* poisoned, and unwinding still drops the ConnGuard.
QueryPanics(t) ==
    /\ pc[t] = "query"
    /\ ~poisoned[held[t]]
    /\ poisoned' = [poisoned EXCEPT ![held[t]] = TRUE]
    /\ Goto(t, "returning")
    /\ UNCHANGED <<idle, open, want, held, expired, waiters>>

-----------------------------------------------------------------------------
(* Transactions *)

\* begin_transaction: BEGIN succeeds.  If the caller's future is gone by
\* then, the result is dropped, which is Abandon below.
Begin(t) ==
    /\ pc[t] = "begin"
    /\ ~poisoned[held[t]]
    /\ open' = [open EXCEPT ![held[t]] = TRUE]
    /\ Goto(t, "tx")
    /\ UNCHANGED <<idle, poisoned, want, held, expired, waiters>>

\* Mutant: the `?` operator leaves with the connection.
BeginFails_Leaks(t) ==
    /\ pc[t] = "begin"
    /\ held' = [held EXCEPT ![t] = None]
    /\ Goto(t, "out")
    /\ UNCHANGED <<idle, open, poisoned, want, expired, waiters>>

\* The mutex is poisoned or BEGIN fails: the connection is returned by hand.
BeginFails(t) ==
    /\ pc[t] = "begin"
    /\ Goto(t, "returning")
    /\ UNCHANGED <<idle, open, poisoned, want, held, expired, waiters>>

\* Mutant: a poisoned mutex is an error here too.
EndTransaction_HonoursPoison(t) ==
    /\ pc[t] = "tx"
    /\ open' = [open EXCEPT ![held[t]] = poisoned[held[t]]]
    /\ Goto(t, "returning")
    /\ UNCHANGED <<idle, poisoned, want, held, expired, waiters>>

\* end_transaction when its statement succeeds: an explicit commit or
\* rollback, or the Drop of an abandoned transaction.  A poisoned mutex is
\* entered all the same.
EndTransaction(t) ==
    /\ pc[t] = "tx"
    /\ open' = [open EXCEPT ![held[t]] = FALSE]
    /\ Goto(t, "returning")
    /\ UNCHANGED <<idle, poisoned, want, held, expired, waiters>>

\* Mutant: a failed COMMIT is reported and nothing else is done.
CommitFails_LeftOpen(t) ==
    /\ pc[t] = "tx"
    /\ Goto(t, "returning")
    /\ UNCHANGED <<idle, open, poisoned, want, held, expired, waiters>>

\* end_transaction when COMMIT fails: SQLite leaves the transaction open.
CommitFails(t) ==
    /\ pc[t] = "tx"
    /\ Goto(t, "failedCommit")
    /\ UNCHANGED <<idle, open, poisoned, want, held, expired, waiters>>

\* ... and end_transaction rolls it back before giving the connection up.
RollbackAfterFailedCommit(t) ==
    /\ pc[t] = "failedCommit"
    /\ open' = [open EXCEPT ![held[t]] = FALSE]
    /\ Goto(t, "returning")
    /\ UNCHANGED <<idle, poisoned, want, held, expired, waiters>>

\* A statement of the transaction panics with the mutex held; the handle is
\* still alive and is dropped or finished later.
TxPanics(t) ==
    /\ pc[t] = "tx"
    /\ ~poisoned[held[t]]
    /\ poisoned' = [poisoned EXCEPT ![held[t]] = TRUE]
    /\ UNCHANGED <<idle, open, pc, want, held, expired, waiters>>

-----------------------------------------------------------------------------
(* return_conn *)

\* Mutant: the connection is pushed without a notification.
Return_Silent(t) ==
    /\ pc[t] = "returning"
    /\ idle' = [idle EXCEPT ![held[t]] = @ + 1]
    /\ held' = [held EXCEPT ![t] = None]
    /\ Goto(t, "out")
    /\ UNCHANGED <<open, poisoned, want, expired, waiters>>

\* Push the connection under the mutex; the notification follows.
Return(t) ==
    /\ pc[t] = "returning"
    /\ idle' = [idle EXCEPT ![held[t]] = @ + 1]
    /\ held' = [held EXCEPT ![t] = None]
    /\ Goto(t, "notify")
    /\ UNCHANGED <<open, poisoned, want, expired, waiters>>

\* notify_one: some waiting thread is woken, if there is one.
NotifyOne(t) ==
    /\ pc[t] = "notify"
    /\ IF Waiting = {}
       THEN Goto(t, "out")
       ELSE \E w \in Waiting : pc' = [pc EXCEPT ![t] = "out", ![w] = "woken"]
    /\ UNCHANGED <<idle, open, poisoned, want, held, expired, waiters>>

-----------------------------------------------------------------------------
\* What the code does next without the caller's consent.
Internal(t) == \/ \E c \in Conns : Pop(t, c)
               \/ Wait(t) \/ Exhausted(t)
               \/ QueryEnds(t) \/ QueryPanics(t)
               \/ Begin(t) \/ BeginFails(t)
               \/ RollbackAfterFailedCommit(t)
               \/ Return(t) \/ NotifyOne(t)

Next == \E t \in Threads :
            \/ \E purpose \in {"query", "tx"} : Ask(t, purpose)
            \/ Internal(t)
            \/ DeadlinePasses(t) \/ WakeAlone(t)
            \/ EndTransaction(t) \/ CommitFails(t) \/ TxPanics(t)

Spec == Init /\ [][Next]_vars

\* Threads are scheduled, time passes, and wait_timeout returns once its time
\* is up.  Nothing obliges a caller to ask, or to finish its transaction.
Fairness == \A t \in Threads : /\ WF_vars(Internal(t))
                               /\ WF_vars(DeadlinePasses(t))
                               /\ WF_vars(WakeAlone(t) /\ expired[t])

FairSpec == Spec /\ Fairness

-----------------------------------------------------------------------------
(* Properties *)

TypeOK == /\ idle     \in [Conns -> Nat]
          /\ open     \in [Conns -> BOOLEAN]
          /\ poisoned \in [Conns -> BOOLEAN]
          /\ pc       \in [Threads -> States]
          /\ want     \in [Threads -> {"query", "tx"}]
          /\ held     \in [Threads -> Conns \cup {None}]
          /\ expired  \in [Threads -> BOOLEAN]
          /\ waiters  \in Int

\* Every connection is, at any time, either in the free list exactly once or
\* held by exactly one thread: no path of checkout, commit, failed commit,
\* drop or panic leaks a connection or returns it twice (rusqlite.rs:371
\* and 468).
Conserved ==
    \A c \in Conns :
        \/ idle[c] = 1 /\ \A t \in Threads : held[t] # c
        \/ idle[c] = 0 /\ \E t \in Threads : /\ held[t] = c
                                             /\ \A u \in Threads \ {t} : held[u] # c

\* No connection waits in the free list with a transaction open on it, even
\* after a failed COMMIT or a panic (rusqlite.rs:519, end_transaction).
IdleIsClean == \A c \in Conns : idle[c] > 0 => ~open[c]

\* A one-shot statement never lands inside a transaction: the connection it
\* borrowed has none open.
OneShotOutsideTx == \A t \in Threads : pc[t] = "query" => ~open[held[t]]

\* No lost wake-up: while threads wait, every free connection has a thread
\* on its way to it, already woken or about to be notified.  The push and
\* the notification are separate steps, and callers may barge in between.
FreeList == {c \in Conns : idle[c] > 0}
NoLostWakeup ==
    Waiting # {} => Cardinality(Woken) + Cardinality(Notifying) >= Cardinality(FreeList)

\* Every call of pop_conn returns, with a connection or PoolExhausted, even
\* when every connection is held by a transaction that never ends and other
\* callers keep taking the connections that are freed (rusqlite.rs:198).
AcquireReturns == \A t \in Threads : pc[t] \in InPop ~> pc[t] \notin InPop

(* The pool implements the contract. *)
HolderOf(c) == CHOOSE t \in Threads : held[t] = c
Contract == INSTANCE PoolContract WITH
                Users <- Threads,
                Free  <- None,
                owner <- [c \in Conns |-> IF idle[c] > 0 THEN None ELSE HolderOf(c)],
                inTx  <- open

\* Lending and returning connections follows PoolContract: one owner at a
\* time, and a connection is given back clean.
ImplementsContract == Contract!Spec
=============================================================================
