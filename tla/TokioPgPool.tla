----------------------------- MODULE TokioPgPool -----------------------------
(***************************************************************************)
(* TokioPostgresPool and TokioPostgresTransaction of                       *)
(* crates/runtime/src/tokio_postgres.rs: connections lent by deadpool as   *)
(* an Object that goes back to the pool when it is dropped, whatever state *)
(* the session is in.  The code's own duty is to drop it only when no      *)
(* transaction is open: it rolls back after a failed COMMIT, and moves the *)
(* Object of an abandoned transaction into a task that rolls back first.   *)
(*                                                                         *)
(* deadpool and the server are external: recycling (Fast or Verified)      *)
(* replaces closed connections and leaves the session of the others alone, *)
(* and ROLLBACK fails only on a closed connection.                         *)
(***************************************************************************)
EXTENDS Naturals, FiniteSets

CONSTANTS Conns,       \* identities of connections, reused once forgotten
          Users,       \* the callers
          MaxSize,     \* max_connections
          Cancelling,  \* values of cancels to explore
          None         \* no user

ASSUME PgAssumption == /\ MaxSize \in Nat \ {0}
                       /\ Cancelling \subseteq BOOLEAN
                       /\ None \notin Users

VARIABLES cancels,  \* whether callers drop futures that are under way
          conn,     \* conn[c]: where c is, who is behind it, its session
          step      \* step[u]: the await u is at, or "tx" between two

vars == <<cancels, conn, step>>

(* place: not made yet, in the pool, an Object of a caller, an Object of a *)
(* rollback task, or taken out of the pool for good.                       *)
Absent == [place |-> "absent", user |-> None, alive |-> FALSE, inTx |-> FALSE]

Init == /\ cancels \in Cancelling
        /\ conn = [c \in Conns |-> Absent]
        /\ step = [u \in Users |-> "idle"]

Pooled     == {c \in Conns : conn[c].place = "pooled"}
Out        == {c \in Conns : conn[c].place \in {"lent", "rollback"}}
Holds(u,c) == conn[c].place = "lent" /\ conn[c].user = u

Goto(u, s) == step' = [step EXCEPT ![u] = s]

\* The Object of c is dropped.
GiveBack(c, open) ==
    conn' = [conn EXCEPT ![c] = [place |-> "pooled", user |-> None,
                                 alive |-> @.alive, inTx |-> open]]

\* The session of c changes.
Session(c, alive, open) ==
    conn' = [conn EXCEPT ![c] = [place |-> @.place, user |-> @.user,
                                 alive |-> alive, inTx |-> open]]

-----------------------------------------------------------------------------
(* deadpool and the server (external) *)

\* pool.get(): an idle connection, or a new one if none is idle.
Get(u, purpose) ==
    /\ step[u] = "idle" /\ Cardinality(Out) < MaxSize
    /\ \E c \in IF Pooled # {} THEN Pooled
                ELSE {d \in Conns : conn[d].place = "absent"} :
         conn' = [conn EXCEPT ![c] = [place |-> "lent", user |-> u,
                                      alive |-> @.alive \/ @.place = "absent",
                                      inTx  |-> @.inTx]]
    /\ Goto(u, purpose)
    /\ UNCHANGED cancels

\* A get finds an idle connection closed and discards it; a detached one is
\* forgotten when its session has ended.
Discard(c) ==
    /\ conn[c].place \in {"pooled", "detached"} /\ ~conn[c].alive
    /\ conn[c].place = "pooled" => Cardinality(Out) < MaxSize /\ \E u \in Users : step[u] = "idle"
    /\ conn' = [conn EXCEPT ![c] = Absent]
    /\ UNCHANGED <<cancels, step>>

\* The session ends, and the server rolls its transaction back.
SessionEnds(c) ==
    /\ conn[c].alive
    /\ Session(c, FALSE, FALSE)
    /\ UNCHANGED <<cancels, step>>

-----------------------------------------------------------------------------
(* One-shot statements and the opening of streams *)

\* The statement has been answered; the Object is a local, dropped here (for a
\* stream, before its rows are read).
QueryEnds(u) ==
    \E c \in Conns :
        /\ step[u] = "query" /\ Holds(u, c)
        /\ GiveBack(c, conn[c].inTx)
        /\ Goto(u, "idle") /\ UNCHANGED cancels

-----------------------------------------------------------------------------
(* Transactions *)

BeginSucceeds(u) ==
    \E c \in Conns :
        /\ step[u] = "begin" /\ Holds(u, c) /\ conn[c].alive
        /\ Session(c, TRUE, TRUE)
        /\ Goto(u, "tx") /\ UNCHANGED cancels

\* Mutant: the handle is made whatever BEGIN answered.
BeginFails_Ignored(u) ==
    \E c \in Conns :
        /\ step[u] = "begin" /\ Holds(u, c)
        /\ Goto(u, "tx") /\ UNCHANGED <<cancels, conn>>

\* `?` in begin drops the Object.
BeginFails(u) ==
    \E c \in Conns :
        /\ step[u] = "begin" /\ Holds(u, c)
        /\ GiveBack(c, conn[c].inTx)
        /\ Goto(u, "idle") /\ UNCHANGED cancels

\* commit and rollback: finish takes the Object out of the handle, which from
\* here on does nothing when it is dropped.
Finish(u, stmt) ==
    /\ step[u] = "tx"
    /\ Goto(u, stmt) /\ UNCHANGED <<cancels, conn>>

CommitSucceeds(u) ==
    \E c \in Conns :
        /\ step[u] = "commit" /\ Holds(u, c) /\ conn[c].alive
        /\ GiveBack(c, FALSE)
        /\ Goto(u, "idle") /\ UNCHANGED cancels

\* Mutant: the error of COMMIT is returned at once.
CommitFails_Returned(u) ==
    \E c \in Conns :
        /\ step[u] = "commit" /\ Holds(u, c)
        /\ \E open \in {FALSE, conn[c].inTx} : GiveBack(c, open)
        /\ Goto(u, "idle") /\ UNCHANGED cancels

\* A failed COMMIT may leave the transaction open; ROLLBACK is sent next.
CommitFails(u) ==
    \E c \in Conns :
        /\ step[u] = "commit" /\ Holds(u, c)
        /\ \E open \in {FALSE, conn[c].inTx} : Session(c, conn[c].alive, open)
        /\ Goto(u, "undo") /\ UNCHANGED cancels

\* ROLLBACK has been answered; the Object is dropped whatever the answer.
RollbackEnds(u) ==
    \E c \in Conns :
        /\ step[u] \in {"rollback", "undo"} /\ Holds(u, c)
        /\ GiveBack(c, FALSE)
        /\ Goto(u, "idle") /\ UNCHANGED cancels

\* Mutant: there is no Drop, the Object just falls out of scope.
DropTx_ReturnsAtOnce(u) ==
    \E c \in Conns :
        /\ step[u] = "tx" /\ Holds(u, c)
        /\ GiveBack(c, conn[c].inTx)
        /\ Goto(u, "idle") /\ UNCHANGED cancels

\* Mutant: the rollback is spawned and the handle stays in use.
DropTx_StaysOpen(u) ==
    \E c \in Conns :
        /\ step[u] = "tx" /\ Holds(u, c)
        /\ conn' = [conn EXCEPT ![c].place = "rollback"]
        /\ UNCHANGED <<cancels, step>>

\* Drop: a task is spawned that owns the Object.
DropTx(u) ==
    \E c \in Conns :
        /\ step[u] = "tx" /\ Holds(u, c)
        /\ conn' = [conn EXCEPT ![c].place = "rollback"]
        /\ Goto(u, "idle") /\ UNCHANGED cancels

\* Drop without a runtime to spawn on: the pool loses the connection, which
\* closes with its transaction open.
DropTxNoRuntime(u) ==
    \E c \in Conns :
        /\ step[u] = "tx" /\ Holds(u, c)
        /\ conn' = [conn EXCEPT ![c].place = "detached"]
        /\ Goto(u, "idle") /\ UNCHANGED cancels

\* Mutant: the task tries again until the rollback succeeds.
RollbackTask_Retries(c) ==
    /\ conn[c].place = "rollback"
    /\ IF conn[c].alive THEN GiveBack(c, FALSE) ELSE UNCHANGED conn
    /\ UNCHANGED <<cancels, step>>

\* Mutant: the pool still counts the connection as lent.
RollbackTask_KeepsUser(c) ==
    /\ conn[c].place = "rollback"
    /\ conn' = [conn EXCEPT ![c].place = "pooled", ![c].inTx = FALSE]
    /\ UNCHANGED <<cancels, step>>

\* The spawned task: ROLLBACK is answered, one way or the other.
RollbackTask(c) ==
    /\ conn[c].place = "rollback"
    /\ GiveBack(c, FALSE)
    /\ UNCHANGED <<cancels, step>>

\* The future of a call is dropped at its await.  The Object is a local of
\* that future; its statement may or may not have run.
Cancel(u) ==
    \E c \in Conns :
        /\ cancels /\ step[u] \notin {"idle", "tx"} /\ Holds(u, c)
        /\ \E open \in CASE step[u] = "query" -> {conn[c].inTx}
                         [] step[u] = "begin" -> {conn[c].inTx, conn[c].alive}
                         [] OTHER             -> {conn[c].inTx, FALSE} :
             GiveBack(c, open)
        /\ Goto(u, "idle") /\ UNCHANGED cancels

-----------------------------------------------------------------------------
Next == \/ \E u \in Users :
              \/ \E purpose \in {"query", "begin"} : Get(u, purpose)
              \/ QueryEnds(u)
              \/ BeginSucceeds(u) \/ BeginFails(u)
              \/ \E stmt \in {"commit", "rollback"} : Finish(u, stmt)
              \/ CommitSucceeds(u) \/ CommitFails(u) \/ RollbackEnds(u)
              \/ DropTx(u) \/ DropTxNoRuntime(u) \/ Cancel(u)
        \/ \E c \in Conns : RollbackTask(c) \/ Discard(c) \/ SessionEnds(c)

Spec == Init /\ [][Next]_vars

\* The runtime runs the tasks spawned on it.
FairSpec == Spec /\ \A c \in Conns : WF_vars(RollbackTask(c))

-----------------------------------------------------------------------------
(* Properties *)

TypeOK ==
    /\ cancels \in Cancelling
    /\ conn \in [Conns -> [place : {"absent", "pooled", "lent", "rollback", "detached"},
                           user  : Users \cup {None},
                           alive : BOOLEAN, inTx : BOOLEAN]]
    /\ step \in [Users -> {"idle", "query", "begin", "tx", "commit", "rollback", "undo"}]
    /\ \A c \in Conns :
         /\ conn[c].user = None <=> conn[c].place \in {"absent", "pooled"}
         /\ conn[c].inTx => conn[c].alive

\* A connection is in the pool only when no transaction is open on it
\* (pool.rs:344-346).
ReleasedClean == \A c \in Pooled : ~conn[c].inTx

\* ... which the code achieves as long as no call is cancelled.
IdleIsClean == ~cancels => ReleasedClean

\* Exactly the callers inside a call or a transaction hold a connection, and
\* one each: no path out of a call keeps or loses it, cancelled or not
\* (tokio_postgres.rs:159-185, 290-389).
NoneLeaked ==
    /\ Cardinality(Out) <= MaxSize
    /\ \A u \in Users :
         Cardinality({c \in Conns : Holds(u, c)}) = IF step[u] = "idle" THEN 0 ELSE 1

\* The statements of a transaction never run outside one, unless its session
\* is lost (tokio_postgres.rs:174-185).
TxNotAutocommitted ==
    \A u \in Users, c \in Conns :
        step[u] = "tx" /\ Holds(u, c) /\ conn[c].alive => conn[c].inTx

\* Once the callers leave the pool alone, every connection is back, abandoned
\* and broken ones included (tokio_postgres.rs:340-389).
PermitsReturn ==
    <>[](\A u \in Users : step[u] = "idle") => <>[](Out = {})

Contract == INSTANCE PoolContract WITH
    Free  <- None,
    owner <- [c \in Conns |-> IF cancels THEN None ELSE conn[c].user],
    inTx  <- [c \in Conns |-> ~cancels /\ conn[c].inTx]

\* Without cancellation, the pool keeps the contract of the native pools.
ImplementsContract == Contract!Spec
=============================================================================
