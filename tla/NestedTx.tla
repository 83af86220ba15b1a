------------------------------ MODULE NestedTx ------------------------------
(***************************************************************************)
(* What a transaction with savepoints promises: a stack of restore points  *)
(* over a set of rows.  Releasing the innermost point keeps its rows, and  *)
(* rolling back or dropping it restores the rows it remembers.  An         *)
(* operation that reports an error has no effect on the rows, except that  *)
(* the point it was meant to close is gone, and that on a server where an  *)
(* error aborts the transaction nothing works until a point is restored.   *)
(* The promise is to users who use the points as a stack: when they end    *)
(* one before a later one, or let operations overlap, it is lost.          *)
(***************************************************************************)
EXTENDS Integers, Sequences

CONSTANT Rows

VARIABLES strict,   \* an error aborts the transaction on this server
          cur,      \* the rows the transaction would commit now
          snaps,    \* the rows each open savepoint would restore
          broken,   \* the server has aborted the transaction
          outcome,  \* the last operation that ended, or "error"
          ended,    \* the transaction is over
          durable,  \* the rows it left behind
          lost      \* the points were not used as a stack: nothing is promised

vars == <<strict, cur, snaps, broken, outcome, ended, durable, lost>>

Init == /\ strict \in BOOLEAN
        /\ cur = {} /\ snaps = <<>> /\ broken = FALSE
        /\ outcome = "none" /\ ended = FALSE /\ durable = {} /\ lost = FALSE

Front(s) == SubSeq(s, 1, Len(s) - 1)
Top == snaps[Len(snaps)]

Write(r) == /\ ~broken
            /\ cur' = cur \cup {r}
            /\ outcome' = "write"
            /\ UNCHANGED <<snaps, broken>>

Open == /\ ~broken
        /\ snaps' = Append(snaps, cur)
        /\ outcome' = "savepoint"
        /\ UNCHANGED <<cur, broken>>

Release == /\ ~broken /\ snaps # <<>>
           /\ snaps' = Front(snaps)
           /\ outcome' = "release"
           /\ UNCHANGED <<cur, broken>>

\* Rolling back the innermost savepoint, or dropping its handle.
Discard == /\ snaps # <<>>
           /\ cur' = Top
           /\ snaps' = Front(snaps)
           /\ broken' = FALSE
           /\ outcome' \in {"rollback", "drop"}

Fail == /\ outcome' = "error"
        /\ broken' \in {broken, strict}
        /\ snaps' \in {snaps} \cup {Front(s) : s \in {snaps} \ {<<>>}}
        /\ UNCHANGED cur

Commit == /\ snaps = <<>>
          /\ durable' = IF broken THEN {} ELSE cur
          /\ ended' = TRUE
          /\ outcome' = "commit"
          /\ UNCHANGED <<cur, snaps, broken>>

Abort == /\ ended' = TRUE
         /\ outcome' \in {"abort", "error", outcome}
         /\ broken' \in {broken, strict}
         /\ UNCHANGED <<cur, snaps, durable>>

\* A step of users who keep to the stack.
Kept == /\ ~ended
        /\ \/ /\ \/ \E r \in Rows : Write(r)
                 \/ Open \/ Release \/ Discard \/ Fail
              /\ UNCHANGED <<ended, durable>>
           \/ Commit
           \/ Abort

Next == /\ UNCHANGED strict
        /\ \/ lost'
           \/ ~lost /\ ~lost' /\ Kept

Spec == Init /\ [][Next]_vars
=============================================================================
