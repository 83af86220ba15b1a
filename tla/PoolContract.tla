---------------------------- MODULE PoolContract ----------------------------
(***************************************************************************)
(* What every native connection pool of the runtime promises its callers:  *)
(* a connection is used by one caller at a time, and it is free again only *)
(* once no transaction is open on it.  RusqlitePool and TokioPgPool are    *)
(* checked against this specification.                                     *)
(***************************************************************************)
CONSTANTS Conns,    \* the physical connections
          Users,    \* the callers a connection can be lent to
          Free      \* the owner of a connection nobody holds

VARIABLES owner,    \* owner[c]: who may send statements on c
          inTx      \* inTx[c]: a transaction is open on c

vars == <<owner, inTx>>

TypeOK == /\ owner \in [Conns -> Users \cup {Free}]
          /\ inTx  \in [Conns -> BOOLEAN]

Init == /\ owner = [c \in Conns |-> Free]
        /\ inTx  = [c \in Conns |-> FALSE]

\* A free connection is lent to u, with no transaction left open on it.
Acquire(u, c) == /\ owner[c] = Free
                 /\ ~inTx[c]
                 /\ owner' = [owner EXCEPT ![c] = u]
                 /\ UNCHANGED inTx

\* The owner opens or ends a transaction.
Use(u, c) == /\ owner[c] = u
             /\ \E b \in BOOLEAN : inTx' = [inTx EXCEPT ![c] = b]
             /\ UNCHANGED owner

\* The owner gives the connection back, its transaction ended.
Release(u, c) == /\ owner[c] = u
                 /\ owner' = [owner EXCEPT ![c] = Free]
                 /\ inTx'  = [inTx EXCEPT ![c] = FALSE]

Next == \E u \in Users, c \in Conns : Acquire(u, c) \/ Use(u, c) \/ Release(u, c)

Spec == Init /\ [][Next]_vars
=============================================================================
