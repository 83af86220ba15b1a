-------------------------- MODULE TokioPgPoolProofs --------------------------
(***************************************************************************)
(* For any number of connections, callers and permits: the native Postgres *)
(* pool neither leaks nor shares a connection, cancelled calls included,   *)
(* never takes a statement of a transaction for one of its own, and, as    *)
(* long as no call is cancelled, keeps its connections clean.              *)
(***************************************************************************)
EXTENDS TokioPgPool, FiniteSetTheorems, TLAPS

(* The inductive invariant.  NoneLeaked counts connections; the steps move *)
(* one at a time, guarded by step, so the counts are taken apart into who  *)
(* holds what.  IdleIsClean needs to know where the open transactions are. *)

\* A caller between two calls holds nothing, any other one holds something.
HeldByStep == \A u \in Users : step[u] = "idle" <=> \A c \in Conns : ~Holds(u, c)

\* ... and only one thing.
OneEach == \A u \in Users : \A c, d \in Conns : Holds(u, c) /\ Holds(u, d) => c = d

InTxSteps == {"tx", "commit", "rollback", "undo"}

\* An open transaction is its caller's, or is being rolled back or abandoned.
OpenIsOwned ==
    ~cancels => \A c \in Conns : conn[c].inTx =>
        \/ conn[c].place \in {"rollback", "detached"}
        \/ conn[c].place = "lent" /\ step[conn[c].user] \in InTxSteps

PermitsKept == IsFiniteSet(Out) /\ Cardinality(Out) <= MaxSize

Owning == HeldByStep /\ OneEach /\ OpenIsOwned /\ TxNotAutocommitted

IInv == TypeOK /\ Owning /\ PermitsKept

-----------------------------------------------------------------------------
(* Five actions end a call by dropping its Object.  They differ in whether *)
(* the transaction can still be open.                                      *)
Returns(u) ==
    \E c \in Conns, open \in BOOLEAN :
        /\ step[u] # "idle" /\ Holds(u, c)
        /\ open => conn[c].alive
        /\ open => cancels \/ (conn[c].inTx /\ step[u] \notin InTxSteps)
        /\ GiveBack(c, open)
        /\ Goto(u, "idle") /\ UNCHANGED cancels

\* Every such action is a return (tokio_postgres.rs:70-200, 303-330).
LEMMA Returning ==
  ASSUME TypeOK, NEW u \in Users,
         \/ QueryEnds(u) \/ BeginFails(u)
         \/ CommitSucceeds(u) \/ RollbackEnds(u) \/ Cancel(u)
  PROVE  Returns(u)
<1>1. CASE QueryEnds(u)
  BY <1>1 DEF QueryEnds, Returns, TypeOK, InTxSteps
<1>2. CASE BeginFails(u)
  BY <1>2 DEF BeginFails, Returns, TypeOK, InTxSteps
<1>3. CASE CommitSucceeds(u)
  BY <1>3 DEF CommitSucceeds, Returns
<1>4. CASE RollbackEnds(u)
  BY <1>4 DEF RollbackEnds, Returns
<1>5. CASE Cancel(u)
  BY <1>5 DEF Cancel, Returns, TypeOK
<1>. QED  BY <1>1, <1>2, <1>3, <1>4, <1>5

\* After a failed COMMIT the transaction is open or not, if it was open before.
LEMMA FailedCommit ==
  ASSUME TypeOK, NEW u \in Users, CommitFails(u)
  PROVE  \E c \in Conns, open \in BOOLEAN :
            /\ step[u] = "commit" /\ Holds(u, c)
            /\ open => conn[c].inTx
            /\ Session(c, conn[c].alive, open)
            /\ Goto(u, "undo") /\ UNCHANGED cancels
<1>1. PICK c \in Conns :
        /\ step[u] = "commit" /\ Holds(u, c)
        /\ \E open \in {FALSE, conn[c].inTx} : Session(c, conn[c].alive, open)
        /\ Goto(u, "undo") /\ UNCHANGED cancels
  BY DEF CommitFails
<1>2. conn[c].inTx \in BOOLEAN
  BY DEF TypeOK
<1>3. PICK open \in {FALSE, conn[c].inTx} : Session(c, conn[c].alive, open)
  BY <1>1
<1>4. open \in BOOLEAN /\ (open => conn[c].inTx)
  BY <1>2, <1>3
<1>. QED  BY <1>1, <1>3, <1>4

\* What may happen, with the returns as one.
LEMMA NextSplit ==
  ASSUME TypeOK, [Next]_vars
  PROVE  \/ UNCHANGED vars
         \/ \E u \in Users :
              \/ \E purpose \in {"query", "begin"} : Get(u, purpose)
              \/ Returns(u) \/ BeginSucceeds(u)
              \/ \E stmt \in {"commit", "rollback"} : Finish(u, stmt)
              \/ CommitFails(u) \/ DropTx(u) \/ DropTxNoRuntime(u)
         \/ \E c \in Conns : RollbackTask(c) \/ Discard(c) \/ SessionEnds(c)
<1>1. CASE UNCHANGED vars
  BY <1>1
<1>2. CASE Next
  BY <1>2, Returning DEF Next
<1>. QED  BY <1>1, <1>2

-----------------------------------------------------------------------------
(* Types *)

LEMMA InitIInv == Init => IInv
<1>. SUFFICES ASSUME Init PROVE IInv
  OBVIOUS
<1>1. Out = {}
  BY DEF Init, Out, Absent
<1>2. PermitsKept
  BY <1>1, FS_EmptySet, PgAssumption DEF PermitsKept
<1>3. TypeOK
  BY PgAssumption DEF Init, TypeOK, Absent
<1>4. Owning
  BY PgAssumption DEF Init, Owning, Absent, HeldByStep, OneEach, OpenIsOwned, TxNotAutocommitted, Holds
<1>. QED  BY <1>2, <1>3, <1>4 DEF IInv

LEMMA NextType ==
  ASSUME TypeOK, [Next]_vars
  PROVE  TypeOK'
<1>. USE PgAssumption DEF TypeOK, Goto, GiveBack, Holds
<1>1. CASE UNCHANGED vars
  BY <1>1 DEF vars
<1>2. ASSUME NEW u \in Users, NEW purpose \in {"query", "begin"}, Get(u, purpose)
      PROVE  TypeOK'
  BY <1>2 DEF Get, Pooled
<1>3. ASSUME NEW u \in Users, Returns(u)
      PROVE  TypeOK'
  BY <1>3 DEF Returns
<1>4. ASSUME NEW u \in Users, BeginSucceeds(u)
      PROVE  TypeOK'
  BY <1>4 DEF BeginSucceeds, Session
<1>5. ASSUME NEW u \in Users, NEW stmt \in {"commit", "rollback"}, Finish(u, stmt)
      PROVE  TypeOK'
  BY <1>5 DEF Finish
<1>6. ASSUME NEW u \in Users, CommitFails(u)
      PROVE  TypeOK'
  BY <1>6, FailedCommit DEF Session
<1>7. ASSUME NEW u \in Users, DropTx(u) \/ DropTxNoRuntime(u)
      PROVE  TypeOK'
  BY <1>7 DEF DropTx, DropTxNoRuntime
<1>8. ASSUME NEW c \in Conns, RollbackTask(c)
      PROVE  TypeOK'
  BY <1>8 DEF RollbackTask
<1>9. ASSUME NEW c \in Conns, Discard(c)
      PROVE  TypeOK'
  BY <1>9 DEF Discard, Absent
<1>10. ASSUME NEW c \in Conns, SessionEnds(c)
      PROVE  TypeOK'
  BY <1>10 DEF SessionEnds, Session
<1>. QED
  BY NextSplit, <1>1, <1>2, <1>3, <1>4, <1>5, <1>6, <1>7, <1>8, <1>9, <1>10

-----------------------------------------------------------------------------
(* Who holds what, and which transactions are open *)

LEMMA NextOwning ==
  ASSUME TypeOK, Owning, [Next]_vars
  PROVE  Owning'
<1>. USE PgAssumption DEF TypeOK, Goto, GiveBack, Session, Holds, InTxSteps,
       Owning, HeldByStep, OneEach, OpenIsOwned, TxNotAutocommitted
<1>1. CASE UNCHANGED vars
  BY <1>1 DEF vars
<1>2. ASSUME NEW u \in Users, NEW purpose \in {"query", "begin"}, Get(u, purpose)
      PROVE  Owning'
  BY <1>2 DEF Get, Pooled
<1>3. ASSUME NEW u \in Users, Returns(u)
      PROVE  Owning'
  BY <1>3 DEF Returns
<1>4. ASSUME NEW u \in Users, BeginSucceeds(u)
      PROVE  Owning'
  BY <1>4 DEF BeginSucceeds
<1>5. ASSUME NEW u \in Users, NEW stmt \in {"commit", "rollback"}, Finish(u, stmt)
      PROVE  Owning'
  BY <1>5 DEF Finish
<1>6. ASSUME NEW u \in Users, CommitFails(u)
      PROVE  Owning'
  <2>1. PICK c \in Conns, open \in BOOLEAN :
          /\ step[u] = "commit" /\ Holds(u, c)
          /\ open => conn[c].inTx
          /\ Session(c, conn[c].alive, open)
          /\ Goto(u, "undo") /\ UNCHANGED cancels
    BY <1>6, FailedCommit
  <2>2. HeldByStep'
    BY <2>1
  <2>3. OneEach'
    BY <2>1
  <2>4. OpenIsOwned'
    BY <2>1
  <2>5. TxNotAutocommitted'
    BY <2>1
  <2>. QED  BY <2>2, <2>3, <2>4, <2>5
<1>7. ASSUME NEW u \in Users, DropTx(u) \/ DropTxNoRuntime(u)
      PROVE  Owning'
  <2>1. PICK c \in Conns, place \in {"rollback", "detached"} :
          /\ step[u] = "tx" /\ Holds(u, c)
          /\ conn' = [conn EXCEPT ![c] = [place |-> place, user |-> @.user,
                                         alive |-> @.alive, inTx |-> @.inTx]]
          /\ Goto(u, "idle") /\ UNCHANGED cancels
    BY <1>7 DEF DropTx, DropTxNoRuntime
  <2>2. HeldByStep'
    BY <2>1
  <2>3. OneEach'
    BY <2>1
  <2>4. OpenIsOwned'
    BY <2>1
  <2>5. TxNotAutocommitted'
    BY <2>1
  <2>. QED  BY <2>2, <2>3, <2>4, <2>5
<1>8. ASSUME NEW c \in Conns, RollbackTask(c)
      PROVE  Owning'
  BY <1>8 DEF RollbackTask
<1>9. ASSUME NEW c \in Conns, Discard(c)
      PROVE  Owning'
  BY <1>9 DEF Discard, Absent
<1>10. ASSUME NEW c \in Conns, SessionEnds(c)
      PROVE  Owning'
  BY <1>10 DEF SessionEnds
<1>. QED
  BY NextSplit, <1>1, <1>2, <1>3, <1>4, <1>5, <1>6, <1>7, <1>8, <1>9, <1>10

-----------------------------------------------------------------------------
(* Permits *)

\* A step takes at most one connection out of the pool, and then finds a permit.
LEMMA NextOut ==
  ASSUME TypeOK, [Next]_vars
  PROVE  \/ Out' \subseteq Out
         \/ Cardinality(Out) < MaxSize /\ \E c \in Conns \ Out : Out' = Out \cup {c}
<1>. DEFINE Fewer == Out' \subseteq Out
<1>. USE DEF TypeOK, Out, GiveBack, Session, Holds
<1>1. CASE UNCHANGED vars
  BY <1>1 DEF vars
<1>2. ASSUME NEW u \in Users, NEW purpose \in {"query", "begin"}, Get(u, purpose)
      PROVE  Cardinality(Out) < MaxSize /\ \E c \in Conns \ Out : Out' = Out \cup {c}
  <2>1. Cardinality(Out) < MaxSize
    BY <1>2 DEF Get
  <2>2. PICK c \in Conns :
          /\ conn[c].place \in {"pooled", "absent"}
          /\ conn' = [conn EXCEPT ![c] = [place |-> "lent", user |-> u,
                                         alive |-> @.alive \/ @.place = "absent",
                                         inTx  |-> @.inTx]]
    BY <1>2 DEF Get, Pooled
  <2>3. c \notin Out /\ Out' = Out \cup {c}
    BY <2>2
  <2>. QED  BY <2>1, <2>3
<1>3. ASSUME NEW u \in Users, Returns(u)
      PROVE  Fewer
  BY <1>3 DEF Returns
<1>4. ASSUME NEW u \in Users, BeginSucceeds(u)
      PROVE  Fewer
  BY <1>4 DEF BeginSucceeds
<1>5. ASSUME NEW u \in Users, NEW stmt \in {"commit", "rollback"}, Finish(u, stmt)
      PROVE  Fewer
  BY <1>5 DEF Finish
<1>6. ASSUME NEW u \in Users, CommitFails(u)
      PROVE  Fewer
  BY <1>6, FailedCommit
<1>7. ASSUME NEW u \in Users, DropTx(u) \/ DropTxNoRuntime(u)
      PROVE  Fewer
  BY <1>7 DEF DropTx, DropTxNoRuntime
<1>8. ASSUME NEW c \in Conns, RollbackTask(c)
      PROVE  Fewer
  BY <1>8 DEF RollbackTask
<1>9. ASSUME NEW c \in Conns, Discard(c)
      PROVE  Fewer
  BY <1>9 DEF Discard, Absent
<1>10. ASSUME NEW c \in Conns, SessionEnds(c)
      PROVE  Fewer
  BY <1>10 DEF SessionEnds
<1>. QED
  BY NextSplit, <1>1, <1>2, <1>3, <1>4, <1>5, <1>6, <1>7, <1>8, <1>9, <1>10

LEMMA NextPermits ==
  ASSUME TypeOK, PermitsKept, [Next]_vars
  PROVE  PermitsKept'
<1>1. MaxSize \in Nat /\ Cardinality(Out) \in Nat
  BY PgAssumption, FS_CardinalityType DEF PermitsKept
<1>2. CASE Out' \subseteq Out
  <2>1. IsFiniteSet(Out') /\ Cardinality(Out') <= Cardinality(Out)
    BY <1>2, FS_Subset DEF PermitsKept
  <2>2. Cardinality(Out') \in Nat
    BY <2>1, FS_CardinalityType
  <2>. QED  BY <1>1, <2>1, <2>2 DEF PermitsKept
<1>3. ASSUME Cardinality(Out) < MaxSize, NEW c \in Conns \ Out, Out' = Out \cup {c}
      PROVE  PermitsKept'
  <2>1. IsFiniteSet(Out') /\ Cardinality(Out') = Cardinality(Out) + 1
    BY <1>3, FS_AddElement DEF PermitsKept
  <2>. QED  BY <1>1, <1>3, <2>1 DEF PermitsKept
<1>. QED  BY NextOut, <1>2, <1>3

-----------------------------------------------------------------------------
\* The invariant holds throughout (tokio_postgres.rs:159-389, all of it).
THEOREM Inductive == Spec => []IInv
<1>1. IInv /\ [Next]_vars => IInv'
  BY NextType, NextOwning, NextPermits DEF IInv
<1>. QED  BY InitIInv, <1>1, PTL DEF Spec

\* The state has its types; in particular no session that has ended has a
\* transaction open (tokio_postgres.rs:159-389).
THEOREM TypeCorrect == Spec => []TypeOK
<1>1. IInv => TypeOK
  BY DEF IInv
<1>. QED  BY Inductive, <1>1, PTL

\* A caller in a call or a transaction holds one connection, any other none, and
\* the pool never lends more than it may, whether calls are cancelled or not
\* (begin, finish and Drop, tokio_postgres.rs:174-389).
THEOREM NoneLeakedAlways == Spec => []NoneLeaked
<1>1. ASSUME IInv PROVE NoneLeaked
  <2>1. Cardinality(Out) <= MaxSize
    BY <1>1 DEF IInv, PermitsKept
  <2>2. ASSUME NEW u \in Users
        PROVE  Cardinality({c \in Conns : Holds(u, c)}) = IF step[u] = "idle" THEN 0 ELSE 1
    <3>1. CASE step[u] = "idle"
      <4>1. {c \in Conns : Holds(u, c)} = {}
        BY <1>1, <3>1 DEF IInv, Owning, HeldByStep
      <4>. QED  BY <3>1, <4>1, FS_EmptySet
    <3>2. CASE step[u] # "idle"
      <4>1. PICK c \in Conns : Holds(u, c)
        BY <1>1, <3>2 DEF IInv, Owning, HeldByStep
      <4>2. {d \in Conns : Holds(u, d)} = {c}
        BY <1>1, <4>1 DEF IInv, Owning, OneEach
      <4>. QED  BY <3>2, <4>2, FS_Singleton
    <3>. QED  BY <3>1, <3>2
  <2>. QED  BY <2>1, <2>2 DEF NoneLeaked
<1>. QED  BY Inductive, <1>1, PTL

\* The statements of a transaction never run outside one (begin,
\* tokio_postgres.rs:174-185).
THEOREM TxNotAutocommittedAlways == Spec => []TxNotAutocommitted
<1>1. IInv => TxNotAutocommitted
  BY DEF IInv, Owning
<1>. QED  BY Inductive, <1>1, PTL

\* Where no call is cancelled, a connection in the pool has no transaction open
\* (finish and Drop, tokio_postgres.rs:303-389).
THEOREM IdleIsCleanAlways == Spec => []IdleIsClean
<1>1. IInv => IdleIsClean
  BY DEF IInv, Owning, OpenIsOwned, IdleIsClean, ReleasedClean, Pooled
<1>. QED  BY Inductive, <1>1, PTL

-----------------------------------------------------------------------------
(* The refinement of PoolContract, for the runs without cancelled calls. *)

\* The pool as the contract sees it.
Owner == [c \in Conns |-> IF cancels THEN None ELSE conn[c].user]
Open  == [c \in Conns |-> ~cancels /\ conn[c].inTx]

\* A step on one connection.
LEMMA OneConnection ==
  ASSUME ~cancels, UNCHANGED cancels, TypeOK, TypeOK', NEW c \in Conns,
         \A d \in Conns \ {c} : conn'[d] = conn[d]
  PROVE  /\ Owner' = [Owner EXCEPT ![c] = conn'[c].user]
         /\ Open'  = [Open EXCEPT ![c] = conn'[c].inTx]
         /\ Owner[c] = conn[c].user /\ Open[c] = conn[c].inTx
<1>1. \A d \in Conns : conn[d].inTx \in BOOLEAN /\ conn'[d].inTx \in BOOLEAN
  BY DEF TypeOK
<1>2. Owner' = [Owner EXCEPT ![c] = conn'[c].user]
  BY DEF Owner
<1>3. Open' = [Open EXCEPT ![c] = conn'[c].inTx]
  BY <1>1 DEF Open
<1>. QED  BY <1>1, <1>2, <1>3 DEF Owner, Open

\* Steps that leave sessions and their users alone.
LEMMA Unseen ==
  ASSUME UNCHANGED cancels,
         \A c \in Conns : conn'[c].user = conn[c].user /\ conn'[c].inTx = conn[c].inTx
  PROVE  UNCHANGED Contract!vars
  BY DEF Contract!vars

\* Dropping an Object, by a caller, a task or the pool, releases the connection
\* (tokio_postgres.rs:308-317, 363-388).
LEMMA Releases ==
  ASSUME ~cancels, UNCHANGED cancels, TypeOK, TypeOK', NEW c \in Conns,
         conn[c].user # None, conn'[c].user = None, ~conn'[c].inTx,
         \A d \in Conns \ {c} : conn'[d] = conn[d]
  PROVE  Contract!Next
<1>1. conn[c].user \in Users
  BY DEF TypeOK
<1>2. Contract!Release(conn[c].user, c)
  BY OneConnection DEF Contract!Release, Owner, Open, TypeOK
<1>. QED  BY <1>1, <1>2 DEF Contract!Next

\* A session changes under its user.
LEMMA Uses ==
  ASSUME ~cancels, UNCHANGED cancels, TypeOK, TypeOK', NEW c \in Conns,
         conn[c].user # None, conn'[c].user = conn[c].user,
         \A d \in Conns \ {c} : conn'[d] = conn[d]
  PROVE  Contract!Next
<1>1. conn[c].user \in Users /\ conn'[c].inTx \in BOOLEAN
  BY DEF TypeOK
<1>2. Owner' = Owner
  BY DEF Owner
<1>3. Contract!Use(conn[c].user, c)
  BY <1>1, <1>2, OneConnection DEF Contract!Use, Owner, Open
<1>. QED  BY <1>1, <1>3 DEF Contract!Next

\* A free connection with no transaction on it is lent.
LEMMA Acquires ==
  ASSUME ~cancels, UNCHANGED cancels, TypeOK, TypeOK', NEW c \in Conns,
         conn[c].user = None, ~conn[c].inTx, conn'[c].user # None, ~conn'[c].inTx,
         \A d \in Conns \ {c} : conn'[d] = conn[d]
  PROVE  Contract!Next
<1>1. conn'[c].user \in Users
  BY DEF TypeOK
<1>2. Open' = Open
  BY DEF Open
<1>3. Contract!Acquire(conn'[c].user, c)
  BY <1>1, <1>2, OneConnection DEF Contract!Acquire, Owner, Open
<1>. QED  BY <1>1, <1>3 DEF Contract!Next

LEMMA StepRefines ==
  ASSUME IInv, IInv', [Next]_vars
  PROVE  [Contract!Next]_(Contract!vars)
<1>. USE DEF IInv, TypeOK, Goto, GiveBack, Session, Holds
<1>1. CASE UNCHANGED vars
  BY <1>1, Unseen DEF vars
<1>2. UNCHANGED cancels
  BY NextSplit DEF vars, Get, Returns, BeginSucceeds, Finish, CommitFails, DropTx, DropTxNoRuntime,
                   RollbackTask, Discard, SessionEnds
<1>3. CASE cancels
  BY <1>2, <1>3 DEF Contract!vars
<1>4. ASSUME ~cancels, NEW u \in Users, NEW purpose \in {"query", "begin"}, Get(u, purpose)
      PROVE  Contract!Next
  <2>1. PICK c \in Conns :
          /\ conn[c].place \in {"pooled", "absent"}
          /\ conn' = [conn EXCEPT ![c] = [place |-> "lent", user |-> u,
                                         alive |-> @.alive \/ @.place = "absent",
                                         inTx  |-> @.inTx]]
    BY <1>4 DEF Get, Pooled
  <2>2. conn[c].user = None /\ ~conn[c].inTx
    BY <1>4, <2>1 DEF Owning, OpenIsOwned
  <2>. QED  BY <1>2, <1>4, <2>1, <2>2, Acquires, PgAssumption
<1>5. ASSUME ~cancels, NEW u \in Users, Returns(u)
      PROVE  Contract!Next
  <2>1. PICK c \in Conns, open \in BOOLEAN :
          /\ Holds(u, c)
          /\ open => conn[c].inTx /\ step[u] \notin InTxSteps
          /\ GiveBack(c, open)
    BY <1>5 DEF Returns
  <2>2. ~open
    BY <1>5, <2>1 DEF Owning, OpenIsOwned
  <2>. QED  BY <1>2, <1>5, <2>1, <2>2, Releases, PgAssumption
<1>6. ASSUME ~cancels, NEW u \in Users, BeginSucceeds(u)
      PROVE  Contract!Next
  BY <1>2, <1>6, Uses, PgAssumption DEF BeginSucceeds
<1>7. ASSUME NEW u \in Users, NEW stmt \in {"commit", "rollback"}, Finish(u, stmt)
      PROVE  UNCHANGED Contract!vars
  BY <1>2, <1>7, Unseen DEF Finish
<1>8. ASSUME ~cancels, NEW u \in Users, CommitFails(u)
      PROVE  Contract!Next
  BY <1>2, <1>8, FailedCommit, Uses, PgAssumption
<1>9. ASSUME NEW u \in Users, DropTx(u) \/ DropTxNoRuntime(u)
      PROVE  UNCHANGED Contract!vars
  BY <1>2, <1>9, Unseen DEF DropTx, DropTxNoRuntime
<1>10. ASSUME ~cancels, NEW c \in Conns, RollbackTask(c)
       PROVE  Contract!Next
  BY <1>2, <1>10, Releases DEF RollbackTask
<1>11. ASSUME ~cancels, NEW c \in Conns, Discard(c)
       PROVE  [Contract!Next]_(Contract!vars)
  <2>1. CASE conn[c].place = "pooled"
    BY <1>2, <1>11, <2>1, Unseen DEF Discard, Absent
  <2>2. CASE conn[c].place = "detached"
    BY <1>2, <1>11, <2>2, Releases DEF Discard, Absent
  <2>. QED  BY <1>11, <2>1, <2>2 DEF Discard
<1>12. ASSUME ~cancels, NEW c \in Conns, SessionEnds(c)
       PROVE  [Contract!Next]_(Contract!vars)
  <2>1. CASE conn[c].user = None
    <3>1. ~conn[c].inTx
      BY <1>12, <2>1 DEF Owning, OpenIsOwned
    <3>. QED  BY <1>2, <1>12, <2>1, <3>1, Unseen DEF SessionEnds
  <2>2. CASE conn[c].user # None
    BY <1>2, <1>12, <2>2, Uses DEF SessionEnds
  <2>. QED  BY <2>1, <2>2
<1>. QED
  BY NextSplit, <1>1, <1>3, <1>4, <1>5, <1>6, <1>7, <1>8, <1>9, <1>10, <1>11, <1>12

\* Without cancellation every step of the pool is one of its contract, or none
\* of its business: nobody is lent a connection on which a transaction is open,
\* and a connection is free only after its ROLLBACK has been answered
\* (tokio_postgres.rs:159-389).
THEOREM RefinesContract == Spec => ImplementsContract
<1>1. ASSUME Init PROVE Contract!Init
  <2>1. \A c \in Conns : conn[c].user = None /\ conn[c].inTx = FALSE
    BY <1>1 DEF Init, Absent
  <2>2. Owner = [c \in Conns |-> None] /\ Open = [c \in Conns |-> FALSE]
    BY <2>1 DEF Owner, Open
  <2>. QED  BY <2>2 DEF Contract!Init, Owner, Open
<1>. QED  BY Inductive, <1>1, StepRefines, PTL DEF Spec, ImplementsContract, Contract!Spec
=============================================================================
