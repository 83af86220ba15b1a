------------------------- MODULE RusqlitePoolProofs -------------------------
(* For any number of connections and callers: the pool never loses or      *)
(* duplicates a connection, and never leaves a transaction open on one     *)
(* that it gives back.                                                     *)
EXTENDS RusqlitePool, FiniteSetTheorems, TLAPS

(* The inductive invariant.  Conserved speaks of idle and held only; the   *)
(* steps that move a connection are guarded by pc and those that open or   *)
(* end a transaction touch open, so the three have to be tied together.    *)

\* A thread holds a connection exactly in the states after the pop and
\* before the push.
HeldByPc == \A t \in Threads : held[t] = None <=> pc[t] \notin Holding

\* Conserved, taken apart.
AtMostOnce   == \A c \in Conns : idle[c] \in {0, 1}
NotBoth      == \A t \in Threads : held[t] # None => idle[held[t]] = 0
OneHolder    == \A t, u \in Threads : held[t] = held[u] /\ held[t] # None => t = u
NothingLost  == \A c \in Conns : idle[c] = 0 => \E t \in Threads : held[t] = c

\* An open transaction belongs to the thread that holds its connection.
OpenIsOwned == \A c \in Conns : open[c] =>
                  \E t \in Threads : held[t] = c /\ pc[t] \in {"tx", "failedCommit"}

IInv == /\ TypeOK /\ HeldByPc
        /\ AtMostOnce /\ NotBoth /\ OneHolder /\ NothingLost
        /\ OpenIsOwned

-----------------------------------------------------------------------------
LEMMA InitIInv == Init => IInv
  BY NoneAssumption DEF Init, IInv, TypeOK, HeldByPc, AtMostOnce, NotBoth,
     OneHolder, NothingLost, OpenIsOwned, States, Holding, InPop

\* Steps that move no connection and open or end no transaction.
QuietStep ==
    \/ UNCHANGED vars
    \/ \E t \in Threads :
         \/ \E purpose \in {"query", "tx"} : Ask(t, purpose)
         \/ Wait(t) \/ DeadlinePasses(t) \/ WakeAlone(t) \/ Exhausted(t)
         \/ QueryEnds(t) \/ QueryPanics(t) \/ BeginFails(t)
         \/ CommitFails(t) \/ TxPanics(t) \/ NotifyOne(t)

LEMMA QuietType == TypeOK /\ QuietStep => TypeOK'
  <1> SUFFICES ASSUME TypeOK, QuietStep PROVE TypeOK'
    OBVIOUS
  <1> USE DEF TypeOK, States, InPop, Holding, Goto
  <1>1. CASE UNCHANGED vars
    BY <1>1 DEF vars
  <1>2. ASSUME NEW t \in Threads, NEW purpose \in {"query", "tx"}, Ask(t, purpose)
        PROVE TypeOK'
    BY <1>2 DEF Ask
  <1>3. ASSUME NEW t \in Threads, Wait(t) PROVE TypeOK'
    BY <1>3 DEF Wait
  <1>4. ASSUME NEW t \in Threads, DeadlinePasses(t) PROVE TypeOK'
    BY <1>4 DEF DeadlinePasses
  <1>5. ASSUME NEW t \in Threads, WakeAlone(t) PROVE TypeOK'
    BY <1>5 DEF WakeAlone
  <1>6. ASSUME NEW t \in Threads, Exhausted(t) PROVE TypeOK'
    BY <1>6 DEF Exhausted
  <1>7. ASSUME NEW t \in Threads, QueryEnds(t) PROVE TypeOK'
    BY <1>7 DEF QueryEnds
  <1>8. ASSUME NEW t \in Threads, QueryPanics(t) PROVE TypeOK'
    BY <1>8 DEF QueryPanics
  <1>9. ASSUME NEW t \in Threads, BeginFails(t) PROVE TypeOK'
    BY <1>9 DEF BeginFails
  <1>10. ASSUME NEW t \in Threads, CommitFails(t) PROVE TypeOK'
    BY <1>10 DEF CommitFails
  <1>11. ASSUME NEW t \in Threads, TxPanics(t) PROVE TypeOK'
    BY <1>11 DEF TxPanics
  <1>12. ASSUME NEW t \in Threads, NotifyOne(t) PROVE TypeOK'
    <2>1. /\ UNCHANGED <<idle, open, poisoned, want, held, expired, waiters>>
          /\ pc' \in [Threads -> States]
      BY <1>12 DEF NotifyOne, Waiting
    <2> QED
      BY <2>1
  <1> QED
    BY <1>1, <1>2, <1>3, <1>4, <1>5, <1>6, <1>7, <1>8, <1>9, <1>10, <1>11, <1>12 DEF QuietStep

\* What a quiet step leaves alone: the free list, the holders, the open
\* transactions, and on which side of Holding each thread is.
LEMMA QuietFrame ==
  ASSUME TypeOK, QuietStep
  PROVE  /\ UNCHANGED <<idle, held, open>>
         /\ \A t \in Threads : pc'[t] \in Holding <=> pc[t] \in Holding
         /\ \A t \in Threads : pc[t] \in {"tx", "failedCommit"}
                                  => pc'[t] \in {"tx", "failedCommit"}
  <1> USE DEF TypeOK, States, InPop, Holding, Goto, Waiting
  <1>1. CASE UNCHANGED vars
    BY <1>1 DEF vars
  <1>2. ASSUME NEW t \in Threads,
               \/ \E purpose \in {"query", "tx"} : Ask(t, purpose)
               \/ Wait(t) \/ DeadlinePasses(t) \/ WakeAlone(t) \/ Exhausted(t)
        PROVE  /\ UNCHANGED <<idle, held, open>>
               /\ \A u \in Threads : pc'[u] \in Holding <=> pc[u] \in Holding
               /\ \A u \in Threads : pc[u] \in {"tx", "failedCommit"}
                                        => pc'[u] \in {"tx", "failedCommit"}
    BY <1>2 DEF Ask, Wait, DeadlinePasses, WakeAlone, Exhausted
  <1>3. ASSUME NEW t \in Threads,
               \/ QueryEnds(t) \/ QueryPanics(t) \/ BeginFails(t)
               \/ CommitFails(t) \/ TxPanics(t)
        PROVE  /\ UNCHANGED <<idle, held, open>>
               /\ \A u \in Threads : pc'[u] \in Holding <=> pc[u] \in Holding
               /\ \A u \in Threads : pc[u] \in {"tx", "failedCommit"}
                                        => pc'[u] \in {"tx", "failedCommit"}
    BY <1>3 DEF QueryEnds, QueryPanics, BeginFails, CommitFails, TxPanics
  <1>4. ASSUME NEW t \in Threads, NotifyOne(t)
        PROVE  /\ UNCHANGED <<idle, held, open>>
               /\ \A u \in Threads : pc'[u] \in Holding <=> pc[u] \in Holding
               /\ \A u \in Threads : pc[u] \in {"tx", "failedCommit"}
                                        => pc'[u] \in {"tx", "failedCommit"}
    BY <1>4 DEF NotifyOne
  <1> QED
    BY <1>1, <1>2, <1>3, <1>4 DEF QuietStep

LEMMA QuietIInv == IInv /\ QuietStep => IInv'
  <1> SUFFICES ASSUME IInv, QuietStep PROVE IInv'
    OBVIOUS
  <1>1. TypeOK'
    BY QuietType DEF IInv
  <1>2. /\ UNCHANGED <<idle, held, open>>
        /\ \A t \in Threads : pc'[t] \in Holding <=> pc[t] \in Holding
        /\ \A t \in Threads : pc[t] \in {"tx", "failedCommit"}
                                 => pc'[t] \in {"tx", "failedCommit"}
    BY QuietFrame DEF IInv
  <1>3. HeldByPc'
    BY <1>2 DEF IInv, HeldByPc
  <1>4. AtMostOnce' /\ NotBoth' /\ OneHolder' /\ NothingLost'
    BY <1>2 DEF IInv, AtMostOnce, NotBoth, OneHolder, NothingLost
  <1>5. OpenIsOwned'
    BY <1>2 DEF IInv, OpenIsOwned
  <1> QED
    BY <1>1, <1>3, <1>4, <1>5 DEF IInv

-----------------------------------------------------------------------------
\* Taking a connection out of the free list.
LEMMA PopIInv ==
  ASSUME IInv, NEW t \in Threads, NEW c \in Conns, Pop(t, c)
  PROVE  IInv'
  <1> USE DEF IInv, TypeOK, States, InPop, Holding, Goto, Pop
  <1>1. idle[c] = 1 /\ held[t] = None /\ \A u \in Threads : held[u] # c
    BY NoneAssumption DEF AtMostOnce, NotBoth, HeldByPc
  <1>2. TypeOK'
    BY <1>1
  <1>3. HeldByPc'
    BY NoneAssumption DEF HeldByPc
  <1>4. AtMostOnce' /\ NotBoth' /\ OneHolder'
    BY <1>1, NoneAssumption DEF AtMostOnce, NotBoth, OneHolder
  <1>5. NothingLost'
    <2> SUFFICES ASSUME NEW d \in Conns, idle'[d] = 0
                 PROVE  \E u \in Threads : held'[u] = d
      BY DEF NothingLost
    <2>1. CASE d = c
      BY <2>1
    <2>2. CASE d # c
      <3>1. PICK u \in Threads : held[u] = d
        BY <2>2 DEF NothingLost
      <3> QED
        BY <1>1, <2>2, <3>1, NoneAssumption
    <2> QED
      BY <2>1, <2>2
  <1>6. OpenIsOwned'
    BY <1>1 DEF OpenIsOwned
  <1> QED
    BY <1>2, <1>3, <1>4, <1>5, <1>6

\* Opening a transaction on the connection the thread holds.
LEMMA BeginIInv ==
  ASSUME IInv, NEW t \in Threads, Begin(t)
  PROVE  IInv'
  <1> USE DEF IInv, TypeOK, States, InPop, Holding, Goto, Begin
  <1>1. held[t] \in Conns
    BY DEF HeldByPc
  <1>2. TypeOK'
    BY <1>1
  <1>3. HeldByPc' /\ AtMostOnce' /\ NotBoth' /\ OneHolder' /\ NothingLost'
    BY DEF HeldByPc, AtMostOnce, NotBoth, OneHolder, NothingLost
  <1>4. OpenIsOwned'
    <2> SUFFICES ASSUME NEW c \in Conns, open'[c]
                 PROVE  \E u \in Threads : held'[u] = c /\ pc'[u] \in {"tx", "failedCommit"}
      BY DEF OpenIsOwned
    <2>1. CASE c = held[t]
      BY <2>1
    <2>2. CASE c # held[t]
      <3>1. PICK u \in Threads : held[u] = c /\ pc[u] \in {"tx", "failedCommit"}
        BY <2>2 DEF OpenIsOwned
      <3> QED
        BY <3>1, <2>2
    <2> QED
      BY <2>1, <2>2
  <1> QED
    BY <1>2, <1>3, <1>4

\* Ending the transaction on it, at the first attempt or after a failed COMMIT.
LEMMA EndIInv ==
  ASSUME IInv, NEW t \in Threads, EndTransaction(t) \/ RollbackAfterFailedCommit(t)
  PROVE  IInv'
  <1> USE DEF IInv, TypeOK, States, InPop, Holding, Goto, EndTransaction,
              RollbackAfterFailedCommit
  <1>1. held[t] \in Conns
    BY DEF HeldByPc
  <1>2. TypeOK'
    BY <1>1
  <1>3. HeldByPc' /\ AtMostOnce' /\ NotBoth' /\ OneHolder' /\ NothingLost'
    BY DEF HeldByPc, AtMostOnce, NotBoth, OneHolder, NothingLost
  <1>4. OpenIsOwned'
    <2> SUFFICES ASSUME NEW c \in Conns, open'[c]
                 PROVE  \E u \in Threads : held'[u] = c /\ pc'[u] \in {"tx", "failedCommit"}
      BY DEF OpenIsOwned
    <2>1. c # held[t] /\ open[c]
      BY <1>1
    <2>2. PICK u \in Threads : held[u] = c /\ pc[u] \in {"tx", "failedCommit"}
      BY <2>1 DEF OpenIsOwned
    <2> QED
      BY <2>1, <2>2
  <1> QED
    BY <1>2, <1>3, <1>4

\* Giving the connection back: the thread has no transaction open on it.
LEMMA ReturnIInv ==
  ASSUME IInv, NEW t \in Threads, Return(t)
  PROVE  IInv'
  <1> USE DEF IInv, TypeOK, States, InPop, Holding, Goto, Return
  <1>1. /\ held[t] \in Conns /\ idle[held[t]] = 0
        /\ \A u \in Threads \ {t} : held[u] # held[t]
    BY NoneAssumption DEF HeldByPc, NotBoth, OneHolder
  <1>2. ~open[held[t]]
    BY <1>1 DEF OpenIsOwned
  <1>3. TypeOK'
    BY <1>1
  <1>4. HeldByPc'
    BY DEF HeldByPc
  <1>5. AtMostOnce' /\ NotBoth' /\ OneHolder'
    BY <1>1, NoneAssumption DEF AtMostOnce, NotBoth, OneHolder
  <1>6. NothingLost'
    BY <1>1 DEF NothingLost
  <1>7. OpenIsOwned'
    <2> SUFFICES ASSUME NEW c \in Conns, open[c]
                 PROVE  \E u \in Threads : held'[u] = c /\ pc'[u] \in {"tx", "failedCommit"}
      BY DEF OpenIsOwned
    <2>1. PICK u \in Threads : held[u] = c /\ pc[u] \in {"tx", "failedCommit"}
      BY DEF OpenIsOwned
    <2>2. u # t
      BY <2>1
    <2> QED
      BY <2>1, <2>2
  <1> QED
    BY <1>3, <1>4, <1>5, <1>6, <1>7

LEMMA NextSplit ==
  ASSUME [Next]_vars
  PROVE  \/ QuietStep
         \/ \E t \in Threads : \/ \E c \in Conns : Pop(t, c)
                               \/ Begin(t) \/ Return(t)
                               \/ EndTransaction(t) \/ RollbackAfterFailedCommit(t)
  BY DEF Next, Internal, QuietStep

LEMMA NextIInv == IInv /\ [Next]_vars => IInv'
  <1> SUFFICES ASSUME IInv, [Next]_vars PROVE IInv'
    OBVIOUS
  <1>1. CASE QuietStep
    BY <1>1, QuietIInv
  <1>2. ASSUME NEW t \in Threads, \/ \E c \in Conns : Pop(t, c)
                                  \/ Begin(t) \/ Return(t)
                                  \/ EndTransaction(t) \/ RollbackAfterFailedCommit(t)
        PROVE IInv'
    BY <1>2, PopIInv, BeginIInv, EndIInv, ReturnIInv
  <1> QED
    BY <1>1, <1>2, NextSplit

THEOREM Inductive == Spec => []IInv
  BY InitIInv, NextIInv, PTL DEF Spec

\* Every reachable state is well typed (the state of crates/runtime/src/rusqlite.rs).
THEOREM TypeCorrect == Spec => []TypeOK
  <1>1. IInv => TypeOK
    BY DEF IInv
  <1> QED
    BY <1>1, Inductive, PTL

\* No connection is ever lost or held twice (rusqlite.rs:371, 468).
THEOREM ConservedAlways == Spec => []Conserved
  <1>1. IInv => Conserved
    <2> SUFFICES ASSUME IInv, NEW c \in Conns
                 PROVE  \/ idle[c] = 1 /\ \A t \in Threads : held[t] # c
                        \/ idle[c] = 0 /\ \E t \in Threads :
                              held[t] = c /\ \A u \in Threads \ {t} : held[u] # c
      BY DEF Conserved
    <2>1. CASE idle[c] = 1
      BY <2>1, NoneAssumption DEF IInv, NotBoth
    <2>2. CASE idle[c] = 0
      BY <2>2, NoneAssumption DEF IInv, NothingLost, OneHolder
    <2> QED
      BY <2>1, <2>2 DEF IInv, AtMostOnce
  <1> QED
    BY <1>1, Inductive, PTL

\* A connection in the free list has no transaction open (rusqlite.rs:519).
THEOREM IdleIsCleanAlways == Spec => []IdleIsClean
  <1>1. IInv => IdleIsClean
    BY NoneAssumption DEF IInv, TypeOK, IdleIsClean, OpenIsOwned, NotBoth
  <1> QED
    BY <1>1, Inductive, PTL

\* One-shot statements run outside any transaction (rusqlite.rs:620-692).
THEOREM OneShotOutsideTxAlways == Spec => []OneShotOutsideTx
  <1>1. IInv => OneShotOutsideTx
    <2> SUFFICES ASSUME IInv, NEW t \in Threads, pc[t] = "query", open[held[t]]
                 PROVE  FALSE
      BY DEF OneShotOutsideTx
    <2>1. held[t] \in Conns
      BY DEF IInv, TypeOK, HeldByPc, Holding
    <2>2. PICK u \in Threads : held[u] = held[t] /\ pc[u] \in {"tx", "failedCommit"}
      BY <2>1 DEF IInv, OpenIsOwned
    <2>3. u = t
      BY <2>1, <2>2, NoneAssumption DEF IInv, OneHolder
    <2> QED
      BY <2>2, <2>3
  <1> QED
    BY <1>1, Inductive, PTL

-----------------------------------------------------------------------------
(* No lost wake-up.  It is inductive with AtMostOnce: only Return adds to  *)
(* the free list, and it adds a thread that is about to notify; a thread   *)
(* that was woken goes away only with a connection, or from an empty list. *)

LEMMA SetsFinite ==
  /\ IsFiniteSet(Waiting) /\ IsFiniteSet(Woken) /\ IsFiniteSet(Notifying)
  /\ IsFiniteSet(FreeList)
  <1>1. /\ Waiting \in SUBSET Threads /\ Woken \in SUBSET Threads /\ Notifying \in SUBSET Threads
        /\ FreeList \in SUBSET Conns
    BY DEF Waiting, Woken, Notifying, FreeList
  <1> QED
    BY <1>1, FS_Subset, ThreadsAssumption, ConnsAssumption

\* Threads on their way to a connection.
Helpers == Cardinality(Woken) + Cardinality(Notifying)

LEMMA HelpersCount ==
  /\ Cardinality(Woken) \in Nat /\ Cardinality(Notifying) \in Nat
  /\ Helpers \in Nat /\ Cardinality(FreeList) \in Nat
  BY SetsFinite, FS_CardinalityType DEF Helpers

\* Where a step of t leaves the three sets.
LEMMA MovedTo ==
  ASSUME TypeOK, NEW t \in Threads, NEW s \in States, Goto(t, s)
  PROVE  /\ Waiting' = IF s = "waiting" THEN Waiting \cup {t} ELSE Waiting \ {t}
         /\ Woken' = IF s = "woken" THEN Woken \cup {t} ELSE Woken \ {t}
         /\ Notifying' = IF s = "notify" THEN Notifying \cup {t} ELSE Notifying \ {t}
  BY DEF Goto, TypeOK, Waiting, Woken, Notifying

\* A thread that neither helps nor waits moves on, and the free list stays.
LEMMA BystanderKeeps ==
  ASSUME TypeOK, NoLostWakeup, NEW t \in Threads, NEW s \in States \ {"waiting", "woken", "notify"},
         Goto(t, s), pc[t] \notin {"waiting", "woken", "notify"}, idle' = idle
  PROVE  NoLostWakeup'
  <1>1. Waiting' = Waiting /\ Woken' = Woken /\ Notifying' = Notifying
    BY MovedTo DEF Waiting, Woken, Notifying
  <1> QED
    BY <1>1 DEF NoLostWakeup, FreeList

\* While nothing is free, nobody is missed.
LEMMA NothingToMiss ==
  ASSUME TypeOK, IsEmpty, idle' = idle
  PROVE  NoLostWakeup'
  <1>1. FreeList' = {}
    BY DEF FreeList, IsEmpty, TypeOK
  <1>2. Cardinality(Woken)' \in Nat /\ Cardinality(Notifying)' \in Nat
    <2>1. Woken' \in SUBSET Threads /\ Notifying' \in SUBSET Threads
      BY DEF Woken, Notifying
    <2>2. IsFiniteSet(Woken') /\ IsFiniteSet(Notifying')
      BY <2>1, FS_Subset, ThreadsAssumption
    <2> QED
      BY <2>2, FS_CardinalityType
  <1> QED
    BY <1>1, <1>2, FS_EmptySet DEF NoLostWakeup

LEMMA PopWakes ==
  ASSUME IInv, NoLostWakeup, NEW t \in Threads, NEW c \in Conns, Pop(t, c)
  PROVE  NoLostWakeup'
  <1>1. /\ pc[t] \in {"asking", "woken"} /\ idle[c] > 0 /\ idle' = [idle EXCEPT ![c] = @ - 1]
        /\ \E s \in {"begin", "query"} : Goto(t, s)
    BY DEF Pop
  <1>2. TypeOK /\ idle[c] = 1
    BY <1>1 DEF IInv, AtMostOnce
  <1>3. FreeList' = FreeList \ {c} /\ c \in FreeList
    BY <1>1, <1>2 DEF FreeList, TypeOK
  <1>4. /\ Waiting' = Waiting
        /\ Woken' = Woken \ {t} /\ Notifying' = Notifying
    BY <1>1, <1>2, MovedTo DEF Waiting, Notifying, States, Holding
  <1>5. Cardinality(FreeList') = Cardinality(FreeList) - 1
    BY <1>3, SetsFinite, FS_RemoveElement
  <1>6. Cardinality(Woken') >= Cardinality(Woken) - 1
    BY <1>4, SetsFinite, HelpersCount, FS_RemoveElement
  <1>7. /\ Cardinality(Woken') \in Nat /\ Cardinality(Notifying') = Cardinality(Notifying)
    <2>1. IsFiniteSet(Woken')
      BY <1>4, SetsFinite, FS_RemoveElement
    <2> QED
      BY <1>4, <2>1, FS_CardinalityType
  <1> QED
    BY <1>4, <1>5, <1>6, <1>7, HelpersCount DEF NoLostWakeup

LEMMA ReturnWakes ==
  ASSUME IInv, NoLostWakeup, NEW t \in Threads, Return(t)
  PROVE  NoLostWakeup'
  <1> DEFINE c == held[t]
  <1>1. /\ pc[t] = "returning" /\ idle' = [idle EXCEPT ![c] = @ + 1]
        /\ Goto(t, "notify")
    BY DEF Return
  <1>2. TypeOK /\ c \in Conns
    BY <1>1 DEF IInv, TypeOK, HeldByPc, Holding
  <1> HIDE DEF c
  <1>3. FreeList' = FreeList \cup {c}
    BY <1>1, <1>2 DEF FreeList, TypeOK
  <1>4. /\ Waiting' = Waiting /\ Woken' = Woken
        /\ Notifying' = Notifying \cup {t} /\ t \notin Notifying
    BY <1>1, <1>2, MovedTo DEF Waiting, Woken, Notifying, States
  <1>5. Cardinality(FreeList') <= Cardinality(FreeList) + 1 /\ Cardinality(FreeList') \in Nat
    <2>1. IsFiniteSet(FreeList')
      BY <1>3, SetsFinite, FS_AddElement
    <2> QED
      BY <1>3, <2>1, SetsFinite, HelpersCount, FS_AddElement, FS_CardinalityType
  <1>6. Cardinality(Notifying') = Cardinality(Notifying) + 1
    BY <1>4, SetsFinite, FS_AddElement
  <1> QED
    BY <1>4, <1>5, <1>6, HelpersCount DEF NoLostWakeup

LEMMA NotifyWakes ==
  ASSUME IInv, NoLostWakeup, NEW t \in Threads, NotifyOne(t)
  PROVE  NoLostWakeup'
  <1>1. TypeOK /\ pc[t] = "notify" /\ FreeList' = FreeList
    BY DEF IInv, NotifyOne, FreeList
  <1>2. CASE Waiting = {}
    <2>1. Waiting' = {}
      BY <1>1, <1>2, MovedTo DEF NotifyOne, Waiting, States
    <2> QED
      BY <2>1 DEF NoLostWakeup
  <1>3. CASE Waiting # {}
    <2>1. PICK w \in Waiting : pc' = [pc EXCEPT ![t] = "out", ![w] = "woken"]
      BY <1>3 DEF NotifyOne
    <2>2. /\ Woken' = Woken \cup {w} /\ w \notin Woken
          /\ Notifying' = Notifying \ {t} /\ t \in Notifying
      BY <1>1, <2>1 DEF Waiting, Woken, Notifying, TypeOK
    <2>3. /\ Cardinality(Woken') = Cardinality(Woken) + 1
          /\ Cardinality(Notifying') = Cardinality(Notifying) - 1
      BY <2>2, SetsFinite, FS_AddElement, FS_RemoveElement
    <2> QED
      BY <1>1, <1>3, <2>3, HelpersCount DEF NoLostWakeup
  <1> QED
    BY <1>2, <1>3

\* A thread wakes without having been notified: one more on its way.
LEMMA WakeAloneWakes ==
  ASSUME IInv, NoLostWakeup, NEW t \in Threads, WakeAlone(t)
  PROVE  NoLostWakeup'
  <1>1. TypeOK /\ pc[t] = "waiting" /\ FreeList' = FreeList /\ Goto(t, "woken")
    BY DEF IInv, WakeAlone, FreeList
  <1>2. /\ Waiting # {} /\ Woken' = Woken \cup {t} /\ t \notin Woken /\ Notifying' = Notifying
    BY <1>1, MovedTo DEF Waiting, Woken, Notifying, States, InPop
  <1>3. Cardinality(Woken') = Cardinality(Woken) + 1
    BY <1>2, SetsFinite, FS_AddElement
  <1> QED
    BY <1>1, <1>2, <1>3, HelpersCount DEF NoLostWakeup

LEMMA NextWakes ==
  ASSUME IInv, NoLostWakeup, [Next]_vars
  PROVE  NoLostWakeup'
  <1>0. TypeOK
    BY DEF IInv
  <1>1. CASE UNCHANGED vars
    BY <1>1 DEF vars, NoLostWakeup, Waiting, Woken, Notifying, FreeList
  <1>2. ASSUME NEW t \in Threads, Wait(t) \/ Exhausted(t) PROVE NoLostWakeup'
    BY <1>0, <1>2, NothingToMiss DEF Wait, Exhausted
  <1>3. ASSUME NEW t \in Threads, NEW purpose \in {"query", "tx"}, Ask(t, purpose)
        PROVE  NoLostWakeup'
    BY <1>0, <1>3, BystanderKeeps DEF Ask, States, InPop
  <1>4. ASSUME NEW t \in Threads, DeadlinePasses(t) \/ TxPanics(t) PROVE NoLostWakeup'
    BY <1>4 DEF DeadlinePasses, TxPanics, NoLostWakeup, Waiting, Woken, Notifying, FreeList
  <1>5. ASSUME NEW t \in Threads,
               \/ QueryEnds(t) \/ QueryPanics(t) \/ Begin(t) \/ BeginFails(t)
               \/ EndTransaction(t) \/ CommitFails(t) \/ RollbackAfterFailedCommit(t)
        PROVE  NoLostWakeup'
    <2>1. /\ pc[t] \notin {"waiting", "woken", "notify"} /\ idle' = idle
          /\ \E s \in {"returning", "tx", "failedCommit"} : Goto(t, s)
      BY <1>5 DEF QueryEnds, QueryPanics, Begin, BeginFails, EndTransaction, CommitFails,
                  RollbackAfterFailedCommit
    <2> QED
      BY <1>0, <2>1, BystanderKeeps DEF States, Holding
  <1> QED
    BY <1>1, <1>2, <1>3, <1>4, <1>5, PopWakes, ReturnWakes, NotifyWakes, WakeAloneWakes
       DEF Next, Internal

\* While threads wait, every free connection has a thread on its way to it,
\* though the push and the notification are two steps, and callers barge in
\* between (rusqlite.rs:201-234, 260-265).
THEOREM NoneSleepsInVain == Spec => []NoLostWakeup
  <1>1. Init => NoLostWakeup
    BY DEF Init, NoLostWakeup, Waiting
  <1>2. IInv /\ NoLostWakeup /\ [Next]_vars => NoLostWakeup'
    BY NextWakes
  <1> QED
    BY <1>1, <1>2, Inductive, PTL DEF Spec

-----------------------------------------------------------------------------
(* The refinement of PoolContract. *)

\* The owner of a connection, as the contract sees it.
Owner == [c \in Conns |-> IF idle[c] > 0 THEN None ELSE HolderOf(c)]

\* The contract's owner of a held connection is its one holder.
LEMMA OwnerIsHolder ==
  ASSUME IInv, NEW t \in Threads, NEW c \in Conns, held[t] = c
  PROVE  Owner[c] = t
  <1>1. idle[c] = 0
    BY NoneAssumption DEF IInv, NotBoth
  <1>2. \A u \in Threads : held[u] = c => u = t
    BY NoneAssumption DEF IInv, OneHolder
  <1>3. HolderOf(c) = t
    BY <1>2 DEF HolderOf
  <1> QED
    BY <1>1, <1>3 DEF Owner

\* Steps that move no connection leave every owner as it is.
LEMMA OwnerFrame ==
  ASSUME UNCHANGED <<idle, held>>
  PROVE  Owner' = Owner
  BY DEF Owner, HolderOf

LEMMA PopRefines ==
  ASSUME IInv, IInv', NEW t \in Threads, NEW c \in Conns, Pop(t, c)
  PROVE  Contract!Acquire(t, c)
  <1>1. idle[c] = 1 /\ ~open[c]
    BY NoneAssumption DEF Pop, IInv, TypeOK, AtMostOnce, NotBoth, OpenIsOwned
  <1>2. held[t] = None /\ held' = [held EXCEPT ![t] = c]
    BY DEF Pop, IInv, HeldByPc, Holding
  <1>3. Owner[c] = None /\ Owner'[c] = t
    <2>1. held'[t] = c
      BY <1>2 DEF IInv, TypeOK
    <2>2. \A v \in Threads : held'[v] = c => v = t
      BY <2>1, NoneAssumption DEF IInv, OneHolder
    <2>3. HolderOf(c)' = t
      BY <2>1, <2>2 DEF HolderOf
    <2>4. idle'[c] = 0
      BY <1>1 DEF Pop, IInv, TypeOK
    <2> QED
      BY <1>1, <2>3, <2>4 DEF Owner
  <1>4. ASSUME NEW d \in Conns, d # c PROVE Owner'[d] = Owner[d]
    <2>1. idle'[d] = idle[d] /\ idle[d] \in {0, 1}
      BY <1>4 DEF Pop, IInv, TypeOK, AtMostOnce
    <2>2. CASE idle[d] = 1
      BY <2>1, <2>2 DEF Owner
    <2>3. CASE idle[d] = 0
      <3>1. PICK u \in Threads : held[u] = d
        BY <2>3 DEF IInv, NothingLost
      <3>2. held'[u] = d
        BY <1>2, <3>1, NoneAssumption DEF IInv, TypeOK
      <3>3. Owner[d] = u
        BY <3>1, OwnerIsHolder
      <3>4. \A v \in Threads : held'[v] = d => v = u
        BY <3>2, NoneAssumption DEF IInv, OneHolder
      <3>5. HolderOf(d)' = u
        BY <3>2, <3>4 DEF HolderOf
      <3> QED
        BY <2>1, <2>3, <3>3, <3>5 DEF Owner
    <2> QED
      BY <2>1, <2>2, <2>3
  <1>5. Owner' = [Owner EXCEPT ![c] = t]
    BY <1>3, <1>4 DEF Owner
  <1> QED
    BY <1>1, <1>3, <1>5 DEF Contract!Acquire, Owner, Pop

LEMMA ReturnRefines ==
  ASSUME IInv, IInv', NEW t \in Threads, NEW c \in Conns, held[t] = c, Return(t)
  PROVE  Contract!Release(t, c)
  <1>1. c \in Conns /\ idle[c] = 0
    BY NoneAssumption DEF Return, IInv, TypeOK, HeldByPc, NotBoth, Holding
  <1>2. ~open[c]
    <2> SUFFICES ASSUME open[c] PROVE FALSE
      OBVIOUS
    <2>1. PICK u \in Threads : held[u] = c /\ pc[u] \in {"tx", "failedCommit"}
      BY <1>1 DEF IInv, OpenIsOwned
    <2> QED
      BY <1>1, <2>1, NoneAssumption DEF IInv, OneHolder, Return
  <1>3. Owner[c] = t
    BY <1>1, OwnerIsHolder
  <1>4. Owner'[c] = None
    <2>1. idle'[c] = 1
      BY <1>1 DEF Return, IInv, TypeOK
    <2> QED
      BY <1>1, <2>1 DEF Owner
  <1>5. ASSUME NEW d \in Conns, d # c PROVE Owner'[d] = Owner[d]
    <2>1. idle'[d] = idle[d] /\ idle[d] \in {0, 1}
      BY <1>1, <1>5 DEF Return, IInv, TypeOK, AtMostOnce
    <2>2. CASE idle[d] = 1
      BY <2>1, <2>2 DEF Owner
    <2>3. CASE idle[d] = 0
      <3>1. PICK u \in Threads : held[u] = d
        BY <2>3 DEF IInv, NothingLost
      <3>2. held'[u] = d
        BY <1>5, <3>1 DEF Return, IInv, TypeOK
      <3>3. Owner[d] = u
        BY <3>1, OwnerIsHolder
      <3>4. \A v \in Threads : held'[v] = d => v = u
        BY <3>2, NoneAssumption DEF IInv, OneHolder
      <3>5. HolderOf(d)' = u
        BY <3>2, <3>4 DEF HolderOf
      <3> QED
        BY <2>1, <2>3, <3>3, <3>5 DEF Owner
    <2> QED
      BY <2>1, <2>2, <2>3
  <1>6. Owner' = [Owner EXCEPT ![c] = None]
    BY <1>4, <1>5 DEF Owner
  <1>7. open' = [open EXCEPT ![c] = FALSE]
    BY <1>1, <1>2 DEF Return, IInv, TypeOK
  <1> QED
    BY <1>1, <1>3, <1>6, <1>7 DEF Contract!Release, Owner

\* Opening and ending a transaction is the owner's own business.
LEMMA UseRefines ==
  ASSUME IInv, NEW t \in Threads, NEW c \in Conns, held[t] = c,
         Begin(t) \/ EndTransaction(t) \/ RollbackAfterFailedCommit(t)
  PROVE  Contract!Use(t, c)
  <1>1. Owner[c] = t
    BY OwnerIsHolder
  <1>2. Owner' = Owner
    BY OwnerFrame DEF Begin, EndTransaction, RollbackAfterFailedCommit
  <1>3. \E b \in BOOLEAN : open' = [open EXCEPT ![c] = b]
    BY DEF Begin, EndTransaction, RollbackAfterFailedCommit
  <1> QED
    BY <1>1, <1>2, <1>3 DEF Contract!Use, Owner

LEMMA StepRefines ==
  ASSUME IInv, IInv', [Next]_vars
  PROVE  [Contract!Next]_(Contract!vars)
  <1>1. CASE QuietStep
    <2>1. UNCHANGED <<idle, held, open>>
      BY <1>1, QuietFrame DEF IInv
    <2> QED
      BY <2>1, OwnerFrame DEF Contract!vars, Owner
  <1>2. ASSUME NEW t \in Threads, NEW c \in Conns, Pop(t, c)
        PROVE  Contract!Next
    BY <1>2, PopRefines DEF Contract!Next
  <1>3. ASSUME NEW t \in Threads, Return(t)
        PROVE  Contract!Next
    <2>1. held[t] \in Conns
      BY <1>3 DEF Return, IInv, TypeOK, HeldByPc, Holding
    <2>2. PICK c \in Conns : held[t] = c
      BY <2>1
    <2> QED
      BY <1>3, <2>2, ReturnRefines DEF Contract!Next
  <1>4. ASSUME NEW t \in Threads,
               Begin(t) \/ EndTransaction(t) \/ RollbackAfterFailedCommit(t)
        PROVE  Contract!Next
    <2>1. held[t] \in Conns
      BY <1>4 DEF Begin, EndTransaction, RollbackAfterFailedCommit, IInv, TypeOK,
                  HeldByPc, Holding
    <2>2. PICK c \in Conns : held[t] = c
      BY <2>1
    <2> QED
      BY <1>4, <2>2, UseRefines DEF Contract!Next
  <1> QED
    BY <1>1, <1>2, <1>3, <1>4, NextSplit

\* The pool implements PoolContract, whatever its size and its callers
\* (rusqlite.rs:360-375).
THEOREM RefinesContract == Spec => ImplementsContract
  <1>1. Init => Contract!Init
    BY DEF Init, Contract!Init
  <1>2. IInv /\ IInv' /\ [Next]_vars => [Contract!Next]_(Contract!vars)
    BY StepRefines
  <1> QED
    BY <1>1, <1>2, Inductive, PTL DEF Spec, Contract!Spec, ImplementsContract
=============================================================================
