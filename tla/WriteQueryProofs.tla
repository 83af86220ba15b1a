------------------------- MODULE WriteQueryProofs -------------------------
(***************************************************************************)
(* A call of the write builders that returns an error has changed nothing  *)
(* for good (ErrorsLeaveNothing of WriteQuery), for every set of rows,     *)
(* every call, any number of clients and any failures.                     *)
(*                                                                         *)
(* The argument has three parts. What a call sends has one of four shapes  *)
(* (StepsAre): nothing, one statement, BEGIN ... COMMIT, or the chunks of  *)
(* an insert without a transaction. What a statement changes leaves rows   *)
(* of their kinds, and so does what a rollback puts back (EffectFits,      *)
(* KeepFits, RollbackFits). Then the inductive invariant IInv says of      *)
(* every client where in its shape it stands, and there is a lemma per     *)
(* action that the action keeps it.                                        *)
(***************************************************************************)
EXTENDS WriteQuery, FiniteSetTheorems, WellFoundedInduction, TLAPS

-----------------------------------------------------------------------------
(* Lists of statements.                                                     *)

\* A set of numbers that is not empty has a least one.
LEMMA SmallestNumber ==
  ASSUME NEW S, S \subseteq Nat, S # {}
  PROVE  \E m \in S : \A l \in S : m <= l
<1> DEFINE R == OpToRel(<, Nat)
<1>1. \A x, y \in Nat : <<x, y>> \in R <=> x < y
  BY DEF OpToRel
<1>2. IsWellFoundedOn(R, Nat)
  BY NatLessThanWellFounded
<1> HIDE DEF R
<1>3. PICK m \in S : \A l \in S : ~(<<l, m>> \in R)
  BY <1>2, WFMin
<1>4. \A l \in S : l \in Nat /\ m \in Nat /\ ~(l < m)
  BY <1>1, <1>3
<1>. QED  BY <1>4

\* The concatenation FlattenSeq defines by recursion is there: f[i] is that of
\* the first i lists.
FlattensTo(f, seqs, n) ==
  f = [i \in 1..n |-> IF i = 1 THEN seqs[i] ELSE f[i - 1] \o seqs[i]]

\* There is such a function, whatever the lists.
LEMMA FlattenExists ==
  ASSUME NEW seqs, NEW n \in Nat
  PROVE  \E f : FlattensTo(f, seqs, n)
<1> SUFFICES ASSUME ~\E f : FlattensTo(f, seqs, n)
             PROVE  FALSE
  OBVIOUS
<1> DEFINE S == {m \in Nat : ~\E f : FlattensTo(f, seqs, m)}
<1>1. S \subseteq Nat /\ n \in S
  OBVIOUS
<1>2. PICK m \in S : \A l \in S : m <= l
  <2> HIDE DEF S
  <2>. QED  BY <1>1, SmallestNumber
<1>3. m # 0
  <2>1. FlattensTo([i \in 1..0 |-> i], seqs, 0)
    BY DEF FlattensTo
  <2>. QED  BY <1>2, <2>1
<1>4. m \in Nat /\ m - 1 \in Nat /\ m - 1 \notin S
  BY <1>2, <1>3
<1>5. PICK f : FlattensTo(f, seqs, m - 1)
  BY <1>4
<1> DEFINE g == [i \in 1..m |-> IF i < m THEN f[i]
                                ELSE IF m = 1 THEN seqs[m] ELSE f[m - 1] \o seqs[m]]
<1>6. \A i \in 1..m : g[i] = IF i = 1 THEN seqs[i] ELSE g[i - 1] \o seqs[i]
  <2> TAKE i \in 1..m
  <2>1. CASE i < m
    <3>1. i \in 1..(m - 1) /\ g[i] = f[i]
      BY <1>4, <2>1
    <3>2. f[i] = IF i = 1 THEN seqs[i] ELSE f[i - 1] \o seqs[i]
      BY <1>5, <3>1 DEF FlattensTo
    <3>3. i # 1 => g[i - 1] = f[i - 1]
      BY <1>4, <2>1
    <3>. QED  BY <3>1, <3>2, <3>3
  <2>2. CASE i = m
    <3>1. m # 1 => g[m - 1] = f[m - 1]
      BY <1>4, <1>3
    <3>. QED  BY <2>2, <3>1
  <2>. QED  BY <1>4, <2>1, <2>2
<1>7. FlattensTo(g, seqs, m)
  <2>1. g = [i \in 1..m |-> g[i]]
    OBVIOUS
  <2> HIDE DEF g
  <2>. QED  BY <1>6, <2>1 DEF FlattensTo
<1>. QED  BY <1>2, <1>7

\* What FlattenSeq joins are the elements of its lists.
LEMMA FlattenIsSeq ==
  ASSUME NEW E, NEW seqs, NEW n \in Nat, Len(seqs) = n, n = 0 => seqs = <<>>,
         \A i \in 1..n : seqs[i] \in Seq(E)
  PROVE  FlattenSeq(seqs) \in Seq(E)
<1>1. CASE n = 0
  <2>1. FlattenSeq(seqs) = <<>>
    BY <1>1 DEF FlattenSeq
  <2>. QED  BY <2>1
<1>2. CASE n # 0
  <2> DEFINE f == CHOOSE f : FlattensTo(f, seqs, n)
  <2>1. FlattensTo(f, seqs, n)
    BY FlattenExists
  <2>2. FlattenSeq(seqs) = f[n]
    <3>1. FlattenSeq(seqs) = (CHOOSE h : h = [i \in 1..n |-> IF i = 1 THEN seqs[i] ELSE h[i - 1] \o seqs[i]])[n]
      BY <1>2 DEF FlattenSeq
    <3>. QED  BY <3>1 DEF FlattensTo
  <2> HIDE DEF f
  <2> DEFINE S == {m \in Nat : m \in 1..n /\ f[m] \notin Seq(E)}
  <2>3. S = {}
    <3> SUFFICES ASSUME S # {}
                 PROVE  FALSE
      OBVIOUS
    <3>1. PICK m \in S : \A l \in S : m <= l
      <4>1. S \subseteq Nat
        OBVIOUS
      <4> HIDE DEF S
      <4>. QED  BY <4>1, SmallestNumber
    <3>2. m \in 1..n /\ f[m] \notin Seq(E)
      BY <3>1
    <3>3. f[m] = IF m = 1 THEN seqs[m] ELSE f[m - 1] \o seqs[m]
      BY <2>1, <3>2 DEF FlattensTo
    <3>4. CASE m = 1
      BY <3>2, <3>3, <3>4
    <3>5. CASE m # 1
      <4>1. m - 1 \in 1..n
        BY <3>2, <3>5
      <4>2. f[m - 1] \in Seq(E)
        BY <3>1, <4>1
      <4>. QED  BY <3>2, <3>3, <3>5, <4>2
    <3>. QED  BY <3>4, <3>5
  <2>. QED  BY <1>2, <2>2, <2>3
<1>. QED  BY <1>1, <1>2

\* The lists a call joins are given one by one.
LEMMA FlattenOf ==
  ASSUME NEW E, NEW n \in Nat, NEW seqs, seqs = [i \in 1..n |-> seqs[i]],
         \A i \in 1..n : seqs[i] \in Seq(E)
  PROVE  FlattenSeq(seqs) \in Seq(E)
<1>1. seqs \in Seq(Seq(E))
  OBVIOUS
<1>2. Len(seqs) = n
  BY <1>1
<1>3. n = 0 => seqs = <<>>
  BY <1>1, <1>2
<1>. QED  BY <1>2, <1>3, FlattenIsSeq

\* A finite set makes a list of its elements.
LEMMA SetToSeqIs ==
  ASSUME NEW S, IsFiniteSet(S)
  PROVE  /\ SetToSeq(S) \in [1..Cardinality(S) -> S]
         /\ Cardinality(S) \in Nat
         /\ SetToSeq(S) \in Seq(S) /\ Len(SetToSeq(S)) = Cardinality(S)
<1>1. Cardinality(S) \in Nat /\ ExistsBijection(1..Cardinality(S), S)
  BY FS_CardinalityType
<1>2. \E f \in [1..Cardinality(S) -> S] : IsInjective(f)
  BY <1>1 DEF ExistsBijection, Bijection, Injection, IsInjective
<1>3. SetToSeq(S) \in [1..Cardinality(S) -> S]
  BY <1>2 DEF SetToSeq
<1>. QED  BY <1>1, <1>3

-----------------------------------------------------------------------------
(* What a call sends between BEGIN and COMMIT.                              *)

\* The statements and lookups a call makes between BEGIN and COMMIT, with what
\* each carries. Neither BEGIN nor COMMIT is one of them.
BodySteps ==
  [op : {"one more"} \cup Refusals]
  \cup [op : {"insert author"}, key : Authors, x : 0 .. 1, conflict : {"none", "nothing", "update"}]
  \cup [op : {"insert posts", "connect", "disconnect", "delete posts"}, posts : SUBSET Posts, author : Authors]
  \cup [op : {"disconnect all", "read children"}, author : Authors]
  \cup [op : {"connect found", "find"}, item : NestedOps, author : Authors]
  \cup [op : {"delete links", "insert links"}, author : Authors, ids : SUBSET Tags]
  \cup [op : {"update"}, filter : Filters, set : {"nothing", "x", "deleted"}, x : 0 .. 1]
  \cup [op : {"delete", "cascade", "set null", "restrict"}, filter : Filters]
  \cup [op : {"parents"}, k : UpdateCalls]
  \cup [op : {"read back"}, key : Authors]
  \cup [op : {"read rows"}, posts : SUBSET Posts]
  \cup [op : {"load targets"}, ids : SUBSET Tags]

\* One step is a list.
LEMMA OneStep ==
  ASSUME NEW s \in BodySteps
  PROVE  <<s>> \in Seq(BodySteps)
  OBVIOUS

\* Two steps are a list.
LEMMA TwoSteps ==
  ASSUME NEW s \in BodySteps, NEW t \in BodySteps
  PROVE  <<s, t>> \in Seq(BodySteps)
<1> HIDE DEF BodySteps
<1>. QED  OBVIOUS

\* A function over 1..n whose values are steps is a list of them.
LEMMA ListIs ==
  ASSUME NEW n \in Nat, NEW f, DOMAIN f = 1..n, f = [i \in 1..n |-> f[i]], \A i \in 1..n : f[i] \in BodySteps
  PROVE  f \in Seq(BodySteps)
<1>1. f \in [1..n -> BodySteps]
  OBVIOUS
<1>. QED  BY <1>1

\* No step is a list.
LEMMA NoStep == <<>> \in Seq(BodySteps)
  OBVIOUS

\* Two lists one after the other are a list (Vec::extend).
LEMMA StepsJoined ==
  ASSUME NEW s \in Seq(BodySteps), NEW t \in Seq(BodySteps)
  PROVE  s \o t \in Seq(BodySteps)
  OBVIOUS

\* The posts of a call are finitely many.
LEMMA FinitePosts ==
  ASSUME NEW ps \in SUBSET Posts
  PROVE  IsFiniteSet(ps)
  BY WriteAssumption, FS_Subset

\* The statements of the nested writes (nested.rs, rel.rs, m2m.rs).
LEMMA NestedStepsAre ==
  ASSUME NEW o \in NestedOps, NEW a \in Authors
  PROVE  NestedSteps(o, a) \in Seq(BodySteps)
<1>0. o.posts \in SUBSET Posts
  BY DEF NestedOps
<1> DEFINE of(op) == IF o.posts = {} THEN <<>> ELSE <<[op |-> op, posts |-> o.posts, author |-> a]>>
<1>1. ASSUME NEW op \in {"connect", "disconnect", "delete posts"}
      PROVE  of(op) \in Seq(BodySteps)
  <2> DEFINE s == [op |-> op, posts |-> o.posts, author |-> a]
  <2>1. s \in BodySteps
    BY <1>0 DEF BodySteps
  <2> HIDE DEF s
  <2>2. <<s>> \in Seq(BodySteps)
    BY <2>1, OneStep
  <2>. QED  BY <2>2, NoStep DEF s
<1>2. CASE o.op = "create"
  <2> DEFINE q == SetToSeq(o.posts)
             steps == [i \in DOMAIN q |-> [op |-> "insert posts", posts |-> {q[i]}, author |-> a]]
  <2>1. q \in Seq(o.posts)
    BY <1>0, FinitePosts, SetToSeqIs
  <2>2. DOMAIN q = 1..Len(q) /\ Len(q) \in Nat /\ \A i \in DOMAIN q : q[i] \in Posts
    BY <1>0, <2>1
  <2>3. \A i \in DOMAIN q : [op |-> "insert posts", posts |-> {q[i]}, author |-> a] \in BodySteps
    BY <2>2 DEF BodySteps
  <2>4. NestedSteps(o, a) = steps
    BY <1>2 DEF NestedSteps
  <2>5. steps \in Seq(BodySteps)
    <3> HIDE DEF q
    <3>. QED  BY <2>2, <2>3, ListIs
  <2>. QED  BY <2>4, <2>5
<1>3. CASE o.op = "connect"
  BY <1>1, <1>3 DEF NestedSteps
<1>4. CASE o.op = "disconnect"
  BY <1>1, <1>4 DEF NestedSteps
<1>5. CASE o.op = "set"
  <2>1. [op |-> "disconnect all", author |-> a] \in BodySteps
    BY DEF BodySteps
  <2>2. NestedSteps(o, a) = <<[op |-> "disconnect all", author |-> a]>> \o of("connect")
    BY <1>5 DEF NestedSteps
  <2> HIDE DEF of
  <2>. QED  BY <1>1, <2>1, <2>2, OneStep, StepsJoined
<1>6. CASE o.op = "delete"
  BY <1>1, <1>6 DEF NestedSteps
<1>7. CASE o.op = "connect or create"
  <2>1. [op |-> "find", item |-> o, author |-> a] \in BodySteps
    BY DEF BodySteps
  <2>. QED  BY <1>7, <2>1, OneStep DEF NestedSteps
<1>. QED  BY <1>2, <1>3, <1>4, <1>5, <1>6, <1>7 DEF NestedOps

\* So are those of the connect, disconnect and set of rel.rs, of which set is
\* two statements.
LEMMA RelStepsAre ==
  ASSUME NEW o \in RelOps, NEW a \in Authors
  PROVE  RelSteps(o, a) \in Seq(BodySteps)
<1> DEFINE own == [op |-> "connect", posts |-> o.posts, author |-> a]
<1>1. /\ own \in BodySteps /\ [own EXCEPT !.op = "disconnect"] \in BodySteps
      /\ [op |-> "disconnect all", author |-> a] \in BodySteps
  <2>1. o.posts \in SUBSET Posts
    BY DEF RelOps
  <2>2. [own EXCEPT !.op = "disconnect"] = [op |-> "disconnect", posts |-> o.posts, author |-> a]
    OBVIOUS
  <2>. QED  BY <2>1, <2>2 DEF BodySteps
<1>2. CASE o.op = "connect"
  BY <1>1, <1>2, OneStep DEF RelSteps
<1>3. CASE o.op = "disconnect"
  BY <1>1, <1>3, OneStep DEF RelSteps
<1>4. CASE o.op = "set"
  <2>1. RelSteps(o, a) = <<[op |-> "disconnect all", author |-> a], own>>
    BY <1>4 DEF RelSteps
  <2> HIDE DEF own
  <2>. QED  BY <1>1, <2>1, TwoSteps
<1>. QED  BY <1>2, <1>3, <1>4 DEF RelOps

\* So are those of the link tables (m2m.rs).
LEMMA M2mStepsAre ==
  ASSUME NEW m \in M2mWrites, NEW a \in Authors
  PROVE  M2mSteps(m, a) \in Seq(BodySteps) /\ M2mInsertSteps(m, a) \in Seq(BodySteps)
<1>0. m.ids \in SUBSET Tags
  BY DEF M2mWrites
<1>1. /\ [op |-> "delete links", author |-> a, ids |-> m.ids] \in BodySteps
      /\ [op |-> "insert links", author |-> a, ids |-> m.ids] \in BodySteps
      /\ [op |-> "delete links", author |-> a, ids |-> Tags] \in BodySteps
      /\ [op |-> "load targets", ids |-> m.ids] \in BodySteps
  BY <1>0 DEF BodySteps
<1>2. M2mSteps(m, a) \in Seq(BodySteps)
  <2>1. CASE m.action = "none"
    BY <2>1, NoStep DEF M2mSteps
  <2>2. CASE m.action = "detach"
    BY <2>2, <1>1, OneStep DEF M2mSteps
  <2>3. CASE m.action = "attach"
    BY <2>3, <1>1, OneStep, NoStep DEF M2mSteps
  <2>4. CASE m.action = "set"
    <3> DEFINE more == IF m.ids = {} THEN <<>> ELSE <<[op |-> "insert links", author |-> a, ids |-> m.ids]>>
    <3>1. more \in Seq(BodySteps)
      BY <1>1, OneStep, NoStep
    <3>2. M2mSteps(m, a) = <<[op |-> "delete links", author |-> a, ids |-> Tags]>> \o more
      BY <2>4 DEF M2mSteps
    <3> HIDE DEF more
    <3>. QED  BY <1>1, <3>1, <3>2, OneStep, StepsJoined
  <2>. QED  BY <2>1, <2>2, <2>3, <2>4 DEF M2mWrites
<1>3. M2mInsertSteps(m, a) \in Seq(BodySteps)
  <2> DEFINE more == IF m.action \in {"attach", "set"} /\ m.ids # {}
                     THEN <<[op |-> "load targets", ids |-> m.ids]>> ELSE <<>>
  <2>1. more \in Seq(BodySteps)
    BY <1>1, OneStep, NoStep
  <2>2. M2mInsertSteps(m, a) = M2mSteps(m, a) \o more
    BY DEF M2mInsertSteps
  <2> HIDE DEF more
  <2>. QED  BY <1>2, <2>1, <2>2, StepsJoined
<1>. QED  BY <1>2, <1>3

\* The chunks are lists of the posts, and there are none of no posts
\* (insert_many, max_rows_per_chunk).
LEMMA ChunksAre ==
  ASSUME NEW ps \in SUBSET Posts
  PROVE  /\ Chunks(ps) = [i \in 1..Len(Chunks(ps)) |-> Chunks(ps)[i]]
         /\ Len(Chunks(ps)) \in Nat
         /\ \A i \in 1..Len(Chunks(ps)) : Chunks(ps)[i] \in SUBSET ps
         /\ ps = {} => Chunks(ps) = <<>>
<1> DEFINE q == SetToSeq(ps)
           n == (Len(q) + ChunkRows - 1) \div ChunkRows
           last(i) == IF i * ChunkRows < Len(q) THEN i * ChunkRows ELSE Len(q)
           part(i) == SubSeq(q, (i - 1) * ChunkRows + 1, last(i))
<1>1. Chunks(ps) = [i \in 1..n |-> ToSet(part(i))]
  BY DEF Chunks
<1>2. q \in Seq(ps) /\ Len(q) \in Nat /\ Len(q) = Cardinality(ps)
  BY FinitePosts, SetToSeqIs
<1>3. ChunkRows \in Nat \ {0}
  BY WriteAssumption
<1> HIDE DEF q
<1>4. n \in Nat
  BY <1>2, <1>3
<1>5. \A i \in 1..n : ToSet(part(i)) \in SUBSET ps
  <2> SUFFICES ASSUME NEW i \in 1..n PROVE ToSet(part(i)) \in SUBSET ps
    OBVIOUS
  <2>1. i \in Nat /\ i >= 1
    BY <1>4
  <2> DEFINE a == (i - 1) * ChunkRows + 1
             b == last(i)
  <2>2. (i - 1) * ChunkRows \in Nat /\ i * ChunkRows \in Nat
    BY <1>3, <2>1
  <2>3. a \in Nat /\ a >= 1 /\ b \in Nat /\ b <= Len(q)
    BY <1>2, <2>2
  <2> HIDE DEF a, b
  <2>4. SubSeq(q, a, b) \in Seq(ps)
    BY <1>2, <2>3
  <2>5. ToSet(SubSeq(q, a, b)) \subseteq ps
    <3> DEFINE s == SubSeq(q, a, b)
    <3>1. \A j \in DOMAIN s : s[j] \in ps
      <4> HIDE DEF s
      <4>1. s \in Seq(ps)
        BY <2>4 DEF s
      <4>. QED  BY <4>1
    <3>. QED  BY <3>1 DEF ToSet
  <2>. QED  BY <2>5 DEF a, b
<1>6. Len(Chunks(ps)) = n
  <2>1. Chunks(ps) = [i \in 1..n |-> Chunks(ps)[i]]
    BY <1>1
  <2> HIDE DEF n
  <2>2. Chunks(ps) \in [1..n -> {Chunks(ps)[i] : i \in 1..n}]
    BY <2>1
  <2>3. Chunks(ps) \in Seq({Chunks(ps)[i] : i \in 1..n})
    BY <1>4, <2>2
  <2>. QED  BY <1>4, <2>2, <2>3
<1>7. ASSUME ps = {} PROVE Chunks(ps) = <<>>
  <2>1. Len(q) = 0
    BY <1>2, <1>7, FS_EmptySet
  <2>2. n = 0
    BY <1>3, <2>1
  <2> HIDE DEF n
  <2>3. Chunks(ps) = [i \in 1..0 |-> ToSet(part(i))]
    BY <1>1, <2>2
  <2>. QED  BY <2>3
<1>8. Chunks(ps) = [i \in 1..n |-> Chunks(ps)[i]]
  BY <1>1
<1>9. \A i \in 1..n : Chunks(ps)[i] \in SUBSET ps
  BY <1>1, <1>5
<1> HIDE DEF n
<1>. QED  BY <1>4, <1>6, <1>7, <1>8, <1>9

\* Each chunk is one INSERT of posts the call was asked for.
LEMMA InsertChunksAre ==
  ASSUME NEW ps \in SUBSET Posts, NEW a \in Authors
  PROVE  /\ InsertChunks(ps, a) \in Seq(BodySteps)
         /\ \A i \in 1..Len(InsertChunks(ps, a)) :
              /\ InsertChunks(ps, a)[i].op = "insert posts"
              /\ InsertChunks(ps, a)[i].posts \in SUBSET ps
         /\ ps = {} => InsertChunks(ps, a) = <<>>
<1> DEFINE ch == Chunks(ps)
           n == Len(ch)
           steps == InsertChunks(ps, a)
<1>1. ch = [i \in 1..n |-> ch[i]] /\ n \in Nat /\ \A i \in 1..n : ch[i] \in SUBSET ps
  BY ChunksAre
<1>0. DOMAIN ch = 1..n
  BY <1>1
<1>2. steps = [i \in 1..n |-> [op |-> "insert posts", posts |-> ch[i], author |-> a]]
  BY <1>0 DEF InsertChunks
<1>3. \A i \in 1..n : [op |-> "insert posts", posts |-> ch[i], author |-> a] \in BodySteps
  BY <1>1 DEF BodySteps
<1>4. ps = {} => ch = <<>>
  BY ChunksAre
<1> HIDE DEF ch
<1>5. steps \in Seq(BodySteps)
  <2> HIDE DEF n
  <2>. QED  BY <1>1, <1>2, <1>3, ListIs
<1>6. DOMAIN steps = 1..n
  BY <1>2
<1>7. Len(steps) = n
  <2> HIDE DEF n, steps
  <2>. QED  BY <1>1, <1>5, <1>6
<1>8. ps = {} => n = 0
  BY <1>4
<1>9. ps = {} => steps = <<>>
  <2> HIDE DEF n, steps
  <2>. QED BY <1>5, <1>7, <1>8
<1>10. \A i \in 1..n : steps[i].op = "insert posts" /\ steps[i].posts \in SUBSET ps
  <2>1. \A i \in 1..n : steps[i] = [op |-> "insert posts", posts |-> ch[i], author |-> a]
    BY <1>2
  <2>2. \A i \in 1..n : steps[i].op = "insert posts" /\ steps[i].posts = ch[i]
    <3> TAKE i \in 1..n
    <3> DEFINE t == steps[i]
    <3>1. t = [op |-> "insert posts", posts |-> ch[i], author |-> a]
      BY <2>1
    <3> HIDE DEF t
    <3>2. t.op = "insert posts" /\ t.posts = ch[i]
      BY <3>1
    <3>. QED  BY <3>2 DEF t
  <2>. QED  BY <1>1, <2>2
<1> HIDE DEF n
<1>. QED  BY <1>5, <1>7, <1>9, <1>10

\* Every call the five builders make.
AnyCall == InsertCalls \cup ManyCalls \cup UpdateCalls \cup DeleteCalls \cup Transactions

\* A list of one step after another list of one step.
LEMMA TwoJoined ==
  ASSUME NEW s \in BodySteps, NEW b \in BodySteps
  PROVE  <<s>> \o <<b>> = <<s, b>>
<1> DEFINE p == <<s>>
           q == <<b>>
           l == p \o q
           m == <<s, b>>
<1> HIDE DEF BodySteps
<1>1. /\ <<s>> \in Seq(BodySteps) /\ <<b>> \in Seq(BodySteps) /\ Len(<<s>>) = 1 /\ Len(<<b>>) = 1
      /\ <<s>>[1] = s /\ <<b>>[1] = b
  OBVIOUS
<1>2. l \in Seq(BodySteps) /\ Len(l) = 2 /\ l[1] = p[1] /\ l[2] = q[1]
  <2> HIDE DEF p, q
  <2>. QED  BY <1>1 DEF p, q
<1>3. m \in Seq(BodySteps) /\ Len(m) = 2 /\ m[1] = s /\ m[2] = b
  OBVIOUS
<1>4. l = m
  <2> HIDE DEF l, m
  <2>. QED  BY <1>1, <1>2, <1>3 DEF p, q
<1>. QED  BY <1>4

\* The statements of a list of nested writes, one after the other.
LEMMA NestedListIs ==
  ASSUME NEW ops \in Seq(NestedOps), NEW a \in Authors
  PROVE  FlattenSeq([i \in DOMAIN ops |-> NestedSteps(ops[i], a)]) \in Seq(BodySteps)
<1> DEFINE n == Len(ops)
           seqs == [i \in DOMAIN ops |-> NestedSteps(ops[i], a)]
<1>1. n \in Nat /\ DOMAIN ops = 1..n /\ \A i \in 1..n : ops[i] \in NestedOps
  OBVIOUS
<1>2. \A i \in 1..n : NestedSteps(ops[i], a) \in Seq(BodySteps)
  BY <1>1, NestedStepsAre
<1>3. seqs = [i \in 1..n |-> seqs[i]] /\ \A i \in 1..n : seqs[i] \in Seq(BodySteps)
  BY <1>1, <1>2
<1> HIDE DEF n, seqs
<1>4. FlattenSeq(seqs) \in Seq(BodySteps)
  BY <1>1, <1>3, FlattenOf
<1>. QED  BY <1>4 DEF seqs

\* The parent of InsertQuery::exec is one INSERT, with RETURNING, or an INSERT
\* and a SELECT by the same key.
LEMMA InsertParentIs ==
  ASSUME NEW k \in InsertCalls
  PROVE  /\ InsertParent(k) \in Seq(BodySteps)
         /\ returning => \E s \in BodySteps : s.op = "insert author" /\ InsertParent(k) = <<s>>
         /\ \A i \in 1..Len(InsertParent(k)) :
               \/ InsertParent(k)[i].op = "read back"
               \/ InsertParent(k)[i].op = "insert author" /\ InsertParent(k)[i].key = k.key
<1> DEFINE s == [op |-> "insert author", key |-> k.key, x |-> k.x, conflict |-> k.conflict]
           b == [op |-> "read back", key |-> k.key]
<1>1. k.key \in Authors /\ k.x \in 0..1 /\ k.conflict \in {"none", "nothing", "update"}
  BY DEF InsertCalls
<1>2. s \in BodySteps /\ b \in BodySteps
  BY <1>1 DEF BodySteps
<1>3. s.op = "insert author" /\ s.key = k.key /\ b.op = "read back"
  OBVIOUS
<1>4. InsertParent(k) = <<s>> \o IF returning THEN <<>> ELSE <<b>>
  BY DEF InsertParent
<1> HIDE DEF s, b
<1>5. CASE returning
  <2>1. InsertParent(k) = <<s>>
    BY <1>4, <1>5
  <2>2. InsertParent(k) \in Seq(BodySteps)
    BY <1>2, <2>1, OneStep
  <2>3. \A i \in 1..Len(<<s>>) : <<s>>[i] = s
    OBVIOUS
  <2>. QED  BY <1>2, <1>3, <2>1, <2>2, <2>3
<1>6. CASE ~returning
  <2>1. InsertParent(k) = <<s, b>>
    BY <1>2, <1>4, <1>6, TwoJoined
  <2>2. \A i \in 1..Len(<<s, b>>) : <<s, b>>[i] = s \/ <<s, b>>[i] = b
    OBVIOUS
  <2>. QED  BY <1>2, <1>3, <1>6, <2>1, <2>2, TwoSteps
<1>. QED  BY <1>5, <1>6

\* The children of add_many are chunks, read back where the back end has no
\* RETURNING.
LEMMA ChildBatchIs ==
  ASSUME NEW k \in InsertCalls
  PROVE  /\ ChildBatch(k) \in Seq(BodySteps)
         /\ k.batch = {} /\ ~k.ragged => ChildBatch(k) = <<>>
<1>1. k.key \in Authors /\ k.batch \in SUBSET Posts
  BY DEF InsertCalls
<1> DEFINE more == IF returning \/ k.batch = {} THEN <<>> ELSE <<[op |-> "read children", author |-> k.key]>>
<1>2. [op |-> "read children", author |-> k.key] \in BodySteps /\ [op |-> "ragged"] \in BodySteps
  BY <1>1 DEF BodySteps, Refusals
<1>3. more \in Seq(BodySteps) /\ (k.batch = {} => more = <<>>)
  BY <1>2, OneStep, NoStep
<1>4. CASE k.ragged
  BY <1>2, <1>4, OneStep DEF ChildBatch
<1>5. CASE ~k.ragged
  <2>1. ChildBatch(k) = InsertChunks(k.batch, k.key) \o more
    BY <1>5 DEF ChildBatch
  <2>2. InsertChunks(k.batch, k.key) \in Seq(BodySteps)
    BY <1>1, InsertChunksAre
  <2>3. k.batch = {} => InsertChunks(k.batch, k.key) = <<>>
    BY <1>1, InsertChunksAre
  <2> HIDE DEF more
  <2>. QED  BY <1>3, <2>1, <2>2, <2>3, StepsJoined
<1>. QED  BY <1>4, <1>5

\* In a transaction: BEGIN, the statements, COMMIT.
Whole(todo) == \E body \in Seq(BodySteps) : todo = In(body)
\* One statement, or a refusal.
Single(todo) == \E s \in BodySteps : s.op \in {"insert author", "update", "delete"} \cup Refusals /\ todo = <<s>>
\* Statements without a transaction, each for rows the call was asked for.
Asked(k, s) ==
  \/ s.op = "read back"
  \/ k.kind = "insert" /\ s.op = "insert author" /\ s.key = k.key
  \/ k.kind = "insert many" /\ s.op = "insert posts" /\ s.posts \in SUBSET k.posts
Pieces(k, todo) == InPieces(k) /\ todo \in Seq(BodySteps) /\ \A i \in 1..Len(todo) : Asked(k, todo[i])

\* A call inside transaction() is compiled to one statement, or refused before
\* it is sent (to_sql).
LEMMA ToSqlIs ==
  ASSUME NEW k \in InsertCalls \cup UpdateCalls \cup DeleteCalls
  PROVE  Single(ToSql(k)) /\ ToSql(k) \in Seq(BodySteps)
<1>1. ASSUME NEW s \in BodySteps, s.op \in {"insert author", "update", "delete"} \cup Refusals, ToSql(k) = <<s>>
      PROVE  Single(ToSql(k)) /\ ToSql(k) \in Seq(BodySteps)
  BY <1>1, OneStep DEF Single
<1>2. CASE k.kind = "insert"
  <2> DEFINE s == [op |-> "insert author", key |-> k.key, x |-> k.x, conflict |-> k.conflict]
  <2>1. k \in InsertCalls
    BY <1>2 DEF InsertCalls, UpdateCalls, DeleteCalls
  <2>2. s \in BodySteps
    BY <2>1 DEF InsertCalls, BodySteps
  <2>3. ToSql(k) = <<s>>
    BY <1>2 DEF ToSql
  <2>4. s.op = "insert author"
    OBVIOUS
  <2> HIDE DEF s
  <2>. QED  BY <1>1, <2>2, <2>3, <2>4
<1>3. CASE k.kind # "insert" /\ ~Guarded(k)
  <2> DEFINE s == [op |-> "unguarded"]
  <2>1. s \in BodySteps /\ s.op \in Refusals
    BY DEF BodySteps, Refusals
  <2>2. ToSql(k) = <<s>>
    BY <1>3 DEF ToSql
  <2> HIDE DEF s
  <2>. QED  BY <1>1, <2>1, <2>2
<1>4. CASE k.kind = "update" /\ Guarded(k)
  <2>1. k \in UpdateCalls
    BY <1>4 DEF InsertCalls, UpdateCalls, DeleteCalls
  <2> DEFINE s == [op |-> "update", filter |-> k.filter, set |-> k.set, x |-> k.x]
             r == [op |-> "no columns"]
  <2>2. s \in BodySteps /\ r \in BodySteps /\ s.op = "update" /\ r.op \in Refusals
    BY <2>1 DEF UpdateCalls, BodySteps, Refusals
  <2>3. ToSql(k) = IF k.set = "nothing" THEN <<r>> ELSE <<s>>
    BY <1>4 DEF ToSql, SetStep
  <2> HIDE DEF s, r
  <2>. QED  BY <1>1, <2>2, <2>3
<1>5. CASE k.kind = "delete" /\ Guarded(k)
  <2>1. k \in DeleteCalls
    BY <1>5 DEF InsertCalls, UpdateCalls, DeleteCalls
  <2> DEFINE s == [op |-> "delete", filter |-> k.filter]
  <2>2. s \in BodySteps /\ s.op = "delete"
    BY <2>1 DEF DeleteCalls, BodySteps
  <2>3. ToSql(k) = <<s>>
    BY <1>5 DEF ToSql
  <2> HIDE DEF s
  <2>. QED  BY <1>1, <2>2, <2>3
<1>. QED  BY <1>2, <1>3, <1>4, <1>5 DEF InsertCalls, UpdateCalls, DeleteCalls

\* What a call may send: nothing, a transaction, one statement, or the pieces
\* of an insert that opens no transaction.
Shaped(k, todo) == todo = <<>> \/ Whole(todo) \/ Single(todo) \/ Pieces(k, todo)

\* A list with nothing before it or after it.
LEMMA NothingJoined ==
  ASSUME NEW s \in Seq(BodySteps)
  PROVE  s \o <<>> = s /\ <<>> \o s = s
  OBVIOUS

\* No list joined is nothing.
LEMMA NoLists == FlattenSeq(<<>>) = <<>>
  BY DEF FlattenSeq

\* InsertQuery::exec opens a transaction for nested writes and for batches, and
\* for neither sends the parent alone.
LEMMA InsertStepsAre ==
  ASSUME NEW k \in InsertCalls, returning \in BOOLEAN
  PROVE  Shaped(k, InsertSteps(k))
<1> DEFINE par == InsertParent(k)
           nest == FlattenSeq([i \in DOMAIN k.nested |-> NestedSteps(k.nested[i], k.key)])
           child == ChildBatch(k)
           m2m == M2mInsertSteps(k.m2m, k.key)
           steps == par \o nest \o child \o m2m
           simple == k.nested = <<>> /\ k.batch = {} /\ ~k.ragged /\ k.m2m = NoM2m
<1>1. k.key \in Authors /\ k.nested \in Seq(NestedOps) /\ k.m2m \in M2mWrites /\ k.kind = "insert"
  BY DEF InsertCalls
<1>2. /\ par \in Seq(BodySteps) /\ nest \in Seq(BodySteps)
      /\ child \in Seq(BodySteps) /\ m2m \in Seq(BodySteps)
  BY <1>1, InsertParentIs, NestedListIs, ChildBatchIs, M2mStepsAre
<1>3. InsertSteps(k) = IF simple THEN steps ELSE In(steps)
  BY DEF InsertSteps
<1>4. CASE ~simple
  <2>1. steps \in Seq(BodySteps)
    <3> HIDE DEF par, nest, child, m2m
    <3>. QED  BY <1>2, StepsJoined
  <2> HIDE DEF steps
  <2>. QED  BY <1>3, <1>4, <2>1 DEF Shaped, Whole
<1>5. CASE simple
  <2>1. nest = <<>>
    <3>1. [i \in DOMAIN k.nested |-> NestedSteps(k.nested[i], k.key)] = <<>>
      BY <1>5
    <3>. QED  BY <3>1, NoLists
  <2>2. child = <<>>
    BY <1>5, ChildBatchIs
  <2>3. m2m = <<>>
    <3>1. M2mSteps(k.m2m, k.key) = <<>>
      BY <1>5 DEF M2mSteps, NoM2m
    <3>. QED  BY <1>5, <3>1 DEF M2mInsertSteps, NoM2m
  <2>4. steps = par
    <3> HIDE DEF par, nest, child, m2m
    <3>. QED  BY <1>2, <2>1, <2>2, <2>3, NothingJoined
  <2>5. CASE returning
    <3>1. \E s \in BodySteps : s.op = "insert author" /\ par = <<s>>
      BY <2>5, InsertParentIs
    <3> HIDE DEF par, steps
    <3>. QED  BY <1>3, <1>5, <2>4, <3>1 DEF Shaped, Single
  <2>6. CASE ~returning
    <3>1. InPieces(k)
      BY <1>1, <1>5, <2>6 DEF InPieces
    <3>2. \A i \in 1..Len(par) : Asked(k, par[i])
      BY <1>1, InsertParentIs DEF Asked
    <3> HIDE DEF par, steps
    <3>. QED  BY <1>2, <1>3, <1>5, <2>4, <3>1, <3>2 DEF Shaped, Pieces
  <2>. QED  BY <2>5, <2>6
<1>. QED  BY <1>4, <1>5

\* insert_many sends its chunks one by one and opens no transaction: it is the
\* call that can leave a part behind.
LEMMA InsertManyStepsAre ==
  ASSUME NEW k \in ManyCalls, returning \in BOOLEAN
  PROVE  Shaped(k, InsertManySteps(k))
<1> DEFINE chunks == InsertChunks(k.posts, k.author)
           n == Len(chunks)
           pair(i) == <<chunks[i], [op |-> "read rows", posts |-> chunks[i].posts]>>
           pairs == [i \in DOMAIN chunks |-> pair(i)]
<1>1. k.posts \in SUBSET Posts /\ k.author \in Authors /\ k.kind = "insert many"
  BY DEF ManyCalls
<1>2. /\ chunks \in Seq(BodySteps)
      /\ \A i \in 1..n : chunks[i].op = "insert posts" /\ chunks[i].posts \in SUBSET k.posts
  BY <1>1, InsertChunksAre
<1>0. n \in Nat /\ DOMAIN chunks = 1..n /\ \A i \in 1..n : chunks[i] \in BodySteps
  <2>1. chunks \in Seq(BodySteps)
    BY <1>2
  <2> HIDE DEF chunks
  <2>. QED  BY <2>1
<1>3. CASE k.ragged
  <2>1. InsertManySteps(k) = <<[op |-> "ragged"]>>
    BY <1>3 DEF InsertManySteps
  <2>2. [op |-> "ragged"] \in BodySteps
    BY DEF BodySteps, Refusals
  <2>. QED  BY <2>1, <2>2 DEF Shaped, Single, Refusals
<1>4. CASE ~k.ragged /\ returning
  <2>1. InsertManySteps(k) = chunks
    BY <1>4 DEF InsertManySteps
  <2>2. \A i \in 1..n : Asked(k, chunks[i])
    BY <1>1, <1>2 DEF Asked
  <2>3. InPieces(k)
    BY <1>1, <1>4 DEF InPieces
  <2> HIDE DEF chunks
  <2>. QED  BY <1>2, <2>1, <2>2, <2>3 DEF Shaped, Pieces
<1>5. CASE ~k.ragged /\ ~returning
  <2>1. InsertManySteps(k) = IF chunks = <<>> THEN <<>> ELSE In(FlattenSeq(pairs))
    BY <1>5 DEF InsertManySteps
  <2>2. \A i \in 1..n : pair(i) \in Seq(BodySteps)
    <3> TAKE i \in 1..n
    <3> DEFINE r == [op |-> "read rows", posts |-> chunks[i].posts]
    <3>1. chunks[i] \in BodySteps
      BY <1>0
    <3>2. r \in BodySteps
      <4>1. chunks[i].posts \in SUBSET Posts
        BY <1>1, <1>2
      <4>. QED  BY <4>1 DEF BodySteps
    <3> HIDE DEF r, chunks
    <3>3. <<chunks[i], r>> \in Seq(BodySteps)
      BY <3>1, <3>2, TwoSteps
    <3>. QED  BY <3>3 DEF r, chunks
  <2>3. n \in Nat /\ DOMAIN chunks = 1..n
    BY <1>0
  <2>4. pairs = [i \in 1..n |-> pairs[i]] /\ \A i \in 1..n : pairs[i] \in Seq(BodySteps)
    <3> HIDE DEF chunks, n, pair
    <3>. QED  BY <2>2, <2>3
  <2>5. FlattenSeq(pairs) \in Seq(BodySteps)
    <3> HIDE DEF n, pairs
    <3>. QED  BY <2>3, <2>4, FlattenOf
  <2> HIDE DEF pairs, chunks
  <2>. QED  BY <2>1, <2>5 DEF Shaped, Whole
<1>. QED  BY <1>3, <1>4, <1>5

\* UpdateQuery::exec is one UPDATE, or a transaction where it has nested writes.
LEMMA UpdateStepsAre ==
  ASSUME NEW k \in UpdateCalls
  PROVE  Shaped(k, UpdateSteps(k))
<1>1. CASE ~Guarded(k) \/ ~HasNested(k)
  <2>1. UpdateSteps(k) = ToSql(k)
    BY <1>1 DEF UpdateSteps
  <2>. QED  BY <2>1, ToSqlIs DEF Shaped
<1>2. CASE Guarded(k) /\ HasNested(k)
  <2> DEFINE first == IF k.set = "nothing" THEN <<>> ELSE SetStep(k)
             par == [op |-> "parents", k |-> k]
  <2>1. UpdateSteps(k) = In(first \o <<par>>)
    BY <1>2 DEF UpdateSteps
  <2>2. par \in BodySteps
    BY DEF BodySteps
  <2>3. SetStep(k) \in Seq(BodySteps)
    <3> DEFINE s == [op |-> "update", filter |-> k.filter, set |-> k.set, x |-> k.x]
    <3>1. s \in BodySteps
      BY DEF BodySteps, UpdateCalls
    <3>2. SetStep(k) = <<s>>
      BY DEF SetStep
    <3> HIDE DEF s
    <3>. QED  BY <3>1, <3>2, OneStep
  <2>4. first \in Seq(BodySteps)
    BY <2>3, NoStep
  <2> HIDE DEF first, par
  <2>5. first \o <<par>> \in Seq(BodySteps)
    BY <2>2, <2>4, OneStep, StepsJoined
  <2>. QED  BY <2>1, <2>5 DEF Shaped, Whole
<1>. QED  BY <1>1, <1>2

\* What each referential action adds before the DELETE.
LEMMA CascadeStepIs ==
  ASSUME NEW f \in Filters, NEW act \in {"NoAction", "Cascade", "SetNull", "Restrict", "SetDefault"}
  PROVE  CascadeStep(act, f) \in Seq(BodySteps)
<1>1. /\ [op |-> "cascade", filter |-> f] \in BodySteps /\ [op |-> "set null", filter |-> f] \in BodySteps
      /\ [op |-> "restrict", filter |-> f] \in BodySteps /\ [op |-> "unsupported"] \in BodySteps
  BY DEF BodySteps, Refusals
<1>. QED  BY <1>1, OneStep, NoStep DEF CascadeStep

\* DeleteQuery::exec is one DELETE, or a transaction that first sees to the
\* children.
LEMMA DeleteStepsAre ==
  ASSUME NEW k \in DeleteCalls
  PROVE  Shaped(k, DeleteSteps(k))
<1>1. CASE ~Guarded(k) \/ k.cascade = <<>>
  <2>1. DeleteSteps(k) = ToSql(k)
    BY <1>1 DEF DeleteSteps
  <2>. QED  BY <2>1, ToSqlIs DEF Shaped
<1>2. CASE ~(~Guarded(k) \/ k.cascade = <<>>)
  <2> DEFINE n == Len(k.cascade)
             seqs == [i \in DOMAIN k.cascade |-> CascadeStep(k.cascade[i], k.filter)]
  <2>1. DeleteSteps(k) = In(FlattenSeq(seqs) \o ToSql(k))
    BY <1>2 DEF DeleteSteps
  <2>2. /\ k.filter \in Filters
        /\ k.cascade \in Seq({"NoAction", "Cascade", "SetNull", "Restrict", "SetDefault"})
    BY DEF DeleteCalls
  <2>3. /\ n \in Nat /\ DOMAIN k.cascade = 1..n
        /\ \A i \in 1..n : k.cascade[i] \in {"NoAction", "Cascade", "SetNull", "Restrict", "SetDefault"}
    BY <2>2
  <2>4. \A i \in 1..n : CascadeStep(k.cascade[i], k.filter) \in Seq(BodySteps)
    BY <2>2, <2>3, CascadeStepIs
  <2>5. seqs = [i \in 1..n |-> seqs[i]] /\ \A i \in 1..n : seqs[i] \in Seq(BodySteps)
    BY <2>3, <2>4
  <2> HIDE DEF n, seqs
  <2>6. FlattenSeq(seqs) \in Seq(BodySteps)
    BY <2>3, <2>5, FlattenOf
  <2>7. FlattenSeq(seqs) \o ToSql(k) \in Seq(BodySteps)
    BY <2>6, ToSqlIs, StepsJoined
  <2>. QED  BY <2>1, <2>7 DEF Shaped, Whole
<1>. QED  BY <1>1, <1>2

\* transaction() is BEGIN, the statements of its body, COMMIT.
LEMMA StepsOfTransaction ==
  ASSUME NEW k \in Transactions
  PROVE  Whole(Steps(k))
<1> DEFINE n == Len(k.body)
           seqs == [i \in DOMAIN k.body |-> ToSql(k.body[i])]
<1>1. Steps(k) = In(FlattenSeq(seqs))
  BY DEF Steps, Transactions
<1>2. k.body \in Seq(InsertCalls \cup UpdateCalls \cup DeleteCalls)
  BY DEF Transactions
<1>3. n \in Nat /\ DOMAIN k.body = 1..n /\ \A i \in 1..n : k.body[i] \in InsertCalls \cup UpdateCalls \cup DeleteCalls
  BY <1>2
<1>4. \A i \in 1..n : ToSql(k.body[i]) \in Seq(BodySteps)
  BY <1>3, ToSqlIs
<1>5. seqs = [i \in 1..n |-> seqs[i]] /\ \A i \in 1..n : seqs[i] \in Seq(BodySteps)
  BY <1>3, <1>4
<1> HIDE DEF n, seqs
<1>6. FlattenSeq(seqs) \in Seq(BodySteps)
  BY <1>3, <1>5, FlattenOf
<1>. QED  BY <1>1, <1>6 DEF Whole

\* No call sends anything else.
LEMMA StepsAre ==
  ASSUME NEW k \in AnyCall, returning \in BOOLEAN
  PROVE  Shaped(k, Steps(k))
<1>1. CASE k \in Transactions
  BY <1>1, StepsOfTransaction DEF Shaped
<1>2. CASE k \in InsertCalls
  <2>1. Steps(k) = InsertSteps(k)
    BY <1>2 DEF Steps, CallSteps, InsertCalls
  <2>. QED  BY <1>2, <2>1, InsertStepsAre
<1>3. CASE k \in ManyCalls
  <2>1. Steps(k) = InsertManySteps(k)
    BY <1>3 DEF Steps, CallSteps, ManyCalls
  <2>. QED  BY <1>3, <2>1, InsertManyStepsAre
<1>4. CASE k \in UpdateCalls
  <2>1. Steps(k) = UpdateSteps(k)
    BY <1>4 DEF Steps, CallSteps, UpdateCalls
  <2>. QED  BY <1>4, <2>1, UpdateStepsAre
<1>5. CASE k \in DeleteCalls
  <2>1. Steps(k) = DeleteSteps(k)
    BY <1>5 DEF Steps, CallSteps, DeleteCalls
  <2>. QED  BY <1>5, <2>1, DeleteStepsAre
<1>. QED  BY <1>1, <1>2, <1>3, <1>4, <1>5 DEF AnyCall

\* What the parents that were found add (UpdateQuery::exec).
LEMMA AfterParentsAre ==
  ASSUME NEW k \in UpdateCalls, NEW parents \in SUBSET Authors
  PROVE  AfterParents(k, parents) \in Seq(BodySteps)
<1> DEFINE one == CHOOSE a \in parents : TRUE
           all == SetToSeq(parents)
           rels == [i \in DOMAIN k.rel |-> RelSteps(k.rel[i], one)]
           more(i) == NestedSteps(k.nested[i], one) \o <<[op |-> "one more"]>>
           nests == [i \in DOMAIN k.nested |-> more(i)]
           links == [i \in DOMAIN all |-> M2mSteps(k.m2m, all[i])]
           front == IF parents = {} THEN <<>> ELSE FlattenSeq(rels) \o FlattenSeq(nests)
<1>1. AfterParents(k, parents) = front \o FlattenSeq(links)
  BY DEF AfterParents
<1>2. k.rel \in Seq(RelOps) /\ k.nested \in Seq(NestedOps) /\ k.m2m \in M2mWrites
  BY DEF UpdateCalls
<1>3. FlattenSeq(links) \in Seq(BodySteps)
  <2> DEFINE n == Len(all)
  <2>1. all \in Seq(parents)
    <3>1. IsFiniteSet(parents)
      BY WriteAssumption, FS_Subset
    <3>. QED  BY <3>1, SetToSeqIs
  <2>2. n \in Nat /\ DOMAIN all = 1..n /\ \A i \in 1..n : all[i] \in Authors
    <3> HIDE DEF all
    <3>. QED  BY <2>1
  <2>3. \A i \in 1..n : M2mSteps(k.m2m, all[i]) \in Seq(BodySteps)
    BY <1>2, <2>2, M2mStepsAre
  <2>4. links = [i \in 1..n |-> links[i]] /\ \A i \in 1..n : links[i] \in Seq(BodySteps)
    <3> HIDE DEF all
    <3>. QED  BY <2>2, <2>3
  <2> HIDE DEF n, links
  <2>. QED  BY <2>2, <2>4, FlattenOf
<1>4. front \in Seq(BodySteps)
  <2>1. CASE parents = {}
    BY <2>1, NoStep
  <2>2. CASE parents # {}
    <3>1. one \in Authors
      BY <2>2
    <3>2. FlattenSeq(rels) \in Seq(BodySteps)
      <4> DEFINE n == Len(k.rel)
      <4>1. n \in Nat /\ DOMAIN k.rel = 1..n /\ \A i \in 1..n : k.rel[i] \in RelOps
        BY <1>2
      <4> HIDE DEF one
      <4>2. \A i \in 1..n : RelSteps(k.rel[i], one) \in Seq(BodySteps)
        BY <3>1, <4>1, RelStepsAre
      <4>3. rels = [i \in 1..n |-> rels[i]] /\ \A i \in 1..n : rels[i] \in Seq(BodySteps)
        BY <4>1, <4>2
      <4> HIDE DEF n, rels
      <4>. QED  BY <4>1, <4>3, FlattenOf
    <3>3. FlattenSeq(nests) \in Seq(BodySteps)
      <4> DEFINE n == Len(k.nested)
      <4>1. n \in Nat /\ DOMAIN k.nested = 1..n /\ \A i \in 1..n : k.nested[i] \in NestedOps
        BY <1>2
      <4>2. [op |-> "one more"] \in BodySteps
        BY DEF BodySteps
      <4> HIDE DEF one
      <4>3. \A i \in 1..n : more(i) \in Seq(BodySteps)
        BY <3>1, <4>1, <4>2, NestedStepsAre, OneStep, StepsJoined
      <4>4. nests = [i \in 1..n |-> nests[i]] /\ \A i \in 1..n : nests[i] \in Seq(BodySteps)
        <5> HIDE DEF more
        <5>. QED  BY <4>1, <4>3
      <4> HIDE DEF n, nests
      <4>. QED  BY <4>1, <4>4, FlattenOf
    <3> HIDE DEF rels, nests
    <3>. QED  BY <2>2, <3>2, <3>3, StepsJoined
  <2>. QED  BY <2>1, <2>2
<1> HIDE DEF front, links
<1>. QED  BY <1>1, <1>3, <1>4, StepsJoined

\* Changes that leave the rows well typed.
Fitting(ch) == DOMAIN ch \subseteq Rows /\ \A r \in DOMAIN ch : Fits(ch, r)

\* A row is of the kind its key says.
LEMMA RowIs ==
  ASSUME NEW v, RowsTypeOK(v)
  PROVE  /\ \A a \in Authors : v[A(a)] \in AuthorRow \cup {Absent}
         /\ \A p \in Posts : v[P(p)] \in PostRow \cup {Absent}
<1>1. ASSUME NEW a \in Authors
      PROVE  v[A(a)] \in AuthorRow \cup {Absent}
  <2>1. A(a) \in Rows
    BY DEF Rows
  <2>2. Fits(v, A(a))
    BY <2>1 DEF RowsTypeOK
  <2>. QED  BY <2>2 DEF Fits, A, P, T, L, Links
<1>2. ASSUME NEW p \in Posts
      PROVE  v[P(p)] \in PostRow \cup {Absent}
  <2>1. P(p) \in Rows
    BY DEF Rows
  <2>2. Fits(v, P(p))
    BY <2>1 DEF RowsTypeOK
  <2>. QED  BY <2>2 DEF Fits, A, P, T, L, Links
<1>. QED  BY <1>1, <1>2

\* The changes the statements are made of.
LEMMA ChangeIs ==
  ASSUME NEW rows
  PROVE  Change(rows).rows = rows
  BY DEF Change

\* No change fits.
LEMMA NoRowsFit == Fitting(NoRows) /\ DOMAIN NoRows = {}
  BY DEF Fitting, NoRows

\* Posts that are there and are given to an author stay posts.
LEMMA PostsFit ==
  ASSUME NEW v, RowsTypeOK(v), NEW ps \in SUBSET Posts, \A p \in ps : v[P(p)] # Absent,
         NEW a \in Authors \cup {Null}
  PROVE  Fitting(PostsTo(v, ps, a))
<1> DEFINE ch == PostsTo(v, ps, a)
<1>1. DOMAIN ch = {P(p) : p \in ps}
  BY DEF PostsTo
<1>2. ASSUME NEW p \in ps
      PROVE  Fits(ch, P(p))
  <2>1. v[P(p)] \in PostRow
    BY RowIs
  <2>2. [v[P(p)] EXCEPT !.author = a] \in PostRow
    BY <2>1 DEF PostRow
  <2>3. ch[P(p)] = [v[P(p)] EXCEPT !.author = a]
    BY DEF PostsTo
  <2>. QED  BY <2>2, <2>3 DEF Fits
<1>3. DOMAIN ch \subseteq Rows
  BY <1>1 DEF Rows
<1> HIDE DEF ch
<1>4. \A r \in DOMAIN ch : Fits(ch, r)
  BY <1>1, <1>2
<1>. QED  BY <1>3, <1>4 DEF Fitting, ch

\* A row of any kind may go.
LEMMA GoneFit ==
  ASSUME NEW rs, rs \subseteq Rows, \A r \in rs : r \in Links \/ (\E a \in Authors : r = A(a)) \/ (\E p \in Posts : r = P(p))
  PROVE  Fitting(Gone(rs))
<1>1. DOMAIN Gone(rs) = rs /\ \A r \in rs : Gone(rs)[r] = Absent
  BY DEF Gone
<1>2. \A r \in rs : Fits(Gone(rs), r)
  BY <1>1 DEF Fits
<1>. QED  BY <1>1, <1>2 DEF Fitting

\* Posts may go.
LEMMA GonePosts ==
  ASSUME NEW ps \in SUBSET Posts
  PROVE  Fitting(Gone({P(p) : p \in ps}))
<1>1. {P(p) : p \in ps} \subseteq Rows
  BY DEF Rows
<1>. QED  BY <1>1, GoneFit

\* An author who is not there is inserted.
LEMMA InsertOneFits ==
  ASSUME NEW v, RowsTypeOK(v), NEW s, s.key \in Authors, s.x \in 0..1
  PROVE  /\ Fitting(InsertOne(v, s).rows) /\ DOMAIN InsertOne(v, s).rows \subseteq {A(s.key)}
<1>1. CASE v[A(s.key)] # Absent
  <2>1. InsertOne(v, s).rows = NoRows
    BY <1>1 DEF InsertOne, Clash
  <2>. QED  BY <2>1, NoRowsFit
<1>2. CASE v[A(s.key)] = Absent
  <2> DEFINE ch == [r \in {A(s.key)} |-> [x |-> s.x, deleted |-> FALSE]]
  <2>1. InsertOne(v, s).rows = ch
    BY <1>2 DEF InsertOne, Change
  <2>2. A(s.key) \in Rows
    BY DEF Rows
  <2>3. Fits(ch, A(s.key))
    BY DEF Fits, AuthorRow
  <2>. QED  BY <2>1, <2>2, <2>3 DEF Fitting
<1>. QED  BY <1>1, <1>2

\* ON CONFLICT writes the row of its own key, and DO NOTHING writes none where
\* that row is there.
LEMMA UpsertFits ==
  ASSUME NEW v, RowsTypeOK(v), NEW s, s.key \in Authors, s.x \in 0..1
  PROVE  /\ Fitting(Upsert(v, s).rows) /\ DOMAIN Upsert(v, s).rows \subseteq {A(s.key)}
         /\ v[A(s.key)] # Absent /\ s.conflict = "nothing" => Upsert(v, s).rows = NoRows
<1>1. CASE v[A(s.key)] = Absent
  <2>1. Upsert(v, s) = InsertOne(v, s)
    BY <1>1 DEF Upsert
  <2>. QED  BY <1>1, <2>1, InsertOneFits
<1>2. CASE v[A(s.key)] # Absent /\ s.conflict = "nothing"
  <2>1. Upsert(v, s).rows = NoRows
    BY <1>2 DEF Upsert, Change
  <2>. QED  BY <2>1, NoRowsFit
<1>3. CASE v[A(s.key)] # Absent /\ s.conflict # "nothing"
  <2> DEFINE ch == [r \in {A(s.key)} |-> [v[r] EXCEPT !.x = s.x]]
  <2>1. Upsert(v, s).rows = ch
    BY <1>3 DEF Upsert, Change
  <2>2. A(s.key) \in Rows
    BY DEF Rows
  <2>3. v[A(s.key)] \in AuthorRow
    BY <1>3, RowIs
  <2>4. [v[A(s.key)] EXCEPT !.x = s.x] \in AuthorRow
    BY <2>3 DEF AuthorRow
  <2>5. Fits(ch, A(s.key))
    BY <2>4 DEF Fits
  <2>. QED  BY <1>3, <2>1, <2>2, <2>5 DEF Fitting
<1>. QED  BY <1>1, <1>2, <1>3

\* An INSERT of a chunk writes its own posts or, when one of them is there, none.
LEMMA InsertPostsFit ==
  ASSUME NEW v, RowsTypeOK(v), NEW s, s.posts \in SUBSET Posts, s.author \in Authors
  PROVE  /\ Fitting(InsertPosts(v, s).rows) /\ DOMAIN InsertPosts(v, s).rows \subseteq {P(p) : p \in s.posts}
<1>1. CASE Present(v, s.posts) # {}
  <2>1. InsertPosts(v, s).rows = NoRows
    BY <1>1 DEF InsertPosts, Clash
  <2>. QED  BY <2>1, NoRowsFit
<1>2. CASE Present(v, s.posts) = {}
  <2> DEFINE ch == [r \in {P(p) : p \in s.posts} |-> [author |-> s.author, deleted |-> FALSE]]
  <2>1. InsertPosts(v, s).rows = ch
    BY <1>2 DEF InsertPosts, Change
  <2>2. DOMAIN ch \subseteq Rows
    BY DEF Rows
  <2>3. \A r \in DOMAIN ch : Fits(ch, r)
    BY DEF Fits, PostRow
  <2>. QED  BY <2>1, <2>2, <2>3 DEF Fitting
<1>. QED  BY <1>1, <1>2

\* A link table gains and loses links only.
LEMMA LinksFit ==
  ASSUME NEW v, NEW s, s.author \in Authors, s.ids \in SUBSET Tags
  PROVE  Fitting(InsertLinks(v, s).rows) /\ Fitting(DeleteLinks(v, s).rows)
<1>1. Fitting(InsertLinks(v, s).rows)
  <2> DEFINE ch == [r \in {L(s.author, t) : t \in s.ids} |-> Linked]
  <2>1. InsertLinks(v, s).rows = NoRows \/ InsertLinks(v, s).rows = ch
    BY DEF InsertLinks, Clash, Change
  <2>2. DOMAIN ch \subseteq Links
    BY DEF Links
  <2>3. \A r \in DOMAIN ch : Fits(ch, r)
    BY <2>2 DEF Fits
  <2>4. Fitting(ch)
    BY <2>2, <2>3 DEF Fitting, Rows
  <2>. QED  BY <2>1, <2>4, NoRowsFit
<1>2. Fitting(DeleteLinks(v, s).rows)
  <2> DEFINE rs == {L(s.author, t) : t \in {u \in s.ids : v[L(s.author, u)] # Absent}}
  <2>1. rs \subseteq Links
    BY DEF Links
  <2>2. rs \subseteq Rows
    BY <2>1 DEF Rows
  <2>3. DeleteLinks(v, s).rows = Gone(rs)
    BY DEF DeleteLinks, Change
  <2> HIDE DEF rs
  <2>. QED  BY <2>1, <2>2, <2>3, GoneFit
<1>. QED  BY <1>1, <1>2

\* An UPDATE or a DELETE of authors leaves authors, and takes links with it.
LEMMA AuthorsFit ==
  ASSUME NEW v, RowsTypeOK(v), NEW s, s.filter \in Filters, s.op = "update" => s.x \in 0..1
  PROVE  /\ s.op = "update" => Fitting(UpdateAuthors(v, s).rows)
         /\ Fitting(DeleteAuthors(v, s).rows)
<1> DEFINE hit == Where(v, s.filter)
<1>1. hit \subseteq Authors /\ \A a \in hit : v[A(a)] # Absent
  BY DEF Where
<1>2. {A(a) : a \in hit} \subseteq Rows
  BY <1>1 DEF Rows
<1> HIDE DEF hit
<1>3. Fitting(DeleteAuthors(v, s).rows)
  <2>1. DeleteAuthors(v, s).rows = Gone({A(a) : a \in hit})
    BY DEF DeleteAuthors, Change, hit
  <2>. QED  BY <1>1, <1>2, <2>1, GoneFit
<1>4. ASSUME s.op = "update" PROVE Fitting(UpdateAuthors(v, s).rows)
  <2> DEFINE ch == [r \in {A(a) : a \in hit} |->
                      IF s.set = "x" THEN [v[r] EXCEPT !.x = s.x] ELSE [v[r] EXCEPT !.deleted = TRUE]]
  <2>1. UpdateAuthors(v, s).rows = ch
    BY DEF UpdateAuthors, Change, hit
  <2>2. ASSUME NEW a \in hit PROVE Fits(ch, A(a))
    <3>1. v[A(a)] \in AuthorRow
      BY <1>1, RowIs
    <3>2. [v[A(a)] EXCEPT !.x = s.x] \in AuthorRow /\ [v[A(a)] EXCEPT !.deleted = TRUE] \in AuthorRow
      BY <1>4, <3>1 DEF AuthorRow
    <3>3. ch[A(a)] = IF s.set = "x" THEN [v[A(a)] EXCEPT !.x = s.x] ELSE [v[A(a)] EXCEPT !.deleted = TRUE]
      OBVIOUS
    <3>4. a \in Authors
      BY <1>1
    <3> HIDE DEF ch
    <3>. QED  BY <3>2, <3>3, <3>4 DEF Fits
  <2>3. DOMAIN ch = {A(a) : a \in hit}
    OBVIOUS
  <2> HIDE DEF ch
  <2>4. \A r \in DOMAIN ch : Fits(ch, r)
    BY <2>2, <2>3
  <2>. QED  BY <1>2, <2>1, <2>3, <2>4 DEF Fitting
<1>. QED  BY <1>3, <1>4

\* What a statement carries.
LEMMA StepIs ==
  ASSUME NEW s \in BodySteps
  PROVE  /\ s.op = "insert author" => s.key \in Authors /\ s.x \in 0..1 /\ s.conflict \in {"none", "nothing", "update"}
         /\ s.op \in {"insert posts", "connect", "disconnect", "delete posts"}
              => s.posts \in SUBSET Posts /\ s.author \in Authors
         /\ s.op \in {"disconnect all", "connect found", "find", "delete links", "insert links"} => s.author \in Authors
         /\ s.op = "find" => s.item \in NestedOps
         /\ s.op \in {"delete links", "insert links"} => s.ids \in SUBSET Tags
         /\ s.op \in {"update", "delete"} => s.filter \in Filters
         /\ s.op = "update" => s.x \in 0..1
         /\ s.op = "parents" => s.k \in UpdateCalls
         /\ s.op \notin {"begin", "commit"}
  BY DEF BodySteps, Refusals

\* What every statement changes fits, and the statements of a call without a
\* transaction change rows of that call only.
LEMMA EffectFits ==
  ASSUME NEW v, RowsTypeOK(v), NEW s \in BodySteps, s.op \in Writes
  PROVE  /\ Fitting(Effect(s, v).rows)
         /\ s.op = "insert author" => DOMAIN Effect(s, v).rows \subseteq {A(s.key)}
         /\ s.op = "insert posts" => DOMAIN Effect(s, v).rows \subseteq {P(p) : p \in s.posts}
         /\ s.op = "insert author" /\ s.conflict = "nothing" /\ v[A(s.key)] # Absent => Effect(s, v).rows = NoRows
<1> DEFINE ok(e) == /\ Fitting(e.rows)
                    /\ s.op = "insert author" => DOMAIN e.rows \subseteq {A(s.key)}
                    /\ s.op = "insert posts" => DOMAIN e.rows \subseteq {P(p) : p \in s.posts}
                    /\ s.op = "insert author" /\ s.conflict = "nothing" /\ v[A(s.key)] # Absent => e.rows = NoRows
<1>0. ASSUME NEW ps \in SUBSET Posts, \A p \in ps : v[P(p)] # Absent, NEW a \in Authors \cup {Null},
             s.op \notin {"insert author", "insert posts"}
      PROVE  ok(Change(PostsTo(v, ps, a)))
  BY <1>0, PostsFit, ChangeIs
<1>1. CASE s.op = "insert author"
  <2>1. s.key \in Authors /\ s.x \in 0..1
    BY <1>1, StepIs
  <2>2. CASE s.conflict = "none"
    <3>1. Effect(s, v) = InsertOne(v, s)
      BY <1>1, <2>2 DEF Effect
    <3>. QED  BY <1>1, <2>1, <2>2, <3>1, InsertOneFits
  <2>3. CASE s.conflict # "none"
    <3>1. Effect(s, v) = Upsert(v, s)
      BY <1>1, <2>3 DEF Effect
    <3>. QED  BY <1>1, <2>1, <2>3, <3>1, UpsertFits
  <2>. QED  BY <2>2, <2>3
<1>2. CASE s.op = "insert posts"
  <2>1. Effect(s, v) = InsertPosts(v, s)
    BY <1>2 DEF Effect
  <2>2. s.posts \in SUBSET Posts /\ s.author \in Authors
    BY <1>2, StepIs
  <2>. QED  BY <1>2, <2>1, <2>2, InsertPostsFit
<1>3. CASE s.op = "connect"
  <2>1. Effect(s, v) = Change(PostsTo(v, Present(v, s.posts), s.author))
    BY <1>3 DEF Effect, Connect
  <2>2. s.posts \in SUBSET Posts /\ s.author \in Authors
    BY <1>3, StepIs
  <2>3. Present(v, s.posts) \in SUBSET Posts /\ \A p \in Present(v, s.posts) : v[P(p)] # Absent
    BY <2>2 DEF Present
  <2>. QED  BY <1>3, <2>1, <2>2, <2>3, <1>0
<1>4. CASE s.op = "disconnect"
  <2>1. Effect(s, v) = Change(PostsTo(v, s.posts \cap Children(v, s.author), Null))
    BY <1>4 DEF Effect, Disconnect
  <2>2. /\ s.posts \cap Children(v, s.author) \in SUBSET Posts
        /\ \A p \in s.posts \cap Children(v, s.author) : v[P(p)] # Absent
    BY DEF Children
  <2> DEFINE ps == s.posts \cap Children(v, s.author)
  <2> HIDE DEF ps
  <2>. QED  BY <1>4, <2>1, <2>2, <1>0 DEF ps
<1>5. CASE s.op = "disconnect all"
  <2>1. Effect(s, v) = Change(PostsTo(v, Children(v, s.author), Null))
    BY <1>5 DEF Effect, DisconnectAll
  <2>2. Children(v, s.author) \in SUBSET Posts /\ \A p \in Children(v, s.author) : v[P(p)] # Absent
    BY DEF Children
  <2>. QED  BY <1>5, <2>1, <2>2, <1>0
<1>6. CASE s.op = "connect found"
  <2>1. Effect(s, v) = Change(PostsTo(v, Keeps(v, s.item), s.author))
    BY <1>6 DEF Effect, ConnectFound
  <2>2. Keeps(v, s.item) \in SUBSET Posts /\ \A p \in Keeps(v, s.item) : v[P(p)] # Absent
    BY DEF Keeps
  <2>3. s.author \in Authors
    BY <1>6, StepIs
  <2>. QED  BY <1>6, <2>1, <2>2, <2>3, <1>0
<1>7. CASE s.op = "delete posts"
  <2>1. Effect(s, v) = Change(Gone({P(p) : p \in s.posts \cap Children(v, s.author)}))
    BY <1>7 DEF Effect, DeletePosts
  <2>2. s.posts \cap Children(v, s.author) \in SUBSET Posts
    BY DEF Children
  <2>. QED  BY <1>7, <2>1, <2>2, GonePosts, ChangeIs
<1>8. CASE s.op = "delete links"
  <2>1. Effect(s, v) = DeleteLinks(v, s)
    BY <1>8 DEF Effect
  <2>2. s.author \in Authors /\ s.ids \in SUBSET Tags
    BY <1>8, StepIs
  <2>. QED  BY <1>8, <2>1, <2>2, LinksFit
<1>9. CASE s.op = "insert links"
  <2>1. Effect(s, v) = InsertLinks(v, s)
    BY <1>9 DEF Effect
  <2>2. s.author \in Authors /\ s.ids \in SUBSET Tags
    BY <1>9, StepIs
  <2>. QED  BY <1>9, <2>1, <2>2, LinksFit
<1>10. CASE s.op = "update"
  <2>1. Effect(s, v) = UpdateAuthors(v, s)
    BY <1>10 DEF Effect
  <2>2. s.filter \in Filters /\ s.x \in 0..1
    BY <1>10, StepIs
  <2>. QED  BY <1>10, <2>1, <2>2, AuthorsFit
<1>11. CASE s.op = "delete"
  <2>1. Effect(s, v) = DeleteAuthors(v, s)
    BY <1>11 DEF Effect
  <2>2. s.filter \in Filters
    BY <1>11, StepIs
  <2>. QED  BY <1>11, <2>1, <2>2, AuthorsFit
<1>12. CASE s.op = "cascade"
  <2>1. Effect(s, v) = Change(Gone({P(p) : p \in OfParents(v, s.filter)}))
    BY <1>12 DEF Effect, CascadeDelete
  <2>2. OfParents(v, s.filter) \in SUBSET Posts
    BY DEF OfParents
  <2>. QED  BY <1>12, <2>1, <2>2, GonePosts, ChangeIs
<1>13. CASE s.op = "set null"
  <2>1. Effect(s, v) = Change(PostsTo(v, OfParents(v, s.filter), Null))
    BY <1>13 DEF Effect, CascadeNull
  <2>2. OfParents(v, s.filter) \in SUBSET Posts /\ \A p \in OfParents(v, s.filter) : v[P(p)] # Absent
    BY DEF OfParents, Children
  <2>. QED  BY <1>13, <2>1, <2>2, <1>0
<1>. QED  BY <1>1, <1>2, <1>3, <1>4, <1>5, <1>6, <1>7, <1>8, <1>9, <1>10, <1>11, <1>12, <1>13 DEF Writes

-----------------------------------------------------------------------------
(* The database.                                                            *)

\* What the database always is: its rows are of their kinds, what a transaction
\* would put back is too, and only an open one has anything to put back.
StoreInv ==
  /\ RowsTypeOK(db)
  /\ open \subseteq Clients
  /\ DOMAIN undo = Clients /\ DOMAIN shared = Clients
  /\ \A c \in Clients : Fitting(undo[c]) /\ shared[c] \subseteq Authors
  /\ \A c \in Clients : c \notin open => undo[c] = NoRows /\ shared[c] = {}

\* That is more than its type.
LEMMA StoreTyped == StoreInv => StoreTypeOK
  BY DEF StoreInv, StoreTypeOK, Fitting

\* Changes that fit, over rows that do, do.
LEMMA OverFits ==
  ASSUME NEW g, NEW f, Fitting(g), Fitting(f)
  PROVE  Fitting(Over(g, f))
<1>1. DOMAIN Over(g, f) = DOMAIN f \cup DOMAIN g
  BY DEF Over
<1>2. ASSUME NEW r \in DOMAIN f \cup DOMAIN g
      PROVE  Fits(Over(g, f), r)
  <2>1. CASE r \in DOMAIN g
    <3>1. Over(g, f)[r] = g[r] /\ Fits(g, r)
      BY <2>1 DEF Over, Fitting
    <3>. QED  BY <3>1 DEF Fits
  <2>2. CASE r \notin DOMAIN g
    <3>1. Over(g, f)[r] = f[r] /\ Fits(f, r)
      BY <1>2, <2>2 DEF Over, Fitting
    <3>. QED  BY <3>1 DEF Fits
  <2>. QED  BY <2>1, <2>2
<1>. QED  BY <1>1, <1>2 DEF Fitting

\* The database with changes that fit is a database.
LEMMA OverRows ==
  ASSUME NEW g, NEW v, Fitting(g), RowsTypeOK(v)
  PROVE  RowsTypeOK(Over(g, v))
<1>1. Fitting(v) /\ DOMAIN v = Rows
  BY DEF RowsTypeOK, Fitting
<1>2. Fitting(Over(g, v))
  BY <1>1, OverFits
<1>3. DOMAIN Over(g, v) = Rows
  BY <1>1 DEF Over, Fitting
<1>. QED  BY <1>2, <1>3 DEF RowsTypeOK, Fitting

\* Whatever others hold, a statement sees typed rows.
LEMMA SeenTyped ==
  ASSUME StoreInv, NEW c \in Clients
  PROVE  RowsTypeOK(Seen(c))
<1> DEFINE held(r) == {o \in Clients \ {c} : r \in DOMAIN undo[o]}
<1>1. Seen(c) = [r \in Rows |-> IF held(r) = {} THEN db[r] ELSE undo[CHOOSE o \in held(r) : TRUE][r]]
  BY DEF Seen
<1>2. ASSUME NEW r \in Rows
      PROVE  Fits(Seen(c), r)
  <2>1. CASE held(r) = {}
    <3>1. Seen(c)[r] = db[r]
      BY <1>1, <2>1
    <3>2. Fits(db, r)
      BY DEF StoreInv, RowsTypeOK
    <3>. QED  BY <3>1, <3>2 DEF Fits
  <2>2. CASE held(r) # {}
    <3> DEFINE o == CHOOSE o \in held(r) : TRUE
    <3>1. o \in held(r)
      BY <2>2
    <3>2. Seen(c)[r] = undo[o][r]
      BY <1>1, <2>2
    <3>3. o \in Clients /\ r \in DOMAIN undo[o]
      BY <3>1
    <3> HIDE DEF o
    <3>4. Fits(undo[o], r)
      BY <3>3 DEF StoreInv, Fitting
    <3>. QED  BY <3>2, <3>4 DEF Fits
  <2>. QED  BY <2>1, <2>2
<1>. QED  BY <1>1, <1>2 DEF RowsTypeOK

\* The rows as they were, of any change, fit: what undo holds.
LEMMA PartFits ==
  ASSUME NEW v, RowsTypeOK(v), NEW ch, Fitting(ch)
  PROVE  Fitting([r \in DOMAIN ch |-> v[r]])
<1> DEFINE old == [r \in DOMAIN ch |-> v[r]]
<1>1. DOMAIN ch \subseteq Rows
  BY DEF Fitting
<1>2. \A r \in DOMAIN ch : Fits(v, r) /\ old[r] = v[r]
  BY <1>1 DEF RowsTypeOK
<1>3. DOMAIN old = DOMAIN ch
  OBVIOUS
<1> HIDE DEF old
<1>4. \A r \in DOMAIN ch : Fits(old, r)
  BY <1>2 DEF Fits
<1>. QED  BY <1>1, <1>3, <1>4 DEF Fitting, old

\* A statement that keeps its changes keeps the database what it is, in a
\* transaction (undo grows) or outside of one.
LEMMA KeepFits ==
  ASSUME StoreInv, NEW c \in Clients, NEW ch, Fitting(ch), Keep(c, ch)
  PROVE  StoreInv' /\ open' = open
<1>1. RowsTypeOK(db)'
  <2>1. RowsTypeOK(Over(ch, db))
    BY OverRows DEF StoreInv
  <2>. QED  BY <2>1 DEF Keep, RowsTypeOK, Fits
<1>2. open' = open
  BY DEF Keep
<1>3. CASE c \in open
  <2> DEFINE old == [r \in DOMAIN ch |-> db[r]]
  <2>1. /\ undo' = [undo EXCEPT ![c] = Over(@, old)]
        /\ shared' = [shared EXCEPT ![c] = IF enforced THEN @ \cup References(ch) ELSE @]
    BY <1>3 DEF Keep
  <2>2. Fitting(old)
    BY PartFits DEF StoreInv
  <2>3. Fitting(Over(undo[c], old))
    BY <2>2, OverFits DEF StoreInv
  <2>4. References(ch) \subseteq Authors
    BY DEF References
  <2> HIDE DEF old
  <2>5. DOMAIN undo' = Clients /\ DOMAIN shared' = Clients
    BY <2>1 DEF StoreInv
  <2>6. ASSUME NEW d \in Clients
        PROVE  Fitting(undo'[d]) /\ shared'[d] \subseteq Authors
    <3>1. CASE d = c
      <4>1. undo'[d] = Over(undo[c], old) /\ shared'[d] \subseteq shared[c] \cup References(ch)
        BY <2>1, <3>1 DEF StoreInv
      <4>. QED  BY <2>3, <2>4, <4>1 DEF StoreInv
    <3>2. CASE d # c
      <4>1. undo'[d] = undo[d] /\ shared'[d] = shared[d]
        BY <2>1, <3>2 DEF StoreInv
      <4>. QED  BY <4>1 DEF StoreInv
    <3>. QED  BY <3>1, <3>2
  <2>7. ASSUME NEW d \in Clients, d \notin open
        PROVE  undo'[d] = NoRows /\ shared'[d] = {}
    <3>1. undo'[d] = undo[d] /\ shared'[d] = shared[d]
      BY <1>3, <2>1, <2>7 DEF StoreInv
    <3>. QED  BY <2>7, <3>1 DEF StoreInv
  <2>8. open \subseteq Clients
    BY DEF StoreInv
  <2>9. \A d \in Clients : Fitting(undo[d])'
    BY <2>6 DEF Fitting, Fits
  <2>. QED  BY <1>1, <1>2, <2>5, <2>6, <2>7, <2>8, <2>9 DEF StoreInv
<1>4. CASE c \notin open
  <2>1. undo' = undo /\ shared' = shared
    BY <1>4 DEF Keep
  <2>. QED  BY <1>1, <1>2, <2>1 DEF StoreInv, Fitting, Fits
<1>. QED  BY <1>2, <1>3, <1>4

\* So does BEGIN,
LEMMA BeginFits ==
  ASSUME StoreInv, NEW c \in Clients, BeginTx(c)
  PROVE  StoreInv' /\ open' = open \cup {c}
<1>1. db' = db /\ undo' = undo /\ shared' = shared /\ open' = open \cup {c}
  BY DEF BeginTx
<1>2. RowsTypeOK(db)' /\ \A d \in Clients : Fitting(undo[d])'
  BY <1>1 DEF StoreInv, RowsTypeOK, Fitting, Fits
<1>. QED  BY <1>1, <1>2 DEF StoreInv

\* the end of a transaction whose rows are typed,
LEMMA EndFits ==
  ASSUME StoreInv, NEW c \in Clients, EndTx(c), RowsTypeOK(db')
  PROVE  StoreInv' /\ open' = open \ {c}
<1>1. /\ open' = open \ {c} /\ undo' = [undo EXCEPT ![c] = NoRows]
      /\ shared' = [shared EXCEPT ![c] = {}]
  BY DEF EndTx
<1>2. ASSUME NEW d \in Clients
      PROVE  /\ Fitting(undo'[d]) /\ shared'[d] \subseteq Authors
             /\ d \notin open' => undo'[d] = NoRows /\ shared'[d] = {}
  <2>1. CASE d = c
    <3>1. undo'[d] = NoRows /\ shared'[d] = {}
      BY <1>1, <2>1 DEF StoreInv
    <3>. QED  BY <3>1, NoRowsFit
  <2>2. CASE d # c
    <3>1. undo'[d] = undo[d] /\ shared'[d] = shared[d] /\ (d \notin open' => d \notin open)
      BY <1>1, <2>2 DEF StoreInv
    <3>. QED  BY <3>1 DEF StoreInv
  <2>. QED  BY <2>1, <2>2
<1>3. DOMAIN undo' = Clients /\ DOMAIN shared' = Clients /\ open' \subseteq Clients
  BY <1>1 DEF StoreInv
<1>4. RowsTypeOK(db)' /\ \A d \in Clients : Fitting(undo[d])'
  BY <1>2 DEF RowsTypeOK, Fitting, Fits
<1>. QED  BY <1>1, <1>2, <1>3, <1>4 DEF StoreInv

\* COMMIT,
LEMMA CommitFits ==
  ASSUME StoreInv, NEW c \in Clients, CommitTx(c)
  PROVE  StoreInv' /\ open' = open \ {c}
<1>1. EndTx(c) /\ db' = db
  BY DEF CommitTx
<1>2. RowsTypeOK(db')
  BY <1>1 DEF StoreInv
<1>. QED  BY <1>1, <1>2, EndFits

\* ROLLBACK, which puts the old rows back,
LEMMA RollbackFits ==
  ASSUME StoreInv, NEW c \in Clients, RollbackTx(c)
  PROVE  StoreInv' /\ open' = open \ {c}
<1>1. EndTx(c) /\ db' = Over(undo[c], db)
  BY DEF RollbackTx
<1>2. RowsTypeOK(db')
  BY <1>1, OverRows DEF StoreInv
<1>. QED  BY <1>1, <1>2, EndFits

\* and a step that leaves the database alone.
LEMMA SameStoreFits ==
  ASSUME StoreInv, UNCHANGED store
  PROVE  StoreInv' /\ open' = open
<1>1. db' = db /\ undo' = undo /\ shared' = shared /\ open' = open
  BY DEF store
<1>2. RowsTypeOK(db)' /\ \A d \in Clients : Fitting(undo[d])'
  BY <1>1 DEF StoreInv, RowsTypeOK, Fitting, Fits
<1>. QED  BY <1>1, <1>2 DEF StoreInv

-----------------------------------------------------------------------------
(* Where a call is.                                                         *)

\* The first and the last statement of a transaction, and everything a call
\* sends.
BeginOp == [op |-> "begin"]
CommitOp == [op |-> "commit"]
AnyStep == BodySteps \cup {BeginOp, CommitOp}

\* What is left inside a transaction: COMMIT is its end.
Closed(todo) == \E body \in Seq(BodySteps) : todo = body \o <<CommitOp>>
\* A call that has BEGIN before it.
Begins(todo) == todo # <<>> /\ Head(todo) = BeginOp /\ Closed(Tail(todo))

\* A list with one element at either end.
LEMMA Parts ==
  ASSUME NEW S, NEW x \in S, NEW b \in Seq(S)
  PROVE  /\ <<x>> \o b # <<>> /\ Head(<<x>> \o b) = x /\ Tail(<<x>> \o b) = b
         /\ b \o <<x>> # <<>>
         /\ b # <<>> => Head(b) \in S /\ Tail(b) \in Seq(S)
         /\ b # <<>> => Head(b \o <<x>>) = Head(b) /\ Tail(b \o <<x>>) = Tail(b) \o <<x>>
         /\ Head(<<>> \o <<x>>) = x /\ Tail(<<>> \o <<x>>) = <<>>
         /\ Head(<<x>>) = x /\ Tail(<<x>>) = <<>> /\ <<x>> # <<>>
         /\ <<>> \o b = b
  OBVIOUS

\* Lists may be joined in either order of joining.
LEMMA JoinedTwice ==
  ASSUME NEW S, NEW x \in S, NEW b \in Seq(S), NEW m \in Seq(S)
  PROVE  m \o (b \o <<x>>) = (m \o b) \o <<x>> /\ (<<x>> \o b) \o m = <<x>> \o (b \o m)
  OBVIOUS

\* What is between BEGIN and COMMIT is among everything a call sends.
LEMMA Wider ==
  ASSUME NEW b \in Seq(BodySteps)
  PROVE  b \in Seq(AnyStep)
<1>1. BodySteps \subseteq AnyStep
  BY DEF AnyStep
<1> HIDE DEF AnyStep, BodySteps
<1>. QED  BY <1>1

\* Inside a transaction COMMIT comes next and nothing after it, or a statement
\* after which COMMIT is still the end.
LEMMA ClosedParts ==
  ASSUME NEW todo, Closed(todo)
  PROVE  /\ todo # <<>>
         /\ \/ Head(todo) = CommitOp /\ Tail(todo) = <<>>
            \/ Head(todo) \in BodySteps /\ Closed(Tail(todo))
<1>1. PICK body \in Seq(BodySteps) : todo = body \o <<CommitOp>>
  BY DEF Closed
<1>2. CommitOp \in AnyStep /\ body \in Seq(AnyStep)
  BY Wider DEF AnyStep
<1>3. CASE body = <<>>
  <2>1. todo # <<>> /\ Head(todo) = CommitOp /\ Tail(todo) = <<>>
    BY <1>1, <1>2, <1>3, Parts
  <2>. QED  BY <2>1
<1>4. CASE body # <<>>
  <2>1. todo # <<>> /\ Head(todo) = Head(body) /\ Tail(todo) = Tail(body) \o <<CommitOp>>
    BY <1>1, <1>2, <1>4, Parts
  <2>2. Head(body) \in BodySteps /\ Tail(body) \in Seq(BodySteps)
    <3> HIDE DEF BodySteps
    <3>. QED  BY <1>4
  <2>. QED  BY <2>1, <2>2 DEF Closed
<1>. QED  BY <1>3, <1>4

\* What a lookup adds goes before the COMMIT.
LEMMA ClosedMore ==
  ASSUME NEW todo, Closed(todo), NEW more \in Seq(BodySteps)
  PROVE  Closed(more \o todo)
<1>1. PICK body \in Seq(BodySteps) : todo = body \o <<CommitOp>>
  BY DEF Closed
<1>2. CommitOp \in AnyStep /\ body \in Seq(AnyStep) /\ more \in Seq(AnyStep)
  BY Wider DEF AnyStep
<1>3. more \o todo = (more \o body) \o <<CommitOp>>
  BY <1>1, <1>2, JoinedTwice
<1>4. more \o body \in Seq(BodySteps)
  BY StepsJoined
<1>. QED  BY <1>3, <1>4 DEF Closed

\* A transaction starts at its BEGIN.
LEMMA WholeBegins ==
  ASSUME NEW todo, Whole(todo)
  PROVE  Begins(todo)
<1>1. PICK body \in Seq(BodySteps) : todo = In(body)
  BY DEF Whole
<1>2. BeginOp \in AnyStep /\ CommitOp \in AnyStep /\ body \in Seq(AnyStep)
  BY Wider DEF AnyStep
<1>3. <<CommitOp>> \in Seq(AnyStep)
  <2> HIDE DEF AnyStep, CommitOp
  <2>. QED  BY <1>2
<1>4. todo = <<BeginOp>> \o (body \o <<CommitOp>>)
  <2>1. todo = (<<BeginOp>> \o body) \o <<CommitOp>>
    BY <1>1 DEF In, BeginOp, CommitOp
  <2>. QED  BY <1>2, <1>3, <2>1, JoinedTwice
<1>5. body \o <<CommitOp>> \in Seq(AnyStep)
  <2> HIDE DEF AnyStep, CommitOp
  <2>. QED  BY <1>2, <1>3
<1>6. Head(todo) = BeginOp /\ Tail(todo) = body \o <<CommitOp>> /\ todo # <<>>
  BY <1>2, <1>4, <1>5, Parts
<1>. QED  BY <1>6 DEF Begins, Closed

\* After the one statement nothing is left.
LEMMA SingleParts ==
  ASSUME NEW todo, Single(todo)
  PROVE  /\ todo # <<>> /\ Tail(todo) = <<>> /\ Head(todo) \in BodySteps
         /\ Head(todo).op \in {"insert author", "update", "delete"} \cup Refusals
<1>1. PICK s \in BodySteps : s.op \in {"insert author", "update", "delete"} \cup Refusals /\ todo = <<s>>
  BY DEF Single
<1>2. Head(todo) = s /\ Tail(todo) = <<>> /\ todo # <<>>
  BY <1>1, NoStep, Parts
<1>. QED  BY <1>1, <1>2

\* After a piece, pieces are left.
LEMMA PiecesParts ==
  ASSUME NEW k, NEW todo, Pieces(k, todo), todo # <<>>
  PROVE  Head(todo) \in BodySteps /\ Asked(k, Head(todo)) /\ Pieces(k, Tail(todo))
<1>1. todo \in Seq(BodySteps) /\ \A i \in 1..Len(todo) : Asked(k, todo[i])
  BY DEF Pieces
<1>2. /\ Head(todo) \in BodySteps /\ Tail(todo) \in Seq(BodySteps)
      /\ Len(todo) \in Nat /\ Len(todo) >= 1 /\ Len(Tail(todo)) = Len(todo) - 1
      /\ \A i \in 1..(Len(todo) - 1) : Tail(todo)[i] = todo[i + 1]
      /\ Head(todo) = todo[1]
  <2> HIDE DEF BodySteps
  <2>. QED  BY <1>1
<1>3. \A i \in 1..Len(Tail(todo)) : Asked(k, Tail(todo)[i])
  BY <1>1, <1>2
<1>4. Asked(k, Head(todo))
  BY <1>1, <1>2
<1>. QED  BY <1>2, <1>3, <1>4 DEF Pieces

\* The fields of what a call remembers.
RunFields == {"phase", "todo", "parents", "n", "kids", "tags", "attempt"}

\* The rows a call without a transaction was asked to write.
AskedRows(k) == IF k.kind = "insert" THEN {A(k.key)} ELSE {P(p) : p \in k.posts}

\* A call k that is at r, in a transaction or not, and has changed the rows in
\* last for good.
Proper(k, r, inTx, last) ==
  /\ DOMAIN r = RunFields
  /\ r.phase \in {"idle", "running", "again", "ok", "error"}
  /\ r.phase # "idle" => k \in AnyCall
  /\ r.phase = "idle" => k = Null /\ ~inTx /\ last = {}
  /\ k # Null /\ k.kind = "transaction" => r.attempt \in 1..k.attempts
  /\ r.phase = "running" /\ inTx => Closed(r.todo) /\ last = {}
  /\ r.phase = "running" /\ ~inTx =>
       \/ Begins(r.todo) /\ last = {}
       \/ Single(r.todo) /\ last = {}
       \/ Pieces(k, r.todo) /\ r.todo # <<>> /\ last \subseteq AskedRows(k)
  /\ r.phase = "again" => inTx /\ last = {} /\ k.kind = "transaction" /\ r.attempt < k.attempts
  /\ r.phase = "ok" => ~inTx /\ r.todo = <<>>
  /\ r.phase = "error" => last = {} \/ (~inTx /\ InPieces(k) /\ last \subseteq AskedRows(k))

\* The inductive invariant. ErrorsLeaveNothing speaks of calls that have ended;
\* what makes it true is where each running call stands: in a transaction it has
\* changed nothing for good and still has COMMIT as its last statement, outside
\* of one it is before BEGIN, at its only statement, or among the pieces of an
\* insert, of which it changed rows it was asked for.
IInv ==
  /\ StoreInv
  /\ returning \in BOOLEAN
  /\ DOMAIN call = Clients /\ DOMAIN run = Clients /\ DOMAIN lasting = Clients
  /\ \A c \in Clients : Proper(call[c], run[c], c \in open, lasting[c])

\* A call that has not begun, and one that ended with an error.
LEMMA IdleIs ==
  /\ DOMAIN Idle = RunFields /\ Idle.attempt = 1
  /\ \A phase : [Idle EXCEPT !.phase = phase].phase = phase
                /\ [Idle EXCEPT !.phase = phase].attempt = 1
                /\ DOMAIN [Idle EXCEPT !.phase = phase] = RunFields
                /\ [Idle EXCEPT !.phase = phase].todo = <<>>
  BY DEF Idle, RunFields

\* The call of c goes on, and nobody else's.
LEMMA OnlyOne ==
  ASSUME IInv, NEW c \in Clients, StoreInv', returning' = returning,
         DOMAIN call' = Clients, DOMAIN run' = Clients, DOMAIN lasting' = Clients,
         \A d \in Clients : d # c => /\ call'[d] = call[d] /\ run'[d] = run[d]
                                     /\ lasting'[d] = lasting[d] /\ (d \in open') = (d \in open),
         Proper(call'[c], run'[c], c \in open', lasting'[c])
  PROVE  IInv'
<1>1. ASSUME NEW d \in Clients
      PROVE  Proper(call[d], run[d], d \in open, lasting[d])'
  <2>1. Proper(call'[d], run'[d], d \in open', lasting'[d])
    <3>1. CASE d = c
      BY <3>1
    <3>2. CASE d # c
      <4>1. Proper(call[d], run[d], d \in open, lasting[d])
        BY DEF IInv
      <4>2. (d \in open') = (d \in open)
        BY <3>2
      <4>. QED  BY <3>2, <4>1, <4>2
    <3>. QED  BY <3>1, <3>2
  <2>2. \A k, todo : (Pieces(k, todo))' = Pieces(k, todo)
    BY DEF Pieces, InPieces, Asked
  <2>. QED  BY <2>1 DEF Proper, Pieces, InPieces, Asked
<1>. QED  BY <1>1 DEF IInv

\* A call that goes on has what it added before what it had left.
LEMMA Next1Is ==
  ASSUME IInv, NEW c \in Clients, NEW r, DOMAIN r = RunFields, NEW more, Next1(c, r, more)
  PROVE  /\ DOMAIN run' = Clients /\ \A d \in Clients : d # c => run'[d] = run[d]
         /\ DOMAIN run'[c] = RunFields /\ run'[c].attempt = r.attempt
         /\ run'[c].todo = more \o Tail(run[c].todo)
         /\ run'[c].phase = IF more \o Tail(run[c].todo) = <<>> THEN "ok" ELSE "running"
<1> DEFINE todo == more \o Tail(run[c].todo)
           phase == IF todo = <<>> THEN "ok" ELSE "running"
           q == [r EXCEPT !.todo = todo, !.phase = phase]
<1>1. run' = [run EXCEPT ![c] = q]
  BY DEF Next1
<1>2. DOMAIN q = RunFields /\ q.attempt = r.attempt /\ q.todo = todo /\ q.phase = phase
  <2> HIDE DEF todo, phase
  <2>. QED  BY DEF RunFields
<1> HIDE DEF q
<1>. QED  BY <1>1, <1>2 DEF IInv

\* A call that is given up remembers nothing.
LEMMA ErrIs ==
  ASSUME IInv, NEW c \in Clients, Err(c)
  PROVE  /\ DOMAIN run' = Clients /\ \A d \in Clients : d # c => run'[d] = run[d]
         /\ DOMAIN run'[c] = RunFields /\ run'[c].attempt = 1 /\ run'[c].phase = "error"
<1> DEFINE q == [Idle EXCEPT !.phase = "error"]
<1>1. run' = [run EXCEPT ![c] = q]
  BY DEF Err
<1>2. DOMAIN q = RunFields /\ q.attempt = 1 /\ q.phase = "error"
  BY IdleIs
<1> HIDE DEF q
<1>. QED  BY <1>1, <1>2 DEF IInv

\* transaction() tries at least once (max_attempts).
LEMMA AttemptsAre ==
  ASSUME NEW k \in AnyCall, k.kind = "transaction"
  PROVE  k \in Transactions /\ k.attempts \in Nat \ {0}
<1>1. k \in Transactions
  BY DEF AnyCall, InsertCalls, ManyCalls, UpdateCalls, DeleteCalls, Transactions
<1>. QED  BY <1>1 DEF Transactions

\* A call that is given up has changed nothing for good, or it was in pieces.
LEMMA GivesUp ==
  ASSUME IInv, NEW c \in Clients, run[c].phase = "running", Err(c)
  PROVE  Proper(call[c], run'[c], c \in open, lasting[c])
<1>1. Proper(call[c], run[c], c \in open, lasting[c])
  BY DEF IInv
<1>2. call[c] \in AnyCall
  BY <1>1 DEF Proper
<1>3. DOMAIN run'[c] = RunFields /\ run'[c].attempt = 1 /\ run'[c].phase = "error"
  BY ErrIs
<1>4. call[c].kind = "transaction" => 1 \in 1..call[c].attempts
  BY <1>2, AttemptsAre
<1>5. lasting[c] = {} \/ (c \notin open /\ InPieces(call[c]) /\ lasting[c] \subseteq AskedRows(call[c]))
  BY <1>1 DEF Proper, Pieces
<1>. QED  BY <1>2, <1>3, <1>4, <1>5 DEF Proper

\* Inside a transaction a call goes on with what it has left, and what it has
\* found.
LEMMA GoesOnInside ==
  ASSUME IInv, NEW c \in Clients, run[c].phase = "running", c \in open,
         Head(run[c].todo) # CommitOp,
         NEW r, DOMAIN r = RunFields, r.attempt = run[c].attempt,
         NEW more \in Seq(BodySteps), Next1(c, r, more)
  PROVE  Proper(call[c], run'[c], TRUE, lasting[c])
<1>1. Proper(call[c], run[c], TRUE, lasting[c])
  <2>1. (c \in open) = TRUE
    OBVIOUS
  <2>2. Proper(call[c], run[c], c \in open, lasting[c])
    BY DEF IInv
  <2>. QED  BY <2>1, <2>2
<1>2. Closed(run[c].todo) /\ lasting[c] = {}
  BY <1>1 DEF Proper
<1>3. Closed(Tail(run[c].todo))
  BY <1>2, ClosedParts
<1>4. Closed(more \o Tail(run[c].todo)) /\ more \o Tail(run[c].todo) # <<>>
  BY <1>3, ClosedMore, ClosedParts
<1>5. /\ DOMAIN run'[c] = RunFields /\ run'[c].attempt = run[c].attempt
      /\ run'[c].todo = more \o Tail(run[c].todo) /\ run'[c].phase = "running"
  BY <1>4, Next1Is
<1>. QED  BY <1>1, <1>2, <1>4, <1>5 DEF Proper

\* Outside of one it goes on with the rest.
LEMMA GoesOnOutside ==
  ASSUME IInv, NEW c \in Clients, run[c].phase = "running", c \notin open,
         Head(run[c].todo) # BeginOp,
         NEW r, DOMAIN r = RunFields, r.attempt = run[c].attempt, Next1(c, r, <<>>),
         NEW last, Pieces(call[c], run[c].todo) => last \subseteq AskedRows(call[c])
  PROVE  Proper(call[c], run'[c], FALSE, last)
<1>1. Proper(call[c], run[c], FALSE, lasting[c])
  <2>1. (c \in open) = FALSE
    OBVIOUS
  <2>2. Proper(call[c], run[c], c \in open, lasting[c])
    BY DEF IInv
  <2>. QED  BY <2>1, <2>2
<1>2. \/ Single(run[c].todo)
      \/ Pieces(call[c], run[c].todo) /\ run[c].todo # <<>>
  BY <1>1 DEF Proper, Begins
<1>3. <<>> \o Tail(run[c].todo) = Tail(run[c].todo)
  <2>1. Tail(run[c].todo) \in Seq(BodySteps)
    <3>1. CASE Single(run[c].todo)
      BY <3>1, SingleParts, NoStep
    <3>2. CASE Pieces(call[c], run[c].todo) /\ run[c].todo # <<>>
      BY <3>2, PiecesParts DEF Pieces
    <3>. QED  BY <1>2, <3>1, <3>2
  <2>. QED  BY <2>1, NothingJoined
<1>4. /\ DOMAIN run'[c] = RunFields /\ run'[c].attempt = run[c].attempt
      /\ run'[c].todo = Tail(run[c].todo)
      /\ run'[c].phase = IF Tail(run[c].todo) = <<>> THEN "ok" ELSE "running"
  BY <1>3, Next1Is
<1>5. CASE Tail(run[c].todo) = <<>>
  BY <1>1, <1>4, <1>5 DEF Proper
<1>6. CASE Tail(run[c].todo) # <<>>
  <2>1. Pieces(call[c], run[c].todo) /\ run[c].todo # <<>>
    BY <1>2, <1>6, SingleParts
  <2>2. Pieces(call[c], Tail(run[c].todo)) /\ last \subseteq AskedRows(call[c])
    BY <2>1, PiecesParts
  <2>. QED  BY <1>1, <1>4, <1>6, <2>2 DEF Proper
<1>. QED  BY <1>5, <1>6

\* Before the first call nothing is open and nothing has changed.
LEMMA InitInv == Init => IInv
<1> SUFFICES ASSUME Init PROVE IInv
  OBVIOUS
<1>1. StoreInv
  <2>1. RowsTypeOK(db)
    BY WriteAssumption DEF Init
  <2>2. \A c \in Clients : undo[c] = NoRows /\ shared[c] = {}
    BY DEF Init
  <2>3. \A c \in Clients : Fitting(undo[c])
    BY <2>2, NoRowsFit
  <2>4. DOMAIN undo = Clients /\ DOMAIN shared = Clients /\ open = {}
    BY DEF Init
  <2>. QED  BY <2>1, <2>2, <2>3, <2>4 DEF StoreInv
<1>2. ASSUME NEW c \in Clients
      PROVE  Proper(call[c], run[c], c \in open, lasting[c])
  <2>1. call[c] = Null /\ run[c] = Idle /\ c \notin open /\ lasting[c] = {}
    BY <1>2 DEF Init
  <2>2. DOMAIN Idle = RunFields /\ Idle.phase = "idle"
    BY IdleIs DEF Idle
  <2>. QED  BY <2>1, <2>2 DEF Proper
<1>3. returning \in BOOLEAN /\ DOMAIN call = Clients /\ DOMAIN run = Clients /\ DOMAIN lasting = Clients
  BY DEF Init
<1>. QED  BY <1>1, <1>2, <1>3 DEF IInv

\* A call starts with what StepsAre says, or is refused before anything is sent.
LEMMA StartKeeps ==
  ASSUME IInv, NEW c \in Clients, NEW k \in Calls[c], Start(c, k)
  PROVE  IInv'
<1> DEFINE steps == Steps(k)
           r == IF steps # <<>> /\ Head(steps).op \in Refusals THEN [Idle EXCEPT !.phase = "error"]
                ELSE [Idle EXCEPT !.todo = steps, !.phase = IF steps = <<>> THEN "ok" ELSE "running"]
<1>1. /\ run[c].phase = "idle" /\ call' = [call EXCEPT ![c] = k] /\ run' = [run EXCEPT ![c] = r]
      /\ returning' = returning /\ UNCHANGED store /\ lasting' = lasting
  BY DEF Start, NoWrite, HistoryKept
<1>2. k \in AnyCall
  BY CallAssumption DEF AnyCall
<1>3. Shaped(k, steps)
  BY <1>2, StepsAre DEF IInv
<1>4. StoreInv' /\ open' = open
  BY <1>1, SameStoreFits DEF IInv
<1>5. c \notin open /\ lasting[c] = {}
  <2>1. Proper(call[c], run[c], c \in open, lasting[c])
    BY DEF IInv
  <2>. QED  BY <1>1, <2>1 DEF Proper
<1>6. k.kind = "transaction" => 1 \in 1..k.attempts
  BY <1>2, AttemptsAre
<1>7. Proper(k, r, FALSE, {})
  <2>1. CASE steps # <<>> /\ Head(steps).op \in Refusals
    <3>1. r = [Idle EXCEPT !.phase = "error"]
      BY <2>1
    <3>2. DOMAIN r = RunFields /\ r.attempt = 1 /\ r.phase = "error"
      <4> HIDE DEF r
      <4>. QED  BY <3>1, IdleIs
    <3> HIDE DEF r
    <3>. QED  BY <1>2, <1>6, <3>2 DEF Proper
  <2>2. CASE ~(steps # <<>> /\ Head(steps).op \in Refusals)
    <3> DEFINE phase == IF steps = <<>> THEN "ok" ELSE "running"
    <3>1. r = [Idle EXCEPT !.todo = steps, !.phase = phase]
      BY <2>2
    <3>2. DOMAIN r = RunFields /\ r.attempt = 1 /\ r.phase = phase /\ r.todo = steps
      <4> HIDE DEF r, phase, steps
      <4>. QED  BY <3>1 DEF Idle, RunFields
    <3> HIDE DEF r, steps
    <3>3. CASE steps = <<>>
      BY <1>2, <1>6, <3>2, <3>3 DEF Proper
    <3>4. CASE steps # <<>>
      <4>1. Begins(steps) \/ Single(steps) \/ (Pieces(k, steps) /\ steps # <<>>)
        BY <1>3, <3>4, WholeBegins DEF Shaped
      <4>. QED  BY <1>2, <1>6, <3>2, <3>4, <4>1 DEF Proper
    <3>. QED  BY <3>3, <3>4
  <2>. QED  BY <2>1, <2>2
<1> HIDE DEF r
<1>8. call'[c] = k /\ run'[c] = r
  BY <1>1 DEF IInv
<1>9. Proper(call'[c], run'[c], c \in open', lasting'[c])
  <2>1. (c \in open') = FALSE
    BY <1>4, <1>5
  <2>. QED  BY <1>1, <1>5, <1>7, <1>8, <2>1
<1>10. /\ DOMAIN call' = Clients /\ DOMAIN run' = Clients /\ DOMAIN lasting' = Clients
       /\ \A d \in Clients : d # c => /\ call'[d] = call[d] /\ run'[d] = run[d]
                                      /\ lasting'[d] = lasting[d] /\ (d \in open') = (d \in open)
  BY <1>1, <1>4 DEF IInv
<1>. QED  BY <1>1, <1>4, <1>9, <1>10, OnlyOne

\* What a client at a statement is in.
LEMMA AtStep ==
  ASSUME IInv, NEW c \in Clients, run[c].phase = "running"
  PROVE  /\ DOMAIN run[c] = RunFields
         /\ run[c].todo # <<>>
         /\ c \in open => /\ lasting[c] = {} /\ Head(run[c].todo) \in BodySteps \cup {CommitOp}
                          /\ Head(run[c].todo) = CommitOp => Tail(run[c].todo) = <<>>
         /\ c \notin open => \/ Head(run[c].todo) = BeginOp /\ Closed(Tail(run[c].todo)) /\ lasting[c] = {}
                             \/ /\ Single(run[c].todo) /\ lasting[c] = {}
                                /\ Head(run[c].todo) \in BodySteps
                                /\ Head(run[c].todo).op \in {"insert author", "update", "delete"} \cup Refusals
                             \/ /\ Pieces(call[c], run[c].todo) /\ lasting[c] \subseteq AskedRows(call[c])
                                /\ Head(run[c].todo) \in BodySteps
                                /\ Asked(call[c], Head(run[c].todo))
<1>1. Proper(call[c], run[c], c \in open, lasting[c])
  BY DEF IInv
<1>2. DOMAIN run[c] = RunFields
  BY <1>1 DEF Proper
<1>3. CASE c \in open
  <2>1. Closed(run[c].todo) /\ lasting[c] = {}
    BY <1>1, <1>3 DEF Proper
  <2>2. CommitOp.op = "commit" /\ \A s \in BodySteps : s.op # "commit"
    BY StepIs DEF CommitOp
  <2>. QED  BY <1>2, <1>3, <2>1, <2>2, ClosedParts
<1>4. CASE c \notin open
  <2>1. \/ Begins(run[c].todo) /\ lasting[c] = {}
        \/ Single(run[c].todo) /\ lasting[c] = {}
        \/ Pieces(call[c], run[c].todo) /\ run[c].todo # <<>> /\ lasting[c] \subseteq AskedRows(call[c])
    BY <1>1, <1>4 DEF Proper
  <2>2. CASE Begins(run[c].todo) /\ lasting[c] = {}
    BY <1>2, <1>4, <2>2 DEF Begins
  <2>3. CASE Single(run[c].todo) /\ lasting[c] = {}
    BY <1>2, <1>4, <2>3, SingleParts
  <2>4. CASE Pieces(call[c], run[c].todo) /\ run[c].todo # <<>> /\ lasting[c] \subseteq AskedRows(call[c])
    BY <1>2, <1>4, <2>4, PiecesParts
  <2>. QED  BY <2>1, <2>2, <2>3, <2>4
<1>. QED  BY <1>3, <1>4

\* BEGIN: the call is inside, and has changed nothing for good.
LEMMA BeginKeeps ==
  ASSUME IInv, NEW c \in Clients, Begin(c)
  PROVE  IInv'
<1>1. /\ run[c].phase = "running" /\ Head(run[c].todo).op = "begin"
      /\ BeginTx(c) /\ Next1(c, run[c], <<>>)
      /\ call' = call /\ returning' = returning /\ lasting' = lasting
  BY DEF Begin, Running
<1>2. StoreInv' /\ open' = open \cup {c}
  BY <1>1, BeginFits DEF IInv
<1>3. Head(run[c].todo) \notin BodySteps \cup {CommitOp}
  <2> DEFINE s == Head(run[c].todo)
  <2>1. s.op = "begin" /\ CommitOp.op = "commit"
    BY <1>1 DEF CommitOp
  <2> HIDE DEF s
  <2>2. s \notin BodySteps /\ s # CommitOp
    BY <2>1, StepIs
  <2>. QED  BY <2>2 DEF s
<1>4. Closed(Tail(run[c].todo)) /\ lasting[c] = {} /\ DOMAIN run[c] = RunFields
  BY <1>1, <1>3, AtStep
<1>5. Closed(<<>> \o Tail(run[c].todo)) /\ <<>> \o Tail(run[c].todo) # <<>>
  BY <1>4, NoStep, ClosedMore, ClosedParts
<1>6. /\ DOMAIN run' = Clients /\ \A d \in Clients : d # c => run'[d] = run[d]
      /\ DOMAIN run'[c] = RunFields /\ run'[c].attempt = run[c].attempt
      /\ run'[c].todo = <<>> \o Tail(run[c].todo) /\ run'[c].phase = "running"
  BY <1>1, <1>4, <1>5, Next1Is
<1>7. Proper(call'[c], run'[c], c \in open', lasting'[c])
  <2>1. Proper(call[c], run[c], c \in open, lasting[c])
    BY DEF IInv
  <2>2. (c \in open') = TRUE
    BY <1>2
  <2>3. Proper(call[c], run'[c], TRUE, lasting[c])
    BY <1>1, <1>4, <1>5, <1>6, <2>1 DEF Proper
  <2>. QED  BY <1>1, <2>2, <2>3
<1>8. /\ DOMAIN call' = Clients /\ DOMAIN run' = Clients /\ DOMAIN lasting' = Clients
      /\ \A d \in Clients : d # c => /\ call'[d] = call[d] /\ run'[d] = run[d]
                                     /\ lasting'[d] = lasting[d] /\ (d \in open') = (d \in open)
  BY <1>1, <1>2, <1>6 DEF IInv
<1>. QED  BY <1>1, <1>2, <1>7, <1>8, OnlyOne

\* COMMIT is the last statement: the call is through.
LEMMA CommitKeeps ==
  ASSUME IInv, NEW c \in Clients, Commit(c)
  PROVE  IInv'
<1>1. /\ run[c].phase = "running" /\ Head(run[c].todo).op = "commit"
      /\ CommitTx(c) /\ Next1(c, run[c], <<>>)
      /\ call' = call /\ returning' = returning /\ lasting' = [lasting EXCEPT ![c] = DOMAIN undo[c]]
  BY DEF Commit, Running
<1>2. StoreInv' /\ open' = open \ {c}
  BY <1>1, CommitFits DEF IInv
<1>3. Head(run[c].todo) \notin BodySteps /\ Head(run[c].todo) # BeginOp
  <2> DEFINE s == Head(run[c].todo)
  <2>1. s.op = "commit" /\ BeginOp.op = "begin"
    BY <1>1 DEF BeginOp
  <2> HIDE DEF s
  <2>2. s \notin BodySteps /\ s # BeginOp
    BY <2>1, StepIs
  <2>. QED  BY <2>2 DEF s
<1>4. Tail(run[c].todo) = <<>> /\ DOMAIN run[c] = RunFields
  BY <1>1, <1>3, AtStep
<1>5. <<>> \o Tail(run[c].todo) = <<>>
  BY <1>4, NoStep, NothingJoined
<1>6. /\ DOMAIN run' = Clients /\ \A d \in Clients : d # c => run'[d] = run[d]
      /\ DOMAIN run'[c] = RunFields /\ run'[c].attempt = run[c].attempt
      /\ run'[c].todo = <<>> /\ run'[c].phase = "ok"
  BY <1>1, <1>4, <1>5, Next1Is
<1>7. Proper(call'[c], run'[c], c \in open', lasting'[c])
  <2>1. Proper(call[c], run[c], c \in open, lasting[c])
    BY DEF IInv
  <2>2. (c \in open') = FALSE
    BY <1>2
  <2>3. \A last : Proper(call[c], run'[c], FALSE, last)
    BY <1>1, <1>6, <2>1 DEF Proper
  <2>. QED  BY <1>1, <2>2, <2>3
<1>8. /\ DOMAIN call' = Clients /\ DOMAIN run' = Clients /\ DOMAIN lasting' = Clients
      /\ \A d \in Clients : d # c => /\ call'[d] = call[d] /\ run'[d] = run[d]
                                     /\ lasting'[d] = lasting[d] /\ (d \in open') = (d \in open)
  BY <1>1, <1>2, <1>6 DEF IInv
<1>. QED  BY <1>1, <1>2, <1>7, <1>8, OnlyOne

\* A step of c that changes no row.
LEMMA QuietKeeps ==
  ASSUME IInv, NEW c \in Clients, NoWrite, call' = call, returning' = returning,
         DOMAIN run' = Clients, \A d \in Clients : d # c => run'[d] = run[d],
         Proper(call[c], run'[c], c \in open, lasting[c])
  PROVE  IInv'
<1>1. UNCHANGED store /\ lasting' = lasting
  BY DEF NoWrite, HistoryKept
<1>2. StoreInv' /\ open' = open
  BY <1>1, SameStoreFits DEF IInv
<1>3. Proper(call'[c], run'[c], c \in open', lasting'[c])
  BY <1>1, <1>2
<1>4. /\ DOMAIN call' = Clients /\ DOMAIN lasting' = Clients
      /\ \A d \in Clients : d # c => /\ call'[d] = call[d] /\ run'[d] = run[d]
                                     /\ lasting'[d] = lasting[d] /\ (d \in open') = (d \in open)
  BY <1>1, <1>2 DEF IInv
<1>. QED  BY <1>2, <1>3, <1>4, OnlyOne

\* A call that is given up at a statement (the ? of exec).
LEMMA GivingUpKeeps ==
  ASSUME IInv, NEW c \in Clients, NoWrite, call' = call, returning' = returning,
         run[c].phase = "running", Err(c)
  PROVE  IInv'
<1>1. DOMAIN run' = Clients /\ \A d \in Clients : d # c => run'[d] = run[d]
  BY ErrIs
<1>. QED  BY <1>1, GivesUp, QuietKeeps

\* Outside a transaction nothing is looked up that adds statements.
LEMMA LooksInside ==
  ASSUME IInv, NEW c \in Clients, run[c].phase = "running",
         Head(run[c].todo).op \in {"parents", "find"}
  PROVE  c \in open
<1> DEFINE s == Head(run[c].todo)
<1>1. s # BeginOp
  <2>1. s.op \in {"parents", "find"} /\ BeginOp.op = "begin"
    BY DEF BeginOp
  <2> HIDE DEF s
  <2>. QED  BY <2>1
<1>2. s.op \notin {"insert author", "update", "delete"} \cup Refusals /\ ~Asked(call[c], s)
  BY DEF Refusals, Asked
<1> HIDE DEF s
<1>. QED  BY <1>1, <1>2, AtStep DEF s

\* A statement that is neither BEGIN nor COMMIT, inside or outside.
LEMMA GoesOn ==
  ASSUME IInv, NEW c \in Clients, run[c].phase = "running",
         Head(run[c].todo).op \notin {"begin", "commit"},
         NEW r, DOMAIN r = RunFields, r.attempt = run[c].attempt,
         NEW more \in Seq(BodySteps), more = <<>> \/ c \in open, Next1(c, r, more)
  PROVE  Proper(call[c], run'[c], c \in open, lasting[c])
<1> DEFINE s == Head(run[c].todo)
<1>1. s # BeginOp /\ s # CommitOp
  <2>1. s.op \notin {"begin", "commit"} /\ BeginOp.op = "begin" /\ CommitOp.op = "commit"
    BY DEF BeginOp, CommitOp
  <2> HIDE DEF s
  <2>. QED  BY <2>1
<1> HIDE DEF s
<1>2. CASE c \in open
  <2>1. Proper(call[c], run'[c], TRUE, lasting[c])
    BY <1>1, <1>2, GoesOnInside DEF s
  <2>2. (c \in open) = TRUE
    BY <1>2
  <2>. QED  BY <2>1, <2>2
<1>3. CASE c \notin open
  <2>1. Pieces(call[c], run[c].todo) => lasting[c] \subseteq AskedRows(call[c])
    BY <1>1, <1>3, AtStep DEF s
  <2>2. Proper(call[c], run'[c], FALSE, lasting[c])
    BY <1>1, <1>3, <2>1, GoesOnOutside DEF s
  <2>3. (c \in open) = FALSE
    BY <1>3
  <2>. QED  BY <2>2, <2>3
<1>. QED  BY <1>2, <1>3

\* A SELECT that has come back.
LEMMA ReadingKeeps ==
  ASSUME IInv, NEW c \in Clients, NoWrite, call' = call, returning' = returning,
         run[c].phase = "running", Head(run[c].todo).op \notin {"begin", "commit"},
         NEW r, DOMAIN r = RunFields, r.attempt = run[c].attempt,
         NEW more \in Seq(BodySteps), more = <<>> \/ c \in open, Next1(c, r, more)
  PROVE  IInv'
<1>1. DOMAIN run' = Clients /\ \A d \in Clients : d # c => run'[d] = run[d]
  BY Next1Is
<1>. QED  BY <1>1, GoesOn, QuietKeeps

\* Noting an answer changes one field of what a call remembers.
LEMMA Fields ==
  ASSUME NEW r, DOMAIN r = RunFields, NEW v
  PROVE  /\ DOMAIN [r EXCEPT !.parents = v] = RunFields /\ [r EXCEPT !.parents = v].attempt = r.attempt
         /\ DOMAIN [r EXCEPT !.n = v] = RunFields /\ [r EXCEPT !.n = v].attempt = r.attempt
         /\ DOMAIN [r EXCEPT !.kids = v] = RunFields /\ [r EXCEPT !.kids = v].attempt = r.attempt
         /\ DOMAIN [r EXCEPT !.tags = v] = RunFields /\ [r EXCEPT !.tags = v].attempt = r.attempt
  BY DEF RunFields

\* fetch_parents: no parent ends the call, one that is found adds its writes.
LEMMA ReadParentsKeeps ==
  ASSUME IInv, NEW c \in Clients, ReadParents(c), NoWrite, call' = call, returning' = returning
  PROVE  IInv'
<1> DEFINE k == Step(c).k
           parents == FetchParents(c, k)
           r == [run[c] EXCEPT !.parents = parents]
<1>1. run[c].phase = "running" /\ Head(run[c].todo).op = "parents"
  BY DEF ReadParents, Running
<1>2. CASE Err(c)
  BY <1>1, <1>2, GivingUpKeeps
<1>3. CASE Next1(c, r, AfterParents(k, parents))
  <2>1. c \in open /\ DOMAIN run[c] = RunFields
    BY <1>1, LooksInside, AtStep
  <2>2. Step(c) \in BodySteps
    <3>1. Head(run[c].todo) # CommitOp
      <4>1. CommitOp.op = "commit"
        BY DEF CommitOp
      <4> DEFINE s == Head(run[c].todo)
      <4>2. s.op = "parents"
        BY <1>1
      <4> HIDE DEF s
      <4>3. s # CommitOp
        BY <4>1, <4>2
      <4>. QED  BY <4>3 DEF s
    <3>. QED  BY <1>1, <2>1, <3>1, AtStep DEF Step
  <2>3. k \in UpdateCalls
    BY <1>1, <2>2, StepIs DEF Step
  <2>4. parents \in SUBSET Authors
    BY DEF FetchParents, Where
  <2> HIDE DEF k, parents
  <2>5. AfterParents(k, parents) \in Seq(BodySteps)
    BY <2>3, <2>4, AfterParentsAre
  <2>6. DOMAIN r = RunFields /\ r.attempt = run[c].attempt
    BY <2>1, Fields
  <2> HIDE DEF r
  <2>. QED  BY <1>1, <1>3, <2>1, <2>5, <2>6, ReadingKeeps
<1>. QED  BY <1>2, <1>3 DEF ReadParents

\* connectOrCreate: what it finds decides which statement comes next.
LEMMA FindKeeps ==
  ASSUME IInv, NEW c \in Clients, Find(c), NoWrite, call' = call, returning' = returning
  PROVE  IInv'
<1> DEFINE s == Step(c)
           found == [op |-> "connect found", item |-> s.item, author |-> s.author]
           made == [op |-> "insert posts", posts |-> s.item.posts, author |-> s.author]
           more == IF Keeps(Seen(c), s.item) # {} THEN <<found>> ELSE <<made>>
<1>1. run[c].phase = "running" /\ s.op = "find" /\ Next1(c, run[c], more)
  BY DEF Find, Running, Step
<1>2. c \in open /\ DOMAIN run[c] = RunFields
  BY <1>1, LooksInside, AtStep DEF Step
<1>3. s \in BodySteps
  <2>1. CommitOp.op = "commit"
    BY DEF CommitOp
  <2>2. s \in BodySteps \cup {CommitOp}
    BY <1>1, <1>2, AtStep DEF Step
  <2> HIDE DEF s
  <2>. QED  BY <1>1, <2>1, <2>2
<1>4. s.item \in NestedOps /\ s.author \in Authors
  BY <1>1, <1>3, StepIs
<1>5. s.item.posts \in SUBSET Posts
  BY <1>4 DEF NestedOps
<1> HIDE DEF s
<1>6. found \in BodySteps /\ made \in BodySteps
  BY <1>4, <1>5 DEF BodySteps
<1>7. more \in Seq(BodySteps)
  <2> HIDE DEF found, made
  <2>. QED  BY <1>6, OneStep
<1> HIDE DEF more
<1>. QED  BY <1>1, <1>2, <1>7, ReadingKeeps DEF s, Step

\* Every SELECT.
LEMMA ReadKeeps ==
  ASSUME IInv, NEW c \in Clients, Read(c)
  PROVE  IInv'
<1>0. NoWrite /\ call' = call /\ returning' = returning
  BY DEF Read
<1>1. ASSUME NEW op, Running(c, op), op \notin {"begin", "commit"},
             NEW r, DOMAIN r = RunFields, r.attempt = run[c].attempt,
             Next1(c, r, <<>>)
      PROVE  IInv'
  BY <1>0, <1>1, NoStep, ReadingKeeps DEF Running
<1>2. ASSUME NEW op, Running(c, op), Err(c)
      PROVE  IInv'
  BY <1>0, <1>2, GivingUpKeeps DEF Running
<1>3. ASSUME NEW op, Running(c, op)
      PROVE  DOMAIN run[c] = RunFields
  BY <1>3, AtStep DEF Running
<1>4. CASE ReadParents(c)
  BY <1>0, <1>4, ReadParentsKeeps
<1>5. CASE CountOneMore(c)
  <2>1. Running(c, "one more") /\ Next1(c, [run[c] EXCEPT !.n = run[c].n + 1], <<>>)
    BY <1>5 DEF CountOneMore
  <2>. QED  BY <2>1, <1>1, <1>3, Fields
<1>6. CASE Find(c)
  BY <1>0, <1>6, FindKeeps
<1>7. CASE CheckRestrict(c)
  <2>1. Running(c, "restrict") /\ (Err(c) \/ Next1(c, run[c], <<>>))
    BY <1>7 DEF CheckRestrict
  <2>. QED  BY <2>1, <1>1, <1>2, <1>3
<1>8. CASE Refuse(c)
  BY <1>0, <1>8, GivingUpKeeps DEF Refuse
<1>9. CASE ReadBack(c)
  <2>1. Running(c, "read back") /\ (Err(c) \/ Next1(c, run[c], <<>>))
    BY <1>9 DEF ReadBack
  <2>. QED  BY <2>1, <1>1, <1>2, <1>3
<1>10. CASE ReadRows(c)
  <2>1. Running(c, "read rows") /\ (Err(c) \/ Next1(c, run[c], <<>>))
    BY <1>10 DEF ReadRows
  <2>. QED  BY <2>1, <1>1, <1>2, <1>3
<1>11. CASE ReadChildren(c)
  <2>1. Running(c, "read children") /\ \E v : Next1(c, [run[c] EXCEPT !.kids = v], <<>>)
    BY <1>11 DEF ReadChildren
  <2>. QED  BY <2>1, <1>1, <1>3, Fields
<1>12. CASE LoadTargets(c)
  <2>1. Running(c, "load targets") /\ \E v : Next1(c, [run[c] EXCEPT !.tags = v], <<>>)
    BY <1>12 DEF LoadTargets
  <2>. QED  BY <2>1, <1>1, <1>3, Fields
<1>. QED  BY <1>4, <1>5, <1>6, <1>7, <1>8, <1>9, <1>10, <1>11, <1>12 DEF Read

\* Noting an answer keeps the attempt.
LEMMA AnswerIs ==
  ASSUME NEW c, DOMAIN run[c] = RunFields, NEW s, NEW e
  PROVE  DOMAIN Answer(c, s, e) = RunFields /\ Answer(c, s, e).attempt = run[c].attempt
<1>1. \E n, kids : Answer(c, s, e) = [run[c] EXCEPT !.n = n, !.kids = kids]
  BY DEF Answer
<1>. QED  BY <1>1 DEF RunFields

\* Every INSERT, UPDATE and DELETE: it may clash, find the row it must read back
\* missing, or keep its changes, which outside a transaction are for good.
LEMMA WriteKeeps ==
  ASSUME IInv, NEW c \in Clients, Write(c)
  PROVE  IInv'
<1> DEFINE s == Step(c)
           v == Seen(c)
           e == Effect(s, v)
           rows == e.rows
           last == IF c \in open THEN lasting[c] ELSE lasting[c] \cup DOMAIN rows
<1>1. /\ run[c].phase = "running" /\ s.op \in Writes /\ s = Head(run[c].todo)
      /\ call' = call /\ returning' = returning
  BY DEF Write, Step
<1>2. s \in BodySteps /\ s # CommitOp /\ s # BeginOp /\ s.op \notin {"begin", "commit"}
  <2>1. s.op # "commit" /\ s.op # "begin" /\ CommitOp.op = "commit" /\ BeginOp.op = "begin"
    BY <1>1 DEF Writes, CommitOp, BeginOp
  <2>2. s \in BodySteps \cup {CommitOp, BeginOp}
    BY <1>1, AtStep
  <2> HIDE DEF s
  <2>. QED  BY <2>1, <2>2
<1>3. DOMAIN run[c] = RunFields /\ run[c].todo # <<>>
  BY <1>1, AtStep
<1>4. RowsTypeOK(v)
  BY SeenTyped DEF IInv
<1> HIDE DEF s, v
<1>5. /\ Fitting(rows)
      /\ s.op = "insert author" => DOMAIN rows \subseteq {A(s.key)}
      /\ s.op = "insert posts" => DOMAIN rows \subseteq {P(p) : p \in s.posts}
      /\ s.op = "insert author" /\ s.conflict = "nothing" /\ v[A(s.key)] # Absent => rows = NoRows
  BY <1>1, <1>2, <1>4, EffectFits
<1>6. \/ Err(c) /\ NoWrite
      \/ /\ Keep(c, rows)
         /\ IF NoRowBack(call[c], s, v) THEN Err(c) ELSE Next1(c, Answer(c, s, e), <<>>)
         /\ lasting' = IF c \in open THEN lasting ELSE [lasting EXCEPT ![c] = @ \cup DOMAIN rows]
  BY DEF Write, s, v
<1> HIDE DEF e, rows
<1>7. CASE Err(c) /\ NoWrite
  BY <1>1, <1>7, GivingUpKeeps
<1>8. ASSUME /\ Keep(c, rows)
             /\ IF NoRowBack(call[c], s, v) THEN Err(c) ELSE Next1(c, Answer(c, s, e), <<>>)
             /\ lasting' = IF c \in open THEN lasting ELSE [lasting EXCEPT ![c] = @ \cup DOMAIN rows]
      PROVE  IInv'
  <2>1. StoreInv' /\ open' = open
    BY <1>5, <1>8, KeepFits DEF IInv
  <2>2. DOMAIN lasting' = Clients /\ lasting'[c] = last /\ \A d \in Clients : d # c => lasting'[d] = lasting[d]
    BY <1>8 DEF IInv
  <2>3. DOMAIN run' = Clients /\ \A d \in Clients : d # c => run'[d] = run[d]
    BY <1>3, <1>8, ErrIs, Next1Is, AnswerIs
  <2>4. Proper(call[c], run'[c], c \in open, last)
    <3>1. CASE NoRowBack(call[c], s, v)
      <4>1. rows = NoRows
        BY <1>5, <3>1 DEF NoRowBack
      <4>2. last = lasting[c]
        BY <4>1, NoRowsFit
      <4>3. Proper(call[c], run'[c], c \in open, lasting[c])
        BY <1>1, <1>8, <3>1, GivesUp
      <4>. QED  BY <4>2, <4>3
    <3>2. CASE ~NoRowBack(call[c], s, v)
      <4>0. /\ Next1(c, Answer(c, s, e), <<>>)
            /\ DOMAIN Answer(c, s, e) = RunFields /\ Answer(c, s, e).attempt = run[c].attempt
        BY <1>3, <1>8, <3>2, AnswerIs
      <4>1. CASE c \in open
        <5>1. Proper(call[c], run'[c], TRUE, lasting[c])
          BY <1>1, <1>2, <4>0, <4>1, NoStep, GoesOnInside
        <5>2. (c \in open) = TRUE /\ last = lasting[c]
          BY <4>1
        <5>. QED  BY <5>1, <5>2
      <4>2. CASE c \notin open
        <5>1. ASSUME Pieces(call[c], run[c].todo) PROVE last \subseteq AskedRows(call[c])
          <6>1. Asked(call[c], s)
            BY <1>1, <1>3, <5>1, PiecesParts
          <6>2. lasting[c] \subseteq AskedRows(call[c])
            BY <1>1, <1>2, <4>2, AtStep
          <6>3. DOMAIN rows \subseteq AskedRows(call[c])
            <7>1. s.op # "read back"
              BY <1>1 DEF Writes
            <7>. QED  BY <1>5, <6>1, <7>1 DEF Asked, AskedRows
          <6>. QED  BY <6>2, <6>3
        <5>2. Proper(call[c], run'[c], FALSE, last)
          <6> HIDE DEF last
          <6>. QED  BY <1>1, <1>2, <4>0, <4>2, <5>1, GoesOnOutside
        <5>3. (c \in open) = FALSE
          BY <4>2
        <5>. QED  BY <5>2, <5>3
      <4>. QED  BY <4>1, <4>2
    <3>. QED  BY <3>1, <3>2
  <2>5. Proper(call'[c], run'[c], c \in open', lasting'[c])
    BY <1>1, <2>1, <2>2, <2>4
  <2>6. /\ DOMAIN call' = Clients
        /\ \A d \in Clients : d # c => /\ call'[d] = call[d] /\ run'[d] = run[d]
                                       /\ lasting'[d] = lasting[d] /\ (d \in open') = (d \in open)
    BY <1>1, <2>1, <2>2, <2>3 DEF IInv
  <2>. QED  BY <1>1, <2>1, <2>2, <2>3, <2>5, <2>6, OnlyOne
<1>. QED  BY <1>6, <1>7, <1>8

\* The connection fails: the call ends, or transaction() starts over when it is
\* worth it (retryable).
LEMMA FailKeeps ==
  ASSUME IInv, NEW c \in Clients, Fail(c)
  PROVE  IInv'
<1>1. run[c].phase = "running" /\ NoWrite /\ call' = call /\ returning' = returning
  BY DEF Fail
<1>2. CASE Err(c)
  BY <1>1, <1>2, GivingUpKeeps
<1>3. ASSUME NEW victim \in BOOLEAN, Retried(c, victim), run' = [run EXCEPT ![c].phase = "again"]
      PROVE  IInv'
  <2> DEFINE q == [run[c] EXCEPT !.phase = "again"]
  <2>1. DOMAIN run[c] = RunFields
    BY <1>1, AtStep
  <2>2. DOMAIN q = RunFields /\ q.phase = "again" /\ q.attempt = run[c].attempt
    BY <2>1 DEF RunFields
  <2>3. run' = [run EXCEPT ![c] = q]
    BY <1>3
  <2> HIDE DEF q
  <2>4. DOMAIN run' = Clients /\ run'[c] = q /\ \A d \in Clients : d # c => run'[d] = run[d]
    BY <2>3 DEF IInv
  <2>5. Proper(call[c], run[c], c \in open, lasting[c])
    BY DEF IInv
  <2>6. c \in open /\ call[c].kind = "transaction" /\ run[c].attempt < call[c].attempts
    BY <1>3 DEF Retried
  <2>7. Proper(call[c], q, c \in open, lasting[c])
    BY <1>1, <2>2, <2>5, <2>6 DEF Proper
  <2>. QED  BY <1>1, <2>4, <2>7, QuietKeeps
<1>. QED  BY <1>2, <1>3 DEF Fail

\* ROLLBACK, after which transaction() has its whole body to send again.
LEMMA RollbackKeeps ==
  ASSUME IInv, NEW c \in Clients, Rollback(c)
  PROVE  IInv'
<1>1. /\ run[c].phase \in {"error", "again"} /\ c \in open /\ RollbackTx(c)
      /\ run' = IF run[c].phase = "again" THEN [run EXCEPT ![c] = NextAttempt(c)] ELSE run
      /\ call' = call /\ returning' = returning /\ lasting' = lasting
  BY DEF Rollback
<1>2. StoreInv' /\ open' = open \ {c}
  BY <1>1, RollbackFits DEF IInv
<1>3. Proper(call[c], run[c], c \in open, lasting[c])
  BY DEF IInv
<1>4. lasting[c] = {}
  BY <1>1, <1>3 DEF Proper
<1>5. DOMAIN run' = Clients /\ \A d \in Clients : d # c => run'[d] = run[d]
  BY <1>1 DEF IInv
<1>6. Proper(call[c], run'[c], FALSE, {})
  <2>1. CASE run[c].phase = "error"
    BY <1>1, <1>3, <2>1 DEF Proper
  <2>2. CASE run[c].phase = "again"
    <3> DEFINE k == call[c]
               n == run[c].attempt
               q == NextAttempt(c)
    <3>1. k \in AnyCall /\ k.kind = "transaction" /\ n < k.attempts /\ (k # Null => n \in 1..k.attempts)
      BY <1>3, <2>2 DEF Proper
    <3>2. k \in Transactions /\ k.attempts \in Nat \ {0}
      BY <3>1, AttemptsAre
    <3>3. DOMAIN q = RunFields /\ q.phase = "running" /\ q.attempt = n + 1 /\ q.todo = Steps(k)
      BY DEF NextAttempt, Idle, RunFields
    <3>4. Begins(Steps(k))
      BY <3>2, StepsOfTransaction, WholeBegins
    <3>5. run'[c] = q
      BY <1>1, <2>2 DEF IInv
    <3> HIDE DEF q, k, n
    <3>6. k # Null => n + 1 \in 1..k.attempts
      BY <3>1, <3>2
    <3>7. Proper(k, q, FALSE, {})
      BY <3>1, <3>3, <3>4, <3>6 DEF Proper
    <3>. QED  BY <3>5, <3>7 DEF k
  <2>. QED  BY <1>1, <2>1, <2>2
<1>7. Proper(call'[c], run'[c], c \in open', lasting'[c])
  <2>1. (c \in open') = FALSE
    BY <1>2
  <2>. QED  BY <1>1, <1>4, <1>6, <2>1
<1>8. /\ DOMAIN call' = Clients /\ DOMAIN lasting' = Clients
      /\ \A d \in Clients : d # c => /\ call'[d] = call[d] /\ run'[d] = run[d]
                                     /\ lasting'[d] = lasting[d] /\ (d \in open') = (d \in open)
  BY <1>1, <1>2, <1>5 DEF IInv
<1>. QED  BY <1>1, <1>2, <1>5, <1>7, <1>8, OnlyOne

\* A step of nobody.
LEMMA StutterKeeps ==
  ASSUME IInv, UNCHANGED vars
  PROVE  IInv'
<1>1. /\ UNCHANGED store /\ returning' = returning /\ call' = call /\ run' = run /\ lasting' = lasting
  BY DEF vars, wvars
<1>2. StoreInv' /\ open' = open
  BY <1>1, SameStoreFits DEF IInv
<1>3. ASSUME NEW c \in Clients
      PROVE  Proper(call[c], run[c], c \in open, lasting[c])'
  <2>1. Proper(call[c], run[c], c \in open, lasting[c])
    BY DEF IInv
  <2>2. Proper(call'[c], run'[c], c \in open', lasting'[c])
    BY <1>1, <1>2, <2>1
  <2>. QED  BY <1>1, <2>2 DEF Proper, Pieces, InPieces, Asked
<1>. QED  BY <1>1, <1>2, <1>3 DEF IInv

\* Every step keeps the invariant.
LEMMA NextInv == IInv /\ [Next]_vars => IInv'
<1>. SUFFICES ASSUME IInv, [Next]_vars PROVE IInv'
  OBVIOUS
<1>1. CASE UNCHANGED vars
  BY <1>1, StutterKeeps
<1>2. ASSUME NEW c \in Clients, NEW k \in Calls[c], Start(c, k) PROVE IInv'
  BY <1>2, StartKeeps
<1>3. ASSUME NEW c \in Clients, Begin(c) PROVE IInv'
  BY <1>3, BeginKeeps
<1>4. ASSUME NEW c \in Clients, Write(c) PROVE IInv'
  BY <1>4, WriteKeeps
<1>5. ASSUME NEW c \in Clients, Read(c) PROVE IInv'
  BY <1>5, ReadKeeps
<1>6. ASSUME NEW c \in Clients, Commit(c) PROVE IInv'
  BY <1>6, CommitKeeps
<1>7. ASSUME NEW c \in Clients, Fail(c) PROVE IInv'
  BY <1>7, FailKeeps
<1>8. ASSUME NEW c \in Clients, Rollback(c) PROVE IInv'
  BY <1>8, RollbackKeeps
<1>. QED  BY <1>1, <1>2, <1>3, <1>4, <1>5, <1>6, <1>7, <1>8 DEF Next

\* The invariant is enough.
LEMMA InvTells == IInv => ErrorsLeaveNothing
<1> SUFFICES ASSUME IInv PROVE ErrorsLeaveNothing
  OBVIOUS
<1>1. StoreTypeOK
  BY StoreTyped DEF IInv
<1>2. ASSUME NEW c \in Clients
      PROVE  /\ run[c].phase \in {"idle", "running", "again", "ok", "error"}
             /\ call[c] # Null /\ call[c].kind = "transaction" => run[c].attempt \in 1..call[c].attempts
             /\ run[c].phase = "ok" => c \notin open /\ run[c].todo = <<>>
             /\ run[c].phase = "error" /\ c \notin open =>
                  \/ lasting[c] = {}
                  \/ InPieces(call[c]) /\ lasting[c] \subseteq AskedRows(call[c])
  <2>1. Proper(call[c], run[c], c \in open, lasting[c])
    BY DEF IInv
  <2>. QED  BY <2>1 DEF Proper
<1>. QED  BY <1>1, <1>2 DEF ErrorsLeaveNothing, TypeOK, AskedRows

\* For any rows, calls, clients and failures, on a back end with RETURNING or
\* without: a call that has returned an error has changed nothing for good,
\* except an insert that opens no transaction, of which rows it was asked to
\* write may be there; and a call that has returned well has sent all it had to
\* send and left no transaction open (exec of nested.rs and query.rs,
\* transaction of tx.rs).
THEOREM ErrorsLeaveNothingAlways == Spec => []ErrorsLeaveNothing
<1>1. Init => IInv
  BY InitInv
<1>2. IInv /\ [Next]_vars => IInv'
  BY NextInv
<1>3. IInv => ErrorsLeaveNothing
  BY InvTells
<1>. QED  BY <1>1, <1>2, <1>3, PTL DEF Spec
=============================================================================
