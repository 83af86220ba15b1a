----------------------------- MODULE WriteQuery -----------------------------
(***************************************************************************)
(* INSERT, UPDATE and DELETE of crates/runtime/src/query.rs with what they *)
(* carry: nested writes (nested.rs), one-to-many writes and cascades       *)
(* (rel.rs), many-to-many writes (m2m.rs).                                 *)
(*                                                                         *)
(* A call is compiled into the statements it will send, one action each;   *)
(* other clients run theirs in between.  The statements that follow from   *)
(* what a SELECT found are put in front of the rest when it returns.       *)
(***************************************************************************)
EXTENDS RowStore

CONSTANTS Calls,       \* Calls[c]: the calls c may make, one of them
          Stores,      \* the rows a behaviour may begin with
          ChunkRows,   \* rows that fit the parameters of one INSERT
          MaxFailures  \* bound on statements that fail for no reason of ours

ASSUME WriteAssumption ==
    /\ ChunkRows \in Nat \ {0} /\ MaxFailures \in Nat
    /\ IsFiniteSet(Authors) /\ IsFiniteSet(Posts)
    /\ \A v \in Stores : RowsTypeOK(v)

VARIABLES returning,   \* the dialect has INSERT ... RETURNING
          call,        \* call[c]: the call c makes
          run,         \* run[c]: how far it is
          failures,    \* statements failed so far
          before,      \* history: the rows when c's transaction or statement began
          lasting,     \* history: rows c changed for good
          writer       \* history: who wrote a row last

wvars == <<returning, call, run, failures, before, lasting, writer>>
vars  == <<store, wvars>>

(* todo: statements still to send; parents: the rows of fetch_parents; n:  *)
(* rows affected; kids, tags: rows attached to the parent that is          *)
(* returned; attempt: of a transaction that is tried again                 *)
Idle == [phase |-> "idle", todo |-> <<>>, parents |-> {}, n |-> 0,
         kids |-> {}, tags |-> {}, attempt |-> 1]

NoM2m == [action |-> "none", ids |-> {}]

------------------------------------------------------------------------------
(* The statements: what one changes, given the rows it sees.               *)

\* the rows of a model a WHERE clause on authors keeps; none of the
\* writing statements adds the soft-delete predicate
Where(v, f) == {a \in Authors : v[A(a)] # Absent
                    /\ \/ f = "all"
                       \/ f = "x0" /\ v[A(a)].x = 0
                       \/ f = "has posts" /\ Refers(v, a)
                       \/ f = a}

Present(v, ps)  == {p \in ps : v[P(p)] # Absent}
Children(v, a)  == {p \in Posts : v[P(p)] # Absent /\ v[P(p)].author = a}
PostsTo(v, ps, a) == [r \in {P(p) : p \in ps} |-> [v[r] EXCEPT !.author = a]]
Gone(rs)        == [r \in rs |-> Absent]
Change(rows)    == [rows |-> rows, n |-> Cardinality(DOMAIN rows), clash |-> FALSE]
Clash           == [rows |-> NoRows, n |-> 0, clash |-> TRUE]

\* compile::insert of an author
InsertOne(v, s) == IF v[A(s.key)] # Absent THEN Clash
                   ELSE Change([r \in {A(s.key)} |-> [x |-> s.x, deleted |-> FALSE]])

\* compile::upsert; ON CONFLICT DO NOTHING changes and returns nothing
Upsert(v, s) ==
    IF v[A(s.key)] = Absent THEN InsertOne(v, s)
    ELSE IF s.conflict = "nothing" THEN Change(NoRows)
    ELSE Change([r \in {A(s.key)} |-> [v[r] EXCEPT !.x = s.x]])

\* compile::insert_many of posts
InsertPosts(v, s) ==
    IF Present(v, s.posts) # {} THEN Clash
    ELSE Change([r \in {P(p) : p \in s.posts} |-> [author |-> s.author, deleted |-> FALSE]])

\* UPDATE posts SET fk = author WHERE id IN (...)
Connect(v, s) == Change(PostsTo(v, Present(v, s.posts), s.author))

\* UPDATE posts SET fk = NULL WHERE id IN (...) AND fk = author
X_DisconnectAnyones(v, s) == Change(PostsTo(v, Present(v, s.posts), Null))
Disconnect(v, s) == Change(PostsTo(v, s.posts \cap Children(v, s.author), Null))

\* UPDATE posts SET fk = NULL WHERE fk = author
X_SetKeepsOld(v, s) == Change(NoRows)
DisconnectAll(v, s) == Change(PostsTo(v, Children(v, s.author), Null))

\* the UPDATE of connect_or_create: every post its filter keeps by now
Keeps(v, o) == {p \in Posts : v[P(p)] # Absent
                   /\ IF o.find = "orphans" THEN v[P(p)].author = Null ELSE p = o.find}
ConnectFound(v, s) == Change(PostsTo(v, Keeps(v, s.item), s.author))

\* DELETE FROM posts WHERE id IN (...) AND fk = author
DeletePosts(v, s) == Change(Gone({P(p) : p \in s.posts \cap Children(v, s.author)}))

\* DELETE FROM join WHERE owner = author [AND target IN (...)]
DeleteLinks(v, s) ==
    Change(Gone({L(s.author, t) : t \in {u \in s.ids : v[L(s.author, u)] # Absent}}))

\* INSERT INTO join, one row per target
InsertLinks(v, s) ==
    IF \E t \in s.ids : v[L(s.author, t)] # Absent THEN Clash
    ELSE Change([r \in {L(s.author, t) : t \in s.ids} |-> Linked])

\* compile::update_with_sets on the authors of a filter
X_UpdateIgnoresFilter(v, s) ==
    Change([r \in {A(a) : a \in Where(v, "all")} |-> [v[r] EXCEPT !.x = s.x]])
UpdateAuthors(v, s) ==
    Change([r \in {A(a) : a \in Where(v, s.filter)} |->
              IF s.set = "x" THEN [v[r] EXCEPT !.x = s.x] ELSE [v[r] EXCEPT !.deleted = TRUE]])

\* compile::delete
DeleteAuthors(v, s) == Change(Gone({A(a) : a \in Where(v, s.filter)}))

\* the subquery of a cascade: a SELECT, so it leaves out soft-deleted rows
X_SubqueryTakesAll(v, f) == {p \in Posts : v[P(p)] # Absent /\ v[P(p)].author # Null}
OfParents(v, f) == {p \in Posts : \E a \in Where(v, f) : /\ ~v[A(a)].deleted
                                                        /\ p \in Children(v, a)}
CascadeDelete(v, s) == Change(Gone({P(p) : p \in OfParents(v, s.filter)}))
CascadeNull(v, s)   == Change(PostsTo(v, OfParents(v, s.filter), Null))

Effect(s, v) ==
    CASE s.op = "insert author"  -> IF s.conflict = "none" THEN InsertOne(v, s) ELSE Upsert(v, s)
      [] s.op = "insert posts"   -> InsertPosts(v, s)
      [] s.op = "connect"        -> Connect(v, s)
      [] s.op = "disconnect"     -> Disconnect(v, s)
      [] s.op = "disconnect all" -> DisconnectAll(v, s)
      [] s.op = "connect found"  -> ConnectFound(v, s)
      [] s.op = "delete posts"   -> DeletePosts(v, s)
      [] s.op = "delete links"   -> DeleteLinks(v, s)
      [] s.op = "insert links"   -> InsertLinks(v, s)
      [] s.op = "update"         -> UpdateAuthors(v, s)
      [] s.op = "delete"         -> DeleteAuthors(v, s)
      [] s.op = "cascade"        -> CascadeDelete(v, s)
      [] s.op = "set null"       -> CascadeNull(v, s)

Writes == {"insert author", "insert posts", "connect", "disconnect", "disconnect all",
           "connect found", "delete posts", "delete links", "insert links", "update", "delete",
           "cascade", "set null"}

------------------------------------------------------------------------------
(* The calls, as the builders leave them.                                  *)

NewInsert(key)        == [kind |-> "insert", key |-> key, x |-> 1, conflict |-> "none",
                          nested |-> <<>>, batch |-> {}, ragged |-> FALSE, m2m |-> NoM2m]
OnConflict(k, update) == [k EXCEPT !.conflict = IF update THEN "update" ELSE "nothing"]
NewInsertMany(ps, a)  == [kind |-> "insert many", posts |-> ps, author |-> a, ragged |-> FALSE]
\* a row that names other columns than the first one
AddRaggedRow(k)       == [k EXCEPT !.ragged = TRUE]
WithChildren(k, ps)   == [k EXCEPT !.batch = ps]

NewUpdate             == [kind |-> "update", filter |-> "all", all |-> FALSE, set |-> "nothing",
                          x |-> 1, rel |-> <<>>, nested |-> <<>>, m2m |-> NoM2m]
SetX(k)               == [k EXCEPT !.set = "x"]
SoftDelete(k)         == [k EXCEPT !.set = "deleted"]
RelatedWrite(k, o)    == [k EXCEPT !.rel = Append(@, o)]
NestedWrite(k, o)     == [k EXCEPT !.nested = Append(@, o)]
WithM2m(k, m)         == [k EXCEPT !.m2m = m]

NewDelete             == [kind |-> "delete", filter |-> "all", all |-> FALSE, cascade |-> <<>>]
WithCascade(k, act)   == [k EXCEPT !.cascade = Append(@, act)]

\* Db::transaction_retrying with a closure that sends the SQL of these calls
\* through the Tx; Db::transaction is the same with one attempt
NewTransaction(n, ks) == [kind |-> "transaction", attempts |-> n, body |-> ks]

FilterBy(k, f)        == [k EXCEPT !.filter = f]
AllRows(k)            == [k EXCEPT !.all = TRUE]

\* every call the builders can leave
Filters     == {"all", "x0", "has posts"} \cup Authors
RelOps      == [op : {"connect", "disconnect", "set"}, posts : SUBSET Posts,
                find : Posts \cup {"orphans"}]
NestedOps   == [op : {"create", "connect", "disconnect", "set", "delete", "connect or create"},
                posts : SUBSET Posts, find : Posts \cup {"orphans"}]
M2mWrites   == [action : {"none", "attach", "detach", "set"}, ids : SUBSET Tags]
InsertCalls == [kind : {"insert"}, key : Authors, x : 0 .. 1, batch : SUBSET Posts, ragged : BOOLEAN,
                conflict : {"none", "nothing", "update"}, nested : Seq(NestedOps), m2m : M2mWrites]
ManyCalls   == [kind : {"insert many"}, posts : SUBSET Posts, author : Authors, ragged : BOOLEAN]
UpdateCalls == [kind : {"update"}, filter : Filters, all : BOOLEAN, set : {"nothing", "x", "deleted"},
                x : 0 .. 1, rel : Seq(RelOps), nested : Seq(NestedOps), m2m : M2mWrites]
DeleteCalls == [kind : {"delete"}, filter : Filters, all : BOOLEAN,
                cascade : Seq({"NoAction", "Cascade", "SetNull", "Restrict", "SetDefault"})]
Transactions == [kind : {"transaction"}, attempts : Nat \ {0},
                 body : Seq(InsertCalls \cup UpdateCalls \cup DeleteCalls)]

ASSUME CallAssumption ==
    \A c \in Clients : \A k \in Calls[c] :
        k \in InsertCalls \cup ManyCalls \cup UpdateCalls \cup DeleteCalls \cup Transactions

------------------------------------------------------------------------------
(* The statements each call sends, in order.                               *)

Chunks(posts) == LET q == SetToSeq(posts)
                     last(i) == IF i * ChunkRows < Len(q) THEN i * ChunkRows ELSE Len(q)
                 IN  [i \in 1 .. (Len(q) + ChunkRows - 1) \div ChunkRows |->
                        ToSet(SubSeq(q, (i - 1) * ChunkRows + 1, last(i)))]

\* insert_many over the chunks of a list of rows
InsertChunks(posts, a) == [i \in DOMAIN Chunks(posts) |->
                             [op |-> "insert posts", posts |-> Chunks(posts)[i], author |-> a]]

\* NestedRelWrite::execute: the statements of one operation; an empty list
\* of keys sends none, except that Set still disconnects
NestedSteps(o, a) ==
    LET of(op) == IF o.posts = {} THEN <<>> ELSE <<[op |-> op, posts |-> o.posts, author |-> a]>>
    IN  CASE o.op = "create"     -> LET q == SetToSeq(o.posts) IN
                                    [i \in DOMAIN q |->
                                       [op |-> "insert posts", posts |-> {q[i]}, author |-> a]]
          [] o.op = "connect"    -> of("connect")
          [] o.op = "disconnect" -> of("disconnect")
          [] o.op = "set"        -> <<[op |-> "disconnect all", author |-> a]>> \o of("connect")
          [] o.op = "delete"     -> of("delete posts")
          [] o.op = "connect or create" -> <<[op |-> "find", item |-> o, author |-> a]>>

\* RelWrite::execute_update, which sends its statement for an empty list too
RelSteps(o, a) ==
    LET own == [op |-> "connect", posts |-> o.posts, author |-> a]
    IN  CASE o.op = "connect"    -> <<own>>
          [] o.op = "disconnect" -> <<[own EXCEPT !.op = "disconnect"]>>
          [] o.op = "set"        -> <<[op |-> "disconnect all", author |-> a], own>>

\* M2mWrite::execute_update
M2mSteps(m, a) ==
    LET links(op) == [op |-> op, author |-> a, ids |-> m.ids]
    IN  CASE m.action = "none"   -> <<>>
          [] m.action = "detach" -> <<links("delete links")>>
          [] m.action = "attach" -> IF m.ids = {} THEN <<>> ELSE <<links("insert links")>>
          [] m.action = "set"    -> <<[op |-> "delete links", author |-> a, ids |-> Tags]>>
                                      \o IF m.ids = {} THEN <<>> ELSE <<links("insert links")>>

\* M2mWrite::execute_insert: then the targets are loaded for the parent
M2mInsertSteps(m, a) ==
    M2mSteps(m, a) \o IF m.action \in {"attach", "set"} /\ m.ids # {}
                      THEN <<[op |-> "load targets", ids |-> m.ids]>> ELSE <<>>

In(steps) == <<[op |-> "begin"]>> \o steps \o <<[op |-> "commit"]>>

\* InsertQuery::insert_parent, fetch_inserted_row and insert_nested_child_batch
InsertParent(k) == <<[op |-> "insert author", key |-> k.key, x |-> k.x, conflict |-> k.conflict]>>
                     \o IF returning THEN <<>> ELSE <<[op |-> "read back", key |-> k.key]>>
ChildBatch(k) == IF k.ragged THEN <<[op |-> "ragged"]>>
                 ELSE InsertChunks(k.batch, k.key)
                        \o IF returning \/ k.batch = {} THEN <<>>
                           ELSE <<[op |-> "read children", author |-> k.key]>>

\* InsertQuery::exec: a transaction only when something hangs on the parent
X_InsertWithoutTx(k) ==
    InsertParent(k) \o FlattenSeq([i \in DOMAIN k.nested |-> NestedSteps(k.nested[i], k.key)])
      \o ChildBatch(k) \o M2mInsertSteps(k.m2m, k.key)
InsertSteps(k) ==
    LET steps == InsertParent(k)
                   \o FlattenSeq([i \in DOMAIN k.nested |-> NestedSteps(k.nested[i], k.key)])
                   \o ChildBatch(k) \o M2mInsertSteps(k.m2m, k.key)
    IN  IF k.nested = <<>> /\ k.batch = {} /\ ~k.ragged /\ k.m2m = NoM2m THEN steps ELSE In(steps)

\* InsertManyQuery::exec and exec_without_returning
InsertManySteps(k) ==
    LET chunks == InsertChunks(k.posts, k.author)
    IN  IF k.ragged THEN <<[op |-> "ragged"]>>
        ELSE IF returning THEN chunks
        ELSE IF chunks = <<>> THEN <<>>
        ELSE In(FlattenSeq([i \in DOMAIN chunks |->
                  <<chunks[i], [op |-> "read rows", posts |-> chunks[i].posts]>>]))

\* to_sql of an insert, an update and a delete: one statement, or a refusal
Guarded(k) == k.all \/ k.filter # "all"
SetStep(k) == <<[op |-> "update", filter |-> k.filter, set |-> k.set, x |-> k.x]>>
ToSql(k) ==
    CASE k.kind = "insert" -> <<[op |-> "insert author", key |-> k.key, x |-> k.x,
                                 conflict |-> k.conflict]>>
      [] k.kind # "insert" /\ ~Guarded(k) -> <<[op |-> "unguarded"]>>
      [] k.kind = "update" /\ Guarded(k)  -> IF k.set = "nothing" THEN <<[op |-> "no columns"]>>
                                             ELSE SetStep(k)
      [] k.kind = "delete" /\ Guarded(k)  -> <<[op |-> "delete", filter |-> k.filter]>>

\* UpdateQuery::exec up to fetch_parents
HasNested(k) == k.m2m # NoM2m \/ k.rel # <<>> \/ k.nested # <<>>
UpdateSteps(k) ==
    IF ~Guarded(k) \/ ~HasNested(k) THEN ToSql(k)
    ELSE In((IF k.set = "nothing" THEN <<>> ELSE SetStep(k)) \o <<[op |-> "parents", k |-> k]>>)

\* the rest of UpdateQuery::exec, when the parents are known
X_OnlyFirstParent(k, parents) ==
    LET one == CHOOSE a \in parents : TRUE
    IN  IF parents = {} THEN <<>>
        ELSE FlattenSeq([i \in DOMAIN k.rel |-> RelSteps(k.rel[i], one)])
               \o FlattenSeq([i \in DOMAIN k.nested |-> NestedSteps(k.nested[i], one)])
               \o M2mSteps(k.m2m, one)
AfterParents(k, parents) ==
    LET one == CHOOSE a \in parents : TRUE
        all == SetToSeq(parents)
    IN  (IF parents = {} THEN <<>>
         ELSE FlattenSeq([i \in DOMAIN k.rel |-> RelSteps(k.rel[i], one)])
                \o FlattenSeq([i \in DOMAIN k.nested |-> NestedSteps(k.nested[i], one)
                                                          \o <<[op |-> "one more"]>>]))
          \o FlattenSeq([i \in DOMAIN all |-> M2mSteps(k.m2m, all[i])])

\* DeleteQuery::exec with DeleteCascade::execute_delete
CascadeStep(action, f) ==
    CASE action = "NoAction"   -> <<>>
      [] action = "Cascade"    -> <<[op |-> "cascade", filter |-> f]>>
      [] action = "SetNull"    -> <<[op |-> "set null", filter |-> f]>>
      [] action = "Restrict"   -> <<[op |-> "restrict", filter |-> f]>>
      [] action = "SetDefault" -> <<[op |-> "unsupported"]>>
X_DeleteFirst(k) ==
    IF k.cascade = <<>> THEN <<[op |-> "delete", filter |-> k.filter]>>
    ELSE In(<<[op |-> "delete", filter |-> k.filter]>>
              \o FlattenSeq([i \in DOMAIN k.cascade |-> CascadeStep(k.cascade[i], k.filter)]))
DeleteSteps(k) ==
    IF ~Guarded(k) \/ k.cascade = <<>> THEN ToSql(k)
    ELSE In(FlattenSeq([i \in DOMAIN k.cascade |-> CascadeStep(k.cascade[i], k.filter)])
              \o ToSql(k))

CallSteps(k) == CASE k.kind = "insert"      -> InsertSteps(k)
                  [] k.kind = "insert many" -> InsertManySteps(k)
                  [] k.kind = "update"      -> UpdateSteps(k)
                  [] k.kind = "delete"      -> DeleteSteps(k)

\* one attempt: the closure between the BEGIN and the COMMIT
Steps(k) == IF k.kind = "transaction"
            THEN In(FlattenSeq([i \in DOMAIN k.body |-> ToSql(k.body[i])]))
            ELSE CallSteps(k)

\* answers that end a call in an error before anything is sent
Refusals == {"ragged", "unguarded", "no columns", "unsupported"}

------------------------------------------------------------------------------
Running(c, op) == /\ run[c].phase = "running" /\ run[c].todo # <<>>
                  /\ Head(run[c].todo).op = op
Step(c)        == Head(run[c].todo)

\* the call goes on, with the statements in front of those still to send
Next1(c, r, more) ==
    LET todo == more \o Tail(run[c].todo)
    IN  run' = [run EXCEPT ![c] = [r EXCEPT !.todo = todo,
                                      !.phase = IF todo = <<>> THEN "ok" ELSE "running"]]
\* the call returns an error; its transaction, if any, is dropped and the
\* rollback follows
Err(c) == run' = [run EXCEPT ![c] = [Idle EXCEPT !.phase = "error"]]

HistoryKept == UNCHANGED <<before, lasting, writer>>
NoWrite     == UNCHANGED store /\ HistoryKept

Start(c, k) ==
    /\ run[c].phase = "idle"
    /\ call' = [call EXCEPT ![c] = k]
    /\ run' = [run EXCEPT ![c] = IF Steps(k) # <<>> /\ Head(Steps(k)).op \in Refusals
                                 THEN [Idle EXCEPT !.phase = "error"]
                                 ELSE [Idle EXCEPT !.todo = Steps(k),
                                         !.phase = IF Steps(k) = <<>> THEN "ok" ELSE "running"]]
    /\ UNCHANGED <<returning, failures>> /\ NoWrite

Begin(c) ==
    /\ Running(c, "begin") /\ MayRun(c)
    /\ BeginTx(c)
    /\ Next1(c, run[c], <<>>)
    /\ before' = [before EXCEPT ![c] = db]
    /\ UNCHANGED <<returning, call, failures, lasting, writer>>

\* what a writing statement adds to the answer of the call
Answer(c, s, e) ==
    [run[c] EXCEPT !.n = @ + e.n,
                   !.kids = IF s.op = "insert posts" /\ returning /\ call[c].kind = "insert"
                                 /\ s.posts \subseteq call[c].batch
                            THEN @ \cup s.posts ELSE @]

\* RETURNING, which only the call asks for, answers with no row
NoRowBack(k, s, v) == /\ s.op = "insert author" /\ returning /\ k.kind = "insert"
                      /\ s.conflict = "nothing" /\ v[A(s.key)] # Absent

Write(c) ==
    /\ run[c].phase = "running" /\ run[c].todo # <<>> /\ Step(c).op \in Writes
    /\ MayRun(c)
    /\ LET s == Step(c)
           e == Effect(s, Seen(c))
       IN  /\ Free(c, e.rows)
           /\ IF e.clash \/ Refused(c, e.rows)
              THEN Err(c) /\ NoWrite
              ELSE /\ Keep(c, e.rows)
                   /\ IF NoRowBack(call[c], s, Seen(c)) THEN Err(c) ELSE Next1(c, Answer(c, s, e), <<>>)
                   /\ before' = IF c \in open THEN before ELSE [before EXCEPT ![c] = db]
                   /\ lasting' = IF c \in open THEN lasting
                                 ELSE [lasting EXCEPT ![c] = @ \cup DOMAIN e.rows]
                   /\ writer' = [r \in Rows |-> IF r \in DOMAIN e.rows THEN c ELSE writer[r]]
    /\ UNCHANGED <<returning, call, failures>>

\* UpdateQuery::fetch_parents, by the filter of the call as it stands now
FetchParents(c, k) == Where(Seen(c), k.filter)

\* the SELECTs, each by what it is for
ReadParents(c) ==
    /\ Running(c, "parents")
    /\ LET k       == Step(c).k
           parents == FetchParents(c, k)
       IN  IF (k.rel # <<>> \/ k.nested # <<>>) /\ Cardinality(parents) # 1
           THEN Err(c)
           ELSE Next1(c, [run[c] EXCEPT !.parents = parents], AfterParents(k, parents))

CountOneMore(c) == /\ Running(c, "one more")
                   /\ Next1(c, [run[c] EXCEPT !.n = @ + 1], <<>>)

X_AlwaysCreate(c) ==
    /\ Running(c, "find")
    /\ LET s == Step(c) IN
       Next1(c, run[c], <<[op |-> "insert posts", posts |-> s.item.posts, author |-> s.author]>>)
Find(c) ==
    /\ Running(c, "find")
    /\ LET s == Step(c) IN
       Next1(c, run[c],
             IF Keeps(Seen(c), s.item) # {}
             THEN <<[op |-> "connect found", item |-> s.item, author |-> s.author]>>
             ELSE <<[op |-> "insert posts", posts |-> s.item.posts, author |-> s.author]>>)

CheckRestrict(c) ==
    /\ Running(c, "restrict")
    /\ IF OfParents(Seen(c), Step(c).filter) # {} THEN Err(c) ELSE Next1(c, run[c], <<>>)

\* a step of a list of cascades or rows that is refused when it is reached
Refuse(c) == /\ run[c].phase = "running" /\ run[c].todo # <<>> /\ Step(c).op \in Refusals
             /\ Err(c)

\* fetch_inserted_row and the row count of exec_without_returning
ReadBack(c) ==
    /\ Running(c, "read back")
    /\ IF Seen(c)[A(Step(c).key)] = Absent THEN Err(c) ELSE Next1(c, run[c], <<>>)
ReadRows(c) ==
    /\ Running(c, "read rows")
    /\ IF Present(Seen(c), Step(c).posts) # Step(c).posts THEN Err(c) ELSE Next1(c, run[c], <<>>)

ReadChildren(c) ==
    /\ Running(c, "read children")
    /\ Next1(c, [run[c] EXCEPT !.kids = Children(Seen(c), Step(c).author)], <<>>)

\* M2mWrite::load_targets
LoadTargets(c) ==
    /\ Running(c, "load targets")
    /\ Next1(c, [run[c] EXCEPT !.tags = {t \in Step(c).ids : ~Seen(c)[T(t)].deleted}], <<>>)

Read(c) ==
    /\ MayRun(c)
    /\ \/ ReadParents(c) \/ CountOneMore(c) \/ Find(c) \/ CheckRestrict(c) \/ Refuse(c)
       \/ ReadBack(c) \/ ReadRows(c) \/ ReadChildren(c) \/ LoadTargets(c)
    /\ UNCHANGED <<returning, call, failures>> /\ NoWrite

Commit(c) ==
    /\ Running(c, "commit")
    /\ CommitTx(c)
    /\ Next1(c, run[c], <<>>)
    /\ lasting' = [lasting EXCEPT ![c] = DOMAIN undo[c]]
    /\ UNCHANGED <<returning, call, failures, before, writer>>

\* is_retryable: the server chose the statement, or the COMMIT, as the victim
\* of a deadlock or of a serialization failure, and there are attempts left;
\* a BEGIN that fails ends the loop
Retried(c, victim) == /\ victim /\ c \in open
                      /\ call[c].kind = "transaction" /\ run[c].attempt < call[c].attempts

\* a statement fails: it is such a victim, the connection is lost, or it would
\* have to wait for ever
Fail(c) ==
    /\ failures < MaxFailures
    /\ run[c].phase = "running"
    /\ failures' = failures + 1
    /\ \E victim \in BOOLEAN :
         IF Retried(c, victim) THEN run' = [run EXCEPT ![c].phase = "again"] ELSE Err(c)
    /\ UNCHANGED <<returning, call>> /\ NoWrite

\* mutant: the attempt goes on with what the last one had not sent
X_AttemptResumes(c) == [run[c] EXCEPT !.phase = "running", !.attempt = @ + 1,
                          !.todo = <<[op |-> "begin"]>> \o @]
NextAttempt(c) == [Idle EXCEPT !.phase = "running", !.attempt = run[c].attempt + 1,
                     !.todo = Steps(call[c])]

\* the rollback of the Tx that an error dropped; then the next attempt begins
Rollback(c) ==
    /\ run[c].phase \in {"error", "again"} /\ c \in open
    /\ RollbackTx(c)
    /\ run' = IF run[c].phase = "again" THEN [run EXCEPT ![c] = NextAttempt(c)] ELSE run
    /\ writer' = [r \in Rows |-> IF r \in DOMAIN undo[c] THEN Null ELSE writer[r]]
    /\ UNCHANGED <<returning, call, failures, before, lasting>>

Next == \E c \in Clients :
            \/ \E k \in Calls[c] : Start(c, k)
            \/ Begin(c) \/ Write(c) \/ Read(c) \/ Commit(c) \/ Fail(c) \/ Rollback(c)

Init == /\ db \in Stores
        /\ isolation \in {"one at a time", "read committed"}
        /\ enforced \in BOOLEAN /\ returning \in BOOLEAN
        /\ undo = [c \in Clients |-> NoRows] /\ shared = [c \in Clients |-> {}]
        /\ open = {} /\ failures = 0
        /\ call = [c \in Clients |-> Null]
        /\ run = [c \in Clients |-> Idle]
        /\ before = [c \in Clients |-> db]
        /\ lasting = [c \in Clients |-> {}]
        /\ writer = [r \in Rows |-> Null]

Spec == Init /\ [][Next]_vars

------------------------------------------------------------------------------
(* What the calls mean, on all rows at once.                               *)

\* the author of each post, after one operation on the posts of a
After(f, o, a) ==
    LET to(ps, b) == [p \in DOMAIN f |-> IF p \in ps THEN b ELSE f[p]]
        mine      == {p \in DOMAIN f : f[p] = a}
        found     == {p \in DOMAIN f : IF o.find = "orphans" THEN f[p] = Null ELSE p = o.find}
        made      == [p \in DOMAIN f \cup o.posts |-> IF p \in o.posts THEN a ELSE f[p]]
    IN  CASE o.op = "create"     -> made
          [] o.op = "connect"    -> to(o.posts, a)
          [] o.op = "disconnect" -> to(o.posts \cap mine, Null)
          [] o.op = "set"        -> [p \in DOMAIN f |-> IF p \in o.posts THEN a
                                                       ELSE IF f[p] = a THEN Null ELSE f[p]]
          [] o.op = "delete"     -> [p \in DOMAIN f \ (o.posts \cap mine) |-> f[p]]
          [] o.op = "connect or create" -> IF found # {} THEN to(found, a) ELSE made

AuthorOf(v) == [p \in {q \in Posts : v[P(q)] # Absent} |-> v[P(p)].author]
AfterAll(f, ops, a) == FoldLeft(LAMBDA g, o : After(g, o, a), f, ops)

\* the rows v with these authors, posts and links instead
Rewritten(v, authors, f, linked) ==
    [r \in Rows |->
       CASE r[1] = "author" -> authors[r[2]]
         [] r[1] = "post"   -> IF r[2] \notin DOMAIN f THEN Absent
                               ELSE [author |-> f[r[2]],
                                     deleted |-> v[r] # Absent /\ v[r].deleted]
         [] r[1] = "link"   -> IF r[3] \in linked[r[2]] THEN Linked ELSE Absent
         [] OTHER           -> v[r]]

LinksOf(v, a)      == {t \in Tags : v[L(a, t)] # Absent}
AfterM2m(ts, m)    == CASE m.action = "none"   -> ts
                        [] m.action = "attach" -> ts \cup m.ids
                        [] m.action = "detach" -> ts \ m.ids
                        [] m.action = "set"    -> m.ids
Adds(k)            == [op |-> "create", posts |-> k.batch]

MeansInsert(k, v) ==
    LET author == IF v[A(k.key)] = Absent THEN [x |-> k.x, deleted |-> FALSE]
                  ELSE IF k.conflict = "nothing" THEN v[A(k.key)]
                  ELSE [v[A(k.key)] EXCEPT !.x = k.x]
    IN  Rewritten(v, [b \in Authors |-> IF b = k.key THEN author ELSE v[A(b)]],
                  AfterAll(AuthorOf(v), Append(k.nested, Adds(k)), k.key),
                  [b \in Authors |-> IF b = k.key THEN AfterM2m(LinksOf(v, b), k.m2m)
                                     ELSE LinksOf(v, b)])

MeansUpdate(k, v) ==
    LET hit    == Where(v, k.filter)
        row(b) == IF k.set = "x" THEN [v[A(b)] EXCEPT !.x = k.x]
                  ELSE [v[A(b)] EXCEPT !.deleted = TRUE]
        one    == CHOOSE b \in hit : TRUE
    IN  Rewritten(v, [b \in Authors |-> IF b \in hit /\ k.set # "nothing" THEN row(b) ELSE v[A(b)]],
                  IF k.rel \o k.nested = <<>> THEN AuthorOf(v)
                  ELSE AfterAll(AuthorOf(v), k.rel \o k.nested, one),
                  [b \in Authors |-> IF b \in hit THEN AfterM2m(LinksOf(v, b), k.m2m)
                                     ELSE LinksOf(v, b)])

MeansDelete(k, v) ==
    LET hit  == Where(v, k.filter)
        does == ToSet(k.cascade)
        f    == AuthorOf(v)
    IN  Rewritten(v, [b \in Authors |-> IF b \in hit THEN Absent ELSE v[A(b)]],
                  [p \in {q \in DOMAIN f : f[q] \in hit => "Cascade" \notin does} |->
                     IF f[p] \in hit /\ "SetNull" \in does THEN Null ELSE f[p]],
                  [b \in Authors |-> LinksOf(v, b)])

MeansInsertMany(k, v) ==
    Rewritten(v, [b \in Authors |-> v[A(b)]],
              After(AuthorOf(v), [op |-> "create", posts |-> k.posts], k.author),
              [b \in Authors |-> LinksOf(v, b)])

MeansCall(k, v) == CASE k.kind = "insert"      -> MeansInsert(k, v)
                     [] k.kind = "update"      -> MeansUpdate(k, v)
                     [] k.kind = "delete"      -> MeansDelete(k, v)
                     [] k.kind = "insert many" -> MeansInsertMany(k, v)

Means(k, v) == IF k.kind = "transaction" THEN FoldLeft(LAMBDA w, i : MeansCall(i, w), v, k.body)
               ELSE MeansCall(k, v)

(* Calls whose statements look for their rows twice and may find others    *)
(* the second time, and calls that send their writes without a transaction *)
(* (README, section 6).                                                    *)
LooksTwice(k, v) ==
    \/ k.kind = "update" /\ HasNested(k) /\ k.set = "x" /\ k.filter = "x0"
    \/ k.kind = "delete" /\ k.cascade # <<>> /\ k.filter = "has posts"
    \/ k.kind = "delete" /\ k.cascade # <<>>
          /\ \E a \in Where(v, k.filter) : v[A(a)].deleted /\ Children(v, a) # {}
InPieces(k) ==
    \/ k.kind = "insert many" /\ returning
    \/ k.kind = "insert" /\ ~returning /\ k.nested = <<>> /\ k.batch = {} /\ k.m2m = NoM2m

\* A call that returns Ok has done what it says, all of it and nothing
\* else, as if it had been one step: whatever list of nested writes, batches,
\* many-to-many writes and cascades it carries, and whatever chunks and
\* statements query.rs, nested.rs, rel.rs and m2m.rs cut it into.  A closure
\* of Db::transaction_retrying that had to be tried again counts once.
CallsAreOneStep ==
    [][\A c \in Clients :
         (/\ run[c].phase = "running" /\ run'[c].phase = "ok"
          /\ isolation = "one at a time"
          /\ ~InPieces(call[c]) /\ ~LooksTwice(call[c], before'[c]))
         => db' = Means(call[c], before'[c])]_vars

TypeOK == /\ StoreTypeOK
          /\ \A c \in Clients : /\ run[c].phase \in {"idle", "running", "again", "ok", "error"}
                            /\ call[c] # Null /\ call[c].kind = "transaction" =>
                                  run[c].attempt \in 1 .. call[c].attempts

\* A call that returned an error has left nothing behind, whichever of its
\* statements failed, unless it is one that query.rs sends without a
\* transaction: what such a call leaves is whole rows it was asked for.  A
\* call that returned Ok has no transaction open and no statement unsent.
ErrorsLeaveNothing ==
    /\ TypeOK
    /\ \A c \in Clients :
         /\ run[c].phase = "ok" => c \notin open /\ run[c].todo = <<>>
         /\ (run[c].phase = "error" /\ c \notin open) =>
              \/ lasting[c] = {}
              \/ /\ InPieces(call[c])
                 /\ lasting[c] \subseteq IF call[c].kind = "insert" THEN {A(call[c].key)}
                                         ELSE {P(p) : p \in call[c].posts}

\* With other clients writing between the statements, what an update or an
\* insert says of its parents still holds when it commits: after set_related
\* or an m2m set the children are the named ones, and those others put there
\* meanwhile; the children and targets returned with a new parent are its own.
AnswersHoldAtCommit ==
    [][\A c \in Clients :
         (Running(c, "commit") /\ run'[c].phase = "ok") =>
            LET k == call[c]
                own(a, s) == /\ \A p \in Present(db, s) : p \in Children(db, a)
                             /\ \A p \in Children(db, a) \ s : writer[P(p)] \notin {c, Null}
                sets      == IF k.kind = "update" THEN k.rel \o k.nested ELSE <<>>
            IN  /\ (sets # <<>> /\ Last(sets).op = "set") =>
                      \A a \in run[c].parents : own(a, Last(sets).posts)
                /\ (k.kind = "update" /\ k.m2m.action = "set") =>
                      \A a \in run[c].parents : \A t \in LinksOf(db, a) \ k.m2m.ids :
                          writer[L(a, t)] \notin {c, Null}
                /\ k.kind = "insert" => /\ k.batch \subseteq run[c].kids \cap Children(db, k.key)
                                        /\ returning => run[c].kids = k.batch
                                        /\ run[c].tags \subseteq LinksOf(db, k.key)]_vars

=============================================================================
