---------------------------- MODULE MCWriteQuery ----------------------------
(* WriteQuery and IncludeLoad with two authors, two posts and two tags.    *)
(* Either one client makes any of the calls below and the other one short  *)
(* one beside it, or a reader loads relations while rows change.           *)
EXTENDS WriteQuery, IncludeLoad

CONSTANTS a1, a2, p1, p2, t1, t2, c1, c2

TwoAuthors == {a1, a2}
TwoPosts   == {p1, p2}
TwoTags    == {t1, t2}
TwoClients == {c1, c2}

Rowset(v1, v2, q1, q2, links) ==
    [r \in Rows |-> CASE r = A(a1) -> v1
                      [] r = A(a2) -> v2
                      [] r = P(p1) -> q1
                      [] r = P(p2) -> q2
                      [] r = T(t1) -> [deleted |-> FALSE]
                      [] r = T(t2) -> [deleted |-> TRUE]
                      [] OTHER     -> IF r \in links THEN Linked ELSE Absent]
Live(n)    == [x |-> n, deleted |-> FALSE]
Hidden(n)  == [x |-> n, deleted |-> TRUE]
Post(a)    == [author |-> a, deleted |-> FALSE]

SomeStores == {Rowset(Live(0), Live(1), Post(a1), Post(a2), {L(a1, t1)}),
               Rowset(Live(0), Live(0), Post(a1), Post(Null), {}),
               Rowset(Live(0), Hidden(0), Absent, Post(a2), {L(a1, t2)}),
               Rowset(Live(1), Absent, Post(a1), Post(a1), {L(a1, t1), L(a1, t2)})}

Op(op, ps) == [op |-> op, posts |-> ps, find |-> "orphans"]
M2m(action, ids) == [action |-> action, ids |-> ids]

NestedAll(k, ops) == FoldLeft(NestedWrite, k, ops)
RelAll(k, ops)    == FoldLeft(RelatedWrite, k, ops)
Upsert1(key)      == OnConflict(NewInsert(key), TRUE)
Inserts ==
    {NewInsert(a2), OnConflict(NewInsert(a1), FALSE),
     NestedWrite(Upsert1(a1), Op("set", {p2})),
     WithChildren(NewInsert(a2), {p1, p2}),
     WithM2m(NestedAll(NewInsert(a2), <<Op("connect", {p1}), Op("create", {p2})>>), M2m("attach", {t1})),
     WithM2m(WithChildren(Upsert1(a2), {p1}), M2m("set", {t1, t2})),
     AddRaggedRow(WithChildren(NewInsert(a2), {p1})),
     NewInsertMany({p1, p2}, a1), NewInsertMany({}, a1)}
Everywhere == AllRows(NewUpdate)
WhereX0    == FilterBy(NewUpdate, "x0")
WhereA1    == FilterBy(NewUpdate, a1)
Updates ==
    {SetX(Everywhere), SoftDelete(WhereX0), SetX(NewUpdate), WhereX0,
     SetX(RelatedWrite(WhereA1, Op("set", {p2}))),
     WithM2m(RelAll(WhereX0, <<Op("disconnect", {p1}), Op("connect", {p2})>>), M2m("detach", {t1})),
     WithM2m(SetX(WhereX0), M2m("set", {t2})),
     NestedAll(WhereA1, <<Op("delete", {p1}), Op("connect or create", {p1})>>),
     WithM2m(SoftDelete(NestedAll(WhereA1, <<Op("disconnect", {p2}), Op("set", {})>>)), M2m("set", {t2})),
     WithM2m(Everywhere, M2m("set", {t2})), WithM2m(Everywhere, M2m("attach", {t1})),
     SetX(NestedWrite(FilterBy(NewUpdate, "has posts"), Op("set", {p1, p2})))}
DeleteX0 == FilterBy(NewDelete, "x0")
DeleteA1 == FilterBy(NewDelete, a1)
Deletes ==
    {DeleteX0, NewDelete, AllRows(NewDelete), WithCascade(DeleteX0, "Cascade"),
     WithCascade(WithCascade(DeleteX0, "SetNull"), "NoAction"), WithCascade(DeleteA1, "Restrict"),
     WithCascade(FilterBy(NewDelete, "has posts"), "Cascade"), WithCascade(DeleteA1, "SetDefault")}

SomeTransactions ==
    {NewTransaction(2, <<SetX(WhereX0), NewInsert(a2)>>), NewTransaction(1, <<NewInsert(a2)>>),
     NewTransaction(2, <<DeleteX0, OnConflict(NewInsert(a1), FALSE)>>)}

Beside == {RelatedWrite(WhereA1, Op("connect", {p2})), SetX(Everywhere),
           WithCascade(DeleteA1, "SetNull"), WithChildren(NewInsert(a2), {p2})}
SomeCalls == [c \in Clients |-> IF c = c1 THEN Inserts \cup Updates \cup Deletes \cup SomeTransactions ELSE Beside]

ItsAuthor    == IncludeOne
SomeIncludes ==
    {Include(IncludeList, ItsAuthor), FilterKids(IncludeList),
     Include(Take(OrderKids(IncludeList, "desc"), 1), ItsAuthor),
     IncludeMany, FilterKids(IncludeMany), Take(OrderKids(IncludeMany, "desc"), 1)}
SomeKeys     == <<a1, a2, p1, p2, t1, t2>>
SomeWanted   == {p2, t1}
SomeSizes    == {1, 2}

\* rows to read: no post is without author, as a generated include needs
ReadStores == {Rowset(Live(0), Live(1), Post(a1), Post(a1), {L(a1, t1), L(a2, t1), L(a2, t2)}),
               Rowset(Live(0), Live(0), Post(a2), [author |-> a2, deleted |-> TRUE], {L(a1, t1)}),
               Rowset(Live(0), Live(0), Post(a1), Post(a2), {}),
               Rowset(Live(0), Hidden(0), Post(a2), Post(a1), {L(a1, t2)})}

ReadInit == /\ db \in ReadStores /\ caps \in [windows : BOOLEAN, keys : ChunkSizes]
            /\ isolation = "read committed" /\ enforced = FALSE /\ returning = TRUE
            /\ undo = [c \in Clients |-> NoRows] /\ shared = [c \in Clients |-> {}]
            /\ open = {} /\ failures = 0
            /\ call = [c \in Clients |-> Null] /\ run = [c \in Clients |-> Idle]
            /\ before = [c \in Clients |-> NoRows] /\ lasting = [c \in Clients |-> {}]
            /\ writer = [r \in Rows |-> Null]
            /\ reader = NoRead /\ changes = 0 /\ ever = {}
Reading  == before[c1] = NoRows
MCInit   == (Init /\ ReaderIdle) \/ ReadInit
MCNext   == \/ ~Reading /\ Next /\ UNCHANGED rvars
            \/ Reading /\ ReadNext /\ UNCHANGED wvars
MCSpec   == MCInit /\ [][MCNext]_<<vars, rvars>>

=============================================================================
