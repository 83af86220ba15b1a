---------------------------- MODULE IncludeLoad ----------------------------
(***************************************************************************)
(* Relation loading, crates/runtime/src/include.rs: after the rows of a    *)
(* query, the rows related to them, a few statements per relation, and the *)
(* relations of those in turn.  Other clients write in between.            *)
(*                                                                         *)
(* An include is [rel, filter, order, limit, nested]; nested is a sequence *)
(* of at most one include.  "posts" is an IncludeList, "author" an         *)
(* IncludeOne and "tags" an IncludeMany through the links.                 *)
(***************************************************************************)
EXTENDS RowStore

CONSTANTS Includes,    \* what the reader may ask for
          KeyOrder,    \* every key, in the order ORDER BY ASC gives
          Wanted,      \* keys a filter on the children keeps
          ChunkSizes,  \* keys that fit one IN list, by dialect
          FastLimit,   \* full_table_include_limit, 0 when it is off
          NoLimit,     \* no take() was given
          MaxChanges   \* bound on writes beside one read

ASSUME IncludeAssumption == ChunkSizes \subseteq Nat \ {0} /\ FastLimit \in Nat /\ MaxChanges \in Nat

VARIABLES reader,   \* [phase, inc, how, frames, rows]
          caps,     \* of the dialect: window functions, keys per IN list
          changes,  \* writes beside the read so far
          ever      \* history: what was true at some moment of the read

rvars == <<reader, caps, changes, ever>>

NoRead == [phase |-> "idle", inc |-> "none", how |-> "all", frames |-> <<>>, rows |-> <<>>]
ReaderIdle == reader = NoRead /\ caps = [windows |-> TRUE, keys |-> 1] /\ changes = 0 /\ ever = {}

\* the builders
NewInclude(rel)      == [rel |-> rel, filter |-> "none", order |-> "none", limit |-> NoLimit,
                         nested |-> <<>>]
IncludeList          == NewInclude("posts")
IncludeOne           == NewInclude("author")
IncludeMany          == NewInclude("tags")
FilterKids(inc)      == [inc EXCEPT !.filter = "wanted"]
OrderKids(inc, way)  == [inc EXCEPT !.order = way]
Take(inc, n)         == [inc EXCEPT !.limit = n]
Include(inc, nested) == [inc EXCEPT !.nested = <<nested>>]

Table(rel) == CASE rel = "posts" -> Posts [] rel = "author" -> Authors [] rel = "tags" -> Tags
RowOf(rel, k) == CASE rel = "posts" -> P(k) [] rel = "author" -> A(k) [] rel = "tags" -> T(k)
IsLive(v, r)  == v[r] # Absent /\ ~v[r].deleted

\* the join key of a loaded row (get) and of a child row (child_key_get)
ParentKey(rel, row) == IF rel = "author" THEN row.author ELSE row.key
ChildKey(v, rel, k) == IF rel = "posts" THEN v[P(k)].author ELSE k

\* a row as it was read; kids stays Absent until a relation is attached
Loaded(v, rel, k) == [key |-> k, kids |-> Absent,
                      author |-> IF rel = "posts" THEN v[P(k)].author ELSE Null]

------------------------------------------------------------------------------
(* The statements.                                                         *)

InOrder(keys, order) == LET up == SelectSeq(KeyOrder, LAMBDA k : k \in keys)
                        IN  IF order = "desc" THEN Reverse(up) ELSE up
RowsIn(v, inc, keys) == LET q == InOrder(keys, inc.order)
                        IN  [i \in DOMAIN q |-> Loaded(v, inc.rel, q[i])]

\* SelectQuery adds the soft-delete predicate; so does the partitioned query
LiveKeys(v, rel)    == {k \in Table(rel) : IsLive(v, RowOf(rel, k))}
Filtered(v, inc)    == {k \in LiveKeys(v, inc.rel) : inc.filter = "wanted" => k \in Wanted}
Matching(v, inc, ks) == {k \in Filtered(v, inc) : ChildKey(v, inc.rel, k) \in ks}

\* compile::select_partitioned: the first rows of each parent
X_PlainLimit(v, inc, ks) ==
    LET q == InOrder(Matching(v, inc, ks), inc.order)
    IN  {q[i] : i \in {j \in DOMAIN q : j <= inc.limit}}
X_TakesDeleted(v, inc, ks) ==
    {k \in Table(inc.rel) : v[RowOf(inc.rel, k)] # Absent /\ ChildKey(v, inc.rel, k) \in ks}
Partitioned(v, inc, ks) ==
    LET q == InOrder(Matching(v, inc, ks), inc.order)
        before(i) == {j \in 1 .. i : ChildKey(v, inc.rel, q[j]) = ChildKey(v, inc.rel, q[i])}
    IN  {q[i] : i \in {j \in DOMAIN q : Cardinality(before(j)) <= inc.limit}}

------------------------------------------------------------------------------
(* One frame per relation being loaded: rows are the parents, got the      *)
(* children so far, joins the link rows, todo the statements to send.      *)

Dedup(q) == SelectSeq(KeyOrder, LAMBDA k : \E i \in DOMAIN q : q[i] = k)
KeyChunks(q, n) == LET last(i) == IF i * n < Len(q) THEN i * n ELSE Len(q)
                   IN  [i \in 1 .. (Len(q) + n - 1) \div n |->
                          ToSet(SubSeq(q, (i - 1) * n + 1, last(i)))]
Asking(op, chunks) == [i \in DOMAIN chunks |-> [op |-> op, keys |-> chunks[i]]]

\* the fast path: every row of the child table, when nothing else is asked
Unconstrained(inc) == inc.filter = "none" /\ inc.order = "none" /\ inc.limit = NoLimit
X_FastWithFilter(inc, full) == full /\ FastLimit > 0 /\ inc.limit = NoLimit
FastPath(inc, full) == full /\ FastLimit > 0 /\ Unconstrained(inc)

ParentKeys(inc, rows) == Dedup([i \in DOMAIN rows |-> ParentKey(inc.rel, rows[i])])

\* fetch_children without the fast path, and fetch_children_per_parent
X_FirstChunkOnly(inc, rows) ==
    LET keys == ParentKeys(inc, rows)
    IN  Asking("chunk", SubSeq(KeyChunks(keys, caps.keys), 1, 1))
ByKeys(inc, rows) ==
    LET keys == ParentKeys(inc, rows)
    IN  IF inc.limit # NoLimit /\ ~caps.windows THEN Asking("per parent", KeyChunks(keys, 1))
        ELSE Asking("chunk", KeyChunks(keys, caps.keys))

Enter(inc, rows, full) ==
    [inc |-> inc, rows |-> rows, full |-> full, got |-> <<>>, joins |-> {}, entered |-> FALSE,
     todo |-> IF inc.rel = "tags" THEN Asking("links", KeyChunks(ParentKeys(inc, rows), caps.keys))
              ELSE IF FastPath(inc, full) THEN <<[op |-> "count", keys |-> {}]>>
              ELSE ByKeys(inc, rows)]

Top      == Last(reader.frames)
SetTop(f) == reader' = [reader EXCEPT !.frames = Append(Front(@), f)]
Asked(op) == /\ reader.phase = "loading" /\ reader.frames # <<>> /\ Top.todo # <<>>
             /\ Head(Top.todo).op = op

\* SelectQuery::exec and exec_optional: the parents, then their includes
ReadStart(inc, how) ==
    /\ reader.phase = "idle"
    /\ reader' = [NoRead EXCEPT !.phase = "asked", !.inc = inc, !.how = how]
    /\ ever' = {}
    /\ UNCHANGED <<caps, changes>>

\* is_full_table
IsFullTable(how) == how = "all"

Facts(v) == {r \in Rows : v[r] # Absent /\ (r[1] = "link" \/ ~v[r].deleted)}
              \cup {<<p, v[P(p)].author>> : p \in {q \in Posts : IsLive(v, P(q))}}

ReadParentRows ==
    /\ reader.phase = "asked"
    /\ LET v    == Committed
           keys == {a \in Authors : IsLive(v, A(a)) /\ (reader.how = "filtered" => v[A(a)].x = 0)}
           all  == InOrder(keys, "none")
           q    == IF reader.how = "optional" /\ all # <<>> THEN <<all[1]>> ELSE all
           rows == [i \in DOMAIN q |-> Loaded(v, "author", q[i])]
       IN  /\ reader' = IF rows = <<>> THEN [reader EXCEPT !.phase = "done"]
                        ELSE [reader EXCEPT !.phase = "loading",
                                !.frames = <<Enter(reader.inc, rows, IsFullTable(reader.how))>>]
           /\ ever' = Facts(v)
    /\ UNCHANGED <<caps, changes>>

\* the COUNT decides whether the whole table is loaded
ReadCount ==
    /\ Asked("count")
    /\ SetTop([Top EXCEPT !.todo =
                 IF Cardinality(LiveKeys(Committed, Top.inc.rel)) <= FastLimit
                 THEN <<[op |-> "all", keys |-> {}]>> ELSE ByKeys(Top.inc, Top.rows)])
    /\ UNCHANGED <<caps, changes, ever>>

Got(more) == SetTop([Top EXCEPT !.todo = Tail(@), !.got = @ \o more])

ReadAll == /\ Asked("all")
           /\ Got(RowsIn(Committed, Top.inc, LiveKeys(Committed, Top.inc.rel)))
           /\ UNCHANGED <<caps, changes, ever>>

ReadChunk ==
    /\ \/ Asked("chunk") \/ Asked("per parent")
    /\ LET v == Committed  inc == Top.inc  ks == Head(Top.todo).keys
       IN  Got(RowsIn(v, inc, IF inc.limit = NoLimit THEN Matching(v, inc, ks)
                              ELSE Partitioned(v, inc, ks)))
    /\ UNCHANGED <<caps, changes, ever>>

\* the link rows of all parents, then the targets they name
ReadLinks ==
    /\ Asked("links")
    /\ LET found == Top.joins \cup {<<a, t>> \in Head(Top.todo).keys \X Tags :
                                       Committed[L(a, t)] # Absent}
           targets == Dedup(SetToSeq({l[2] : l \in found}))
       IN  SetTop([Top EXCEPT !.joins = found,
                     !.todo = IF Len(@) > 1 THEN Tail(@)
                              ELSE Asking("targets", KeyChunks(targets, caps.keys))])
    /\ UNCHANGED <<caps, changes, ever>>

ReadTargets ==
    /\ Asked("targets")
    /\ LET v == Committed
       IN  Got(RowsIn(v, Top.inc, Filtered(v, Top.inc) \cap Head(Top.todo).keys))
    /\ UNCHANGED <<caps, changes, ever>>

\* the relations of the children, before they are attached
Descend ==
    /\ reader.phase = "loading" /\ Top.todo = <<>> /\ ~Top.entered
    /\ Top.inc.nested # <<>> /\ Top.got # <<>>
    /\ LET f == Top
           full == f.full /\ f.inc.rel # "tags" /\ Unconstrained(f.inc)
       IN  reader' = [reader EXCEPT !.frames =
                        Append(Append(Front(@), [f EXCEPT !.entered = TRUE]),
                               Enter(f.inc.nested[1], f.got, full))]
    /\ UNCHANGED <<caps, changes, ever>>

\* the children of one parent, in the order they came
X_TakeAcrossParents(f, row) ==
    LET few == IF f.inc.limit = NoLimit THEN f.got
               ELSE SubSeq(f.got, 1, IF Len(f.got) < f.inc.limit THEN Len(f.got) ELSE f.inc.limit)
    IN  SelectSeq(few, LAMBDA k : <<row.key, k.key>> \in f.joins)
X_AnyParent(f, row) == f.got
Bucket(f, row) ==
    LET own(k) == CASE f.inc.rel = "tags"   -> <<row.key, k.key>> \in f.joins
                    [] f.inc.rel = "posts"  -> k.author = row.key
                    [] f.inc.rel = "author" -> k.key = row.author
        all == SelectSeq(f.got, own)
        n   == CASE f.inc.rel = "author" -> 1
                 [] f.inc.rel = "tags" /\ f.inc.limit # NoLimit -> f.inc.limit
                 [] OTHER -> Len(all)
    IN  SubSeq(all, 1, IF Len(all) < n THEN Len(all) ELSE n)

Attach ==
    /\ reader.phase = "loading" /\ Top.todo = <<>>
    /\ Top.entered \/ Top.inc.nested = <<>> \/ Top.got = <<>>
    /\ LET rows  == [i \in DOMAIN Top.rows |-> [Top.rows[i] EXCEPT !.kids = Bucket(Top, Top.rows[i])]]
           below == Front(reader.frames)
       IN  reader' = IF below = <<>>
                     THEN [reader EXCEPT !.phase = "done", !.frames = <<>>, !.rows = rows]
                     ELSE [reader EXCEPT !.frames = Append(Front(below), [Last(below) EXCEPT !.got = rows])]
    /\ UNCHANGED <<caps, changes, ever>>

\* another client changes a row and commits
Changed == {[r \in {P(p)} |-> [author |-> a, deleted |-> d]] : p \in Posts, a \in Authors, d \in BOOLEAN}
             \cup {[r \in {P(p)} |-> Absent] : p \in Posts}
             \cup {[r \in {A(a)} |-> [x |-> 0, deleted |-> TRUE]] : a \in Authors}
             \cup {[r \in {l} |-> s] : l \in Links, s \in {Linked, Absent}}
             \cup {[r \in {T(t)} |-> [deleted |-> d]] : t \in Tags, d \in BOOLEAN}
Environment ==
    /\ reader.phase = "loading" /\ changes < MaxChanges
    /\ \E ch \in Changed : /\ \E r \in DOMAIN ch : db[r] # ch[r]
                           /\ db' = Over(ch, db) /\ ever' = ever \cup Facts(db')
    /\ changes' = changes + 1
    /\ UNCHANGED <<undo, shared, open, isolation, enforced, reader, caps>>

Read1 == ReadParentRows \/ ReadCount \/ ReadAll \/ ReadChunk \/ ReadLinks \/ ReadTargets
           \/ Descend \/ Attach
ReadNext == \/ /\ \/ \E inc \in Includes, how \in {"all", "filtered", "optional"} : ReadStart(inc, how)
                  \/ Read1
               /\ UNCHANGED store
            \/ Environment

------------------------------------------------------------------------------
(* What an include asks for, of one state of the rows.                     *)

Children1(v, inc, row) ==
    LET mine == CASE inc.rel = "tags" -> {t \in Filtered(v, inc) : v[L(row.key, t)] # Absent}
                  [] OTHER            -> Matching(v, inc, {ParentKey(inc.rel, row)})
        all  == RowsIn(v, inc, mine)
    IN  SubSeq(all, 1, IF inc.limit # NoLimit /\ inc.limit < Len(all) THEN inc.limit ELSE Len(all))
Children2(v, inc, row) ==
    LET kids == Children1(v, inc, row)
    IN  IF inc.nested = <<>> THEN kids
        ELSE [i \in DOMAIN kids |-> [kids[i] EXCEPT !.kids = Children1(v, inc.nested[1], kids[i])]]

\* the targets of a many-to-many relation come in several lists
Split(inc) == inc.rel = "tags" /\ Cardinality(Tags) > caps.keys
                /\ (inc.order # "none" \/ inc.limit # NoLimit)

\* A finished read has attached to every parent what the include asks for:
\* exactly its children when nobody wrote meanwhile, whether they came by the
\* fast path, by chunks of keys or by windows; and, when somebody did, only
\* rows that were children of that parent at some moment of the read, none
\* twice and no more than take() allows.  No relation stays absent.
IncludesTrue ==
    reader.phase = "done" =>
      \A i \in DOMAIN reader.rows :
        LET inc == reader.inc  row == reader.rows[i]
            once(q) == Cardinality({q[j].key : j \in DOMAIN q}) = Len(q)
            true(s, up, k) == /\ RowOf(s.rel, k.key) \in ever
                              /\ s.rel = "posts"  => <<k.key, up.key>> \in ever
                              /\ s.rel = "author" => k.key = up.author
                              /\ s.rel = "tags"   => L(up.key, k.key) \in ever
            fine(s, up) == /\ once(up.kids)
                           /\ s.limit # NoLimit => Len(up.kids) <= s.limit
                           /\ \A j \in DOMAIN up.kids : true(s, up, up.kids[j])
        IN  /\ row.kids # Absent /\ fine(inc, row)
            /\ inc.nested # <<>> => \A j \in DOMAIN row.kids :
                   /\ row.kids[j].kids # Absent /\ fine(inc.nested[1], row.kids[j])
            /\ (changes = 0 /\ ~Split(inc)) => row.kids = Children2(db, inc, row)
=============================================================================
