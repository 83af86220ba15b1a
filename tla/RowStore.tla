------------------------------ MODULE RowStore ------------------------------
(***************************************************************************)
(* The database under the runtime, as the calls of query.rs use it: rows   *)
(* of three related tables and a join table, transactions that hold the    *)
(* rows they wrote until they end, foreign keys.  External: what a server  *)
(* does with the statements it is sent.                                    *)
(*                                                                         *)
(* A statement runs in one step, on what is committed and on the writes of *)
(* its own transaction (READ COMMITTED).  One that would write a row held  *)
(* by somebody else waits.  Where isolation is "one at a time", as SQLite  *)
(* has a single writer, nobody runs a statement beside an open transaction.*)
(***************************************************************************)
EXTENDS Integers, FiniteSets, Sequences, SequencesExt

CONSTANTS Authors, Posts, Tags,   \* keys: parents, children, many-to-many targets
          Clients,
          Null,                   \* the foreign key of a post without author
          Absent                  \* the value of a row that is not there

VARIABLES db,         \* row -> value, uncommitted writes included
          undo,       \* undo[c]: what the rows c wrote in its transaction were
          shared,     \* shared[c]: authors c's transaction refers to
          open,       \* clients in a transaction
          isolation,  \* "one at a time" or "read committed"
          enforced    \* the tables declare their foreign keys

store == <<db, undo, shared, open, isolation, enforced>>

A(a)    == <<"author", a>>
P(p)    == <<"post", p>>
T(t)    == <<"tag", t>>
L(a, t) == <<"link", a, t>>

Links == {L(a, t) : a \in Authors, t \in Tags}
Rows  == {A(a) : a \in Authors} \cup {P(p) : p \in Posts}
           \cup {T(t) : t \in Tags} \cup Links

AuthorRow == [x : 0 .. 1, deleted : BOOLEAN]
PostRow   == [author : Authors \cup {Null}, deleted : BOOLEAN]
TagRow    == [deleted : BOOLEAN]
Linked    == "linked"

NoRows == [r \in {} |-> Absent]

\* g where it is defined, f elsewhere
Over(g, f) == [r \in DOMAIN f \cup DOMAIN g |-> IF r \in DOMAIN g THEN g[r] ELSE f[r]]

\* what a row may be; tags are there from the beginning to the end
Fits(v, r) ==
    \/ \E a \in Authors : r = A(a) /\ v[r] \in AuthorRow \cup {Absent}
    \/ \E p \in Posts : r = P(p) /\ v[r] \in PostRow \cup {Absent}
    \/ \E t \in Tags : r = T(t) /\ v[r] \in TagRow
    \/ r \in Links /\ v[r] \in {Linked, Absent}
RowsTypeOK(v) == DOMAIN v = Rows /\ \A r \in Rows : Fits(v, r)

StoreTypeOK ==
    /\ RowsTypeOK(db)
    /\ open \subseteq Clients
    /\ \A c \in Clients : /\ DOMAIN undo[c] \subseteq Rows
                          /\ shared[c] \subseteq Authors
                          /\ c \notin open => undo[c] = NoRows /\ shared[c] = {}

\* what a statement of c reads
Seen(c) == LET held(r) == {o \in Clients \ {c} : r \in DOMAIN undo[o]}
           IN  [r \in Rows |-> IF held(r) = {} THEN db[r]
                               ELSE undo[CHOOSE o \in held(r) : TRUE][r]]

Committed == LET held(r) == {o \in Clients : r \in DOMAIN undo[o]}
             IN  [r \in Rows |-> IF held(r) = {} THEN db[r]
                                 ELSE undo[CHOOSE o \in held(r) : TRUE][r]]

MayRun(c) == isolation = "one at a time" => open \subseteq {c}

\* the authors the rows of a set of changes refer to
References(ch) == LET kept == {r \in DOMAIN ch : ch[r] # Absent}
                  IN  {a \in Authors : \/ \E r \in kept : r[1] = "post" /\ ch[r].author = a
                                       \/ \E r \in kept : r[1] = "link" /\ r[2] = a}
Removed(ch)    == {a \in Authors : A(a) \in DOMAIN ch /\ ch[A(a)] = Absent}
Refers(v, a)   == \/ \E p \in Posts : v[P(p)] # Absent /\ v[P(p)].author = a
                  \/ \E t \in Tags : v[L(a, t)] # Absent

\* no row the statement writes, and no author it refers to or removes, is
\* held by somebody else
Free(c, ch) == \A o \in Clients \ {c} :
    /\ DOMAIN ch \cap DOMAIN undo[o] = {}
    /\ enforced => /\ \A a \in References(ch) : ~(A(a) \in DOMAIN undo[o] /\ db[A(a)] = Absent)
                   /\ \A a \in References(ch) :
                         A(a) \in DOMAIN undo[o] => undo[o][A(a)] # Absent
                   /\ Removed(ch) \cap shared[o] = {}

\* the statement is refused: a row refers to an author who is not there
Refused(c, ch) == LET v == Over(ch, Seen(c))
                  IN  enforced /\ \/ \E a \in References(ch) : v[A(a)] = Absent
                                  \/ \E a \in Removed(ch) : Refers(v, a)

Keep(c, ch) ==
    /\ db' = Over(ch, db)
    /\ IF c \in open
       THEN /\ undo' = [undo EXCEPT ![c] = Over(@, [r \in DOMAIN ch |-> db[r]])]
            /\ shared' = [shared EXCEPT ![c] = IF enforced THEN @ \cup References(ch) ELSE @]
       ELSE UNCHANGED <<undo, shared>>
    /\ UNCHANGED <<open, isolation, enforced>>

BeginTx(c)  == /\ open' = open \cup {c}
               /\ UNCHANGED <<db, undo, shared, isolation, enforced>>
EndTx(c)    == /\ open' = open \ {c}
               /\ undo' = [undo EXCEPT ![c] = NoRows]
               /\ shared' = [shared EXCEPT ![c] = {}]
               /\ UNCHANGED <<isolation, enforced>>
CommitTx(c)   == EndTx(c) /\ UNCHANGED db
RollbackTx(c) == EndTx(c) /\ db' = Over(undo[c], db)

=============================================================================
