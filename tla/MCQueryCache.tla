---------------------------- MODULE MCQueryCache ----------------------------
(* QueryCache with a few keys and tags; capacity below the number of keys, *)
(* so that insertions evict.                                               *)
EXTENDS QueryCache, TLC

CONSTANTS k1, k2, k3, a, b, t1, t2, t3

OneKey       == {k1}
ThreeKeys    == {k1, k2, k3}
TwoTags      == {a, b}
ThreeThreads == {t1, t2, t3}

\* Two threads doing everything, with any tags; three threads whose entries
\* have one tag or none.
Racing   == [threads |-> {t1, t2}, tagSets |-> SUBSET Tags, clearing |-> TRUE]
Together == [threads |-> {t1, t2, t3}, tagSets |-> {{}, {a}}, clearing |-> TRUE]

Sound == {Racing, Together}

\* The keys are interchangeable; the threads and tags of a usage are not.
Symmetry == Permutations(Keys)
=============================================================================
