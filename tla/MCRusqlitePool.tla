--------------------------- MODULE MCRusqlitePool ---------------------------
(* RusqlitePool on two connections and three callers: more callers than   *)
(* connections, so that the free list runs dry and callers queue.         *)
EXTENDS RusqlitePool

CONSTANTS c1, c2, t1, t2, t3

MCConns   == {c1, c2}
MCThreads == {t1, t2, t3}

=============================================================================
