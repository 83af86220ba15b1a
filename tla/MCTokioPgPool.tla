---------------------------- MODULE MCTokioPgPool ----------------------------
(* TokioPgPool with two connections and three callers, and a spare identity *)
(* for the connection that replaces a detached one.                         *)
EXTENDS TokioPgPool

CONSTANTS c1, c2, c3, u1, u2, u3

ThreeConns == {c1, c2, c3}
ThreeUsers == {u1, u2, u3}
=============================================================================
