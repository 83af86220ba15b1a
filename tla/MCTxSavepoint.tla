--------------------------- MODULE MCTxSavepoint ----------------------------
(* TxSavepoint with two users of the transaction, a few rows, and both     *)
(* kinds of server: three savepoints for one task, two for several.        *)
EXTENDS TxSavepoint

CONSTANTS t1, t2, r1, r2

TwoTasks == {t1, t2}
TwoRows  == {r1, r2}
OneByOne == [strict : BOOLEAN, shared : {FALSE}, savepoints : {3}]
AllModes == OneByOne \cup [strict : BOOLEAN, shared : {TRUE}, savepoints : {2}]

=============================================================================
