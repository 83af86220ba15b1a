-------------------------------- MODULE Call --------------------------------
(***************************************************************************)
(* A call of a function without state: what is called, with what, and what *)
(* it returned.  The modules of the functions without state each add the   *)
(* step that computes their answer; before it the answer is Pending.       *)
(***************************************************************************)
CONSTANTS Pending, \* no answer yet
          Null,    \* no value
          Error    \* no answer, but an error

VARIABLES function, argument, answer
callvars == <<function, argument, answer>>

Called(f) == function = f /\ answer = Pending
Returned(f) == function = f /\ answer # Pending
Return(a) == answer' = a /\ UNCHANGED <<function, argument>>
=============================================================================
