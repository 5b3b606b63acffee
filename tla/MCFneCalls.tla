----------------------------- MODULE MCFneCalls -----------------------------
(***************************************************************************)
(* FneCalls with three repeaters, an NXDN talkgroup for all of them, and a *)
(* P25 parrot talkgroup that not all of them may use.                      *)
(***************************************************************************)
EXTENDS FneCalls

CONSTANTS p1, p2, p3, t1, t2

ThirdExcluded == {<<p3, t2>>}

=============================================================================
