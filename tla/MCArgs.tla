------------------------------- MODULE MCArgs -------------------------------
(***************************************************************************)
(* The instance of Args: every buffer of N characters, the ones after an   *)
(* earlier NUL left out.                                                   *)
(***************************************************************************)
EXTENDS Args

MCBuffers == {[i \in 0..N |-> IF i = N THEN NUL ELSE b[i]] :
                b \in [0..(N - 1) -> Chars]}
=============================================================================
