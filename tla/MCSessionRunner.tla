-------------------------- MODULE MCSessionRunner --------------------------
(***************************************************************************)
(* Instances of SessionRunner for TLC: the constants are sets of model     *)
(* values whose elements are interchangeable, so safety runs use their     *)
(* permutations as symmetries.  Liveness runs use none.                    *)
(***************************************************************************)
EXTENDS SessionRunner, TLC

Symmetry ==
  UNION {Permutations(S) : S \in {Sessions, Prompts, Workers, Interrupters, Deleters}}

\* Bound of the run with one session: no property says more about a session
\* once two of its deletes overlapped, so nothing beyond that is explored.
OneDeleteAtATime == doubled = {}
=============================================================================
