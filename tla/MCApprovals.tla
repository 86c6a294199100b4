---------------------------- MODULE MCApprovals ----------------------------
(***************************************************************************)
(* The permission state and the review windows, two parts that meet only   *)
(* in the promise of an approval, checked side by side: focus says which   *)
(* of the two a behaviour is about, the other stays in its initial state.  *)
(***************************************************************************)
EXTENDS MCPermissions, ReviewWindows, TLC

CONSTANTS n1, n2, n3     \* request ids

VARIABLE focus

ApprovalsInit == Init /\ ReviewInit /\ focus \in {"permissions", "windows"}

\* one initial state for the part that is not looked at
ApprovalsStart ==
  /\ ApprovalsInit
  /\ focus = "windows" => mode = [s \in Sessions |-> "build"] /\ active = a /\ clicks = 3
  /\ focus = "permissions" => inView = a
  \* without calls the sessions are alike, and a click changes a mode
  /\ calls = 0 => active = a /\ mode[b] = "build"

ApprovalsNext ==
  \/ focus = "permissions" /\ Next /\ UNCHANGED <<reviewVars, focus>>
  \/ focus = "windows" /\ ReviewNext /\ UNCHANGED <<vars, focus>>

ApprovalsSpec == ApprovalsStart /\ [][ApprovalsNext]_<<vars, reviewVars, focus>>

Ids == {n1, n2, n3}
IdsSymmetry == Permutations(Ids)
=============================================================================
