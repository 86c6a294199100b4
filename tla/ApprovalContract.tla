-------------------------- MODULE ApprovalContract --------------------------
(***************************************************************************)
(* What the engine may rely on when it asks the user for approval, without *)
(* the broker's threads: a request is opened for a session, gets one       *)
(* verdict, and no request of a stopped session is open.                   *)
(***************************************************************************)
CONSTANTS
  Sessions,   \* session ids
  Requests,   \* approval requests, each submitted at most once
  None        \* no session

VARIABLES
  owner,      \* the session a request was opened for, or None
  verdict,    \* "unasked", "open", "allow" or "deny"
  stopped     \* sessions whose requests are denied unasked

vars == <<owner, verdict, stopped>>

Init ==
  /\ owner = [r \in Requests |-> None]
  /\ verdict = [r \in Requests |-> "unasked"]
  /\ stopped = {}

Ask(r, s) ==
  /\ verdict[r] = "unasked"
  /\ owner' = [owner EXCEPT ![r] = s]
  /\ verdict' = [verdict EXCEPT ![r] = IF s \in stopped THEN "deny" ELSE "open"]
  /\ UNCHANGED stopped

\* the user's answer, or a denial because nobody can be asked
Answer(r, v) ==
  /\ verdict[r] = "open" /\ v \in {"allow", "deny"}
  /\ verdict' = [verdict EXCEPT ![r] = v]
  /\ UNCHANGED <<owner, stopped>>

Stop(S) ==
  /\ stopped' = stopped \cup S
  /\ verdict' = [r \in Requests |->
       IF owner[r] \in S /\ verdict[r] = "open" THEN "deny" ELSE verdict[r]]
  /\ UNCHANGED owner

Rearm(S) ==
  /\ stopped' = stopped \ S
  /\ UNCHANGED <<owner, verdict>>

Next ==
  \/ \E r \in Requests, s \in Sessions : Ask(r, s)
  \/ \E r \in Requests, v \in {"allow", "deny"} : Answer(r, v)
  \/ \E S \in SUBSET Sessions : Stop(S) \/ Rearm(S)

Spec == Init /\ [][Next]_vars
=============================================================================
