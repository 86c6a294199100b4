-------------------------- MODULE PermissionBroker --------------------------
(***************************************************************************)
(* PermissionRequestBroker: the wait state of approval requests.  A worker *)
(* blocks in submit() until the window resolves its request by id or a     *)
(* cancel denies it.  One action is one critical section of the broker's   *)
(* mu_ or one callback made outside it.  The notifications that close the  *)
(* window's panels and the gate's session grants are left out.             *)
(***************************************************************************)
EXTENDS Integers, FiniteSets

CONSTANTS
  Sessions,      \* session ids
  Requests,      \* requests, named by the id submit() would give them
  None,          \* no session
  MayFail        \* the delivery callback may report failure

ASSUME BrokerAssumption == None \notin Sessions /\ MayFail \in BOOLEAN

VARIABLES
  call,        \* the submit() calls: place and session
  pending,     \* pending_: the ids with an entry
  resolved,    \* Entry::resolved
  outcome,     \* Entry::outcome
  blocked,     \* blocked_sessions_
  down,        \* shutdown_
  answered     \* history: what submit() returned

vars == <<call, pending, resolved, outcome, blocked, down, answered>>

\* by: the decision the user made (user_decided and the reason), or "nobody"
Decisions == {"once", "session", "deny"}
NoOutcome == [effect |-> "none", by |-> "nobody"]

\* mutant: what nobody answered is allowed
AllowedUnasked == [effect |-> "allow", by |-> "nobody"]

Denied == [effect |-> "deny", by |-> "nobody"]
Verdicts == [effect: {"allow", "deny"}, by: Decisions \cup {"nobody"}]

CallRec == [pc: {"new", "deliver", "failmark", "failerase", "wait", "done"},
            sess: Sessions \cup {None}]

Init ==
  /\ call = [r \in Requests |-> [pc |-> "new", sess |-> None]]
  /\ pending = {}
  /\ resolved = [r \in Requests |-> FALSE]
  /\ outcome = [r \in Requests |-> NoOutcome]
  /\ blocked = {} /\ down = FALSE
  /\ answered = [r \in Requests |-> NoOutcome]

At(r, place) == call[r].pc = place
Goto(r, place) == call' = [call EXCEPT ![r] = [pc |-> place, sess |-> @.sess]]
Return(r, out) == Goto(r, "done") /\ answered' = [answered EXCEPT ![r] = out]

\* a session has one worker, so one submit() in flight at a time
Busy(s) == \E r \in Requests : call[r].sess = s /\ ~At(r, "done")

(***************************************************************************)
(* submit(), on the session's worker.                                      *)
(***************************************************************************)
\* mutant: the blocked set is not consulted under the lock
RefusedWhenDown(s) == down

Refused(s) == down \/ s \in blocked

\* the check and the registration are one critical section: denied at once ...
SubmitDenied(r, s) ==
  /\ At(r, "new") /\ ~Busy(s) /\ Refused(s)
  /\ call' = [call EXCEPT ![r] = [pc |-> "done", sess |-> s]]
  /\ answered' = [answered EXCEPT ![r] = Denied]
  /\ UNCHANGED <<pending, resolved, outcome, blocked, down>>

\* ... or entered in pending_
SubmitOpens(r, s) ==
  /\ At(r, "new") /\ ~Busy(s) /\ ~Refused(s)
  /\ call' = [call EXCEPT ![r] = [pc |-> "deliver", sess |-> s]]
  /\ pending' = pending \cup {r}
  /\ UNCHANGED <<resolved, outcome, blocked, down, answered>>

Deliver(r) ==
  /\ At(r, "deliver")
  /\ Goto(r, "wait") \/ (MayFail /\ Goto(r, "failmark"))
  /\ UNCHANGED <<pending, resolved, outcome, blocked, down, answered>>

\* delivery failed: deny the entry unless it was resolved meanwhile ...
FailMark(r) ==
  /\ At(r, "failmark")
  /\ IF resolved[r] THEN UNCHANGED <<resolved, outcome>>
     ELSE /\ resolved' = [resolved EXCEPT ![r] = TRUE]
          /\ outcome' = [outcome EXCEPT ![r] = Denied]
  /\ Goto(r, "failerase")
  /\ UNCHANGED <<pending, blocked, down, answered>>

\* ... and return the denial whatever the entry says
FailErase(r) ==
  /\ At(r, "failerase")
  /\ pending' = pending \ {r}
  /\ Return(r, Denied)
  /\ UNCHANGED <<resolved, outcome, blocked, down>>

\* mutant: a spurious wake-up leaves the wait
WokenAtAll(r) == TRUE

Woken(r) == resolved[r]

\* cv_.wait returns: the worker retires its own entry; a missing one denies
Wake(r) ==
  /\ At(r, "wait")
  /\ \/ /\ r \in pending /\ Woken(r)
        /\ Return(r, outcome[r])
     \/ r \notin pending /\ Return(r, Denied)
  /\ pending' = pending \ {r}
  /\ UNCHANGED <<resolved, outcome, blocked, down>>

(***************************************************************************)
(* resolve() and the cancels, on other threads.                            *)
(***************************************************************************)
\* mutant: a resolved entry may be resolved again
KnownAtAll(r) == r \in pending

Open(r) == r \in pending /\ ~resolved[r]

Decide(r, decision) ==
  /\ resolved' = [resolved EXCEPT ![r] = TRUE]
  /\ outcome' = [outcome EXCEPT ![r] =
       [effect |-> IF decision = "deny" THEN "deny" ELSE "allow", by |-> decision]]

\* mutant: the resolver retires the entry itself
ResolveAndRetire(r, decision) ==
  /\ Open(r) /\ Decide(r, decision)
  /\ pending' = pending \ {r}
  /\ UNCHANGED <<call, blocked, down, answered>>

\* a stale, unknown or duplicate id changes nothing and is not an action
Resolve(r, decision) ==
  /\ Open(r) /\ Decide(r, decision)
  /\ UNCHANGED <<call, pending, blocked, down, answered>>

DenyEach(hit) ==
  /\ resolved' = [r \in Requests |-> resolved[r] \/ r \in hit]
  /\ outcome' = [r \in Requests |-> IF r \in hit THEN Denied ELSE outcome[r]]

\* mutant: entries not yet parked on the condition variable are skipped
DenyParked(S) == DenyEach({r \in pending : call[r].sess \in S /\ At(r, "wait")})

DenyAll(S) == DenyEach({r \in pending : call[r].sess \in S /\ ~resolved[r]})

CancelSession(s) ==
  /\ blocked' = blocked \cup {s}
  /\ DenyAll({s})
  /\ UNCHANGED <<call, pending, down, answered>>

CancelAll ==
  /\ down' = TRUE
  /\ DenyAll(Sessions)
  /\ UNCHANGED <<call, pending, blocked, answered>>

AllowSubmissions(s) ==
  /\ blocked' = blocked \ {s}
  /\ UNCHANGED <<call, pending, resolved, outcome, down, answered>>

\* the window recreated its engine
Reopen ==
  /\ down' = FALSE /\ blocked' = {}
  /\ UNCHANGED <<call, pending, resolved, outcome, answered>>

(***************************************************************************)
(* Specification.                                                          *)
(***************************************************************************)
SubmitStep(r) == Deliver(r) \/ FailMark(r) \/ FailErase(r) \/ Wake(r)

Next ==
  \/ \E r \in Requests, s \in Sessions : SubmitDenied(r, s) \/ SubmitOpens(r, s)
  \/ \E r \in Requests : SubmitStep(r)
  \/ \E r \in Requests, decision \in Decisions : Resolve(r, decision)
  \/ \E s \in Sessions : CancelSession(s) \/ AllowSubmissions(s)
  \/ CancelAll \/ Reopen

Spec == Init /\ [][Next]_vars

\* the worker inside submit() runs when it can; nobody has to answer
FairSpec == Spec /\ \A r \in Requests : WF_vars(SubmitStep(r))

(***************************************************************************)
(* Properties.                                                             *)
(***************************************************************************)
\* Every variable ranges over what the broker's members can hold, and
\* submit() never returns before its request was decided.
TypeOK ==
  /\ call \in [Requests -> CallRec]
  /\ pending \in SUBSET Requests
  /\ resolved \in [Requests -> BOOLEAN]
  /\ outcome \in [Requests -> Verdicts \cup {NoOutcome}]
  /\ blocked \in SUBSET Sessions /\ down \in BOOLEAN
  /\ answered \in [Requests -> Verdicts \cup {NoOutcome}]
  /\ \A r \in Requests : At(r, "done") => answered[r] \in Verdicts

\* Fail closed: submit() returns Allow only for a decision the user made in
\* the window, never out of a race of cancels, failures and wake-ups.
AllowOnlyByUser ==
  \A r \in Requests : answered[r].effect = "allow" => answered[r].by \in {"once", "session"}

\* A cancelled session has no open request: whatever instant a cancel lands
\* at, it either sees the entry or blocks the submit that would register it.
StoppedHasNoneOpen ==
  \A r \in pending : (down \/ call[r].sess \in blocked) => resolved[r]

\* An entry stays in pending_ exactly while its own submit() is inside, so
\* the "retired between delivery and the wait" fallback is never reached and
\* no entry is left behind.
EntryOutlivesWait ==
  \A r \in Requests :
    r \in pending <=> call[r].pc \in {"deliver", "wait", "failmark", "failerase"}

\* "Every request resolves exactly once": a request's outcome never changes,
\* whichever of resolve, a cancel and a failed delivery comes first.
ResolvesOnce ==
  [][\A r \in Requests : resolved[r] => resolved'[r] /\ outcome'[r] = outcome[r]]_vars

\* A cancel releases the worker parked on the session's approval.
CancelReleases ==
  \A r \in Requests :
    (~At(r, "new") /\ (down \/ call[r].sess \in blocked)) ~> At(r, "done")

\* What the engine sees of a request: open until resolved or denied unasked.
VerdictOf(r) ==
  IF At(r, "new") THEN "unasked"
  ELSE IF resolved[r] THEN outcome[r].effect
  ELSE IF r \in pending THEN "open"
  ELSE answered[r].effect

\* The entries implement the contract the engine relies on.
Contract == INSTANCE ApprovalContract WITH
  owner <- [r \in Requests |-> call[r].sess],
  verdict <- [r \in Requests |-> VerdictOf(r)],
  stopped <- IF down THEN Sessions ELSE blocked

ImplementsContract == Contract!Spec
=============================================================================
