------------------------------ MODULE TurnLoop ------------------------------
(***************************************************************************)
(* agentic_loop: the budget of one turn's iterations, the retries of one   *)
(* iteration's request, and the hysteresis of automatic compaction, over   *)
(* several turns of one session.  What the model answers, how large the    *)
(* context is and when the user interrupts are nondeterministic choices.   *)
(***************************************************************************)
EXTENDS Integers

CONSTANTS
  MaxSteps,      \* max_steps of the agent or session
  MaxTodos,      \* bound: completed items of a todo list
  MaxTurns,      \* bound: turns of the session
  Compacting,    \* auto_compact is on and the model's context window is known
  Continues      \* turns may start by continue_session, without a prompt row

ASSUME LoopAssumption ==
  /\ MaxSteps \in Nat \ {0} /\ MaxTodos \in Nat /\ MaxTurns \in Nat
  /\ Compacting \in BOOLEAN /\ Continues \in BOOLEAN

kStepCeilingMultiplier == 4
MaxRetries == 3            \* attempts of the transient-error loop

VARIABLES
  pc,              \* place in the loop
  turns,           \* turns started
  iter,            \* iter
  stepsLeft,       \* steps_left
  ceilingLeft,     \* ceiling_left
  highWater,       \* completed_high_water
  completed,       \* completed items of the stored todo list
  allDone,         \* the stored todo list has items, all of them completed
  lastCompaction,  \* last_compaction_step_
  attempt,         \* transient retries of this iteration's request
  overflowed,      \* the overflow recovery of this iteration was used
  streamed,        \* this iteration's request has produced output
  answer,          \* how the last stream call ended
  leftover,        \* thinking_blocks holds a block of a request that failed
  sent,            \* history: requests of this iteration
  outputs,         \* history: requests of this iteration that showed output
  rearmed,         \* history: the turn began with a prompt row or a retry
  before,          \* history: compactions committed in the iteration before
  here,            \* history: compactions committed in this iteration
  earned,          \* history: items newly completed in this turn
  renewals         \* history: refills of steps_left in this turn

budget == <<iter, stepsLeft, ceilingLeft>>
todos == <<highWater, completed, allDone>>
requestVars == <<attempt, overflowed, streamed, answer, leftover, sent, outputs>>
compaction == <<lastCompaction, rearmed, before, here>>
history == <<earned, renewals>>
vars == <<pc, turns, budget, todos, compaction, requestVars, history>>

\* how a stream call ends: with calls, with an error that may be recovered from,
\* or with the turn (the final answer, or any other error)
StreamEnds == {"none", "tools", "over", "transient", "overflow"}

\* the compactions one iteration committed, by what started them
Tallies == [triggered: Nat, recovered: Nat]
NoCompaction == [triggered |-> 0, recovered |-> 0]

Init ==
  /\ pc = "idle" /\ turns = 0
  /\ iter = 0 /\ stepsLeft = 0 /\ ceilingLeft = 0
  /\ highWater = 0 /\ completed = 0 /\ allDone = FALSE
  /\ lastCompaction = -1
  /\ rearmed = FALSE /\ before = NoCompaction /\ here = NoCompaction
  /\ attempt = 0 /\ overflowed = FALSE /\ streamed = FALSE /\ answer = "none"
  /\ leftover = FALSE /\ sent = 0 /\ outputs = 0
  /\ earned = 0 /\ renewals = 0

(***************************************************************************)
(* Turns.                                                                  *)
(***************************************************************************)
Arm(c, fresh) ==
  /\ pc' = "head" /\ turns' = turns + 1
  /\ rearmed' = fresh /\ before' = NoCompaction /\ here' = NoCompaction
  /\ iter' = 0 /\ stepsLeft' = MaxSteps
  /\ ceilingLeft' = kStepCeilingMultiplier * MaxSteps
  /\ highWater' = c
  /\ earned' = 0 /\ renewals' = 0
  /\ UNCHANGED requestVars

\* mutant: a new prompt does not re-arm the hysteresis
StartPromptStale ==
  /\ pc = "idle" /\ turns < MaxTurns
  /\ Arm(completed, TRUE)
  /\ UNCHANGED <<completed, allDone, lastCompaction>>

\* store_prompt_row re-arms the hysteresis and drops a finished todo list
StartPromptTurn ==
  /\ pc = "idle" /\ turns < MaxTurns
  /\ lastCompaction' = -1
  /\ allDone' = FALSE
  /\ completed' = IF allDone THEN 0 ELSE completed
  /\ Arm(completed', TRUE)

\* retry_last_turn re-arms the hysteresis; the todo list stays
RetryTurn ==
  /\ pc = "idle" /\ 0 < turns /\ turns < MaxTurns
  /\ lastCompaction' = -1
  /\ Arm(completed, TRUE)
  /\ UNCHANGED <<completed, allDone>>

\* continue_session starts the loop on the transcript as it is
ContinueTurn ==
  /\ Continues
  /\ pc = "idle" /\ turns < MaxTurns
  /\ Arm(completed, FALSE)
  /\ UNCHANGED <<completed, allDone, lastCompaction>>

\* parse_plan_tasks and seed_todos: the window installs the approved plan's list
SeedTodos ==
  /\ completed' = 0 /\ allDone' = FALSE
  /\ UNCHANGED <<pc, turns, budget, highWater, compaction, requestVars, history>>

\* mutant: the hard ceiling is not part of the loop condition
StepsRemain == stepsLeft > 0

BudgetRemains == stepsLeft > 0 /\ ceilingLeft > 0

\* the loop condition
LoopHead ==
  /\ pc = "head"
  /\ pc' = IF BudgetRemains THEN "trigger" ELSE "idle"
  /\ UNCHANGED <<turns, budget, todos, compaction, requestVars, history>>

(***************************************************************************)
(* Automatic compaction.                                                   *)
(***************************************************************************)
\* mutant: no gap between two compactions
AnyGap == TRUE

\* should_compact_with_hysteresis, the context being over the threshold
GapReached == lastCompaction < 0 \/ iter - lastCompaction >= 2

Trigger ==
  /\ pc = "trigger"
  /\ pc' = "stream"
  /\ \/ /\ Compacting /\ GapReached /\ lastCompaction' = iter
        /\ here' = [here EXCEPT !.triggered = @ + 1]
     \/ UNCHANGED <<lastCompaction, here>>   \* below the threshold, or not committed
  /\ UNCHANGED <<turns, budget, todos, rearmed, before, requestVars, history>>

(***************************************************************************)
(* The request of one iteration.                                           *)
(***************************************************************************)
\* the locals of a request live as long as its iteration
DropRequest ==
  /\ attempt' = 0 /\ overflowed' = FALSE /\ streamed' = FALSE /\ answer' = "none"
  /\ leftover' = FALSE /\ sent' = 0 /\ outputs' = 0

\* provider->stream: an answer or an error, before or after some output
Stream ==
  /\ pc = "stream"
  /\ answer' \in StreamEnds \ {"none"}
  /\ \E shown \in BOOLEAN : /\ streamed' = (streamed \/ shown)
                             /\ outputs' = outputs + (IF shown THEN 1 ELSE 0)
  /\ sent' = sent + 1
  /\ pc' = "settle"
  /\ UNCHANGED <<turns, budget, todos, compaction, attempt, overflowed, leftover,
                 history>>

\* mutant: a retry does not ask whether output was shown already
RetryAnyway == ~overflowed

\* retried only while no text, reasoning text or call has arrived
MayRetry == ~streamed /\ ~overflowed

\* a thinking block that is a signature only is delivered without any text, does
\* not count as output, and is not among what reset_attempt resets
KeepBlocks == leftover' \in {leftover, TRUE}

RetryTransient ==
  /\ pc = "settle" /\ answer = "transient" /\ MayRetry
  /\ attempt < MaxRetries
  /\ attempt' = attempt + 1 /\ answer' = "none" /\ KeepBlocks
  /\ pc' = "stream"
  /\ UNCHANGED <<turns, budget, todos, compaction, overflowed, streamed, sent,
                 outputs, history>>

\* compact once and ask once more.  This compaction is automatic too, but it
\* neither asks for the gap nor sets the hysteresis.
RetryOverflow ==
  /\ pc = "settle" /\ answer = "overflow" /\ ~streamed /\ ~overflowed
  /\ overflowed' = TRUE /\ answer' = "none" /\ KeepBlocks
  /\ here' = [here EXCEPT !.recovered = @ + 1]
  /\ pc' = "stream"
  /\ UNCHANGED <<turns, budget, todos, lastCompaction, rearmed, before, attempt,
                 streamed, sent, outputs, history>>

\* the turn ends: final answer, error with no recovery left, or interrupted
Settle ==
  /\ pc = "settle"
  /\ answer # "tools"
  /\ pc' = "idle"
  /\ DropRequest
  /\ UNCHANGED <<turns, budget, todos, compaction, history>>

ToTools ==
  /\ pc = "settle" /\ answer = "tools"
  /\ pc' = "tools"
  /\ DropRequest
  /\ UNCHANGED <<turns, budget, todos, compaction, history>>

(***************************************************************************)
(* Tool calls.                                                             *)
(***************************************************************************)
\* mutant: re-completing the same items renews the budget
Improves(c) == c > 0

NewlyCompleted(c) == c > highWater

\* todo_write replaces the list; progress above the mark refills steps_left
TodoWrite ==
  /\ pc = "tools"
  /\ \E c \in 0..MaxTodos :
       /\ completed' = c
       /\ allDone' \in (IF c = 0 THEN {FALSE} ELSE BOOLEAN)
       /\ IF NewlyCompleted(c)
          THEN /\ highWater' = c
               /\ earned' = earned + (IF c > highWater THEN c - highWater ELSE 0)
               /\ stepsLeft' = MaxSteps
               /\ renewals' = renewals + (IF stepsLeft < MaxSteps THEN 1 ELSE 0)
          ELSE UNCHANGED <<highWater, stepsLeft, earned, renewals>>
  /\ UNCHANGED <<pc, turns, iter, ceilingLeft, compaction, requestVars>>

\* mutant: a continue skips the bookkeeping
TailSkipped ==
  /\ pc = "tools"
  /\ pc' = "head"
  /\ UNCHANGED <<turns, budget, todos, compaction, requestVars, history>>

\* end of the batch: the next iteration
LoopTail ==
  /\ pc = "tools"
  /\ pc' = "head"
  /\ stepsLeft' = stepsLeft - 1 /\ ceilingLeft' = ceilingLeft - 1
  /\ iter' = iter + 1
  /\ before' = here /\ here' = NoCompaction
  /\ UNCHANGED <<turns, todos, lastCompaction, rearmed, requestVars, history>>

\* interrupted, a plan proposed, a denial, an exception
LeaveEarly ==
  /\ pc \in {"head", "trigger", "stream", "tools"}
  /\ pc' = "idle"
  /\ DropRequest
  /\ UNCHANGED <<turns, budget, todos, compaction, history>>

(***************************************************************************)
(* Specification.                                                          *)
(***************************************************************************)
InLoop ==
  \/ LoopHead \/ Trigger \/ Stream \/ RetryTransient \/ RetryOverflow \/ Settle
  \/ ToTools \/ LoopTail \/ LeaveEarly

Next == StartPromptTurn \/ RetryTurn \/ ContinueTurn \/ SeedTodos \/ TodoWrite \/ InLoop

Spec == Init /\ [][Next]_vars

\* the worker runs: a stream ends and a batch holds finitely many calls
FairSpec == Spec /\ WF_vars(InLoop)

(***************************************************************************)
(* Properties.                                                             *)
(***************************************************************************)
\* Every variable has its type; iter and ceilingLeft never exceed the ceiling.
TypeOK ==
  /\ pc \in {"idle", "head", "trigger", "stream", "settle", "tools"}
  /\ turns \in Nat
  /\ iter \in Nat /\ stepsLeft \in 0..MaxSteps /\ ceilingLeft \in Nat
  /\ highWater \in Nat /\ completed \in Nat /\ allDone \in BOOLEAN
  /\ lastCompaction \in Nat \cup {-1}
  /\ attempt \in 0..MaxRetries /\ overflowed \in BOOLEAN /\ streamed \in BOOLEAN
  /\ answer \in StreamEnds
  /\ rearmed \in BOOLEAN
  /\ before \in Tallies /\ here \in Tallies
  /\ leftover \in BOOLEAN
  /\ sent \in Nat /\ outputs \in Nat
  /\ earned \in Nat /\ renewals \in Nat

\* "ceiling_left caps the turn at kStepCeilingMultiplier * max_steps
\* iterations no matter what": renewals included.
Ceiling == iter <= kStepCeilingMultiplier * MaxSteps

Allowance(n) == MaxSteps * (1 + n)

\* "Only NEW completions renew": a turn runs max_steps iterations and
\* max_steps more for each renewal, and its renewals are paid for by items
\* completed above the turn's high-water mark, so flip-flopping a status or
\* re-completing the same items cannot prolong a turn.
StepsEarned ==
  /\ iter <= Allowance(renewals)
  /\ renewals <= earned /\ earned <= highWater

\* "retrying would emit them again": however the transient retries and the
\* overflow recovery combine, one iteration shows the output of at most one
\* request, and sends at most the first, three retries and the recovery.
NoReplay == outputs <= 1 /\ sent <= 1 + MaxRetries + 1

Committed(w) == w.triggered + w.recovered

\* "so a tail that remains above threshold doesn't trigger compaction on every
\* single step", and no more than that: two consecutive iterations of a turn
\* commit at most three compactions (the one the hysteresis allows and the
\* recovery of each, which pays no attention to it), and in a turn that began
\* with a prompt row or a retry a step over the threshold is left alone only
\* because the step before it compacted, never for what an earlier turn did.
\* A compaction that is not committed counts for neither side.
CompactionPaced ==
  /\ Committed(before) + Committed(here) <= 3
  /\ (pc = "trigger" /\ rearmed /\ ~GapReached) => before.triggered = 1

\* A turn ends, whatever the model keeps asking for.
TurnEnds == pc # "idle" ~> pc = "idle"

\* "it must never go backwards, or step - last_compaction_step would go
\* negative and silently suppress auto-compaction for the rest of the turn":
\* inside a turn the step counter is never behind the last compaction.
StepNotBehindCompaction == pc # "idle" => iter >= lastCompaction

\* "Finished thinking blocks ... persisted on the assistant row so later
\* tool-loop turns replay them verbatim": the blocks of a row are those of the
\* one answer the row holds.  Not so after a retry: see the README's findings.
BlocksOfOneAttempt == (pc = "settle" /\ answer = "tools") => ~leftover
=============================================================================
