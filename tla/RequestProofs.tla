--------------------------- MODULE RequestProofs ---------------------------
(***************************************************************************)
(* Proofs about the requests of a turn: TurnLoop (its budget and retries)  *)
(* for every max_steps, todo list and number of turns, and Streams (the    *)
(* stream() calls that carry them) for every number of streams and every   *)
(* answer.                                                                 *)
(***************************************************************************)
EXTENDS TurnLoop, Streams, TLAPS

\* past the loop condition both budgets are positive
InBody == pc \in {"trigger", "stream", "settle", "tools"}

\* Ceiling and StepsEarned hold because the counters they
\* speak of trade off against what is left of the two budgets.
LoopInv ==
  /\ TypeOK
  /\ InBody => BudgetRemains
  /\ iter + ceilingLeft <= kStepCeilingMultiplier * MaxSteps
  /\ iter + stepsLeft <= Allowance(renewals)
  /\ renewals <= earned /\ earned <= highWater

LEMMA AllowanceFacts ==
  /\ Allowance(0) = MaxSteps
  /\ \A n \in Nat : /\ Allowance(n) \in Nat
                    /\ Allowance(n + 1) = Allowance(n) + MaxSteps
<1>1. MaxSteps \in Nat
  BY LoopAssumption
<1>2. ASSUME NEW n \in Nat
      PROVE  Allowance(n) \in Nat /\ Allowance(n + 1) = Allowance(n) + MaxSteps
  <2>1. MaxSteps * (1 + (n + 1)) = MaxSteps * (1 + n) + MaxSteps
    BY <1>1
  <2>2. MaxSteps * (1 + n) \in Nat
    BY <1>1
  <2> QED BY <2>1, <2>2 DEF Allowance
<1> QED BY <1>1, <1>2 DEF Allowance

LEMMA CountFacts ==
  /\ NoCompaction \in Tallies
  /\ \A w \in Tallies : /\ [w EXCEPT !.triggered = @ + 1] \in Tallies
                        /\ [w EXCEPT !.recovered = @ + 1] \in Tallies
BY DEF NoCompaction, Tallies

\* dropping a request's locals leaves them in their ranges
LEMMA DropFacts ==
  DropRequest => /\ attempt' \in 0..MaxRetries /\ overflowed' \in BOOLEAN
                 /\ streamed' \in BOOLEAN /\ answer' \in StreamEnds
                 /\ leftover' \in BOOLEAN /\ sent' \in Nat /\ outputs' \in Nat
<1> SUFFICES ASSUME DropRequest
             PROVE  /\ attempt' \in 0..MaxRetries /\ overflowed' \in BOOLEAN
                    /\ streamed' \in BOOLEAN /\ answer' \in StreamEnds
                    /\ leftover' \in BOOLEAN /\ sent' \in Nat /\ outputs' \in Nat
  OBVIOUS
<1>1. attempt' \in 0..MaxRetries /\ sent' \in Nat /\ outputs' \in Nat
  BY DEF DropRequest, MaxRetries
<1>2. overflowed' \in BOOLEAN /\ streamed' \in BOOLEAN /\ leftover' \in BOOLEAN
  BY DEF DropRequest
<1>3. answer' \in StreamEnds
  BY DEF DropRequest, StreamEnds
<1> QED BY <1>1, <1>2, <1>3

LEMMA LoopInvInit == Init => LoopInv
<1> SUFFICES ASSUME Init PROVE LoopInv
  OBVIOUS
<1>1. TypeOK
  <2>1. /\ allDone \in BOOLEAN /\ overflowed \in BOOLEAN /\ streamed \in BOOLEAN
        /\ answer \in StreamEnds /\ leftover \in BOOLEAN /\ rearmed \in BOOLEAN
    BY DEF Init, StreamEnds
  <2>2. attempt \in 0..MaxRetries /\ stepsLeft \in 0..MaxSteps
    BY LoopAssumption DEF Init, MaxRetries
  <2>3. lastCompaction \in Nat \cup {-1}
    BY DEF Init
  <2>4. before \in Tallies /\ here \in Tallies
    BY CountFacts DEF Init
  <2> QED BY <2>1, <2>2, <2>3, <2>4 DEF Init, TypeOK
<1>2. ~InBody /\ renewals <= earned /\ earned <= highWater
  BY DEF Init, InBody
<1>3. iter + ceilingLeft <= kStepCeilingMultiplier * MaxSteps
  BY LoopAssumption DEF Init, kStepCeilingMultiplier
<1>4. iter + stepsLeft <= Allowance(renewals)
  BY LoopAssumption, AllowanceFacts DEF Init
<1> QED BY <1>1, <1>2, <1>3, <1>4 DEF LoopInv

LEMMA LoopInvNext == LoopInv /\ [Next]_vars => LoopInv'
<1> SUFFICES ASSUME LoopInv, [Next]_vars PROVE LoopInv'
  OBVIOUS
<1> USE LoopAssumption, AllowanceFacts, CountFacts DEF LoopInv, TypeOK, InBody, BudgetRemains,
        kStepCeilingMultiplier, StreamEnds, MaxRetries, budget, todos, requestVars, compaction,
        history
<1>1. CASE StartPromptTurn
  <2>1. allDone' \in BOOLEAN /\ completed' \in Nat
    BY <1>1 DEF StartPromptTurn
  <2>2. lastCompaction' = -1 /\ Arm(completed', TRUE)
    BY <1>1 DEF StartPromptTurn
  <2> QED BY <2>1, <2>2 DEF Arm
<1>7. CASE RetryTurn
  BY <1>7 DEF RetryTurn, Arm
<1>2. CASE ContinueTurn
  <2>1. rearmed' \in BOOLEAN
    BY <1>2 DEF ContinueTurn, Arm
  <2> QED BY <1>2, <2>1 DEF ContinueTurn, Arm
<1>3. CASE SeedTodos
  <2>1. completed' = 0 /\ allDone' \in BOOLEAN
    BY <1>3 DEF SeedTodos
  <2> QED BY <1>3, <2>1 DEF SeedTodos
<1>4. CASE TodoWrite
  <2> DEFINE Written(c) ==
        /\ completed' = c
        /\ allDone' \in (IF c = 0 THEN {FALSE} ELSE BOOLEAN)
        /\ IF NewlyCompleted(c)
           THEN /\ highWater' = c
                /\ earned' = earned + (IF c > highWater THEN c - highWater ELSE 0)
                /\ stepsLeft' = MaxSteps
                /\ renewals' = renewals + (IF stepsLeft < MaxSteps THEN 1 ELSE 0)
           ELSE UNCHANGED <<highWater, stepsLeft, earned, renewals>>
  <2>a. PICK c \in 0..MaxTodos : Written(c)
    BY <1>4 DEF TodoWrite
  <2>b. Written(c)
    BY <2>a
  <2>1. UNCHANGED <<pc, turns, iter, ceilingLeft, compaction, requestVars>>
    BY <1>4 DEF TodoWrite
  <2>2. c \in Nat
    OBVIOUS
  <2>c. completed' \in Nat /\ allDone' \in BOOLEAN
    BY <2>2, <2>b
  <2>d. IF NewlyCompleted(c)
        THEN /\ highWater' = c
             /\ earned' = earned + (IF c > highWater THEN c - highWater ELSE 0)
             /\ stepsLeft' = MaxSteps
             /\ renewals' = renewals + (IF stepsLeft < MaxSteps THEN 1 ELSE 0)
        ELSE UNCHANGED <<highWater, stepsLeft, earned, renewals>>
    BY <2>b
  <2> HIDE DEF Written
  <2>3. CASE ~NewlyCompleted(c)
    BY <2>1, <2>2, <2>3, <2>c, <2>d
  <2>4. CASE NewlyCompleted(c) /\ stepsLeft < MaxSteps
    <3>1. Allowance(renewals + 1) = Allowance(renewals) + MaxSteps
      OBVIOUS
    <3>2. renewals' = renewals + 1 /\ highWater' = c /\ stepsLeft' = MaxSteps
      BY <2>2, <2>4, <2>c, <2>d
    <3>3. renewals' <= earned' /\ earned' <= highWater' /\ earned' \in Nat
      BY <2>2, <2>4, <2>c, <2>d DEF NewlyCompleted
    <3> QED BY <2>1, <2>2, <2>4, <3>1, <3>2, <3>3, <2>c, <2>d
  <2>5. CASE NewlyCompleted(c) /\ stepsLeft = MaxSteps
    BY <2>1, <2>2, <2>5, <2>c, <2>d DEF NewlyCompleted
  <2> QED BY <2>3, <2>4, <2>5
<1>5. CASE InLoop
  <2>1. CASE LoopHead BY <2>1 DEF LoopHead
  <2>2. CASE Trigger
    <3>1. lastCompaction' \in Nat \cup {-1} /\ here' \in Tallies
      BY <2>2 DEF Trigger
    <3>2. /\ pc' = "stream" /\ pc = "trigger"
          /\ UNCHANGED <<turns, budget, todos, rearmed, before, requestVars, history>>
      BY <2>2 DEF Trigger
    <3> QED BY <3>1, <3>2
  <2>3. CASE Stream BY <2>3 DEF Stream
  <2>4. CASE RetryTransient
    <3>1. leftover' \in BOOLEAN /\ answer' \in StreamEnds
      BY <2>4 DEF RetryTransient, KeepBlocks
    <3> QED BY <2>4, <3>1 DEF RetryTransient
  <2>5. CASE RetryOverflow
    <3>1. leftover' \in BOOLEAN /\ answer' \in StreamEnds
      BY <2>5 DEF RetryOverflow, KeepBlocks
    <3> QED BY <2>5, <3>1 DEF RetryOverflow
  <2>6. CASE Settle
    <3>1. /\ pc' = "idle"
          /\ UNCHANGED <<turns, budget, todos, compaction, history>>
      BY <2>6 DEF Settle
    <3>2. DropRequest
      BY <2>6 DEF Settle
    <3>3. TypeOK'
      BY <3>1, <3>2, DropFacts
    <3> QED BY <3>1, <3>3
  <2>7. CASE ToTools
    <3>1. /\ pc = "settle" /\ pc' = "tools"
          /\ UNCHANGED <<turns, budget, todos, compaction, history>>
      BY <2>7 DEF ToTools
    <3>2. DropRequest
      BY <2>7 DEF ToTools
    <3>3. TypeOK'
      BY <3>1, <3>2, DropFacts
    <3> QED BY <3>1, <3>3
  <2>8. CASE LoopTail BY <2>8 DEF LoopTail
  <2>9. CASE LeaveEarly
    <3>1. /\ pc' = "idle"
          /\ UNCHANGED <<turns, budget, todos, compaction, history>>
      BY <2>9 DEF LeaveEarly
    <3>2. DropRequest
      BY <2>9 DEF LeaveEarly
    <3>3. TypeOK'
      BY <3>1, <3>2, DropFacts
    <3> QED BY <3>1, <3>3
  <2> QED BY <1>5, <2>1, <2>2, <2>3, <2>4, <2>5, <2>6, <2>7, <2>8, <2>9 DEF InLoop
<1>6. CASE UNCHANGED vars
  BY <1>6 DEF vars
<1> QED BY <1>1, <1>2, <1>3, <1>4, <1>5, <1>6, <1>7 DEF Next

\* The counters of agentic_loop stay in their ranges.
THEOREM LoopTypeCorrect == Spec => []TypeOK
<1>1. LoopInv => TypeOK BY DEF LoopInv
<1> QED BY <1>1, LoopInvInit, LoopInvNext, PTL DEF Spec

\* No turn exceeds four times max_steps iterations, however often the model
\* renews its budget.
THEOREM CeilingHolds == Spec => []Ceiling
<1>1. LoopInv => Ceiling
  BY LoopAssumption DEF LoopInv, TypeOK, Ceiling, kStepCeilingMultiplier
<1> QED BY <1>1, LoopInvInit, LoopInvNext, PTL DEF Spec

\* A turn's length is paid for by the items it newly completed.
THEOREM StepsEarnedHolds == Spec => []StepsEarned
<1>1. LoopInv => StepsEarned
  BY LoopAssumption, AllowanceFacts DEF LoopInv, TypeOK, StepsEarned
<1> QED BY <1>1, LoopInvInit, LoopInvNext, PTL DEF Spec

\* NoReplay: whenever a request is about to be sent nothing was shown yet, and
\* every request already sent was paid for by a retry or the recovery.
RequestInv ==
  /\ outputs <= (IF streamed THEN 1 ELSE 0)
  /\ pc # "settle" => ~streamed
  /\ sent <= (IF pc = "settle" THEN 1 ELSE 0) + attempt + (IF overflowed THEN 1 ELSE 0)

LEMMA RequestInvNext == LoopInv /\ RequestInv /\ [Next]_vars => RequestInv'
<1> SUFFICES ASSUME LoopInv, RequestInv, [Next]_vars PROVE RequestInv'
  OBVIOUS
<1>1. attempt \in Nat /\ sent \in Nat /\ outputs \in Nat
  BY DEF LoopInv, TypeOK, MaxRetries
<1>2. CASE StartPromptTurn \/ RetryTurn \/ ContinueTurn
  BY <1>1, <1>2 DEF StartPromptTurn, RetryTurn, ContinueTurn, Arm, requestVars, RequestInv
<1>3. CASE SeedTodos \/ TodoWrite
  <2>1. UNCHANGED <<pc, requestVars>>
    BY <1>3 DEF SeedTodos, TodoWrite
  <2> QED BY <2>1 DEF requestVars, RequestInv
<1>4. CASE LoopHead \/ LoopTail \/ Trigger
  BY <1>1, <1>4 DEF LoopHead, LoopTail, Trigger, requestVars, RequestInv
<1>5. CASE Settle \/ ToTools \/ LeaveEarly
  BY <1>1, <1>5 DEF Settle, ToTools, LeaveEarly, DropRequest, RequestInv
<1>6. CASE Stream
  BY <1>1, <1>6 DEF Stream, RequestInv
<1>7. CASE RetryTransient
  BY <1>1, <1>7 DEF RetryTransient, MayRetry, RequestInv
<1>8. CASE RetryOverflow
  BY <1>1, <1>8 DEF RetryOverflow, RequestInv
<1>9. CASE UNCHANGED vars
  BY <1>1, <1>9 DEF vars, requestVars, RequestInv
<1> QED BY <1>2, <1>3, <1>4, <1>5, <1>6, <1>7, <1>8, <1>9 DEF Next, InLoop

\* Retries never replay output, and one iteration sends at most five requests.
THEOREM NoReplayHolds == Spec => []NoReplay
<1>1. Init => RequestInv
  BY DEF Init, RequestInv
<1>2. LoopInv /\ RequestInv => NoReplay
  BY DEF LoopInv, TypeOK, RequestInv, NoReplay, MaxRetries
<1> QED BY <1>1, <1>2, LoopInvInit, LoopInvNext, RequestInvNext, PTL DEF Spec

\* The compactions a turn commits: where each one left lastCompaction, and that
\* an iteration commits at most one of each kind.
PaceInv ==
  /\ before.triggered <= 1 /\ before.recovered <= 1
  /\ here.triggered <= 1 /\ here.recovered <= 1
  /\ pc \in {"head", "trigger"} => here.triggered = 0 /\ here.recovered = 0
  /\ (pc \in {"stream", "settle"} /\ ~overflowed) => here.recovered = 0
  /\ here.triggered = 1 => lastCompaction = iter
  /\ before.triggered = 1
       => lastCompaction >= 0 /\ lastCompaction = iter - 1 /\ here.triggered = 0
  /\ rearmed => /\ lastCompaction <= iter
                /\ lastCompaction = iter => here.triggered = 1
                /\ (lastCompaction >= 0 /\ lastCompaction = iter - 1)
                     => before.triggered = 1

LEMMA PaceFacts ==
  ASSUME LoopInv
  PROVE  /\ iter \in Nat /\ lastCompaction \in Int /\ lastCompaction >= -1
         /\ before.triggered \in Nat /\ before.recovered \in Nat
         /\ here.triggered \in Nat /\ here.recovered \in Nat
         /\ here = [triggered |-> here.triggered, recovered |-> here.recovered]
BY DEF LoopInv, TypeOK, Tallies

LEMMA PaceArm ==
  ASSUME pc' = "head", iter' = 0, before' = NoCompaction, here' = NoCompaction,
         rearmed' => lastCompaction' = -1
  PROVE  PaceInv'
BY DEF PaceInv, NoCompaction

LEMMA PaceInvNext == LoopInv /\ PaceInv /\ [Next]_vars => PaceInv'
<1> SUFFICES ASSUME LoopInv, PaceInv, [Next]_vars PROVE PaceInv'
  OBVIOUS
<1>0. /\ iter \in Nat /\ lastCompaction \in Int /\ lastCompaction >= -1
      /\ before.triggered \in Nat /\ before.recovered \in Nat
      /\ here.triggered \in Nat /\ here.recovered \in Nat
      /\ here = [triggered |-> here.triggered, recovered |-> here.recovered]
  BY PaceFacts
<1>1. CASE StartPromptTurn \/ RetryTurn \/ ContinueTurn
  BY <1>1, PaceArm DEF StartPromptTurn, RetryTurn, ContinueTurn, Arm
<1>2. CASE SeedTodos \/ TodoWrite
  <2>1. UNCHANGED <<pc, iter, compaction, overflowed>>
    BY <1>2 DEF SeedTodos, TodoWrite, budget, requestVars
  <2> QED BY <2>1 DEF compaction, PaceInv
<1>3. CASE LoopHead
  BY <1>0, <1>3 DEF LoopHead, compaction, budget, requestVars, PaceInv
<1>4. CASE Trigger
  <2>1. /\ pc = "trigger" /\ pc' = "stream"
        /\ UNCHANGED <<iter, rearmed, before, overflowed>>
    BY <1>4 DEF Trigger, budget, requestVars
  <2>2. CASE UNCHANGED <<lastCompaction, here>>
    BY <1>0, <2>1, <2>2 DEF PaceInv
  <2>3. CASE GapReached /\ lastCompaction' = iter
             /\ here' = [here EXCEPT !.triggered = @ + 1]
    <3>1. here'.triggered = 1 /\ here'.recovered = 0
      BY <1>0, <2>1, <2>3 DEF PaceInv
    <3>2. before.triggered = 0
      BY <1>0, <2>3 DEF PaceInv, GapReached
    <3> QED BY <1>0, <2>1, <2>3, <3>1, <3>2 DEF PaceInv
  <2> QED BY <1>4, <2>2, <2>3 DEF Trigger
<1>5. CASE Stream \/ RetryTransient
  BY <1>0, <1>5 DEF Stream, RetryTransient, compaction, budget, PaceInv
<1>6. CASE RetryOverflow
  <2>1. here'.triggered = here.triggered /\ here'.recovered = 1
    BY <1>0, <1>6 DEF RetryOverflow, PaceInv
  <2> QED BY <1>0, <1>6, <2>1 DEF RetryOverflow, budget, PaceInv
<1>7. CASE Settle \/ ToTools \/ LeaveEarly
  BY <1>0, <1>7 DEF Settle, ToTools, LeaveEarly, compaction, budget, PaceInv
<1>8. CASE LoopTail
  <2>1. /\ pc' = "head" /\ iter' = iter + 1 /\ before' = here
        /\ here'.triggered = 0 /\ here'.recovered = 0
        /\ UNCHANGED <<lastCompaction, rearmed>>
    BY <1>8 DEF LoopTail, NoCompaction
  <2> QED BY <1>0, <2>1 DEF PaceInv
<1>9. CASE UNCHANGED vars
  BY <1>9 DEF vars, compaction, budget, requestVars, PaceInv
<1> QED BY <1>1, <1>2, <1>3, <1>4, <1>5, <1>6, <1>7, <1>8, <1>9 DEF Next, InLoop

\* Two consecutive iterations commit at most three compactions, recoveries
\* included, and the hysteresis holds a step back only for the one before it.
THEOREM CompactionPacedHolds == Spec => []CompactionPaced
<1>1. Init => PaceInv
  BY DEF Init, NoCompaction, PaceInv
<1>2. LoopInv /\ PaceInv => CompactionPaced
  <2> SUFFICES ASSUME LoopInv, PaceInv PROVE CompactionPaced
    OBVIOUS
  <2> QED BY PaceFacts DEF PaceInv, CompactionPaced, Committed, GapReached
<1> QED BY <1>1, <1>2, LoopInvInit, LoopInvNext, PaceInvNext, PTL DEF Spec

(***************************************************************************)
(* Streams: what each place of stream() knows of its answer.               *)
(***************************************************************************)
Phases == {"idle", "ready", "signed", "inflight", "returned", "gone"}
Codes == {NoCode, Fine, Denied, Broken, NoTransport}
Reasons == {"EndTurn", "ToolUse", "MaxTokens", "none"}

BodyRec == [texts: Nat, calls: Seq(Nat), open: BOOLEAN, whole: BOOLEAN, limited: BOOLEAN,
            closed: BOOLEAN, events: Nat]
ParseRec == [texts: Nat, open: Nat, calls: Seq(Nat), reason: Reasons]
ReportRec == [how: {"error", "sign-in", "finish"}, texts: Nat, calls: Seq(BOOLEAN),
              reason: Reasons]
FlowRec == [phase: Phases, token: Tokens \cup {NoEvent}, flag: BOOLEAN, cancelled: BOOLEAN,
            part: Events \cup {NoEvent}, parse: ParseRec, code: Codes, attempt: 0..1,
            errored: BOOLEAN, reports: Seq(ReportRec), late: BOOLEAN]

\* what a server can have sent, and the event that is on its way
BodyOK(s, f, b) ==
  /\ b.open => b.calls # <<>>
  /\ b.whole => ~b.open
  /\ b.events <= SendBound[s]
  /\ f.part # NoEvent => f.phase = "inflight" /\ MayFollow(b, f.part) /\ b.events < SendBound[s]

\* the token limit is told from any other end
ReasonOK(p, b) == (p.reason = "MaxTokens") <=> b.limited

\* the texts and calls of the parse state are those of the answer
Carries(kind, p, b) ==
  /\ p.texts = b.texts
  /\ kind # "anthropic" => p.calls = b.calls
  /\ kind = "anthropic" =>
       /\ Len(p.calls) = IF b.open THEN Len(b.calls) - 1 ELSE Len(b.calls)
       /\ \A i \in 1..Len(p.calls) : p.calls[i] = b.calls[i]
       /\ b.open => p.open = PiecesOfLast(b)

\* the parse state is what the answer comes to
Agree(kind, p, b) == Carries(kind, p, b) /\ ReasonOK(p, b)

\* a report is true
Told(r, b, s, blamed) ==
  IF r.how = "finish"
  THEN /\ r.texts = b.texts /\ ReasonOK(r, b)
       /\ b.whole => r.calls = [i \in DOMAIN b.calls |-> TRUE]
       /\ \A i \in DOMAIN r.calls : r.calls[i] => i < Len(b.calls) \/ ~b.open
  ELSE s \in blamed

\* what a stream has at its place
PlaceOK(kind, s, f, b, blamed) ==
  /\ f.phase = "idle" => f = NoFlow
  /\ f.cancelled => f.flag /\ f.phase = "inflight"
  /\ f.errored => f.phase = "returned" /\ f.code = Fine
  /\ ~f.late
  /\ f.phase \notin {"returned", "gone"} => f.reports = <<>>
  /\ f.phase = "inflight" => f.code = NoCode /\ Agree(kind, f.parse, b)
  /\ f.phase = "returned" =>
       /\ IF f.errored THEN Len(f.reports) = 1 ELSE f.reports = <<>>
       /\ f.code # NoCode /\ (~f.flag /\ f.code # Fine => s \in blamed)
       /\ ~f.flag /\ ~f.errored /\ f.code = Fine => Agree(kind, f.parse, b)
  /\ f.phase = "gone" => IF f.flag THEN Len(f.reports) <= 1 ELSE Len(f.reports) = 1
  /\ \A i \in 1..Len(f.reports) : Told(f.reports[i], b, s, blamed)

FlowOK(kind, s, f, b, blamed) ==
  f \in FlowRec /\ b \in BodyRec /\ BodyOK(s, f, b) /\ PlaceOK(kind, s, f, b, blamed)

StreamInv ==
  /\ provider \in ProviderKinds /\ caused \subseteq Flows
  /\ flow = [s \in Flows |-> flow[s]] /\ server = [s \in Flows |-> server[s]]
  /\ \A s \in Flows : FlowOK(provider, s, flow[s], server[s], caused)

LEMMA BlamedGrows ==
  ASSUME NEW kind, NEW s, NEW f, NEW b, NEW less, NEW more, less \subseteq more,
         FlowOK(kind, s, f, b, less)
  PROVE  FlowOK(kind, s, f, b, more)
<1>1. \A r : Told(r, b, s, less) => Told(r, b, s, more)
  BY DEF Told
<1> QED BY <1>1 DEF FlowOK, PlaceOK

\* a step of one stream leaves the others what they were
LEMMA OneMoves ==
  ASSUME StreamInv, NEW s \in Flows, NEW f, NEW b, NEW blamed,
         caused \subseteq blamed, blamed \subseteq Flows, FlowOK(provider, s, f, b, blamed),
         flow' = [flow EXCEPT ![s] = f], server' = [server EXCEPT ![s] = b],
         caused' = blamed, provider' = provider
  PROVE  StreamInv'
<1>1. flow' = [r \in Flows |-> IF r = s THEN f ELSE flow[r]]
  BY DEF StreamInv
<1>2. server' = [r \in Flows |-> IF r = s THEN b ELSE server[r]]
  BY DEF StreamInv
<1>3. ASSUME NEW r \in Flows PROVE FlowOK(provider, r, flow'[r], server'[r], blamed)
  <2>1. CASE r = s
    BY <1>1, <1>2, <2>1
  <2>2. CASE r # s
    <3>1. flow'[r] = flow[r] /\ server'[r] = server[r]
      BY <1>1, <1>2, <2>2
    <3>2. FlowOK(provider, r, flow[r], server[r], caused)
      BY DEF StreamInv
    <3> QED BY <3>1, <3>2, BlamedGrows
  <2> QED BY <2>1, <2>2
<1>4. flow' = [r \in Flows |-> flow'[r]] /\ server' = [r \in Flows |-> server'[r]]
  BY <1>1, <1>2
<1>5. provider' \in ProviderKinds /\ caused' \subseteq Flows
  BY DEF StreamInv
<1>6. (\A r \in Flows : FlowOK(provider, r, flow[r], server[r], caused))'
  BY <1>3
<1> QED BY <1>4, <1>5, <1>6 DEF StreamInv

LEMMA ServerKept ==
  ASSUME StreamInv, NEW s \in Flows PROVE server = [server EXCEPT ![s] = server[s]]
BY DEF StreamInv

LEMMA CodeFacts ==
  /\ Fine # NoCode /\ NoTransport # NoCode /\ Denied # NoCode /\ Broken # NoCode
  /\ Fine # Denied /\ Fine # Broken /\ Fine # NoTransport
  /\ ~(Fine >= 400) /\ ~(NoTransport >= 400) /\ Denied >= 400 /\ Broken >= 400
  /\ Codes \subseteq Int
BY DEF Fine, NoCode, NoTransport, Denied, Broken, Codes

LEMMA EventFacts == NoEvent \notin Events
BY DEF NoEvent, Events

LEMMA StartFacts ==
  /\ NoParse \in ParseRec /\ NoParse.texts = 0 /\ NoParse.calls = <<>> /\ NoParse.open = 0
  /\ Nothing \in BodyRec /\ Nothing.texts = 0 /\ Nothing.calls = <<>> /\ ~Nothing.open
  /\ ~Nothing.whole /\ ~Nothing.limited /\ Nothing.events = 0 /\ NoParse.reason = "EndTurn"
<1>1. <<>> \in Seq(Nat)
  OBVIOUS
<1> QED BY <1>1 DEF NoParse, ParseRec, Reasons, Nothing, BodyRec

LEMMA NoFlowFacts ==
  /\ NoFlow \in FlowRec /\ NoFlow.phase = "idle" /\ ~NoFlow.flag /\ ~NoFlow.cancelled
  /\ NoFlow.part = NoEvent /\ ~NoFlow.errored /\ NoFlow.reports = <<>> /\ ~NoFlow.late
<1>1. PICK z \in 0..1 : z = 0
  OBVIOUS
<1>2. NoFlow = [phase |-> "idle", token |-> NoEvent, flag |-> FALSE, cancelled |-> FALSE,
           part |-> NoEvent, parse |-> NoParse, code |-> NoCode, attempt |-> z,
           errored |-> FALSE, reports |-> <<>>, late |-> FALSE]
  BY <1>1 DEF NoFlow
<1>3. <<>> \in Seq(ReportRec)
  OBVIOUS
<1>4. NoCode \in Codes /\ "idle" \in Phases
  BY DEF Codes, Phases
<1> QED BY <1>2, <1>3, <1>4, StartFacts DEF FlowRec

LEMMA NothingAgrees ==
  ASSUME NEW kind PROVE Agree(kind, NoParse, Nothing)
BY StartFacts DEF Agree, Carries, ReasonOK

LEMMA InitStreams == StreamInit => StreamInv
<1> SUFFICES ASSUME StreamInit PROVE StreamInv
  OBVIOUS
<1>1. ASSUME NEW s \in Flows PROVE FlowOK(provider, s, NoFlow, Nothing, caused)
  <2>1. BodyOK(s, NoFlow, Nothing)
    BY NoFlowFacts, StartFacts, StreamsAssumption DEF BodyOK
  <2>2. PlaceOK(provider, s, NoFlow, Nothing, caused)
    BY NoFlowFacts DEF PlaceOK
  <2> QED BY <2>1, <2>2, NoFlowFacts, StartFacts DEF FlowOK
<1> QED BY <1>1 DEF StreamInit, StreamInv

LEMMA OpenKeeps ==
  ASSUME StreamInv, NEW s \in Flows, Open(s) PROVE StreamInv'
<1>1. FlowOK(provider, s, flow[s], server[s], caused)
  BY DEF StreamInv
<1>2. PICK t \in Tokens : flow' = [flow EXCEPT ![s] = [flow[s] EXCEPT !.phase = "ready", !.token = t]]
  BY DEF Open
<1>3. PICK f : f = [flow[s] EXCEPT !.phase = "ready", !.token = t]
  OBVIOUS
<1>4. f \in FlowRec /\ f.phase = "ready" /\ f.flag = flow[s].flag /\ f.cancelled = flow[s].cancelled
      /\ f.part = flow[s].part /\ f.errored = flow[s].errored /\ f.reports = flow[s].reports
      /\ f.late = flow[s].late
  BY <1>1, <1>3 DEF FlowOK, FlowRec, Phases
<1>5. FlowOK(provider, s, f, server[s], caused)
  BY <1>1, <1>4 DEF FlowOK, BodyOK, PlaceOK, Open
<1> QED BY <1>2, <1>3, <1>5, ServerKept, OneMoves DEF Open, StreamInv

LEMMA PostKeeps ==
  ASSUME StreamInv, NEW s \in Flows, PostSSE(s) PROVE StreamInv'
<1>1. FlowOK(provider, s, flow[s], server[s], caused)
  BY DEF StreamInv
<1>2. flow[s].phase \in {"ready", "signed"}
  BY DEF PostSSE
<1>3. PICK f : f = [flow[s] EXCEPT !.phase = "inflight", !.code = NoCode, !.parse = NoParse]
  OBVIOUS
<1>4. f \in FlowRec /\ f.phase = "inflight" /\ f.code = NoCode /\ f.parse = NoParse
      /\ f.flag = flow[s].flag /\ f.cancelled = flow[s].cancelled /\ f.part = flow[s].part
      /\ f.errored = flow[s].errored /\ f.reports = flow[s].reports /\ f.late = flow[s].late
  BY <1>1, <1>3, StartFacts DEF FlowOK, FlowRec, Phases, Codes
<1>5. flow[s].part = NoEvent /\ ~flow[s].errored /\ flow[s].reports = <<>>
  BY <1>1, <1>2 DEF FlowOK, BodyOK, PlaceOK
<1>6. FlowOK(provider, s, f, Nothing, caused)
  <2>1. BodyOK(s, f, Nothing)
    BY <1>4, <1>5, StartFacts, StreamsAssumption DEF BodyOK
  <2>2. PlaceOK(provider, s, f, Nothing, caused)
    BY <1>1, <1>4, <1>5, NothingAgrees DEF FlowOK, PlaceOK
  <2> QED BY <1>4, <2>1, <2>2, StartFacts DEF FlowOK
<1> QED BY <1>3, <1>6, OneMoves DEF PostSSE, StreamInv

LEMMA Unflagged ==
  ASSUME NEW f \in FlowRec, ~f.flag, ~f.cancelled
  PROVE  [f EXCEPT !.flag = FALSE, !.cancelled = FALSE] = f
BY DEF FlowRec

\* a cancel raises flags; a transfer it aborts is of a stream it matched
LEMMA CancelKeeps ==
  ASSUME StreamInv, NEW t \in Tokens \cup {Sweep}, Cancel(t) PROVE StreamInv'
<1> DEFINE hit == IF t = Sweep THEN Registered ELSE Matching(t)
           now(r) == [flow[r] EXCEPT !.flag = @ \/ r \in hit,
                        !.cancelled = @ \/ (StopsTransfers(t) /\ r \in Inflight)]
<1>1. flow' = [r \in Flows |-> now(r)]
  BY DEF Cancel
<1>2. ASSUME NEW r \in Flows PROVE FlowOK(provider, r, now(r), server[r], caused)
  <2>1. FlowOK(provider, r, flow[r], server[r], caused)
    BY DEF StreamInv
  <2>2. PICK flagged \in BOOLEAN : flagged <=> flow[r].flag \/ r \in hit
    OBVIOUS
  <2>3. PICK aborted \in BOOLEAN :
          aborted <=> flow[r].cancelled \/ (StopsTransfers(t) /\ r \in Inflight)
    OBVIOUS
  <2>4. flow[r].flag \in BOOLEAN /\ flow[r].cancelled \in BOOLEAN
    BY <2>1 DEF FlowOK, FlowRec
  <2>5. now(r) = [flow[r] EXCEPT !.flag = flagged, !.cancelled = aborted]
    <3>1. (flow[r].flag \/ r \in hit) = flagged
      BY <2>2, <2>4, Zenon
    <3>2. (flow[r].cancelled \/ (StopsTransfers(t) /\ r \in Inflight)) = aborted
      BY <2>3, <2>4, Zenon
    <3> HIDE DEF hit
    <3> QED BY <3>1, <3>2, Zenon
  <2>6. PICK f : f = now(r)
    OBVIOUS
  <2>7. f \in FlowRec /\ f.phase = flow[r].phase /\ f.flag = flagged /\ f.cancelled = aborted
        /\ f.part = flow[r].part /\ f.code = flow[r].code /\ f.parse = flow[r].parse
        /\ f.errored = flow[r].errored /\ f.reports = flow[r].reports /\ f.late = flow[r].late
    <3> HIDE DEF now, hit
    <3> QED BY <2>1, <2>5, <2>6 DEF FlowOK, FlowRec
  <2>8. flow[r].phase = "idle" => f = NoFlow
    <3>1. flow[r].phase = "idle" => flow[r] = NoFlow /\ ~flagged /\ ~aborted
      BY <2>1, <2>2, <2>3, NoFlowFacts DEF FlowOK, PlaceOK, Registered, Matching, Inflight
    <3>2. flow[r] \in FlowRec
      BY <2>1 DEF FlowOK
    <3>3. ASSUME flow[r].phase = "idle" PROVE f = NoFlow
      <4>1. flow[r] = NoFlow /\ flagged = FALSE /\ aborted = FALSE
        BY <3>1, <3>3
      <4>2. f = [NoFlow EXCEPT !.flag = FALSE, !.cancelled = FALSE]
        <5> HIDE DEF now, hit
        <5> QED BY <2>5, <2>6, <4>1
      <4> QED BY <4>2, Unflagged, NoFlowFacts
    <3> QED BY <3>3
  <2>9. aborted => flagged /\ flow[r].phase = "inflight"
    <3>1. StopsTransfers(t) /\ r \in Inflight => r \in hit
      BY DEF StopsTransfers, Registered, Inflight
    <3> QED BY <2>1, <2>2, <2>3, <3>1 DEF FlowOK, PlaceOK, Inflight
  <2>10. (flow[r].flag => flagged) /\ (flagged /\ ~flow[r].flag => flow[r].phase # "idle")
    BY <2>2, NoFlowFacts DEF Registered, Matching
  <2>11. BodyOK(r, f, server[r])
    BY <2>1, <2>7 DEF FlowOK, BodyOK
  <2>12. PlaceOK(provider, r, f, server[r], caused)
    <3>1. PlaceOK(provider, r, flow[r], server[r], caused)
      BY <2>1 DEF FlowOK
    <3> HIDE DEF now, hit
    <3> QED BY <2>4, <2>7, <2>8, <2>9, <2>10, <3>1 DEF PlaceOK
  <2> QED BY <2>1, <2>6, <2>7, <2>11, <2>12 DEF FlowOK
<1>3. flow' = [r \in Flows |-> flow'[r]] /\ \A r \in Flows : flow'[r] = now(r)
  <2> HIDE DEF now
  <2> QED BY <1>1
<1>4. server' = server /\ provider' = provider /\ caused' = caused
  BY DEF Cancel
<1>5. \A r \in Flows : FlowOK(provider, r, flow'[r], server[r], caused)
  <2> HIDE DEF now
  <2> QED BY <1>2, <1>3
<1> QED BY <1>3, <1>4, <1>5 DEF StreamInv

LEMMA ChunkKeeps ==
  ASSUME StreamInv, NEW s \in Flows, Chunk(s) PROVE StreamInv'
<1>1. FlowOK(provider, s, flow[s], server[s], caused)
  BY DEF StreamInv
<1>2. PICK e \in Events : MayFollow(server[s], e) /\ flow' = [flow EXCEPT ![s] = KeptPart(flow[s], e)]
  BY DEF Chunk
<1>3. PICK f : f = KeptPart(flow[s], e)
  OBVIOUS
<1>4. f \in FlowRec /\ f.phase = flow[s].phase /\ f.code = flow[s].code /\ f.parse = flow[s].parse
      /\ f.flag = flow[s].flag /\ f.cancelled = flow[s].cancelled /\ f.part = e
      /\ f.errored = flow[s].errored /\ f.reports = flow[s].reports /\ f.late = flow[s].late
  BY <1>1, <1>3 DEF FlowOK, FlowRec, KeptPart
<1>5. flow[s].phase = "inflight" /\ server[s].events < SendBound[s]
  BY DEF Chunk, Inflight
<1>6. BodyOK(s, f, server[s])
  BY <1>1, <1>2, <1>4, <1>5 DEF FlowOK, BodyOK
<1>7. PlaceOK(provider, s, f, server[s], caused)
  BY <1>1, <1>4, <1>5 DEF FlowOK, PlaceOK
<1>8. FlowOK(provider, s, f, server[s], caused)
  BY <1>1, <1>4, <1>6, <1>7 DEF FlowOK
<1> QED BY <1>2, <1>3, <1>8, ServerKept, OneMoves DEF Chunk, StreamInv

\* the request returns: out of the in-flight set, with a code
LEMMA EndedFacts ==
  ASSUME NEW f \in FlowRec, NEW code \in Codes, NEW g, g = Ended(f, code)
  PROVE  /\ g \in FlowRec /\ g.phase = "returned" /\ g.code = code /\ ~g.cancelled /\ g.part = NoEvent
         /\ g.flag = f.flag /\ g.parse = f.parse /\ g.errored = f.errored
         /\ g.reports = f.reports /\ g.late = f.late
BY DEF Ended, FlowRec, Phases

LEMMA ReturnKeeps ==
  ASSUME StreamInv, NEW s \in Flows, NEW code \in Codes \ {NoCode}, NEW blamed,
         flow[s].phase = "inflight", caused \subseteq blamed, blamed \subseteq Flows,
         flow' = [flow EXCEPT ![s] = Ended(flow[s], code)],
         ~flow[s].flag /\ code # Fine => s \in blamed,
         provider' = provider, server' = server, caused' = blamed
  PROVE  StreamInv'
<1>1. FlowOK(provider, s, flow[s], server[s], caused)
  BY DEF StreamInv
<1>2. PICK f : f = Ended(flow[s], code)
  OBVIOUS
<1>3. /\ f \in FlowRec /\ f.phase = "returned" /\ f.code = code /\ ~f.cancelled /\ f.part = NoEvent
      /\ f.flag = flow[s].flag /\ f.parse = flow[s].parse /\ f.errored = flow[s].errored
      /\ f.reports = flow[s].reports /\ f.late = flow[s].late
  BY <1>1, <1>2, EndedFacts DEF FlowOK
<1>4. BodyOK(s, f, server[s])
  BY <1>1, <1>3 DEF FlowOK, BodyOK
<1>5. PlaceOK(provider, s, f, server[s], blamed)
  <2>1. ~flow[s].errored /\ flow[s].reports = <<>> /\ Agree(provider, flow[s].parse, server[s])
    BY <1>1 DEF FlowOK, PlaceOK
  <2>2. ~flow[s].late
    BY <1>1 DEF FlowOK, PlaceOK
  <2> QED BY <1>3, <2>1, <2>2 DEF PlaceOK
<1>6. FlowOK(provider, s, f, server[s], blamed)
  BY <1>1, <1>3, <1>4, <1>5 DEF FlowOK
<1> QED BY <1>2, <1>6, ServerKept, OneMoves

LEMMA TransferEnds ==
  ASSUME StreamInv, NEW s \in Flows, BodyEnds(s) \/ Refuses(s) \/ Breaks(s) \/ Aborts(s)
  PROVE  StreamInv'
<1>0. /\ {Fine, NoTransport, Denied, Broken} \subseteq Codes \ {NoCode}
      /\ caused \subseteq Flows /\ flow[s].phase = "inflight"
  BY CodeFacts DEF Codes, StreamInv, BodyEnds, Refuses, Breaks, Aborts, Inflight
<1>1. CASE BodyEnds(s)
  <2>1. flow' = [flow EXCEPT ![s] = Ended(flow[s], Fine)]
    BY <1>1 DEF BodyEnds
  <2> QED BY <1>0, <1>1, <2>1, ReturnKeeps DEF BodyEnds
<1>2. CASE Refuses(s)
  <2>1. PICK code \in {Denied, Broken} : flow' = [flow EXCEPT ![s] = Ended(flow[s], code)]
    BY <1>2 DEF Refuses
  <2>2. PICK blamed : blamed = caused \cup {s}
    OBVIOUS
  <2>3. /\ caused' = blamed /\ provider' = provider /\ server' = server
        /\ caused \subseteq blamed /\ blamed \subseteq Flows /\ s \in blamed
    BY <1>0, <1>2, <2>2 DEF Refuses
  <2>4. code \in Codes \ {NoCode}
    BY <1>0
  <2> QED BY <1>0, <2>1, <2>3, <2>4, ReturnKeeps
<1>3. CASE Breaks(s)
  <2>1. flow' = [flow EXCEPT ![s] = Ended(flow[s], NoTransport)]
    BY <1>3 DEF Breaks
  <2>2. PICK blamed : blamed = caused \cup {s}
    OBVIOUS
  <2>3. /\ caused' = blamed /\ provider' = provider /\ server' = server
        /\ caused \subseteq blamed /\ blamed \subseteq Flows /\ s \in blamed
    BY <1>0, <1>3, <2>2 DEF Breaks
  <2>4. NoTransport \in Codes \ {NoCode}
    BY <1>0
  <2> QED BY <1>0, <2>1, <2>3, <2>4, ReturnKeeps
<1>4. CASE Aborts(s)
  <2>1. flow' = [flow EXCEPT ![s] = Ended(flow[s], NoTransport)]
    BY <1>4 DEF Aborts
  <2>2. flow[s].flag
    BY <1>4 DEF Aborts, StreamInv, FlowOK, PlaceOK
  <2> QED BY <1>0, <1>4, <2>1, <2>2, ReturnKeeps DEF Aborts
<1> QED BY <1>1, <1>2, <1>3, <1>4

(***************************************************************************)
(* Events.                                                                 *)
(***************************************************************************)
LEMMA LengthFacts ==
  ASSUME NEW q \in Seq(Nat), NEW n \in Nat
  PROVE  /\ Append(q, n) \in Seq(Nat) /\ Len(Append(q, n)) = Len(q) + 1 /\ Len(q) \in Nat
         /\ Append(q, n)[Len(q) + 1] = n /\ (\A i \in 1..Len(q) : Append(q, n)[i] = q[i])
         /\ Append(q, n) # <<>> /\ (q # <<>> <=> Len(q) > 0)
OBVIOUS

LEMMA BumpFacts ==
  ASSUME NEW q \in Seq(Nat), q # <<>>, NEW n \in Nat
  PROVE  /\ [q EXCEPT ![Len(q)] = n] \in Seq(Nat) /\ Len([q EXCEPT ![Len(q)] = n]) = Len(q)
         /\ [q EXCEPT ![Len(q)] = n][Len(q)] = n
         /\ \A i \in 1..(Len(q) - 1) : [q EXCEPT ![Len(q)] = n][i] = q[i]
OBVIOUS

LEMMA SameBump ==
  ASSUME NEW q \in Seq(Nat), NEW n
  PROVE  [q EXCEPT ![n] = q[n]] = q
OBVIOUS

\* what an event adds to an answer
LEMMA AnswerGrows ==
  ASSUME NEW b \in BodyRec, NEW e \in Events, MayFollow(b, e),
         b.open => b.calls # <<>>, b.whole => ~b.open,
         NEW c, c = WithEvent(b, e)
  PROVE  /\ c \in BodyRec /\ c.events = b.events + 1
         /\ c.open => c.calls # <<>>
         /\ c.whole => ~c.open
         /\ c.limited <=> b.limited \/ e = "limit"
         /\ c.texts = IF e = "text" THEN b.texts + 1 ELSE b.texts
         /\ e = "call" => c.calls = Append(b.calls, 0) /\ ~b.open /\ c.open
         /\ e = "piece" => /\ c.calls = [b.calls EXCEPT ![Len(b.calls)] = PiecesOfLast(b) + 1]
                           /\ b.open /\ c.open
         /\ e = "close" => c.calls = b.calls /\ b.open /\ ~c.open
         /\ e \notin {"call", "piece", "close"} => c.calls = b.calls /\ c.open = b.open
<1>1. b.texts \in Nat /\ b.events \in Nat /\ b.calls \in Seq(Nat)
  BY DEF BodyRec
<1>2. PICK more : more = [b EXCEPT !.events = b.events + 1]
  OBVIOUS
<1>3. /\ more \in BodyRec /\ more.events = b.events + 1 /\ more.texts = b.texts
      /\ more.calls = b.calls /\ more.open = b.open /\ more.whole = b.whole
      /\ more.limited = b.limited
  BY <1>1, <1>2 DEF BodyRec
<1>4. CASE e = "text"
  <2>1. c = [more EXCEPT !.texts = more.texts + 1]
    BY <1>2, <1>4 DEF WithEvent
  <2>2. PICK n \in Nat : n = b.texts + 1
    BY <1>1
  <2>3. c = [more EXCEPT !.texts = n]
    BY <1>3, <2>1, <2>2
  <2>4. /\ c \in BodyRec /\ c.texts = n /\ c.calls = b.calls /\ c.open = b.open
        /\ c.whole = b.whole /\ c.events = b.events + 1 /\ c.limited = b.limited
    BY <1>3, <2>3 DEF BodyRec
  <2> QED BY <1>4, <2>2, <2>4
<1>5. CASE e = "call"
  <2>1. c = [more EXCEPT !.calls = Append(b.calls, 0), !.open = TRUE]
    BY <1>2, <1>3, <1>5 DEF WithEvent
  <2>2. PICK q \in Seq(Nat) : q = Append(b.calls, 0)
    BY <1>1, LengthFacts
  <2>3. q # <<>>
    BY <1>1, <2>2, LengthFacts
  <2>4. c = [more EXCEPT !.calls = q, !.open = TRUE]
    BY <2>1, <2>2
  <2>5. c \in BodyRec /\ c.calls = q /\ c.open /\ c.events = b.events + 1 /\ c.texts = b.texts
        /\ c.whole = b.whole /\ c.limited = b.limited
    BY <1>3, <2>4 DEF BodyRec
  <2> QED BY <1>5, <2>2, <2>3, <2>5 DEF MayFollow
<1>6. CASE e = "piece"
  <2>0. b.open /\ b.calls # <<>>
    BY <1>6 DEF MayFollow
  <2>1. c = [more EXCEPT !.calls[Len(b.calls)] = b.calls[Len(b.calls)] + 1]
    BY <1>2, <1>3, <1>6 DEF WithEvent
  <2>2. PiecesOfLast(b) \in Nat
    BY <1>1, <2>0, LengthFacts DEF PiecesOfLast
  <2>n. PICK n \in Nat : n = PiecesOfLast(b) + 1
    BY <2>2
  <2>q. PICK q : q = [b.calls EXCEPT ![Len(b.calls)] = n]
    OBVIOUS
  <2>3. q \in Seq(Nat) /\ q = [b.calls EXCEPT ![Len(b.calls)] = PiecesOfLast(b) + 1]
    BY <1>1, <2>0, <2>n, <2>q, BumpFacts
  <2>4. c = [more EXCEPT !.calls = q]
    BY <1>3, <2>1, <2>3 DEF PiecesOfLast
  <2>5. Len(q) = Len(b.calls)
    BY <1>1, <2>0, <2>n, <2>q, BumpFacts
  <2>6. q # <<>>
    BY <1>1, <2>0, <2>5, LengthFacts
  <2>7. c \in BodyRec /\ c.calls = q /\ c.open = b.open /\ c.events = b.events + 1
        /\ c.texts = b.texts /\ c.whole = b.whole /\ c.limited = b.limited
    BY <1>3, <2>3, <2>4 DEF BodyRec
  <2> QED BY <1>6, <2>0, <2>3, <2>6, <2>7
<1>7. CASE e = "close"
  <2>1. c = [more EXCEPT !.open = FALSE]
    BY <1>2, <1>7 DEF WithEvent
  <2> QED BY <1>3, <1>7, <2>1 DEF BodyRec, MayFollow
<1>8. CASE e = "finish"
  <2>1. c = [more EXCEPT !.whole = TRUE]
    BY <1>2, <1>8 DEF WithEvent
  <2> QED BY <1>3, <1>8, <2>1 DEF BodyRec, MayFollow
<1>9. CASE e = "done"
  <2>1. c = [more EXCEPT !.closed = TRUE]
    BY <1>2, <1>9 DEF WithEvent
  <2> QED BY <1>3, <1>9, <2>1 DEF BodyRec
<1>10. CASE e = "error"
  <2>1. c = more
    BY <1>2, <1>10 DEF WithEvent
  <2> QED BY <1>3, <1>10, <2>1
<1>11. CASE e = "limit"
  <2>1. c = [more EXCEPT !.limited = TRUE]
    BY <1>2, <1>11 DEF WithEvent
  <2> QED BY <1>3, <1>11, <2>1 DEF BodyRec, MayFollow
<1> QED BY <1>4, <1>5, <1>6, <1>7, <1>8, <1>9, <1>10, <1>11 DEF Events

\* the parse state keeps up with the answer, event by event, whatever the format
LEMMA AnthropicFollows ==
  ASSUME NEW p \in ParseRec, NEW b \in BodyRec, NEW c \in BodyRec, NEW e \in Events,
         MayFollow(b, e), Carries("anthropic", p, b), b.open => b.calls # <<>>,
         c = WithEvent(b, e), b.whole => ~b.open, NEW q, q = AnthropicEvent(p, e)
  PROVE  q \in ParseRec /\ Carries("anthropic", q, c)
<1>1. /\ p.texts \in Nat /\ p.open \in Nat /\ p.calls \in Seq(Nat) /\ p.reason \in Reasons
      /\ b.calls \in Seq(Nat) /\ b.texts \in Nat /\ b.open \in BOOLEAN
  BY DEF ParseRec, BodyRec
<1>2. /\ c.texts = IF e = "text" THEN b.texts + 1 ELSE b.texts
      /\ e = "call" => c.calls = Append(b.calls, 0) /\ ~b.open /\ c.open
      /\ e = "piece" => /\ c.calls = [b.calls EXCEPT ![Len(b.calls)] = PiecesOfLast(b) + 1]
                        /\ b.open /\ c.open
      /\ e = "close" => c.calls = b.calls /\ b.open /\ ~c.open
      /\ e \notin {"call", "piece", "close"} => c.calls = b.calls /\ c.open = b.open
  BY AnswerGrows
<1>3. /\ p.texts = b.texts
      /\ Len(p.calls) = IF b.open THEN Len(b.calls) - 1 ELSE Len(b.calls)
      /\ \A i \in 1..Len(p.calls) : p.calls[i] = b.calls[i]
      /\ b.open => p.open = PiecesOfLast(b)
  BY DEF Carries
<1>4. CASE e = "text"
  <2>1. PICK n \in Nat : n = p.texts + 1
    BY <1>1
  <2>2. q = [p EXCEPT !.texts = n]
    BY <1>4, <2>1 DEF AnthropicEvent
  <2>3. q \in ParseRec /\ q.texts = n /\ q.calls = p.calls /\ q.open = p.open
    BY <2>2 DEF ParseRec
  <2>4. c.texts = n /\ c.calls = b.calls /\ c.open = b.open
    BY <1>2, <1>3, <1>4, <2>1
  <2>5. PiecesOfLast(c) = PiecesOfLast(b)
    BY <2>4 DEF PiecesOfLast
  <2> QED BY <1>3, <2>3, <2>4, <2>5 DEF Carries
<1>5. CASE e = "call"
  <2>0. PICK n \in Nat : n = 0
    OBVIOUS
  <2>1. q = [p EXCEPT !.open = n]
    BY <1>5, <2>0 DEF AnthropicEvent
  <2>2. q \in ParseRec /\ q.texts = p.texts /\ q.calls = p.calls /\ q.open = n
    BY <2>1 DEF ParseRec
  <2>3. /\ Len(c.calls) = Len(b.calls) + 1 /\ c.calls[Len(b.calls) + 1] = n /\ Len(b.calls) \in Nat
        /\ \A i \in 1..Len(b.calls) : c.calls[i] = b.calls[i]
    <3>1. c.calls = Append(b.calls, n)
      BY <1>2, <1>5, <2>0
    <3> QED BY <1>1, <3>1, LengthFacts
  <2>4. c.texts = p.texts /\ c.open /\ ~b.open
    BY <1>2, <1>3, <1>5
  <2>5. Len(p.calls) = Len(c.calls) - 1 /\ \A i \in 1..Len(p.calls) : p.calls[i] = c.calls[i]
    BY <1>3, <2>3, <2>4
  <2>6. PiecesOfLast(c) = n
    BY <2>3 DEF PiecesOfLast
  <2> QED BY <2>2, <2>4, <2>5, <2>6 DEF Carries
<1>6. CASE e = "piece"
  <2>0. b.calls # <<>>
    BY <1>2, <1>6
  <2>1. q = [p EXCEPT !.open = p.open + 1]
    BY <1>6 DEF AnthropicEvent
  <2>2. q \in ParseRec /\ q.texts = p.texts /\ q.calls = p.calls /\ q.open = p.open + 1
    BY <1>1, <2>1 DEF ParseRec
  <2>3. PICK n \in Nat : n = PiecesOfLast(b) + 1 /\ n = q.open
    BY <1>1, <1>2, <1>3, <1>6, <2>2
  <2>4. /\ Len(c.calls) = Len(b.calls) /\ c.calls[Len(b.calls)] = n
        /\ \A i \in 1..(Len(b.calls) - 1) : c.calls[i] = b.calls[i]
    <3>1. c.calls = [b.calls EXCEPT ![Len(b.calls)] = n]
      BY <1>2, <1>6, <2>3
    <3> QED BY <1>1, <2>0, <3>1, BumpFacts
  <2>5. PiecesOfLast(c) = q.open
    BY <2>3, <2>4 DEF PiecesOfLast
  <2>6. c.texts = p.texts /\ c.open /\ b.open /\ Len(b.calls) \in Nat
    BY <1>1, <1>2, <1>3, <1>6
  <2>7. Len(p.calls) = Len(c.calls) - 1 /\ \A i \in 1..Len(p.calls) : p.calls[i] = c.calls[i]
    BY <1>3, <2>4, <2>6
  <2> QED BY <2>2, <2>5, <2>6, <2>7 DEF Carries
<1>7. CASE e = "close"
  <2>0. b.open /\ b.calls # <<>> /\ Len(b.calls) \in Nat /\ p.open = b.calls[Len(b.calls)]
    BY <1>1, <1>2, <1>3, <1>7 DEF PiecesOfLast
  <2>1. q = [p EXCEPT !.calls = Append(p.calls, p.open)]
    BY <1>7 DEF AnthropicEvent
  <2>m. PICK more, n : n = p.open /\ more = Append(p.calls, n)
    OBVIOUS
  <2>2. /\ more \in Seq(Nat) /\ more = Append(p.calls, p.open) /\ Len(more) = Len(p.calls) + 1
        /\ more[Len(p.calls) + 1] = p.open /\ \A i \in 1..Len(p.calls) : more[i] = p.calls[i]
    BY <1>1, <2>m, LengthFacts
  <2>3. q = [p EXCEPT !.calls = more]
    BY <2>1, <2>2
  <2>4. q \in ParseRec /\ q.texts = p.texts /\ q.calls = more
    BY <2>2, <2>3 DEF ParseRec
  <2>5. Len(more) = Len(b.calls) /\ \A i \in 1..Len(more) : more[i] = b.calls[i]
    BY <1>1, <1>3, <2>0, <2>2
  <2>6. c.texts = p.texts /\ c.calls = b.calls /\ ~c.open
    BY <1>2, <1>3, <1>7
  <2> QED BY <2>4, <2>5, <2>6 DEF Carries
<1>8. CASE e \in {"finish", "limit"}
  <2>1. PICK why \in Reasons : q = [p EXCEPT !.reason = why]
    BY <1>8 DEF AnthropicEvent, Reasons
  <2>2. q \in ParseRec /\ q.texts = p.texts /\ q.calls = p.calls /\ q.open = p.open
    BY <1>1, <2>1 DEF ParseRec
  <2>3. c.texts = b.texts /\ c.calls = b.calls /\ c.open = b.open
    BY <1>2, <1>8
  <2>4. PiecesOfLast(c) = PiecesOfLast(b)
    BY <2>3 DEF PiecesOfLast
  <2> QED BY <1>3, <2>2, <2>3, <2>4 DEF Carries
<1>9. CASE e \in {"error", "done"}
  <2>1. q = p
    BY <1>9 DEF AnthropicEvent
  <2>3. c.texts = b.texts /\ c.calls = b.calls /\ c.open = b.open
    BY <1>2, <1>9
  <2>4. PiecesOfLast(c) = PiecesOfLast(b)
    BY <2>3 DEF PiecesOfLast
  <2> QED BY <1>3, <2>1, <2>3, <2>4 DEF Carries
<1> QED BY <1>4, <1>5, <1>6, <1>7, <1>8, <1>9 DEF Events

LEMMA OthersFollow ==
  ASSUME NEW p \in ParseRec, NEW b \in BodyRec, NEW c \in BodyRec, NEW e \in Events,
         MayFollow(b, e), NEW kind, kind # "anthropic", Carries(kind, p, b), b.open => b.calls # <<>>,
         c = WithEvent(b, e), b.whole => ~b.open,
         NEW q, q = OpenAIEvent(p, e) \/ q = CodexEvent(p, e, c)
  PROVE  q \in ParseRec /\ Carries(kind, q, c)
<1>1. /\ p.texts \in Nat /\ p.open \in Nat /\ p.calls \in Seq(Nat) /\ p.reason \in Reasons
      /\ b.calls \in Seq(Nat) /\ b.texts \in Nat /\ b.open \in BOOLEAN
  BY DEF ParseRec, BodyRec
<1>2. /\ c.texts = IF e = "text" THEN b.texts + 1 ELSE b.texts
      /\ e = "call" => c.calls = Append(b.calls, 0) /\ ~b.open /\ c.open
      /\ e = "piece" => /\ c.calls = [b.calls EXCEPT ![Len(b.calls)] = PiecesOfLast(b) + 1]
                        /\ b.open /\ c.open
      /\ e = "close" => c.calls = b.calls /\ b.open /\ ~c.open
      /\ e \notin {"call", "piece", "close"} => c.calls = b.calls /\ c.open = b.open
  BY AnswerGrows
<1>3. p.texts = b.texts /\ p.calls = b.calls
  BY DEF Carries
<1>4. CASE e = "text"
  <2>1. PICK n \in Nat : n = p.texts + 1
    BY <1>1
  <2>2. q = [p EXCEPT !.texts = n]
    BY <1>4, <2>1 DEF OpenAIEvent, CodexEvent
  <2>3. q \in ParseRec /\ q.texts = n /\ q.calls = p.calls
    BY <2>2 DEF ParseRec
  <2> QED BY <1>2, <1>3, <1>4, <2>1, <2>3 DEF Carries
<1>5. CASE e = "call"
  <2>1. q = [p EXCEPT !.calls = Append(p.calls, 0)]
    BY <1>5 DEF OpenAIEvent, CodexEvent
  <2>2. PICK more \in Seq(Nat) : more = Append(p.calls, 0)
    BY <1>1, LengthFacts
  <2>3. q = [p EXCEPT !.calls = more]
    BY <2>1, <2>2
  <2>4. q \in ParseRec /\ q.texts = p.texts /\ q.calls = more
    BY <1>1, <2>3 DEF ParseRec
  <2> QED BY <1>2, <1>3, <1>5, <2>2, <2>4 DEF Carries
<1>6. CASE e = "piece"
  <2>0. b.calls # <<>> /\ PiecesOfLast(b) \in Nat
    <3>1. b.calls # <<>>
      BY <1>2, <1>6
    <3> QED BY <1>1, <3>1, LengthFacts DEF PiecesOfLast
  <2>1. q = [p EXCEPT !.calls[Len(p.calls)] = p.calls[Len(p.calls)] + 1]
    BY <1>6 DEF OpenAIEvent, CodexEvent
  <2>2. PICK n \in Nat : n = PiecesOfLast(b) + 1
    BY <2>0
  <2>3. PICK more : more = [b.calls EXCEPT ![Len(b.calls)] = n]
    OBVIOUS
  <2>4. more \in Seq(Nat)
    BY <1>1, <2>0, <2>3, BumpFacts
  <2>5. q = [p EXCEPT !.calls = more]
    BY <1>3, <2>1, <2>2, <2>3 DEF PiecesOfLast
  <2>6. q \in ParseRec /\ q.texts = p.texts /\ q.calls = more
    BY <1>1, <2>4, <2>5 DEF ParseRec
  <2> QED BY <1>2, <1>3, <1>6, <2>2, <2>3, <2>6 DEF Carries
<1>7. CASE e = "close"
  <2>0. b.calls # <<>> /\ Len(b.calls) \in Nat /\ c.calls = b.calls
    BY <1>1, <1>2, <1>7
  <2>1. q = p \/ q = [p EXCEPT !.calls[Len(p.calls)] = c.calls[Len(c.calls)]]
    BY <1>7 DEF OpenAIEvent, CodexEvent, PiecesOfLast
  <2>2. q = p \/ q = [p EXCEPT !.calls = [p.calls EXCEPT ![Len(p.calls)] = p.calls[Len(p.calls)]]]
    BY <1>3, <2>0, <2>1
  <2>3. [p.calls EXCEPT ![Len(p.calls)] = p.calls[Len(p.calls)]] = p.calls
    BY <1>1, SameBump
  <2>4. [p EXCEPT !.calls = p.calls] = p
    BY DEF ParseRec
  <2>5. q = p
    BY <2>2, <2>3, <2>4
  <2> QED BY <1>2, <1>3, <1>7, <2>5 DEF Carries
<1>8. CASE e \in {"finish", "limit"}
  <2>1. q = p \/ \E why \in Reasons : q = [p EXCEPT !.reason = why]
    BY <1>8 DEF OpenAIEvent, CodexEvent, Reasons
  <2>2. q \in ParseRec /\ q.texts = p.texts /\ q.calls = p.calls
    BY <1>1, <2>1 DEF ParseRec
  <2> QED BY <1>2, <1>3, <1>8, <2>2 DEF Carries
<1>9. CASE e \in {"error", "done"}
  <2>1. q = p
    BY <1>9 DEF OpenAIEvent, CodexEvent
  <2> QED BY <1>2, <1>3, <1>9, <2>1 DEF Carries
<1> QED BY <1>4, <1>5, <1>6, <1>7, <1>8, <1>9 DEF Events

LEMMA ReasonFollows ==
  ASSUME NEW p \in ParseRec, NEW b \in BodyRec, NEW c \in BodyRec, NEW e \in Events,
         MayFollow(b, e), ReasonOK(p, b), b.open => b.calls # <<>>, b.whole => ~b.open,
         c = WithEvent(b, e), NEW q, q = ParsedEvent(p, e, c)
  PROVE  ReasonOK(q, c)
<1>1. c.limited <=> b.limited \/ e = "limit"
  BY AnswerGrows
<1>2. q = AnthropicEvent(p, e) \/ q = OpenAIEvent(p, e) \/ q = CodexEvent(p, e, c)
  BY DEF ParsedEvent
<1>3. CASE e = "limit"
  <2>1. q = [p EXCEPT !.reason = "MaxTokens"]
    BY <1>2, <1>3 DEF AnthropicEvent, OpenAIEvent, CodexEvent
  <2>2. q.reason = "MaxTokens"
    BY <2>1 DEF ParseRec
  <2> QED BY <1>1, <1>3, <2>2 DEF ReasonOK
<1>4. CASE e = "finish"
  <2>1. ~b.limited
    BY <1>4 DEF MayFollow
  <2>2. p.reason # "MaxTokens"
    BY <2>1 DEF ReasonOK
  <2>3. q = p \/ \E why \in {"ToolUse", "EndTurn"} : q = [p EXCEPT !.reason = why]
    BY <1>2, <1>4 DEF AnthropicEvent, OpenAIEvent, CodexEvent
  <2>4. q.reason # "MaxTokens"
    BY <2>2, <2>3 DEF ParseRec
  <2> QED BY <1>1, <1>4, <2>1, <2>4 DEF ReasonOK
<1>5. CASE e \notin {"limit", "finish"}
  <2>1. q.reason = p.reason
    BY <1>2, <1>5 DEF AnthropicEvent, OpenAIEvent, CodexEvent, ParseRec, Events
  <2> QED BY <1>1, <1>5, <2>1 DEF ReasonOK
<1> QED BY <1>3, <1>4, <1>5

LEMMA ParseFollows ==
  ASSUME provider \in ProviderKinds, NEW p \in ParseRec, NEW b \in BodyRec, NEW c \in BodyRec,
         NEW e \in Events, MayFollow(b, e), Agree(provider, p, b), b.open => b.calls # <<>>,
         b.whole => ~b.open, c = WithEvent(b, e), NEW q, q = ParsedEvent(p, e, c)
  PROVE  q \in ParseRec /\ Agree(provider, q, c)
<1>0. Carries(provider, p, b) /\ ReasonOK(p, b)
  BY DEF Agree
<1>1. CASE provider = "anthropic"
  <2>1. q = AnthropicEvent(p, e) /\ Carries("anthropic", p, b)
    BY <1>0, <1>1 DEF ParsedEvent
  <2>2. q \in ParseRec /\ Carries("anthropic", q, c)
    BY <2>1, AnthropicFollows
  <2> QED BY <1>1, <2>2, <1>0, ReasonFollows DEF Agree
<1>2. CASE provider # "anthropic"
  <2>1. q = OpenAIEvent(p, e) \/ q = CodexEvent(p, e, c)
    BY <1>2 DEF ParsedEvent
  <2>2. q \in ParseRec /\ Carries(provider, q, c)
    BY <1>0, <1>2, <2>1, OthersFollow
  <2> QED BY <1>0, <2>2, ReasonFollows DEF Agree
<1> QED BY <1>1, <1>2

LEMMA ReportFacts ==
  ASSUME NEW how \in {"error", "sign-in"}
  PROVE  Report(how) \in ReportRec /\ Report(how).how = how
<1>1. <<>> \in Seq(BOOLEAN)
  OBVIOUS
<1> QED BY <1>1 DEF Report, ReportRec, Reasons

LEMMA FirstReport ==
  ASSUME NEW r \in ReportRec
  PROVE  Append(<<>>, r) \in Seq(ReportRec) /\ Len(Append(<<>>, r)) = 1 /\ Append(<<>>, r)[1] = r
OBVIOUS

\* the first report of a stream that was not cancelled
LEMMA Reported ==
  ASSUME NEW f \in FlowRec, f.reports = <<>>, ~f.flag, ~f.late, NEW r \in ReportRec,
         NEW g, g = WithReport(f, r)
  PROVE  /\ g \in FlowRec /\ Len(g.reports) = 1 /\ g.reports[1] = r /\ ~g.late
         /\ g.phase = f.phase /\ g.flag = f.flag /\ g.cancelled = f.cancelled /\ g.part = f.part
         /\ g.parse = f.parse /\ g.code = f.code /\ g.errored = f.errored
<1>1. PICK told \in Seq(ReportRec) : told = Append(f.reports, r) /\ Len(told) = 1 /\ told[1] = r
  BY FirstReport
<1>2. f.late = FALSE /\ f.flag = FALSE
  BY DEF FlowRec
<1>3. (f.late \/ f.flag) = FALSE
  BY <1>2
<1>4. g = [f EXCEPT !.reports = told, !.late = FALSE]
  BY <1>1, <1>3 DEF WithReport
<1> QED BY <1>1, <1>4 DEF FlowRec

LEMMA DispatchKeeps ==
  ASSUME StreamInv, NEW s \in Flows, Dispatch(s) PROVE StreamInv'
<1>1. FlowOK(provider, s, flow[s], server[s], caused) /\ provider \in ProviderKinds
  BY DEF StreamInv
<1>2. PICK e, body, blamed, f :
        /\ e = flow[s].part /\ body = WithEvent(server[s], e)
        /\ blamed = IF e = "error" THEN caused \cup {s} ELSE caused
        /\ f = [flow[s] EXCEPT !.part = NoEvent]
  OBVIOUS
<1>3. PICK g : g = Callback(f, e, body)
  OBVIOUS
<1>4. /\ flow' = [flow EXCEPT ![s] = g] /\ server' = [server EXCEPT ![s] = body]
      /\ caused' = blamed /\ provider' = provider
  BY <1>2, <1>3 DEF Dispatch
<1>5. caused \subseteq blamed /\ blamed \subseteq Flows /\ (e = "error" => s \in blamed)
  BY <1>2 DEF StreamInv
<1>6. /\ flow[s].phase = "inflight" /\ ~flow[s].cancelled /\ e \in Events /\ server[s] \in BodyRec
      /\ MayFollow(server[s], e) /\ server[s].events < SendBound[s]
      /\ server[s].open => server[s].calls # <<>>
      /\ server[s].whole => ~server[s].open
  BY <1>1, <1>2 DEF Dispatch, Inflight, FlowOK, BodyOK, FlowRec
<1>7. /\ body \in BodyRec /\ body.events = server[s].events + 1
      /\ body.open => body.calls # <<>>
      /\ body.whole => ~body.open
  <2>1. PICK b : b = server[s]
    OBVIOUS
  <2>2. /\ b \in BodyRec /\ e \in Events /\ MayFollow(b, e) /\ body = WithEvent(b, e)
        /\ (b.open => b.calls # <<>>) /\ (b.whole => ~b.open)
    BY <1>2, <1>6, <2>1
  <2>3. body \in BodyRec
    BY <2>2, AnswerGrows
  <2>5. body.events = b.events + 1
    BY <2>2, AnswerGrows, ZenonT(30)
  <2>4. (body.open => body.calls # <<>>) /\ (body.whole => ~body.open)
    BY <2>2, AnswerGrows
  <2> QED BY <2>1, <2>3, <2>4, <2>5
<1>8. SendBound[s] \in Nat /\ server[s].events \in Nat
  BY <1>6, StreamsAssumption DEF BodyRec
<1>9. /\ f \in FlowRec /\ f.phase = "inflight" /\ ~f.cancelled /\ f.part = NoEvent
      /\ f.flag = flow[s].flag /\ f.parse = flow[s].parse /\ f.code = flow[s].code
      /\ f.errored = flow[s].errored /\ f.reports = flow[s].reports /\ f.late = flow[s].late
  BY <1>1, <1>2, <1>6 DEF FlowOK, FlowRec
<1>10. /\ ~f.errored /\ f.reports = <<>> /\ ~f.late /\ f.code = NoCode
       /\ Agree(provider, f.parse, server[s])
  BY <1>1, <1>6, <1>9 DEF FlowOK, PlaceOK
<1>11. PICK q : q = ParsedEvent(f.parse, e, body)
  OBVIOUS
<1>12. f.parse \in ParseRec
  BY <1>9 DEF FlowRec
<1>13. q \in ParseRec /\ Agree(provider, q, body)
  BY <1>1, <1>2, <1>6, <1>7, <1>10, <1>11, <1>12, ParseFollows
<1>14. Fine \in Codes /\ Fine # NoCode
  BY CodeFacts DEF Codes
<1>15. g \in FlowRec /\ g.part = NoEvent /\ PlaceOK(provider, s, g, body, blamed)
  <2>1. CASE f.flag
    <3>1. g = Ended(f, Fine)
      BY <1>3, <2>1 DEF Callback
    <3>2. /\ g \in FlowRec /\ g.phase = "returned" /\ g.code = Fine /\ ~g.cancelled /\ g.part = NoEvent
          /\ g.flag /\ ~g.errored /\ g.reports = <<>> /\ ~g.late
      BY <1>9, <1>10, <1>14, <2>1, <3>1, EndedFacts
    <3> QED BY <1>14, <3>2 DEF PlaceOK
  <2>2. CASE ~f.flag /\ e = "error"
    <3>1. g = Ended([WithReport(f, Report("error")) EXCEPT !.errored = TRUE], Fine)
      BY <1>3, <2>2 DEF Callback
    <3>2. PICK r \in ReportRec : r = Report("error") /\ r.how = "error"
      BY ReportFacts
    <3>3. PICK h : h = WithReport(f, r)
      OBVIOUS
    <3>4. /\ h \in FlowRec /\ Len(h.reports) = 1 /\ h.reports[1] = r /\ ~h.late /\ h.flag = f.flag
      BY <1>9, <1>10, <2>2, <3>3, Reported
    <3>5. PICK k : k = [h EXCEPT !.errored = TRUE]
      OBVIOUS
    <3>6. /\ k \in FlowRec /\ k.reports = h.reports /\ ~k.late /\ k.flag = f.flag /\ k.errored
      BY <3>4, <3>5 DEF FlowRec
    <3>k. g = Ended(k, Fine)
      BY <3>1, <3>2, <3>3, <3>5
    <3>7. /\ g \in FlowRec /\ g.phase = "returned" /\ g.code = Fine /\ ~g.cancelled /\ g.part = NoEvent
          /\ g.errored /\ g.reports = h.reports /\ ~g.late
      BY <1>14, <3>6, <3>k, EndedFacts
    <3>8. Told(r, body, s, blamed)
      BY <1>5, <2>2, <3>2 DEF Told
    <3>9. \A i \in 1..Len(g.reports) : g.reports[i] = r
      BY <3>4, <3>7
    <3> QED BY <1>14, <3>4, <3>7, <3>8, <3>9 DEF PlaceOK
  <2>3. CASE ~f.flag /\ e = "done" /\ provider = "openai"
    <3>1. g = Ended(f, Fine)
      BY <1>3, <2>3 DEF Callback
    <3>2. q = f.parse
      BY <1>11, <2>3 DEF ParsedEvent, OpenAIEvent
    <3>3. /\ g \in FlowRec /\ g.phase = "returned" /\ g.code = Fine /\ ~g.cancelled /\ g.part = NoEvent
          /\ g.parse = q /\ ~g.errored /\ g.reports = <<>> /\ ~g.late
      BY <1>9, <1>10, <1>14, <3>1, <3>2, EndedFacts
    <3> QED BY <1>13, <1>14, <3>3 DEF PlaceOK
  <2>4. CASE ~f.flag /\ e # "error" /\ ~(e = "done" /\ provider = "openai")
    <3>1. g = [f EXCEPT !.parse = q]
      BY <1>3, <1>11, <2>4 DEF Callback
    <3>2. /\ g \in FlowRec /\ g.phase = "inflight" /\ g.code = NoCode /\ ~g.cancelled /\ g.part = NoEvent
          /\ g.parse = q /\ ~g.errored /\ g.reports = <<>> /\ ~g.late
      BY <1>9, <1>10, <1>13, <3>1 DEF FlowRec
    <3> QED BY <1>13, <3>2 DEF PlaceOK
  <2> QED BY <2>1, <2>2, <2>3, <2>4
<1>16. BodyOK(s, g, body)
  BY <1>6, <1>7, <1>8, <1>15 DEF BodyOK
<1>17. FlowOK(provider, s, g, body, blamed)
  BY <1>7, <1>15, <1>16 DEF FlowOK
<1> QED BY <1>4, <1>5, <1>17, OneMoves

(***************************************************************************)
(* The end of a stream.                                                    *)
(***************************************************************************)
\* the entry goes, what was told stays
LEMMA GoneFacts ==
  ASSUME NEW f \in FlowRec, NEW g, g = Gone(f)
  PROVE  /\ g \in FlowRec /\ g.phase = "gone" /\ g.flag = f.flag /\ g.reports = f.reports
         /\ g.late = f.late /\ ~g.cancelled /\ g.part = NoEvent /\ ~g.errored
<1>1. PICK n \in FlowRec : /\ n = NoFlow /\ ~n.cancelled /\ n.part = NoEvent /\ ~n.errored
  BY NoFlowFacts
<1>2. g = [n EXCEPT !.phase = "gone", !.flag = f.flag, !.reports = f.reports, !.late = f.late]
  BY <1>1 DEF Gone
<1> QED BY <1>1, <1>2 DEF FlowRec, Phases

\* an answer told from a parse state that agrees with it is told whole
LEMMA FinishTrue ==
  ASSUME NEW p \in ParseRec, NEW b \in BodyRec, Agree(provider, p, b), b.whole => ~b.open,
         NEW m, m = Materialised(p, b)
  PROVE  /\ m \in Seq(BOOLEAN)
         /\ b.whole => m = [i \in DOMAIN b.calls |-> TRUE]
         /\ \A i \in DOMAIN m : m[i] => i < Len(b.calls) \/ ~b.open
<1>1. /\ p.calls \in Seq(Nat) /\ b.calls \in Seq(Nat) /\ b.open \in BOOLEAN
      /\ Len(p.calls) \in Nat /\ Len(b.calls) \in Nat
      /\ DOMAIN p.calls = 1..Len(p.calls) /\ DOMAIN b.calls = 1..Len(b.calls)
  BY DEF ParseRec, BodyRec
<1> DEFINE parsed(i) == /\ i \in DOMAIN b.calls /\ p.calls[i] = b.calls[i]
                        /\ ~(i = Len(b.calls) /\ b.open)
<1>2. m = [i \in 1..Len(p.calls) |-> parsed(i)]
  BY <1>1 DEF Materialised
<1>3. \A i \in 1..Len(p.calls) : m[i] = parsed(i) /\ m[i] \in BOOLEAN
  <2>1. \A i : parsed(i) \in BOOLEAN
    OBVIOUS
  <2> HIDE DEF parsed
  <2> QED BY <1>2, <2>1
<1>4. m = [i \in 1..Len(p.calls) |-> m[i]]
  <2> HIDE DEF parsed
  <2> QED BY <1>2
<1>5. m \in Seq(BOOLEAN)
  <2>1. PICK n \in Nat : n = Len(p.calls)
    BY <1>1
  <2>2. m \in [1..n -> BOOLEAN]
    <3> HIDE DEF parsed
    <3> QED BY <1>3, <1>4, <2>1
  <2> HIDE DEF parsed
  <2> QED BY <2>2
<1>6. ASSUME b.whole PROVE m = [i \in DOMAIN b.calls |-> TRUE]
  <2>1. ~b.open
    BY <1>6
  <2>2. Len(p.calls) = Len(b.calls) /\ \A i \in 1..Len(p.calls) : p.calls[i] = b.calls[i]
    BY <2>1 DEF Agree, Carries
  <2>3. \A i \in 1..Len(p.calls) : parsed(i)
    BY <1>1, <2>1, <2>2
  <2>4. \A i \in 1..Len(p.calls) : m[i] = TRUE
    <3> HIDE DEF parsed
    <3> QED BY <1>3, <2>3
  <2> QED BY <1>1, <1>4, <2>2, <2>4
<1>7. ASSUME NEW i \in DOMAIN m, m[i] PROVE i < Len(b.calls) \/ ~b.open
  <2>1. i \in 1..Len(p.calls)
    BY <1>4
  <2>2. parsed(i)
    <3> HIDE DEF parsed
    <3> QED BY <1>3, <1>7, <2>1
  <2> QED BY <1>1, <2>2
<1> QED BY <1>5, <1>6, <1>7

LEMMA EndsKeeps ==
  ASSUME StreamInv, NEW s \in Flows, EndsStream(s) PROVE StreamInv'
<1>1. FlowOK(provider, s, flow[s], server[s], caused) /\ provider \in ProviderKinds
  BY DEF StreamInv
<1>2. flow[s].phase = "returned" /\ flow' = [flow EXCEPT ![s] = Gone(Outcome(flow[s], server[s]))]
  BY DEF EndsStream
<1>3. PICK f, b, h, g : /\ f = flow[s] /\ b = server[s] /\ h = Outcome(f, b) /\ g = Gone(h)
  OBVIOUS
<1>4. /\ f \in FlowRec /\ b \in BodyRec /\ BodyOK(s, f, b)
      /\ PlaceOK(provider, s, f, b, caused)
  BY <1>1, <1>3 DEF FlowOK
<1>5. /\ f.phase = "returned" /\ ~f.late /\ f.code \in Codes \ {NoCode} /\ f.parse \in ParseRec
      /\ f.errored => Len(f.reports) = 1 /\ f.code = Fine
      /\ ~f.errored => f.reports = <<>>
      /\ ~f.flag /\ f.code # Fine => s \in caused
      /\ ~f.flag /\ ~f.errored /\ f.code = Fine => Agree(provider, f.parse, b)
      /\ \A i \in 1..Len(f.reports) : Told(f.reports[i], b, s, caused)
      /\ b.whole => ~b.open
  BY <1>2, <1>3, <1>4 DEF PlaceOK, BodyOK, FlowRec
<1>6. /\ h \in FlowRec /\ h.flag = f.flag /\ ~h.late /\ Len(h.reports) <= 1
      /\ ~h.flag => Len(h.reports) = 1
      /\ \A i \in 1..Len(h.reports) : Told(h.reports[i], b, s, caused)
  <2>1. CASE f.flag
    <3>1. h = f
      BY <1>3, <2>1 DEF Outcome
    <3>2. Len(<<>>) = 0
      OBVIOUS
    <3>3. Len(f.reports) = 0 \/ Len(f.reports) = 1
      <4>1. CASE f.errored
        BY <1>5, <4>1
      <4>2. CASE ~f.errored
        BY <1>5, <3>2, <4>2
      <4> QED BY <4>1, <4>2
    <3>4. \A i \in 1..Len(f.reports) : Told(f.reports[i], b, s, caused)
      BY <1>5
    <3>5. f \in FlowRec /\ ~f.late
      BY <1>4, <1>5
    <3>6. Len(f.reports) <= 1
      <4>1. f.reports \in Seq(ReportRec)
        BY <1>4 DEF FlowRec
      <4>2. PICK n \in Nat : n = Len(f.reports)
        BY <4>1
      <4>3. n = 0 \/ n = 1
        BY <3>3, <4>2
      <4>4. n <= 1
        BY <4>3
      <4> QED BY <4>2, <4>4
    <3> QED BY <2>1, <3>1, <3>4, <3>5, <3>6
  <2>2. CASE ~f.flag /\ f.code # Fine
    <3>1. h = Failed(f)
      BY <1>3, <1>5, <2>2, CodeFacts DEF Outcome, Codes
    <3>2. PICK r \in ReportRec : r = Report("error") /\ r.how = "error"
      BY ReportFacts
    <3>3. ~f.errored /\ f.reports = <<>>
      BY <1>5, <2>2
    <3>4. h = WithReport(f, r)
      BY <3>1, <3>2, <3>3 DEF Failed
    <3>5. Told(r, b, s, caused)
      BY <1>5, <2>2, <3>2 DEF Told
    <3>6. h \in FlowRec /\ Len(h.reports) = 1 /\ h.reports[1] = r /\ ~h.late /\ h.flag = f.flag
      BY <1>4, <1>5, <2>2, <3>3, <3>4, Reported
    <3> QED BY <3>5, <3>6
  <2>3. CASE ~f.flag /\ f.code = Fine /\ f.errored
    <3>1. h = f
      BY <1>3, <2>3, CodeFacts DEF Outcome, Finished
    <3>2. Len(f.reports) = 1
      BY <1>5, <2>3
    <3>3. \A i \in 1..Len(f.reports) : Told(f.reports[i], b, s, caused)
      BY <1>5
    <3>4. f \in FlowRec /\ ~f.late
      BY <1>4, <1>5
    <3> QED BY <3>1, <3>2, <3>3, <3>4
  <2>4. CASE ~f.flag /\ f.code = Fine /\ ~f.errored
    <3>1. PICK m : m = Materialised(f.parse, b)
      OBVIOUS
    <3>2. Agree(provider, f.parse, b)
      BY <1>5, <2>4
    <3>3. /\ m \in Seq(BOOLEAN)
          /\ b.whole => m = [i \in DOMAIN b.calls |-> TRUE]
          /\ \A i \in DOMAIN m : m[i] => i < Len(b.calls) \/ ~b.open
      <4>1. PICK p \in ParseRec : p = f.parse
        BY <1>5
      <4> QED BY <1>4, <1>5, <3>1, <3>2, <4>1, FinishTrue
    <3>4. PICK r : r = [how |-> "finish", texts |-> f.parse.texts, calls |-> m,
                        reason |-> FinishReason(f.parse)]
      OBVIOUS
    <3>5. h = WithReport(f, r)
      BY <1>3, <2>4, <3>1, <3>4, CodeFacts DEF Outcome, Finished
    <3>6. /\ FinishReason(f.parse) \in Reasons /\ f.parse.texts \in Nat /\ f.parse.texts = b.texts
          /\ FinishReason(f.parse) = "MaxTokens" <=> b.limited
      BY <1>5, <3>2 DEF FinishReason, Reasons, ParseRec, Agree, Carries, ReasonOK
    <3>7. /\ r \in ReportRec /\ r.how = "finish" /\ r.texts = b.texts /\ r.calls = m
          /\ ReasonOK(r, b)
      BY <3>3, <3>4, <3>6 DEF ReportRec, ReasonOK
    <3>8. Told(r, b, s, caused)
      BY <3>3, <3>7 DEF Told
    <3>9. h \in FlowRec /\ Len(h.reports) = 1 /\ h.reports[1] = r /\ ~h.late /\ h.flag = f.flag
      BY <1>4, <1>5, <2>4, <3>5, <3>7, Reported
    <3> QED BY <3>8, <3>9
  <2> QED BY <2>1, <2>2, <2>3, <2>4
<1>7. /\ g \in FlowRec /\ g.phase = "gone" /\ g.flag = h.flag /\ g.reports = h.reports
      /\ ~g.late /\ ~g.cancelled /\ g.part = NoEvent /\ ~g.errored
  BY <1>3, <1>6, GoneFacts
<1>8. FlowOK(provider, s, g, b, caused)
  <2>1. BodyOK(s, g, b)
    BY <1>4, <1>7 DEF BodyOK
  <2>2. PlaceOK(provider, s, g, b, caused)
    BY <1>6, <1>7 DEF PlaceOK
  <2> QED BY <1>4, <1>7, <2>1, <2>2 DEF FlowOK
<1>9. flow' = [flow EXCEPT ![s] = g] /\ server' = [server EXCEPT ![s] = b]
      /\ caused' = caused /\ provider' = provider /\ caused \subseteq Flows
  BY <1>2, <1>3, ServerKept DEF EndsStream, StreamInv
<1> QED BY <1>8, <1>9, OneMoves

\* a failure of the sign-in is told, even to a stream that was cancelled
LEMMA SignInFails ==
  ASSUME StreamInv, NEW s \in Flows, NEW blamed, caused \subseteq blamed, blamed \subseteq Flows,
         s \in blamed, flow[s].reports = <<>>,
         flow' = [flow EXCEPT ![s] =
                    Gone([flow[s] EXCEPT !.reports = Append(flow[s].reports, Report("sign-in"))])],
         server' = server, caused' = blamed, provider' = provider
  PROVE  StreamInv'
<1>1. FlowOK(provider, s, flow[s], server[s], caused)
  BY DEF StreamInv
<1>2. PICK r \in ReportRec : r = Report("sign-in") /\ r.how = "sign-in"
  BY ReportFacts
<1>3. PICK told \in Seq(ReportRec) :
        told = Append(flow[s].reports, r) /\ Len(told) = 1 /\ told[1] = r
  BY FirstReport
<1>4. PICK f : f = [flow[s] EXCEPT !.reports = told]
  OBVIOUS
<1>5. f \in FlowRec /\ f.reports = told /\ f.flag = flow[s].flag /\ f.late = flow[s].late
  BY <1>1, <1>3, <1>4 DEF FlowOK, FlowRec
<1>6. PICK g : g = Gone(f)
  OBVIOUS
<1>7. /\ g \in FlowRec /\ g.phase = "gone" /\ g.flag = f.flag /\ g.reports = told
      /\ g.late = f.late /\ ~g.cancelled /\ g.part = NoEvent /\ ~g.errored
  BY <1>5, <1>6, GoneFacts
<1>8. FlowOK(provider, s, g, server[s], blamed)
  <2>1. BodyOK(s, g, server[s])
    BY <1>1, <1>7 DEF FlowOK, BodyOK
  <2>2. ~g.late
    BY <1>1, <1>5, <1>7 DEF FlowOK, PlaceOK
  <2>3. Told(r, server[s], s, blamed)
    BY <1>2 DEF Told
  <2>4. PlaceOK(provider, s, g, server[s], blamed)
    BY <1>3, <1>7, <2>2, <2>3 DEF PlaceOK
  <2> QED BY <1>1, <1>7, <2>1, <2>4 DEF FlowOK
<1>9. flow' = [flow EXCEPT ![s] = g]
  BY <1>2, <1>3, <1>4, <1>6
<1> QED BY <1>8, <1>9, ServerKept, OneMoves

\* a stream moves on to its next attempt or to its request
LEMMA MovesOn ==
  ASSUME StreamInv, NEW s \in Flows, NEW phase \in {"ready", "signed"}, NEW f,
         flow[s].reports = <<>>, flow[s].part = NoEvent, ~flow[s].errored, ~flow[s].cancelled,
         f \in FlowRec, f.phase = phase, f.flag = flow[s].flag, ~f.cancelled,
         f.part = NoEvent, ~f.errored, f.reports = <<>>, f.late = flow[s].late,
         flow' = [flow EXCEPT ![s] = f], server' = server, caused' = caused, provider' = provider
  PROVE  StreamInv'
<1>1. FlowOK(provider, s, flow[s], server[s], caused) /\ caused \subseteq Flows
  BY DEF StreamInv
<1>2. FlowOK(provider, s, f, server[s], caused)
  <2>1. ~f.late
    BY <1>1 DEF FlowOK, PlaceOK
  <2>2. BodyOK(s, f, server[s])
    BY <1>1 DEF FlowOK, BodyOK
  <2>3. PlaceOK(provider, s, f, server[s], caused)
    BY <2>1 DEF PlaceOK
  <2> QED BY <1>1, <2>2, <2>3 DEF FlowOK
<1> QED BY <1>1, <1>2, ServerKept, OneMoves

LEMMA SignInKeeps ==
  ASSUME StreamInv, NEW s \in Flows, SignsIn(s) \/ Refreshes(s) PROVE StreamInv'
<1>1. FlowOK(provider, s, flow[s], server[s], caused) /\ caused \subseteq Flows
  BY DEF StreamInv
<1>2. flow[s] \in FlowRec /\ "ready" \in Phases /\ "signed" \in Phases
  BY <1>1 DEF FlowOK, Phases
<1>3. /\ flow[s].phase \in {"ready", "returned"}
      /\ provider' = provider /\ server' = server
      /\ flow[s].phase = "returned" => Retries(s)
  BY DEF SignsIn, Refreshes
<1>4. /\ flow[s].reports = <<>> /\ ~flow[s].errored /\ flow[s].part = NoEvent
      /\ ~flow[s].cancelled /\ (flow[s].phase = "returned" => s \in caused)
  <2>1. flow[s].phase = "returned" => ~flow[s].flag /\ flow[s].code = Denied
    BY <1>3 DEF Retries
  <2> QED BY <1>1, <1>3, <2>1, CodeFacts DEF FlowOK, BodyOK, PlaceOK
<1>5. CASE /\ flow[s].phase = "ready" /\ caused' = caused
           /\ flow' = [flow EXCEPT ![s].phase = "signed"]
  <2>1. PICK f : f = [flow[s] EXCEPT !.phase = "signed"]
    OBVIOUS
  <2>2. f \in FlowRec /\ f.phase = "signed" /\ f.flag = flow[s].flag /\ ~f.cancelled
        /\ f.part = NoEvent /\ ~f.errored /\ f.reports = <<>> /\ f.late = flow[s].late
    BY <1>2, <1>4, <2>1 DEF FlowRec
  <2>3. flow' = [flow EXCEPT ![s] = f]
    BY <1>5, <2>1
  <2> QED BY <1>3, <1>4, <1>5, <2>2, <2>3, MovesOn
<1>6. CASE /\ flow[s].phase = "returned" /\ caused' = caused
           /\ flow' = [flow EXCEPT ![s] = [flow[s] EXCEPT !.phase = "ready", !.attempt = 1]]
  <2>1. PICK n \in 0..1 : n = 1
    OBVIOUS
  <2>2. PICK f : f = [flow[s] EXCEPT !.phase = "ready", !.attempt = n]
    OBVIOUS
  <2>3. f \in FlowRec /\ f.phase = "ready" /\ f.flag = flow[s].flag /\ ~f.cancelled
        /\ f.part = NoEvent /\ ~f.errored /\ f.reports = <<>> /\ f.late = flow[s].late
    BY <1>2, <1>4, <2>2 DEF FlowRec
  <2>4. flow' = [flow EXCEPT ![s] = f]
    BY <1>6, <2>1, <2>2
  <2> QED BY <1>3, <1>4, <1>6, <2>3, <2>4, MovesOn
<1>7. CASE /\ caused' = caused \cup {s} \/ (caused' = caused /\ s \in caused)
           /\ flow' = [flow EXCEPT ![s] =
                Gone([flow[s] EXCEPT !.reports = Append(flow[s].reports, Report("sign-in"))])]
  <2>1. PICK blamed : blamed = caused'
    OBVIOUS
  <2>2. caused \subseteq blamed /\ blamed \subseteq Flows /\ s \in blamed
    BY <1>1, <1>7, <2>1
  <2> QED BY <1>3, <1>4, <1>7, <2>1, <2>2, SignInFails
<1> QED BY <1>3, <1>4, <1>5, <1>6, <1>7 DEF SignsIn, Refreshes

(***************************************************************************)
(* The theorems.                                                           *)
(***************************************************************************)
LEMMA StreamStep == StreamInv /\ [StreamNext]_streamVars => StreamInv'
<1> SUFFICES ASSUME StreamInv, [StreamNext]_streamVars PROVE StreamInv'
  OBVIOUS
<1>1. CASE UNCHANGED streamVars
  BY <1>1 DEF streamVars, StreamInv
<1>2. ASSUME NEW t \in Tokens \cup {Sweep}, Cancel(t) PROVE StreamInv'
  BY <1>2, CancelKeeps
<1>3. ASSUME NEW s \in Flows, Open(s) \/ PostSSE(s) \/ Chunk(s) \/ Dispatch(s) PROVE StreamInv'
  BY <1>3, OpenKeeps, PostKeeps, ChunkKeeps, DispatchKeeps
<1>4. ASSUME NEW s \in Flows, BodyEnds(s) \/ Refuses(s) \/ Breaks(s) \/ Aborts(s) PROVE StreamInv'
  BY <1>4, TransferEnds
<1>5. ASSUME NEW s \in Flows, EndsStream(s) \/ SignsIn(s) \/ Refreshes(s) PROVE StreamInv'
  BY <1>5, EndsKeeps, SignInKeeps
<1> QED BY <1>1, <1>2, <1>3, <1>4, <1>5 DEF StreamNext

\* What a stream has heard, parsed and told at each place of stream()
THEOREM StreamInvariant == StreamSpec => []StreamInv
<1>1. StreamInit => StreamInv
  BY InitStreams
<1>2. StreamInv /\ [StreamNext]_streamVars => StreamInv'
  BY StreamStep
<1> QED BY <1>1, <1>2, PTL DEF StreamSpec

\* A stream is at a step of stream(), and untouched until it is opened
THEOREM StreamTypesHold == StreamSpec => []StreamTypeOK
<1>1. StreamInv => StreamTypeOK
  BY DEF StreamInv, FlowOK, BodyOK, PlaceOK, FlowRec, Phases, StreamTypeOK
<1> QED BY <1>1, StreamInvariant, PTL

\* A stream tells one thing, and the truth (provider.h, the three providers)
THEOREM StreamTruthfulHolds == StreamSpec => []StreamTruthful
<1>1. ASSUME StreamInv PROVE StreamTruthful
  <2> SUFFICES ASSUME NEW s \in Flows
               PROVE  /\ Len(flow[s].reports) <= 1 /\ ~flow[s].late
                      /\ flow[s].phase = "gone" /\ ~flow[s].flag => flow[s].reports # <<>>
                      /\ \A r \in ToSet(flow[s].reports) : Told(r, server[s], s, caused)
    BY DEF StreamTruthful, Told, ReasonOK
  <2>1. flow[s] \in FlowRec /\ PlaceOK(provider, s, flow[s], server[s], caused)
    BY <1>1 DEF StreamInv, FlowOK
  <2>2. flow[s].reports \in Seq(ReportRec) /\ flow[s].phase \in Phases
    BY <2>1 DEF FlowRec
  <2>3. Len(<<>>) = 0
    OBVIOUS
  <2>4. Len(flow[s].reports) <= 1 /\ ~flow[s].late
    BY <2>1, <2>2, <2>3 DEF PlaceOK, Phases
  <2>5. flow[s].phase = "gone" /\ ~flow[s].flag => flow[s].reports # <<>>
    BY <2>1, <2>3 DEF PlaceOK
  <2>6. \A r \in ToSet(flow[s].reports) : \E i \in 1..Len(flow[s].reports) : r = flow[s].reports[i]
    BY <2>2 DEF ToSet
  <2> QED BY <2>1, <2>4, <2>5, <2>6 DEF PlaceOK
<1> QED BY <1>1, StreamInvariant, PTL
=============================================================================
