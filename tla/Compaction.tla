----------------------------- MODULE Compaction -----------------------------
(***************************************************************************)
(* What one session's model is shown.  The stored rows and the compaction  *)
(* checkpoints, the request every step assembles from them, and the        *)
(* compaction that replaces older exchanges by a summary, with invalid     *)
(* drafts, interrupts, failing store calls, crashes and retried turns.     *)
(* A row's text is its identity; a summary is the set of rows it tells of, *)
(* and beside it the set of rows a two-pass prompt had no room for.        *)
(***************************************************************************)
EXTENDS SequencesExt, Integers

CONSTANTS
  Batches,        \* the call-id sequences an answer may ask for; ids are reused
  RecentBudget,   \* compaction_recent_context, in units of row cost
  Pictures,       \* prompts may carry an image
  HistoryBound,   \* bound: rows of the session
  ClockBound      \* bound: rows and checkpoints ever stored

ASSUME CompactionAssumption ==
  /\ RecentBudget \in Nat /\ HistoryBound \in Nat /\ ClockBound \in Nat
  /\ Pictures \subseteq BOOLEAN /\ Batches \subseteq Seq(STRING)

VARIABLES
  hist,        \* session_message, in seq order: a row's seq is its index
  cps,         \* compaction_checkpoint
  clock,       \* time_created of the newest row or checkpoint
  stage,       \* where the runner of the session is
  want,        \* calls of the current batch still to run
  tell,        \* the status update of the request in flight
  job,         \* the compaction at work
  compacting,  \* compaction_in_progress_
  overflowUsed,\* the overflow recovery of this step was used
  request,     \* history: the last request sent
  answered     \* history: the last answered request no compaction or retry outdated

rowVars == <<hist, cps, clock>>
runVars == <<stage, want, tell, overflowUsed>>
compVars == <<job, compacting>>
contextVars == <<rowVars, runVars, compVars, request, answered>>

NoCall == ""
NoStatus == "none"
NoJob == [cp |-> 0, basis |-> {}, older |-> <<>>, told |-> {}, reads |-> {}, lost |-> {},
          how |-> "none", pass |-> "whole", drafts |-> 0, manual |-> FALSE]
Row == [id |-> 0, kind |-> "prompt", calls |-> <<>>, call |-> NoCall, said |-> 0,
        status |-> NoStatus, pic |-> FALSE]
Rows(kind) == {i \in DOMAIN hist : hist[i].kind = kind}

ContextInit ==
  /\ hist = <<>> /\ cps = {} /\ clock = 0
  /\ stage = "idle" /\ want = <<>> /\ tell = NoStatus
  /\ job = NoJob /\ compacting = FALSE /\ overflowUsed = FALSE
  /\ request = <<>> /\ answered = <<>>

(***************************************************************************)
(* The store.                                                              *)
(***************************************************************************)
Stored(row) == Append(hist, [row EXCEPT !.id = clock + 1])
MayStore == Len(hist) < HistoryBound /\ clock < ClockBound

\* append_message: the next seq is taken inside the INSERT
Append1(row) ==
  /\ MayStore
  /\ hist' = Stored(row) /\ clock' = clock + 1
  /\ UNCHANGED cps

\* mutant: the oldest row of the call id is rewritten
RewriteOldest(c) ==
  LET mine == {i \in Rows("result") : hist[i].call = c}
  IN hist' = [hist EXCEPT ![CHOOSE i \in mine : \A k \in mine : i <= k].said = clock]

\* update_tool_result_by_call_id: the newest result row of the call id
RewriteResult(c) ==
  LET mine == {i \in Rows("result") : hist[i].call = c}
  IN hist' = [hist EXCEPT ![CHOOSE i \in mine : \A k \in mine : k <= i].said = clock]

\* mutant: the checkpoints of the deleted rows stay
DropRowsOnly(seq) ==
  /\ hist' = SubSeq(hist, 1, seq)
  /\ UNCHANGED cps

\* delete_messages_after: one transaction over rows and checkpoints
DeleteAfter(seq) ==
  /\ hist' = SubSeq(hist, 1, seq)
  /\ cps' = {c \in cps : c.through <= seq /\ c.id < hist[seq].id}

Complete == {c \in cps : c.status = "complete"}
NoCheckpoint == [id |-> 0, through |-> 0, covers |-> {}, aged |-> {}, lost |-> {},
                 status |-> "complete"]

\* mutant: the newest checkpoint counts, completed or not
LatestOfAll ==
  IF cps = {} THEN NoCheckpoint
  ELSE CHOOSE c \in cps : \A d \in cps : d.through <= c.through

\* latest_complete_checkpoint: ORDER BY through_seq DESC LIMIT 1
Latest ==
  IF Complete = {} THEN NoCheckpoint
  ELSE CHOOSE c \in Complete : \A d \in Complete : d.through <= c.through

\* complete_checkpoint and fail_checkpoint: one UPDATE by id
Mark(id, status, covers, lost) ==
  {IF c.id = id THEN [c EXCEPT !.status = status, !.covers = covers, !.lost = lost] ELSE c
     : c \in cps}

\* apply_checkpoint: the summary row, then the rows above its boundary
ContextRows ==
  LET tail == SubSeq(hist, Latest.through + 1, Len(hist))
  IN IF Latest.id = 0 THEN tail
     ELSE <<[Row EXCEPT !.kind = "summary", !.id = Latest.id]>> \o tail

(***************************************************************************)
(* Requests: a message is its role and its content blocks.                 *)
(***************************************************************************)
Block(kind, of, call) == [kind |-> kind, of |-> of, call |-> call]
User(blocks) == [role |-> "user", body |-> blocks]
Assistant(blocks) == [role |-> "assistant", body |-> blocks]

\* append_status_block: onto the trailing user turn, or a turn of its own
WithStatus(out, status) ==
  IF status = NoStatus THEN out
  ELSE LET note == Block(status, 0, NoCall) IN
       IF out # <<>> /\ Last(out).role = "user"
       THEN [out EXCEPT ![Len(out)].body = Append(@, note)]
       ELSE Append(out, User(<<note>>))

\* recent_image_boundary: images go out with the last two prompts only
ImageBoundary(ctx) ==
  LET prompts == {i \in DOMAIN ctx : ctx[i].kind = "prompt"}
  IN IF prompts = {} THEN 1
     ELSE CHOOSE i \in prompts :
            /\ Cardinality({k \in prompts : k > i}) <= 1
            /\ \A j \in prompts : j < i => Cardinality({k \in prompts : k > j}) > 1

\* the assistant turn a result answers: the newest before it with that call id
Owner(ctx, i) ==
  LET askers == {j \in 1..(i - 1) : ctx[i].call \in Range(ctx[j].calls)}
  IN IF askers = {} THEN 0 ELSE CHOOSE j \in askers : \A k \in askers : k <= j

\* mutant: a call without a stored result is left out
ReplyOrNothing(ctx, j, c) ==
  LET replies == {i \in DOMAIN ctx : ctx[i].kind = "result" /\ ctx[i].call = c
                                       /\ Owner(ctx, i) = j}
  IN IF replies = {} THEN Block("text", j, c)
     ELSE Block("result", ctx[CHOOSE i \in replies : \A k \in replies : i <= k].id, c)

\* the first result of a call, or the filler of the repair pass
Reply(ctx, j, c) ==
  LET replies == {i \in DOMAIN ctx : ctx[i].kind = "result" /\ ctx[i].call = c
                                       /\ Owner(ctx, i) = j}
      row == ctx[CHOOSE i \in replies : \A k \in replies : i <= k]
  IN IF replies = {} THEN Block("not run", 0, c)
     ELSE Block("result", IF row.said = 0 THEN row.id ELSE row.said, c)

PromptTurn(ctx, i) ==
  <<User(<<Block("text", ctx[i].id, NoCall)>>
         \o (IF ctx[i].pic
             THEN <<Block(IF i >= ImageBoundary(ctx) THEN "image" ELSE "as text",
                          ctx[i].id, NoCall)>>
             ELSE <<>>))>>

\* a summary speaks as the assistant; a stub keeps the roles alternating
SummaryTurn(ctx, i) ==
  LET said == Assistant(<<Block("summary", ctx[i].id, NoCall)>>)
      stub == User(<<Block("stub", 0, NoCall)>>)
  IN IF i < Len(ctx) /\ ctx[i + 1].kind = "assistant" THEN <<said, stub>> ELSE <<said>>

AssistantTurn(ctx, i) ==
  <<Assistant(<<Block("text", ctx[i].id, NoCall)>>
              \o [k \in DOMAIN ctx[i].calls |-> Block("call", ctx[i].id, ctx[i].calls[k])])>>
  \o (IF ctx[i].calls = <<>> THEN <<>>
      ELSE <<User([k \in DOMAIN ctx[i].calls |-> Reply(ctx, i, ctx[i].calls[k])])>>)

\* mutant: the status an earlier request carried is not replayed
WithoutReplay(out, ctx, i) == out \o AssistantTurn(ctx, i)

\* an assistant turn, behind the status update its request carried
Replayed(out, ctx, i) == WithStatus(out, ctx[i].status) \o AssistantTurn(ctx, i)

\* assemble_messages: result rows are regrouped behind the turn they answer
Assembled(ctx) ==
  FoldLeft(LAMBDA out, i :
             IF ctx[i].kind = "prompt" THEN out \o PromptTurn(ctx, i)
             ELSE IF ctx[i].kind = "summary" THEN out \o SummaryTurn(ctx, i)
             ELSE IF ctx[i].kind = "assistant" THEN Replayed(out, ctx, i)
             ELSE out,
           <<>>, [i \in DOMAIN ctx |-> i])

\* last_status_update and next_status_update: only what changed is said
StatusUpdate(ctx, now) ==
  LET told == {i \in DOMAIN ctx : ctx[i].status # NoStatus}
      last == IF told = {} THEN "calm"
              ELSE ctx[CHOOSE i \in told : \A k \in told : k <= i].status
  IN IF now = last THEN NoStatus ELSE now

\* build_step_request
StepRequest(ctx, now) == WithStatus(Assembled(ctx), StatusUpdate(ctx, now))

(***************************************************************************)
(* Splitting the history.                                                  *)
(***************************************************************************)
\* serialized_size: only the output of call "c2" is long
Cost(row) == IF row.call = "c2" THEN 3 ELSE 1
CostFrom(k) == FoldLeft(LAMBDA sum, row : sum + Cost(row), 0, SubSeq(hist, k, Len(hist)))

\* mutant: any row may start the retained tail
AnyCut(first) == first..Len(hist)

\* exchange_end: an exchange is a prompt, or an answer with its results
Cuts(first) == {k \in first..Len(hist) : hist[k].kind # "result"}

\* split_history: the last seq to summarize, 0 when there is nothing to do
SplitHistory(recent, prev) ==
  LET cuts == Cuts(prev + 1)
      fits == {k \in cuts : CostFrom(k) <= recent \/ \A j \in cuts : j <= k}
      tail == CHOOSE k \in fits : \A j \in fits : k <= j
      later == cuts \ {prev + 1}
  IN IF cuts = {} THEN 0
     ELSE IF tail > prev + 1 THEN tail - 1
     ELSE IF later = {} THEN 0
     ELSE (CHOOSE k \in later : \A j \in later : k <= j) - 1

Ids(rows) == {row.id : row \in Range(rows)}

(***************************************************************************)
(* Compaction.                                                             *)
(***************************************************************************)
\* mutant: the previous summary is not part of the prompt
NoPrevious == Latest.aged

\* what a standalone summary starts from: the previous summary and aged context
Previous == Latest.covers \cup Latest.aged

\* compact_history up to its pending row; how is "inline" with a cached request.
\* reads: the rows a standalone prompt carries; lost: rows at or below the boundary
\* that a prompt had no room for, with those the previous summary never heard of.
Begin(how, manual) ==
  LET budget == IF how = "inline" THEN RecentBudget \div 2 ELSE RecentBudget
      through == SplitHistory(budget, Latest.through)
  IN /\ ~compacting /\ through > 0 /\ clock < ClockBound
     /\ compacting' = TRUE
     /\ clock' = clock + 1
     /\ cps' = cps \cup {[id |-> clock + 1, through |-> through, covers |-> {},
                          aged |-> Ids(SubSeq(hist, through + 1, Len(hist))), lost |-> {},
                          status |-> "pending"]}
     /\ job' = [cp |-> clock + 1, basis |-> Previous, how |-> how, pass |-> "whole",
                older |-> SubSeq(hist, Latest.through + 1, through), drafts |-> 0,
                reads |-> Ids(SubSeq(hist, Latest.through + 1, through)), lost |-> Latest.lost,
                told |-> Latest.covers \cup Ids(SubSeq(hist, Latest.through + 1, Len(hist))),
                manual |-> manual]
     /\ stage' = "summary"
     /\ tell' = NoStatus /\ request' = <<>>
     /\ UNCHANGED <<hist, want, answered>>

\* the loop's trigger: this step's request is extended for the summary
AutoCompact ==
  /\ stage = "step" /\ ~overflowUsed
  /\ Begin("inline", FALSE) /\ UNCHANGED overflowUsed

\* compact_now: inline when a request shape of this process is known
CompactNow ==
  /\ stage = "idle"
  /\ \E how \in {"inline", "standalone"} : Begin(how, TRUE)
  /\ UNCHANGED overflowUsed

\* the provider refused the request as too large: compact once, ask once more
RecoverOverflow ==
  /\ stage = "sent" /\ ~overflowUsed
  /\ Begin("standalone", FALSE) /\ overflowUsed' = TRUE

Leave(manual) == IF manual THEN "idle" ELSE "step"

\* mid, moved past the results of its answer
Middle(older) ==
  CHOOSE m \in (Len(older) \div 2)..(Len(older) - 1) :
    /\ m = Len(older) - 1 \/ older[m + 1].kind # "result"
    /\ \A k \in (Len(older) \div 2)..(m - 1) : older[k + 1].kind = "result"

\* fit_serialized: a pass over rows i to k carries those up to n, the text of the
\* others is cut off, as much of it as the room asks for
Fitted(n, i, k) ==
  [job EXCEPT !.reads = Ids(SubSeq(job.older, i, n)),
              !.lost = @ \cup Ids(SubSeq(job.older, n + 1, k))]

\* the prompt does not fit: two passes, the first over half of the older rows
TwoPasses ==
  /\ stage = "summary" /\ job.how = "standalone" /\ job.pass = "whole" /\ job.drafts = 0
  /\ \E n \in 0..Middle(job.older) :
       job' = [Fitted(n, 1, Middle(job.older)) EXCEPT !.pass = "first"]
  /\ UNCHANGED <<rowVars, runVars, compacting, request, answered>>

\* what the summary of this call tells of, when the model keeps to its input
Told == IF job.how = "inline" THEN job.told ELSE job.basis \cup job.reads

\* the first pass is valid: its summary is the second pass's previous summary
FirstPassDone ==
  /\ stage = "summary" /\ job.pass = "first" /\ job.how = "standalone"
  /\ \E n \in Middle(job.older)..Len(job.older) :
       job' = [Fitted(n, Middle(job.older) + 1, Len(job.older))
                 EXCEPT !.pass = "second", !.basis = Told, !.drafts = 0]
  /\ UNCHANGED <<rowVars, runVars, compacting, request, answered>>

\* a valid summary: the pending row is completed, the guard cleared
Commit ==
  /\ stage = "summary" /\ (job.pass # "first" \/ job.how = "inline")
  /\ cps' = Mark(job.cp, "complete", Told, job.lost)
  /\ stage' = Leave(job.manual)
  /\ compacting' = FALSE /\ job' = NoJob
  /\ answered' = <<>>
  /\ UNCHANGED <<hist, clock, want, tell, overflowUsed, request>>

\* an invalid draft is corrected once
Correct ==
  /\ stage = "summary" /\ job.drafts = 0
  /\ job' = [job EXCEPT !.drafts = 1]
  /\ UNCHANGED <<rowVars, runVars, compacting, request, answered>>

\* the inline summary is unusable: the standalone summarizer
FallBack ==
  /\ stage = "summary" /\ job.how = "inline"
  /\ job' = [job EXCEPT !.how = "standalone", !.drafts = 0]
  /\ UNCHANGED <<rowVars, runVars, compacting, request, answered>>

\* fail: interrupted, a failed call, or a second invalid draft; the loop goes on
\* with the request it has, but not after an overflow
Abandon ==
  /\ stage = "summary"
  /\ cps' = Mark(job.cp, "failed", {}, {})
  /\ stage' \in (IF overflowUsed THEN {"idle"} ELSE {Leave(job.manual), "idle"})
  /\ compacting' = FALSE /\ job' = NoJob
  /\ UNCHANGED <<hist, clock, want, tell, overflowUsed, request, answered>>

\* a store call throws: the barrier ends the run, the guard stays
StoreThrows ==
  /\ stage = "summary"
  /\ stage' = "idle" /\ job' = NoJob
  /\ UNCHANGED <<rowVars, want, tell, overflowUsed, compacting, request, answered>>

(***************************************************************************)
(* Turns and steps.                                                        *)
(***************************************************************************)
\* submit_prompt, and inject_message with continue_session for an approved plan
SubmitPrompt ==
  /\ stage = "idle"
  /\ \E pic \in Pictures : Append1([Row EXCEPT !.pic = pic])
  /\ stage' = "step" /\ overflowUsed' = FALSE
  /\ UNCHANGED <<want, tell, compVars, request, answered>>

RetryLastTurn ==
  /\ stage = "idle" /\ Rows("prompt") # {}
  /\ DeleteAfter(CHOOSE i \in Rows("prompt") : \A k \in Rows("prompt") : k <= i)
  /\ stage' = "step" /\ overflowUsed' = FALSE
  /\ answered' = <<>>
  /\ UNCHANGED <<clock, want, tell, compVars, request>>

\* what the status describes may have changed: a todo, the offline switch, the budget
Send ==
  /\ stage = "step"
  /\ \E now \in {"calm", "tight"} :
       /\ request' = StepRequest(ContextRows, now)
       /\ tell' = StatusUpdate(ContextRows, now)
  /\ stage' = "sent"
  /\ UNCHANGED <<rowVars, want, overflowUsed, compVars, answered>>

\* the request in flight is over
Settled == tell' = NoStatus /\ request' = <<>>

\* the answer's row is stored with the status update its request carried; then
\* its calls run, or the turn ends: with no call wanted, or with calls of an answer
\* that was cut off.  No calls and a next step: all of them were malformed.
Answer(calls) ==
  /\ stage = "sent"
  /\ Append1([Row EXCEPT !.kind = "assistant", !.calls = calls, !.status = tell])
  /\ \/ stage' = "batch" /\ want' = calls
     \/ stage' = "idle" /\ want' = <<>>
  /\ answered' = request
  /\ Settled
  /\ UNCHANGED <<overflowUsed, compVars>>

\* a failed, interrupted or empty answer stores nothing
NoAnswer ==
  /\ stage = "sent"
  /\ stage' = "idle"
  /\ Settled
  /\ UNCHANGED <<rowVars, want, overflowUsed, compVars, answered>>

Asking == Last(hist).kind = "result" /\ Last(hist).said = 0

\* the calls run in order; every one gets a result row, also "not run"
ToolResult ==
  /\ stage = "batch" /\ want # <<>> /\ ~Asking
  /\ Append1([Row EXCEPT !.kind = "result", !.call = Head(want), !.said = clock + 1])
  /\ want' = Tail(want)
  /\ UNCHANGED <<stage, tell, overflowUsed, compVars, request, answered>>

\* ask_user: the placeholder row is stored before the question is shown
Placeholder ==
  /\ stage = "batch" /\ want # <<>> /\ ~Asking
  /\ Append1([Row EXCEPT !.kind = "result", !.call = Head(want)])
  /\ UNCHANGED <<runVars, compVars, request, answered>>

\* the reply replaces it
ReplyStored ==
  /\ stage = "batch" /\ Asking
  /\ RewriteResult(Head(want))
  /\ want' = Tail(want)
  /\ UNCHANGED <<cps, clock, stage, tell, overflowUsed, compVars, request, answered>>

\* every call has its result: the next iteration, or the end of the run
BatchDone ==
  /\ stage = "batch" /\ want = <<>>
  /\ stage' \in {"step", "idle"} /\ overflowUsed' = FALSE
  /\ UNCHANGED <<rowVars, want, tell, compVars, request, answered>>

\* the application dies; the sweeps at start may drop unfinished checkpoints
\* and clear the retained context of superseded ones
Crash ==
  /\ stage # "idle"
  /\ stage' = "idle" /\ want' = <<>> /\ compacting' = FALSE /\ job' = NoJob
  /\ \E swept \in SUBSET {c \in cps : c.status # "complete"} :
       cps' = {IF c.status = "complete" /\ c # Latest THEN [c EXCEPT !.aged = {}] ELSE c
                : c \in cps \ swept}
  /\ overflowUsed' = FALSE /\ tell' = NoStatus /\ request' = <<>>
  /\ UNCHANGED <<hist, clock, answered>>

ContextNext ==
  \/ SubmitPrompt \/ RetryLastTurn \/ Send
  \/ NoAnswer \/ BatchDone \/ Crash
  \/ \E calls \in Batches : Answer(calls)
  \/ ToolResult \/ Placeholder \/ ReplyStored
  \/ AutoCompact \/ CompactNow \/ RecoverOverflow \/ TwoPasses \/ FirstPassDone
  \/ Commit \/ Correct \/ FallBack \/ Abandon \/ StoreThrows

ContextSpec == ContextInit /\ [][ContextNext]_contextVars

(***************************************************************************)
(* Properties.                                                             *)
(***************************************************************************)
ContextTypeOK ==
  /\ Len(hist) <= HistoryBound /\ clock \in 0..ClockBound
  /\ \A c \in cps : c.through \in 1..Len(hist) /\ c.status \in {"pending", "complete", "failed"}
  /\ tell \in {NoStatus, "calm", "tight"}
  /\ stage \in {"idle", "step", "summary", "sent", "batch"}
  /\ stage = "summary" => compacting /\ job.cp > 0

\* one message of an earlier request, as a later one may repeat it: an image may
\* have become text once it left the last two prompts
Kept(old, new) ==
  /\ old.role = new.role /\ Len(old.body) = Len(new.body)
  /\ \A k \in DOMAIN old.body :
       \/ new.body[k] = old.body[k]
       \/ /\ old.body[k].kind = "image" /\ new.body[k].kind = "as text"
          /\ new.body[k].of = old.body[k].of

\* a turn that calls tools is followed by one result per call and nothing else
\* of a batch, each stored behind that very turn; no result stands elsewhere
CallsAnswered(messages) ==
  \A n \in DOMAIN messages :
    LET asked == SelectSeq(messages[n].body, LAMBDA b : b.kind = "call")
        given(m) == SelectSeq(m.body, LAMBDA b : b.kind \in {"result", "not run"})
        born(b) == IF b.kind = "not run" THEN asked[1].of + 1 ELSE b.of
    IN IF asked = <<>>
       THEN n = Len(messages) \/ given(messages[n + 1]) = <<>>
       ELSE /\ n < Len(messages)
            /\ [k \in DOMAIN given(messages[n + 1]) |-> given(messages[n + 1])[k].call]
                 = [k \in DOMAIN asked |-> asked[k].call]
            /\ \A k \in DOMAIN given(messages[n + 1]) :
                 /\ born(given(messages[n + 1])[k]) > asked[1].of
                 /\ \A i \in Rows("assistant") :
                      ~(asked[1].of < hist[i].id /\ hist[i].id < born(given(messages[n + 1])[k]))

\* Every request a step sends answers each tool call once, with that call's own
\* result, and repeats the request before it message for message, status updates
\* included, unless a compaction or a retried turn came between (assemble_messages,
\* next_status_update, update_tool_result_by_call_id).  It ends with a user turn,
\* but for the step behind an answer whose calls were all malformed.
RequestFaithful ==
  stage = "sent" =>
    /\ CallsAnswered(request)
    /\ Last(request).role = "user" \/ (hist # <<>> /\ Last(hist).kind = "assistant")
    /\ Len(answered) < Len(request)
    /\ \A n \in DOMAIN answered : Kept(answered[n], request[n])

\* What the model is shown is the whole conversation, but for what did not fit: the
\* summary in use tells of every stored row at or below its boundary, except those
\* fit_serialized cut out of one of the two passes of this or an earlier summary,
\* and of no row that was deleted; its boundary splits no exchange, and it leaves
\* an exchange in context, whatever failed, was interrupted, retried or crashed
\* before (compact_history, delete_messages_after, latest_complete_checkpoint).
SummaryTrue ==
  /\ Ids(SubSeq(hist, 1, Latest.through)) \subseteq Latest.covers \cup Latest.lost
  /\ \A c \in Complete :
       /\ c.covers \subseteq Ids(hist)
       /\ c.through < Len(hist)
       /\ hist[c.through + 1].kind # "result"
       /\ \A d \in Complete : d.id < c.id => d.through < c.through

\* "older content omitted": what a pass leaves out is older than what it carries.
\* Not so: fit_serialized keeps the front.  See the README's findings.
OlderOmitted ==
  stage = "summary" => \A x \in job.lost, y \in job.reads : x < y

\* The mark of a compaction at work belongs to a runner that is working on one.
GuardFreed == compacting => stage = "summary"

=============================================================================
