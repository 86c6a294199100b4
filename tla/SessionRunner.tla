--------------------------- MODULE SessionRunner ---------------------------
(***************************************************************************)
(* The foreground life of the engine's sessions: at most one worker thread *)
(* per session runs turns, prompts submitted meanwhile queue behind it,    *)
(* and three operations reach into a running worker from other threads:    *)
(* interrupt(), delete_session() and shutdown().  One action is one        *)
(* critical section of SessionEngine::mu_ (or of the broker's or the ask   *)
(* table's mutex), or one step a thread takes between two of them.         *)
(*                                                                         *)
(* A turn is reduced to the places where it looks at its interrupt flag    *)
(* and the places where it waits: the provider's stream, the approval of a *)
(* tool call, and the user's answer to ask_user.                           *)
(***************************************************************************)
EXTENDS Integers, Sequences, FiniteSets

CONSTANTS
  Sessions,       \* session ids
  Prompts,        \* prompt rows a user may submit, each at most once
  Workers,        \* worker threads the engine may spawn, each used once
  Interrupters,   \* calls of interrupt(), each made at most once
  Deleters,       \* lifecycle threads that call delete_session()
  None,           \* no thread, no prompt, no interrupt flag
  Steps,          \* bound: iterations of one turn's loop (ceiling_left)
  MayAsk,         \* the model calls ask_user
  MayApprove,     \* tool calls reach the approval broker
  MayThrow        \* agentic_loop may throw (DbError, json errors)

ASSUME RunnerAssumption ==
  /\ None \notin Sessions \cup Prompts \cup Workers
  /\ Steps \in Nat \ {0}
  /\ MayAsk \in BOOLEAN /\ MayApprove \in BOOLEAN /\ MayThrow \in BOOLEAN

VARIABLES
  running,     \* session_running_
  queue,       \* prompt_queue_
  handle,      \* runner_threads_: the joinable thread of a session
  flagOf,      \* interrupt_flags_: the flag object, named by its worker
  flag,        \* the flag objects: "none", "down", "up" or "freed"
  token,       \* session_stream_tokens_
  nextRun,     \* next_run_seq_
  interrupts,  \* interrupts_in_progress_
  retiring,    \* retiring_sessions_
  shutting,    \* shutting_down_
  blocked,     \* the broker's blocked_sessions_
  brokerShut,  \* the broker's shutdown_
  wk,          \* the worker threads: place in the code and local variables
  intr,        \* the threads inside interrupt()
  del,         \* the threads inside delete_session()
  shut,        \* the thread inside shutdown()
  gui,         \* the window's thread between two steps of one engine call
  rows,        \* user_prompted rows of session_message, in seq order
  present,     \* sessions with a row in the session table
  doubled,     \* history: sessions that two delete_session() calls were inside
               \* of at once
  accepted,    \* history: prompts the engine accepted, in order
  taken        \* history: prompts that left the queue's care, in order: handed
               \* to a turn, appended by inject_message, discarded by a delete

mapVars  == <<running, queue, handle, flagOf>>
dbVars   == <<rows, present>>
histVars == <<accepted, taken>>
lifeVars == <<retiring, shutting, doubled>>
brokVars == <<blocked, brokerShut>>
opVars   == <<intr, del, shut, gui>>
vars == <<running, queue, handle, flagOf, flag, token, nextRun, interrupts,
          retiring, shutting, blocked, brokerShut, wk, intr, del, shut, gui,
          rows, present, doubled, accepted, taken>>

(***************************************************************************)
(* Worker threads.                                                         *)
(***************************************************************************)
WorkerPc == {"free", "start", "store", "enter", "mint", "step", "ready",
             "streaming", "call", "submit", "approval", "askreg", "asking",
             "tail", "drain", "flip", "stop", "done"}

\* wait: the state of the approval or question the worker is parked on
WorkerRec == [pc: WorkerPc, sess: Sessions \cup {None},
              row: Prompts \cup {None}, held: Workers \cup {None},
              tok: Nat, left: 0..Steps, cut: BOOLEAN, compact: BOOLEAN,
              wait: {"none", "open", "yes", "no"}]

NewWorker(place, s, r, held, compact) ==
  [pc |-> place, sess |-> s, row |-> r, held |-> held, tok |-> 0, left |-> 0,
   cut |-> FALSE, compact |-> compact, wait |-> "none"]

FreeWorker == NewWorker("free", None, None, None, FALSE)
Exited == NewWorker("done", None, None, None, FALSE)

Live(w) == wk[w].pc \notin {"free", "done"}
Become(w, r) == wk' = [wk EXCEPT ![w] = r]
Goto(w, place) == Become(w, [wk[w] EXCEPT !.pc = place])
FlagUp(w) == wk[w].held # None /\ flag[wk[w].held] = "up"

\* spawn_runner_locked: the slot's old flag is freed, a fresh one armed
SpawnAt(s, w, r, place, held, compact) ==
  /\ wk[w].pc = "free"
  /\ Become(w, NewWorker(place, s, r, held, compact))
  /\ flag' = [v \in Workers |-> IF v = w THEN "down"
                                ELSE IF v = flagOf[s] THEN "freed"
                                ELSE flag[v]]
  /\ flagOf' = [flagOf EXCEPT ![s] = w]
  /\ running' = [running EXCEPT ![s] = TRUE]
  /\ handle' = [handle EXCEPT ![s] = w]

Spawn(s, r) == \E w \in Workers : SpawnAt(s, w, r, "start", None, FALSE)

\* every spawn path's first test under mu_
Refused(s) == shutting \/ s \in retiring

\* mutant: session_running_ is not consulted
IdleUnchecked(s) == TRUE

\* the session has no foreground worker
Idle(s) == ~running[s]

\* mutant: run_cv_ is not waited for
InterruptsIgnored(s) == TRUE

\* what run_cv_ waits for before a turn is armed
InterruptsOver(s) == interrupts[s] = 0

Init ==
  /\ running = [s \in Sessions |-> FALSE]
  /\ queue = [s \in Sessions |-> <<>>]
  /\ handle = [s \in Sessions |-> None]
  /\ flagOf = [s \in Sessions |-> None]
  /\ flag = [w \in Workers |-> "none"]
  /\ token = [s \in Sessions |-> 0]
  /\ nextRun = 1
  /\ interrupts = [s \in Sessions |-> 0]
  /\ retiring = {} /\ shutting = FALSE /\ doubled = {}
  /\ blocked = {} /\ brokerShut = FALSE
  /\ wk = [w \in Workers |-> FreeWorker]
  /\ intr = [i \in Interrupters |-> [pc |-> "idle", sess |-> None, tok |-> 0]]
  /\ del = [d \in Deleters |-> [pc |-> "idle", sess |-> None, join |-> None,
                                flag |-> None]]
  /\ shut = [pc |-> "idle", join |-> {}]
  /\ gui = [pc |-> "idle", sess |-> None, row |-> None, keep |-> 0]
  /\ rows = [s \in Sessions |-> <<>>]
  /\ present = Sessions
  /\ accepted = [s \in Sessions |-> <<>>]
  /\ taken = [s \in Sessions |-> <<>>]

(***************************************************************************)
(* Calls from the window's thread.                                         *)
(***************************************************************************)
Fresh(p) == \A s \in Sessions : \A i \in DOMAIN accepted[s] : accepted[s][i] # p

\* mutant: the newest prompt goes first
EnqueueFirst(s, p) ==
  /\ queue' = [queue EXCEPT ![s] = <<p>> \o @]
  /\ accepted' = [accepted EXCEPT ![s] = Append(@, p)]

Enqueue(s, p) ==
  /\ queue' = [queue EXCEPT ![s] = Append(@, p)]
  /\ accepted' = [accepted EXCEPT ![s] = Append(@, p)]

\* submit_prompt while a worker runs: the prepared row waits its turn
SubmitQueued(s, p) ==
  /\ gui.pc = "idle" /\ Fresh(p)
  /\ ~Refused(s) /\ running[s]
  /\ Enqueue(s, p)
  /\ UNCHANGED <<running, handle, flagOf, flag, token, nextRun, interrupts, wk,
                 lifeVars, brokVars, opVars, dbVars, taken>>

\* submit_prompt on an idle session: claim it and hand the row to a worker
SubmitSpawn(s, p) ==
  /\ gui.pc = "idle" /\ Fresh(p)
  /\ ~Refused(s) /\ Idle(s)
  /\ Spawn(s, p)
  /\ accepted' = [accepted EXCEPT ![s] = Append(@, p)]
  /\ taken' = [taken EXCEPT ![s] = Append(@, p)]
  /\ UNCHANGED <<queue, token, nextRun, interrupts, lifeVars, brokVars, opVars,
                 dbVars>>

\* inject_message: queues behind a worker, else leaves mu_ to append the row
InjectMessage(s, p) ==
  /\ gui.pc = "idle" /\ Fresh(p) /\ ~Refused(s)
  /\ IF running[s]
     THEN Enqueue(s, p) /\ UNCHANGED gui
     ELSE /\ gui' = [gui EXCEPT !.pc = "inject", !.sess = s, !.row = p]
          /\ accepted' = [accepted EXCEPT ![s] = Append(@, p)]
          /\ UNCHANGED queue
  /\ UNCHANGED <<running, handle, flagOf, flag, token, nextRun, interrupts, wk,
                 lifeVars, brokVars, intr, del, shut, dbVars, taken>>

\* ... and the append itself, which fails once the session's row is gone
InjectAppend ==
  /\ gui.pc = "inject"
  /\ gui' = [gui EXCEPT !.pc = "idle", !.sess = None, !.row = None]
  /\ \/ /\ gui.sess \in present
        /\ rows' = [rows EXCEPT ![gui.sess] = Append(@, gui.row)]
     \/ UNCHANGED rows                        \* DbError: surfaced, not stored
  /\ taken' = [taken EXCEPT ![gui.sess] = Append(@, gui.row)]
  /\ UNCHANGED <<mapVars, flag, token, nextRun, interrupts, wk, lifeVars,
                 brokVars, intr, del, shut, present, accepted>>

ContinueSession(s) ==
  /\ gui.pc = "idle" /\ ~Refused(s) /\ Idle(s)
  /\ Spawn(s, None)
  /\ UNCHANGED <<queue, token, nextRun, interrupts, lifeVars, brokVars, opVars,
                 dbVars, histVars>>

\* the window asks is_running() first; retry_last_turn reads the last
\* prompt's seq before it takes mu_ ...
RetryRead(s) ==
  /\ gui.pc = "idle" /\ rows[s] # <<>> /\ ~running[s]
  /\ gui' = [gui EXCEPT !.pc = "retry", !.sess = s, !.keep = Len(rows[s])]
  /\ UNCHANGED <<mapVars, flag, token, nextRun, interrupts, wk, lifeVars,
                 brokVars, intr, del, shut, dbVars, histVars>>

\* mutant: delete_messages_after deletes the prompt row too
RowsBefore(s) == SubSeq(rows[s], 1, gui.keep - 1)

\* delete_messages_after(last prompt)
RowsUpTo(s) ==
  SubSeq(rows[s], 1, IF gui.keep < Len(rows[s]) THEN gui.keep ELSE Len(rows[s]))

\* ... then truncates the transcript to it and spawns, unless refused
RetryRun ==
  LET s == gui.sess IN
  /\ gui.pc = "retry"
  /\ gui' = [gui EXCEPT !.pc = "idle", !.sess = None, !.keep = 0]
  /\ \/ /\ ~Refused(s) /\ Idle(s)
        /\ rows' = [rows EXCEPT ![s] = RowsUpTo(s)]
        /\ Spawn(s, None)
        /\ UNCHANGED queue
     \/ UNCHANGED <<mapVars, flag, wk, rows>>     \* refused, or DbError
  /\ UNCHANGED <<token, nextRun, interrupts, lifeVars, brokVars, intr, del,
                 shut, present, histVars>>

\* compact_now spawns its own worker, which does not wait for interrupts
CompactNow(s) ==
  /\ gui.pc = "idle" /\ s \in present /\ ~Refused(s) /\ Idle(s)
  /\ \E w \in Workers : SpawnAt(s, w, None, "mint", w, TRUE)
  /\ UNCHANGED <<queue, token, nextRun, interrupts, lifeVars, brokVars, opVars,
                 dbVars, histVars>>

(***************************************************************************)
(* The worker's turn.                                                      *)
(***************************************************************************)
WorkerKeeps == <<running, queue, handle, flagOf, flag, interrupts, lifeVars,
                 opVars, accepted>>

\* runner_main: wait out interrupts of the previous run, re-arm approvals
RunnerStart(w) ==
  LET s == wk[w].sess IN
  /\ wk[w].pc = "start" /\ InterruptsOver(s)
  /\ blocked' = blocked \ {s}
  /\ Goto(w, IF wk[w].row = None THEN "enter" ELSE "store")
  /\ UNCHANGED <<WorkerKeeps, token, nextRun, brokerShut, dbVars, taken>>

PromptDone(w, place) == Become(w, [wk[w] EXCEPT !.pc = place, !.row = None])

\* store_prompt_row: without its row the turn does not run
StorePromptRow(w) ==
  LET s == wk[w].sess IN
  /\ wk[w].pc = "store"
  /\ \/ /\ s \in present
        /\ rows' = [rows EXCEPT ![s] = Append(@, wk[w].row)]
        /\ PromptDone(w, "enter") \/ (MayThrow /\ PromptDone(w, "drain"))
     \/ UNCHANGED rows /\ PromptDone(w, "drain")   \* DbError: no row, no turn
  /\ UNCHANGED <<WorkerKeeps, token, nextRun, brokVars, present, taken>>

\* agentic_loop's prologue: fetch the flag, register this run's token
EnterLoop(w) ==
  LET s == wk[w].sess IN
  /\ wk[w].pc = "enter"
  /\ \/ /\ s \in present /\ flagOf[s] # None
        /\ Become(w, [wk[w] EXCEPT !.pc = "step", !.held = flagOf[s],
                            !.tok = nextRun, !.left = Steps])
        /\ token' = [token EXCEPT ![s] = nextRun]
        /\ nextRun' = nextRun + 1
     \/ Goto(w, "drain") /\ UNCHANGED <<token, nextRun>>  \* gone, no provider
  /\ UNCHANGED <<WorkerKeeps, brokVars, dbVars, taken>>

\* the compaction worker mints its token on its own thread
CompactMint(w) ==
  /\ wk[w].pc = "mint"
  /\ Become(w, [wk[w] EXCEPT !.pc = "ready", !.tok = nextRun])
  /\ token' = [token EXCEPT ![wk[w].sess] = nextRun]
  /\ nextRun' = nextRun + 1
  /\ UNCHANGED <<WorkerKeeps, brokVars, dbVars, taken>>

WorkerLocal(w) == UNCHANGED <<WorkerKeeps, token, nextRun, brokVars, dbVars, taken>>

\* mutant: ceiling_left is not looked at
BudgetUnbounded(w) == FALSE

BudgetSpent(w) == wk[w].left = 0

\* head of the loop: the budget and the interrupt flag
LoopStep(w) ==
  /\ wk[w].pc = "step"
  /\ Goto(w, IF BudgetSpent(w) \/ FlagUp(w) THEN "tail" ELSE "ready")
  /\ WorkerLocal(w)

\* Provider::stream registers the run's token; a cancel before it is a no-op
OpenStream(w) ==
  /\ wk[w].pc = "ready"
  /\ Become(w, [wk[w] EXCEPT !.pc = "streaming", !.cut = FALSE])
  /\ WorkerLocal(w)

\* a cut stream reports no finish; a finished one may carry tool calls
StreamEnds(w) ==
  /\ wk[w].pc = "streaming"
  /\ \E place \in {"tail", "call"} :
       /\ place = "call" => ~wk[w].cut /\ ~wk[w].compact
       /\ Become(w, [wk[w] EXCEPT !.pc = place, !.cut = FALSE])
  /\ WorkerLocal(w)

NextIteration(w) == [wk[w] EXCEPT !.pc = "step", !.left = @ - 1, !.wait = "none"]

\* the tool call: skipped once interrupted, else run; a gated one may ask
ToolCall(w) ==
  /\ wk[w].pc = "call"
  /\ \/ Become(w, NextIteration(w))
     \/ ~FlagUp(w) /\ MayApprove /\ Goto(w, "submit")
     \/ ~FlagUp(w) /\ MayAsk /\ Goto(w, "askreg")
  /\ WorkerLocal(w)

\* PermissionRequestBroker::submit: denied at once when blocked, else parked
SubmitApproval(w) ==
  /\ wk[w].pc = "submit"
  /\ Become(w, IF brokerShut \/ wk[w].sess \in blocked
               THEN [wk[w] EXCEPT !.pc = "tail"]
               ELSE [wk[w] EXCEPT !.pc = "approval", !.wait = "open"])
  /\ WorkerLocal(w)

\* the wait ends: a denial stops the turn
ApprovalDone(w) ==
  /\ wk[w].pc = "approval" /\ wk[w].wait # "open"
  /\ Become(w, IF wk[w].wait = "yes" THEN NextIteration(w)
               ELSE [wk[w] EXCEPT !.pc = "tail", !.wait = "none"])
  /\ WorkerLocal(w)

\* ask_user: register the question, publish it, park
AskOpen(w) ==
  /\ wk[w].pc = "askreg"
  /\ Become(w, [wk[w] EXCEPT !.pc = "asking", !.wait = "open"])
  /\ WorkerLocal(w)

AskDone(w) ==
  /\ wk[w].pc = "asking" /\ wk[w].wait # "open"
  /\ Become(w, NextIteration(w))
  /\ WorkerLocal(w)

\* run_turn_barried: an exception skips the loop's token clean-up; the
\* compaction worker's barrier does not
TurnThrows(w) ==
  /\ MayThrow /\ wk[w].pc \in {"step", "call", "streaming"}
  /\ Goto(w, IF wk[w].compact THEN "tail" ELSE "drain")
  /\ WorkerLocal(w)

\* end of the loop (or of the compaction): drop the run's token
LoopTail(w) ==
  /\ wk[w].pc = "tail"
  /\ token' = [token EXCEPT ![wk[w].sess] = 0]
  /\ Become(w, [wk[w] EXCEPT !.pc = "drain", !.left = 0])
  /\ UNCHANGED <<WorkerKeeps, nextRun, brokVars, dbVars, taken>>

(***************************************************************************)
(* drain_queue_and_finish.                                                 *)
(***************************************************************************)
\* stop, announce the end, or pop the next prompt with a fresh flag
DrainQueue(w) ==
  LET s == wk[w].sess IN
  /\ wk[w].pc = "drain" /\ InterruptsOver(s)
  /\ \/ /\ Refused(s)
        /\ Goto(w, "stop")
        /\ UNCHANGED <<queue, flag, blocked, taken>>
     \/ /\ ~Refused(s) /\ queue[s] = <<>>
        /\ Goto(w, "flip")
        /\ UNCHANGED <<queue, flag, blocked, taken>>
     \/ /\ ~Refused(s) /\ queue[s] # <<>>
        /\ Become(w, [wk[w] EXCEPT !.pc = "store", !.row = Head(queue[s]),
                            !.compact = FALSE])
        /\ queue' = [queue EXCEPT ![s] = Tail(@)]
        /\ flag' = IF flagOf[s] = None THEN flag
                   ELSE [flag EXCEPT ![flagOf[s]] = "down"]
        /\ blocked' = blocked \ {s}
        /\ taken' = [taken EXCEPT ![s] = Append(@, Head(queue[s]))]
  /\ UNCHANGED <<running, handle, flagOf, token, nextRun, interrupts, lifeVars,
                 brokerShut, opVars, dbVars, accepted>>

MayGoIdle(s) == shutting \/ queue[s] = <<>>

\* mutant: the queue is not cleared
GoIdleKeepsQueue(w) ==
  /\ Become(w, Exited)
  /\ running' = [running EXCEPT ![wk[w].sess] = FALSE]
  /\ UNCHANGED queue

GoIdle(w) ==
  /\ Become(w, Exited)
  /\ queue' = [queue EXCEPT ![wk[w].sess] = <<>>]
  /\ running' = [running EXCEPT ![wk[w].sess] = FALSE]

\* after TurnEnded was published: idle only if no prompt raced in
FlipIdle(w) ==
  /\ wk[w].pc = "flip"
  /\ IF MayGoIdle(wk[w].sess) THEN GoIdle(w)
     ELSE Goto(w, "drain") /\ UNCHANGED <<running, queue>>
  /\ UNCHANGED <<handle, flagOf, flag, token, nextRun, interrupts, lifeVars,
                 brokVars, opVars, dbVars, histVars>>

StopDrain(w) ==
  /\ wk[w].pc = "stop"
  /\ GoIdle(w)
  /\ UNCHANGED <<handle, flagOf, flag, token, nextRun, interrupts, lifeVars,
                 brokVars, opVars, dbVars, histVars>>

(***************************************************************************)
(* Cancelling: what interrupt, delete_session and shutdown do to workers.  *)
(***************************************************************************)
Parked(w, place) == wk[w].pc = place /\ wk[w].wait = "open"

CancelStreams(W) ==
  wk' = [w \in Workers |->
           IF w \in W /\ wk[w].pc = "streaming" THEN [wk[w] EXCEPT !.cut = TRUE]
           ELSE wk[w]]

\* the streams Provider::cancel(token) matches; callers skip an empty token
StreamsOf(tok) == {w \in Workers : tok # 0 /\ wk[w].tok = tok}

\* mutant: the waits of every session are cancelled
CancelEveryWait(S, place) ==
  wk' = [w \in Workers |->
           IF Parked(w, place) THEN [wk[w] EXCEPT !.wait = "no"] ELSE wk[w]]

CancelWaits(S, place) ==
  wk' = [w \in Workers |->
           IF wk[w].sess \in S /\ Parked(w, place)
           THEN [wk[w] EXCEPT !.wait = "no"] ELSE wk[w]]

\* mutant: parked requests are denied, later ones are let through
BlockNothing(s) == blocked

\* cancel_session also denies the session's requests until it is re-armed
Block(s) == blocked \cup {s}

\* mutant: the thread handle is dropped without a join
Abandoned(w) == TRUE

\* std::thread::join of a handle that may be empty
Joined(w) == w # None => wk[w].pc = "done"

OpKeeps == <<mapVars, token, nextRun, lifeVars, dbVars, histVars>>

(***************************************************************************)
(* interrupt(session).                                                     *)
(***************************************************************************)
InterruptMark(i, s) ==
  /\ intr[i].pc = "idle" /\ shut.pc # "done"
  /\ intr' = [intr EXCEPT ![i] = [pc |-> "stream", sess |-> s, tok |-> token[s]]]
  /\ interrupts' = [interrupts EXCEPT ![s] = @ + 1]
  /\ flag' = IF flagOf[s] = None THEN flag ELSE [flag EXCEPT ![flagOf[s]] = "up"]
  /\ UNCHANGED <<OpKeeps, brokVars, wk, del, shut, gui>>

InterruptStream(i) ==
  /\ intr[i].pc = "stream"
  /\ CancelStreams(StreamsOf(intr[i].tok))
  /\ intr' = [intr EXCEPT ![i].pc = "asks"]
  /\ UNCHANGED <<OpKeeps, interrupts, flag, brokVars, del, shut, gui>>

InterruptAsks(i) ==
  /\ intr[i].pc = "asks"
  /\ CancelWaits({intr[i].sess}, "asking")
  /\ intr' = [intr EXCEPT ![i].pc = "approvals"]
  /\ UNCHANGED <<OpKeeps, interrupts, flag, brokVars, del, shut, gui>>

InterruptApprovals(i) ==
  /\ intr[i].pc = "approvals"
  /\ CancelWaits({intr[i].sess}, "approval")
  /\ blocked' = Block(intr[i].sess)
  /\ intr' = [intr EXCEPT ![i].pc = "leave"]
  /\ UNCHANGED <<OpKeeps, interrupts, flag, brokerShut, del, shut, gui>>

\* mutant: interrupts_in_progress_ is left as it was
InterruptLeaveUncounted(i) ==
  /\ intr[i].pc = "leave"
  /\ intr' = [intr EXCEPT ![i] = [pc |-> "done", sess |-> None, tok |-> 0]]
  /\ UNCHANGED <<OpKeeps, interrupts, flag, brokVars, wk, del, shut, gui>>

InterruptLeave(i) ==
  /\ intr[i].pc = "leave"
  /\ interrupts' = [interrupts EXCEPT ![intr[i].sess] = @ - 1]
  /\ intr' = [intr EXCEPT ![i] = [pc |-> "done", sess |-> None, tok |-> 0]]
  /\ UNCHANGED <<OpKeeps, flag, brokVars, wk, del, shut, gui>>

(***************************************************************************)
(* delete_session(session).                                                *)
(***************************************************************************)
Deleting(s) == \E d \in Deleters : del[d].pc # "idle" /\ del[d].sess = s

DeleteMark(d, s) ==
  /\ del[d].pc = "idle" /\ ~shutting /\ s \in present
  /\ retiring' = retiring \cup {s}
  /\ queue' = [queue EXCEPT ![s] = <<>>]
  /\ taken' = [taken EXCEPT ![s] = @ \o queue[s]]
  /\ flag' = IF flagOf[s] = None THEN flag ELSE [flag EXCEPT ![flagOf[s]] = "up"]
  /\ del' = [del EXCEPT ![d] = [pc |-> "stream", sess |-> s, join |-> handle[s],
                                flag |-> flagOf[s]]]
  /\ handle' = [handle EXCEPT ![s] = None]
  /\ doubled' = IF Deleting(s) THEN doubled \cup {s} ELSE doubled
  /\ UNCHANGED <<running, flagOf, token, nextRun, interrupts, shutting, brokVars,
                 wk, intr, shut, gui, dbVars, accepted>>

DeleteStream(d) ==
  /\ del[d].pc = "stream"
  /\ CancelStreams(StreamsOf(token[del[d].sess]))
  /\ del' = [del EXCEPT ![d].pc = "asks"]
  /\ UNCHANGED <<OpKeeps, interrupts, flag, brokVars, intr, shut, gui>>

DeleteAsks(d) ==
  /\ del[d].pc = "asks"
  /\ CancelWaits({del[d].sess}, "asking")
  /\ del' = [del EXCEPT ![d].pc = "approvals"]
  /\ UNCHANGED <<OpKeeps, interrupts, flag, brokVars, intr, shut, gui>>

DeleteApprovals(d) ==
  /\ del[d].pc = "approvals"
  /\ CancelWaits({del[d].sess}, "approval")
  /\ blocked' = Block(del[d].sess)
  /\ del' = [del EXCEPT ![d].pc = "join"]
  /\ UNCHANGED <<OpKeeps, interrupts, flag, brokerShut, intr, shut, gui>>

DeleteJoin(d) ==
  /\ del[d].pc = "join"
  /\ Joined(del[d].join)
  /\ del' = [del EXCEPT ![d].pc = "rows", ![d].join = None]
  /\ UNCHANGED <<OpKeeps, interrupts, flag, brokVars, wk, intr, shut, gui>>

DeleteRows(d) ==
  /\ del[d].pc = "rows"
  /\ present' = present \ {del[d].sess}
  /\ rows' = [rows EXCEPT ![del[d].sess] = <<>>]
  /\ del' = [del EXCEPT ![d].pc = "clear"]
  /\ UNCHANGED <<mapVars, flag, token, nextRun, interrupts, lifeVars, brokVars,
                 wk, intr, shut, gui, histVars>>

IdleDelete == [pc |-> "idle", sess |-> None, join |-> None, flag |-> None]

\* the store refused: roll the mark back and leave the session usable
DeleteFails(d) ==
  LET s == del[d].sess IN
  /\ del[d].pc = "rows"
  /\ retiring' = retiring \ {s}
  /\ running' = [running EXCEPT ![s] = FALSE]
  /\ flag' = IF del[d].flag = None THEN flag
             ELSE [flag EXCEPT ![del[d].flag] = "down"]
  /\ del' = [del EXCEPT ![d] = IdleDelete]
  /\ UNCHANGED <<queue, handle, flagOf, token, nextRun, interrupts, shutting,
                 doubled, brokVars, wk, intr, shut, gui, dbVars, histVars>>

\* every in-memory trace goes, interrupts_in_progress_ included
DeleteClear(d) ==
  LET s == del[d].sess IN
  /\ del[d].pc = "clear"
  /\ running' = [running EXCEPT ![s] = FALSE]
  /\ queue' = [queue EXCEPT ![s] = <<>>]
  /\ token' = [token EXCEPT ![s] = 0]
  /\ interrupts' = [interrupts EXCEPT ![s] = 0]
  /\ flagOf' = [flagOf EXCEPT ![s] =
                  IF del[d].flag # None /\ @ = del[d].flag THEN None ELSE @]
  /\ flag' = IF del[d].flag = None THEN flag
             ELSE [flag EXCEPT ![del[d].flag] = "freed"]
  /\ del' = [del EXCEPT ![d] = IdleDelete]
  /\ UNCHANGED <<handle, nextRun, lifeVars, brokVars, wk, intr, shut, gui,
                 dbVars, histVars>>

(***************************************************************************)
(* shutdown(), called once the lifecycle threads have been joined.         *)
(***************************************************************************)
ShutdownMark ==
  /\ shut.pc = "idle"
  /\ \A d \in Deleters : del[d].pc = "idle"
  /\ shutting' = TRUE
  /\ flag' = [w \in Workers |-> IF \E s \in Sessions : flagOf[s] = w THEN "up"
                                ELSE flag[w]]
  /\ shut' = [pc |-> "asks",
              join |-> {w \in Workers : \E s \in Sessions : handle[s] = w}]
  /\ handle' = [s \in Sessions |-> None]
  /\ UNCHANGED <<running, queue, flagOf, token, nextRun, interrupts, retiring,
                 doubled, brokVars, wk, intr, del, gui, dbVars, histVars>>

ShutdownAsks ==
  /\ shut.pc = "asks"
  /\ CancelWaits(Sessions, "asking")
  /\ shut' = [shut EXCEPT !.pc = "approvals"]
  /\ UNCHANGED <<OpKeeps, interrupts, flag, brokVars, intr, del, gui>>

\* mutant: later submissions are not denied
ShutdownApprovalsOnce ==
  /\ shut.pc = "approvals"
  /\ CancelWaits(Sessions, "approval")
  /\ shut' = [shut EXCEPT !.pc = "stream"]
  /\ UNCHANGED <<OpKeeps, interrupts, flag, brokVars, intr, del, gui>>

ShutdownApprovals ==
  /\ shut.pc = "approvals"
  /\ CancelWaits(Sessions, "approval")
  /\ brokerShut' = TRUE
  /\ shut' = [shut EXCEPT !.pc = "stream"]
  /\ UNCHANGED <<OpKeeps, interrupts, flag, blocked, intr, del, gui>>

\* an empty token sweeps every stream of the providers snapshotted by the mark;
\* a run that registers its provider later finds its flag up and opens none
ShutdownStreams ==
  /\ shut.pc = "stream"
  /\ CancelStreams(Workers)
  /\ shut' = [shut EXCEPT !.pc = "join"]
  /\ UNCHANGED <<OpKeeps, interrupts, flag, brokVars, intr, del, gui>>

ShutdownJoin ==
  /\ shut.pc = "join"
  /\ \A w \in shut.join : Joined(w)
  /\ flag' = [w \in Workers |-> IF \E s \in Sessions : flagOf[s] = w THEN "freed"
                                ELSE flag[w]]
  /\ shut' = [pc |-> "clear", join |-> {}]
  /\ UNCHANGED <<OpKeeps, interrupts, brokVars, wk, intr, del, gui>>

ShutdownClear ==
  /\ shut.pc = "clear"
  /\ flagOf' = [s \in Sessions |-> None]
  /\ token' = [s \in Sessions |-> 0]
  /\ shut' = [shut EXCEPT !.pc = "done"]
  /\ UNCHANGED <<running, queue, handle, flag, nextRun, interrupts, lifeVars,
                 brokVars, wk, intr, del, gui, dbVars, histVars>>

(***************************************************************************)
(* The user answers what a worker is parked on.                            *)
(***************************************************************************)
UserDecides(w, answer) ==
  /\ Parked(w, "approval")
  /\ Become(w, [wk[w] EXCEPT !.wait = answer])
  /\ WorkerLocal(w)

ReplyToAsk(w) ==
  /\ Parked(w, "asking")
  /\ Become(w, [wk[w] EXCEPT !.wait = "yes"])
  /\ WorkerLocal(w)

(***************************************************************************)
(* Specification.                                                          *)
(***************************************************************************)
WorkerStep(w) ==
  \/ RunnerStart(w) \/ StorePromptRow(w) \/ EnterLoop(w) \/ CompactMint(w)
  \/ LoopStep(w) \/ OpenStream(w) \/ StreamEnds(w) \/ ToolCall(w)
  \/ SubmitApproval(w) \/ ApprovalDone(w) \/ AskOpen(w) \/ AskDone(w)
  \/ TurnThrows(w) \/ LoopTail(w) \/ DrainQueue(w) \/ FlipIdle(w) \/ StopDrain(w)

InterruptStep(i) ==
  \/ InterruptStream(i) \/ InterruptAsks(i) \/ InterruptApprovals(i)
  \/ InterruptLeave(i)

DeleteStep(d) ==
  \/ DeleteStream(d) \/ DeleteAsks(d) \/ DeleteApprovals(d) \/ DeleteJoin(d)
  \/ DeleteRows(d) \/ DeleteFails(d) \/ DeleteClear(d)

ShutdownStep ==
  \/ ShutdownAsks \/ ShutdownApprovals \/ ShutdownStreams \/ ShutdownJoin
  \/ ShutdownClear

GuiStep == InjectAppend \/ RetryRun

UserStep ==
  \/ \E s \in Sessions, p \in Prompts :
       SubmitQueued(s, p) \/ SubmitSpawn(s, p) \/ InjectMessage(s, p)
  \/ \E s \in Sessions : ContinueSession(s) \/ RetryRead(s) \/ CompactNow(s)
  \/ \E w \in Workers : (\E a \in {"yes", "no"} : UserDecides(w, a)) \/ ReplyToAsk(w)
  \/ \E i \in Interrupters, s \in Sessions : InterruptMark(i, s)
  \/ \E d \in Deleters, s \in Sessions : DeleteMark(d, s)
  \/ ShutdownMark

Next ==
  \/ UserStep \/ GuiStep \/ ShutdownStep
  \/ \E w \in Workers : WorkerStep(w)
  \/ \E i \in Interrupters : InterruptStep(i)
  \/ \E d \in Deleters : DeleteStep(d)

Spec == Init /\ [][Next]_vars

\* Threads that are not blocked run; users are not obliged to do anything.
Fairness ==
  /\ \A w \in Workers : WF_vars(WorkerStep(w))
  /\ \A i \in Interrupters : WF_vars(InterruptStep(i))
  /\ \A d \in Deleters : WF_vars(DeleteStep(d))
  /\ WF_vars(ShutdownStep) /\ WF_vars(GuiStep)

FairSpec == Spec /\ Fairness

(***************************************************************************)
(* Properties.                                                             *)
(***************************************************************************)
InterruptRec == [pc: {"idle", "stream", "asks", "approvals", "leave", "done"},
                 sess: Sessions \cup {None}, tok: Nat]
DeleteRec == [pc: {"idle", "stream", "asks", "approvals", "join", "rows", "clear"},
              sess: Sessions \cup {None}, join: Workers \cup {None},
              flag: Workers \cup {None}]
ShutRec == [pc: {"idle", "asks", "approvals", "stream", "join", "clear", "done"},
            join: SUBSET Workers]
GuiRec == [pc: {"idle", "inject", "retry"}, sess: Sessions \cup {None},
           row: Prompts \cup {None}, keep: Nat]

\* Every variable ranges over what the engine's maps can hold.
TypeOK ==
  /\ running \in [Sessions -> BOOLEAN]
  /\ queue \in [Sessions -> Seq(Prompts)]
  /\ handle \in [Sessions -> Workers \cup {None}]
  /\ flagOf \in [Sessions -> Workers \cup {None}]
  /\ flag \in [Workers -> {"none", "down", "up", "freed"}]
  /\ token \in [Sessions -> Nat]
  /\ nextRun \in Nat \ {0}
  /\ interrupts \in [Sessions -> Int]
  /\ retiring \in SUBSET Sessions /\ shutting \in BOOLEAN
  /\ doubled \in SUBSET Sessions
  /\ blocked \in SUBSET Sessions /\ brokerShut \in BOOLEAN
  /\ wk \in [Workers -> WorkerRec]
  /\ intr \in [Interrupters -> InterruptRec] /\ del \in [Deleters -> DeleteRec]
  /\ shut \in ShutRec /\ gui \in GuiRec
  /\ rows \in [Sessions -> Seq(Prompts)] /\ present \in SUBSET Sessions
  /\ accepted \in [Sessions -> Seq(Prompts)]
  /\ taken \in [Sessions -> Seq(Prompts)]

\* Nothing in the engine or in the application keeps two delete_session()
\* calls for one session apart, and what the properties below promise then
\* fails for that session (RowsAlwaysLast).  They are stated for the sessions
\* whose deletes came one at a time; the deletes of other sessions may overlap.
Orderly == Sessions \ doubled

\* A session never has two foreground workers, and session_running_ says
\* exactly whether it has one: the claim the submit, continue, retry and
\* compact paths make under mu_ holds until that worker's idle flip.
OneRunner ==
  \A s \in Orderly :
    /\ \A w, v \in Workers :
         (Live(w) /\ Live(v) /\ wk[w].sess = s /\ wk[v].sess = s) => w = v
    /\ running[s] <=> \E w \in Workers : Live(w) /\ wk[w].sess = s

\* A prompt row waits in prompt_queue_ only behind a live worker, which will
\* look at the queue again before it lets the session go idle.
NoStrandedPrompt == \A s \in Orderly : queue[s] # <<>> => running[s]

Injected(s) == IF gui.pc = "inject" /\ gui.sess = s THEN <<gui.row>> ELSE <<>>

\* Short of shutdown the accepted prompts of a session are, in this order,
\* those already handed to a turn, the one inject_message is about to append
\* and those queued: submit, inject, the idle flip, an interrupt or a failed
\* turn neither drop, repeat nor reorder one.  delete_session discards only
\* what is queued when it marks the session.
PromptsInOrder ==
  \A s \in Orderly : shutting \/ accepted[s] = taken[s] \o Injected(s) \o queue[s]

\* "Rows go last": once delete_session removed a session's rows, no worker
\* that could write them is alive.
RowsLast ==
  \A s \in Orderly \ present : \A w \in Workers : wk[w].sess = s => ~Live(w)

\* "Rows go last", as delete_session() says it, of every session: a second
\* delete finds no thread to join and removes the rows under the worker the
\* first one still waits for.
RowsAlwaysLast ==
  \A s \in Sessions \ present : \A w \in Workers : wk[w].sess = s => ~Live(w)

\* The interrupt flag a turn polls is never deleted under it, neither by the
\* next spawn nor by delete_session nor by shutdown.
HeldFlagAlive ==
  \A w \in Workers :
    (Live(w) /\ wk[w].sess \in Orderly /\ wk[w].held # None) =>
    flag[wk[w].held] # "freed"

InTurn(w) == wk[w].pc \in {"step", "ready", "streaming", "call", "submit",
                           "approval", "askreg", "asking"}

\* An interrupt that stopped one turn does not deny the approvals of the
\* next: a turn whose flag is down is not in the broker's blocked set.
NextTurnNotPoisoned ==
  \A w \in Workers :
    (wk[w].sess \in Orderly /\ InTurn(w) /\ ~wk[w].compact /\ ~FlagUp(w)) =>
    wk[w].sess \notin blocked

\* Stopping hits the run it was meant for: a stream is cut, and a parked
\* question or approval is denied by another thread, only in a run whose own
\* interrupt flag is up.
StopsOnlyItsRun ==
  [][\A w \in Workers :
       \/ ~wk[w].cut /\ wk'[w].cut
       \/ /\ wk[w].wait = "open" /\ wk'[w].wait = "no"
          /\ <<intr, del, shut>>' # <<intr, del, shut>>
       => FlagUp(w) \/ wk[w].sess \in doubled]_vars

\* A stored prompt row leaves the transcript only with its whole session:
\* retry_last_turn truncates behind the last prompt, never a prompt.
PromptRowsStay ==
  [][\A s \in Orderly :
       \/ s \notin present'
       \/ /\ Len(rows[s]) <= Len(rows'[s])
          /\ SubSeq(rows'[s], 1, Len(rows[s])) = rows[s]]_vars

\* delete_session returns: the cancels it issues bring every worker it joins
\* to its exit.
DeleteEnds ==
  \A d \in Deleters :
    del[d].pc # "idle" ~> del[d].pc = "idle" \/ del[d].sess \in doubled

\* shutdown() returns, whatever the workers were doing when it was called.
ShutdownEnds == shutting ~> shut.pc = "done"

\* A turn whose interrupt flag was raised stops: its worker leaves the turn.
InterruptStops ==
  \A w \in Workers : (InTurn(w) /\ FlagUp(w)) ~> ~InTurn(w)

\* A queued prompt is eventually taken by its session's worker (or discarded
\* by a delete or a shutdown), unless the worker waits for the user.
QueuedRuns ==
  \A s \in Sessions, p \in Prompts :
    (\E i \in DOMAIN queue[s] : queue[s][i] = p) ~>
      \/ ~\E i \in DOMAIN queue[s] : queue[s][i] = p
      \/ \E w \in Workers : /\ wk[w].sess = s
                            /\ Parked(w, "approval") \/ Parked(w, "asking")
=============================================================================
