--------------------------- MODULE TranscriptView ---------------------------
(***************************************************************************)
(* A window that follows a session's transcript while the engine writes    *)
(* it.  The engine's worker stores rows and streams text under             *)
(* in_flight_mu_ and announces both afterwards, outside the lock; the      *)
(* relay posts what concerns the active session to the window's mailbox;   *)
(* the window loads the rows and the in-flight text in one critical        *)
(* section and drops the announcements that the load already covered.      *)
(* A row is the sequence of pieces the window renders for it.  Reasoning   *)
(* text (a second buffer with the same rules), the lines that are never    *)
(* stored (errors, notices) and the note about malformed tool calls, which *)
(* only a reload shows, are left out.                                      *)
(***************************************************************************)
EXTENDS Integers, Sequences, FiniteSets

CONSTANTS
  Sessions,     \* sessions of the sidebar
  Talking,      \* those that run turns
  MaxPrompts,   \* bound: prompts per session
  MaxSteps,     \* bound: requests per session
  MaxBytes,     \* bound: deltas per request
  MaxCalls,     \* bound: tool calls per session
  MaxLoads,     \* bound: transcript loads
  MaxQueue      \* messages the window's port holds; a sender waits for room

ASSUME ViewAssumption ==
  /\ Talking \subseteq Sessions /\ Sessions # {}
  /\ {MaxPrompts, MaxSteps, MaxBytes, MaxCalls, MaxLoads, MaxQueue} \subseteq Nat

VARIABLES
  rows,       \* the stored transcript of each session, as rendered pieces
  rowGen,     \* row_gen_
  inFlight,   \* in_flight_: step and number of bytes, step 0 when erased
  worker,     \* the runner of each session
  relay,      \* GuiEventRelay::active_session_id_
  mailbox,    \* the window's message queue
  window,     \* active_session_id_, stream_step_id_, stream_text_floor_,
              \* loaded_row_gen_, and whether a load is under way
  shown,      \* the pieces in the chat view
  loads,      \* bound: loads so far
  cut,        \* history: steps whose calls are stored but did not all run: the
              \* answer had another finish reason, or a database failure
  clean       \* history: no load left the announcement of an earlier step
              \* in the mailbox

engine == <<rows, rowGen, inFlight, worker, cut>>
gui == <<relay, window, shown, loads, clean>>
vars == <<engine, gui, mailbox>>

\* pos: the byte of a step's text, or the call id, which some servers reuse
\* from step to step
Piece(s, kind, step, pos, val) ==
  [sess |-> s, kind |-> kind, step |-> step, pos |-> pos, val |-> val]
Byte(s, step, i) == Piece(s, "byte", step, i, "")
Bytes(s, step, n) == [i \in 1..n |-> Byte(s, step, i - 1)]
Calls(s, step, n) == [c \in 1..n |-> Piece(s, "call", step, c, "")]
IsByte(p) == p.kind = "byte"
IsRow(p) == p.kind # "byte"

NoStream == [step |-> 0, len |-> 0]
IdleWorker == [pc |-> "idle", prompts |-> 0, step |-> 0, made |-> 0, len |-> 0,
               calls |-> 0, c |-> 0, stop |-> FALSE, gen |-> 0, callGen |-> 0, val |-> ""]

Init ==
  /\ rows = [s \in Sessions |-> <<>>]
  /\ rowGen = [s \in Sessions |-> 0]
  /\ inFlight = [s \in Sessions |-> NoStream]
  /\ worker = [s \in Sessions |-> IdleWorker]
  /\ relay \in Sessions
  /\ mailbox = <<>>
  /\ window = [sess |-> relay, step |-> 0, floor |-> 0, gen |-> 0, loading |-> FALSE]
  /\ shown = <<>>
  /\ loads = 0 /\ cut = {} /\ clean = TRUE

At(s, pc) == worker[s].pc = pc
Work(s, w) == worker' = [worker EXCEPT ![s] = w]
Goto(s, pc) == Work(s, [worker[s] EXCEPT !.pc = pc])
\* the locals of an iteration go out of scope
Rest(w, pc) ==
  [IdleWorker EXCEPT !.pc = pc, !.prompts = w.prompts, !.step = w.step, !.made = w.made]
Leave(s, pc) == Work(s, Rest(worker[s], pc))

\* append_transcript_row: row, generation and in-flight text in one section
AppendRow(s, pieces, endStream) ==
  /\ rows' = [rows EXCEPT ![s] = @ \o pieces]
  /\ rowGen' = [rowGen EXCEPT ![s] = @ + 1]
  /\ inFlight' = IF endStream THEN [inFlight EXCEPT ![s] = NoStream] ELSE inFlight

\* the relay's handler runs on the publishing thread
Publish(s, what, piece, gen) ==
  IF s = relay
  THEN /\ Len(mailbox) < MaxQueue
       /\ mailbox' = Append(mailbox, [what |-> what, piece |-> piece, gen |-> gen])
  ELSE UNCHANGED mailbox

(***************************************************************************)
(* The worker: prompt, requests, tool batch.                               *)
(***************************************************************************)
StorePrompt(s) ==
  /\ At(s, "idle") /\ worker[s].prompts < MaxPrompts
  /\ AppendRow(s, <<Piece(s, "prompt", 0, worker[s].prompts + 1, "")>>, FALSE)
  /\ Work(s, [worker[s] EXCEPT !.pc = "prompted", !.prompts = @ + 1, !.gen = rowGen[s] + 1])
  /\ UNCHANGED <<gui, mailbox, cut>>

PublishPrompt(s) ==
  /\ At(s, "prompted")
  /\ Publish(s, "row", Piece(s, "prompt", 0, worker[s].prompts, ""), worker[s].gen)
  /\ Leave(s, "loop")
  /\ UNCHANGED <<gui, rows, rowGen, inFlight, cut>>

\* the in-flight entry is registered before the step is announced
BeginStep(s) ==
  /\ At(s, "loop") /\ worker[s].step < MaxSteps
  /\ inFlight' = [inFlight EXCEPT ![s] = [step |-> worker[s].step + 1, len |-> 0]]
  /\ Work(s, [worker[s] EXCEPT !.pc = "announce", !.step = @ + 1, !.len = 0])
  /\ UNCHANGED <<gui, mailbox, rows, rowGen, cut>>

EndTurn(s) ==
  /\ At(s, "loop")
  /\ Goto(s, "idle")
  /\ UNCHANGED <<gui, mailbox, rows, rowGen, inFlight, cut>>

PublishStep(s) ==
  /\ At(s, "announce")
  /\ Publish(s, "step", Byte(s, worker[s].step, 0), 0)
  /\ Goto(s, "stream")
  /\ UNCHANGED <<gui, rows, rowGen, inFlight, cut>>

\* a request that failed before any output is sent and announced again
RetryRequest(s) ==
  /\ At(s, "stream") /\ worker[s].len = 0
  /\ Goto(s, "announce")
  /\ UNCHANGED <<gui, mailbox, rows, rowGen, inFlight, cut>>

\* record_in_flight, under the lock
Delta(s) ==
  /\ At(s, "stream") /\ worker[s].len < MaxBytes
  /\ inFlight' = [inFlight EXCEPT ![s].len = @ + 1]
  /\ Work(s, [worker[s] EXCEPT !.pc = "delta", !.len = @ + 1])
  /\ UNCHANGED <<gui, mailbox, rows, rowGen, cut>>

PublishDelta(s) ==
  /\ At(s, "delta")
  /\ Publish(s, "delta", Byte(s, worker[s].step, worker[s].len - 1), 0)
  /\ Goto(s, "stream")
  /\ UNCHANGED <<gui, rows, rowGen, inFlight, cut>>

\* the step failed, or the row could not be stored: the guard at the end of
\* the iteration drops the in-flight text, the turn is over
FailStep(s) ==
  /\ At(s, "stream")
  /\ inFlight' = [inFlight EXCEPT ![s] = NoStream]
  /\ Leave(s, "idle")
  /\ UNCHANGED <<gui, mailbox, rows, rowGen, cut>>

\* without calls there is nothing to run: the turn ends, or goes on because
\* malformed calls were dropped
EnterBatch(s, n) ==
  Work(s, IF n = 0 THEN Rest(worker[s], "loop")
          ELSE [Rest(worker[s], "call") EXCEPT !.made = @ + n, !.calls = n, !.c = 1,
                                               !.callGen = rowGen[s] + 1])

\* mutant: the row is stored, the in-flight text stays until the iteration ends
PersistKeepsStream(s, n) ==
  /\ At(s, "stream")
  /\ AppendRow(s, Bytes(s, worker[s].step, worker[s].len) \o Calls(s, worker[s].step, n), FALSE)
  /\ EnterBatch(s, n)
  /\ UNCHANGED <<gui, mailbox, cut>>

\* the stream ended or was interrupted: the assistant row, if there is any
\* output, takes the place of the in-flight text
Persist(s, n) ==
  /\ At(s, "stream")
  /\ IF worker[s].len = 0 /\ n = 0
     THEN /\ inFlight' = [inFlight EXCEPT ![s] = NoStream]
          /\ UNCHANGED <<rows, rowGen>>
     ELSE AppendRow(s, Bytes(s, worker[s].step, worker[s].len)
                       \o Calls(s, worker[s].step, n), TRUE)
  /\ EnterBatch(s, n)
  /\ UNCHANGED <<gui, mailbox, cut>>

\* "Break unless the model wanted to call tools": an answer that was cut off, or
\* whose stream ended early, has its calls in the row and runs none of them
BreakUnasked(s) ==
  /\ At(s, "call") /\ worker[s].c = 1
  /\ cut' = cut \cup {<<s, worker[s].step>>}
  /\ Leave(s, "idle")
  /\ UNCHANGED <<gui, mailbox, rows, rowGen, inFlight>>

PublishCall(s) ==
  /\ At(s, "call")
  /\ Publish(s, "row", Piece(s, "call", worker[s].step, worker[s].c, ""), worker[s].callGen)
  /\ Goto(s, "tool")
  /\ UNCHANGED <<gui, rows, rowGen, inFlight, cut>>

\* mutant: a stopped batch breaks out of the loop over the calls
BreakOnStop(w) ==
  IF w.c < w.calls /\ ~w.stop
  THEN [w EXCEPT !.pc = "call", !.c = @ + 1, !.gen = 0, !.val = ""]
  ELSE Rest(w, "loop")

NextCall(w) ==
  IF w.c < w.calls THEN [w EXCEPT !.pc = "call", !.c = @ + 1, !.gen = 0, !.val = ""]
  ELSE Rest(w, "loop")

\* a call runs unless an interrupt, a denial or a plan proposal stopped the
\* batch; either way its result row is stored
StoreResult(s, val) ==
  /\ At(s, "tool")
  /\ worker[s].stop => val = "skipped"
  /\ AppendRow(s, <<Piece(s, "result", worker[s].step, worker[s].c, val)>>, FALSE)
  /\ Work(s, [worker[s] EXCEPT !.pc = "result", !.val = val, !.gen = rowGen[s] + 1,
                               !.stop = @ \/ val \in {"skipped", "stopper"}])
  /\ UNCHANGED <<gui, mailbox, cut>>

\* the database refuses the row, or the rewrite of a placeholder: the exception
\* ends the turn
ResultFails(s) ==
  /\ At(s, "tool") \/ At(s, "ask")
  /\ cut' = cut \cup {<<s, worker[s].step>>}
  /\ Leave(s, "idle")
  /\ UNCHANGED <<gui, mailbox, rows, rowGen, inFlight>>

PublishResult(s) ==
  /\ At(s, "result")
  /\ Publish(s, "row", Piece(s, "result", worker[s].step, worker[s].c, worker[s].val),
             worker[s].gen)
  /\ Work(s, IF worker[s].val = "asked" THEN [worker[s] EXCEPT !.pc = "ask"]
             ELSE NextCall(worker[s]))
  /\ UNCHANGED <<gui, rows, rowGen, inFlight, cut>>

\* the newest result of a call id, in the store and in the chat view
Newest(q, pos) ==
  LET found == {i \in DOMAIN q : q[i].kind = "result" /\ q[i].pos = pos}
  IN  {i \in found : \A j \in found : j <= i}
Rewrite(q, pos, val) ==
  [i \in DOMAIN q |-> IF i \in Newest(q, pos) THEN [q[i] EXCEPT !.val = val] ELSE q[i]]

\* mutant: the rewrite keeps the generation of the placeholder
AnswerKeepsGen(s) ==
  /\ At(s, "ask")
  /\ rows' = [rows EXCEPT ![s] = Rewrite(@, worker[s].c, "answered")]
  /\ Goto(s, "answered")
  /\ UNCHANGED <<gui, mailbox, rowGen, inFlight, cut>>

\* the user's reply, or an interrupt's, replaces the placeholder row
Answer(s) ==
  /\ At(s, "ask")
  /\ rows' = [rows EXCEPT ![s] = Rewrite(@, worker[s].c, "answered")]
  /\ rowGen' = [rowGen EXCEPT ![s] = @ + 1]
  /\ Work(s, [worker[s] EXCEPT !.pc = "answered", !.gen = rowGen[s] + 1])
  /\ UNCHANGED <<gui, mailbox, inFlight, cut>>

PublishAnswer(s) ==
  /\ At(s, "answered")
  /\ Publish(s, "replace", Piece(s, "result", worker[s].step, worker[s].c, "answered"),
             worker[s].gen)
  /\ Work(s, NextCall(worker[s]))
  /\ UNCHANGED <<gui, rows, rowGen, inFlight, cut>>

(***************************************************************************)
(* The window: messages, session switch, /retry.                           *)
(***************************************************************************)
FromOtherSession(m) == m.piece.sess # window.sess
RowAlreadyLoaded(m) == m.gen > 0 /\ m.gen <= window.gen

\* mutant: the floor of the last load is ignored
AcceptStep(m) == ~FromOtherSession(m) /\ window.step = m.piece.step

\* mutant: the floor is taken for the last byte shown
AcceptAboveFloor(m) ==
  ~FromOtherSession(m) /\ window.step = m.piece.step /\ m.piece.pos > window.floor

AcceptStreamDelta(m) ==
  ~FromOtherSession(m) /\ window.step = m.piece.step /\ m.piece.pos >= window.floor

\* Prompted, ToolCalled and ToolResult
HandleRow(m) ==
  /\ m.what = "row"
  /\ shown' = IF FromOtherSession(m) \/ RowAlreadyLoaded(m) THEN shown
              ELSE Append(shown, m.piece)
  /\ UNCHANGED window

HandleReplace(m) ==
  /\ m.what = "replace"
  /\ shown' = IF FromOtherSession(m) \/ RowAlreadyLoaded(m) THEN shown
              ELSE IF Newest(shown, m.piece.pos) # {}
                   THEN Rewrite(shown, m.piece.pos, m.piece.val)
                   ELSE Append(shown, m.piece)
  /\ UNCHANGED window

HandleStep(m) ==
  /\ m.what = "step"
  /\ window' = IF FromOtherSession(m) \/ window.step = m.piece.step THEN window
               ELSE [window EXCEPT !.step = m.piece.step, !.floor = 0]
  /\ UNCHANGED shown

HandleDelta(m) ==
  /\ m.what = "delta"
  /\ shown' = IF AcceptStreamDelta(m) THEN Append(shown, m.piece) ELSE shown
  /\ UNCHANGED window

Handle ==
  /\ ~window.loading /\ mailbox # <<>>
  /\ LET m == Head(mailbox)
     IN  HandleRow(m) \/ HandleReplace(m) \/ HandleStep(m) \/ HandleDelta(m)
  /\ mailbox' = Tail(mailbox)
  /\ UNCHANGED <<engine, relay, loads, clean>>

\* _SelectSession up to the load: the relay is switched before it
Select(s) ==
  /\ ~window.loading /\ loads < MaxLoads /\ s # window.sess
  /\ window' = [window EXCEPT !.sess = s, !.loading = TRUE]
  /\ relay' = s /\ shown' = <<>>
  /\ loads' = loads + 1
  /\ UNCHANGED <<engine, mailbox, clean>>

Prompts(q) == {i \in DOMAIN q : q[i].kind = "prompt"}
ThroughLastPrompt(q) ==
  SubSeq(q, 1, CHOOSE i \in Prompts(q) : \A j \in Prompts(q) : j <= i)

\* retry_last_turn of an idle session, then the view is cleared for the load
Retry ==
  /\ ~window.loading /\ loads < MaxLoads
  /\ LET s == window.sess
     IN  /\ At(s, "idle") /\ Prompts(rows[s]) # {}
         /\ rows' = [rows EXCEPT ![s] = ThroughLastPrompt(@)]
         /\ Goto(s, "loop")
  /\ window' = [window EXCEPT !.loading = TRUE]
  /\ shown' = <<>> /\ loads' = loads + 1
  /\ UNCHANGED <<rowGen, inFlight, cut, relay, mailbox, clean>>

Behind(s, step) ==
  \E i \in DOMAIN mailbox :
    /\ mailbox[i].what = "step" /\ mailbox[i].piece.sess = s
    /\ mailbox[i].piece.step # step

\* mutant: the generation is not read with the rows
LoadWithoutGen ==
  /\ window.loading
  /\ LET s == window.sess
         f == inFlight[s]
     IN  /\ shown' = rows[s] \o Bytes(s, f.step, f.len)
         /\ window' = [window EXCEPT !.step = f.step, !.floor = f.len, !.loading = FALSE]
         /\ clean' = (clean /\ ~Behind(s, f.step))
  /\ UNCHANGED <<engine, relay, mailbox, loads>>

\* load_with_in_flight: rows, in-flight text and generation in one section
LoadHistory ==
  /\ window.loading
  /\ LET s == window.sess
         f == inFlight[s]
     IN  /\ shown' = rows[s] \o Bytes(s, f.step, f.len)
         /\ window' = [window EXCEPT !.step = f.step, !.floor = f.len, !.gen = rowGen[s],
                                     !.loading = FALSE]
         /\ clean' = (clean /\ ~Behind(s, f.step))
  /\ UNCHANGED <<engine, relay, mailbox, loads>>

(***************************************************************************)
(* Specification.                                                          *)
(***************************************************************************)
WorkerStep(s) ==
  \/ StorePrompt(s) \/ PublishPrompt(s) \/ BeginStep(s) \/ EndTurn(s)
  \/ PublishStep(s) \/ RetryRequest(s) \/ Delta(s) \/ PublishDelta(s) \/ FailStep(s)
  \/ \E n \in 0..(MaxCalls - worker[s].made) : Persist(s, n)
  \/ BreakUnasked(s) \/ PublishCall(s) \/ ResultFails(s)
  \/ \E val \in {"done", "stopper", "skipped", "asked"} : StoreResult(s, val)
  \/ PublishResult(s) \/ Answer(s) \/ PublishAnswer(s)

WindowStep == Handle \/ LoadHistory \/ Retry \/ \E s \in Sessions : Select(s)

Next == WindowStep \/ \E s \in Talking : WorkerStep(s)

Spec == Init /\ [][Next]_vars

(***************************************************************************)
(* Properties.                                                             *)
(***************************************************************************)
Kinds == {"prompt", "byte", "call", "result"}
Vals == {"", "done", "stopper", "skipped", "asked", "answered"}
Pieces == [sess: Sessions, kind: Kinds, step: 0..MaxSteps,
           pos: 0..(MaxPrompts + MaxBytes + MaxCalls), val: Vals]
IsSeqOf(q, S) == \A i \in DOMAIN q : q[i] \in S

\* What the engine, the relay and the window hold stays in its range.
TypeOK ==
  /\ \A s \in Sessions : IsSeqOf(rows[s], Pieces)
  /\ rowGen \in [Sessions -> Nat]
  /\ inFlight \in [Sessions -> [step: 0..MaxSteps, len: 0..MaxBytes]]
  /\ \A s \in Sessions :
       /\ worker[s].step \in 0..MaxSteps /\ worker[s].len \in 0..MaxBytes
       /\ worker[s].gen <= rowGen[s] /\ worker[s].callGen <= rowGen[s]
       /\ inFlight[s] # NoStream =>
            /\ At(s, "announce") \/ At(s, "stream") \/ At(s, "delta")
            /\ inFlight[s] = [step |-> worker[s].step, len |-> worker[s].len]
  /\ relay = window.sess /\ window.sess \in Sessions
  /\ IsSeqOf(shown, Pieces)

Distinct(q, Is(_)) ==
  \A i, j \in DOMAIN q :
    (Is(q[i]) /\ Is(q[j]) /\ i # j) =>
      <<q[i].kind, q[i].step, q[i].pos>> # <<q[j].kind, q[j].step, q[j].pos>>

\* A prompt, a tool call or a result is never shown twice, wherever between a
\* row, its announcement and its handling the window loads the transcript.
RowsOnce == Distinct(shown, IsRow)

\* everything recorded was announced, and the window handled it
Settled(s) ==
  /\ ~window.loading /\ worker[s].pc \in {"idle", "loop", "stream"}
  /\ \A i \in DOMAIN mailbox : mailbox[i].piece.sess # s

\* a stored batch lists its calls before its results, the live view each
\* result under its call: the two orders agree on calls and on the rest
IsCall(p) == p.kind = "call" /\ <<p.sess, p.step>> \notin cut
IsStep(p) == p.kind \in {"prompt", "result"}

\* q and r have the same pieces of a sort, each of them once, in one order
Alike(q, r, Is(_)) ==
  LET same == {x \in (DOMAIN q) \X (DOMAIN r) : Is(q[x[1]]) /\ q[x[1]] = r[x[2]]}
  IN  /\ \A i \in DOMAIN q : Is(q[i]) => \E x \in same : x[1] = i
      /\ \A k \in DOMAIN r : Is(r[k]) => \E x \in same : x[2] = k
      /\ \A x, y \in same : x[1] < y[1] <=> x[2] < y[2]

\* When the window has caught up with the session it shows, it shows that
\* session's stored rows, all of them, in order, with the answers in place; but
\* the calls that never ran (cut) are announced to nobody and show on a load.
RowsCaughtUp ==
  Settled(window.sess) =>
    /\ Alike(shown, rows[window.sess], IsCall)
    /\ Alike(shown, rows[window.sess], IsStep)

\* No byte of an answer is shown twice, whenever the window joined.  The
\* exception is a load with an older step's announcement still queued.
TextOnce == clean => Distinct(shown, IsByte)

\* bytes of a failed step stay on the screen until the next load
Kept(p) ==
  /\ p.kind # "call"
  /\ \/ IsRow(p) \/ p.step = inFlight[window.sess].step
     \/ \E i \in DOMAIN rows[window.sess] : rows[window.sess][i] = p

\* With the same exception the caught-up window shows exactly the rows and
\* the text that streams, nothing missing, nothing out of place.
TextCaughtUp ==
  (clean /\ Settled(window.sess)) =>
    LET s == window.sess
    IN  Alike(shown, rows[s] \o Bytes(s, inFlight[s].step, inFlight[s].len), Kept)

\* A recorded row is on the screen at most once, and a window that caught up
\* shows the stored rows in order (the calls of a batch that ran), whatever
\* load_with_in_flight, the relay's switch and the row generations overlapped.
RowsTold == RowsOnce /\ RowsCaughtUp

\* The streamed text likewise, as _AcceptStreamDelta filters it.
TextTold == TextOnce /\ TextCaughtUp

InBatch(s) == worker[s].pc \in {"call", "tool", "result", "ask", "answered"}

ResultsOf(q, call) ==
  {i \in DOMAIN q : q[i].kind = "result" /\ q[i].step = call.step /\ q[i].pos = call.pos}

Calling(s, i) ==
  rows[s][i].kind = "call" /\ ~(InBatch(s) /\ rows[s][i].step = worker[s].step)

\* "every recorded call receives either its real result or an explicit skipped
\* result below", for the batches that ran: through interrupts, denials, plan
\* proposals and questions each call has one result row when the loop over the
\* batch is over; after the first skipped call no later one was run, and no
\* question stays open.  Left out are the batches in cut.
BatchAnswered ==
  \A s \in Sessions : \A i \in DOMAIN rows[s] :
    LET call == rows[s][i]
    IN  (Calling(s, i) /\ <<s, call.step>> \notin cut) =>
          \E k \in DOMAIN rows[s] :
            /\ ResultsOf(rows[s], call) = {k} /\ k > i
            /\ rows[s][k].val # "asked"
            /\ rows[s][k].val \in {"skipped", "stopper"} =>
                 \A j \in (k + 1)..Len(rows[s]) :
                   (rows[s][j].kind = "result" /\ rows[s][j].step = call.step) =>
                     rows[s][j].val = "skipped"

\* "Every assistant tool batch is stored with a result for every call": the same
\* of every batch.  Not so for the calls BreakUnasked leaves in their row: see
\* the README's findings.
EveryCallAnswered ==
  \A s \in Sessions : \A i \in DOMAIN rows[s] :
    Calling(s, i) => ResultsOf(rows[s], rows[s][i]) # {}

\* What MainWindow::_AcceptStreamDelta says of the load: deltas of a step
\* that the load found persisted are dropped, so no byte is shown twice.
BytesOnce == Distinct(shown, IsByte)
=============================================================================
