-------------------------- MODULE TranscriptProofs --------------------------
(***************************************************************************)
(* Proofs about TranscriptView for every number of sessions, prompts,      *)
(* requests, deltas, calls and loads.                                      *)
(*                                                                         *)
(* A batch that is over has one result per call, stored before the next    *)
(* prompt, so that /retry drops whole batches; a batch the worker is in    *)
(* has the results of the calls below its place and no others; and the row *)
(* a reply replaces is the last row of its session.                        *)
(*                                                                         *)
(* What the window shows, what waits in its port and what the worker is    *)
(* about to announce tell each stored row once and in order.               *)
(***************************************************************************)
EXTENDS TranscriptView, SequenceTheorems, WellFoundedInduction, TLAPS

(***************************************************************************)
(* Types.                                                                  *)
(***************************************************************************)
Positions == 0..(MaxPrompts + MaxBytes + MaxCalls)
Places == {"idle", "prompted", "loop", "announce", "stream", "delta",
           "call", "tool", "result", "ask", "answered"}
WorkerRec == [pc: Places, prompts: 0..MaxPrompts, step: 0..MaxSteps, made: 0..MaxCalls,
              len: 0..MaxBytes, calls: 0..MaxCalls, c: 0..MaxCalls, stop: BOOLEAN,
              gen: Nat, callGen: Nat, val: Vals]
StreamRec == [step: 0..MaxSteps, len: 0..MaxBytes]
WindowRec == [sess: Sessions, step: 0..MaxSteps, floor: 0..MaxBytes, gen: Nat, loading: BOOLEAN]
MessageRec == [what: {"row", "replace", "step", "delta"}, piece: Pieces, gen: Nat]

ViewTypes ==
  /\ rows \in [Sessions -> Seq(Pieces)]
  /\ rowGen \in [Sessions -> Nat]
  /\ inFlight \in [Sessions -> StreamRec]
  /\ worker \in [Sessions -> WorkerRec]
  /\ relay \in Sessions
  /\ mailbox \in Seq(MessageRec)
  /\ window \in WindowRec
  /\ shown \in Seq(Pieces)
  /\ loads \in Nat /\ clean \in BOOLEAN
  /\ cut \in SUBSET (Sessions \X (0..MaxSteps))

\* what the worker of a session has at its place
PlaceOK(s, w, gen, f) ==
  /\ w.gen <= gen /\ w.callGen <= gen
  /\ IF w.pc \in {"announce", "stream", "delta"}
     THEN f = [step |-> w.step, len |-> w.len] /\ w.step > 0
     ELSE f = NoStream
  /\ w.pc = "delta" => w.len > 0
  /\ w.pc \in {"call", "tool", "result", "ask", "answered"} => w.c \in 1..w.calls

PlaceInv == \A s \in Sessions : PlaceOK(s, worker[s], rowGen[s], inFlight[s])

TypesInv == ViewTypes /\ PlaceInv /\ relay = window.sess

(***************************************************************************)
(* The rows of a session, and the batch its worker is in.                  *)
(***************************************************************************)
Batching(w) == w.pc \in {"call", "tool", "result", "ask", "answered"}
Streaming(w) == w.pc \in {"announce", "stream", "delta"}

\* calls of the batch below this one have their result
Answered(w) == IF w.pc \in {"call", "tool"} THEN w.c - 1 ELSE w.c

\* k is the one result of the call at i
IsAnswer(q, i, k) == k \in DOMAIN q /\ ResultsOf(q, q[i]) = {k} /\ k > i

\* a call of a batch that is over: one result before the next prompt, no open question
CallSettled(q, i) ==
  \E k \in DOMAIN q : /\ IsAnswer(q, i, k) /\ q[k].val # "asked"
                      /\ \A j \in DOMAIN q : q[j].kind = "prompt" /\ j > i => j > k

Open(w) == w.pc = "ask" \/ (w.pc = "result" /\ w.val = "asked")

\* a call of the batch the worker is in
CallInBatch(q, w, i) ==
  /\ q[i].pos \in 1..w.calls
  /\ \A j \in DOMAIN q : q[j].kind = "prompt" => j < i
  /\ IF q[i].pos <= Answered(w)
     THEN \E k \in DOMAIN q : /\ IsAnswer(q, i, k)
                              /\ q[k].val = "asked" => Open(w) /\ k = Len(q)
     ELSE ResultsOf(q, q[i]) = {}

\* after a skipped or stopping call of a step every result is a skip
SkipsStay(q) ==
  \A k, j \in DOMAIN q :
    /\ k < j /\ q[k].kind = "result" /\ q[j].kind = "result" /\ q[k].step = q[j].step
    /\ q[k].val \in {"skipped", "stopper"}
    => q[j].val = "skipped"

BatchOK(s, q, w, gone) ==
  /\ \A i \in DOMAIN q : q[i].kind \in {"call", "result"} =>
       q[i].step <= w.step /\ (Streaming(w) => q[i].step < w.step)
  /\ SkipsStay(q)
  /\ Batching(w) => \A i \in DOMAIN q :
       /\ q[i].kind = "result" /\ q[i].step = w.step => q[i].pos <= Answered(w)
       /\ q[i].kind = "result" /\ q[i].step = w.step /\ q[i].val \in {"skipped", "stopper"} => w.stop
  /\ w.pc \in {"result", "ask"} =>
       /\ q # <<>>
       /\ q[Len(q)] = Piece(s, "result", w.step, w.c, IF w.pc = "ask" THEN "asked" ELSE w.val)
  /\ \A i \in DOMAIN q : q[i].kind = "call" /\ <<s, q[i].step>> \notin gone =>
       IF Batching(w) /\ q[i].step = w.step THEN CallInBatch(q, w, i) ELSE CallSettled(q, i)

BatchInv == \A s \in Sessions : BatchOK(s, rows[s], worker[s], cut)

ViewInv == TypesInv /\ BatchInv

LEMMA Bounds ==
  /\ MaxPrompts \in Nat /\ MaxSteps \in Nat /\ MaxBytes \in Nat /\ MaxCalls \in Nat
  /\ Talking \subseteq Sessions
BY ViewAssumption DEF ViewAssumption

(***************************************************************************)
(* Sequences of rows.                                                      *)
(***************************************************************************)
LEMMA PieceFacts ==
  ASSUME NEW q \in Seq(Pieces), NEW i \in DOMAIN q
  PROVE  /\ q[i] \in Pieces /\ q[i].step \in Nat /\ q[i].pos \in Nat
         /\ DOMAIN q = 1..Len(q) /\ Len(q) \in Nat
<1>1. q[i] \in Pieces
  OBVIOUS
<1> QED BY <1>1, Bounds DEF Pieces

LEMMA WorkerFacts ==
  ASSUME NEW w \in WorkerRec
  PROVE  /\ w.step \in Nat /\ w.c \in Nat /\ w.calls \in Nat /\ w.len \in Nat /\ w.made \in Nat
         /\ w.prompts \in Nat /\ w.gen \in Nat /\ w.callGen \in Nat /\ w.stop \in BOOLEAN
         /\ w.pc \in Places /\ w.val \in Vals
  BY Bounds DEF WorkerRec

LEMMA WorkerRanges ==
  ASSUME NEW w \in WorkerRec
  PROVE  /\ w.prompts \in 0..MaxPrompts /\ w.step \in 0..MaxSteps /\ w.made \in 0..MaxCalls
         /\ w.len \in 0..MaxBytes /\ w.calls \in 0..MaxCalls /\ w.c \in 0..MaxCalls
  BY DEF WorkerRec

LEMMA PieceMade ==
  ASSUME NEW s \in Sessions, NEW kind \in Kinds, NEW step \in 0..MaxSteps,
         NEW pos \in Positions, NEW val \in Vals
  PROVE  /\ Piece(s, kind, step, pos, val) \in Pieces
         /\ Piece(s, kind, step, pos, val).kind = kind /\ Piece(s, kind, step, pos, val).step = step
         /\ Piece(s, kind, step, pos, val).pos = pos /\ Piece(s, kind, step, pos, val).val = val
  BY DEF Piece, Pieces, Positions

LEMMA InPositions ==
  /\ 0..MaxPrompts \subseteq Positions /\ 0..MaxBytes \subseteq Positions
  /\ 0..MaxCalls \subseteq Positions /\ 0 \in 0..MaxSteps
  BY Bounds DEF Positions

LEMMA SeqOfLength ==
  ASSUME NEW S, NEW n \in Nat, NEW f \in [1..n -> S]
  PROVE  f \in Seq(S) /\ Len(f) = n /\ DOMAIN f = 1..n
BY SeqDef, LenProperties

LEMMA Extended ==
  ASSUME NEW S, NEW q \in Seq(S), NEW r \in Seq(S)
  PROVE  /\ q \o r \in Seq(S)
         /\ Len(q \o r) = Len(q) + Len(r)
         /\ DOMAIN (q \o r) = 1..(Len(q) + Len(r)) /\ DOMAIN q = 1..Len(q)
         /\ \A i \in DOMAIN q : (q \o r)[i] = q[i]
         /\ \A i \in (Len(q) + 1)..(Len(q) + Len(r)) : (q \o r)[i] = r[i - Len(q)]
  OBVIOUS

\* row j has the result of the call in row i
Answers(q, i, j) == q[j].kind = "result" /\ q[j].step = q[i].step /\ q[j].pos = q[i].pos

LEMMA AnswerFacts ==
  ASSUME NEW q \in Seq(Pieces), NEW i \in DOMAIN q
  PROVE  /\ \A k : IsAnswer(q, i, k) <=>
                     k \in DOMAIN q /\ k > i /\ \A j \in DOMAIN q : Answers(q, i, j) <=> j = k
         /\ ResultsOf(q, q[i]) = {} <=> \A j \in DOMAIN q : ~Answers(q, i, j)
<1>1. \A j : j \in ResultsOf(q, q[i]) <=> j \in DOMAIN q /\ Answers(q, i, j)
  BY DEF ResultsOf, Answers
<1>2. ResultsOf(q, q[i]) = {} <=> \A j \in DOMAIN q : ~Answers(q, i, j)
  BY <1>1
<1>3. ASSUME NEW k
      PROVE  IsAnswer(q, i, k) <=>
               k \in DOMAIN q /\ k > i /\ \A j \in DOMAIN q : Answers(q, i, j) <=> j = k
  <2>1. ResultsOf(q, q[i]) = {k} <=> \A j : j \in ResultsOf(q, q[i]) <=> j = k
    OBVIOUS
  <2> QED BY <1>1, <2>1 DEF IsAnswer
<1> QED BY <1>2, <1>3

\* z begins with q, and no row behind q answers the call in row i
Beyond(q, z, i) ==
  /\ Len(q) <= Len(z) /\ \A j \in DOMAIN q : z[j] = q[j]
  /\ \A j \in DOMAIN z : j > Len(q) => ~Answers(z, i, j)

LEMMA AnswerStays ==
  ASSUME NEW q \in Seq(Pieces), NEW z \in Seq(Pieces), NEW i \in DOMAIN q, Beyond(q, z, i)
  PROVE  /\ \A k : IsAnswer(q, i, k) => IsAnswer(z, i, k) /\ z[k] = q[k]
         /\ ResultsOf(q, q[i]) = {} => ResultsOf(z, z[i]) = {}
<1>1. i \in DOMAIN z /\ z[i] = q[i] /\ DOMAIN q = 1..Len(q) /\ DOMAIN z = 1..Len(z)
  BY DEF Beyond
<1>2. \A j \in DOMAIN q : j \in DOMAIN z /\ (Answers(z, i, j) <=> Answers(q, i, j))
  BY <1>1 DEF Beyond, Answers
<1>3. \A j \in DOMAIN z : j \in DOMAIN q \/ (j \notin DOMAIN q /\ ~Answers(z, i, j))
  BY <1>1 DEF Beyond
<1>4. ASSUME NEW k, IsAnswer(q, i, k)  PROVE IsAnswer(z, i, k) /\ z[k] = q[k]
  <2>1. k \in DOMAIN q /\ k > i /\ \A j \in DOMAIN q : Answers(q, i, j) <=> j = k
    BY <1>4, AnswerFacts
  <2>2. k \in DOMAIN z /\ \A j \in DOMAIN z : Answers(z, i, j) <=> j = k
    BY <2>1, <1>2, <1>3
  <2> QED BY <2>1, <2>2, <1>1, AnswerFacts DEF Beyond
<1>5. ResultsOf(q, q[i]) = {} => ResultsOf(z, z[i]) = {}
  BY <1>1, <1>2, <1>3, AnswerFacts
<1> QED BY <1>4, <1>5

LEMMA SettledStays ==
  ASSUME NEW q \in Seq(Pieces), NEW z \in Seq(Pieces), NEW i \in DOMAIN q, Beyond(q, z, i),
         CallSettled(q, i)
  PROVE  CallSettled(z, i)
<1>1. PICK k \in DOMAIN q : /\ IsAnswer(q, i, k) /\ q[k].val # "asked"
                            /\ \A j \in DOMAIN q : q[j].kind = "prompt" /\ j > i => j > k
  BY DEF CallSettled
<1>2. IsAnswer(z, i, k) /\ z[k] = q[k] /\ k \in DOMAIN z
  BY <1>1, AnswerStays DEF Beyond
<1>3. \A j \in DOMAIN z : z[j].kind = "prompt" /\ j > i => j > k
  BY <1>1 DEF Beyond
<1> QED BY <1>1, <1>2, <1>3 DEF CallSettled

(***************************************************************************)
(* The worker moves on and leaves the rows alone.                          *)
(***************************************************************************)
\* outside a batch every batch is over
LEMMA BetweenBatches ==
  ASSUME NEW s, NEW q \in Seq(Pieces), NEW w \in WorkerRec, NEW w2 \in WorkerRec, NEW gone,
         BatchOK(s, q, w, gone), ~Batching(w), ~Batching(w2), w2.step >= w.step,
         Streaming(w2) => Streaming(w) \/ w2.step > w.step
  PROVE  BatchOK(s, q, w2, gone)
<1>1. \A i \in DOMAIN q : q[i].step \in Nat
  BY PieceFacts
<1>2. w.step \in Nat /\ w2.step \in Nat
  BY WorkerFacts
<1>3. w2.pc \notin {"result", "ask"}
  BY DEF Batching
<1> QED BY <1>1, <1>2, <1>3 DEF BatchOK

\* inside a batch, from an announcement to the call and from a result to its answer
LEMMA InsideBatch ==
  ASSUME NEW s, NEW q \in Seq(Pieces), NEW w \in WorkerRec, NEW w2 \in WorkerRec, NEW gone,
         BatchOK(s, q, w, gone), Batching(w), Batching(w2), w2.step = w.step,
         w2.calls = w.calls, w2.stop = w.stop, Answered(w2) = Answered(w),
         Open(w) => Open(w2),
         w2.pc \in {"result", "ask"} => w2.pc = "ask" /\ w.pc = "result" /\ w.val = "asked" /\ w2.c = w.c
  PROVE  BatchOK(s, q, w2, gone)
<1>1. ~Streaming(w2) /\ ~Streaming(w)
  BY DEF Batching, Streaming
<1>2. \A i \in DOMAIN q : CallInBatch(q, w, i) => CallInBatch(q, w2, i)
  BY DEF CallInBatch
<1>3. w2.pc \in {"result", "ask"} =>
        q # <<>> /\ q[Len(q)] = Piece(s, "result", w2.step, w2.c,
                                      IF w2.pc = "ask" THEN "asked" ELSE w2.val)
  BY DEF BatchOK
<1> QED BY <1>1, <1>2, <1>3 DEF BatchOK

\* The worker that enters the loop over n calls keeps the place it was sent to.
AtBatch(x, m, n, k) == [x EXCEPT !.made = m, !.calls = n, !.c = 1, !.callGen = k]
LEMMA BatchPlaces ==
  ASSUME NEW x \in WorkerRec, NEW m \in 0..MaxCalls, NEW n \in 1..MaxCalls, NEW k \in Nat
  PROVE  /\ AtBatch(x, m, n, k) \in WorkerRec /\ AtBatch(x, m, n, k).pc = x.pc
         /\ AtBatch(x, m, n, k).step = x.step /\ AtBatch(x, m, n, k).gen = x.gen
         /\ AtBatch(x, m, n, k).calls = n /\ AtBatch(x, m, n, k).c = 1
         /\ AtBatch(x, m, n, k).callGen = k
<1> DEFINE y == AtBatch(x, m, n, k)
<1>1. /\ x.pc \in Places /\ x.prompts \in 0..MaxPrompts /\ x.step \in 0..MaxSteps
      /\ x.len \in 0..MaxBytes /\ x.stop \in BOOLEAN /\ x.gen \in Nat /\ x.val \in Vals
  BY DEF WorkerRec
<1>2. y = [pc |-> x.pc, prompts |-> x.prompts, step |-> x.step, made |-> m, len |-> x.len,
           calls |-> n, c |-> 1, stop |-> x.stop, gen |-> x.gen, callGen |-> k, val |-> x.val]
  <2> SUFFICES ASSUME NEW one, NEW z,
                      z = [x EXCEPT !.made = m, !.calls = n, !.c = one, !.callGen = k]
               PROVE  z = [pc |-> x.pc, prompts |-> x.prompts, step |-> x.step, made |-> m,
                         len |-> x.len, calls |-> n, c |-> one, stop |-> x.stop, gen |-> x.gen,
                         callGen |-> k, val |-> x.val]
    BY DEF AtBatch
  <2> QED BY Zenon DEF WorkerRec
<1>4. 1 \in 0..MaxCalls /\ n \in 0..MaxCalls
  BY Bounds
<1> HIDE DEF y
<1>3. y \in WorkerRec
  BY <1>1, <1>2, <1>4, Zenon DEF WorkerRec
<1> QED BY <1>2, <1>3 DEF y

\* the places a worker rests at
LEMMA RestPlaces == {"idle", "loop", "call"} \subseteq Places
BY DEF Places

LEMMA RestFacts ==
  ASSUME NEW w \in WorkerRec, NEW pc \in Places
  PROVE  /\ Rest(w, pc) \in WorkerRec /\ Rest(w, pc).pc = pc /\ Rest(w, pc).step = w.step
         /\ Rest(w, pc).gen = 0 /\ Rest(w, pc).callGen = 0 /\ Rest(w, pc).len = 0
         /\ Rest(w, pc).made = w.made /\ Rest(w, pc).prompts = w.prompts
         /\ Rest(w, pc).stop = FALSE
<1>1. 0 \in 0..MaxPrompts /\ 0 \in 0..MaxSteps /\ 0 \in 0..MaxBytes /\ 0 \in 0..MaxCalls
  BY Bounds
<1>2. "" \in Vals /\ "idle" \in Places
  BY DEF Vals, Places
<1>3. IdleWorker \in WorkerRec
  BY <1>1, <1>2 DEF IdleWorker, WorkerRec
<1>4. w.prompts \in 0..MaxPrompts /\ w.step \in 0..MaxSteps /\ w.made \in 0..MaxCalls
  BY DEF WorkerRec
<1>5. Rest(w, pc) \in WorkerRec
  BY <1>3, <1>4 DEF WorkerRec, Rest
<1>6. /\ Rest(w, pc).pc = pc /\ Rest(w, pc).step = w.step
      /\ Rest(w, pc).gen = 0 /\ Rest(w, pc).callGen = 0 /\ Rest(w, pc).len = 0
      /\ Rest(w, pc).made = w.made /\ Rest(w, pc).prompts = w.prompts
      /\ Rest(w, pc).stop = FALSE
  BY DEF Rest, IdleWorker
<1> QED BY <1>5, <1>6

\* the last call of a batch has its result: the batch is over
LEMMA BatchOver ==
  ASSUME NEW s, NEW q \in Seq(Pieces), NEW w \in WorkerRec, NEW w2 \in WorkerRec, NEW gone,
         BatchOK(s, q, w, gone), Batching(w), w2.step = w.step, ~Batching(w2), ~Streaming(w2),
         Answered(w) = w.calls, ~Open(w)
  PROVE  BatchOK(s, q, w2, gone)
<1>1. ASSUME NEW i \in DOMAIN q, CallInBatch(q, w, i)
      PROVE  CallSettled(q, i)
  <2>1. q[i].pos <= Answered(w)
    BY <1>1 DEF CallInBatch, WorkerRec
  <2>2. PICK k \in DOMAIN q : IsAnswer(q, i, k) /\ q[k].val # "asked"
    BY <1>1, <2>1 DEF CallInBatch
  <2>3. k > i
    BY <2>2 DEF IsAnswer
  <2>4. \A j \in DOMAIN q : q[j].kind = "prompt" => j < i
    BY <1>1 DEF CallInBatch
  <2> QED BY <2>2, <2>3, <2>4 DEF CallSettled
<1>2. w2.pc \notin {"result", "ask"}
  BY DEF Batching
<1> QED BY <1>1, <1>2 DEF BatchOK

\* the batch is cut short: nothing more is promised of its calls
LEMMA BatchCut ==
  ASSUME NEW s, NEW q \in Seq(Pieces), NEW w \in WorkerRec, NEW w2 \in WorkerRec, NEW gone,
         BatchOK(s, q, w, gone), Batching(w), w2.step = w.step, ~Batching(w2), ~Streaming(w2)
  PROVE  BatchOK(s, q, w2, gone \cup {<<s, w.step>>})
<1>1. w2.pc \notin {"result", "ask"}
  BY DEF Batching
<1>2. \A i \in DOMAIN q : <<s, q[i].step>> \notin gone \cup {<<s, w.step>>} =>
                            <<s, q[i].step>> \notin gone /\ q[i].step # w.step
  OBVIOUS
<1> QED BY <1>1, <1>2 DEF BatchOK

LEMMA NextCallFacts ==
  ASSUME NEW s, NEW q \in Seq(Pieces), NEW w \in WorkerRec, NEW gone,
         BatchOK(s, q, w, gone), w.pc \in {"result", "answered"}, ~Open(w), w.c \in 1..w.calls
  PROVE  /\ NextCall(w) \in WorkerRec /\ BatchOK(s, q, NextCall(w), gone)
         /\ NextCall(w).gen = 0 /\ NextCall(w).callGen \in {0, w.callGen}
         /\ NextCall(w).pc \in {"call", "loop"}
         /\ Batching(NextCall(w)) => NextCall(w).c \in 1..NextCall(w).calls
<1>1. CASE w.c < w.calls
  <2> DEFINE w2 == [w EXCEPT !.pc = "call", !.c = w.c + 1, !.gen = 0, !.val = ""]
  <2>1. NextCall(w) = w2
    BY <1>1 DEF NextCall, WorkerRec
  <2> w.c + 1 \in 0..MaxCalls
    BY <1>1, Bounds DEF WorkerRec
  <2>2. /\ w2 \in WorkerRec /\ w2.pc = "call" /\ w2.c = w.c + 1 /\ w2.calls = w.calls
        /\ w2.gen = 0 /\ w2.callGen = w.callGen /\ w2.step = w.step /\ w2.stop = w.stop
    BY <1>1, Bounds DEF WorkerRec, Places, Vals
  <2> HIDE DEF w2
  <2>3. Answered(w2) = Answered(w)
    BY <2>2, WorkerFacts DEF Answered
  <2>6. Batching(w) /\ Batching(w2)
    BY <2>2 DEF Batching
  <2>4. BatchOK(s, q, w2, gone)
    BY <2>2, <2>3, <2>6, InsideBatch
  <2>5. w2.c \in 1..w2.calls
    BY <2>2, <1>1, WorkerFacts
  <2> QED BY <2>1, <2>2, <2>4, <2>5
<1>2. CASE ~(w.c < w.calls)
  <2>1. NextCall(w) = Rest(w, "loop")
    BY <1>2 DEF NextCall
  <2>2. Rest(w, "loop") \in WorkerRec /\ Rest(w, "loop").pc = "loop" /\ Rest(w, "loop").step = w.step
    BY RestFacts, RestPlaces
  <2>3. Answered(w) = w.calls
    BY <1>2 DEF Answered, WorkerRec
  <2>4. BatchOK(s, q, Rest(w, "loop"), gone)
    BY <2>2, <2>3, BatchOver DEF Batching, Streaming
  <2>5. Rest(w, "loop").gen = 0 /\ Rest(w, "loop").callGen = 0
    BY RestFacts, RestPlaces
  <2> QED BY <2>1, <2>2, <2>4, <2>5 DEF Batching
<1> QED BY <1>1, <1>2

(***************************************************************************)
(* The worker stores rows.                                                 *)
(***************************************************************************)
LEMMA PromptStored ==
  ASSUME NEW s, NEW q \in Seq(Pieces), NEW w \in WorkerRec, NEW w2 \in WorkerRec, NEW gone,
         BatchOK(s, q, w, gone), ~Batching(w), ~Batching(w2), ~Streaming(w2), w2.step = w.step,
         NEW p \in Pieces, p.kind = "prompt"
  PROVE  BatchOK(s, q \o <<p>>, w2, gone)
<1> DEFINE z == q \o <<p>>
<1>1. /\ z \in Seq(Pieces) /\ Len(z) = Len(q) + 1 /\ DOMAIN z = 1..(Len(q) + 1)
      /\ DOMAIN q = 1..Len(q) /\ Len(q) \in Nat
      /\ \A i \in DOMAIN q : z[i] = q[i]
      /\ z[Len(q) + 1] = p
  OBVIOUS
<1> HIDE DEF z
<1>2. \A i \in DOMAIN z : i \in DOMAIN q \/ (i = Len(q) + 1 /\ z[i] = p)
  BY <1>1
<1>3. \A i \in DOMAIN q : Beyond(q, z, i)
  BY <1>1, <1>2 DEF Beyond, Answers
<1>4. SkipsStay(z)
  BY <1>1, <1>2 DEF SkipsStay, BatchOK
<1>5. \A i \in DOMAIN q : CallSettled(q, i) => CallSettled(z, i)
  BY <1>1, <1>3, SettledStays
<1>6. w2.pc \notin {"result", "ask"}
  BY DEF Batching
<1>7. \A i \in DOMAIN z : z[i].kind \in {"call", "result"} => z[i].step <= w2.step
  BY <1>1, <1>2 DEF BatchOK
<1>8. \A i \in DOMAIN z : z[i].kind = "call" /\ <<s, z[i].step>> \notin gone => CallSettled(z, i)
  BY <1>1, <1>2, <1>5 DEF BatchOK
<1> QED BY <1>4, <1>6, <1>7, <1>8 DEF BatchOK, z

\* the assistant row: bytes, then the calls of a new batch
LEMMA BatchStored ==
  ASSUME NEW s, NEW q \in Seq(Pieces), NEW w \in WorkerRec, NEW w2 \in WorkerRec, NEW gone,
         BatchOK(s, q, w, gone), Streaming(w), ~Streaming(w2), w2.step = w.step,
         NEW n \in Nat, NEW r \in Seq(Pieces),
         \A i \in DOMAIN r : \/ r[i].kind = "byte"
                             \/ r[i].kind = "call" /\ r[i].step = w.step /\ r[i].pos \in 1..n,
         IF n = 0 THEN ~Batching(w2) ELSE w2.pc = "call" /\ w2.calls = n /\ w2.c = 1
  PROVE  BatchOK(s, q \o r, w2, gone)
<1> DEFINE z == q \o r
<1>1. /\ z \in Seq(Pieces) /\ Len(z) = Len(q) + Len(r) /\ DOMAIN z = 1..(Len(q) + Len(r))
      /\ DOMAIN q = 1..Len(q) /\ Len(q) \in Nat /\ Len(r) \in Nat
      /\ \A i \in DOMAIN q : z[i] = q[i]
      /\ \A i \in (Len(q) + 1)..(Len(q) + Len(r)) : z[i] = r[i - Len(q)]
  BY Extended
<1> HIDE DEF z
<1> DEFINE New(i) == \/ z[i].kind = "byte"
                     \/ z[i].kind = "call" /\ z[i].step = w.step /\ z[i].pos \in 1..n
<1>2. ASSUME NEW i \in DOMAIN z PROVE i \in DOMAIN q \/ (i > Len(q) /\ New(i))
  <2>1. CASE i > Len(q)
    <3>1. i - Len(q) \in DOMAIN r /\ z[i] = r[i - Len(q)]
      BY <2>1, <1>1
    <3> QED BY <2>1, <3>1
  <2> QED BY <1>1, <2>1
<1> HIDE DEF New
<1>3. \A i \in DOMAIN z : i > Len(q) => New(i) /\ z[i].kind # "result" /\ z[i].kind # "prompt"
  BY <1>1, <1>2 DEF New
<1>4. ~Batching(w)
  BY DEF Batching, Streaming
<1>5. \A i \in DOMAIN q : Beyond(q, z, i)
  BY <1>1, <1>3 DEF Beyond, Answers
<1>6. SkipsStay(z)
  BY <1>1, <1>2, <1>3 DEF SkipsStay, BatchOK
<1>7. \A i \in DOMAIN q : CallSettled(q, i) => CallSettled(z, i)
  BY <1>1, <1>5, SettledStays
<1>8. \A i \in DOMAIN q : q[i].kind \in {"call", "result"} => q[i].step < w.step
  BY DEF BatchOK
<1>14. w.step \in Nat /\ \A i \in DOMAIN z : z[i].step \in Nat
  BY <1>1, PieceFacts, WorkerFacts
<1>9. \A i \in DOMAIN z : z[i].kind \in {"call", "result"} => z[i].step <= w2.step
  BY <1>1, <1>2, <1>8, <1>14 DEF New
<1>10. \A i \in DOMAIN z : z[i].kind = "result" => z[i].step # w2.step
  BY <1>1, <1>2, <1>3, <1>8, <1>14
<1>11. w2.pc \notin {"result", "ask"}
  BY DEF Batching
<1>12. ASSUME NEW i \in DOMAIN z, z[i].kind = "call", <<s, z[i].step>> \notin gone
       PROVE  IF Batching(w2) /\ z[i].step = w2.step THEN CallInBatch(z, w2, i) ELSE CallSettled(z, i)
  <2>1. CASE i \in DOMAIN q
    <3>1. z[i].step # w2.step
      BY <2>1, <1>1, <1>8, <1>12, PieceFacts, WorkerFacts
    <3> QED BY <2>1, <3>1, <1>1, <1>4, <1>7, <1>12 DEF BatchOK
  <2>2. CASE i \notin DOMAIN q
    <3>1. i > Len(q) /\ z[i].step = w.step /\ z[i].pos \in 1..n
      BY <1>2, <1>12, <2>2 DEF New
    <3>2. w2.pc = "call" /\ w2.calls = n /\ w2.c = 1 /\ Answered(w2) = 0
      BY <3>1 DEF Answered
    <3>3. ResultsOf(z, z[i]) = {}
      BY <3>1, <1>10 DEF ResultsOf
    <3>4. \A j \in DOMAIN z : z[j].kind = "prompt" => j < i
      BY <1>1, <1>2, <1>3, <3>1
    <3>5. CallInBatch(z, w2, i)
      BY <3>1, <3>2, <3>3, <3>4 DEF CallInBatch
    <3> QED BY <3>1, <3>2, <3>5 DEF Batching
  <2> QED BY <2>1, <2>2
<1> QED BY <1>6, <1>9, <1>10, <1>11, <1>12 DEF BatchOK, z

\* the result of the call the worker is at
LEMMA ResultStored ==
  ASSUME NEW s, NEW q \in Seq(Pieces), NEW w \in WorkerRec, NEW w2 \in WorkerRec, NEW gone,
         BatchOK(s, q, w, gone), w.pc = "tool", w2.pc = "result", w.c \in 1..w.calls,
         w2.step = w.step, w2.calls = w.calls, w2.c = w.c,
         w2.stop = (w.stop \/ w2.val \in {"skipped", "stopper"}),
         w.stop => w2.val = "skipped",
         NEW p \in Pieces, p = Piece(s, "result", w.step, w.c, w2.val)
  PROVE  BatchOK(s, q \o <<p>>, w2, gone)
<1> DEFINE z == q \o <<p>>
<1>1. /\ z \in Seq(Pieces) /\ Len(z) = Len(q) + 1 /\ DOMAIN z = 1..(Len(q) + 1)
      /\ DOMAIN q = 1..Len(q) /\ Len(q) \in Nat
      /\ \A i \in DOMAIN q : z[i] = q[i]
      /\ z[Len(q) + 1] = p
  OBVIOUS
<1> HIDE DEF z
<1>2. \A i \in DOMAIN z : i \in DOMAIN q \/ (i = Len(q) + 1 /\ z[i] = p)
  BY <1>1
<1>3. p.kind = "result" /\ p.step = w.step /\ p.pos = w.c /\ p.val = w2.val
  BY DEF Piece
<1>4. /\ Answered(w) = w.c - 1 /\ Answered(w2) = w.c /\ Batching(w) /\ Batching(w2)
      /\ ~Streaming(w) /\ ~Streaming(w2) /\ ~Open(w)
  BY DEF Answered, Batching, Streaming, Open
<1>5. w.step \in Nat /\ w.c \in Nat /\ \A i \in DOMAIN q : q[i].step \in Nat /\ q[i].pos \in Nat
  BY PieceFacts, WorkerFacts
<1>6. ASSUME NEW i \in DOMAIN q, q[i].step # w.step \/ q[i].pos # w.c
      PROVE  Beyond(q, z, i)
  BY <1>1, <1>2, <1>3, <1>6 DEF Beyond, Answers
<1>7. SkipsStay(z)
  <2>1. SUFFICES ASSUME NEW k \in DOMAIN z, NEW j \in DOMAIN z, k < j,
                        z[k].kind = "result", z[j].kind = "result", z[k].step = z[j].step,
                        z[k].val \in {"skipped", "stopper"}
                 PROVE  z[j].val = "skipped"
    BY DEF SkipsStay
  <2>2. k \in DOMAIN q /\ z[k] = q[k]
    BY <2>1, <1>1
  <2>3. CASE j \in DOMAIN q
    BY <2>1, <2>2, <2>3, <1>1 DEF SkipsStay, BatchOK
  <2>4. CASE j = Len(q) + 1
    <3>1. w.stop
      BY <2>1, <2>2, <2>4, <1>1, <1>3, <1>4 DEF BatchOK
    <3> QED BY <3>1, <2>4, <1>1, <1>3
  <2> QED BY <2>3, <2>4, <1>2
<1>11. (w.stop => w2.stop) /\ (w2.val \in {"skipped", "stopper"} => w2.stop)
  BY WorkerFacts
<1>8. ASSUME NEW i \in DOMAIN z, z[i].kind \in {"call", "result"}
      PROVE  /\ z[i].step <= w2.step
             /\ z[i].kind = "result" /\ z[i].step = w2.step =>
                  z[i].pos <= Answered(w2) /\ (z[i].val \in {"skipped", "stopper"} => w2.stop)
  <2>1. CASE i \in DOMAIN q
    <3>1. z[i] = q[i] /\ q[i].step <= w.step
      BY <2>1, <1>1, <1>8 DEF BatchOK
    <3>2. q[i].kind = "result" /\ q[i].step = w.step =>
            q[i].pos <= w.c - 1 /\ (q[i].val \in {"skipped", "stopper"} => w.stop)
      BY <2>1, <1>4 DEF BatchOK
    <3> QED BY <2>1, <3>1, <3>2, <1>4, <1>5, <1>11
  <2>2. CASE i = Len(q) + 1
    BY <2>2, <1>1, <1>3, <1>4, <1>5, <1>11
  <2> QED BY <2>1, <2>2, <1>2
<1>9. z # <<>> /\ z[Len(z)] = Piece(s, "result", w2.step, w2.c, w2.val)
  BY <1>1
<1>10. ASSUME NEW i \in DOMAIN z, z[i].kind = "call", <<s, z[i].step>> \notin gone
       PROVE  IF z[i].step = w2.step THEN CallInBatch(z, w2, i) ELSE CallSettled(z, i)
  <2>1. i \in DOMAIN q /\ z[i] = q[i]
    BY <1>1, <1>2, <1>3, <1>10
  <2>2. CASE q[i].step # w.step
    <3>1. CallSettled(q, i)
      BY <2>1, <2>2, <1>4, <1>10 DEF BatchOK
    <3> QED BY <3>1, <2>1, <2>2, <1>1, <1>6, SettledStays
  <2>3. CASE q[i].step = w.step
    <3>1. CallInBatch(q, w, i)
      BY <2>1, <2>3, <1>4, <1>10 DEF BatchOK
    <3>2. /\ z[i].pos \in 1..w2.calls
          /\ \A j \in DOMAIN z : z[j].kind = "prompt" => j < i
      BY <3>1, <2>1, <1>1, <1>2, <1>3 DEF CallInBatch
    <3>3. CASE q[i].pos < w.c
      <4>1. PICK k \in DOMAIN q : IsAnswer(q, i, k) /\ q[k].val # "asked"
        BY <3>1, <3>3, <1>4, <1>5, <2>1 DEF CallInBatch
      <4>2. IsAnswer(z, i, k) /\ z[k] = q[k] /\ k \in DOMAIN z
        BY <4>1, <3>3, <2>1, <1>1, <1>5, <1>6, AnswerStays
      <4>3. q[i].pos <= Answered(w2)
        BY <3>3, <1>4, <1>5, <2>1
      <4> QED BY <4>1, <4>2, <4>3, <3>2, <2>1, <2>3 DEF CallInBatch
    <3>4. CASE q[i].pos = w.c
      <4>1. \A j \in DOMAIN q : ~Answers(q, i, j)
        BY <3>1, <3>4, <1>4, <1>5, <2>1, AnswerFacts DEF CallInBatch
      <4>2. \A j \in DOMAIN z : Answers(z, i, j) <=> j = Len(z)
        BY <4>1, <3>4, <2>1, <2>3, <1>1, <1>2, <1>3 DEF Answers
      <4>3. IsAnswer(z, i, Len(z))
        <5>1. i \in DOMAIN z /\ Len(z) \in DOMAIN z /\ Len(z) > i
          BY <2>1, <1>1
        <5> QED BY <4>2, <5>1, <1>1, AnswerFacts
      <4>4. z[Len(z)].val = "asked" => Open(w2)
        BY <1>1, <1>3 DEF Open
      <4> QED BY <4>3, <4>4, <3>2, <3>4, <2>1, <2>3, <1>1, <1>4, <1>5 DEF CallInBatch
    <3>5. CASE q[i].pos > w.c
      <4>1. ResultsOf(q, q[i]) = {}
        BY <3>1, <3>5, <1>4, <1>5, <2>1 DEF CallInBatch
      <4>2. ResultsOf(z, z[i]) = {}
        <5>1. Beyond(q, z, i)
          BY <3>5, <2>1, <1>5, <1>6
        <5> QED BY <4>1, <5>1, <2>1, <1>1, AnswerStays
      <4> QED BY <4>2, <3>2, <3>5, <2>1, <2>3, <1>4, <1>5 DEF CallInBatch
    <3> QED BY <3>3, <3>4, <3>5, <2>1, <1>5
  <2> QED BY <2>2, <2>3
<1> QED BY <1>4, <1>7, <1>8, <1>9, <1>10 DEF BatchOK, z

\* the reply of the user replaces the placeholder, the last row of the session
LEMMA AnswerStored ==
  ASSUME NEW s, NEW q \in Seq(Pieces), NEW w \in WorkerRec, NEW w2 \in WorkerRec, NEW gone,
         BatchOK(s, q, w, gone), w.pc = "ask", w2.pc = "answered", w2.step = w.step,
         w2.calls = w.calls, w2.c = w.c, w2.stop = w.stop
  PROVE  /\ Rewrite(q, w.c, "answered") \in Seq(Pieces)
         /\ BatchOK(s, Rewrite(q, w.c, "answered"), w2, gone)
<1> DEFINE z == Rewrite(q, w.c, "answered")
           n == Len(q)
<1>1. /\ n \in Nat /\ n > 0 /\ n \in DOMAIN q /\ DOMAIN q = 1..n
      /\ q[n] = Piece(s, "result", w.step, w.c, "asked")
  BY DEF BatchOK
<1>2. q[n].kind = "result" /\ q[n].step = w.step /\ q[n].pos = w.c /\ q[n].val = "asked"
  BY <1>1 DEF Piece
<1>3. Newest(q, w.c) = {n}
  BY <1>1, <1>2 DEF Newest
<1>4. z = [i \in 1..n |-> IF i = n THEN [q[i] EXCEPT !.val = "answered"] ELSE q[i]]
  BY <1>1, <1>3 DEF Rewrite
<1> HIDE DEF z, n
<1>5. [q[n] EXCEPT !.val = "answered"] \in Pieces
  <2>1. q[n] \in Pieces /\ "answered" \in Vals
    BY <1>1 DEF Vals
  <2> QED BY <2>1 DEF Pieces
<1>6. z \in Seq(Pieces) /\ Len(z) = n /\ DOMAIN z = DOMAIN q
  <2>1. \A i \in 1..n : q[i] \in Pieces
    BY <1>1, PieceFacts
  <2>2. z \in [1..n -> Pieces]
    BY <1>4, <1>5, <2>1
  <2> QED BY <1>1, <2>2, SeqDef, LenProperties
<1>7. \A i \in DOMAIN q : /\ i # n => z[i] = q[i]
                          /\ z[i].kind = q[i].kind /\ z[i].step = q[i].step /\ z[i].pos = q[i].pos
                          /\ z[i].val = (IF i = n THEN "answered" ELSE q[i].val)
  <2>1. ASSUME NEW i \in DOMAIN q, i = n
        PROVE  /\ z[i].kind = q[i].kind /\ z[i].step = q[i].step /\ z[i].pos = q[i].pos
               /\ z[i].val = "answered"
    <3>1. z[n] = [q[n] EXCEPT !.val = "answered"] /\ q[n] \in Pieces
      BY <1>1, <1>4
    <3> QED BY <3>1, <2>1 DEF Pieces
  <2>2. \A i \in DOMAIN q : i # n => z[i] = q[i]
    BY <1>1, <1>4
  <2> QED BY <2>1, <2>2
<1>18. \A i, j \in DOMAIN q : Answers(q, i, j) <=> Answers(z, i, j)
  BY <1>7 DEF Answers
<1>8. \A i, k : i \in DOMAIN q => (IsAnswer(q, i, k) <=> IsAnswer(z, i, k))
  BY <1>6, <1>18, AnswerFacts
<1>9. \A i \in DOMAIN q : ResultsOf(q, q[i]) = {} <=> ResultsOf(z, z[i]) = {}
  BY <1>6, <1>18, AnswerFacts
<1>10. \A k \in DOMAIN q : z[k].val = "asked" => q[k].val = "asked" /\ k # n
  BY <1>7
<1>11. /\ Batching(w) /\ Batching(w2) /\ ~Streaming(w) /\ ~Streaming(w2) /\ Answered(w) = w.c
       /\ Answered(w2) = w.c /\ w2.pc \notin {"result", "ask"}
  BY DEF Batching, Streaming, Answered
<1>12. SkipsStay(z)
  <2>1. SUFFICES ASSUME NEW k \in DOMAIN z, NEW j \in DOMAIN z, k < j,
                        z[k].kind = "result", z[j].kind = "result", z[k].step = z[j].step,
                        z[k].val \in {"skipped", "stopper"}
                 PROVE  z[j].val = "skipped"
    BY DEF SkipsStay
  <2>2. k # n /\ z[k] = q[k] /\ q[j].kind = "result" /\ q[k].step = q[j].step
    BY <2>1, <1>1, <1>6, <1>7
  <2>3. q[j].val = "skipped"
    BY <2>1, <2>2, <1>6 DEF SkipsStay, BatchOK
  <2> QED BY <2>3, <1>2, <1>6, <1>7
<1>13. \A i \in DOMAIN q : CallSettled(q, i) => CallSettled(z, i)
  BY <1>6, <1>7, <1>8, <1>10 DEF CallSettled
<1>14. ASSUME NEW i \in DOMAIN q, CallInBatch(q, w, i)
       PROVE  CallInBatch(z, w2, i)
  <2>1. CASE q[i].pos <= w.c
    <3>1. PICK k \in DOMAIN q : IsAnswer(q, i, k) /\ (q[k].val = "asked" => k = n)
      BY <1>14, <2>1, <1>11 DEF CallInBatch, n
    <3>2. IsAnswer(z, i, k) /\ z[k].val # "asked"
      BY <3>1, <1>8, <1>10
    <3> QED BY <1>14, <2>1, <3>2, <1>6, <1>7, <1>11 DEF CallInBatch
  <2>2. CASE ~(q[i].pos <= w.c)
    BY <1>14, <2>2, <1>6, <1>7, <1>9, <1>11 DEF CallInBatch
  <2> QED BY <2>1, <2>2
<1>15. \A i \in DOMAIN z :
         /\ z[i].kind \in {"call", "result"} => z[i].step <= w2.step
         /\ z[i].kind = "result" /\ z[i].step = w2.step => z[i].pos <= Answered(w2)
         /\ (/\ z[i].kind = "result" /\ z[i].step = w2.step
             /\ z[i].val \in {"skipped", "stopper"}) => w2.stop
  BY <1>6, <1>7, <1>11 DEF BatchOK
<1>16. \A i \in DOMAIN z : z[i].kind = "call" /\ <<s, z[i].step>> \notin gone =>
         IF z[i].step = w2.step THEN CallInBatch(z, w2, i) ELSE CallSettled(z, i)
  BY <1>6, <1>7, <1>11, <1>13, <1>14 DEF BatchOK
<1>17. BatchOK(s, z, w2, gone)
  BY <1>11, <1>12, <1>15, <1>16 DEF BatchOK
<1> QED BY <1>6, <1>17 DEF z

\* numbers up to a bound have a greatest
LEMMA Greatest ==
  ASSUME NEW n \in Nat, NEW T, T \subseteq 1..n, T # {}
  PROVE  \E i \in T : \A j \in T : j <= i
<1> DEFINE R == OpToRel(<, Nat)
           U == {n - i : i \in T}
<1>1. U \subseteq Nat /\ U # {}
  <2>1. \A i \in T : n - i \in Nat
    OBVIOUS
  <2>2. U \subseteq Nat
    BY <2>1
  <2>3. PICK i \in T : TRUE
    OBVIOUS
  <2>4. n - i \in U
    OBVIOUS
  <2> QED BY <2>2, <2>4
<1>0. IsWellFoundedOn(R, Nat)
  BY NatLessThanWellFounded
<1>2. \A x, y \in Nat : x < y => <<x, y>> \in R
  BY DEF OpToRel
<1> HIDE DEF R
<1>3. PICK m \in U : \A k \in U : ~(<<k, m>> \in R)
  BY <1>0, <1>1, WFMin
<1>4. PICK i \in T : m = n - i
  OBVIOUS
<1>5. ASSUME NEW j \in T PROVE j <= i
  <2>1. n - j \in U /\ n - j \in Nat /\ n - i \in Nat /\ j \in Nat /\ i \in Nat
    OBVIOUS
  <2>2. ~(n - j < n - i)
    BY <1>2, <1>3, <1>4, <2>1
  <2> QED BY <2>1, <2>2
<1> QED BY <1>5

\* /retry drops what follows the last prompt: whole batches
LEMMA Truncated ==
  ASSUME NEW s, NEW q \in Seq(Pieces), NEW w \in WorkerRec, NEW w2 \in WorkerRec, NEW gone,
         BatchOK(s, q, w, gone), ~Batching(w), ~Batching(w2), ~Streaming(w2), w2.step = w.step,
         Prompts(q) # {}
  PROVE  ThroughLastPrompt(q) \in Seq(Pieces) /\ BatchOK(s, ThroughLastPrompt(q), w2, gone)
<1>1. Len(q) \in Nat /\ DOMAIN q = 1..Len(q) /\ Prompts(q) \subseteq 1..Len(q)
  BY DEF Prompts
<1>2. \E i \in Prompts(q) : \A j \in Prompts(q) : j <= i
  BY <1>1, Greatest
<1> DEFINE m == CHOOSE i \in Prompts(q) : \A j \in Prompts(q) : j <= i
           z == ThroughLastPrompt(q)
<1>3. m \in Prompts(q)
  BY <1>2
<1>4. m \in 1..Len(q) /\ q[m].kind = "prompt"
  BY <1>1, <1>3 DEF Prompts
<1>5. z = SubSeq(q, 1, m)
  BY DEF ThroughLastPrompt
<1> HIDE DEF m, z
<1>6. /\ z \in Seq(Pieces) /\ Len(z) = m /\ DOMAIN z = 1..m
      /\ \A i \in DOMAIN z : i \in DOMAIN q /\ z[i] = q[i]
  BY <1>1, <1>4, <1>5
<1>7. ASSUME NEW i \in DOMAIN z, q[i].kind = "call", CallSettled(q, i)
      PROVE  CallSettled(z, i)
  <2>1. PICK k \in DOMAIN q : /\ IsAnswer(q, i, k) /\ q[k].val # "asked"
                              /\ \A j \in DOMAIN q : q[j].kind = "prompt" /\ j > i => j > k
    BY <1>7 DEF CallSettled
  <2>2. i # m /\ i < m /\ m > k
    BY <1>1, <1>4, <1>6, <1>7, <2>1
  <2>3. k \in DOMAIN z /\ z[k] = q[k] /\ i \in DOMAIN q
    BY <1>1, <1>6, <2>2
  <2>4. k > i /\ \A j \in DOMAIN q : Answers(q, i, j) <=> j = k
    BY <2>1, <2>3, AnswerFacts
  <2>5. \A j \in DOMAIN z : Answers(z, i, j) <=> j = k
    BY <2>4, <1>6 DEF Answers
  <2>6. IsAnswer(z, i, k)
    BY <2>3, <2>4, <2>5, <1>6, AnswerFacts
  <2> QED BY <2>1, <2>3, <2>6, <1>6 DEF CallSettled
<1>8. w2.pc \notin {"result", "ask"}
  BY DEF Batching
<1>9. SkipsStay(z)
  BY <1>6 DEF SkipsStay, BatchOK
<1>10. \A i \in DOMAIN z : z[i].kind \in {"call", "result"} => z[i].step <= w2.step
  BY <1>6 DEF BatchOK
<1>11. \A i \in DOMAIN z : z[i].kind = "call" /\ <<s, z[i].step>> \notin gone => CallSettled(z, i)
  BY <1>6, <1>7 DEF BatchOK
<1> QED BY <1>6, <1>8, <1>9, <1>10, <1>11 DEF BatchOK, z

(***************************************************************************)
(* The steps.                                                              *)
(***************************************************************************)
\* what the window holds is in range
GuiTypes ==
  /\ relay \in Sessions /\ window \in WindowRec /\ relay = window.sess
  /\ shown \in Seq(Pieces) /\ loads \in Nat /\ clean \in BOOLEAN

LEMMA OneMoves ==
  ASSUME ViewInv, NEW s \in Sessions, NEW q \in Seq(Pieces), NEW g \in Nat, NEW f \in StreamRec,
         NEW w \in WorkerRec,
         rows' = [rows EXCEPT ![s] = q], rowGen' = [rowGen EXCEPT ![s] = g],
         inFlight' = [inFlight EXCEPT ![s] = f], worker' = [worker EXCEPT ![s] = w],
         cut' \in SUBSET (Sessions \X (0..MaxSteps)), cut \subseteq cut',
         mailbox' \in Seq(MessageRec), GuiTypes',
         PlaceOK(s, w, g, f), BatchOK(s, q, w, cut')
  PROVE  ViewInv'
<1>1. ViewTypes'
  BY DEF ViewInv, TypesInv, ViewTypes, GuiTypes
<1>2. ASSUME NEW r \in Sessions
      PROVE  /\ PlaceOK(r, worker'[r], rowGen'[r], inFlight'[r])
             /\ BatchOK(r, rows'[r], worker'[r], cut')
  <2>1. CASE r = s
    <3>1. rows'[r] = q /\ rowGen'[r] = g /\ inFlight'[r] = f /\ worker'[r] = w
      BY <2>1 DEF ViewInv, TypesInv, ViewTypes
    <3> QED BY <2>1, <3>1
  <2>2. CASE r # s
    <3>1. /\ rows'[r] = rows[r] /\ rowGen'[r] = rowGen[r] /\ inFlight'[r] = inFlight[r]
          /\ worker'[r] = worker[r]
      BY <2>2 DEF ViewInv, TypesInv, ViewTypes
    <3>2. PlaceOK(r, worker[r], rowGen[r], inFlight[r]) /\ BatchOK(r, rows[r], worker[r], cut)
      BY DEF ViewInv, TypesInv, PlaceInv, BatchInv
    <3>3. BatchOK(r, rows[r], worker[r], cut')
      <4>1. \A t : <<r, t>> \notin cut' => <<r, t>> \notin cut
        OBVIOUS
      <4> QED BY <3>2, <4>1 DEF BatchOK
    <3> QED BY <3>1, <3>2, <3>3
  <2> QED BY <2>1, <2>2
<1>3. PlaceInv' /\ BatchInv'
  BY <1>2 DEF PlaceInv, BatchInv
<1> QED BY <1>1, <1>3 DEF ViewInv, TypesInv, GuiTypes

LEMMA Current ==
  ASSUME ViewInv, NEW s \in Sessions
  PROVE  /\ rows[s] \in Seq(Pieces) /\ rowGen[s] \in Nat /\ inFlight[s] \in StreamRec
         /\ worker[s] \in WorkerRec
         /\ rows = [rows EXCEPT ![s] = rows[s]] /\ rowGen = [rowGen EXCEPT ![s] = rowGen[s]]
         /\ inFlight = [inFlight EXCEPT ![s] = inFlight[s]]
         /\ cut \in SUBSET (Sessions \X (0..MaxSteps)) /\ mailbox \in Seq(MessageRec) /\ GuiTypes
         /\ PlaceOK(s, worker[s], rowGen[s], inFlight[s]) /\ BatchOK(s, rows[s], worker[s], cut)
         /\ window.sess \in Sessions
<1>1. ViewTypes /\ relay = window.sess
  BY DEF ViewInv, TypesInv
<1>2. /\ rows[s] \in Seq(Pieces) /\ rowGen[s] \in Nat /\ inFlight[s] \in StreamRec
      /\ worker[s] \in WorkerRec
      /\ rows = [rows EXCEPT ![s] = rows[s]] /\ rowGen = [rowGen EXCEPT ![s] = rowGen[s]]
      /\ inFlight = [inFlight EXCEPT ![s] = inFlight[s]]
  BY <1>1 DEF ViewTypes
<1>3. cut \in SUBSET (Sessions \X (0..MaxSteps)) /\ mailbox \in Seq(MessageRec) /\ GuiTypes
  BY <1>1 DEF ViewTypes, GuiTypes
<1>4. PlaceOK(s, worker[s], rowGen[s], inFlight[s]) /\ BatchOK(s, rows[s], worker[s], cut)
  BY DEF ViewInv, TypesInv, PlaceInv, BatchInv
<1>5. window.sess \in Sessions
  BY <1>3 DEF GuiTypes
<1> QED BY <1>2, <1>3, <1>4, <1>5

LEMMA PublishKeeps ==
  ASSUME NEW s, NEW what \in {"row", "replace", "step", "delta"}, NEW piece \in Pieces,
         NEW gen \in Nat, mailbox \in Seq(MessageRec), Publish(s, what, piece, gen)
  PROVE  mailbox' \in Seq(MessageRec)
<1>1. [what |-> what, piece |-> piece, gen |-> gen] \in MessageRec
  BY DEF MessageRec
<1> QED BY <1>1 DEF Publish

LEMMA SameGui == GuiTypes /\ UNCHANGED gui => GuiTypes'
BY DEF GuiTypes, gui

\* the worker moves on: rows, generation and batch stay as they are
LEMMA MovesOn ==
  ASSUME ViewInv, NEW s \in Sessions, NEW f \in StreamRec, NEW w \in WorkerRec,
         UNCHANGED <<rows, rowGen>>, inFlight' = [inFlight EXCEPT ![s] = f],
         worker' = [worker EXCEPT ![s] = w], cut' = cut, UNCHANGED gui, mailbox' \in Seq(MessageRec),
         PlaceOK(s, w, rowGen[s], f), BatchOK(s, rows[s], w, cut)
  PROVE  ViewInv'
<1>1. /\ rows[s] \in Seq(Pieces) /\ rowGen[s] \in Nat /\ rows' = [rows EXCEPT ![s] = rows[s]]
      /\ rowGen' = [rowGen EXCEPT ![s] = rowGen[s]]
      /\ cut' \in SUBSET (Sessions \X (0..MaxSteps)) /\ cut \subseteq cut' /\ GuiTypes
  BY Current
<1>2. GuiTypes'
  BY <1>1, SameGui
<1> QED BY <1>1, <1>2, OneMoves

\* outside a batch
LEMMA MovesOutside ==
  ASSUME ViewInv, NEW s \in Sessions, NEW f \in StreamRec, NEW w \in WorkerRec,
         UNCHANGED <<rows, rowGen>>, inFlight' = [inFlight EXCEPT ![s] = f],
         worker' = [worker EXCEPT ![s] = w], cut' = cut, UNCHANGED gui, mailbox' \in Seq(MessageRec),
         PlaceOK(s, w, rowGen[s], f), ~Batching(worker[s]), ~Batching(w), w.step >= worker[s].step,
         Streaming(w) => Streaming(worker[s]) \/ w.step > worker[s].step
  PROVE  ViewInv'
<1>1. rows[s] \in Seq(Pieces) /\ worker[s] \in WorkerRec /\ BatchOK(s, rows[s], worker[s], cut)
  BY Current
<1>2. BatchOK(s, rows[s], w, cut)
  BY <1>1, BetweenBatches
<1> QED BY <1>2, MovesOn

LEMMA StorePromptKeeps == ASSUME ViewInv, NEW s \in Sessions, StorePrompt(s) PROVE ViewInv'
<1> DEFINE w == worker[s]
           q == rows[s]
           g == rowGen[s]
           f == inFlight[s]
           w2 == [w EXCEPT !.pc = "prompted", !.prompts = w.prompts + 1, !.gen = g + 1]
           p == Piece(s, "prompt", 0, w.prompts + 1, "")
<1>1. q \in Seq(Pieces) /\ g \in Nat /\ f \in StreamRec /\ w \in WorkerRec
  BY Current
<1>2. PlaceOK(s, w, g, f) /\ BatchOK(s, q, w, cut)
  BY Current
<1>3. w.pc = "idle" /\ w.prompts < MaxPrompts
  BY DEF StorePrompt, At
<1>4. /\ worker \in [Sessions -> WorkerRec] /\ rows \in [Sessions -> Seq(Pieces)]
      /\ rowGen \in [Sessions -> Nat] /\ inFlight \in [Sessions -> StreamRec]
  BY DEF ViewInv, TypesInv, ViewTypes
<1>5. /\ rows' = [rows EXCEPT ![s] = q \o <<p>>] /\ rowGen' = [rowGen EXCEPT ![s] = g + 1]
      /\ inFlight' = [inFlight EXCEPT ![s] = f] /\ worker' = [worker EXCEPT ![s] = w2]
  BY <1>4 DEF StorePrompt, AppendRow, Work
<1>6. /\ cut' \in SUBSET (Sessions \X (0..MaxSteps)) /\ cut \subseteq cut'
      /\ mailbox' \in Seq(MessageRec) /\ GuiTypes' /\ cut' = cut
  BY Current, SameGui DEF StorePrompt
<1> HIDE DEF w, q, g, f, w2, p
<1>7. w.prompts + 1 \in 0..MaxPrompts
  BY <1>1, <1>3, WorkerRanges, Bounds
<1>8. w2 \in WorkerRec /\ w2.pc = "prompted" /\ w2.step = w.step /\ w2.gen = g + 1
      /\ w2.callGen = w.callGen
  <2>1. "prompted" \in Places /\ g + 1 \in Nat
    BY <1>1 DEF Places
  <2>2. w2 \in WorkerRec
    BY <1>1, <1>7, <2>1 DEF WorkerRec, w2
  <2>3. w2.pc = "prompted" /\ w2.step = w.step /\ w2.gen = g + 1 /\ w2.callGen = w.callGen
    BY <1>1 DEF WorkerRec, w2
  <2> QED BY <2>2, <2>3
<1>9. p \in Pieces /\ p.kind = "prompt"
  <2>1. w.prompts + 1 \in Positions /\ 0 \in 0..MaxSteps
    BY <1>7, InPositions
  <2>4. "prompt" \in Kinds /\ "" \in Vals
    BY DEF Kinds, Vals
  <2>2. p \in Pieces
    BY <2>1, <2>4 DEF p, Piece, Pieces, Positions
  <2>3. p.kind = "prompt"
    BY DEF p, Piece
  <2> QED BY <2>2, <2>3
<1>10. BatchOK(s, q \o <<p>>, w2, cut')
  BY <1>1, <1>2, <1>3, <1>6, <1>8, <1>9, PromptStored DEF Batching, Streaming
<1>11. PlaceOK(s, w2, g + 1, f)
  BY <1>1, <1>2, <1>3, <1>8, WorkerFacts DEF PlaceOK
<1>12. q \o <<p>> \in Seq(Pieces) /\ g + 1 \in Nat
  BY <1>1, <1>9
<1> QED BY <1>1, <1>5, <1>6, <1>8, <1>10, <1>11, <1>12, OneMoves

LEMMA PublishPromptKeeps == ASSUME ViewInv, NEW s \in Sessions, PublishPrompt(s) PROVE ViewInv'
<1> DEFINE w == worker[s]
           g == rowGen[s]
           f == inFlight[s]
           p == Piece(s, "prompt", 0, w.prompts, "")
           w2 == Rest(w, "loop")
<1>1. g \in Nat /\ f \in StreamRec /\ w \in WorkerRec /\ PlaceOK(s, w, g, f)
  BY Current
<1>2. mailbox \in Seq(MessageRec) /\ inFlight = [inFlight EXCEPT ![s] = f]
  BY Current
<1>3. w.pc = "prompted" /\ Publish(s, "row", p, w.gen)
  BY DEF PublishPrompt, At
<1>4. worker' = [worker EXCEPT ![s] = w2] /\ UNCHANGED <<gui, rows, rowGen, inFlight, cut>>
  BY DEF PublishPrompt, Leave, Work
<1> HIDE DEF p
<1>5. p \in Pieces
  <2>1. /\ w.prompts \in Positions /\ 0 \in 0..MaxSteps /\ "prompt" \in Kinds /\ "" \in Vals
    BY <1>1, WorkerRanges, InPositions DEF Kinds, Vals
  <2> QED BY <2>1, PieceMade DEF p
<1>6. mailbox' \in Seq(MessageRec)
  BY <1>1, <1>2, <1>3, <1>5, WorkerFacts, PublishKeeps
<1>7. w2 \in WorkerRec /\ w2.pc = "loop" /\ w2.step = w.step /\ w2.gen = 0 /\ w2.callGen = 0
  BY <1>1, RestFacts, RestPlaces
<1> HIDE DEF w2, f
<1>8. PlaceOK(s, w2, g, f) /\ w2.step >= w.step
  BY <1>1, <1>3, <1>7, WorkerFacts DEF PlaceOK
<1>9. ~Batching(w) /\ ~Batching(w2) /\ ~Streaming(w2)
  BY <1>3, <1>7 DEF Batching, Streaming
<1> QED BY <1>1, <1>2, <1>4, <1>6, <1>7, <1>8, <1>9, MovesOutside

\* steps outside a batch that announce nothing
LEMMA QuietStepsKeep ==
  ASSUME ViewInv, NEW s \in Sessions,
         BeginStep(s) \/ EndTurn(s) \/ RetryRequest(s) \/ Delta(s) \/ FailStep(s)
  PROVE  ViewInv'
<1> DEFINE w == worker[s]
           g == rowGen[s]
           f == inFlight[s]
<1>1. g \in Nat /\ f \in StreamRec /\ w \in WorkerRec /\ PlaceOK(s, w, g, f)
  BY Current
<1>2. mailbox \in Seq(MessageRec) /\ inFlight = [inFlight EXCEPT ![s] = f]
  BY Current
<1>3. inFlight \in [Sessions -> StreamRec]
  BY DEF ViewInv, TypesInv, ViewTypes
<1>4. NoStream \in StreamRec /\ w.step \in Nat /\ w.len \in Nat
  BY <1>1, Bounds, WorkerFacts DEF NoStream, StreamRec
<1>5. UNCHANGED <<gui, mailbox, rows, rowGen, cut>>
  BY DEF BeginStep, EndTurn, RetryRequest, Delta, FailStep
<1>6. CASE BeginStep(s)
  <2> DEFINE w2 == [w EXCEPT !.pc = "announce", !.step = w.step + 1, !.len = 0]
             f2 == [step |-> w.step + 1, len |-> 0]
  <2>1. w.pc = "loop" /\ w.step < MaxSteps
    BY <1>6 DEF BeginStep, At
  <2>2. inFlight' = [inFlight EXCEPT ![s] = f2] /\ worker' = [worker EXCEPT ![s] = w2]
    BY <1>6 DEF BeginStep, Work
  <2>3. w.step + 1 \in 0..MaxSteps /\ 0 \in 0..MaxBytes
    BY <1>1, <2>1, WorkerRanges, Bounds
  <2>4. w2 \in WorkerRec
    BY <1>1, <2>3 DEF WorkerRec, Places
  <2>5. /\ w2.pc = "announce" /\ w2.step = w.step + 1 /\ w2.len = 0 /\ w2.gen = w.gen
        /\ w2.callGen = w.callGen
    BY <1>1 DEF WorkerRec
  <2>6. f2 \in StreamRec
    BY <2>3 DEF StreamRec
  <2> HIDE DEF w2
  <2>7. PlaceOK(s, w2, g, f2)
    BY <1>1, <1>4, <2>5 DEF PlaceOK
  <2>8. ~Batching(w) /\ ~Batching(w2) /\ w2.step > w.step /\ w2.step >= w.step
    BY <1>4, <2>1, <2>5 DEF Batching
  <2> HIDE DEF f2
  <2> QED BY <1>2, <1>5, <2>2, <2>4, <2>6, <2>7, <2>8, MovesOutside
<1>7. CASE EndTurn(s)
  <2> DEFINE w2 == [w EXCEPT !.pc = "idle"]
  <2>1. w.pc = "loop" /\ worker' = [worker EXCEPT ![s] = w2] /\ inFlight' = inFlight
    BY <1>7 DEF EndTurn, At, Goto, Work
  <2>2. w2 \in WorkerRec
    BY <1>1 DEF WorkerRec, Places
  <2>3. w2.pc = "idle" /\ w2.step = w.step /\ w2.gen = w.gen /\ w2.callGen = w.callGen
    BY <1>1 DEF WorkerRec
  <2> HIDE DEF w2
  <2>4. PlaceOK(s, w2, g, f) /\ ~Batching(w) /\ ~Batching(w2) /\ ~Streaming(w2) /\ w2.step >= w.step
    BY <1>1, <1>4, <2>1, <2>3 DEF PlaceOK, Batching, Streaming
  <2> QED BY <1>1, <1>2, <1>5, <2>1, <2>2, <2>4, MovesOutside
<1>8. CASE RetryRequest(s)
  <2> DEFINE w2 == [w EXCEPT !.pc = "announce"]
  <2>1. w.pc = "stream" /\ worker' = [worker EXCEPT ![s] = w2] /\ inFlight' = inFlight
    BY <1>8 DEF RetryRequest, At, Goto, Work
  <2>2. w2 \in WorkerRec
    BY <1>1 DEF WorkerRec, Places
  <2>3. /\ w2.pc = "announce" /\ w2.step = w.step /\ w2.gen = w.gen /\ w2.callGen = w.callGen
        /\ w2.len = w.len
    BY <1>1 DEF WorkerRec
  <2> HIDE DEF w2
  <2>4. PlaceOK(s, w2, g, f) /\ ~Batching(w) /\ ~Batching(w2) /\ Streaming(w) /\ w2.step >= w.step
    BY <1>1, <1>4, <2>1, <2>3 DEF PlaceOK, Batching, Streaming
  <2> QED BY <1>1, <1>2, <1>5, <2>1, <2>2, <2>4, MovesOutside
<1>9. CASE Delta(s)
  <2> DEFINE w2 == [w EXCEPT !.pc = "delta", !.len = w.len + 1]
             f2 == [f EXCEPT !.len = f.len + 1]
  <2>1. w.pc = "stream" /\ w.len < MaxBytes
    BY <1>9 DEF Delta, At
  <2>2. inFlight' = [inFlight EXCEPT ![s] = f2]
    BY <1>3, <1>9 DEF Delta
  <2>3. worker' = [worker EXCEPT ![s] = w2]
    BY <1>9 DEF Delta, Work
  <2>4. w.len + 1 \in 0..MaxBytes /\ f = [step |-> w.step, len |-> w.len] /\ w.step > 0
    BY <1>1, <2>1, WorkerRanges, Bounds DEF PlaceOK
  <2>5. w2 \in WorkerRec
    BY <1>1, <2>4 DEF WorkerRec, Places
  <2>6. /\ w2.pc = "delta" /\ w2.step = w.step /\ w2.len = w.len + 1 /\ w2.gen = w.gen
        /\ w2.callGen = w.callGen
    BY <1>1 DEF WorkerRec
  <2>7. f2 = [step |-> w.step, len |-> w.len + 1] /\ f2 \in StreamRec
    BY <1>1, <2>4 DEF StreamRec
  <2> HIDE DEF w2, f2
  <2>8. PlaceOK(s, w2, g, f2) /\ ~Batching(w) /\ ~Batching(w2) /\ Streaming(w) /\ w2.step >= w.step
    BY <1>1, <1>4, <2>1, <2>4, <2>6, <2>7 DEF PlaceOK, Batching, Streaming
  <2> QED BY <1>2, <1>5, <2>2, <2>3, <2>5, <2>7, <2>8, MovesOutside
<1>10. CASE FailStep(s)
  <2> DEFINE w2 == Rest(w, "idle")
  <2>1. /\ w.pc = "stream" /\ worker' = [worker EXCEPT ![s] = w2]
        /\ inFlight' = [inFlight EXCEPT ![s] = NoStream]
    BY <1>10 DEF FailStep, At, Leave, Work
  <2>4. "idle" \in Places
    BY DEF Places
  <2>2. w2 \in WorkerRec /\ w2.pc = "idle" /\ w2.step = w.step /\ w2.gen = 0 /\ w2.callGen = 0
    BY <1>1, <2>4, RestFacts
  <2> HIDE DEF w2
  <2>3. PlaceOK(s, w2, g, NoStream) /\ ~Batching(w) /\ ~Batching(w2) /\ ~Streaming(w2) /\ w2.step >= w.step
    BY <1>1, <1>4, <2>1, <2>2 DEF PlaceOK, Batching, Streaming
  <2> QED BY <1>2, <1>4, <1>5, <2>1, <2>2, <2>3, MovesOutside
<1> QED BY <1>6, <1>7, <1>8, <1>9, <1>10

\* the announcements of a step and of its text
LEMMA StreamToldKeeps ==
  ASSUME ViewInv, NEW s \in Sessions, PublishStep(s) \/ PublishDelta(s)
  PROVE  ViewInv'
<1> DEFINE w == worker[s]
           g == rowGen[s]
           f == inFlight[s]
           w2 == [w EXCEPT !.pc = "stream"]
<1>1. g \in Nat /\ f \in StreamRec /\ w \in WorkerRec /\ PlaceOK(s, w, g, f)
  BY Current
<1>2. mailbox \in Seq(MessageRec) /\ inFlight = [inFlight EXCEPT ![s] = f]
  BY Current
<1>3. w.pc \in {"announce", "delta"} /\ worker' = [worker EXCEPT ![s] = w2]
  BY DEF PublishStep, PublishDelta, At, Goto, Work
<1>4. UNCHANGED <<gui, rows, rowGen, inFlight, cut>>
  BY DEF PublishStep, PublishDelta
<1>5. mailbox' \in Seq(MessageRec)
  <2>1. "byte" \in Kinds /\ "" \in Vals /\ 0 \in 0..MaxBytes
    BY Bounds DEF Kinds, Vals
  <2>2. w.step \in 0..MaxSteps
    BY <1>1, WorkerRanges
  <2>3. CASE PublishStep(s)
    <3>1. Publish(s, "step", Byte(s, w.step, 0), 0)
      BY <2>3 DEF PublishStep
    <3>2. 0 \in Positions
      BY <2>1, InPositions
    <3>3. Byte(s, w.step, 0) \in Pieces
      BY <2>1, <2>2, <3>2, PieceMade DEF Byte
    <3> QED BY <1>2, <3>1, <3>3, PublishKeeps
  <2>4. CASE PublishDelta(s)
    <3>1. Publish(s, "delta", Byte(s, w.step, w.len - 1), 0) /\ w.pc = "delta"
      BY <2>4 DEF PublishDelta, At
    <3>2. w.len - 1 \in 0..MaxBytes
      BY <1>1, <3>1, WorkerRanges, Bounds DEF PlaceOK
    <3>3. w.len - 1 \in Positions
      BY <3>2, InPositions
    <3>4. Byte(s, w.step, w.len - 1) \in Pieces
      BY <2>1, <2>2, <3>3 DEF Byte, Piece, Pieces, Positions
    <3> QED BY <1>2, <3>1, <3>4, PublishKeeps
  <2> QED BY <2>3, <2>4
<1>6. w2 \in WorkerRec
  BY <1>1 DEF WorkerRec, Places
<1>7. /\ w2.pc = "stream" /\ w2.step = w.step /\ w2.len = w.len /\ w2.gen = w.gen
      /\ w2.callGen = w.callGen
  BY <1>1 DEF WorkerRec
<1> HIDE DEF w2, f
<1>8. PlaceOK(s, w2, g, f) /\ ~Batching(w) /\ ~Batching(w2) /\ Streaming(w) /\ w2.step >= w.step
  BY <1>1, <1>3, <1>7, WorkerFacts DEF PlaceOK, Batching, Streaming
<1> QED BY <1>1, <1>2, <1>3, <1>4, <1>5, <1>6, <1>8, MovesOutside

\* the pieces of an assistant row
LEMMA AnswerPieces ==
  ASSUME NEW s \in Sessions, NEW step \in 0..MaxSteps, NEW len \in 0..MaxBytes, NEW n \in 0..MaxCalls
  PROVE  /\ Bytes(s, step, len) \o Calls(s, step, n) \in Seq(Pieces)
         /\ \A i \in DOMAIN (Bytes(s, step, len) \o Calls(s, step, n)) :
              LET p == (Bytes(s, step, len) \o Calls(s, step, n))[i]
              IN  p.kind = "byte" \/ (p.kind = "call" /\ p.step = step /\ p.pos \in 1..n)
         /\ Bytes(s, step, len) \in Seq(Pieces)
<1> DEFINE b == Bytes(s, step, len)
           c == Calls(s, step, n)
<1>0. len \in Nat /\ n \in Nat
  BY Bounds
<1>1. len \in Nat /\ n \in Nat /\ "byte" \in Kinds /\ "call" \in Kinds /\ "" \in Vals
  BY Bounds DEF Kinds, Vals
<1>2. ASSUME NEW i \in 1..len PROVE Byte(s, step, i - 1) \in Pieces /\ Byte(s, step, i - 1).kind = "byte"
  <2>1. i - 1 \in 0..MaxBytes
    BY Bounds
  <2>2. i - 1 \in Positions
    BY <2>1, InPositions
  <2>3. Byte(s, step, i - 1) \in Pieces
    BY <1>1, <2>2, PieceMade DEF Byte
  <2>4. Byte(s, step, i - 1).kind = "byte"
    BY DEF Byte, Piece
  <2> QED BY <2>3, <2>4
<1>3. ASSUME NEW i \in 1..n
      PROVE  /\ Piece(s, "call", step, i, "") \in Pieces
             /\ Piece(s, "call", step, i, "").kind = "call" /\ Piece(s, "call", step, i, "").step = step
             /\ Piece(s, "call", step, i, "").pos = i
  <2>1. i \in 0..MaxCalls
    BY Bounds
  <2>2. i \in Positions
    BY <2>1, InPositions
  <2>3. Piece(s, "call", step, i, "") \in Pieces
    BY <1>1, <2>2, PieceMade
  <2> QED BY <2>3 DEF Piece
<1>4. b \in [1..len -> Pieces] /\ \A i \in 1..len : b[i].kind = "byte"
  BY <1>2 DEF Bytes
<1>5. /\ c \in [1..n -> Pieces]
      /\ \A i \in 1..n : c[i].kind = "call" /\ c[i].step = step /\ c[i].pos = i
  BY <1>3 DEF Calls
<1> HIDE DEF b, c
<1>6. b \in Seq(Pieces) /\ c \in Seq(Pieces) /\ Len(b) = len /\ Len(c) = n
  <2>1. b \in Seq(Pieces) /\ Len(b) = len
    BY <1>1, <1>4, SeqOfLength
  <2>2. c \in Seq(Pieces) /\ Len(c) = n
    BY <1>1, <1>5, SeqOfLength
  <2> QED BY <2>1, <2>2
<1>7. /\ b \o c \in Seq(Pieces) /\ DOMAIN (b \o c) = 1..(len + n)
      /\ \A i \in 1..len : (b \o c)[i] = b[i]
      /\ \A i \in (len + 1)..(len + n) : (b \o c)[i] = c[i - len]
  <2>1. /\ b \o c \in Seq(Pieces) /\ DOMAIN (b \o c) = 1..(Len(b) + Len(c)) /\ DOMAIN b = 1..Len(b)
        /\ \A i \in DOMAIN b : (b \o c)[i] = b[i]
        /\ \A i \in (Len(b) + 1)..(Len(b) + Len(c)) : (b \o c)[i] = c[i - Len(b)]
    BY <1>6, Extended
  <2> QED BY <1>6, <2>1
<1>8. ASSUME NEW i \in 1..(len + n)
      PROVE  (b \o c)[i].kind = "byte" \/ /\ (b \o c)[i].kind = "call" /\ (b \o c)[i].step = step
                                          /\ (b \o c)[i].pos \in 1..n
  <2>1. CASE i \in 1..len
    BY <2>1, <1>4, <1>7
  <2>2. CASE i \notin 1..len
    <3>1. i \in (len + 1)..(len + n) /\ i - len \in 1..n
      BY <2>2, <1>0
    <3> QED BY <3>1, <1>5, <1>7
  <2> QED BY <2>1, <2>2
<1> QED BY <1>6, <1>7, <1>8 DEF b, c

LEMMA PersistKeeps ==
  ASSUME ViewInv, NEW s \in Sessions, NEW n \in 0..(MaxCalls - worker[s].made), Persist(s, n)
  PROVE  ViewInv'
<1> DEFINE w == worker[s]
           q == rows[s]
           g == rowGen[s]
           r == Bytes(s, w.step, w.len) \o Calls(s, w.step, n)
           w2 == IF n = 0 THEN Rest(w, "loop")
                 ELSE [Rest(w, "call") EXCEPT !.made = w.made + n, !.calls = n, !.c = 1,
                                              !.callGen = g + 1]
           q2 == IF w.len = 0 /\ n = 0 THEN q ELSE q \o r
           g2 == IF w.len = 0 /\ n = 0 THEN g ELSE g + 1
<1>1. q \in Seq(Pieces) /\ g \in Nat /\ w \in WorkerRec
  BY Current
<1>2. PlaceOK(s, w, g, inFlight[s]) /\ BatchOK(s, q, w, cut)
  BY Current
<1>3. w.pc = "stream" /\ n \in Nat /\ n \in 0..MaxCalls /\ w.made + n \in 0..MaxCalls
  <2>1. w.pc = "stream"
    BY DEF Persist, At
  <2>2. w.made \in 0..MaxCalls
    BY <1>1, WorkerRanges
  <2> QED BY <2>1, <2>2, Bounds
<1>4. /\ worker \in [Sessions -> WorkerRec] /\ rows \in [Sessions -> Seq(Pieces)]
      /\ rowGen \in [Sessions -> Nat] /\ inFlight \in [Sessions -> StreamRec]
  BY DEF ViewInv, TypesInv, ViewTypes
<1>5. worker' = [worker EXCEPT ![s] = w2] /\ inFlight' = [inFlight EXCEPT ![s] = NoStream]
  BY <1>4 DEF Persist, EnterBatch, Work, AppendRow, Rest
<1>6. rows' = [rows EXCEPT ![s] = q2] /\ rowGen' = [rowGen EXCEPT ![s] = g2]
  BY <1>4 DEF Persist, AppendRow
<1>7. /\ cut' \in SUBSET (Sessions \X (0..MaxSteps)) /\ cut \subseteq cut'
      /\ mailbox' \in Seq(MessageRec) /\ GuiTypes' /\ cut' = cut
  BY Current, SameGui DEF Persist
<1>8. NoStream \in StreamRec
  BY Bounds DEF NoStream, StreamRec
<1> HIDE DEF w, q, g, r
<1>9. /\ w2 \in WorkerRec /\ w2.step = w.step /\ w2.gen = 0
      /\ IF n = 0 THEN w2.pc = "loop" /\ w2.callGen = 0
         ELSE w2.pc = "call" /\ w2.calls = n /\ w2.c = 1 /\ w2.callGen = g + 1
  <2>1. CASE n = 0
    BY <2>1, <1>1, RestFacts, RestPlaces
  <2>2. CASE n # 0
    <3> DEFINE x == Rest(w, "call")
    <3>1. x \in WorkerRec /\ x.pc = "call" /\ x.step = w.step /\ x.gen = 0
      BY <1>1, RestFacts, RestPlaces
    <3> HIDE DEF x
    <3>6. n \in 1..MaxCalls /\ w.made + n \in 0..MaxCalls
      BY <2>2, <1>3, Bounds
    <3>2. 1 \in 0..MaxCalls /\ g + 1 \in Nat
      BY <3>6, <1>1, Bounds
    <3>3. w2 = AtBatch(x, w.made + n, n, g + 1)
      BY <2>2 DEF x, AtBatch
    <3> HIDE DEF w2
    <3>7. /\ w2 \in WorkerRec /\ w2.pc = x.pc /\ w2.step = x.step /\ w2.gen = x.gen
          /\ w2.calls = n /\ w2.c = 1 /\ w2.callGen = g + 1
      <4> DEFINE m == w.made + n
                 k == g + 1
      <4>1. x \in WorkerRec /\ m \in 0..MaxCalls /\ n \in 1..MaxCalls /\ k \in Nat
        BY <3>1, <3>2, <3>6
      <4>2. w2 = AtBatch(x, m, n, k) /\ k = g + 1
        BY <3>3
      <4> HIDE DEF m, k
      <4>3. /\ AtBatch(x, m, n, k) \in WorkerRec /\ AtBatch(x, m, n, k).pc = x.pc
            /\ AtBatch(x, m, n, k).step = x.step /\ AtBatch(x, m, n, k).gen = x.gen
            /\ AtBatch(x, m, n, k).calls = n /\ AtBatch(x, m, n, k).c = 1
            /\ AtBatch(x, m, n, k).callGen = k
        BY <4>1, BatchPlaces
      <4> QED BY <4>2, <4>3
    <3>5. /\ w2.pc = "call" /\ w2.step = w.step /\ w2.gen = 0 /\ w2.calls = n /\ w2.c = 1
          /\ w2.callGen = g + 1
      BY <3>1, <3>7, Zenon
    <3> QED BY <2>2, <3>5, <3>7
  <2> HIDE DEF w2
  <2> QED BY <2>1, <2>2
<1> HIDE DEF w2
<1>10. /\ r \in Seq(Pieces)
       /\ \A i \in DOMAIN r : \/ r[i].kind = "byte"
                              \/ r[i].kind = "call" /\ r[i].step = w.step /\ r[i].pos \in 1..n
  <2>1. w.step \in 0..MaxSteps /\ w.len \in 0..MaxBytes
    BY <1>1, WorkerRanges
  <2> QED BY <2>1, <1>3, AnswerPieces DEF r
<1>11. q2 \in Seq(Pieces) /\ g2 \in Nat
  BY <1>1, <1>10
<1>12. BatchOK(s, q2, w2, cut')
  <2>1. Streaming(w) /\ ~Streaming(w2) /\ ~Batching(w) /\ (n = 0 => ~Batching(w2))
    BY <1>3, <1>9 DEF Streaming, Batching
  <2>2. CASE w.len = 0 /\ n = 0
    <3>1. q2 = q /\ ~Batching(w2) /\ w2.step >= w.step
      BY <2>1, <2>2, <1>1, <1>9, WorkerFacts
    <3> HIDE DEF q2
    <3> QED BY <2>1, <3>1, <1>1, <1>2, <1>7, <1>9, BetweenBatches
  <2>3. CASE ~(w.len = 0 /\ n = 0)
    <3>1. q2 = q \o r
      BY <2>3
    <3> HIDE DEF q2
    <3>2. BatchOK(s, q \o r, w2, cut)
      BY <2>1, <1>1, <1>2, <1>3, <1>9, <1>10, BatchStored
    <3> QED BY <3>1, <3>2, <1>7
  <2> QED BY <2>2, <2>3
<1>13. PlaceOK(s, w2, g2, NoStream)
  BY <1>1, <1>3, <1>9 DEF PlaceOK
<1> HIDE DEF q2, g2
<1> QED BY <1>5, <1>6, <1>7, <1>8, <1>9, <1>11, <1>12, <1>13, OneMoves

LEMMA PublishCallKeeps == ASSUME ViewInv, NEW s \in Sessions, PublishCall(s) PROVE ViewInv'
<1> DEFINE w == worker[s]
           g == rowGen[s]
           f == inFlight[s]
           w2 == [w EXCEPT !.pc = "tool"]
           p == Piece(s, "call", w.step, w.c, "")
<1>1. g \in Nat /\ f \in StreamRec /\ w \in WorkerRec /\ PlaceOK(s, w, g, f) /\ rows[s] \in Seq(Pieces)
  BY Current
<1>2. mailbox \in Seq(MessageRec) /\ inFlight = [inFlight EXCEPT ![s] = f] /\ BatchOK(s, rows[s], w, cut)
  BY Current
<1>3. w.pc = "call" /\ Publish(s, "row", p, w.callGen) /\ worker' = [worker EXCEPT ![s] = w2]
  BY DEF PublishCall, At, Goto, Work
<1>4. UNCHANGED <<gui, rows, rowGen, inFlight, cut>>
  BY DEF PublishCall
<1> HIDE DEF w, g, f, w2, p
<1>5. p \in Pieces
  <2>1. w.c \in Positions /\ w.step \in 0..MaxSteps
    BY <1>1, WorkerRanges, InPositions
  <2>2. "call" \in Kinds /\ "" \in Vals
    BY DEF Kinds, Vals
  <2> QED BY <2>1, <2>2, PieceMade DEF p
<1>6. mailbox' \in Seq(MessageRec)
  BY <1>1, <1>2, <1>3, <1>5, WorkerFacts, PublishKeeps
<1>7. w2 \in WorkerRec
  BY <1>1 DEF WorkerRec, Places, w2
<1>8. /\ w2.pc = "tool" /\ w2.step = w.step /\ w2.gen = w.gen /\ w2.callGen = w.callGen
      /\ w2.c = w.c /\ w2.calls = w.calls /\ w2.stop = w.stop
  BY <1>1 DEF WorkerRec, w2
<1>9. PlaceOK(s, w2, g, f)
  BY <1>1, <1>3, <1>8 DEF PlaceOK
<1>10. Batching(w) /\ Batching(w2) /\ Answered(w2) = Answered(w) /\ ~Open(w)
  BY <1>3, <1>8 DEF Batching, Answered, Open
<1>11. BatchOK(s, rows[s], w2, cut)
  BY <1>1, <1>2, <1>7, <1>8, <1>10, InsideBatch
<1> QED BY <1>1, <1>2, <1>3, <1>4, <1>6, <1>7, <1>9, <1>11, MovesOn DEF g

ResultVals == {"done", "stopper", "skipped", "asked"}

LEMMA StoreResultKeeps ==
  ASSUME ViewInv, NEW s \in Sessions, NEW val \in ResultVals, StoreResult(s, val)
  PROVE  ViewInv'
<1> DEFINE w == worker[s]
           q == rows[s]
           g == rowGen[s]
           f == inFlight[s]
           stops == w.stop \/ val \in {"skipped", "stopper"}
           w2 == [w EXCEPT !.pc = "result", !.val = val, !.gen = g + 1, !.stop = stops]
           p == Piece(s, "result", w.step, w.c, val)
<1>1. q \in Seq(Pieces) /\ g \in Nat /\ f \in StreamRec /\ w \in WorkerRec
  BY Current
<1>2. PlaceOK(s, w, g, f) /\ BatchOK(s, q, w, cut)
  BY Current
<1>3. w.pc = "tool" /\ (w.stop => val = "skipped")
  BY DEF StoreResult, At
<1>4. /\ worker \in [Sessions -> WorkerRec] /\ rows \in [Sessions -> Seq(Pieces)]
      /\ rowGen \in [Sessions -> Nat] /\ inFlight \in [Sessions -> StreamRec]
  BY DEF ViewInv, TypesInv, ViewTypes
<1>5. /\ rows' = [rows EXCEPT ![s] = q \o <<p>>] /\ rowGen' = [rowGen EXCEPT ![s] = g + 1]
      /\ inFlight' = [inFlight EXCEPT ![s] = f]
  BY <1>4 DEF StoreResult, AppendRow
<1>6. worker' = [worker EXCEPT ![s] = w2]
  BY DEF StoreResult, Work
<1>7. /\ cut' \in SUBSET (Sessions \X (0..MaxSteps)) /\ cut \subseteq cut'
      /\ mailbox' \in Seq(MessageRec) /\ GuiTypes' /\ cut' = cut
  BY Current, SameGui DEF StoreResult
<1> HIDE DEF w, q, g, f, p
<1>8. val \in Vals /\ g + 1 \in Nat
  <2>1. val \in Vals
    BY DEF ResultVals, Vals
  <2>2. g + 1 \in Nat
    BY <1>1
  <2> QED BY <2>1, <2>2
<1>16. stops \in BOOLEAN
  OBVIOUS
<1> HIDE DEF stops
<1>9. w2 \in WorkerRec
  BY <1>1, <1>8, <1>16 DEF WorkerRec, Places
<1>10. /\ w2.pc = "result" /\ w2.val = val /\ w2.gen = g + 1 /\ w2.callGen = w.callGen
       /\ w2.step = w.step /\ w2.c = w.c /\ w2.calls = w.calls
       /\ w2.stop = stops
  BY <1>1 DEF WorkerRec
<1> HIDE DEF w2
<1>11. p \in Pieces /\ p = Piece(s, "result", w.step, w.c, w2.val)
  <2>1. w.c \in Positions /\ w.step \in 0..MaxSteps
    BY <1>1, WorkerRanges, InPositions
  <2>2. "result" \in Kinds
    BY DEF Kinds
  <2> QED BY <2>1, <2>2, <1>8, <1>10, PieceMade DEF p
<1>12. w.c \in 1..w.calls
  BY <1>2, <1>3 DEF PlaceOK
<1>13. BatchOK(s, q \o <<p>>, w2, cut)
  BY <1>1, <1>2, <1>3, <1>9, <1>10, <1>11, <1>12, ResultStored DEF stops
<1>14. PlaceOK(s, w2, g + 1, f)
  BY <1>1, <1>2, <1>3, <1>10, <1>12, WorkerFacts DEF PlaceOK
<1>15. q \o <<p>> \in Seq(Pieces)
  BY <1>1, <1>11
<1> QED BY <1>1, <1>5, <1>6, <1>7, <1>8, <1>9, <1>13, <1>14, <1>15, OneMoves

\* the calls of a batch that never ran, or whose result could not be stored
LEMMA ResultFailsKeeps ==
  ASSUME ViewInv, NEW s \in Sessions, ResultFails(s) \/ BreakUnasked(s)
  PROVE  ViewInv'
<1> DEFINE w == worker[s]
           q == rows[s]
           g == rowGen[s]
           f == inFlight[s]
           w2 == Rest(w, "idle")
<1>1. q \in Seq(Pieces) /\ g \in Nat /\ f \in StreamRec /\ w \in WorkerRec
  BY Current
<1>2. PlaceOK(s, w, g, f) /\ BatchOK(s, q, w, cut)
  BY Current
<1>3. /\ w.pc \in {"call", "tool", "ask"}
      /\ worker' = [worker EXCEPT ![s] = w2] /\ cut' = cut \cup {<<s, w.step>>}
  BY DEF ResultFails, BreakUnasked, At, Leave, Work
<1>4. rows' = [rows EXCEPT ![s] = q] /\ rowGen' = [rowGen EXCEPT ![s] = g]
      /\ inFlight' = [inFlight EXCEPT ![s] = f]
  BY Current DEF ResultFails, BreakUnasked
<1>5. mailbox' \in Seq(MessageRec) /\ GuiTypes' /\ cut \in SUBSET (Sessions \X (0..MaxSteps))
  BY Current, SameGui DEF ResultFails, BreakUnasked
<1> HIDE DEF w, q, g, f
<1>6. w2 \in WorkerRec /\ w2.pc = "idle" /\ w2.step = w.step /\ w2.gen = 0 /\ w2.callGen = 0
  BY <1>1, RestFacts, RestPlaces
<1> HIDE DEF w2
<1>7. cut' \in SUBSET (Sessions \X (0..MaxSteps)) /\ cut \subseteq cut'
  BY <1>1, <1>3, <1>5, WorkerRanges
<1>8. BatchOK(s, q, w2, cut')
  <2>1. Batching(w) /\ ~Batching(w2) /\ ~Streaming(w2)
    BY <1>3, <1>6 DEF Batching, Streaming
  <2> QED BY <2>1, <1>1, <1>2, <1>3, <1>6, BatchCut
<1>9. PlaceOK(s, w2, g, f)
  BY <1>1, <1>2, <1>3, <1>6 DEF PlaceOK
<1> QED BY <1>1, <1>3, <1>4, <1>5, <1>6, <1>7, <1>8, <1>9, OneMoves

\* a result or an answer is announced, and the batch goes on
LEMMA ResultToldKeeps ==
  ASSUME ViewInv, NEW s \in Sessions, PublishResult(s) \/ PublishAnswer(s)
  PROVE  ViewInv'
<1> DEFINE w == worker[s]
           q == rows[s]
           g == rowGen[s]
           f == inFlight[s]
<1>1. q \in Seq(Pieces) /\ g \in Nat /\ f \in StreamRec /\ w \in WorkerRec
  BY Current
<1>2. PlaceOK(s, w, g, f) /\ BatchOK(s, q, w, cut)
  BY Current
<1>3. mailbox \in Seq(MessageRec) /\ inFlight = [inFlight EXCEPT ![s] = f]
  BY Current
<1>4. UNCHANGED <<gui, rows, rowGen, inFlight, cut>>
  BY DEF PublishResult, PublishAnswer
<1>5. w.pc \in {"result", "answered"} /\ w.c \in 1..w.calls
  BY <1>2 DEF PublishResult, PublishAnswer, At, PlaceOK
<1>6. mailbox' \in Seq(MessageRec)
  <2>1. w.c \in Positions /\ w.step \in 0..MaxSteps /\ w.gen \in Nat /\ w.val \in Vals
    BY <1>1, WorkerRanges, WorkerFacts, InPositions
  <2>2. "result" \in Kinds /\ "answered" \in Vals
    BY DEF Kinds, Vals
  <2>3. CASE PublishResult(s)
    <3>1. Publish(s, "row", Piece(s, "result", w.step, w.c, w.val), w.gen)
      BY <2>3 DEF PublishResult
    <3> HIDE DEF w
    <3>2. Piece(s, "result", w.step, w.c, w.val) \in Pieces
      BY <2>1, <2>2, PieceMade
    <3> QED BY <1>3, <2>1, <3>1, <3>2, PublishKeeps
  <2>4. CASE PublishAnswer(s)
    <3>1. Publish(s, "replace", Piece(s, "result", w.step, w.c, "answered"), w.gen)
      BY <2>4 DEF PublishAnswer
    <3> HIDE DEF w
    <3>2. Piece(s, "result", w.step, w.c, "answered") \in Pieces
      BY <2>1, <2>2, PieceMade
    <3> QED BY <1>3, <2>1, <3>1, <3>2, PublishKeeps
  <2> QED BY <2>3, <2>4
<1>7. CASE w.pc = "result" /\ w.val = "asked"
  <2> DEFINE w2 == [w EXCEPT !.pc = "ask"]
  <2>1. worker' = [worker EXCEPT ![s] = w2]
    BY <1>7 DEF PublishResult, PublishAnswer, At, Work
  <2> HIDE DEF w, g, f, q
  <2>2. w2 \in WorkerRec
    BY <1>1 DEF WorkerRec, Places
  <2>3. /\ w2.pc = "ask" /\ w2.step = w.step /\ w2.gen = w.gen /\ w2.callGen = w.callGen
        /\ w2.c = w.c /\ w2.calls = w.calls /\ w2.stop = w.stop
    BY <1>1 DEF WorkerRec
  <2> HIDE DEF w2
  <2>4. PlaceOK(s, w2, g, f)
    BY <1>2, <1>5, <1>7, <2>3 DEF PlaceOK
  <2>5. Batching(w) /\ Batching(w2) /\ Answered(w2) = Answered(w) /\ Open(w2)
    BY <1>7, <2>3 DEF Batching, Answered, Open
  <2>6. BatchOK(s, q, w2, cut)
    BY <1>1, <1>2, <1>7, <2>2, <2>3, <2>5, InsideBatch
  <2> QED BY <1>1, <1>3, <1>4, <1>6, <2>1, <2>2, <2>4, <2>6, MovesOn DEF g, q
<1>8. CASE ~(w.pc = "result" /\ w.val = "asked")
  <2> DEFINE w2 == NextCall(w)
  <2>1. worker' = [worker EXCEPT ![s] = w2]
    BY <1>8 DEF PublishResult, PublishAnswer, At, Work
  <2> HIDE DEF w, g, f, q
  <2>2. ~Open(w)
    BY <1>5, <1>8 DEF Open
  <2>3. /\ w2 \in WorkerRec /\ BatchOK(s, q, w2, cut) /\ w2.gen = 0 /\ w2.callGen \in {0, w.callGen}
        /\ w2.pc \in {"call", "loop"} /\ (Batching(w2) => w2.c \in 1..w2.calls)
    BY <1>1, <1>2, <1>5, <2>2, NextCallFacts
  <2> HIDE DEF w2
  <2>4. PlaceOK(s, w2, g, f)
    BY <1>1, <1>2, <1>5, <2>3 DEF PlaceOK, Batching
  <2> QED BY <1>1, <1>3, <1>4, <1>6, <2>1, <2>3, <2>4, MovesOn DEF g, q
<1> QED BY <1>7, <1>8

LEMMA AnswerKeeps == ASSUME ViewInv, NEW s \in Sessions, Answer(s) PROVE ViewInv'
<1> DEFINE w == worker[s]
           q == rows[s]
           g == rowGen[s]
           f == inFlight[s]
           q2 == Rewrite(q, w.c, "answered")
           w2 == [w EXCEPT !.pc = "answered", !.gen = g + 1]
<1>1. q \in Seq(Pieces) /\ g \in Nat /\ f \in StreamRec /\ w \in WorkerRec
  BY Current
<1>2. PlaceOK(s, w, g, f) /\ BatchOK(s, q, w, cut)
  BY Current
<1>3. w.pc = "ask" /\ worker' = [worker EXCEPT ![s] = w2]
  BY DEF Answer, At, Work
<1>4. /\ rows \in [Sessions -> Seq(Pieces)] /\ rowGen \in [Sessions -> Nat]
      /\ inFlight \in [Sessions -> StreamRec]
  BY DEF ViewInv, TypesInv, ViewTypes
<1>5. /\ rows' = [rows EXCEPT ![s] = q2] /\ rowGen' = [rowGen EXCEPT ![s] = g + 1]
      /\ inFlight' = [inFlight EXCEPT ![s] = f]
  BY <1>4 DEF Answer
<1>6. /\ cut' \in SUBSET (Sessions \X (0..MaxSteps)) /\ cut \subseteq cut'
      /\ mailbox' \in Seq(MessageRec) /\ GuiTypes' /\ cut' = cut
  BY Current, SameGui DEF Answer
<1> HIDE DEF w, q, g, f, q2
<1>7. g + 1 \in Nat
  BY <1>1
<1>8. w2 \in WorkerRec
  BY <1>1, <1>7 DEF WorkerRec, Places
<1>9. /\ w2.pc = "answered" /\ w2.gen = g + 1 /\ w2.callGen = w.callGen
      /\ w2.step = w.step /\ w2.c = w.c /\ w2.calls = w.calls /\ w2.stop = w.stop
  BY <1>1 DEF WorkerRec
<1> HIDE DEF w2
<1>10. q2 \in Seq(Pieces) /\ BatchOK(s, q2, w2, cut)
  BY <1>1, <1>2, <1>3, <1>8, <1>9, AnswerStored DEF q2
<1>11. PlaceOK(s, w2, g + 1, f)
  BY <1>1, <1>2, <1>3, <1>9, WorkerFacts DEF PlaceOK
<1> QED BY <1>1, <1>3, <1>5, <1>6, <1>7, <1>8, <1>10, <1>11, OneMoves

LEMMA RetryKeeps == ASSUME ViewInv, Retry PROVE ViewInv'
<1> DEFINE s == window.sess
           w == worker[s]
           q == rows[s]
           g == rowGen[s]
           f == inFlight[s]
           w2 == [w EXCEPT !.pc = "loop"]
           q2 == ThroughLastPrompt(q)
<1>0. s \in Sessions /\ window \in WindowRec /\ loads \in Nat /\ relay = s /\ clean \in BOOLEAN
  BY DEF ViewInv, TypesInv, ViewTypes, WindowRec
<1>1. q \in Seq(Pieces) /\ g \in Nat /\ f \in StreamRec /\ w \in WorkerRec
  BY <1>0, Current
<1>2. PlaceOK(s, w, g, f) /\ BatchOK(s, q, w, cut)
  BY <1>0, Current
<1>3. /\ w.pc = "idle" /\ Prompts(q) # {} /\ rows' = [rows EXCEPT ![s] = q2]
      /\ worker' = [worker EXCEPT ![s] = w2]
  <2>1. rows \in [Sessions -> Seq(Pieces)]
    BY DEF ViewInv, TypesInv, ViewTypes
  <2> QED BY <2>1, <1>0 DEF Retry, At, Goto, Work
<1>4. rowGen' = [rowGen EXCEPT ![s] = g] /\ inFlight' = [inFlight EXCEPT ![s] = f]
  BY <1>0, Current DEF Retry
<1>5. /\ cut' \in SUBSET (Sessions \X (0..MaxSteps)) /\ cut \subseteq cut' /\ cut' = cut
      /\ mailbox' \in Seq(MessageRec)
  BY <1>0, Current DEF Retry
<1>6. GuiTypes'
  <2>1. /\ window' = [window EXCEPT !.loading = TRUE] /\ shown' = <<>> /\ loads' = loads + 1
        /\ relay' = relay /\ clean' = clean
    BY DEF Retry
  <2>2. window' \in WindowRec /\ window'.sess = window.sess
    BY <1>0, <2>1 DEF WindowRec
  <2>3. shown' \in Seq(Pieces) /\ loads' \in Nat
    BY <1>0, <2>1
  <2> QED BY <1>0, <2>1, <2>2, <2>3 DEF GuiTypes
<1> HIDE DEF s, w, q, g, f, q2
<1>7. w2 \in WorkerRec
  BY <1>1 DEF WorkerRec, Places
<1>8. w2.pc = "loop" /\ w2.gen = w.gen /\ w2.callGen = w.callGen /\ w2.step = w.step
  BY <1>1 DEF WorkerRec
<1> HIDE DEF w2
<1>9. q2 \in Seq(Pieces) /\ BatchOK(s, q2, w2, cut)
  <2>1. ~Batching(w) /\ ~Batching(w2) /\ ~Streaming(w2)
    BY <1>3, <1>8 DEF Batching, Streaming
  <2> QED BY <2>1, <1>1, <1>2, <1>3, <1>7, <1>8, Truncated DEF q2
<1>10. PlaceOK(s, w2, g, f)
  BY <1>2, <1>3, <1>8 DEF PlaceOK
<1> QED BY <1>0, <1>1, <1>3, <1>4, <1>5, <1>6, <1>7, <1>9, <1>10, OneMoves

\* the window's own steps leave the engine alone
LEMMA EngineAlone ==
  ASSUME ViewInv, UNCHANGED engine, mailbox' \in Seq(MessageRec), GuiTypes'
  PROVE  ViewInv'
<1>1. ViewTypes'
  BY DEF ViewInv, TypesInv, ViewTypes, GuiTypes, engine
<1>2. PlaceInv' /\ BatchInv'
  BY DEF ViewInv, TypesInv, PlaceInv, BatchInv, engine
<1> QED BY <1>1, <1>2 DEF ViewInv, TypesInv, GuiTypes

LEMMA WindowKeeps ==
  ASSUME ViewInv, Handle \/ LoadHistory \/ \E s \in Sessions : Select(s)
  PROVE  ViewInv'
<1>1. /\ window \in WindowRec /\ window.sess \in Sessions /\ relay = window.sess
      /\ shown \in Seq(Pieces) /\ loads \in Nat /\ clean \in BOOLEAN /\ mailbox \in Seq(MessageRec)
  BY DEF ViewInv, TypesInv, ViewTypes, WindowRec
<1>2. CASE Handle
  <2> DEFINE m == Head(mailbox)
  <2>1. m \in MessageRec /\ mailbox' = Tail(mailbox) /\ mailbox' \in Seq(MessageRec)
    BY <1>1, <1>2 DEF Handle
  <2>2. UNCHANGED <<engine, relay, loads, clean>>
    BY <1>2 DEF Handle
  <2>3. m.piece \in Pieces
    BY <2>1 DEF MessageRec
  <2>4. HandleRow(m) \/ HandleReplace(m) \/ HandleStep(m) \/ HandleDelta(m)
    BY <1>2 DEF Handle
  <2> HIDE DEF m
  <2>5. Append(shown, m.piece) \in Seq(Pieces)
    BY <1>1, <2>3
  <2>6. ASSUME NEW pos, NEW val \in Vals
        PROVE  Rewrite(shown, pos, val) \in Seq(Pieces)
    <3>1. DOMAIN shown = 1..Len(shown) /\ Len(shown) \in Nat /\ \A i \in 1..Len(shown) : shown[i] \in Pieces
      BY <1>1
    <3>2. \A i \in 1..Len(shown) : [shown[i] EXCEPT !.val = val] \in Pieces
      BY <3>1, <2>6 DEF Pieces
    <3>3. Rewrite(shown, pos, val) \in [1..Len(shown) -> Pieces]
      BY <3>1, <3>2 DEF Rewrite
    <3> QED BY <3>1, <3>3, SeqOfLength
  <2>7. shown' \in Seq(Pieces)
    <3>1. m.piece.val \in Vals
      BY <2>3 DEF Pieces
    <3> QED BY <1>1, <2>4, <2>5, <2>6, <3>1 DEF HandleRow, HandleReplace, HandleStep, HandleDelta
  <2>8. window' \in WindowRec /\ window'.sess = window.sess
    <3>1. m.piece.step \in 0..MaxSteps /\ 0 \in 0..MaxBytes
      BY <2>3, Bounds DEF Pieces
    <3>2. [window EXCEPT !.step = m.piece.step, !.floor = 0] \in WindowRec
      BY <1>1, <3>1 DEF WindowRec
    <3>3. [window EXCEPT !.step = m.piece.step, !.floor = 0].sess = window.sess
      BY <1>1 DEF WindowRec
    <3> QED BY <1>1, <2>4, <3>2, <3>3 DEF HandleRow, HandleReplace, HandleStep, HandleDelta
  <2> QED BY <1>1, <2>1, <2>2, <2>7, <2>8, EngineAlone DEF GuiTypes
<1>3. CASE LoadHistory
  <2> DEFINE s == window.sess
             f == inFlight[s]
  <2>1. f \in StreamRec /\ rows[s] \in Seq(Pieces) /\ rowGen[s] \in Nat
    BY <1>1, Current
  <2>2. f.step \in 0..MaxSteps /\ f.len \in 0..MaxBytes
    BY <2>1 DEF StreamRec
  <2>3. Bytes(s, f.step, f.len) \in Seq(Pieces)
    <3>1. 0 \in 0..MaxCalls
      BY Bounds
    <3> QED BY <1>1, <2>2, <3>1, AnswerPieces
  <2>4. /\ shown' = rows[s] \o Bytes(s, f.step, f.len)
        /\ window' = [window EXCEPT !.step = f.step, !.floor = f.len, !.gen = rowGen[s], !.loading = FALSE]
        /\ clean' = (clean /\ ~Behind(s, f.step)) /\ UNCHANGED <<engine, relay, mailbox, loads>>
    BY <1>3 DEF LoadHistory
  <2>5. window' \in WindowRec /\ window'.sess = window.sess
    BY <1>1, <2>1, <2>2, <2>4 DEF WindowRec
  <2>6. shown' \in Seq(Pieces)
    BY <2>1, <2>3, <2>4
  <2>7. clean' \in BOOLEAN
    BY <2>4
  <2> QED BY <1>1, <2>4, <2>5, <2>6, <2>7, EngineAlone DEF GuiTypes
<1>4. ASSUME NEW s \in Sessions, Select(s) PROVE ViewInv'
  <2>1. /\ window' = [window EXCEPT !.sess = s, !.loading = TRUE] /\ relay' = s /\ shown' = <<>>
        /\ loads' = loads + 1 /\ UNCHANGED <<engine, mailbox, clean>>
    BY <1>4 DEF Select
  <2>2. window' \in WindowRec /\ window'.sess = s
    BY <1>1, <2>1 DEF WindowRec
  <2>3. shown' \in Seq(Pieces) /\ loads' \in Nat
    BY <1>1, <2>1
  <2> QED BY <1>1, <2>1, <2>2, <2>3, EngineAlone DEF GuiTypes
<1> QED BY <1>2, <1>3, <1>4

LEMMA ViewInit == Init => ViewInv
<1> SUFFICES ASSUME Init PROVE ViewInv
  OBVIOUS
<1>1. /\ IdleWorker \in WorkerRec /\ IdleWorker.pc = "idle" /\ IdleWorker.gen = 0
      /\ IdleWorker.callGen = 0
  <2>1. 0 \in 0..MaxPrompts /\ 0 \in 0..MaxSteps /\ 0 \in 0..MaxBytes /\ 0 \in 0..MaxCalls
    BY Bounds
  <2>2. "" \in Vals /\ "idle" \in Places
    BY DEF Vals, Places
  <2> QED BY <2>1, <2>2 DEF IdleWorker, WorkerRec
<1>2. NoStream \in StreamRec
  BY Bounds DEF NoStream, StreamRec
<1>3. window \in WindowRec /\ relay = window.sess /\ relay \in Sessions
  BY Bounds DEF Init, WindowRec
<1>4. /\ rows = [s \in Sessions |-> <<>>] /\ rowGen = [s \in Sessions |-> 0]
      /\ inFlight = [s \in Sessions |-> NoStream] /\ worker = [s \in Sessions |-> IdleWorker]
      /\ mailbox = <<>> /\ shown = <<>> /\ loads = 0 /\ cut = {} /\ clean = TRUE
  BY DEF Init
<1>5. ViewTypes
  <2>1. <<>> \in Seq(Pieces) /\ <<>> \in Seq(MessageRec)
    OBVIOUS
  <2> QED BY <1>1, <1>2, <1>3, <1>4, <2>1 DEF ViewTypes
<1>6. PlaceInv
  BY <1>1, <1>4 DEF PlaceInv, PlaceOK
<1>7. BatchInv
  <2>1. ~Batching(IdleWorker) /\ IdleWorker.pc \notin {"result", "ask"}
    BY <1>1 DEF Batching
  <2>2. \A s \in Sessions : rows[s] = <<>> /\ worker[s] = IdleWorker
    BY <1>4
  <2> HIDE DEF IdleWorker
  <2>3. ASSUME NEW s \in Sessions PROVE BatchOK(s, <<>>, IdleWorker, cut)
    BY <2>1 DEF BatchOK, SkipsStay
  <2> QED BY <2>2, <2>3 DEF BatchInv
<1> QED BY <1>3, <1>5, <1>6, <1>7 DEF ViewInv, TypesInv

LEMMA ViewStep == ViewInv /\ [Next]_vars => ViewInv'
<1> SUFFICES ASSUME ViewInv, [Next]_vars PROVE ViewInv'
  OBVIOUS
<1>1. CASE UNCHANGED vars
  <2>1. UNCHANGED engine /\ UNCHANGED gui /\ mailbox' = mailbox
    BY <1>1 DEF vars
  <2>2. mailbox \in Seq(MessageRec) /\ GuiTypes
    BY DEF ViewInv, TypesInv, ViewTypes, GuiTypes
  <2> QED BY <2>1, <2>2, SameGui, EngineAlone
<1>2. CASE WindowStep
  BY <1>2, RetryKeeps, WindowKeeps DEF WindowStep
<1>3. ASSUME NEW s \in Talking, WorkerStep(s) PROVE ViewInv'
  <2>1. s \in Sessions
    BY Bounds
  <2>2. CASE StorePrompt(s) \/ PublishPrompt(s)
    BY <2>1, <2>2, StorePromptKeeps, PublishPromptKeeps
  <2>3. CASE BeginStep(s) \/ EndTurn(s) \/ RetryRequest(s) \/ Delta(s) \/ FailStep(s)
    BY <2>1, <2>3, QuietStepsKeep
  <2>4. CASE PublishStep(s) \/ PublishDelta(s)
    BY <2>1, <2>4, StreamToldKeeps
  <2>5. CASE \E n \in 0..(MaxCalls - worker[s].made) : Persist(s, n)
    BY <2>1, <2>5, PersistKeeps
  <2>6. CASE PublishCall(s) \/ ResultFails(s) \/ BreakUnasked(s)
    BY <2>1, <2>6, PublishCallKeeps, ResultFailsKeeps
  <2>7. CASE \E val \in {"done", "stopper", "skipped", "asked"} : StoreResult(s, val)
    BY <2>1, <2>7, StoreResultKeeps DEF ResultVals
  <2>8. CASE PublishResult(s) \/ PublishAnswer(s)
    BY <2>1, <2>8, ResultToldKeeps
  <2>9. CASE Answer(s)
    BY <2>1, <2>9, AnswerKeeps
  <2> QED BY <1>3, <2>2, <2>3, <2>4, <2>5, <2>6, <2>7, <2>8, <2>9 DEF WorkerStep
<1> QED BY <1>1, <1>2, <1>3 DEF Next

\* Where a worker stands says what its rows hold of the batch: at append_transcript_row
\* and answer_question no call of it has more than one result.
THEOREM ViewInvariant == Spec => []ViewInv
<1> QED BY ViewInit, ViewStep, PTL DEF Spec

\* What the engine, the relay and the window hold stays in its range.
THEOREM ViewTypesHold == Spec => []TypeOK
<1>1. ViewInv => TypeOK
  <2> SUFFICES ASSUME ViewInv PROVE TypeOK
    OBVIOUS
  <2>1. relay = window.sess /\ window.sess \in Sessions /\ shown \in Seq(Pieces)
    BY DEF ViewInv, TypesInv, ViewTypes
  <2>2. rowGen \in [Sessions -> Nat] /\ inFlight \in [Sessions -> [step: 0..MaxSteps, len: 0..MaxBytes]]
    BY DEF ViewInv, TypesInv, ViewTypes, StreamRec
  <2>3. ASSUME NEW s \in Sessions
        PROVE  /\ IsSeqOf(rows[s], Pieces)
               /\ worker[s].step \in 0..MaxSteps /\ worker[s].len \in 0..MaxBytes
               /\ worker[s].gen <= rowGen[s] /\ worker[s].callGen <= rowGen[s]
               /\ inFlight[s] # NoStream =>
                    /\ At(s, "announce") \/ At(s, "stream") \/ At(s, "delta")
                    /\ inFlight[s] = [step |-> worker[s].step, len |-> worker[s].len]
    <3>1. /\ rows[s] \in Seq(Pieces) /\ worker[s] \in WorkerRec
          /\ PlaceOK(s, worker[s], rowGen[s], inFlight[s])
      BY Current
    <3>2. worker[s].step \in 0..MaxSteps /\ worker[s].len \in 0..MaxBytes
      BY <3>1, WorkerRanges
    <3> QED BY <3>1, <3>2 DEF PlaceOK, IsSeqOf, At
  <2> QED BY <2>1, <2>2, <2>3 DEF TypeOK, IsSeqOf
<1> QED BY <1>1, ViewInvariant, PTL

\* Every recorded call of a batch that ran to its end has one result, its real one
\* or an explicit skip, and no question stays open: through interrupts, denials,
\* plan proposals, questions and /retry.  The batches in cut are left out: what the
\* turn left unrun at engine.cpp:2708, or a refused row ended.
THEOREM BatchAnsweredHolds == Spec => []BatchAnswered
<1>1. ViewInv => BatchAnswered
  <2> SUFFICES ASSUME ViewInv, NEW s \in Sessions, NEW i \in DOMAIN rows[s], Calling(s, i),
                      <<s, rows[s][i].step>> \notin cut
               PROVE  \E k \in DOMAIN rows[s] :
                        /\ ResultsOf(rows[s], rows[s][i]) = {k} /\ k > i
                        /\ rows[s][k].val # "asked"
                        /\ rows[s][k].val \in {"skipped", "stopper"} =>
                             \A j \in (k + 1)..Len(rows[s]) :
                               (rows[s][j].kind = "result" /\ rows[s][j].step = rows[s][i].step) =>
                                 rows[s][j].val = "skipped"
    BY DEF BatchAnswered
  <2> DEFINE q == rows[s]
  <2>1. q \in Seq(Pieces) /\ BatchOK(s, q, worker[s], cut)
    BY Current
  <2>2. /\ InBatch(s) <=> Batching(worker[s])
        /\ q[i].kind = "call" /\ ~(InBatch(s) /\ q[i].step = worker[s].step)
    BY DEF InBatch, Batching, Calling
  <2>3. CallSettled(q, i) /\ SkipsStay(q)
    BY <2>1, <2>2 DEF BatchOK
  <2> HIDE DEF q
  <2>4. PICK k \in DOMAIN q : IsAnswer(q, i, k) /\ q[k].val # "asked"
    BY <2>3 DEF CallSettled
  <2>5. ResultsOf(q, q[i]) = {k} /\ k > i
    BY <2>4 DEF IsAnswer
  <2>6. q[k].kind = "result" /\ q[k].step = q[i].step
    <3>1. k \in ResultsOf(q, q[i])
      BY <2>5
    <3> QED BY <3>1 DEF ResultsOf
  <2>7. DOMAIN q = 1..Len(q) /\ Len(q) \in Nat
    BY <2>1
  <2>8. \A j \in (k + 1)..Len(q) : j \in DOMAIN q /\ k < j
    BY <2>7
  <2> QED BY <2>3, <2>4, <2>5, <2>6, <2>8 DEF SkipsStay, q
<1> QED BY <1>1, ViewInvariant, PTL

(***************************************************************************)
(* What the window shows, what waits in its mailbox and what the worker is *)
(* about to announce, as one sequence of events.  An event is live when it *)
(* shows, or will be taken for, a row the last load had not covered.       *)
(***************************************************************************)
Event(what, piece, live) == [what |-> what, piece |-> piece, live |-> live]
EventRec == [what: {"row", "replace", "step", "delta"}, piece: Pieces, live: BOOLEAN]

Fresh(m, s, g) == m.what \in {"row", "replace"} /\ m.piece.sess = s /\ m.gen > g

\* the announcement behind the place of a worker
Coming(s, w, g) ==
  CASE w.pc = "prompted" -> <<Event("row", Piece(s, "prompt", 0, w.prompts, ""), w.gen > g)>>
    [] w.pc = "call" -> <<Event("row", Piece(s, "call", w.step, w.c, ""), w.callGen > g)>>
    [] w.pc = "result" -> <<Event("row", Piece(s, "result", w.step, w.c, w.val), w.gen > g)>>
    [] w.pc = "answered" ->
         <<Event("replace", Piece(s, "result", w.step, w.c, "answered"), w.gen > g)>>
    [] w.pc = "announce" -> <<Event("step", Byte(s, w.step, 0), FALSE)>>
    [] w.pc = "delta" -> <<Event("delta", Byte(s, w.step, w.len - 1), FALSE)>>
    [] OTHER -> <<>>

OnScreen(q) == [i \in DOMAIN q |-> Event("row", q[i], IsRow(q[i]))]
Queued(box, s, g) == [i \in DOMAIN box |-> Event(box[i].what, box[i].piece, Fresh(box[i], s, g))]
Line(q, box, s, g, coming) == OnScreen(q) \o Queued(box, s, g) \o coming
Telling(q, box, s, w, g) == Line(q, box, s, g, Coming(s, w, g))

SameKey(p, q) == p.kind = q.kind /\ p.step = q.step /\ p.pos = q.pos
LiveRow(V, i) == V[i].live /\ V[i].what = "row"
LiveAnswer(V, i) == V[i].live /\ V[i].what = "replace"

\* calls of the batch at work that were not loaded and whose turn has not come
Later(p, w, g) == p.kind = "call" /\ Batching(w) /\ p.step = w.step /\ p.pos > w.c /\ w.callGen > g

\* every live event is about a stored row of the session
Backed(V, R) ==
  \A i \in DOMAIN V : V[i].live =>
    /\ V[i].what \in {"row", "replace"} /\ IsRow(V[i].piece)
    /\ \E k \in DOMAIN R : SameKey(V[i].piece, R[k]) /\ V[i].piece.sess = R[k].sess

\* every stored row is shown or announced, or its call's turn has not come
AllTold(V, R, s, w, g, gone) ==
  \A k \in DOMAIN R : IsRow(R[k]) =>
    \/ R[k].kind = "call" /\ (Later(R[k], w, g) \/ <<s, R[k].step>> \in gone)
    \/ \E i \in DOMAIN V : LiveRow(V, i) /\ SameKey(V[i].piece, R[k])

\* calls are told in the order of the rows, and so is everything else
InOrder(V, R) ==
  \A i, j \in DOMAIN V, k, l \in DOMAIN R :
    /\ LiveRow(V, i) /\ LiveRow(V, j) /\ SameKey(V[i].piece, R[k]) /\ SameKey(V[j].piece, R[l])
    /\ R[k].kind = "call" <=> R[l].kind = "call"
    => (i < j <=> k < l)

\* with the value that is stored, unless the answer that replaces it is behind
ValuesTold(V, R) ==
  \A i \in DOMAIN V, k \in DOMAIN R :
    LiveRow(V, i) /\ SameKey(V[i].piece, R[k]) =>
      \/ V[i].piece.val = R[k].val
      \/ \E j \in DOMAIN V : j > i /\ LiveAnswer(V, j) /\ SameKey(V[j].piece, R[k])

\* an answer comes behind the result it replaces, with no result between them
AnswersTold(V, R) ==
  \A j \in DOMAIN V : LiveAnswer(V, j) =>
    /\ V[j].piece.kind = "result" /\ V[j].piece.val = "answered"
    /\ \A k \in DOMAIN R : SameKey(V[j].piece, R[k]) => R[k].val = V[j].piece.val
    /\ \E i \in DOMAIN V :
         /\ i < j /\ LiveRow(V, i) /\ SameKey(V[i].piece, V[j].piece)
         /\ \A n \in DOMAIN V : i < n /\ n < j /\ LiveRow(V, n) => V[n].piece.kind # "result"

\* no call is told before its turn
InTurn(V, w, g) ==
  Batching(w) /\ w.callGen > g =>
    \A i \in DOMAIN V : LiveRow(V, i) /\ V[i].piece.kind = "call" /\ V[i].piece.step = w.step =>
      V[i].piece.pos <= w.c

Told(V, R, s, w, g, gone) ==
  /\ Backed(V, R) /\ AllTold(V, R, s, w, g, gone) /\ InOrder(V, R)
  /\ ValuesTold(V, R) /\ AnswersTold(V, R) /\ InTurn(V, w, g)

\* the rows of a session and its worker
RowOrder(p, q) ==
  p.kind = "call" /\ q.kind = "call" => p.step < q.step \/ (p.step = q.step /\ p.pos < q.pos)
RowsOK(s, R, w) ==
  /\ \A i \in DOMAIN R : /\ R[i].sess = s
                         /\ IF R[i].kind = "prompt" THEN R[i].pos <= w.prompts
                            ELSE R[i].step <= w.step /\ (Streaming(w) => R[i].step < w.step)
  /\ \A i, j \in DOMAIN R : i < j => ~SameKey(R[i], R[j]) /\ RowOrder(R[i], R[j])
  /\ Batching(w) => \A c \in 1..w.calls : \E k \in DOMAIN R : R[k] = Piece(s, "call", w.step, c, "")

GensOK(w) ==
  /\ w.pc \in {"prompted", "result", "answered"} => w.gen > 0
  /\ Batching(w) => w.callGen > 0

\* generations of announcements
MessageOK(m, gens) ==
  IF m.what \in {"row", "replace"} THEN m.gen \in 1..gens[m.piece.sess] ELSE m.piece.kind = "byte"
MailOK == \A i \in DOMAIN mailbox : MessageOK(mailbox[i], rowGen)

Now == Telling(shown, mailbox, window.sess, worker[window.sess], window.gen)

TellInv ==
  /\ \A s \in Sessions : RowsOK(s, rows[s], worker[s]) /\ GensOK(worker[s])
  /\ MailOK
  /\ window.loading => shown = <<>>
  /\ ~window.loading =>
       /\ window.gen <= rowGen[window.sess]
       /\ Told(Now, rows[window.sess], window.sess, worker[window.sess], window.gen, cut)


(***************************************************************************)
(* Events that come and go.                                                *)
(***************************************************************************)
\* the answer at j has nothing left to replace
Spent(V, j) ==
  LiveAnswer(V, j) /\ \A i \in DOMAIN V :
    LiveRow(V, i) /\ SameKey(V[i].piece, V[j].piece) => V[i].piece.val = V[j].piece.val

\* f finds the live events of U in V, and misses at most spent answers
Thins(U, V, f) ==
  /\ \A i \in DOMAIN U : U[i].live => f[i] \in DOMAIN V /\ V[f[i]] = U[i]
  /\ \A i, j \in DOMAIN U : U[i].live /\ U[j].live => (i < j <=> f[i] < f[j])
  /\ \A j \in DOMAIN V : V[j].live =>
       Spent(V, j) \/ \E i \in DOMAIN U : U[i].live /\ f[i] = j

LEMMA ToldThinned ==
  ASSUME NEW V, NEW U, NEW R, NEW s, NEW w, NEW g, NEW gone, NEW f,
         Told(V, R, s, w, g, gone), Thins(U, V, f)
  PROVE  Told(U, R, s, w, g, gone)
<1>1. ASSUME NEW i \in DOMAIN U, U[i].live
      PROVE  /\ f[i] \in DOMAIN V /\ V[f[i]] = U[i]
             /\ LiveRow(U, i) <=> LiveRow(V, f[i])
             /\ LiveAnswer(U, i) <=> LiveAnswer(V, f[i])
  BY <1>1 DEF Thins, LiveRow, LiveAnswer
<1>2. ASSUME NEW j \in DOMAIN V, V[j].live
      PROVE  Spent(V, j) \/ \E i \in DOMAIN U : U[i].live /\ f[i] = j
  BY <1>2 DEF Thins
<1>3. ASSUME NEW j \in DOMAIN V, LiveRow(V, j)
      PROVE  \E i \in DOMAIN U : LiveRow(U, i) /\ f[i] = j /\ U[i] = V[j]
  <2>1. ~Spent(V, j) /\ V[j].live
    BY <1>3 DEF Spent, LiveRow, LiveAnswer
  <2>2. PICK i \in DOMAIN U : U[i].live /\ f[i] = j
    BY <1>2, <2>1
  <2> QED BY <1>1, <1>3, <2>2
<1>4. \A i, j \in DOMAIN U : U[i].live /\ U[j].live => (i < j <=> f[i] < f[j])
  BY DEF Thins
<1>5. Backed(U, R)
  BY <1>1 DEF Backed, Told
<1>6. AllTold(U, R, s, w, g, gone)
  BY <1>3 DEF AllTold, Told
<1>7. InOrder(U, R)
  <2> SUFFICES ASSUME NEW i \in DOMAIN U, NEW j \in DOMAIN U, NEW k \in DOMAIN R, NEW l \in DOMAIN R,
                      LiveRow(U, i), LiveRow(U, j), SameKey(U[i].piece, R[k]),
                      SameKey(U[j].piece, R[l]), R[k].kind = "call" <=> R[l].kind = "call"
               PROVE  i < j <=> k < l
    BY DEF InOrder
  <2>1. U[i].live /\ U[j].live
    BY DEF LiveRow
  <2>2. f[i] < f[j] <=> k < l
    BY <1>1, <2>1 DEF Told, InOrder
  <2> QED BY <1>4, <2>1, <2>2
<1>8. ValuesTold(U, R)
  <2> SUFFICES ASSUME NEW i \in DOMAIN U, NEW k \in DOMAIN R, LiveRow(U, i),
                      SameKey(U[i].piece, R[k]), U[i].piece.val # R[k].val
               PROVE  \E j \in DOMAIN U : j > i /\ LiveAnswer(U, j) /\ SameKey(U[j].piece, R[k])
    BY DEF ValuesTold
  <2>1. U[i].live
    BY DEF LiveRow
  <2>2. f[i] \in DOMAIN V /\ V[f[i]] = U[i] /\ LiveRow(V, f[i])
    BY <1>1, <2>1
  <2>3. PICK j \in DOMAIN V : j > f[i] /\ LiveAnswer(V, j) /\ SameKey(V[j].piece, R[k])
    BY <2>2 DEF Told, ValuesTold
  <2>4. R[k].val = V[j].piece.val
    BY <2>3 DEF Told, AnswersTold
  <2>5. ~Spent(V, j)
    BY <2>2, <2>3, <2>4 DEF Spent, SameKey
  <2>6. V[j].live
    BY <2>3 DEF LiveAnswer
  <2>7. PICK n \in DOMAIN U : U[n].live /\ f[n] = j
    BY <1>2, <2>5, <2>6
  <2>8. LiveAnswer(U, n) /\ SameKey(U[n].piece, R[k]) /\ f[i] < f[n]
    BY <1>1, <2>3, <2>7
  <2> QED BY <1>4, <2>1, <2>7, <2>8
<1>9. AnswersTold(U, R)
  <2> SUFFICES ASSUME NEW j \in DOMAIN U, LiveAnswer(U, j)
               PROVE  /\ U[j].piece.kind = "result" /\ U[j].piece.val = "answered"
                      /\ \A k \in DOMAIN R : SameKey(U[j].piece, R[k]) => R[k].val = U[j].piece.val
                      /\ \E i \in DOMAIN U :
                           /\ i < j /\ LiveRow(U, i) /\ SameKey(U[i].piece, U[j].piece)
                           /\ \A n \in DOMAIN U : i < n /\ n < j /\ LiveRow(U, n) =>
                                U[n].piece.kind # "result"
    BY DEF AnswersTold
  <2>1. U[j].live
    BY DEF LiveAnswer
  <2>2. f[j] \in DOMAIN V /\ V[f[j]] = U[j] /\ LiveAnswer(V, f[j])
    BY <1>1, <2>1
  <2>3. /\ U[j].piece.kind = "result" /\ U[j].piece.val = "answered"
        /\ \A k \in DOMAIN R : SameKey(U[j].piece, R[k]) => R[k].val = U[j].piece.val
    BY <2>2 DEF Told, AnswersTold
  <2>4. PICK m \in DOMAIN V :
          /\ m < f[j] /\ LiveRow(V, m) /\ SameKey(V[m].piece, U[j].piece)
          /\ \A n \in DOMAIN V : m < n /\ n < f[j] /\ LiveRow(V, n) => V[n].piece.kind # "result"
    BY <2>2 DEF Told, AnswersTold
  <2>5. PICK i \in DOMAIN U : LiveRow(U, i) /\ f[i] = m /\ U[i] = V[m]
    BY <1>3, <2>4
  <2>6. U[i].live
    BY <2>5 DEF LiveRow
  <2>7. i < j
    BY <1>4, <2>1, <2>4, <2>5, <2>6
  <2>8. ASSUME NEW n \in DOMAIN U, i < n, n < j, LiveRow(U, n)
        PROVE  U[n].piece.kind # "result"
    <3>1. U[n].live
      BY <2>8 DEF LiveRow
    <3>2. m < f[n] /\ f[n] < f[j] /\ f[n] \in DOMAIN V /\ V[f[n]] = U[n] /\ LiveRow(V, f[n])
      BY <1>1, <1>4, <2>1, <2>5, <2>6, <2>8, <3>1
    <3> QED BY <2>4, <3>2
  <2> QED BY <2>3, <2>4, <2>5, <2>7, <2>8
<1>10. InTurn(U, w, g)
  <2> SUFFICES ASSUME Batching(w), w.callGen > g, NEW i \in DOMAIN U, LiveRow(U, i),
                      U[i].piece.kind = "call", U[i].piece.step = w.step
               PROVE  U[i].piece.pos <= w.c
    BY DEF InTurn
  <2>1. f[i] \in DOMAIN V /\ V[f[i]] = U[i] /\ LiveRow(V, f[i])
    BY <1>1 DEF LiveRow
  <2> QED BY <2>1 DEF Told, InTurn
<1> QED BY <1>5, <1>6, <1>7, <1>8, <1>9, <1>10 DEF Told

\* U has the events of V and one more, at place n behind them
Grown(U, V, n, e) ==
  /\ DOMAIN U = (DOMAIN V) \cup {n} /\ U[n] = e
  /\ \A i \in DOMAIN V : U[i] = V[i] /\ i < n /\ ~(n < i) /\ i # n
  /\ ~(n < n)

Unique(R) == \A k, l \in DOMAIN R : SameKey(R[k], R[l]) => k = l

\* the worker goes on without an event of its own
LEMMA ToldOn ==
  ASSUME NEW V, NEW R, NEW s, NEW w, NEW w2, NEW g, NEW gone, NEW gone2,
         Told(V, R, s, w, g, gone), gone \subseteq gone2, InTurn(V, w2, g),
         \A k \in DOMAIN R : Later(R[k], w, g) => Later(R[k], w2, g) \/ <<s, R[k].step>> \in gone2
  PROVE  Told(V, R, s, w2, g, gone2)
<1>1. AllTold(V, R, s, w2, g, gone2)
  BY DEF AllTold, Told
<1> QED BY <1>1 DEF Told

\* an event that is about no row to come leaves everything told
LEMMA ToldQuiet ==
  ASSUME NEW V, NEW U, NEW R, NEW s, NEW w, NEW g, NEW gone, NEW n, NEW e,
         Told(V, R, s, w, g, gone), Grown(U, V, n, e), ~e.live
  PROVE  Told(U, R, s, w, g, gone)
<1> DEFINE f == [i \in DOMAIN U |-> i]
<1>1. \A i \in DOMAIN U : U[i].live => i \in DOMAIN V /\ V[i] = U[i] /\ f[i] = i
  BY DEF Grown
<1>2. \A j \in DOMAIN V : j \in DOMAIN U /\ U[j] = V[j] /\ f[j] = j
  BY DEF Grown
<1> HIDE DEF f
<1>3. Thins(U, V, f)
  BY <1>1, <1>2 DEF Thins
<1> QED BY <1>3, ToldThinned

\* The event at n tells the row l, which is behind the rows of its sort told
\* before; the other rows that are new are no rows of the view, or wait.
Tells(V, R, Z, l, w, w2, g) ==
  /\ \A k \in DOMAIN R : k \in DOMAIN Z /\ Z[k] = R[k]
  /\ l \in DOMAIN Z /\ IsRow(Z[l]) /\ ~(l < l)
  /\ \A k \in DOMAIN Z : IsRow(Z[k]) =>
       \/ k = l
       \/ k \in DOMAIN R /\ (Later(Z[k], w, g) => Later(Z[k], w2, g))
       \/ Z[k].kind = "call" /\ Later(Z[k], w2, g)
  /\ \A i \in DOMAIN V, k \in DOMAIN R :
       /\ LiveRow(V, i) /\ SameKey(V[i].piece, R[k])
       /\ R[k].kind = "call" <=> Z[l].kind = "call"
       => k < l /\ ~(l < k)
  /\ \A j \in DOMAIN V, k \in DOMAIN R :
       LiveAnswer(V, j) /\ SameKey(V[j].piece, R[k]) => k # l

LEMMA ToldMore ==
  ASSUME NEW V, NEW U, NEW R, NEW Z, NEW s, NEW w, NEW w2, NEW g, NEW gone, NEW n, NEW e, NEW l,
         Told(V, R, s, w, g, gone), Unique(Z), Tells(V, R, Z, l, w, w2, g),
         Grown(U, V, n, e), e.what = "row", e.piece = Z[l], e.live, InTurn(U, w2, g)
  PROVE  Told(U, Z, s, w2, g, gone)
<1>0. LiveRow(U, n) /\ ~LiveAnswer(U, n) /\ U[n].piece = Z[l] /\ U[n].live /\ n \in DOMAIN U
  BY DEF Grown, LiveRow, LiveAnswer
<1>1. \A i \in DOMAIN V : /\ i \in DOMAIN U /\ U[i] = V[i] /\ i < n /\ ~(n < i)
                          /\ LiveRow(U, i) <=> LiveRow(V, i)
                          /\ LiveAnswer(U, i) <=> LiveAnswer(V, i)
  BY DEF Grown, LiveRow, LiveAnswer
<1>2. \A i \in DOMAIN U : i \in DOMAIN V \/ i = n
  BY DEF Grown
<1>3. ASSUME NEW i \in DOMAIN V, V[i].live, NEW k \in DOMAIN Z, SameKey(V[i].piece, Z[k])
      PROVE  k \in DOMAIN R /\ Z[k] = R[k] /\ SameKey(V[i].piece, R[k])
  <2>1. PICK m \in DOMAIN R : SameKey(V[i].piece, R[m])
    BY <1>3 DEF Told, Backed
  <2>2. m \in DOMAIN Z /\ Z[m] = R[m] /\ SameKey(Z[m], Z[k])
    BY <1>3, <2>1 DEF Tells, SameKey
  <2> QED BY <2>1, <2>2 DEF Unique
<1>4. \A k \in DOMAIN Z : SameKey(Z[l], Z[k]) => k = l
  BY DEF Unique, Tells
<1>5. Backed(U, Z)
  <2> SUFFICES ASSUME NEW i \in DOMAIN U, U[i].live
               PROVE  /\ U[i].what \in {"row", "replace"} /\ IsRow(U[i].piece)
                      /\ \E k \in DOMAIN Z : SameKey(U[i].piece, Z[k]) /\ U[i].piece.sess = Z[k].sess
    BY DEF Backed
  <2>1. CASE i = n
    BY <2>1, <1>0 DEF Tells, SameKey, Grown
  <2>2. CASE i \in DOMAIN V
    <3>1. V[i].live /\ U[i] = V[i]
      BY <2>2, <1>1
    <3>2. PICK k \in DOMAIN R : SameKey(V[i].piece, R[k]) /\ V[i].piece.sess = R[k].sess
      BY <2>2, <3>1 DEF Told, Backed
    <3> QED BY <2>2, <3>1, <3>2 DEF Told, Backed, Tells
  <2> QED BY <1>2, <2>1, <2>2
<1>6. AllTold(U, Z, s, w2, g, gone)
  <2> SUFFICES ASSUME NEW k \in DOMAIN Z, IsRow(Z[k])
               PROVE  \/ Z[k].kind = "call" /\ (Later(Z[k], w2, g) \/ <<s, Z[k].step>> \in gone)
                      \/ \E i \in DOMAIN U : LiveRow(U, i) /\ SameKey(U[i].piece, Z[k])
    BY DEF AllTold
  <2>1. CASE k = l
    BY <2>1, <1>0 DEF SameKey
  <2>2. CASE k \in DOMAIN R /\ (Later(Z[k], w, g) => Later(Z[k], w2, g))
    <3>1. Z[k] = R[k]
      BY <2>2 DEF Tells
    <3>2. \/ Z[k].kind = "call" /\ (Later(Z[k], w, g) \/ <<s, Z[k].step>> \in gone)
          \/ \E i \in DOMAIN V : LiveRow(V, i) /\ SameKey(V[i].piece, Z[k])
      BY <2>2, <3>1 DEF Told, AllTold
    <3> QED BY <2>2, <3>2, <1>1
  <2> QED BY <2>1, <2>2 DEF Tells
<1>7. InOrder(U, Z)
  <2> SUFFICES ASSUME NEW i \in DOMAIN U, NEW j \in DOMAIN U, NEW k \in DOMAIN Z, NEW m \in DOMAIN Z,
                      LiveRow(U, i), LiveRow(U, j), SameKey(U[i].piece, Z[k]),
                      SameKey(U[j].piece, Z[m]), Z[k].kind = "call" <=> Z[m].kind = "call"
               PROVE  i < j <=> k < m
    BY DEF InOrder
  <2>1. ASSUME NEW h \in DOMAIN V, NEW x \in DOMAIN Z, LiveRow(V, h), SameKey(V[h].piece, Z[x])
        PROVE  x \in DOMAIN R /\ Z[x] = R[x] /\ SameKey(V[h].piece, R[x])
    BY <2>1, <1>3 DEF LiveRow
  <2>2. CASE i \in DOMAIN V /\ j \in DOMAIN V
    <3>1. LiveRow(V, i) /\ LiveRow(V, j) /\ U[i] = V[i] /\ U[j] = V[j]
      BY <2>2, <1>1
    <3>2. k \in DOMAIN R /\ Z[k] = R[k] /\ m \in DOMAIN R /\ Z[m] = R[m]
      BY <2>1, <2>2, <3>1
    <3> QED BY <2>2, <3>1, <3>2 DEF Told, InOrder
  <2>3. CASE i \in DOMAIN V /\ j = n
    <3>1. LiveRow(V, i) /\ U[i] = V[i] /\ i < n
      BY <2>3, <1>1
    <3>2. k \in DOMAIN R /\ Z[k] = R[k] /\ m = l
      BY <2>1, <2>3, <3>1, <1>0, <1>4
    <3>3. k < l
      BY <2>3, <3>1, <3>2 DEF Tells
    <3> QED BY <2>3, <3>1, <3>2, <3>3
  <2>4. CASE i = n /\ j \in DOMAIN V
    <3>1. LiveRow(V, j) /\ U[j] = V[j] /\ ~(n < j)
      BY <2>4, <1>1
    <3>2. m \in DOMAIN R /\ Z[m] = R[m] /\ k = l
      BY <2>1, <2>4, <3>1, <1>0, <1>4
    <3>3. ~(l < m)
      BY <2>4, <3>1, <3>2 DEF Tells
    <3> QED BY <2>4, <3>1, <3>2, <3>3
  <2>5. CASE i = n /\ j = n
    <3>1. k = l /\ m = l
      BY <2>5, <1>0, <1>4
    <3> QED BY <2>5, <3>1 DEF Tells, Grown
  <2> QED BY <1>2, <2>2, <2>3, <2>4, <2>5
<1>8. ValuesTold(U, Z)
  <2> SUFFICES ASSUME NEW i \in DOMAIN U, NEW k \in DOMAIN Z, LiveRow(U, i),
                      SameKey(U[i].piece, Z[k]), U[i].piece.val # Z[k].val
               PROVE  \E j \in DOMAIN U : j > i /\ LiveAnswer(U, j) /\ SameKey(U[j].piece, Z[k])
    BY DEF ValuesTold
  <2>1. i # n
    BY <1>0, <1>4
  <2>2. i \in DOMAIN V /\ U[i] = V[i] /\ LiveRow(V, i)
    BY <2>1, <1>1, <1>2
  <2>3. k \in DOMAIN R /\ Z[k] = R[k]
    BY <2>2, <1>3 DEF LiveRow
  <2>4. PICK j \in DOMAIN V : j > i /\ LiveAnswer(V, j) /\ SameKey(V[j].piece, R[k])
    BY <2>2, <2>3 DEF Told, ValuesTold
  <2> QED BY <1>1, <2>3, <2>4
<1>9. AnswersTold(U, Z)
  <2> SUFFICES ASSUME NEW j \in DOMAIN U, LiveAnswer(U, j)
               PROVE  /\ U[j].piece.kind = "result" /\ U[j].piece.val = "answered"
                      /\ \A k \in DOMAIN Z : SameKey(U[j].piece, Z[k]) => Z[k].val = U[j].piece.val
                      /\ \E i \in DOMAIN U :
                           /\ i < j /\ LiveRow(U, i) /\ SameKey(U[i].piece, U[j].piece)
                           /\ \A h \in DOMAIN U : i < h /\ h < j /\ LiveRow(U, h) =>
                                U[h].piece.kind # "result"
    BY DEF AnswersTold
  <2>1. j \in DOMAIN V /\ U[j] = V[j] /\ LiveAnswer(V, j)
    BY <1>0, <1>1, <1>2
  <2>2. /\ V[j].piece.kind = "result" /\ V[j].piece.val = "answered"
        /\ \A k \in DOMAIN R : SameKey(V[j].piece, R[k]) => R[k].val = V[j].piece.val
    BY <2>1 DEF Told, AnswersTold
  <2>3. \A k \in DOMAIN Z : SameKey(U[j].piece, Z[k]) => Z[k].val = U[j].piece.val
    <3> SUFFICES ASSUME NEW k \in DOMAIN Z, SameKey(V[j].piece, Z[k])
                 PROVE  Z[k].val = V[j].piece.val
      BY <2>1
    <3>1. V[j].live
      BY <2>1 DEF LiveAnswer
    <3>2. k \in DOMAIN R /\ Z[k] = R[k] /\ SameKey(V[j].piece, R[k])
      BY <2>1, <3>1, <1>3
    <3> QED BY <2>2, <3>2
  <2>4. PICK i \in DOMAIN V :
          /\ i < j /\ LiveRow(V, i) /\ SameKey(V[i].piece, V[j].piece)
          /\ \A h \in DOMAIN V : i < h /\ h < j /\ LiveRow(V, h) => V[h].piece.kind # "result"
    BY <2>1 DEF Told, AnswersTold
  <2>5. \A h \in DOMAIN U : i < h /\ h < j /\ LiveRow(U, h) => U[h].piece.kind # "result"
    BY <1>1, <1>2, <2>1, <2>4
  <2> QED BY <1>1, <2>1, <2>2, <2>3, <2>4, <2>5
<1> QED BY <1>5, <1>6, <1>7, <1>8, <1>9 DEF Told

\* text that is stored needs no announcement
LEMMA ToldText ==
  ASSUME NEW V, NEW R, NEW Z, NEW s, NEW w, NEW g, NEW gone,
         Told(V, R, s, w, g, gone),
         \A k \in DOMAIN R : k \in DOMAIN Z /\ Z[k] = R[k],
         \A k \in DOMAIN Z : k \in DOMAIN R \/ ~IsRow(Z[k])
  PROVE  Told(V, Z, s, w, g, gone)
<1>1. ASSUME NEW i \in DOMAIN V, V[i].live, NEW k \in DOMAIN Z, SameKey(V[i].piece, Z[k])
      PROVE  k \in DOMAIN R /\ Z[k] = R[k]
  <2>1. IsRow(Z[k])
    BY <1>1 DEF Told, Backed, SameKey, IsRow
  <2> QED BY <2>1
<1>2. ASSUME NEW i \in DOMAIN V, LiveRow(V, i), NEW k \in DOMAIN Z, SameKey(V[i].piece, Z[k])
      PROVE  k \in DOMAIN R /\ Z[k] = R[k]
  BY <1>1, <1>2 DEF LiveRow
<1>3. ASSUME NEW i \in DOMAIN V, LiveAnswer(V, i), NEW k \in DOMAIN Z, SameKey(V[i].piece, Z[k])
      PROVE  k \in DOMAIN R /\ Z[k] = R[k]
  BY <1>1, <1>3 DEF LiveAnswer
<1>4. Backed(V, Z)
  <2> SUFFICES ASSUME NEW i \in DOMAIN V, V[i].live
               PROVE  /\ V[i].what \in {"row", "replace"} /\ IsRow(V[i].piece)
                      /\ \E k \in DOMAIN Z : SameKey(V[i].piece, Z[k]) /\ V[i].piece.sess = Z[k].sess
    BY DEF Backed
  <2>1. PICK k \in DOMAIN R : SameKey(V[i].piece, R[k]) /\ V[i].piece.sess = R[k].sess
    BY DEF Told, Backed
  <2> QED BY <2>1 DEF Told, Backed
<1>5. AllTold(V, Z, s, w, g, gone)
  BY DEF Told, AllTold
<1>6. InOrder(V, Z)
  <2> SUFFICES ASSUME NEW i \in DOMAIN V, NEW j \in DOMAIN V, NEW k \in DOMAIN Z, NEW m \in DOMAIN Z,
                      LiveRow(V, i), LiveRow(V, j), SameKey(V[i].piece, Z[k]),
                      SameKey(V[j].piece, Z[m]), Z[k].kind = "call" <=> Z[m].kind = "call"
               PROVE  i < j <=> k < m
    BY DEF InOrder
  <2>1. k \in DOMAIN R /\ Z[k] = R[k] /\ m \in DOMAIN R /\ Z[m] = R[m]
    BY <1>2
  <2> QED BY <2>1 DEF Told, InOrder
<1>7. ValuesTold(V, Z)
  <2> SUFFICES ASSUME NEW i \in DOMAIN V, NEW k \in DOMAIN Z, LiveRow(V, i), SameKey(V[i].piece, Z[k])
               PROVE  \/ V[i].piece.val = Z[k].val
                      \/ \E j \in DOMAIN V : j > i /\ LiveAnswer(V, j) /\ SameKey(V[j].piece, Z[k])
    BY DEF ValuesTold
  <2>1. k \in DOMAIN R /\ Z[k] = R[k]
    BY <1>2
  <2> QED BY <2>1 DEF Told, ValuesTold
<1>8. AnswersTold(V, Z)
  <2> SUFFICES ASSUME NEW j \in DOMAIN V, LiveAnswer(V, j)
               PROVE  /\ V[j].piece.kind = "result" /\ V[j].piece.val = "answered"
                      /\ \A k \in DOMAIN Z : SameKey(V[j].piece, Z[k]) => Z[k].val = V[j].piece.val
                      /\ \E i \in DOMAIN V :
                           /\ i < j /\ LiveRow(V, i) /\ SameKey(V[i].piece, V[j].piece)
                           /\ \A n \in DOMAIN V : i < n /\ n < j /\ LiveRow(V, n) =>
                                V[n].piece.kind # "result"
    BY DEF AnswersTold
  <2>1. \A k \in DOMAIN R : SameKey(V[j].piece, R[k]) => R[k].val = V[j].piece.val
    BY DEF Told, AnswersTold
  <2>2. \A k \in DOMAIN Z : SameKey(V[j].piece, Z[k]) => Z[k].val = V[j].piece.val
    BY <2>1, <1>3
  <2> QED BY <2>2 DEF Told, AnswersTold
<1> QED BY <1>4, <1>5, <1>6, <1>7, <1>8 DEF Told

\* q and z differ in the value of row m
Reworded(q, z, m, val) ==
  /\ m \in DOMAIN q /\ DOMAIN z = DOMAIN q
  /\ \A k \in DOMAIN q : IF k = m THEN SameKey(z[k], q[k]) /\ z[k].sess = q[k].sess /\ z[k].val = val
                         ELSE z[k] = q[k]

\* the reply takes the place of the last row, and its announcement is behind
LEMMA ToldAnswer ==
  ASSUME NEW V, NEW U, NEW R, NEW Z, NEW s, NEW w, NEW g, NEW gone, NEW n, NEW e, NEW m,
         Told(V, R, s, w, g, gone), Unique(R), Reworded(R, Z, m, "answered"),
         R[m].kind = "result", \A k \in DOMAIN R : ~(m < k),
         Grown(U, V, n, e), e = Event("replace", Z[m], TRUE)
  PROVE  Told(U, Z, s, w, g, gone)
<1> USE DEF Event
<1>0. LiveAnswer(U, n) /\ ~LiveRow(U, n) /\ U[n].piece = Z[m] /\ U[n].live /\ n \in DOMAIN U
  BY DEF Grown, LiveRow, LiveAnswer
<1>1. \A i \in DOMAIN V : /\ i \in DOMAIN U /\ U[i] = V[i] /\ i < n /\ ~(n < i)
                          /\ LiveRow(U, i) <=> LiveRow(V, i)
                          /\ LiveAnswer(U, i) <=> LiveAnswer(V, i)
  BY DEF Grown, LiveRow, LiveAnswer
<1>2. \A i \in DOMAIN U : i \in DOMAIN V \/ i = n
  BY DEF Grown
<1>3. \A p, k : SameKey(p, Z[k]) /\ k \in DOMAIN Z => k \in DOMAIN R /\ SameKey(p, R[k])
  BY DEF Reworded, SameKey
<1>4. \A p, k : SameKey(p, R[k]) /\ k \in DOMAIN R => k \in DOMAIN Z /\ SameKey(p, Z[k])
  BY DEF Reworded, SameKey
<1>5. \A k \in DOMAIN R : Z[k].kind = R[k].kind /\ Z[k].step = R[k].step /\ Z[k].sess = R[k].sess
  BY DEF Reworded, SameKey
<1>6. m \in DOMAIN R /\ m \in DOMAIN Z /\ Z[m].kind = "result" /\ Z[m].val = "answered"
  BY <1>5 DEF Reworded
<1>7. Backed(U, Z)
  <2> SUFFICES ASSUME NEW i \in DOMAIN U, U[i].live
               PROVE  /\ U[i].what \in {"row", "replace"} /\ IsRow(U[i].piece)
                      /\ \E k \in DOMAIN Z : SameKey(U[i].piece, Z[k]) /\ U[i].piece.sess = Z[k].sess
    BY DEF Backed
  <2>1. CASE i = n
    BY <2>1, <1>0, <1>6 DEF SameKey, Grown, IsRow
  <2>2. CASE i \in DOMAIN V
    <3>1. V[i].live /\ U[i] = V[i]
      BY <2>2, <1>1
    <3>2. PICK k \in DOMAIN R : SameKey(V[i].piece, R[k]) /\ V[i].piece.sess = R[k].sess
      BY <2>2, <3>1 DEF Told, Backed
    <3>3. k \in DOMAIN Z /\ SameKey(V[i].piece, Z[k]) /\ V[i].piece.sess = Z[k].sess
      BY <3>2, <1>4, <1>5
    <3> QED BY <2>2, <3>1, <3>3 DEF Told, Backed
  <2> QED BY <1>2, <2>1, <2>2
<1>8. AllTold(U, Z, s, w, g, gone)
  <2> SUFFICES ASSUME NEW k \in DOMAIN Z, IsRow(Z[k])
               PROVE  \/ Z[k].kind = "call" /\ (Later(Z[k], w, g) \/ <<s, Z[k].step>> \in gone)
                      \/ \E i \in DOMAIN U : LiveRow(U, i) /\ SameKey(U[i].piece, Z[k])
    BY DEF AllTold
  <2>1. k \in DOMAIN R /\ Z[k].kind = R[k].kind /\ IsRow(R[k])
    BY <1>5 DEF Reworded, IsRow
  <2>2. CASE k = m
    <3>1. PICK i \in DOMAIN V : LiveRow(V, i) /\ SameKey(V[i].piece, R[k])
      BY <2>1, <2>2 DEF Told, AllTold
    <3> QED BY <3>1, <2>1, <1>1, <1>4
  <2>3. CASE k # m
    <3>1. Z[k] = R[k]
      BY <2>1, <2>3 DEF Reworded
    <3> QED BY <2>1, <3>1, <1>1 DEF Told, AllTold
  <2> QED BY <2>2, <2>3
<1>9. ASSUME NEW i \in DOMAIN U, LiveRow(U, i)
      PROVE  i \in DOMAIN V /\ U[i] = V[i] /\ LiveRow(V, i)
  BY <1>9, <1>0, <1>1, <1>2
<1>10. InOrder(U, Z)
  <2> SUFFICES ASSUME NEW i \in DOMAIN U, NEW j \in DOMAIN U, NEW k \in DOMAIN Z, NEW h \in DOMAIN Z,
                      LiveRow(U, i), LiveRow(U, j), SameKey(U[i].piece, Z[k]),
                      SameKey(U[j].piece, Z[h]), Z[k].kind = "call" <=> Z[h].kind = "call"
               PROVE  i < j <=> k < h
    BY DEF InOrder
  <2>1. /\ i \in DOMAIN V /\ j \in DOMAIN V /\ LiveRow(V, i) /\ LiveRow(V, j)
        /\ SameKey(V[i].piece, R[k]) /\ SameKey(V[j].piece, R[h]) /\ k \in DOMAIN R /\ h \in DOMAIN R
    BY <1>3, <1>9
  <2>2. R[k].kind = "call" <=> R[h].kind = "call"
    BY <1>5, <2>1
  <2> QED BY <2>1, <2>2 DEF Told, InOrder
<1>11. ValuesTold(U, Z)
  <2> SUFFICES ASSUME NEW i \in DOMAIN U, NEW k \in DOMAIN Z, LiveRow(U, i),
                      SameKey(U[i].piece, Z[k]), U[i].piece.val # Z[k].val
               PROVE  \E j \in DOMAIN U : j > i /\ LiveAnswer(U, j) /\ SameKey(U[j].piece, Z[k])
    BY DEF ValuesTold
  <2>1. i \in DOMAIN V /\ U[i] = V[i] /\ LiveRow(V, i) /\ SameKey(V[i].piece, R[k]) /\ k \in DOMAIN R
    BY <1>3, <1>9
  <2>2. CASE k = m
    <3>1. SameKey(U[n].piece, Z[k])
      BY <2>2, <1>0 DEF SameKey
    <3> QED BY <2>1, <3>1, <1>0, <1>1
  <2>3. CASE k # m
    <3>1. Z[k] = R[k]
      BY <2>1, <2>3 DEF Reworded
    <3>2. PICK j \in DOMAIN V : j > i /\ LiveAnswer(V, j) /\ SameKey(V[j].piece, R[k])
      BY <2>1, <3>1 DEF Told, ValuesTold
    <3> QED BY <1>1, <3>1, <3>2
  <2> QED BY <2>2, <2>3
<1>12. AnswersTold(U, Z)
  <2> SUFFICES ASSUME NEW j \in DOMAIN U, LiveAnswer(U, j)
               PROVE  /\ U[j].piece.kind = "result" /\ U[j].piece.val = "answered"
                      /\ \A k \in DOMAIN Z : SameKey(U[j].piece, Z[k]) => Z[k].val = U[j].piece.val
                      /\ \E i \in DOMAIN U :
                           /\ i < j /\ LiveRow(U, i) /\ SameKey(U[i].piece, U[j].piece)
                           /\ \A h \in DOMAIN U : i < h /\ h < j /\ LiveRow(U, h) =>
                                U[h].piece.kind # "result"
    BY DEF AnswersTold
  <2>1. CASE j \in DOMAIN V
    <3>1. U[j] = V[j] /\ LiveAnswer(V, j)
      BY <2>1, <1>1
    <3>2. /\ V[j].piece.kind = "result" /\ V[j].piece.val = "answered"
          /\ \A k \in DOMAIN R : SameKey(V[j].piece, R[k]) => R[k].val = V[j].piece.val
      BY <2>1, <3>1 DEF Told, AnswersTold
    <3>3. ASSUME NEW k \in DOMAIN Z, SameKey(U[j].piece, Z[k])
          PROVE  Z[k].val = U[j].piece.val
      <4>1. k \in DOMAIN R /\ SameKey(V[j].piece, R[k])
        BY <3>1, <3>3, <1>3
      <4> QED BY <3>1, <3>2, <4>1, <1>6 DEF Reworded
    <3>4. PICK i \in DOMAIN V :
            /\ i < j /\ LiveRow(V, i) /\ SameKey(V[i].piece, V[j].piece)
            /\ \A h \in DOMAIN V : i < h /\ h < j /\ LiveRow(V, h) => V[h].piece.kind # "result"
      BY <2>1, <3>1 DEF Told, AnswersTold
    <3>5. \A h \in DOMAIN U : i < h /\ h < j /\ LiveRow(U, h) => U[h].piece.kind # "result"
      BY <1>9, <3>4
    <3> QED BY <1>1, <3>1, <3>2, <3>3, <3>4, <3>5
  <2>2. CASE j = n
    <3>1. \A k \in DOMAIN Z : SameKey(Z[m], Z[k]) => k = m
      <4> SUFFICES ASSUME NEW k \in DOMAIN Z, SameKey(Z[m], Z[k])  PROVE k = m
        OBVIOUS
      <4>1. SameKey(Z[m], R[k]) /\ SameKey(Z[m], R[m]) /\ k \in DOMAIN R
        BY <1>3, <1>6 DEF SameKey
      <4>2. SameKey(R[m], R[k])
        BY <4>1 DEF SameKey
      <4> QED BY <4>1, <4>2, <1>6 DEF Unique
    <3>2. PICK i \in DOMAIN V : LiveRow(V, i) /\ SameKey(V[i].piece, R[m])
      BY <1>6 DEF Told, AllTold, IsRow
    <3>3. SameKey(V[i].piece, Z[m])
      BY <3>2, <1>4, <1>6
    <3>4. ASSUME NEW h \in DOMAIN U, i < h, LiveRow(U, h), U[h].piece.kind = "result"
          PROVE  FALSE
      <4>1. h \in DOMAIN V /\ U[h] = V[h] /\ LiveRow(V, h)
        BY <3>4, <1>9
      <4>2. V[h].live
        BY <4>1 DEF LiveRow
      <4>3. PICK k \in DOMAIN R : SameKey(V[h].piece, R[k])
        BY <4>1, <4>2 DEF Told, Backed
      <4>4. R[k].kind = "result"
        BY <3>4, <4>1, <4>3 DEF SameKey
      <4>5. m < k
        BY <3>2, <3>4, <4>1, <4>3, <4>4, <1>6 DEF Told, InOrder
      <4> QED BY <4>5
    <3> QED BY <2>2, <1>0, <1>1, <1>6, <3>1, <3>2, <3>3, <3>4
  <2> QED BY <1>2, <2>1, <2>2
<1>13. InTurn(U, w, g)
  <2> SUFFICES ASSUME Batching(w), w.callGen > g, NEW i \in DOMAIN U, LiveRow(U, i),
                      U[i].piece.kind = "call", U[i].piece.step = w.step
               PROVE  U[i].piece.pos <= w.c
    BY DEF InTurn
  <2> QED BY <1>9 DEF Told, InTurn
<1> QED BY <1>7, <1>8, <1>10, <1>11, <1>12, <1>13 DEF Told

\* V and U differ in the value of the piece told at i
RewordedAt(V, U, i, val) ==
  /\ i \in DOMAIN V /\ DOMAIN U = DOMAIN V
  /\ \A j \in DOMAIN V : /\ j # i => U[j] = V[j]
                         /\ U[j].live = V[j].live /\ U[j].what = V[j].what
                         /\ SameKey(U[j].piece, V[j].piece) /\ U[j].piece.sess = V[j].piece.sess
  /\ U[i].piece.val = val

\* the answer at j rewrites the result it is about
LEMMA ToldReplaced ==
  ASSUME NEW V, NEW U, NEW R, NEW s, NEW w, NEW g, NEW gone, NEW i, NEW j,
         Told(V, R, s, w, g, gone), RewordedAt(V, U, i, "answered"),
         j \in DOMAIN V, LiveAnswer(V, j), LiveRow(V, i), SameKey(V[i].piece, V[j].piece)
  PROVE  Told(U, R, s, w, g, gone)
<1>1. \A h \in DOMAIN V : /\ h \in DOMAIN U
                          /\ LiveRow(U, h) <=> LiveRow(V, h)
                          /\ LiveAnswer(U, h) <=> LiveAnswer(V, h)
                          /\ U[h].piece.kind = V[h].piece.kind /\ U[h].piece.step = V[h].piece.step
                          /\ U[h].piece.pos = V[h].piece.pos
                          /\ \A p : /\ SameKey(U[h].piece, p) <=> SameKey(V[h].piece, p)
                                    /\ SameKey(p, U[h].piece) <=> SameKey(p, V[h].piece)
  BY DEF RewordedAt, LiveRow, LiveAnswer, SameKey
<1>2. \A h \in DOMAIN U : h \in DOMAIN V
  BY DEF RewordedAt
<1>3. ~LiveAnswer(V, i)
  BY DEF LiveRow, LiveAnswer
<1>4. Backed(U, R)
  <2> SUFFICES ASSUME NEW h \in DOMAIN U, U[h].live
               PROVE  /\ U[h].what \in {"row", "replace"} /\ IsRow(U[h].piece)
                      /\ \E k \in DOMAIN R : SameKey(U[h].piece, R[k]) /\ U[h].piece.sess = R[k].sess
    BY DEF Backed
  <2>1. h \in DOMAIN V /\ V[h].live /\ U[h].what = V[h].what /\ U[h].piece.sess = V[h].piece.sess
    BY DEF RewordedAt
  <2>2. V[h].what \in {"row", "replace"} /\ IsRow(V[h].piece)
    BY <2>1 DEF Told, Backed
  <2>3. PICK k \in DOMAIN R : SameKey(V[h].piece, R[k]) /\ V[h].piece.sess = R[k].sess
    BY <2>1 DEF Told, Backed
  <2> QED BY <1>1, <2>1, <2>2, <2>3 DEF IsRow
<1>5. AllTold(U, R, s, w, g, gone)
  BY <1>1 DEF Told, AllTold
<1>6. InOrder(U, R)
  BY <1>1, <1>2 DEF Told, InOrder
<1>7. ValuesTold(U, R)
  <2> SUFFICES ASSUME NEW h \in DOMAIN U, NEW k \in DOMAIN R, LiveRow(U, h),
                      SameKey(U[h].piece, R[k]), U[h].piece.val # R[k].val
               PROVE  \E m \in DOMAIN U : m > h /\ LiveAnswer(U, m) /\ SameKey(U[m].piece, R[k])
    BY DEF ValuesTold
  <2>1. h \in DOMAIN V /\ LiveRow(V, h) /\ SameKey(V[h].piece, R[k])
    BY <1>1, <1>2
  <2>2. CASE h = i
    <3>1. SameKey(V[j].piece, R[k])
      BY <2>1, <2>2 DEF SameKey
    <3>2. R[k].val = "answered"
      BY <3>1 DEF Told, AnswersTold
    <3> QED BY <2>2, <3>2 DEF RewordedAt
  <2>3. CASE h # i
    <3>1. U[h] = V[h]
      BY <2>1, <2>3 DEF RewordedAt
    <3>2. PICK m \in DOMAIN V : m > h /\ LiveAnswer(V, m) /\ SameKey(V[m].piece, R[k])
      BY <2>1, <3>1 DEF Told, ValuesTold
    <3> QED BY <1>1, <3>2
  <2> QED BY <2>2, <2>3
<1>8. AnswersTold(U, R)
  <2> SUFFICES ASSUME NEW m \in DOMAIN U, LiveAnswer(U, m)
               PROVE  /\ U[m].piece.kind = "result" /\ U[m].piece.val = "answered"
                      /\ \A k \in DOMAIN R : SameKey(U[m].piece, R[k]) => R[k].val = U[m].piece.val
                      /\ \E h \in DOMAIN U :
                           /\ h < m /\ LiveRow(U, h) /\ SameKey(U[h].piece, U[m].piece)
                           /\ \A n \in DOMAIN U : h < n /\ n < m /\ LiveRow(U, n) =>
                                U[n].piece.kind # "result"
    BY DEF AnswersTold
  <2>1. m \in DOMAIN V /\ LiveAnswer(V, m) /\ m # i
    BY <1>1, <1>2, <1>3
  <2>2. U[m] = V[m]
    BY <2>1 DEF RewordedAt
  <2>3. PICK h \in DOMAIN V :
          /\ h < m /\ LiveRow(V, h) /\ SameKey(V[h].piece, V[m].piece)
          /\ \A n \in DOMAIN V : h < n /\ n < m /\ LiveRow(V, n) => V[n].piece.kind # "result"
    BY <2>1 DEF Told, AnswersTold
  <2>4. \A n \in DOMAIN U : h < n /\ n < m /\ LiveRow(U, n) => U[n].piece.kind # "result"
    BY <1>1, <1>2, <2>3
  <2>5. /\ V[m].piece.kind = "result" /\ V[m].piece.val = "answered"
        /\ \A k \in DOMAIN R : SameKey(V[m].piece, R[k]) => R[k].val = V[m].piece.val
    BY <2>1 DEF Told, AnswersTold
  <2> QED BY <1>1, <2>2, <2>3, <2>4, <2>5
<1>9. InTurn(U, w, g)
  BY <1>1, <1>2 DEF Told, InTurn
<1> QED BY <1>4, <1>5, <1>6, <1>7, <1>8, <1>9 DEF Told

\* the rows of a load tell themselves, and every announcement under way is old
LEMMA ToldLoad ==
  ASSUME NEW V, NEW R, NEW s, NEW w, NEW g, NEW gone, Unique(R),
         ~(w.callGen > g),
         \A k \in DOMAIN R : /\ k \in DOMAIN V /\ V[k].what = "row" /\ V[k].piece = R[k]
                             /\ V[k].live <=> IsRow(R[k]),
         \A i \in DOMAIN V : V[i].live => i \in DOMAIN R
  PROVE  Told(V, R, s, w, g, gone)
<1>1. \A i \in DOMAIN V : V[i].live => /\ i \in DOMAIN R /\ V[i].piece = R[i] /\ V[i].what = "row"
                                       /\ IsRow(R[i])
  OBVIOUS
<1>2. \A i \in DOMAIN V : ~LiveAnswer(V, i)
  BY <1>1 DEF LiveAnswer
<1>3. \A i \in DOMAIN V, k \in DOMAIN R : LiveRow(V, i) /\ SameKey(V[i].piece, R[k]) => i = k
  BY <1>1 DEF LiveRow, Unique
<1>4. \A k \in DOMAIN R : IsRow(R[k]) => k \in DOMAIN V /\ LiveRow(V, k) /\ V[k].piece = R[k]
  BY DEF LiveRow
<1>5. Backed(V, R)
  BY <1>1 DEF Backed, SameKey
<1>6. AllTold(V, R, s, w, g, gone)
  BY <1>4 DEF AllTold, SameKey
<1>7. InOrder(V, R)
  BY <1>3 DEF InOrder
<1>8. ValuesTold(V, R)
  BY <1>1, <1>3 DEF ValuesTold, LiveRow
<1>9. AnswersTold(V, R) /\ InTurn(V, w, g)
  BY <1>2 DEF AnswersTold, InTurn
<1> QED BY <1>5, <1>6, <1>7, <1>8, <1>9 DEF Told

(***************************************************************************)
(* The line of events.                                                     *)
(***************************************************************************)
EventOf(m, s, g) == Event(m.what, m.piece, Fresh(m, s, g))

LEMMA FreshIsBool == \A m, s, g : Fresh(m, s, g) \in BOOLEAN
BY DEF Fresh

LEMMA EventMade ==
  ASSUME NEW what \in {"row", "replace", "step", "delta"}, NEW piece \in Pieces, NEW live \in BOOLEAN
  PROVE  Event(what, piece, live) \in EventRec
BY DEF Event, EventRec

\* where the events of a line are
IsLine(V, q, box, s, g, c) ==
  /\ V \in Seq(EventRec) /\ Len(V) = Len(q) + Len(box) + Len(c)
  /\ DOMAIN V = 1..(Len(q) + Len(box) + Len(c))
  /\ Len(q) \in Nat /\ Len(box) \in Nat /\ Len(c) \in Nat
  /\ \A i \in 1..Len(q) : V[i] = Event("row", q[i], IsRow(q[i])) /\ i \in DOMAIN V
  /\ \A i \in 1..Len(box) : V[Len(q) + i] = EventOf(box[i], s, g) /\ Len(q) + i \in DOMAIN V
  /\ \A i \in 1..Len(c) : /\ V[Len(q) + Len(box) + i] = c[i]
                          /\ Len(q) + Len(box) + i \in DOMAIN V
  /\ \A i \in DOMAIN V : \/ i \in 1..Len(q)
                         \/ i - Len(q) \in 1..Len(box) /\ V[i] = EventOf(box[i - Len(q)], s, g)
                         \/ /\ i - Len(q) - Len(box) \in 1..Len(c)
                            /\ V[i] = c[i - Len(q) - Len(box)]

LEMMA LineFacts ==
  ASSUME NEW q \in Seq(Pieces), NEW box \in Seq(MessageRec), NEW s, NEW g, NEW c \in Seq(EventRec)
  PROVE  IsLine(Line(q, box, s, g, c), q, box, s, g, c)
<1> DEFINE V == Line(q, box, s, g, c)
<1> DEFINE a == OnScreen(q)
           b == Queued(box, s, g)
<1>1. a \in Seq(EventRec) /\ Len(a) = Len(q) /\ \A i \in 1..Len(q) : a[i] = Event("row", q[i], IsRow(q[i]))
  <2>1. \A i \in 1..Len(q) : Event("row", q[i], IsRow(q[i])) \in EventRec
    <3> SUFFICES ASSUME NEW i \in 1..Len(q)  PROVE Event("row", q[i], IsRow(q[i])) \in EventRec
      OBVIOUS
    <3>1. q[i] \in Pieces /\ IsRow(q[i]) \in BOOLEAN
      BY DEF IsRow
    <3> QED BY <3>1, EventMade
  <2>2. DOMAIN q = 1..Len(q) /\ Len(q) \in Nat
    OBVIOUS
  <2>3. a \in [1..Len(q) -> EventRec]
    BY <2>1, <2>2 DEF OnScreen
  <2>4. \A i \in 1..Len(q) : a[i] = Event("row", q[i], IsRow(q[i]))
    BY <2>2 DEF OnScreen
  <2> HIDE DEF a
  <2> QED BY <2>2, <2>3, <2>4, SeqOfLength
<1>2. b \in Seq(EventRec) /\ Len(b) = Len(box) /\ \A i \in 1..Len(box) : b[i] = EventOf(box[i], s, g)
  <2>1. \A i \in 1..Len(box) : EventOf(box[i], s, g) \in EventRec
    <3> SUFFICES ASSUME NEW i \in 1..Len(box)  PROVE EventOf(box[i], s, g) \in EventRec
      OBVIOUS
    <3>1. box[i] \in MessageRec
      OBVIOUS
    <3>2. /\ box[i].piece \in Pieces /\ box[i].what \in {"row", "replace", "step", "delta"}
          /\ Fresh(box[i], s, g) \in BOOLEAN
      BY <3>1, FreshIsBool DEF MessageRec
    <3> QED BY <3>2, EventMade DEF EventOf
  <2>2. DOMAIN box = 1..Len(box) /\ Len(box) \in Nat
    OBVIOUS
  <2>3. b \in [1..Len(box) -> EventRec]
    BY <2>1, <2>2 DEF Queued, EventOf
  <2>4. \A i \in 1..Len(box) : b[i] = EventOf(box[i], s, g)
    BY <2>2 DEF Queued, EventOf
  <2> HIDE DEF b
  <2> QED BY <2>2, <2>3, <2>4, SeqOfLength
<1> HIDE DEF a, b
<1> DEFINE ab == a \o b
<1>3. /\ ab \in Seq(EventRec) /\ Len(ab) = Len(q) + Len(box)
      /\ \A i \in 1..Len(q) : ab[i] = a[i]
      /\ \A i \in (Len(q) + 1)..(Len(q) + Len(box)) : ab[i] = b[i - Len(q)]
  <2>1. /\ a \o b \in Seq(EventRec) /\ Len(a \o b) = Len(a) + Len(b) /\ DOMAIN a = 1..Len(a)
        /\ \A i \in DOMAIN a : (a \o b)[i] = a[i]
        /\ \A i \in (Len(a) + 1)..(Len(a) + Len(b)) : (a \o b)[i] = b[i - Len(a)]
    BY <1>1, <1>2, Extended
  <2>2. ab = a \o b
    OBVIOUS
  <2> HIDE DEF ab
  <2> QED BY <1>1, <1>2, <2>1, <2>2
<1>4. V = ab \o c
  BY DEF Line, a, b
<1> HIDE DEF ab, V
<1>5. /\ V \in Seq(EventRec) /\ Len(V) = Len(q) + Len(box) + Len(c)
      /\ DOMAIN V = 1..(Len(q) + Len(box) + Len(c))
      /\ \A i \in 1..(Len(q) + Len(box)) : V[i] = ab[i]
      /\ \A i \in (Len(q) + Len(box) + 1)..(Len(q) + Len(box) + Len(c)) : V[i] = c[i - (Len(q) + Len(box))]
  <2>1. /\ ab \o c \in Seq(EventRec) /\ Len(ab \o c) = Len(ab) + Len(c) /\ DOMAIN ab = 1..Len(ab)
        /\ DOMAIN (ab \o c) = 1..(Len(ab) + Len(c))
        /\ \A i \in DOMAIN ab : (ab \o c)[i] = ab[i]
        /\ \A i \in (Len(ab) + 1)..(Len(ab) + Len(c)) : (ab \o c)[i] = c[i - Len(ab)]
    <3>1. ab \in Seq(EventRec) /\ c \in Seq(EventRec)
      BY <1>3
    <3> QED BY <3>1, Extended
  <2>2. /\ V \in Seq(EventRec) /\ Len(V) = Len(q) + Len(box) + Len(c)
        /\ DOMAIN V = 1..(Len(q) + Len(box) + Len(c))
    BY <1>3, <1>4, <2>1
  <2>3. \A i \in 1..(Len(q) + Len(box)) : V[i] = ab[i]
    BY <1>3, <1>4, <2>1
  <2> QED BY <1>3, <1>4, <2>1, <2>2, <2>3
<1>6. Len(q) \in Nat /\ Len(box) \in Nat /\ Len(c) \in Nat
  OBVIOUS
<1>7. \A i \in 1..Len(q) : V[i] = Event("row", q[i], IsRow(q[i])) /\ i \in DOMAIN V
  BY <1>1, <1>3, <1>5, <1>6
<1>8. \A i \in 1..Len(box) : V[Len(q) + i] = EventOf(box[i], s, g) /\ Len(q) + i \in DOMAIN V
  <2> SUFFICES ASSUME NEW i \in 1..Len(box)
               PROVE  V[Len(q) + i] = EventOf(box[i], s, g) /\ Len(q) + i \in DOMAIN V
    OBVIOUS
  <2>1. /\ Len(q) + i \in (Len(q) + 1)..(Len(q) + Len(box)) /\ Len(q) + i - Len(q) = i
        /\ Len(q) + i \in 1..(Len(q) + Len(box)) /\ Len(q) + i \in DOMAIN V
    BY <1>5, <1>6
  <2>2. V[Len(q) + i] = b[i]
    BY <1>3, <1>5, <2>1
  <2> QED BY <1>2, <2>1, <2>2
<1>9. \A i \in 1..Len(c) : V[Len(q) + Len(box) + i] = c[i] /\ Len(q) + Len(box) + i \in DOMAIN V
  <2> SUFFICES ASSUME NEW i \in 1..Len(c)
               PROVE  V[Len(q) + Len(box) + i] = c[i] /\ Len(q) + Len(box) + i \in DOMAIN V
    OBVIOUS
  <2>1. ASSUME NEW j, j = Len(q) + Len(box) + i  PROVE V[j] = c[i] /\ j \in DOMAIN V
    <3>1. /\ j \in (Len(q) + Len(box) + 1)..(Len(q) + Len(box) + Len(c)) /\ j \in DOMAIN V
          /\ j - (Len(q) + Len(box)) = i
      BY <1>5, <1>6, <2>1
    <3>2. V[j] = c[j - (Len(q) + Len(box))]
      BY <1>5, <3>1
    <3> QED BY <3>1, <3>2
  <2> QED BY <2>1
<1>10. ASSUME NEW i \in DOMAIN V
       PROVE  \/ i \in 1..Len(q)
              \/ i - Len(q) \in 1..Len(box) /\ V[i] = EventOf(box[i - Len(q)], s, g)
              \/ i - Len(q) - Len(box) \in 1..Len(c) /\ V[i] = c[i - Len(q) - Len(box)]
  <2>1. i \in 1..(Len(q) + Len(box) + Len(c))
    BY <1>5
  <2>2. CASE i <= Len(q)
    BY <2>1, <2>2, <1>6
  <2>3. CASE i > Len(q) /\ i <= Len(q) + Len(box)
    <3>1. i - Len(q) \in 1..Len(box) /\ Len(q) + (i - Len(q)) = i
      BY <2>1, <2>3, <1>6
    <3> QED BY <3>1, <1>8
  <2>4. CASE i > Len(q) + Len(box)
    <3>1. i - Len(q) - Len(box) \in 1..Len(c) /\ Len(q) + Len(box) + (i - Len(q) - Len(box)) = i
      BY <2>1, <2>4, <1>6
    <3> QED BY <3>1, <1>9
  <2>5. i <= Len(q) \/ (i > Len(q) /\ i <= Len(q) + Len(box)) \/ i > Len(q) + Len(box)
    BY <2>1, <1>6
  <2> QED BY <2>2, <2>3, <2>4, <2>5
<1> QED BY <1>5, <1>6, <1>7, <1>8, <1>9, <1>10 DEF IsLine, V

LEMMA LineGrows ==
  ASSUME NEW q \in Seq(Pieces), NEW box \in Seq(MessageRec), NEW s, NEW g, NEW e \in EventRec
  PROVE  Grown(Line(q, box, s, g, <<e>>), Line(q, box, s, g, <<>>), Len(q) + Len(box) + 1, e)
<1> DEFINE U == Line(q, box, s, g, <<e>>)
           V == Line(q, box, s, g, <<>>)
<1>0. /\ <<e>> \in Seq(EventRec) /\ Len(<<e>>) = 1 /\ <<e>>[1] = e
      /\ <<>> \in Seq(EventRec) /\ Len(<<>>) = 0
  OBVIOUS
<1>a. IsLine(U, q, box, s, g, <<e>>) /\ IsLine(V, q, box, s, g, <<>>)
  BY <1>0, LineFacts
<1> HIDE DEF U, V
<1>1. /\ Len(q) \in Nat /\ Len(box) \in Nat /\ DOMAIN U = 1..(Len(q) + Len(box) + 1)
      /\ DOMAIN V = 1..(Len(q) + Len(box) + 0)
      /\ U[Len(q) + Len(box) + 1] = e
  BY <1>0, <1>a DEF IsLine
<1>2. \A i \in DOMAIN V : U[i] = V[i]
  <2>2. /\ \A i \in 1..Len(q) : U[i] = Event("row", q[i], IsRow(q[i]))
        /\ \A i \in 1..Len(box) : U[Len(q) + i] = EventOf(box[i], s, g)
    BY <1>a DEF IsLine
  <2>3. /\ \A i \in 1..Len(q) : V[i] = Event("row", q[i], IsRow(q[i]))
        /\ \A i \in 1..Len(box) : V[Len(q) + i] = EventOf(box[i], s, g)
    BY <1>a DEF IsLine
  <2> SUFFICES ASSUME NEW i \in DOMAIN V  PROVE U[i] = V[i]
    OBVIOUS
  <2>4. CASE i \in 1..Len(q)
    BY <2>2, <2>3, <2>4
  <2>5. CASE i \notin 1..Len(q)
    <3>1. i - Len(q) \in 1..Len(box) /\ Len(q) + (i - Len(q)) = i
      BY <1>1, <2>5
    <3> QED BY <2>2, <2>3, <3>1
  <2> QED BY <2>4, <2>5
<1>3. /\ \A i \in DOMAIN V : /\ i < Len(q) + Len(box) + 1 /\ ~(Len(q) + Len(box) + 1 < i)
                             /\ i # Len(q) + Len(box) + 1
      /\ DOMAIN U = (DOMAIN V) \cup {Len(q) + Len(box) + 1}
      /\ ~(Len(q) + Len(box) + 1 < Len(q) + Len(box) + 1)
  BY <1>1
<1>4. Grown(U, V, Len(q) + Len(box) + 1, e)
  BY <1>1, <1>2, <1>3 DEF Grown
<1> QED BY <1>4 DEF U, V

\* a published event keeps its place in the line
LEMMA LinePublished ==
  ASSUME NEW q \in Seq(Pieces), NEW box \in Seq(MessageRec), NEW s, NEW g, NEW m \in MessageRec
  PROVE  /\ Line(q, Append(box, m), s, g, <<>>) = Line(q, box, s, g, <<EventOf(m, s, g)>>)
         /\ EventOf(m, s, g) \in EventRec
<1> DEFINE e == EventOf(m, s, g)
           U == Line(q, Append(box, m), s, g, <<>>)
           V == Line(q, box, s, g, <<e>>)
<1>1. e \in EventRec
  <2>1. /\ m.piece \in Pieces /\ m.what \in {"row", "replace", "step", "delta"}
        /\ Fresh(m, s, g) \in BOOLEAN
    BY FreshIsBool DEF MessageRec
  <2> QED BY <2>1, EventMade DEF EventOf
<1> HIDE DEF e
<1>0. /\ <<e>> \in Seq(EventRec) /\ Len(<<e>>) = 1 /\ <<e>>[1] = e
      /\ <<>> \in Seq(EventRec) /\ Len(<<>>) = 0
      /\ Append(box, m) \in Seq(MessageRec) /\ Len(Append(box, m)) = Len(box) + 1
      /\ \A i \in 1..Len(box) : Append(box, m)[i] = box[i]
      /\ Append(box, m)[Len(box) + 1] = m
      /\ Len(box) \in Nat /\ Len(q) \in Nat
  BY <1>1
<1>2. IsLine(U, q, Append(box, m), s, g, <<>>) /\ IsLine(V, q, box, s, g, <<e>>)
  BY <1>0, LineFacts
<1> HIDE DEF U, V
<1>3. /\ U \in Seq(EventRec) /\ Len(U) = Len(q) + (Len(box) + 1) + 0
      /\ \A i \in 1..Len(q) : U[i] = Event("row", q[i], IsRow(q[i]))
      /\ \A i \in 1..(Len(box) + 1) : U[Len(q) + i] = EventOf(Append(box, m)[i], s, g)
  BY <1>0, <1>2 DEF IsLine
<1>4. /\ V \in Seq(EventRec) /\ Len(V) = Len(q) + Len(box) + 1
      /\ \A i \in 1..Len(q) : V[i] = Event("row", q[i], IsRow(q[i]))
      /\ \A i \in 1..Len(box) : V[Len(q) + i] = EventOf(box[i], s, g)
      /\ V[Len(q) + Len(box) + 1] = e
  BY <1>0, <1>2 DEF IsLine
<1>5. \A i \in 1..Len(U) : U[i] = V[i]
  <2> SUFFICES ASSUME NEW i \in 1..Len(U)  PROVE U[i] = V[i]
    OBVIOUS
  <2>1. CASE i \in 1..Len(q)
    BY <1>3, <1>4, <2>1
  <2>2. CASE i > Len(q) /\ i <= Len(q) + Len(box)
    <3>1. /\ i - Len(q) \in 1..Len(box) /\ Len(q) + (i - Len(q)) = i
          /\ i - Len(q) \in 1..(Len(box) + 1)
      BY <1>0, <2>2
    <3> QED BY <1>0, <1>3, <1>4, <3>1
  <2>3. CASE i = Len(q) + Len(box) + 1
    <3>1. Len(q) + (Len(box) + 1) = i /\ Len(box) + 1 \in 1..(Len(box) + 1)
      BY <1>0, <2>3
    <3>2. U[i] = EventOf(m, s, g)
      BY <1>0, <1>3, <3>1
    <3> QED BY <1>4, <2>3, <3>2 DEF e
  <2>4. i \in 1..(Len(q) + (Len(box) + 1) + 0)
    BY <1>3
  <2>5. i \in 1..Len(q) \/ (i > Len(q) /\ i <= Len(q) + Len(box)) \/ i = Len(q) + Len(box) + 1
    BY <1>0, <2>4
  <2> QED BY <2>1, <2>2, <2>3, <2>5
<1>6. U = V
  <2>1. Len(U) = Len(V)
    BY <1>0, <1>3, <1>4
  <2> QED BY <1>3, <1>4, <1>5, <2>1, SeqEqual
<1> QED BY <1>1, <1>6 DEF U, V, e

(***************************************************************************)
(* What a worker is about to announce.                                     *)
(***************************************************************************)
LEMMA ComingPieces ==
  ASSUME NEW s \in Sessions, NEW w \in WorkerRec, NEW gen, NEW f, PlaceOK(s, w, gen, f)
  PROVE  /\ Piece(s, "prompt", 0, w.prompts, "") \in Pieces
         /\ Piece(s, "call", w.step, w.c, "") \in Pieces
         /\ Piece(s, "result", w.step, w.c, w.val) \in Pieces
         /\ Piece(s, "result", w.step, w.c, "answered") \in Pieces
         /\ Byte(s, w.step, 0) \in Pieces
         /\ w.pc = "delta" => Byte(s, w.step, w.len - 1) \in Pieces
<1>1. /\ w.step \in Nat /\ w.c \in Nat /\ w.len \in Nat /\ w.prompts \in Nat /\ w.gen \in Nat
      /\ w.callGen \in Nat /\ w.pc \in Places /\ w.val \in Vals
  BY WorkerFacts
<1>2. /\ w.prompts \in 0..MaxPrompts /\ w.step \in 0..MaxSteps /\ w.len \in 0..MaxBytes
      /\ w.c \in 0..MaxCalls
  BY WorkerRanges
<1>3. /\ 0..MaxPrompts \subseteq Positions /\ 0..MaxBytes \subseteq Positions
      /\ 0..MaxCalls \subseteq Positions /\ 0 \in 0..MaxSteps
  BY InPositions
<1>4. /\ "" \in Vals /\ "answered" \in Vals
      /\ "prompt" \in Kinds /\ "byte" \in Kinds /\ "call" \in Kinds /\ "result" \in Kinds
  BY DEF Vals, Kinds
<1>5. Piece(s, "prompt", 0, w.prompts, "") \in Pieces
  BY <1>2, <1>3, <1>4, PieceMade
<1>6. Piece(s, "call", w.step, w.c, "") \in Pieces
  BY <1>2, <1>3, <1>4, PieceMade
<1>7. Piece(s, "result", w.step, w.c, w.val) \in Pieces
  BY <1>1, <1>2, <1>3, <1>4, PieceMade
<1>8. Piece(s, "result", w.step, w.c, "answered") \in Pieces
  BY <1>2, <1>3, <1>4, PieceMade
<1>9. Byte(s, w.step, 0) \in Pieces
  <2>1. 0 \in 0..MaxBytes
    BY Bounds
  <2> QED BY <1>2, <1>3, <1>4, <2>1, PieceMade DEF Byte
<1>10. w.pc = "delta" => Byte(s, w.step, w.len - 1) \in Pieces
  <2> SUFFICES ASSUME w.pc = "delta"  PROVE Byte(s, w.step, w.len - 1) \in Pieces
    OBVIOUS
  <2>1. w.len - 1 \in 0..MaxBytes
    BY <1>2, Bounds DEF PlaceOK
  <2>2. w.len - 1 \in Positions /\ "" \in Vals /\ "byte" \in Kinds /\ w.step \in 0..MaxSteps
    BY <1>2, <1>3, <1>4, <2>1
  <2>3. \A p \in Positions : Piece(s, "byte", w.step, p, "") \in Pieces
    BY <2>2, PieceMade
  <2> QED BY <2>2, <2>3 DEF Byte
<1> QED BY <1>5, <1>6, <1>7, <1>8, <1>9, <1>10

LEMMA ComingFacts ==
  ASSUME NEW s \in Sessions, NEW w \in WorkerRec, NEW gen, NEW f, PlaceOK(s, w, gen, f), NEW g \in Nat
  PROVE  /\ Coming(s, w, g) \in Seq(EventRec)
         /\ Coming(s, w, g) = <<>> \/ \E e \in EventRec : Coming(s, w, g) = <<e>>
<1>1. w.gen \in Nat /\ w.callGen \in Nat
  BY WorkerFacts
<1>5. /\ Piece(s, "prompt", 0, w.prompts, "") \in Pieces
      /\ Piece(s, "call", w.step, w.c, "") \in Pieces
      /\ Piece(s, "result", w.step, w.c, w.val) \in Pieces
      /\ Piece(s, "result", w.step, w.c, "answered") \in Pieces
      /\ Byte(s, w.step, 0) \in Pieces
      /\ w.pc = "delta" => Byte(s, w.step, w.len - 1) \in Pieces
  BY ComingPieces
<1>11. /\ (w.gen > g) \in BOOLEAN /\ (w.callGen > g) \in BOOLEAN /\ FALSE \in BOOLEAN
  BY <1>1
<1>12. Coming(s, w, g) = <<>> \/ \E e \in EventRec : Coming(s, w, g) = <<e>>
  <2>1. CASE w.pc = "prompted"
    BY <2>1, <1>5, <1>11, EventMade DEF Coming
  <2>2. CASE w.pc = "call"
    BY <2>2, <1>5, <1>11, EventMade DEF Coming
  <2>3. CASE w.pc = "result"
    BY <2>3, <1>5, <1>11, EventMade DEF Coming
  <2>4. CASE w.pc = "answered"
    BY <2>4, <1>5, <1>11, EventMade DEF Coming
  <2>5. CASE w.pc = "announce"
    BY <2>5, <1>5, <1>11, EventMade DEF Coming
  <2>6. CASE w.pc = "delta"
    BY <2>6, <1>5, <1>11, EventMade DEF Coming
  <2>7. CASE w.pc \notin {"prompted", "call", "result", "answered", "announce", "delta"}
    BY <2>7 DEF Coming
  <2> QED BY <2>1, <2>2, <2>3, <2>4, <2>5, <2>6, <2>7
<1>13. Coming(s, w, g) \in Seq(EventRec)
  <2>1. \A e \in EventRec : <<e>> \in Seq(EventRec)
    OBVIOUS
  <2>2. <<>> \in Seq(EventRec)
    OBVIOUS
  <2> QED BY <1>12, <2>1, <2>2
<1> QED BY <1>12, <1>13

Message(what, piece, gen) == [what |-> what, piece |-> piece, gen |-> gen]

\* U is V with what is coming behind it
Follows(U, V, c) ==
  \/ c = <<>> /\ U = V
  \/ \E n, e : c = <<e>> /\ Grown(U, V, n, e)

\* the worker is silent, or what it was about to announce goes to the window
Silent(s) == mailbox' = mailbox /\ \A g \in Nat : Coming(s, worker[s], g) = <<>>
Speaks(s) ==
  \E m \in MessageRec :
    /\ m.piece.sess = s /\ MessageOK(m, rowGen)
    /\ mailbox' = IF s = relay THEN Append(mailbox, m) ELSE mailbox
    /\ \A g \in Nat : Coming(s, worker[s], g) = <<EventOf(m, s, g)>>

\* the worker's step tells what it stores
StepTells(s, q, w) ==
  \A V, U : LET g == window.gen
            IN  /\ g \in Nat /\ g <= rowGen[s]
                /\ Told(V, rows[s], s, worker[s], g, cut) /\ Follows(U, V, Coming(s, w, g))
                => Told(U, q, s, w, g, cut')

LEMMA TellKeeps ==
  ASSUME ViewInv, ViewInv', TellInv, NEW s \in Sessions, NEW w, NEW q, UNCHANGED gui,
         worker' = [worker EXCEPT ![s] = w], rows' = [rows EXCEPT ![s] = q],
         \A r \in Sessions : rowGen[r] <= rowGen'[r], cut \subseteq cut',
         Silent(s) \/ Speaks(s), RowsOK(s, q, w), GensOK(w), StepTells(s, q, w)
  PROVE  TellInv'
<1>1. /\ ViewTypes /\ ViewTypes' /\ relay = window.sess /\ PlaceInv /\ PlaceInv'
  BY DEF ViewInv, TypesInv
<1>2. /\ worker \in [Sessions -> WorkerRec] /\ worker' \in [Sessions -> WorkerRec]
      /\ rows \in [Sessions -> Seq(Pieces)] /\ rowGen \in [Sessions -> Nat]
      /\ rowGen' \in [Sessions -> Nat]
      /\ mailbox \in Seq(MessageRec) /\ mailbox' \in Seq(MessageRec) /\ shown \in Seq(Pieces)
      /\ window \in WindowRec
  BY <1>1 DEF ViewTypes
<1>3. window' = window /\ shown' = shown /\ relay' = relay
  BY DEF gui
<1>4. window.sess \in Sessions /\ window.gen \in Nat
  BY <1>2 DEF WindowRec
<1>5. /\ worker'[s] = w /\ rows'[s] = q
      /\ \A r \in Sessions : r # s => worker'[r] = worker[r] /\ rows'[r] = rows[r]
  BY <1>2
<1>6. \A r \in Sessions : RowsOK(r, rows'[r], worker'[r]) /\ GensOK(worker'[r])
  BY <1>5 DEF TellInv
<1>7. MailOK'
  <2>1. ASSUME NEW m \in MessageRec, MessageOK(m, rowGen)
        PROVE  MessageOK(m, rowGen')
    <3>1. m.piece.sess \in Sessions
      BY DEF MessageRec, Pieces
    <3>2. rowGen[m.piece.sess] \in Nat /\ rowGen'[m.piece.sess] \in Nat
      BY <1>2, <3>1
    <3>3. rowGen[m.piece.sess] <= rowGen'[m.piece.sess]
      BY <3>1
    <3> QED BY <2>1, <3>2, <3>3 DEF MessageOK
  <2>2. \A i \in DOMAIN mailbox : mailbox[i] \in MessageRec /\ MessageOK(mailbox[i], rowGen)
    BY <1>2 DEF TellInv, MailOK
  <2>3. CASE mailbox' = mailbox
    BY <2>1, <2>2, <2>3 DEF MailOK
  <2>4. CASE \E m \in MessageRec : MessageOK(m, rowGen) /\ mailbox' = Append(mailbox, m)
    <3>1. PICK m \in MessageRec : MessageOK(m, rowGen) /\ mailbox' = Append(mailbox, m)
      BY <2>4
    <3>2. \A i \in DOMAIN mailbox' :
            (i \in DOMAIN mailbox /\ mailbox'[i] = mailbox[i]) \/ mailbox'[i] = m
      BY <1>2, <3>1
    <3> QED BY <2>1, <2>2, <3>1, <3>2 DEF MailOK
  <2> QED BY <2>3, <2>4 DEF Silent, Speaks
<1>8. ASSUME ~window.loading
      PROVE  Told(Telling(shown, mailbox', window.sess, worker'[window.sess], window.gen),
                  rows'[window.sess], window.sess, worker'[window.sess], window.gen, cut')
  <2> DEFINE g == window.gen
             r == window.sess
             V == Line(shown, mailbox, r, g, Coming(r, worker[r], g))
             U == Line(shown, mailbox', r, g, Coming(r, worker'[r], g))
  <2>1. Told(V, rows[r], r, worker[r], g, cut) /\ g <= rowGen[r]
    BY <1>8 DEF TellInv, Now, Telling
  <2>2. CASE r # s
    <3>1. U = V
      BY <2>2, <1>1, <1>4, <1>5 DEF Silent, Speaks
    <3>2. Told(V, rows[r], r, worker[r], g, cut')
      <4>1. InTurn(V, worker[r], g)
        BY <2>1 DEF Told
      <4> HIDE DEF V, g, r
      <4> QED BY <2>1, <4>1, ToldOn
    <3> QED BY <2>2, <3>1, <3>2, <1>4, <1>5 DEF Telling
  <2>3. CASE r = s
    <3>1. Coming(s, w, g) = <<>> \/ \E e \in EventRec : Coming(s, w, g) = <<e>>
      BY <1>1, <1>2, <1>4, <1>5, ComingFacts DEF PlaceInv
    <3>2. Line(shown, mailbox', s, g, <<>>) = V
      <4>1. CASE Silent(s)
        BY <1>4, <2>3, <4>1 DEF Silent
      <4>2. CASE Speaks(s)
        <5>1. PICK m \in MessageRec : /\ mailbox' = Append(mailbox, m)
                                      /\ Coming(s, worker[s], g) = <<EventOf(m, s, g)>>
          BY <1>1, <1>4, <2>3, <4>2 DEF Speaks
        <5> QED BY <1>2, <2>3, <5>1, LinePublished
      <4> QED BY <4>1, <4>2
    <3>3. Follows(U, V, Coming(s, w, g))
      <4>1. CASE Coming(s, w, g) = <<>>
        BY <2>3, <3>2, <4>1, <1>5 DEF Follows
      <4>2. CASE \E e \in EventRec : Coming(s, w, g) = <<e>>
        <5>1. PICK e \in EventRec : Coming(s, w, g) = <<e>>
          BY <4>2
        <5>2. Grown(Line(shown, mailbox', s, g, <<e>>), Line(shown, mailbox', s, g, <<>>),
                    Len(shown) + Len(mailbox') + 1, e)
          BY <1>2, LineGrows
        <5>3. U = Line(shown, mailbox', s, g, <<e>>)
          BY <1>5, <2>3, <5>1
        <5> HIDE DEF U, V, g
        <5> QED BY <3>2, <5>1, <5>2, <5>3 DEF Follows
      <4> QED BY <3>1, <4>1, <4>2
    <3>4. Told(U, q, s, w, g, cut')
      <4> HIDE DEF U, V
      <4> QED BY <1>4, <2>1, <2>3, <3>3 DEF StepTells
    <3> QED BY <1>5, <2>3, <3>4 DEF Telling
  <2> QED BY <2>2, <2>3
<1>9. window.loading => shown = <<>>
  BY DEF TellInv
<1>10. ~window.loading => window.gen <= rowGen'[window.sess]
  <2> SUFFICES ASSUME ~window.loading  PROVE window.gen <= rowGen'[window.sess]
    OBVIOUS
  <2>1. window.gen <= rowGen[window.sess]
    BY DEF TellInv
  <2>2. rowGen[window.sess] \in Nat /\ rowGen'[window.sess] \in Nat
    BY <1>2, <1>4
  <2>3. rowGen[window.sess] <= rowGen'[window.sess]
    BY <1>4
  <2> QED BY <1>4, <2>1, <2>2, <2>3
<1> QED BY <1>3, <1>6, <1>7, <1>8, <1>9, <1>10 DEF TellInv, Now

(***************************************************************************)
(* The steps that store no row.                                            *)
(***************************************************************************)
\* the rows stay as they are
LEMMA RowsOn ==
  ASSUME NEW s, NEW q \in Seq(Pieces), NEW w \in WorkerRec, NEW x \in WorkerRec, RowsOK(s, q, w),
         x.prompts >= w.prompts, x.step >= w.step,
         Streaming(x) => Streaming(w) \/ x.step > w.step,
         Batching(x) => Batching(w) /\ x.calls = w.calls /\ x.step = w.step
  PROVE  RowsOK(s, q, x)
<1>1. /\ w.prompts \in Nat /\ w.step \in Nat /\ x.prompts \in Nat /\ x.step \in Nat
  BY WorkerFacts
<1>2. \A i \in DOMAIN q : q[i].step \in Nat /\ q[i].pos \in Nat
  BY PieceFacts
<1>3. ASSUME NEW i \in DOMAIN q
      PROVE  /\ q[i].sess = s
             /\ IF q[i].kind = "prompt" THEN q[i].pos <= x.prompts
                ELSE q[i].step <= x.step /\ (Streaming(x) => q[i].step < x.step)
  <2>1. /\ q[i].sess = s
        /\ IF q[i].kind = "prompt" THEN q[i].pos <= w.prompts
           ELSE q[i].step <= w.step /\ (Streaming(w) => q[i].step < w.step)
    BY DEF RowsOK
  <2> QED BY <1>1, <1>2, <2>1
<1>4. \A i, j \in DOMAIN q : i < j => ~SameKey(q[i], q[j]) /\ RowOrder(q[i], q[j])
  BY DEF RowsOK
<1>5. Batching(x) => \A c \in 1..x.calls : \E k \in DOMAIN q : q[k] = Piece(s, "call", x.step, c, "")
  BY DEF RowsOK
<1> QED BY <1>3, <1>4, <1>5 DEF RowsOK

\* A step that stores no row and announces none keeps everything told, when
\* it stays in its batch at its call or no call is left that waits.
LEMMA QuietTells ==
  ASSUME NEW s \in Sessions, NEW w, NEW x, NEW q, rows[s] = q, worker[s] = w, cut \subseteq cut',
         \A g \in Nat : Coming(s, x, g) = <<>> \/ \E e : Coming(s, x, g) = <<e>> /\ ~e.live,
         \/ Batching(w) /\ Batching(x) /\ x.step = w.step /\ x.c = w.c /\ x.callGen = w.callGen
         \/ /\ ~Batching(x)
            /\ \A k \in DOMAIN q : \A g : Later(q[k], w, g) => <<s, q[k].step>> \in cut'
  PROVE  StepTells(s, q, x)
<1> SUFFICES ASSUME NEW V, NEW U, NEW g, g \in Nat, Told(V, q, s, w, g, cut),
                    Follows(U, V, Coming(s, x, g))
             PROVE  Told(U, q, s, x, g, cut')
  BY DEF StepTells
<1>1. Told(V, q, s, x, g, cut')
  <2>1. \A k \in DOMAIN q : Later(q[k], w, g) => Later(q[k], x, g) \/ <<s, q[k].step>> \in cut'
    BY DEF Later
  <2>2. InTurn(V, x, g)
    BY DEF Told, InTurn
  <2> QED BY <2>1, <2>2, ToldOn
<1>2. CASE Coming(s, x, g) = <<>>
  BY <1>1, <1>2 DEF Follows
<1>3. CASE \E e : Coming(s, x, g) = <<e>> /\ ~e.live
  <2>1. PICK n, e : Coming(s, x, g) = <<e>> /\ Grown(U, V, n, e)
    BY <1>3 DEF Follows
  <2>2. ~e.live
    BY <1>3, <2>1
  <2> QED BY <1>1, <2>1, <2>2, ToldQuiet
<1> QED BY <1>2, <1>3

\* outside a batch no call waits
LEMMA NoneWaits ==
  ASSUME NEW s, NEW q, NEW w, ~Batching(w)
  PROVE  \A k \in DOMAIN q : \A g : Later(q[k], w, g) => <<s, q[k].step>> \in cut'
BY DEF Later

\* a worker that streams announces nothing live
LEMMA StreamQuiet ==
  ASSUME NEW s, NEW x, x.pc \in {"idle", "loop", "stream", "announce", "delta", "tool", "ask"}
  PROVE  \A g \in Nat : Coming(s, x, g) = <<>> \/ \E e : Coming(s, x, g) = <<e>> /\ ~e.live
<1>1. ASSUME NEW piece, NEW what  PROVE ~Event(what, piece, FALSE).live
  BY DEF Event
<1>2. ASSUME NEW g \in Nat
      PROVE  Coming(s, x, g) = <<>> \/ \E e : Coming(s, x, g) = <<e>> /\ ~e.live
  <2>1. CASE x.pc = "announce"
    BY <2>1, <1>1 DEF Coming
  <2>2. CASE x.pc = "delta"
    BY <2>2, <1>1 DEF Coming
  <2>3. CASE x.pc \in {"idle", "loop", "stream", "tool", "ask"}
    BY <2>3 DEF Coming
  <2> QED BY <2>1, <2>2, <2>3
<1> QED BY <1>2

LEMMA PlaceSilent ==
  ASSUME NEW s, worker[s].pc \in {"idle", "loop", "stream", "tool", "ask"}, mailbox' = mailbox
  PROVE  Silent(s)
BY DEF Silent, Coming

\* what a step needs to know of its session
LEMMA Telling1 ==
  ASSUME ViewInv, ViewInv', TellInv, NEW s \in Sessions, NEW x, worker' = [worker EXCEPT ![s] = x]
  PROVE  /\ worker[s] \in WorkerRec /\ x \in WorkerRec /\ worker'[s] = x
         /\ rows[s] \in Seq(Pieces) /\ rowGen[s] \in Nat /\ inFlight[s] \in StreamRec
         /\ mailbox \in Seq(MessageRec)
         /\ RowsOK(s, rows[s], worker[s]) /\ GensOK(worker[s])
         /\ PlaceOK(s, worker[s], rowGen[s], inFlight[s]) /\ BatchOK(s, rows[s], worker[s], cut)
         /\ \A r \in Sessions : rowGen[r] \in Nat /\ rowGen[r] <= rowGen[r]
         /\ rows = [rows EXCEPT ![s] = rows[s]]
<1>1. /\ worker[s] \in WorkerRec /\ rows[s] \in Seq(Pieces) /\ rowGen[s] \in Nat
      /\ inFlight[s] \in StreamRec /\ mailbox \in Seq(MessageRec)
      /\ PlaceOK(s, worker[s], rowGen[s], inFlight[s]) /\ BatchOK(s, rows[s], worker[s], cut)
      /\ rows = [rows EXCEPT ![s] = rows[s]]
  BY Current
<1>2. /\ worker \in [Sessions -> WorkerRec] /\ worker' \in [Sessions -> WorkerRec]
      /\ rowGen \in [Sessions -> Nat]
  BY DEF ViewInv, TypesInv, ViewTypes
<1>3. worker'[s] = x
  BY <1>2
<1>4. \A r \in Sessions : rowGen[r] \in Nat /\ rowGen[r] <= rowGen[r]
  BY <1>2
<1> QED BY <1>1, <1>2, <1>3, <1>4 DEF TellInv

\* the row is stored, its announcement is due
LEMMA Announces ==
  ASSUME NEW s, NEW what \in {"row", "replace", "step", "delta"}, NEW piece \in Pieces,
         NEW gen \in Nat, NEW w, worker[s] = w, Publish(s, what, piece, gen), piece.sess = s,
         IF what \in {"row", "replace"} THEN gen \in 1..rowGen[s] ELSE piece.kind = "byte",
         \A g \in Nat : Coming(s, w, g) =
           <<Event(what, piece, IF what \in {"row", "replace"} THEN gen > g ELSE FALSE)>>
  PROVE  Speaks(s)
<1> DEFINE m == Message(what, piece, gen)
<1>1. m \in MessageRec
  BY DEF MessageRec, Message
<1>2. m.piece = piece /\ m.what = what /\ m.gen = gen
  BY DEF Message
<1>3. mailbox' = IF s = relay THEN Append(mailbox, m) ELSE mailbox
  BY DEF Publish, Message
<1> HIDE DEF m
<1>4. ASSUME NEW g \in Nat
      PROVE  EventOf(m, s, g) =
               Event(what, piece, IF what \in {"row", "replace"} THEN gen > g ELSE FALSE)
  <2>1. EventOf(m, s, g) = Event(what, piece, Fresh(m, s, g))
    BY <1>2 DEF EventOf
  <2>2. CASE what \in {"row", "replace"}
    <3>1. Fresh(m, s, g) = (gen > g)
      BY <1>2, <2>2 DEF Fresh
    <3> QED BY <2>1, <2>2, <3>1
  <2>3. CASE what \notin {"row", "replace"}
    <3>1. Fresh(m, s, g) = FALSE
      BY <1>2, <2>3 DEF Fresh
    <3> QED BY <2>1, <2>3, <3>1
  <2> QED BY <2>2, <2>3
<1>5. MessageOK(m, rowGen)
  BY <1>2 DEF MessageOK
<1>6. \A g \in Nat : Coming(s, worker[s], g) = <<EventOf(m, s, g)>>
  BY <1>4
<1> QED BY <1>1, <1>2, <1>3, <1>5, <1>6 DEF Speaks

LEMMA QuietKeeps ==
  ASSUME ViewInv, ViewInv', TellInv, NEW s \in Sessions, NEW w, w = worker[s], NEW x, UNCHANGED gui,
         rows' = rows, rowGen' = rowGen, worker' = [worker EXCEPT ![s] = x], cut \subseteq cut',
         Silent(s) \/ Speaks(s),
         x.pc \in {"idle", "loop", "stream", "announce", "delta", "tool", "ask"},
         x.prompts >= w.prompts, x.step >= w.step,
         Streaming(x) => Streaming(w) \/ x.step > w.step,
         \/ /\ Batching(w) /\ Batching(x) /\ x.step = w.step /\ x.c = w.c /\ x.calls = w.calls
            /\ x.callGen = w.callGen
         \/ /\ ~Batching(x)
            /\ \A k \in DOMAIN rows[s] : \A g : Later(rows[s][k], w, g) => <<s, rows[s][k].step>> \in cut'
  PROVE  TellInv'
<1>1. /\ w \in WorkerRec /\ x \in WorkerRec /\ rows[s] \in Seq(Pieces)
      /\ RowsOK(s, rows[s], w) /\ GensOK(w)
      /\ \A r \in Sessions : rowGen[r] \in Nat /\ rowGen[r] <= rowGen[r]
      /\ rows = [rows EXCEPT ![s] = rows[s]]
  BY Telling1
<1>2. RowsOK(s, rows[s], x)
  <2>1. Batching(x) => Batching(w) /\ x.calls = w.calls /\ x.step = w.step
    OBVIOUS
  <2> QED BY <1>1, <2>1, RowsOn
<1>3. GensOK(x)
  BY <1>1 DEF GensOK
<1>4. \A g \in Nat : Coming(s, x, g) = <<>> \/ \E e : Coming(s, x, g) = <<e>> /\ ~e.live
  BY StreamQuiet
<1>5. StepTells(s, rows[s], x)
  BY <1>4, QuietTells
<1>6. /\ \A r \in Sessions : rowGen[r] <= rowGen'[r]
      /\ rows' = [rows EXCEPT ![s] = rows[s]]
  BY <1>1
<1> QED BY <1>2, <1>3, <1>5, <1>6, TellKeeps

LEMMA Changed ==
  ASSUME NEW w \in WorkerRec, NEW pc
  PROVE  LET x == [w EXCEPT !.pc = pc]
         IN  /\ x.pc = pc /\ x.prompts = w.prompts /\ x.step = w.step /\ x.made = w.made
             /\ x.len = w.len /\ x.calls = w.calls /\ x.c = w.c /\ x.stop = w.stop /\ x.gen = w.gen
             /\ x.callGen = w.callGen /\ x.val = w.val
BY DEF WorkerRec

\* between places of a turn outside its batches
LEMMA GoesOn ==
  ASSUME ViewInv, ViewInv', TellInv, NEW s \in Sessions, NEW x, UNCHANGED gui,
         rows' = rows, rowGen' = rowGen, worker' = [worker EXCEPT ![s] = x], cut' = cut,
         Silent(s) \/ Speaks(s),
         x.pc \in {"idle", "loop", "stream", "announce", "delta"}, ~Batching(worker[s]),
         x.prompts = worker[s].prompts,
         \/ x.step = worker[s].step /\ (Streaming(x) => Streaming(worker[s]))
         \/ x.step = worker[s].step + 1
  PROVE  TellInv'
<1>1. worker[s].step \in Nat /\ worker[s].prompts \in Nat
  BY Current, WorkerFacts
<1>2. /\ x.prompts >= worker[s].prompts /\ x.step >= worker[s].step
      /\ Streaming(x) => Streaming(worker[s]) \/ x.step > worker[s].step
  BY <1>1
<1>3. /\ ~Batching(x)
      /\ \A k \in DOMAIN rows[s] : \A g : Later(rows[s][k], worker[s], g)
                                            => <<s, rows[s][k].step>> \in cut'
  BY DEF Batching, Later
<1> QED BY <1>2, <1>3, QuietKeeps

LEMMA QuietTellInv ==
  ASSUME ViewInv, ViewInv', TellInv, NEW s \in Sessions,
         BeginStep(s) \/ EndTurn(s) \/ RetryRequest(s) \/ Delta(s) \/ FailStep(s)
  PROVE  TellInv'
<1> DEFINE w == worker[s]
<1>1. w \in WorkerRec
  BY Current
<1>2. w.step \in Nat
  BY <1>1, WorkerFacts
<1>3. CASE BeginStep(s)
  <2> DEFINE x == [w EXCEPT !.pc = "announce", !.step = @ + 1, !.len = 0]
  <2>1. /\ UNCHANGED <<gui, mailbox, rows, rowGen, cut>> /\ w.pc = "loop"
        /\ worker' = [worker EXCEPT ![s] = x]
    BY <1>3 DEF BeginStep, At, Work
  <2>2. x.pc = "announce" /\ x.step = w.step + 1 /\ x.prompts = w.prompts
    BY <1>1 DEF WorkerRec
  <2>3. Silent(s) /\ ~Batching(w)
    BY <2>1, PlaceSilent DEF Batching
  <2> HIDE DEF x
  <2> QED BY <2>1, <2>2, <2>3, GoesOn
<1>4. CASE EndTurn(s) \/ RetryRequest(s)
  <2>1. PICK pc \in {"idle", "announce"} :
          /\ worker' = [worker EXCEPT ![s] = [w EXCEPT !.pc = pc]] /\ w.pc \in {"loop", "stream"}
          /\ pc = "announce" => w.pc = "stream"
          /\ UNCHANGED <<gui, mailbox, rows, rowGen, cut>>
    BY <1>4 DEF EndTurn, RetryRequest, At, Goto, Work
  <2> DEFINE y == [w EXCEPT !.pc = pc]
  <2>2. y.pc = pc /\ y.step = w.step /\ y.prompts = w.prompts
    BY <1>1, Changed
  <2>3. Silent(s) /\ ~Batching(w)
    BY <2>1, PlaceSilent DEF Batching
  <2>4. Streaming(y) => Streaming(w)
    BY <2>1, <2>2 DEF Streaming
  <2> HIDE DEF y
  <2> QED BY <2>1, <2>2, <2>3, <2>4, GoesOn DEF y
<1>5. CASE Delta(s)
  <2> DEFINE x == [w EXCEPT !.pc = "delta", !.len = @ + 1]
  <2>1. /\ UNCHANGED <<gui, mailbox, rows, rowGen, cut>> /\ w.pc = "stream"
        /\ worker' = [worker EXCEPT ![s] = x]
    BY <1>5 DEF Delta, At, Work
  <2>2. x.pc = "delta" /\ x.step = w.step /\ x.prompts = w.prompts
    BY <1>1 DEF WorkerRec
  <2>3. Silent(s) /\ ~Batching(w) /\ Streaming(w)
    BY <2>1, PlaceSilent DEF Batching, Streaming
  <2> HIDE DEF x
  <2> QED BY <2>1, <2>2, <2>3, GoesOn
<1>6. CASE FailStep(s)
  <2> DEFINE x == Rest(w, "idle")
  <2>1. /\ UNCHANGED <<gui, mailbox, rows, rowGen, cut>> /\ w.pc = "stream"
        /\ worker' = [worker EXCEPT ![s] = x]
    BY <1>6 DEF FailStep, At, Leave, Work
  <2>2. x.pc = "idle" /\ x.step = w.step /\ x.prompts = w.prompts
    BY <1>1, RestFacts, RestPlaces
  <2>3. Silent(s) /\ ~Batching(w) /\ Streaming(w)
    BY <2>1, PlaceSilent DEF Batching, Streaming
  <2> HIDE DEF x
  <2> QED BY <2>1, <2>2, <2>3, GoesOn
<1> QED BY <1>3, <1>4, <1>5, <1>6

\* the announcement the place of a worker calls for
Due(s, w, what, piece, gen) ==
  \/ w.pc = "prompted" /\ what = "row" /\ gen = w.gen /\ piece = Piece(s, "prompt", 0, w.prompts, "")
  \/ w.pc = "call" /\ what = "row" /\ gen = w.callGen /\ piece = Piece(s, "call", w.step, w.c, "")
  \/ w.pc = "result" /\ what = "row" /\ gen = w.gen /\ piece = Piece(s, "result", w.step, w.c, w.val)
  \/ /\ w.pc = "answered" /\ what = "replace" /\ gen = w.gen
     /\ piece = Piece(s, "result", w.step, w.c, "answered")
  \/ w.pc = "announce" /\ what = "step" /\ gen = 0 /\ piece = Byte(s, w.step, 0)
  \/ w.pc = "delta" /\ what = "delta" /\ gen = 0 /\ piece = Byte(s, w.step, w.len - 1)

LEMMA PlaceSpeaks ==
  ASSUME ViewInv, TellInv, NEW s \in Sessions, NEW w, w = worker[s], NEW what, NEW piece, NEW gen,
         Publish(s, what, piece, gen), Due(s, w, what, piece, gen)
  PROVE  Speaks(s)
<1>1. /\ w \in WorkerRec /\ rowGen[s] \in Nat /\ PlaceOK(s, w, rowGen[s], inFlight[s])
  BY Current
<1>2. GensOK(w)
  BY DEF TellInv
<1>3. /\ w.gen \in Nat /\ w.callGen \in Nat /\ w.gen <= rowGen[s] /\ w.callGen <= rowGen[s]
  BY <1>1, WorkerFacts DEF PlaceOK
<1>4. /\ Piece(s, "prompt", 0, w.prompts, "") \in Pieces
      /\ Piece(s, "call", w.step, w.c, "") \in Pieces
      /\ Piece(s, "result", w.step, w.c, w.val) \in Pieces
      /\ Piece(s, "result", w.step, w.c, "answered") \in Pieces
      /\ Byte(s, w.step, 0) \in Pieces
      /\ w.pc = "delta" => Byte(s, w.step, w.len - 1) \in Pieces
  BY <1>1, ComingPieces
<1>5. CASE w.pc = "prompted" /\ what = "row" /\ gen = w.gen /\ piece = Piece(s, "prompt", 0, w.prompts, "")
  <2>1. piece \in Pieces /\ piece.sess = s /\ gen \in Nat /\ what = "row"
    BY <1>3, <1>4, <1>5 DEF Piece
  <2>2. gen \in 1..rowGen[s]
    <3>1. gen > 0
      BY <1>2, <1>5 DEF GensOK, Batching
    <3>2. gen \in Nat /\ gen <= rowGen[s]
      BY <1>3, <1>5
    <3> QED BY <1>1, <3>1, <3>2
  <2>3. \A g \in Nat : Coming(s, w, g) = <<Event(what, piece, gen > g)>>
    BY <1>5 DEF Coming
  <2> QED BY <2>1, <2>2, <2>3, Announces
<1>6. CASE w.pc = "call" /\ what = "row" /\ gen = w.callGen /\ piece = Piece(s, "call", w.step, w.c, "")
  <2>1. piece \in Pieces /\ piece.sess = s /\ gen \in Nat /\ what = "row"
    BY <1>3, <1>4, <1>6 DEF Piece
  <2>2. gen \in 1..rowGen[s]
    <3>1. gen > 0
      BY <1>2, <1>6 DEF GensOK, Batching
    <3>2. gen \in Nat /\ gen <= rowGen[s]
      BY <1>3, <1>6
    <3> QED BY <1>1, <3>1, <3>2
  <2>3. \A g \in Nat : Coming(s, w, g) = <<Event(what, piece, gen > g)>>
    BY <1>6 DEF Coming
  <2> QED BY <2>1, <2>2, <2>3, Announces
<1>7. CASE w.pc = "result" /\ what = "row" /\ gen = w.gen /\ piece = Piece(s, "result", w.step, w.c, w.val)
  <2>1. piece \in Pieces /\ piece.sess = s /\ gen \in Nat /\ what = "row"
    BY <1>3, <1>4, <1>7 DEF Piece
  <2>2. gen \in 1..rowGen[s]
    <3>1. gen > 0
      BY <1>2, <1>7 DEF GensOK, Batching
    <3>2. gen \in Nat /\ gen <= rowGen[s]
      BY <1>3, <1>7
    <3> QED BY <1>1, <3>1, <3>2
  <2>3. \A g \in Nat : Coming(s, w, g) = <<Event(what, piece, gen > g)>>
    BY <1>7 DEF Coming
  <2> QED BY <2>1, <2>2, <2>3, Announces
<1>8. CASE /\ w.pc = "answered" /\ what = "replace" /\ gen = w.gen
           /\ piece = Piece(s, "result", w.step, w.c, "answered")
  <2>1. piece \in Pieces /\ piece.sess = s /\ gen \in Nat /\ what = "replace"
    BY <1>3, <1>4, <1>8 DEF Piece
  <2>2. gen \in 1..rowGen[s]
    <3>1. gen > 0
      BY <1>2, <1>8 DEF GensOK, Batching
    <3>2. gen \in Nat /\ gen <= rowGen[s]
      BY <1>3, <1>8
    <3> QED BY <1>1, <3>1, <3>2
  <2>3. \A g \in Nat : Coming(s, w, g) = <<Event(what, piece, gen > g)>>
    BY <1>8 DEF Coming
  <2> QED BY <2>1, <2>2, <2>3, Announces
<1>9. CASE w.pc = "announce" /\ what = "step" /\ gen = 0 /\ piece = Byte(s, w.step, 0)
  <2>1. piece \in Pieces /\ piece.sess = s /\ gen \in Nat /\ what = "step"
    BY <1>3, <1>4, <1>9 DEF Piece, Byte
  <2>2. piece.kind = "byte"
    BY <1>9 DEF Piece, Byte
  <2>3. \A g \in Nat : Coming(s, w, g) = <<Event(what, piece, FALSE)>>
    BY <1>9 DEF Coming
  <2> QED BY <2>1, <2>2, <2>3, Announces
<1>10. CASE w.pc = "delta" /\ what = "delta" /\ gen = 0 /\ piece = Byte(s, w.step, w.len - 1)
  <2>1. piece \in Pieces /\ piece.sess = s /\ gen \in Nat /\ what = "delta"
    BY <1>3, <1>4, <1>10 DEF Piece, Byte
  <2>2. piece.kind = "byte"
    BY <1>10 DEF Piece, Byte
  <2>3. \A g \in Nat : Coming(s, w, g) = <<Event(what, piece, FALSE)>>
    BY <1>10 DEF Coming
  <2>4. /\ what \in {"row", "replace", "step", "delta"} /\ what \notin {"row", "replace"}
        /\ worker[s] = w /\ Publish(s, what, piece, gen)
    BY <2>1
  <2> QED BY <2>1, <2>2, <2>3, <2>4, Announces
<1> QED BY <1>5, <1>6, <1>7, <1>8, <1>9, <1>10 DEF Due

LEMMA StreamTellInv ==
  ASSUME ViewInv, ViewInv', TellInv, NEW s \in Sessions,
         PublishPrompt(s) \/ PublishStep(s) \/ PublishDelta(s)
  PROVE  TellInv'
<1> DEFINE w == worker[s]
<1>1. w \in WorkerRec
  BY Current
<1>2. w.step \in Nat
  BY <1>1, WorkerFacts
<1>3. CASE PublishPrompt(s)
  <2> DEFINE x == Rest(w, "loop")
  <2>1. /\ UNCHANGED <<gui, rows, rowGen, cut>> /\ w.pc = "prompted"
        /\ Publish(s, "row", Piece(s, "prompt", 0, w.prompts, ""), w.gen)
        /\ worker' = [worker EXCEPT ![s] = x]
    BY <1>3 DEF PublishPrompt, At, Leave, Work
  <2>2. x.pc = "loop" /\ x.step = w.step /\ x.prompts = w.prompts
    BY <1>1, RestFacts, RestPlaces
  <2>3. Speaks(s) /\ ~Batching(w) /\ ~Streaming(x)
    BY <2>1, <2>2, PlaceSpeaks DEF Due, Batching, Streaming
  <2> HIDE DEF x
  <2> QED BY <2>1, <2>2, <2>3, GoesOn
<1>4. CASE PublishStep(s)
  <2> DEFINE x == [w EXCEPT !.pc = "stream"]
  <2>1. /\ UNCHANGED <<gui, rows, rowGen, cut>> /\ w.pc = "announce"
        /\ Publish(s, "step", Byte(s, w.step, 0), 0)
        /\ worker' = [worker EXCEPT ![s] = x]
    BY <1>4 DEF PublishStep, At, Goto, Work
  <2>2. x.pc = "stream" /\ x.step = w.step /\ x.prompts = w.prompts
    BY <1>1, Changed
  <2>3. Speaks(s) /\ ~Batching(w) /\ Streaming(w)
    BY <2>1, PlaceSpeaks DEF Due, Batching, Streaming
  <2> HIDE DEF x
  <2> QED BY <2>1, <2>2, <2>3, GoesOn
<1>5. CASE PublishDelta(s)
  <2> DEFINE x == [w EXCEPT !.pc = "stream"]
  <2>1. /\ UNCHANGED <<gui, rows, rowGen, cut>> /\ w.pc = "delta"
        /\ Publish(s, "delta", Byte(s, w.step, w.len - 1), 0)
        /\ worker' = [worker EXCEPT ![s] = x]
    BY <1>5 DEF PublishDelta, At, Goto, Work
  <2>2. x.pc = "stream" /\ x.step = w.step /\ x.prompts = w.prompts
    BY <1>1, Changed
  <2>3. Speaks(s) /\ ~Batching(w) /\ Streaming(w)
    BY <2>1, PlaceSpeaks DEF Due, Batching, Streaming
  <2> HIDE DEF x
  <2> QED BY <2>1, <2>2, <2>3, GoesOn
<1> QED BY <1>3, <1>4, <1>5

\* the call is announced and runs; a failed store of its result ends the turn
LEMMA CallTellInv ==
  ASSUME ViewInv, ViewInv', TellInv, NEW s \in Sessions, PublishCall(s) \/ ResultFails(s)
  PROVE  TellInv'
<1> DEFINE w == worker[s]
<1>1. w \in WorkerRec
  BY Current
<1>2. w.step \in Nat /\ w.prompts \in Nat
  BY <1>1, WorkerFacts
<1>3. CASE PublishCall(s)
  <2> DEFINE x == [w EXCEPT !.pc = "tool"]
  <2>1. /\ UNCHANGED <<gui, rows, rowGen, cut>> /\ w.pc = "call"
        /\ Publish(s, "row", Piece(s, "call", w.step, w.c, ""), w.callGen)
        /\ worker' = [worker EXCEPT ![s] = x]
    BY <1>3 DEF PublishCall, At, Goto, Work
  <2>2. /\ x.pc = "tool" /\ x.step = w.step /\ x.prompts = w.prompts /\ x.c = w.c
        /\ x.calls = w.calls /\ x.callGen = w.callGen
    BY <1>1, Changed
  <2>3. Speaks(s) /\ Batching(w)
    BY <2>1, PlaceSpeaks DEF Due, Batching
  <2>4. Batching(x) /\ ~Streaming(x) /\ x.prompts >= w.prompts /\ x.step >= w.step
    BY <1>2, <2>2 DEF Batching, Streaming
  <2> HIDE DEF x
  <2> QED BY <2>1, <2>2, <2>3, <2>4, QuietKeeps
<1>4. CASE ResultFails(s)
  <2> DEFINE x == Rest(w, "idle")
  <2>1. /\ UNCHANGED <<gui, mailbox, rows, rowGen>> /\ w.pc \in {"tool", "ask"}
        /\ cut' = cut \cup {<<s, w.step>>}
        /\ worker' = [worker EXCEPT ![s] = x]
    BY <1>4 DEF ResultFails, At, Leave, Work
  <2>2. x.pc = "idle" /\ x.step = w.step /\ x.prompts = w.prompts
    BY <1>1, RestFacts, RestPlaces
  <2>3. Silent(s)
    BY <2>1, PlaceSilent
  <2>4. ~Batching(x) /\ ~Streaming(x) /\ x.prompts >= w.prompts /\ x.step >= w.step
    BY <1>2, <2>2 DEF Batching, Streaming
  <2>5. \A k \in DOMAIN rows[s] : \A g : Later(rows[s][k], w, g) => <<s, rows[s][k].step>> \in cut'
    BY <2>1 DEF Later
  <2> HIDE DEF x
  <2> QED BY <2>1, <2>2, <2>3, <2>4, <2>5, QuietKeeps
<1> QED BY <1>3, <1>4

\* the call at the end of the line is not told any more: its step is gone
LEMMA ToldUnasked ==
  ASSUME NEW U, NEW V, NEW R, NEW s, NEW w, NEW x, NEW g, NEW gone, NEW gone2, NEW n, NEW e,
         Told(V, R, s, w, g, gone), Grown(V, U, n, e), e.what = "row", e.piece.kind = "call",
         e.piece.step = w.step, gone \subseteq gone2, <<s, w.step>> \in gone2, ~Batching(x)
  PROVE  Told(U, R, s, x, g, gone2)
<1>1. /\ DOMAIN V = (DOMAIN U) \cup {n} /\ V[n] = e
      /\ \A i \in DOMAIN U : i \in DOMAIN V /\ V[i] = U[i] /\ i # n
      /\ \A i \in DOMAIN U : (LiveRow(U, i) <=> LiveRow(V, i)) /\ (LiveAnswer(U, i) <=> LiveAnswer(V, i))
  BY DEF Grown, LiveRow, LiveAnswer
<1>2. ~LiveAnswer(V, n)
  BY <1>1 DEF LiveAnswer
<1>3. Backed(U, R)
  BY <1>1 DEF Told, Backed
<1>4. AllTold(U, R, s, x, g, gone2)
  <2> SUFFICES ASSUME NEW k \in DOMAIN R, IsRow(R[k])
               PROVE  \/ R[k].kind = "call" /\ <<s, R[k].step>> \in gone2
                      \/ \E i \in DOMAIN U : LiveRow(U, i) /\ SameKey(U[i].piece, R[k])
    BY DEF AllTold
  <2>1. CASE R[k].kind = "call" /\ (Later(R[k], w, g) \/ <<s, R[k].step>> \in gone)
    BY <2>1 DEF Later
  <2>2. CASE \E i \in DOMAIN V : LiveRow(V, i) /\ SameKey(V[i].piece, R[k])
    <3>1. PICK i \in DOMAIN V : LiveRow(V, i) /\ SameKey(V[i].piece, R[k])
      BY <2>2
    <3>2. CASE i = n
      BY <1>1, <3>1, <3>2 DEF SameKey
    <3>3. CASE i \in DOMAIN U
      BY <1>1, <3>1, <3>3
    <3> QED BY <1>1, <3>1, <3>2, <3>3
  <2> QED BY <2>1, <2>2 DEF Told, AllTold
<1>5. InOrder(U, R)
  BY <1>1 DEF Told, InOrder
<1>6. ValuesTold(U, R)
  <2> SUFFICES ASSUME NEW i \in DOMAIN U, NEW k \in DOMAIN R, LiveRow(U, i),
                      SameKey(U[i].piece, R[k]), U[i].piece.val # R[k].val
               PROVE  \E j \in DOMAIN U : j > i /\ LiveAnswer(U, j) /\ SameKey(U[j].piece, R[k])
    BY DEF ValuesTold
  <2>1. PICK j \in DOMAIN V : j > i /\ LiveAnswer(V, j) /\ SameKey(V[j].piece, R[k])
    BY <1>1 DEF Told, ValuesTold
  <2> QED BY <1>1, <1>2, <2>1
<1>7. AnswersTold(U, R)
  <2> SUFFICES ASSUME NEW j \in DOMAIN U, LiveAnswer(U, j)
               PROVE  /\ U[j].piece.kind = "result" /\ U[j].piece.val = "answered"
                      /\ \A k \in DOMAIN R : SameKey(U[j].piece, R[k]) => R[k].val = U[j].piece.val
                      /\ \E i \in DOMAIN U :
                           /\ i < j /\ LiveRow(U, i) /\ SameKey(U[i].piece, U[j].piece)
                           /\ \A m \in DOMAIN U : i < m /\ m < j /\ LiveRow(U, m) =>
                                U[m].piece.kind # "result"
    BY DEF AnswersTold
  <2>1. j \in DOMAIN V /\ LiveAnswer(V, j) /\ V[j] = U[j]
    BY <1>1
  <2>2. /\ U[j].piece.kind = "result" /\ U[j].piece.val = "answered"
        /\ \A k \in DOMAIN R : SameKey(U[j].piece, R[k]) => R[k].val = U[j].piece.val
    BY <2>1 DEF Told, AnswersTold
  <2>3. PICK i \in DOMAIN V :
          /\ i < j /\ LiveRow(V, i) /\ SameKey(V[i].piece, U[j].piece)
          /\ \A m \in DOMAIN V : i < m /\ m < j /\ LiveRow(V, m) => V[m].piece.kind # "result"
    BY <2>1 DEF Told, AnswersTold
  <2>4. i # n
    BY <1>1, <2>2, <2>3 DEF SameKey
  <2> QED BY <1>1, <2>2, <2>3, <2>4
<1>8. InTurn(U, x, g)
  BY DEF InTurn
<1> QED BY <1>3, <1>4, <1>5, <1>6, <1>7, <1>8 DEF Told

\* the turn ends with the calls in their row: none of them is announced
LEMMA BreakTellInv ==
  ASSUME ViewInv, ViewInv', TellInv, NEW s \in Sessions, BreakUnasked(s)
  PROVE  TellInv'
<1> DEFINE w == worker[s]
           x == Rest(w, "idle")
           q == rows[s]
           g == window.gen
           U == Line(shown, mailbox, s, g, <<>>)
           V == Line(shown, mailbox, s, g, Coming(s, w, g))
<1>1. /\ UNCHANGED <<gui, mailbox, rows, rowGen>> /\ w.pc = "call"
      /\ cut' = cut \cup {<<s, w.step>>}
      /\ worker' = [worker EXCEPT ![s] = x]
  BY DEF BreakUnasked, At, Leave, Work
<1>2. /\ w \in WorkerRec /\ x \in WorkerRec /\ worker'[s] = x /\ q \in Seq(Pieces)
      /\ RowsOK(s, q, w) /\ GensOK(w) /\ PlaceOK(s, w, rowGen[s], inFlight[s])
  BY <1>1, Telling1
<1>3. /\ worker \in [Sessions -> WorkerRec] /\ rowGen \in [Sessions -> Nat]
      /\ mailbox \in Seq(MessageRec) /\ shown \in Seq(Pieces)
      /\ window.sess \in Sessions /\ g \in Nat
  BY DEF ViewInv, TypesInv, ViewTypes, WindowRec
<1>4. x.pc = "idle" /\ x.step = w.step /\ x.prompts = w.prompts
  BY <1>2, RestFacts, RestPlaces
<1>5. ~Batching(x) /\ ~Streaming(x) /\ Coming(s, x, g) = <<>>
  BY <1>4 DEF Batching, Streaming, Coming
<1>6. w.step \in Nat /\ w.prompts \in Nat /\ w.callGen \in Nat
  BY <1>2, WorkerFacts
<1>7. \A r \in Sessions : r # s => worker'[r] = worker[r]
  BY <1>1, <1>3
<1>8. RowsOK(s, q, x) /\ GensOK(x)
  <2>1. x.prompts >= w.prompts /\ x.step >= w.step
    BY <1>4, <1>6
  <2>2. /\ Streaming(x) => Streaming(w) \/ x.step > w.step
        /\ Batching(x) => Batching(w) /\ x.calls = w.calls /\ x.step = w.step
    BY <1>5
  <2> HIDE DEF x, w, q
  <2>3. RowsOK(s, q, x)
    BY <1>2, <2>1, <2>2, RowsOn
  <2> QED BY <1>4, <1>5, <2>3 DEF GensOK
<1>9. \A r \in Sessions : RowsOK(r, rows'[r], worker'[r]) /\ GensOK(worker'[r])
  BY <1>1, <1>2, <1>7, <1>8 DEF TellInv
<1>10. window' = window /\ shown' = shown /\ mailbox' = mailbox /\ rows' = rows /\ rowGen' = rowGen
  BY <1>1 DEF gui
<1>11. ASSUME ~window.loading
       PROVE  Told(Telling(shown, mailbox, window.sess, worker'[window.sess], g),
                   rows[window.sess], window.sess, worker'[window.sess], g, cut')
  <2> DEFINE r == window.sess
             W == Line(shown, mailbox, r, g, Coming(r, worker[r], g))
  <2>1. Told(W, rows[r], r, worker[r], g, cut)
    BY <1>11 DEF TellInv, Now, Telling
  <2>2. CASE r # s
    <3>1. InTurn(W, worker[r], g) /\ cut \subseteq cut'
      BY <1>1, <2>1 DEF Told
    <3>2. Told(W, rows[r], r, worker[r], g, cut')
      <4> HIDE DEF W, g, r
      <4> QED BY <2>1, <3>1, ToldOn
    <3> QED BY <1>3, <1>7, <2>2, <3>2 DEF Telling
  <2>3. CASE r = s
    <3> DEFINE p == Piece(s, "call", w.step, w.c, "")
               e == Event("row", p, w.callGen > g)
    <3>1. p \in Pieces /\ p.kind = "call" /\ p.step = w.step
      BY <1>2, ComingPieces DEF Piece
    <3>2. Coming(s, w, g) = <<e>>
      BY <1>1 DEF Coming
    <3> HIDE DEF p
    <3>3. e \in EventRec /\ e.what = "row" /\ e.piece = p
      <4>1. (w.callGen > g) \in BOOLEAN
        BY <1>3, <1>6
      <4> QED BY <3>1, <4>1 DEF Event, EventRec
    <3> HIDE DEF e
    <3>4. Grown(Line(shown, mailbox, s, g, <<e>>), U, Len(shown) + Len(mailbox) + 1, e)
      BY <1>3, <3>3, LineGrows
    <3>5. Told(V, q, s, w, g, cut) /\ Grown(V, U, Len(shown) + Len(mailbox) + 1, e)
      BY <2>1, <2>3, <3>2, <3>4
    <3>6. Told(U, q, s, x, g, cut')
      <4>1. cut \subseteq cut' /\ <<s, w.step>> \in cut'
        BY <1>1
      <4> HIDE DEF U, V, x, w, q, g
      <4> QED BY <1>5, <3>1, <3>3, <3>5, <4>1, ToldUnasked
    <3> QED BY <1>2, <1>5, <2>3, <3>6 DEF Telling
  <2> QED BY <2>2, <2>3
<1>12. MailOK' /\ (window.loading => shown = <<>>)
  BY <1>10 DEF TellInv, MailOK
<1>13. ~window.loading => window.gen <= rowGen[window.sess]
  BY DEF TellInv
<1> QED BY <1>9, <1>10, <1>11, <1>12, <1>13 DEF TellInv, Now

(***************************************************************************)
(* The steps that store rows.                                              *)
(***************************************************************************)
\* Z has the rows of R, and more behind them
Longer(Z, R) == Len(R) <= Len(Z) /\ \A k \in DOMAIN R : k \in DOMAIN Z /\ Z[k] = R[k]
Added(Z, R) == {k \in DOMAIN Z : k > Len(R)}

LEMMA LongerFacts ==
  ASSUME NEW R \in Seq(Pieces), NEW D \in Seq(Pieces)
  PROVE  /\ R \o D \in Seq(Pieces) /\ Longer(R \o D, R)
         /\ Added(R \o D, R) = (Len(R) + 1)..(Len(R) + Len(D))
         /\ DOMAIN (R \o D) = 1..(Len(R) + Len(D)) /\ DOMAIN R = 1..Len(R)
         /\ Len(R) \in Nat /\ Len(D) \in Nat /\ Len(R \o D) = Len(R) + Len(D)
         /\ \A k \in DOMAIN D : (R \o D)[Len(R) + k] = D[k]
<1> DEFINE Z == R \o D
<1>1. /\ Z \in Seq(Pieces)
      /\ Len(Z) = Len(R) + Len(D)
      /\ DOMAIN Z = 1..(Len(R) + Len(D)) /\ DOMAIN R = 1..Len(R)
      /\ \A i \in DOMAIN R : Z[i] = R[i]
      /\ \A i \in (Len(R) + 1)..(Len(R) + Len(D)) : Z[i] = D[i - Len(R)]
  BY Extended
<1>2. Len(R) \in Nat /\ Len(D) \in Nat /\ DOMAIN D = 1..Len(D)
  OBVIOUS
<1> HIDE DEF Z
<1>3. Longer(Z, R)
  BY <1>1, <1>2 DEF Longer
<1>4. Added(Z, R) = (Len(R) + 1)..(Len(R) + Len(D))
  BY <1>1, <1>2 DEF Added
<1>5. ASSUME NEW k \in DOMAIN D  PROVE Z[Len(R) + k] = D[k]
  <2>1. ASSUME NEW i, i = Len(R) + k  PROVE Z[i] = D[k]
    <3>1. i \in (Len(R) + 1)..(Len(R) + Len(D)) /\ i - Len(R) = k
      BY <1>2, <2>1
    <3> QED BY <1>1, <3>1
  <2> QED BY <2>1
<1> QED BY <1>1, <1>2, <1>3, <1>4, <1>5 DEF Z

LEMMA RowsUnique ==
  ASSUME NEW s, NEW R \in Seq(Pieces), NEW w, RowsOK(s, R, w)
  PROVE  Unique(R)
<1> SUFFICES ASSUME NEW k \in DOMAIN R, NEW l \in DOMAIN R, SameKey(R[k], R[l])  PROVE k = l
  BY DEF Unique
<1>1. k \in Nat /\ l \in Nat
  OBVIOUS
<1>2. ~(k < l)
  BY DEF RowsOK
<1>3. ~(l < k)
  BY DEF RowsOK, SameKey
<1> QED BY <1>1, <1>2, <1>3

RowOK(s, p, w) ==
  /\ p.sess = s
  /\ IF p.kind = "prompt" THEN p.pos <= w.prompts
     ELSE p.step <= w.step /\ (Streaming(w) => p.step < w.step)

\* the rows of Z behind R are rows of their own, for a worker at x
NewRows(s, R, Z, x) ==
  /\ \A k \in Added(Z, R) : RowOK(s, Z[k], x)
  /\ \A k \in Added(Z, R), i \in DOMAIN R : ~SameKey(R[i], Z[k]) /\ RowOrder(R[i], Z[k])
  /\ \A k, l \in Added(Z, R) : k < l => ~SameKey(Z[k], Z[l]) /\ RowOrder(Z[k], Z[l])

CallsStored(s, Z, x) ==
  Batching(x) => \A c \in 1..x.calls : \E k \in DOMAIN Z : Z[k] = Piece(s, "call", x.step, c, "")

LEMMA LongerSplit ==
  ASSUME NEW R \in Seq(Pieces), NEW Z \in Seq(Pieces), Longer(Z, R)
  PROVE  /\ \A k \in DOMAIN Z : k \in DOMAIN R \/ k \in Added(Z, R)
         /\ \A k \in DOMAIN R, l \in Added(Z, R) : k < l /\ ~(l < k) /\ k # l
         /\ \A k \in DOMAIN R : k \in DOMAIN Z /\ Z[k] = R[k]
         /\ \A l \in Added(Z, R) : l \in DOMAIN Z /\ ~(l < l)
<1>0. /\ DOMAIN R = 1..Len(R) /\ DOMAIN Z = 1..Len(Z) /\ Len(R) \in Nat /\ Len(Z) \in Nat
      /\ Len(R) <= Len(Z)
  BY DEF Longer
<1> QED BY <1>0 DEF Added, Longer

LEMMA RowsLonger ==
  ASSUME NEW s, NEW R \in Seq(Pieces), NEW Z \in Seq(Pieces), NEW w \in WorkerRec, NEW x \in WorkerRec,
         RowsOK(s, R, w), Longer(Z, R), x.prompts >= w.prompts, x.step >= w.step,
         Streaming(x) => Streaming(w) \/ x.step > w.step,
         NewRows(s, R, Z, x), CallsStored(s, Z, x)
  PROVE  RowsOK(s, Z, x)
<1>1. /\ \A k \in DOMAIN Z : k \in DOMAIN R \/ k \in Added(Z, R)
      /\ \A k \in DOMAIN R, l \in Added(Z, R) : k < l /\ ~(l < k) /\ k # l
      /\ \A k \in DOMAIN R : k \in DOMAIN Z /\ Z[k] = R[k]
  BY LongerSplit
<1>2. /\ w.prompts \in Nat /\ w.step \in Nat /\ x.prompts \in Nat /\ x.step \in Nat
  BY WorkerFacts
<1>3. \A i \in DOMAIN R : R[i].step \in Nat /\ R[i].pos \in Nat /\ Z[i] = R[i]
  BY <1>1, PieceFacts
<1>4. ASSUME NEW i \in DOMAIN Z  PROVE RowOK(s, Z[i], x)
  <2>1. CASE i \in Added(Z, R)
    BY <2>1 DEF NewRows
  <2>2. CASE i \in DOMAIN R
    <3>1. RowOK(s, R[i], w)
      BY <2>2 DEF RowsOK, RowOK
    <3> DEFINE p == R[i]
    <3>2. Z[i] = p /\ p.step \in Nat /\ p.pos \in Nat /\ RowOK(s, p, w)
      BY <1>3, <2>2, <3>1
    <3> HIDE DEF p
    <3>3. RowOK(s, p, x)
      BY <1>2, <3>2 DEF RowOK
    <3> QED BY <3>2, <3>3
  <2> QED BY <1>1, <2>1, <2>2
<1>5. ASSUME NEW i \in DOMAIN Z, NEW j \in DOMAIN Z, i < j
      PROVE  ~SameKey(Z[i], Z[j]) /\ RowOrder(Z[i], Z[j])
  <2>1. CASE i \in DOMAIN R /\ j \in DOMAIN R
    BY <1>3, <1>5, <2>1 DEF RowsOK
  <2>2. CASE i \in DOMAIN R /\ j \in Added(Z, R)
    BY <1>3, <2>2 DEF NewRows
  <2>3. CASE i \in Added(Z, R) /\ j \in Added(Z, R)
    BY <1>5, <2>3 DEF NewRows
  <2>4. ~(i \in Added(Z, R) /\ j \in DOMAIN R)
    BY <1>1, <1>5
  <2> QED BY <1>1, <2>1, <2>2, <2>3, <2>4
<1> QED BY <1>4, <1>5 DEF RowsOK, RowOK, CallsStored

\* The step announces the row l of Z; the other rows it stores behind R are no
\* rows of the view, or wait for their turn.
StoresAndTells(s, R, Z, l, w, x) ==
  /\ l \in Added(Z, R) /\ IsRow(Z[l])
  /\ \A g \in Nat : g <= rowGen[s] => Coming(s, x, g) = <<Event("row", Z[l], TRUE)>>
  /\ \A k \in Added(Z, R), g \in Nat :
       g <= rowGen[s] => k = l \/ ~IsRow(Z[k]) \/ (Z[k].kind = "call" /\ Later(Z[k], x, g))
  /\ \A k \in DOMAIN R, g \in Nat : Later(R[k], w, g) => Later(R[k], x, g)
  /\ \A V, U, n, g :
       Told(V, R, s, w, g, cut) /\ Grown(U, V, n, Event("row", Z[l], TRUE)) => InTurn(U, x, g)

LEMMA FollowsOne ==
  ASSUME NEW U, NEW V, NEW e, Follows(U, V, <<e>>)
  PROVE  \E n : Grown(U, V, n, e)
<1>1. <<e>> # <<>>
  OBVIOUS
<1>2. \A d : <<e>> = <<d>> => d = e
  OBVIOUS
<1> QED BY <1>1, <1>2 DEF Follows

LEMMA RowTells ==
  ASSUME NEW s \in Sessions, NEW w, NEW x, NEW R \in Seq(Pieces), NEW Z \in Seq(Pieces), NEW l,
         rows[s] = R, worker[s] = w, cut' = cut,
         Longer(Z, R), Unique(Z), StoresAndTells(s, R, Z, l, w, x)
  PROVE  StepTells(s, Z, x)
<1> SUFFICES ASSUME NEW V, NEW U, NEW g, g \in Nat, g <= rowGen[s], Told(V, R, s, w, g, cut),
                    Follows(U, V, Coming(s, x, g))
             PROVE  Told(U, Z, s, x, g, cut)
  BY DEF StepTells
<1> DEFINE e == Event("row", Z[l], TRUE)
<1>1. PICK n : Grown(U, V, n, e)
  <2>1. Coming(s, x, g) = <<e>>
    BY DEF StoresAndTells
  <2> HIDE DEF e
  <2> QED BY <2>1, FollowsOne
<1>2. InTurn(U, x, g)
  BY <1>1 DEF StoresAndTells
<1> DEFINE d == e
<1>5. Grown(U, V, n, d) /\ d.what = "row" /\ d.piece = Z[l] /\ d.live
  BY <1>1 DEF Event
<1> HIDE DEF d
<1>3. /\ \A k \in DOMAIN Z : k \in DOMAIN R \/ k \in Added(Z, R)
      /\ \A k \in DOMAIN R, m \in Added(Z, R) : k < m /\ ~(m < k) /\ k # m
      /\ \A k \in DOMAIN R : k \in DOMAIN Z /\ Z[k] = R[k]
      /\ \A m \in Added(Z, R) : m \in DOMAIN Z /\ ~(m < m)
  BY LongerSplit
<1>4. Tells(V, R, Z, l, w, x, g)
  <2>1. l \in DOMAIN Z /\ IsRow(Z[l]) /\ ~(l < l) /\ \A k \in DOMAIN R : k < l /\ ~(l < k) /\ k # l
    BY <1>3 DEF StoresAndTells
  <2>2. ASSUME NEW k \in DOMAIN Z, IsRow(Z[k])
        PROVE  \/ k = l
               \/ k \in DOMAIN R /\ (Later(Z[k], w, g) => Later(Z[k], x, g))
               \/ Z[k].kind = "call" /\ Later(Z[k], x, g)
    <3>1. CASE k \in DOMAIN R
      BY <1>3, <3>1 DEF StoresAndTells
    <3>2. CASE k \in Added(Z, R)
      BY <2>2, <3>2 DEF StoresAndTells
    <3> QED BY <1>3, <3>1, <3>2
  <2> QED BY <1>3, <2>1, <2>2 DEF Tells
<1> QED BY <1>2, <1>4, <1>5, ToldMore

LEMMA StorePromptTellInv ==
  ASSUME ViewInv, ViewInv', TellInv, NEW s \in Sessions, StorePrompt(s)
  PROVE  TellInv'
<1> DEFINE w == worker[s]
           p == Piece(s, "prompt", 0, w.prompts + 1, "")
           x == [w EXCEPT !.pc = "prompted", !.prompts = @ + 1, !.gen = rowGen[s] + 1]
           R == rows[s]
           Z == R \o <<p>>
           l == Len(R) + 1
<1>1. /\ UNCHANGED <<gui, mailbox, cut>> /\ w.pc = "idle" /\ worker' = [worker EXCEPT ![s] = x]
      /\ rows' = [rows EXCEPT ![s] = Z] /\ rowGen' = [rowGen EXCEPT ![s] = @ + 1]
      /\ w.prompts < MaxPrompts
  BY DEF StorePrompt, At, Work, AppendRow
<1>2. /\ w \in WorkerRec /\ x \in WorkerRec /\ R \in Seq(Pieces) /\ rowGen[s] \in Nat
      /\ RowsOK(s, R, w) /\ \A r \in Sessions : rowGen[r] \in Nat
  BY <1>1, Telling1
<1>3. /\ x.pc = "prompted" /\ x.prompts = w.prompts + 1 /\ x.gen = rowGen[s] + 1
      /\ x.step = w.step
  BY <1>2 DEF WorkerRec
<1>4. w.prompts \in Nat /\ w.step \in Nat
  BY <1>2, WorkerFacts
<1>5. p \in Pieces
  <2>1. w.prompts + 1 \in Positions
    <3>1. w.prompts < MaxPrompts
      BY <1>1
    <3> HIDE DEF w
    <3>2. w.prompts + 1 \in 0..MaxPrompts
      BY <1>4, <3>1, Bounds
    <3> QED BY <3>2, InPositions
  <2>2. \A k \in Positions : Piece(s, "prompt", 0, k, "") \in Pieces
    <3>1. "prompt" \in Kinds /\ "" \in Vals /\ 0 \in 0..MaxSteps
      BY Bounds DEF Kinds, Vals
    <3> QED BY <3>1, PieceMade
  <2> QED BY <2>1, <2>2
<1>6. p.kind = "prompt" /\ p.pos = w.prompts + 1 /\ p.sess = s
  BY DEF Piece
<1>7. /\ ~Batching(w) /\ ~Batching(x) /\ ~Streaming(x)
  BY <1>1, <1>3 DEF Batching, Streaming
<1>8. p = Piece(s, "prompt", 0, x.prompts, "")
  BY <1>3
<1> HIDE DEF p, x
<1>9. /\ Z \in Seq(Pieces) /\ Longer(Z, R) /\ Added(Z, R) = {l} /\ Z[l] = p
  <2>1. <<p>> \in Seq(Pieces) /\ Len(<<p>>) = 1 /\ 1 \in DOMAIN <<p>> /\ <<p>>[1] = p
    BY <1>5
  <2>2. /\ Z \in Seq(Pieces) /\ Longer(Z, R) /\ Added(Z, R) = (Len(R) + 1)..(Len(R) + Len(<<p>>))
        /\ \A k \in DOMAIN <<p>> : Z[Len(R) + k] = <<p>>[k]
        /\ Len(R) \in Nat
    BY <1>2, <2>1, LongerFacts
  <2> QED BY <2>1, <2>2
<1> HIDE DEF Z
<1>10. RowsOK(s, Z, x)
  <2>1. \A k \in Added(Z, R) : RowOK(s, Z[k], x)
    BY <1>3, <1>4, <1>6, <1>9 DEF RowOK
  <2>2. \A k \in Added(Z, R), i \in DOMAIN R : ~SameKey(R[i], Z[k]) /\ RowOrder(R[i], Z[k])
    <3> SUFFICES ASSUME NEW i \in DOMAIN R  PROVE ~SameKey(R[i], p) /\ RowOrder(R[i], p)
      BY <1>9
    <3>1. R[i].pos \in Nat /\ (R[i].kind = "prompt" => R[i].pos <= w.prompts)
      BY <1>2, PieceFacts DEF RowsOK
    <3> QED BY <1>4, <1>6, <3>1 DEF SameKey, RowOrder
  <2>3. \A k, j \in Added(Z, R) : ~(k < j)
    BY <1>2, <1>9
  <2>4. x.prompts >= w.prompts /\ x.step >= w.step
    BY <1>3, <1>4
  <2>5. NewRows(s, R, Z, x) /\ CallsStored(s, Z, x)
    BY <1>7, <2>1, <2>2, <2>3 DEF NewRows, CallsStored
  <2> QED BY <1>2, <1>7, <1>9, <2>4, <2>5, RowsLonger
<1>11. GensOK(x)
  BY <1>2, <1>3, <1>7 DEF GensOK
<1>12. StepTells(s, Z, x)
  <2>1. ASSUME NEW g \in Nat, g <= rowGen[s]
        PROVE  Coming(s, x, g) = <<Event("row", Z[l], TRUE)>>
    <3>1. (x.gen > g) = TRUE
      BY <1>2, <1>3, <2>1
    <3> QED BY <1>3, <1>8, <1>9, <3>1 DEF Coming
  <2>2. IsRow(Z[l]) /\ l \in Added(Z, R) /\ Unique(Z)
    BY <1>2, <1>6, <1>9, <1>10, RowsUnique DEF IsRow
  <2>3. \A k \in DOMAIN R, g \in Nat : ~Later(R[k], w, g)
    BY <1>7 DEF Later
  <2>4. \A U, g : InTurn(U, x, g)
    BY <1>7 DEF InTurn
  <2>5. StoresAndTells(s, R, Z, l, w, x)
    BY <1>9, <2>1, <2>2, <2>3, <2>4 DEF StoresAndTells
  <2> QED BY <1>1, <1>2, <1>9, <2>2, <2>5, RowTells
<1>13. Silent(s)
  BY <1>1, PlaceSilent
<1>14. \A r \in Sessions : rowGen[r] <= rowGen'[r]
  <2> SUFFICES ASSUME NEW r \in Sessions  PROVE rowGen[r] <= rowGen'[r]
    OBVIOUS
  <2>1. rowGen \in [Sessions -> Nat]
    BY DEF ViewInv, TypesInv, ViewTypes
  <2> QED BY <1>1, <1>2, <2>1
<1> QED BY <1>1, <1>10, <1>11, <1>12, <1>13, <1>14, TellKeeps

LEMMA GenGrows ==
  ASSUME ViewInv, NEW s \in Sessions, rowGen' = [rowGen EXCEPT ![s] = @ + 1]
  PROVE  \A r \in Sessions : rowGen[r] <= rowGen'[r]
<1> SUFFICES ASSUME NEW r \in Sessions  PROVE rowGen[r] <= rowGen'[r]
  OBVIOUS
<1>1. rowGen \in [Sessions -> Nat]
  BY DEF ViewInv, TypesInv, ViewTypes
<1> QED BY <1>1

LEMMA OneMore ==
  ASSUME NEW R \in Seq(Pieces), NEW p \in Pieces
  PROVE  /\ R \o <<p>> \in Seq(Pieces) /\ Longer(R \o <<p>>, R)
         /\ Added(R \o <<p>>, R) = {Len(R) + 1} /\ (R \o <<p>>)[Len(R) + 1] = p
<1>1. <<p>> \in Seq(Pieces) /\ Len(<<p>>) = 1 /\ 1 \in DOMAIN <<p>> /\ <<p>>[1] = p
  OBVIOUS
<1>2. /\ R \o <<p>> \in Seq(Pieces) /\ Longer(R \o <<p>>, R)
      /\ Added(R \o <<p>>, R) = (Len(R) + 1)..(Len(R) + Len(<<p>>))
      /\ \A k \in DOMAIN <<p>> : (R \o <<p>>)[Len(R) + k] = <<p>>[k]
      /\ Len(R) \in Nat
  BY <1>1, LongerFacts
<1> QED BY <1>1, <1>2

\* in a batch the event that tells a row which is no call keeps the turns
LEMMA TurnsKept ==
  ASSUME NEW V, NEW U, NEW n, NEW e, NEW R, NEW s, NEW w, NEW x, NEW g, Told(V, R, s, w, g, cut),
         Grown(U, V, n, e), e.piece.kind # "call",
         Batching(w), x.step = w.step, x.c = w.c, x.callGen = w.callGen
  PROVE  InTurn(U, x, g)
<1> SUFFICES ASSUME x.callGen > g, NEW i \in DOMAIN U, LiveRow(U, i), U[i].piece.kind = "call",
                    U[i].piece.step = x.step
             PROVE  U[i].piece.pos <= x.c
  BY DEF InTurn
<1>1. i \in DOMAIN V /\ U[i] = V[i]
  BY DEF Grown
<1>2. LiveRow(V, i)
  BY <1>1 DEF LiveRow
<1> QED BY <1>1, <1>2 DEF Told, InTurn

LEMMA StoreResultTellInv ==
  ASSUME ViewInv, ViewInv', TellInv, NEW s \in Sessions, NEW val \in ResultVals, StoreResult(s, val)
  PROVE  TellInv'
<1> DEFINE w == worker[s]
           stops == w.stop \/ val \in {"skipped", "stopper"}
           p == Piece(s, "result", w.step, w.c, val)
           x == [w EXCEPT !.pc = "result", !.val = val, !.gen = rowGen[s] + 1, !.stop = stops]
           R == rows[s]
           Z == R \o <<p>>
           l == Len(R) + 1
<1>1. /\ UNCHANGED <<gui, mailbox, cut>> /\ w.pc = "tool" /\ worker' = [worker EXCEPT ![s] = x]
      /\ rows' = [rows EXCEPT ![s] = Z] /\ rowGen' = [rowGen EXCEPT ![s] = @ + 1]
  BY DEF StoreResult, At, Work, AppendRow
<1>2. /\ w \in WorkerRec /\ x \in WorkerRec /\ R \in Seq(Pieces) /\ rowGen[s] \in Nat
      /\ RowsOK(s, R, w) /\ GensOK(w) /\ BatchOK(s, R, w, cut)
  BY <1>1, Telling1
<1>3. /\ x.pc = "result" /\ x.val = val /\ x.gen = rowGen[s] + 1 /\ x.prompts = w.prompts
      /\ x.step = w.step /\ x.c = w.c /\ x.calls = w.calls /\ x.callGen = w.callGen
  BY <1>2 DEF WorkerRec
<1>4. w.prompts \in Nat /\ w.step \in Nat /\ w.c \in Nat
  BY <1>2, WorkerFacts
<1>5. p \in Pieces
  <2>1. w.c \in Positions /\ w.step \in 0..MaxSteps
    BY <1>2, WorkerRanges, InPositions
  <2>2. "result" \in Kinds /\ val \in Vals
    BY DEF Kinds, ResultVals, Vals
  <2> QED BY <2>1, <2>2, PieceMade
<1>6. p.kind = "result" /\ p.pos = w.c /\ p.sess = s /\ p.step = w.step
  BY DEF Piece
<1>7. /\ Batching(w) /\ Batching(x) /\ ~Streaming(x)
  BY <1>1, <1>3 DEF Batching, Streaming
<1>8. p = Piece(s, "result", x.step, x.c, x.val)
  BY <1>3
<1> HIDE DEF p, x
<1>9. /\ Z \in Seq(Pieces) /\ Longer(Z, R) /\ Added(Z, R) = {l} /\ Z[l] = p /\ Len(R) \in Nat
  BY <1>2, <1>5, OneMore
<1> HIDE DEF Z
<1>10. RowsOK(s, Z, x)
  <2>1. \A k \in Added(Z, R) : RowOK(s, Z[k], x)
    BY <1>3, <1>4, <1>6, <1>7, <1>9 DEF RowOK
  <2>2. \A k \in Added(Z, R), i \in DOMAIN R : ~SameKey(R[i], Z[k]) /\ RowOrder(R[i], Z[k])
    <3> SUFFICES ASSUME NEW i \in DOMAIN R  PROVE ~SameKey(R[i], p) /\ RowOrder(R[i], p)
      BY <1>9
    <3>1. R[i].kind = "result" /\ R[i].step = w.step => R[i].pos <= w.c - 1
      BY <1>1, <1>2, <1>7 DEF BatchOK, Answered
    <3>2. R[i].pos \in Nat
      BY <1>2, PieceFacts
    <3> QED BY <1>4, <1>6, <3>1, <3>2 DEF SameKey, RowOrder
  <2>3. \A k, j \in Added(Z, R) : ~(k < j)
    BY <1>9
  <2>4. x.prompts >= w.prompts /\ x.step >= w.step
    BY <1>3, <1>4
  <2>6. CallsStored(s, Z, x)
    <3>1. \A c \in 1..x.calls : \E k \in DOMAIN R : R[k] = Piece(s, "call", x.step, c, "")
      BY <1>2, <1>3, <1>7 DEF RowsOK
    <3>2. \A k \in DOMAIN R : k \in DOMAIN Z /\ Z[k] = R[k]
      BY <1>9 DEF Longer
    <3> QED BY <3>1, <3>2 DEF CallsStored
  <2>5. NewRows(s, R, Z, x)
    BY <2>1, <2>2, <2>3 DEF NewRows
  <2> QED BY <1>2, <1>7, <1>9, <2>4, <2>5, <2>6, RowsLonger
<1>11. GensOK(x)
  BY <1>2, <1>3, <1>7 DEF GensOK
<1>12. StepTells(s, Z, x)
  <2>1. ASSUME NEW g \in Nat, g <= rowGen[s]
        PROVE  Coming(s, x, g) = <<Event("row", Z[l], TRUE)>>
    <3>1. (x.gen > g) = TRUE
      BY <1>2, <1>3, <2>1
    <3> QED BY <1>3, <1>8, <1>9, <3>1 DEF Coming
  <2>2. IsRow(Z[l]) /\ l \in Added(Z, R) /\ Unique(Z)
    BY <1>2, <1>6, <1>9, <1>10, RowsUnique DEF IsRow
  <2>3. \A k \in DOMAIN R, g \in Nat : Later(R[k], w, g) => Later(R[k], x, g)
    BY <1>3, <1>7 DEF Later
  <2>4. ASSUME NEW V, NEW U, NEW n, NEW g, Told(V, R, s, w, g, cut),
               Grown(U, V, n, Event("row", Z[l], TRUE))
        PROVE  InTurn(U, x, g)
    <3>1. Event("row", Z[l], TRUE).piece.kind # "call"
      BY <1>6, <1>9 DEF Event
    <3> QED BY <1>3, <1>7, <2>4, <3>1, TurnsKept
  <2>5. StoresAndTells(s, R, Z, l, w, x)
    BY <1>9, <2>1, <2>2, <2>3, <2>4 DEF StoresAndTells
  <2> QED BY <1>1, <1>2, <1>9, <2>2, <2>5, RowTells
<1>13. Silent(s)
  BY <1>1, PlaceSilent
<1>14. \A r \in Sessions : rowGen[r] <= rowGen'[r]
  BY <1>1, GenGrows
<1> QED BY <1>1, <1>10, <1>11, <1>12, <1>13, <1>14, TellKeeps

LEMMA IsPiece ==
  ASSUME NEW p, NEW s, NEW kind, NEW step, NEW pos, NEW val, p = Piece(s, kind, step, pos, val)
  PROVE  p.sess = s /\ p.kind = kind /\ p.step = step /\ p.pos = pos /\ p.val = val
BY DEF Piece

LEMMA IsByteOf ==
  ASSUME NEW p, NEW s, NEW step, NEW i, p = Byte(s, step, i)
  PROVE  p.sess = s /\ p.kind = "byte" /\ p.step = step /\ p.pos = i
<1>1. PICK kind, val : kind = "byte" /\ p = Piece(s, kind, step, i, val)
  BY Zenon DEF Byte
<1>2. p.sess = s /\ p.kind = kind /\ p.step = step /\ p.pos = i
  <2>1. p = Piece(s, kind, step, i, val)
    BY <1>1
  <2> QED BY <2>1, IsPiece
<1> QED BY <1>1, <1>2

CallRow(s, step, c) == Piece(s, "call", step, c, "")

LEMMA IsCallRow ==
  ASSUME NEW p, NEW s, NEW step, NEW i, p = CallRow(s, step, i)
  PROVE  p.sess = s /\ p.kind = "call" /\ p.step = step /\ p.pos = i
<1>1. PICK kind, val : kind = "call" /\ p = Piece(s, kind, step, i, val)
  BY Zenon DEF CallRow
<1>2. p.sess = s /\ p.kind = kind /\ p.step = step /\ p.pos = i
  <2>1. p = Piece(s, kind, step, i, val)
    BY <1>1
  <2> QED BY <2>1, IsPiece
<1> QED BY <1>1, <1>2

LEMMA PlacesBehind ==
  ASSUME NEW a \in Nat, NEW b \in Nat, NEW c \in Nat, NEW k \in (a + 1)..(a + (b + c))
  PROVE  (\E i \in 1..b : k = a + i) \/ (\E i \in 1..c : k = a + (b + i))
<1>1. CASE k <= a + b
  <2>1. k - a \in 1..b /\ k = a + (k - a)
    BY <1>1
  <2> QED BY <2>1
<1>2. CASE k > a + b
  <2>1. k - (a + b) \in 1..c /\ k = a + (b + (k - (a + b)))
    BY <1>2
  <2> QED BY <2>1
<1> QED BY <1>1, <1>2

\* what follows R in Z are the pieces of an answer of step: its bytes, its calls
IsAnswered(s, R, Z, step, len, n) ==
  /\ Z \in Seq(Pieces) /\ Longer(Z, R) /\ len \in Nat /\ n \in Nat /\ Len(R) \in Nat
  /\ \A k \in Added(Z, R) :
       \/ \E i \in 1..len : k = Len(R) + i /\ \E p \in Nat : p + 1 = i /\ Z[k] = Byte(s, step, p)
       \/ \E i \in 1..n : k = Len(R) + (len + i) /\ Z[k] = CallRow(s, step, i)
  /\ \A c \in 1..n : Len(R) + (len + c) \in Added(Z, R)
                     /\ Z[Len(R) + (len + c)] = CallRow(s, step, c)

LEMMA AnswerAdded ==
  ASSUME NEW s \in Sessions, NEW step \in 0..MaxSteps, NEW len \in 0..MaxBytes, NEW n \in 0..MaxCalls,
         NEW R \in Seq(Pieces)
  PROVE  IsAnswered(s, R, R \o (Bytes(s, step, len) \o Calls(s, step, n)), step, len, n)
<1> DEFINE b == Bytes(s, step, len)
           c == Calls(s, step, n)
           D == b \o c
           Z == R \o D
<1>0. len \in Nat /\ n \in Nat /\ Len(R) \in Nat /\ 0 \in 0..MaxCalls
  BY Bounds
<1>1. /\ b \in Seq(Pieces) /\ Len(b) = len
      /\ \A i \in 1..len : \E p \in Nat : p + 1 = i /\ b[i] = Byte(s, step, p)
  <2>1. b \o c \in Seq(Pieces) /\ b \in Seq(Pieces)
    BY AnswerPieces
  <2>2. DOMAIN b = 1..len /\ \A i \in 1..len : b[i] = Byte(s, step, i - 1)
    BY DEF Bytes
  <2>5. \A i \in DOMAIN b : b[i] \in Pieces
    BY <2>1, PieceFacts
  <2>6. b \in [1..len -> Pieces]
    BY <2>2, <2>5 DEF Bytes
  <2> HIDE DEF b
  <2>3. Len(b) = len
    BY <1>0, <2>6, SeqOfLength
  <2>4. ASSUME NEW i \in 1..len  PROVE \E p \in Nat : p + 1 = i /\ b[i] = Byte(s, step, p)
    <3>1. i - 1 \in Nat /\ (i - 1) + 1 = i
      BY <1>0
    <3> QED BY <2>2, <3>1
  <2> QED BY <2>1, <2>3, <2>4
<1>2. c \in Seq(Pieces) /\ Len(c) = n /\ \A i \in 1..n : c[i] = CallRow(s, step, i)
  <2>1. \A i \in 1..n : c[i] = CallRow(s, step, i)
    BY DEF Calls, CallRow
  <2>2. ASSUME NEW i \in 1..n  PROVE Piece(s, "call", step, i, "") \in Pieces
    <3>1. i \in Positions
      <4>1. i \in 0..MaxCalls
        BY Bounds
      <4> QED BY <4>1, InPositions
    <3>2. "call" \in Kinds /\ "" \in Vals
      BY DEF Kinds, Vals
    <3> QED BY <3>1, <3>2, PieceMade
  <2>3. c \in [1..n -> Pieces]
    BY <2>2 DEF Calls
  <2> HIDE DEF c
  <2> QED BY <1>0, <2>1, <2>3, SeqOfLength
<1> HIDE DEF b, c
<1>3. /\ D \in Seq(Pieces) /\ DOMAIN D = 1..(Len(b) + Len(c)) /\ Len(D) = Len(b) + Len(c)
      /\ \A k \in DOMAIN b : D[k] = b[k]
      /\ \A k \in DOMAIN c : D[Len(b) + k] = c[k]
  BY <1>1, <1>2, LongerFacts DEF Longer
<1> HIDE DEF D
<1>4. DOMAIN b = 1..len /\ DOMAIN c = 1..n /\ DOMAIN D = 1..(len + n) /\ Len(D) = len + n
  <2>0. b \in Seq(Pieces) /\ c \in Seq(Pieces) /\ Len(b) = len /\ Len(c) = n
    BY <1>1, <1>2, Zenon
  <2>1. DOMAIN b = 1..Len(b) /\ DOMAIN c = 1..Len(c)
    BY <2>0
  <2>3. DOMAIN D = 1..(Len(b) + Len(c)) /\ Len(D) = Len(b) + Len(c)
    BY <1>3
  <2> QED BY <2>0, <2>1, <2>3, Zenon
<1>5. /\ \A i \in 1..len : i \in DOMAIN D /\ D[i] = b[i]
      /\ \A i \in 1..n : len + i \in DOMAIN D /\ D[len + i] = c[i]
  <2>1. /\ \A i \in 1..len : i \in 1..(len + n)
        /\ \A i \in 1..n : len + i \in 1..(len + n)
    BY <1>0
  <2> QED BY <1>1, <1>3, <1>4, <2>1
<1>6. /\ Z \in Seq(Pieces) /\ Longer(Z, R) /\ Added(Z, R) = (Len(R) + 1)..(Len(R) + (len + n))
      /\ \A k \in DOMAIN D : Z[Len(R) + k] = D[k]
  <2>1. /\ Z \in Seq(Pieces) /\ Longer(Z, R) /\ Added(Z, R) = (Len(R) + 1)..(Len(R) + Len(D))
        /\ \A k \in DOMAIN D : Z[Len(R) + k] = D[k]
    BY <1>3, LongerFacts
  <2> QED BY <1>4, <2>1
<1> HIDE DEF Z
<1>7. ASSUME NEW k \in Added(Z, R)
      PROVE  \/ \E i \in 1..len : k = Len(R) + i /\ \E p \in Nat : p + 1 = i /\ Z[k] = Byte(s, step, p)
             \/ \E i \in 1..n : k = Len(R) + (len + i) /\ Z[k] = CallRow(s, step, i)
  <2>1. (\E i \in 1..len : k = Len(R) + i) \/ (\E i \in 1..n : k = Len(R) + (len + i))
    <3>1. k \in (Len(R) + 1)..(Len(R) + (len + n))
      BY <1>6
    <3>2. ASSUME NEW a \in Nat, k \in (a + 1)..(a + (len + n))
          PROVE  (\E i \in 1..len : k = a + i) \/ (\E i \in 1..n : k = a + (len + i))
      BY <1>0, <3>2, PlacesBehind
    <3> QED BY <1>0, <3>1, <3>2
  <2>2. ASSUME NEW i \in 1..len, k = Len(R) + i
        PROVE  \E p \in Nat : p + 1 = i /\ Z[k] = Byte(s, step, p)
    <3>1. Z[k] = b[i]
      BY <1>5, <1>6, <2>2
    <3> QED BY <1>1, <3>1
  <2>3. ASSUME NEW i \in 1..n, k = Len(R) + (len + i)
        PROVE  Z[k] = CallRow(s, step, i)
    <3>1. Z[k] = c[i]
      BY <1>5, <1>6, <2>3
    <3> QED BY <1>2, <3>1
  <2> QED BY <2>1, <2>2, <2>3
<1>8. ASSUME NEW i \in 1..n
      PROVE  /\ Len(R) + (len + i) \in Added(Z, R)
             /\ Z[Len(R) + (len + i)] = CallRow(s, step, i)
  <2>1. Z[Len(R) + (len + i)] = c[i]
    BY <1>5, <1>6
  <2>2. Len(R) + (len + i) \in (Len(R) + 1)..(Len(R) + (len + n))
    BY <1>0
  <2> QED BY <1>2, <1>6, <2>1, <2>2
<1>9. IsAnswered(s, R, Z, step, len, n)
  BY <1>0, <1>6, <1>7, <1>8 DEF IsAnswered
<1> QED BY <1>9 DEF Z, D, b, c

\* where Persist leads
Persisted(s, n, x) ==
  LET w == worker[s]
  IN  /\ worker' = [worker EXCEPT ![s] = x] /\ x.step = w.step /\ x.prompts = w.prompts
      /\ IF n = 0 THEN x.pc = "loop"
         ELSE x.pc = "call" /\ x.calls = n /\ x.c = 1 /\ x.callGen = rowGen[s] + 1

LEMMA PersistPlace ==
  ASSUME ViewInv, NEW s \in Sessions, NEW n \in 0..(MaxCalls - worker[s].made), Persist(s, n)
  PROVE  n \in 0..MaxCalls /\ \E x : Persisted(s, n, x)
<1> DEFINE w == worker[s]
<1>1. w \in WorkerRec /\ rowGen[s] \in Nat
  BY Current
<1>2. n \in 0..MaxCalls /\ w.made + n \in 0..MaxCalls
  <2>1. w.made \in 0..MaxCalls
    BY <1>1, WorkerRanges
  <2> QED BY <2>1, Bounds
<1>3. CASE n = 0
  <2>1. worker' = [worker EXCEPT ![s] = Rest(w, "loop")]
    BY <1>3 DEF Persist, EnterBatch, Work
  <2>2. /\ Rest(w, "loop").step = w.step /\ Rest(w, "loop").prompts = w.prompts
        /\ Rest(w, "loop").pc = "loop"
    BY <1>1, RestFacts, RestPlaces
  <2> QED BY <1>2, <1>3, <2>1, <2>2 DEF Persisted
<1>4. CASE n # 0
  <2> DEFINE y == Rest(w, "call")
             x == [y EXCEPT !.made = @ + n, !.calls = n, !.c = 1, !.callGen = rowGen[s] + 1]
  <2>1. worker' = [worker EXCEPT ![s] = x]
    BY <1>4 DEF Persist, EnterBatch, Work
  <2>2. y \in WorkerRec /\ y.step = w.step /\ y.prompts = w.prompts /\ y.pc = "call"
    BY <1>1, RestFacts, RestPlaces
  <2> HIDE DEF y
  <2>3. /\ x.step = y.step /\ x.prompts = y.prompts /\ x.pc = y.pc /\ x.calls = n /\ x.c = 1
        /\ x.callGen = rowGen[s] + 1
    BY <2>2 DEF WorkerRec
  <2> HIDE DEF x
  <2> QED BY <1>2, <1>4, <2>1, <2>2, <2>3 DEF Persisted
<1> QED BY <1>3, <1>4

\* the pieces behind R have keys of their own, and their calls are in order
LEMMA AnswerOrdered ==
  ASSUME NEW s, NEW R, NEW Z, NEW step, NEW len, NEW n, IsAnswered(s, R, Z, step, len, n)
  PROVE  /\ \A k \in Added(Z, R) :
              /\ Z[k].sess = s /\ Z[k].step = step /\ Z[k].kind \in {"byte", "call"}
         /\ \A k, j \in Added(Z, R) : k < j => ~SameKey(Z[k], Z[j]) /\ RowOrder(Z[k], Z[j])
         /\ \A k \in Added(Z, R) : Z[k].kind = "call" =>
              Z[k].pos \in Nat /\ (Z[k].pos > 1 \/ k = Len(R) + (len + 1))
<1> DEFINE IsTextAt(k) == \E i \in 1..len : /\ k = Len(R) + i
                                            /\ \E p \in Nat : p + 1 = i /\ Z[k] = Byte(s, step, p)
           IsCallAt(k) == \E i \in 1..n : k = Len(R) + (len + i) /\ Z[k] = CallRow(s, step, i)
<1>0. len \in Nat /\ n \in Nat /\ Len(R) \in Nat
  BY DEF IsAnswered
<1>1. \A k \in Added(Z, R) : IsTextAt(k) \/ IsCallAt(k)
  BY DEF IsAnswered
<1>2. ASSUME NEW k, IsTextAt(k)
      PROVE  /\ Z[k].sess = s /\ Z[k].step = step /\ Z[k].kind = "byte" /\ Z[k].pos \in Nat /\ k \in Nat
             /\ k = Len(R) + (Z[k].pos + 1) /\ Z[k].pos < len
  <2>1. PICK i \in 1..len, p \in Nat : k = Len(R) + i /\ p + 1 = i /\ Z[k] = Byte(s, step, p)
    BY <1>2
  <2>2. Z[k].sess = s /\ Z[k].step = step /\ Z[k].kind = "byte" /\ Z[k].pos = p
    <3>1. Z[k] = Byte(s, step, p)
      BY <2>1
    <3> QED BY <3>1, IsByteOf
  <2> QED BY <1>0, <2>1, <2>2
<1>3. ASSUME NEW k, IsCallAt(k)
      PROVE  /\ Z[k].sess = s /\ Z[k].step = step /\ Z[k].kind = "call" /\ Z[k].pos \in Nat /\ k \in Nat
             /\ k = Len(R) + (len + Z[k].pos) /\ Z[k].pos > 0
  <2>1. PICK i \in 1..n : k = Len(R) + (len + i) /\ Z[k] = CallRow(s, step, i)
    BY <1>3
  <2>2. Z[k].sess = s /\ Z[k].step = step /\ Z[k].kind = "call" /\ Z[k].pos = i
    <3>1. Z[k] = CallRow(s, step, i)
      BY <2>1
    <3> QED BY <3>1, IsCallRow
  <2>3. k = Len(R) + (len + i)
    BY <2>1, Zenon
  <2> QED BY <1>0, <2>2, <2>3
<1> HIDE DEF IsTextAt, IsCallAt
<1>4. ASSUME NEW k \in Added(Z, R), NEW j \in Added(Z, R), k < j
      PROVE  ~SameKey(Z[k], Z[j]) /\ RowOrder(Z[k], Z[j])
  <2>1. CASE IsTextAt(k) /\ IsTextAt(j)
    BY <1>0, <1>2, <1>4, <2>1 DEF SameKey, RowOrder
  <2>2. CASE IsTextAt(k) /\ IsCallAt(j)
    BY <1>2, <1>3, <2>2 DEF SameKey, RowOrder
  <2>3. CASE IsCallAt(k) /\ IsTextAt(j)
    BY <1>2, <1>3, <2>3 DEF SameKey, RowOrder
  <2>4. CASE IsCallAt(k) /\ IsCallAt(j)
    <3>1. Z[k].pos < Z[j].pos
      BY <1>0, <1>3, <1>4, <2>4
    <3>2. Z[k].pos \in Nat /\ Z[j].pos \in Nat /\ Z[k].step = Z[j].step
      BY <1>3, <2>4
    <3> QED BY <3>1, <3>2 DEF SameKey, RowOrder
  <2> QED BY <1>1, <2>1, <2>2, <2>3, <2>4
<1>5. ASSUME NEW k \in Added(Z, R), Z[k].kind = "call"
      PROVE  Z[k].pos \in Nat /\ (Z[k].pos > 1 \/ k = Len(R) + (len + 1))
  <2>1. IsCallAt(k)
    BY <1>1, <1>2, <1>5
  <2> QED BY <1>3, <2>1
<1> QED BY <1>1, <1>2, <1>3, <1>4, <1>5

LEMMA PersistTellInv ==
  ASSUME ViewInv, ViewInv', TellInv, NEW s \in Sessions,
         NEW n \in 0..(MaxCalls - worker[s].made), Persist(s, n)
  PROVE  TellInv'
<1> DEFINE w == worker[s]
           R == rows[s]
           Z == R \o (Bytes(s, w.step, w.len) \o Calls(s, w.step, n))
           l == Len(R) + (w.len + 1)
<1>1. PICK x : Persisted(s, n, x)
  BY PersistPlace
<1>2. /\ UNCHANGED <<gui, mailbox, cut>> /\ w.pc = "stream" /\ worker' = [worker EXCEPT ![s] = x]
  BY <1>1 DEF Persist, Persisted, At
<1>3. /\ w \in WorkerRec /\ x \in WorkerRec /\ R \in Seq(Pieces) /\ rowGen[s] \in Nat
      /\ RowsOK(s, R, w) /\ GensOK(w)
  BY <1>2, Telling1
<1>4. /\ x.step = w.step /\ x.prompts = w.prompts
      /\ IF n = 0 THEN x.pc = "loop"
         ELSE x.pc = "call" /\ x.calls = n /\ x.c = 1 /\ x.callGen = rowGen[s] + 1
  BY <1>1 DEF Persisted
<1>5. /\ w.prompts \in Nat /\ w.step \in Nat /\ w.step \in 0..MaxSteps /\ w.len \in 0..MaxBytes
      /\ n \in 0..MaxCalls
  BY <1>3, WorkerFacts, WorkerRanges, PersistPlace
<1>6. Streaming(w) /\ ~Streaming(x) /\ ~Batching(w) /\ (n = 0 => ~Batching(x)) /\ Silent(s)
  <2>1. Silent(s)
    BY <1>2, PlaceSilent
  <2> QED BY <1>2, <1>4, <2>1 DEF Streaming, Batching
<1>7. CASE w.len = 0 /\ n = 0
  <2>1. rows' = rows /\ rowGen' = rowGen
    BY <1>7 DEF Persist
  <2> QED BY <1>2, <1>4, <1>6, <1>7, <2>1, GoesOn
<1>8. CASE ~(w.len = 0 /\ n = 0)
  <2>1. rows' = [rows EXCEPT ![s] = Z] /\ rowGen' = [rowGen EXCEPT ![s] = @ + 1]
    BY <1>8 DEF Persist, AppendRow
  <2>2. IsAnswered(s, R, Z, w.step, w.len, n)
    BY <1>3, <1>5, AnswerAdded
  <2> HIDE DEF Z
  <2>3. Z \in Seq(Pieces) /\ Longer(Z, R)
    BY <2>2 DEF IsAnswered
  <2>4. /\ \A k \in Added(Z, R) : /\ Z[k].sess = s /\ Z[k].step = w.step /\ Z[k].kind \in {"byte", "call"}
        /\ \A k, j \in Added(Z, R) : k < j => ~SameKey(Z[k], Z[j]) /\ RowOrder(Z[k], Z[j])
        /\ \A k \in Added(Z, R) : Z[k].kind = "call" => Z[k].pos \in Nat /\ (Z[k].pos > 1 \/ k = l)
    BY <2>2, AnswerOrdered
  <2>5. /\ \A i \in DOMAIN R : R[i].kind # "prompt" => R[i].step < w.step /\ R[i].step \in Nat
    BY <1>3, <1>6, PieceFacts DEF RowsOK
  <2>6. RowsOK(s, Z, x)
    <3>1. \A k \in Added(Z, R) : RowOK(s, Z[k], x)
      BY <1>4, <1>5, <1>6, <2>4 DEF RowOK
    <3>2. \A k \in Added(Z, R), i \in DOMAIN R : ~SameKey(R[i], Z[k]) /\ RowOrder(R[i], Z[k])
      <4> SUFFICES ASSUME NEW k \in Added(Z, R), NEW i \in DOMAIN R
                   PROVE  ~SameKey(R[i], Z[k]) /\ RowOrder(R[i], Z[k])
        OBVIOUS
      <4>1. Z[k].step = w.step /\ Z[k].kind \in {"byte", "call"}
        BY <2>4
      <4> QED BY <1>5, <2>5, <4>1 DEF SameKey, RowOrder
    <3>3. NewRows(s, R, Z, x)
      BY <2>4, <3>1, <3>2 DEF NewRows
    <3>4. CallsStored(s, Z, x)
      <4> SUFFICES ASSUME Batching(x), NEW c \in 1..x.calls
                   PROVE  \E k \in DOMAIN Z : Z[k] = Piece(s, "call", x.step, c, "")
        BY DEF CallsStored
      <4>1. c \in 1..n
        BY <1>4, <1>6
      <4>2. \E k \in Added(Z, R) : Z[k] = Piece(s, "call", w.step, c, "")
        BY <2>2, <4>1 DEF IsAnswered, CallRow
      <4> QED BY <1>4, <4>2 DEF Added
    <3>5. x.prompts >= w.prompts /\ x.step >= w.step
      BY <1>4, <1>5
    <3> QED BY <1>3, <1>6, <2>3, <3>3, <3>4, <3>5, RowsLonger
  <2>7. GensOK(x)
    BY <1>3, <1>4, <1>6 DEF GensOK, Batching
  <2>8. StepTells(s, Z, x)
    <3>1. CASE n = 0
      <4>1. \A k \in Added(Z, R) : ~IsRow(Z[k])
        <5> SUFFICES ASSUME NEW k \in Added(Z, R)  PROVE Z[k].kind = "byte"
          BY DEF IsRow
        <5>1. 1..n = {}
          BY <3>1
        <5>2. \E p : Z[k] = Byte(s, w.step, p)
          BY <2>2, <5>1 DEF IsAnswered
        <5>3. PICK p : Z[k] = Byte(s, w.step, p)
          BY <5>2, Zenon
        <5> QED BY <5>3, IsByteOf
      <4>2. /\ \A k \in DOMAIN R : k \in DOMAIN Z /\ Z[k] = R[k]
            /\ \A k \in DOMAIN Z : k \in DOMAIN R \/ ~IsRow(Z[k])
        BY <1>3, <2>3, <4>1, LongerSplit
      <4>3. ASSUME NEW V, NEW g, Told(V, R, s, w, g, cut)
            PROVE  Told(V, Z, s, x, g, cut)
        <5>1. Told(V, Z, s, w, g, cut)
          BY <4>2, <4>3, ToldText
        <5>2. InTurn(V, x, g) /\ \A k \in DOMAIN Z : ~Later(Z[k], w, g)
          BY <1>6, <3>1 DEF InTurn, Later
        <5> QED BY <5>1, <5>2, ToldOn
      <4>4. \A g : Coming(s, x, g) = <<>>
        BY <1>4, <3>1 DEF Coming
      <4>5. \A U, V : Follows(U, V, <<>>) => U = V
        <5>1. \A e : <<>> # <<e>>
          OBVIOUS
        <5> QED BY <5>1 DEF Follows
      <4> QED BY <1>2, <4>3, <4>4, <4>5 DEF StepTells
    <3>2. CASE n # 0
      <4>1. l \in Added(Z, R) /\ Z[l] = CallRow(s, w.step, 1)
        <5>1. 1 \in 1..n
          BY <1>5, <3>2, Bounds
        <5> QED BY <2>2, <5>1 DEF IsAnswered
      <4>2. /\ Z[l].kind = "call" /\ Z[l].pos = x.c /\ Z[l].step = w.step
            /\ Z[l] = Piece(s, "call", x.step, x.c, "")
        <5>1. Z[l] = CallRow(s, w.step, x.c) /\ x.step = w.step
          BY <1>4, <3>2, <4>1
        <5>2. Z[l].kind = "call" /\ Z[l].pos = x.c /\ Z[l].step = w.step
          BY <5>1, IsCallRow
        <5>3. Z[l] = Piece(s, "call", x.step, x.c, "")
          BY <5>1 DEF CallRow
        <5> QED BY <5>2, <5>3, Zenon
      <4>3. ASSUME NEW g \in Nat, g <= rowGen[s]
            PROVE  /\ Coming(s, x, g) = <<Event("row", Z[l], TRUE)>>
                   /\ x.callGen > g
        <5>1. x.callGen > g
          BY <1>3, <1>4, <3>2, <4>3
        <5>2. (x.callGen > g) = TRUE
          BY <5>1
        <5> QED BY <1>4, <3>2, <4>2, <5>1, <5>2 DEF Coming
      <4>4. Batching(x)
        BY <1>4, <3>2 DEF Batching
      <4>5. ASSUME NEW k \in Added(Z, R), NEW g \in Nat, g <= rowGen[s]
            PROVE  k = l \/ ~IsRow(Z[k]) \/ (Z[k].kind = "call" /\ Later(Z[k], x, g))
        <5>1. Z[k].kind \in {"byte", "call"} /\ Z[k].step = x.step
          BY <1>4, <2>4
        <5>2. Z[k].kind = "call" => k = l \/ Z[k].pos > x.c
          BY <1>4, <2>4, <3>2
        <5>3. x.callGen > g
          BY <4>3, <4>5
        <5> QED BY <4>4, <5>1, <5>2, <5>3 DEF IsRow, Later
      <4>6. \A k \in DOMAIN R, g \in Nat : ~Later(R[k], w, g)
        BY <1>6 DEF Later
      <4>7. ASSUME NEW V, NEW U, NEW m, NEW g, Told(V, R, s, w, g, cut),
                   Grown(U, V, m, Event("row", Z[l], TRUE))
            PROVE  InTurn(U, x, g)
        <5> SUFFICES ASSUME NEW i \in DOMAIN U, LiveRow(U, i), U[i].piece.kind = "call",
                            U[i].piece.step = x.step
                     PROVE  U[i].piece.pos <= x.c
          BY DEF InTurn
        <5>1. i \notin DOMAIN V
          <6> SUFFICES ASSUME i \in DOMAIN V  PROVE FALSE
            OBVIOUS
          <6>1. U[i] = V[i]
            BY <4>7 DEF Grown
          <6>2. V[i].live
            BY <6>1 DEF LiveRow
          <6>3. PICK k \in DOMAIN R : SameKey(V[i].piece, R[k])
            BY <4>7, <6>2 DEF Told, Backed
          <6>4. R[k].kind = "call" /\ R[k].step = w.step
            BY <1>4, <6>1, <6>3 DEF SameKey
          <6> QED BY <1>5, <2>5, <6>4
        <5>2. U[i].piece = Z[l]
          BY <4>7, <5>1 DEF Grown, Event
        <5>3. U[i].piece.pos = x.c /\ x.c = 1
          BY <1>4, <3>2, <4>2, <5>2
        <5> QED BY <5>3
      <4>8. IsRow(Z[l])
        BY <4>2 DEF IsRow
      <4>9. StoresAndTells(s, R, Z, l, w, x)
        BY <4>1, <4>3, <4>5, <4>6, <4>7, <4>8 DEF StoresAndTells
      <4>10. Unique(Z)
        BY <2>3, <2>6, RowsUnique
      <4> QED BY <1>2, <1>3, <2>3, <4>9, <4>10, RowTells
    <3> QED BY <3>1, <3>2
  <2>9. \A r \in Sessions : rowGen[r] <= rowGen'[r]
    BY <2>1, GenGrows
  <2> QED BY <1>2, <1>6, <2>1, <2>6, <2>7, <2>8, <2>9, TellKeeps
<1> QED BY <1>7, <1>8

\* the place of a worker in its batch, and the one behind it
Advances(w, x) ==
  /\ Batching(w) /\ Batching(x) /\ x.pc = "call" /\ x.step = w.step /\ x.calls = w.calls
  /\ x.callGen = w.callGen /\ x.c = w.c + 1 /\ x.c \in 1..w.calls
  /\ w.c \in Nat /\ x.c \in Nat /\ w.step \in Nat

\* calls come in the order of their batches, and in a batch in their own
LEMMA CallBefore ==
  ASSUME NEW s, NEW R \in Seq(Pieces), NEW w, NEW k \in DOMAIN R, NEW l \in DOMAIN R,
         RowsOK(s, R, w), R[k].kind = "call", R[l].kind = "call", R[l].step = w.step, w.step \in Nat,
         R[k].step = w.step => R[k].pos < R[l].pos
  PROVE  k < l /\ ~(l < k)
<1>1. k \in Nat /\ l \in Nat /\ R[k].pos \in Nat /\ R[l].pos \in Nat /\ R[k].step \in Nat
  BY PieceFacts
<1>2. R[k].step <= w.step
  BY DEF RowsOK
<1>3. l < k => R[l].step < R[k].step \/ (R[l].step = R[k].step /\ R[l].pos < R[k].pos)
  BY DEF RowsOK, RowOrder
<1>4. ~(l < k)
  BY <1>1, <1>2, <1>3
<1>5. k # l
  BY <1>1
<1> QED BY <1>1, <1>4, <1>5

LEMMA NextTells ==
  ASSUME NEW s \in Sessions, NEW w, NEW x, NEW R \in Seq(Pieces), RowsOK(s, R, w), Advances(w, x),
         NEW V, NEW U, NEW g, Told(V, R, s, w, g, cut), Follows(U, V, Coming(s, x, g))
  PROVE  Told(U, R, s, x, g, cut)
<1> DEFINE p == CallRow(s, x.step, x.c)
           e == Event("row", p, x.callGen > g)
<1>1. Coming(s, x, g) = <<e>>
  BY DEF Advances, Coming, CallRow
<1>2. PICK l \in DOMAIN R : R[l] = p
  BY DEF Advances, RowsOK, CallRow
<1>3. e.what = "row" /\ e.piece = p /\ (e.live <=> x.callGen > g)
  BY DEF Event
<1>4. p.sess = s /\ p.kind = "call" /\ p.step = x.step /\ p.pos = x.c
  BY IsCallRow
<1> HIDE DEF p, e
<1>5. PICK n : Grown(U, V, n, e)
  BY <1>1, FollowsOne
<1>6. CASE x.callGen > g
  <2>1. Unique(R) /\ l \in Nat /\ ~(l < l)
    <3>1. l \in Nat
      BY PieceFacts
    <3> QED BY <3>1, RowsUnique
  <2>2. R[l].kind = "call" /\ R[l].step = w.step /\ R[l].pos = x.c /\ IsRow(R[l])
    BY <1>2, <1>4 DEF Advances, IsRow
  <2>3. InTurn(V, w, g) /\ w.callGen > g
    BY <1>6 DEF Told, Advances
  <2>4. ASSUME NEW i \in DOMAIN V, LiveRow(V, i), V[i].piece.kind = "call", V[i].piece.step = w.step
        PROVE  V[i].piece.pos <= w.c
    BY <2>3, <2>4 DEF InTurn, Advances
  <2>5. ASSUME NEW k \in DOMAIN R, Later(R[k], w, g)
        PROVE  k = l \/ Later(R[k], x, g)
    <3>1. R[k].kind = "call" /\ R[k].step = w.step /\ R[k].pos > w.c
      BY <2>5 DEF Later
    <3>2. R[k].pos \in Nat /\ w.c \in Nat /\ x.c = w.c + 1
      BY PieceFacts DEF Advances
    <3>3. R[k].pos = x.c \/ R[k].pos > x.c
      BY <3>1, <3>2
    <3>4. CASE R[k].pos = x.c
      <4>1. SameKey(R[k], R[l])
        BY <2>2, <3>1, <3>4 DEF SameKey
      <4> QED BY <2>1, <4>1 DEF Unique
    <3>5. CASE R[k].pos > x.c
      BY <1>6, <3>1, <3>5 DEF Later, Advances
    <3> QED BY <3>3, <3>4, <3>5
  <2>6. ASSUME NEW i \in DOMAIN V, NEW k \in DOMAIN R, LiveRow(V, i), SameKey(V[i].piece, R[k]),
               R[k].kind = "call"
        PROVE  k < l /\ ~(l < k)
    <3>1. R[k].step = w.step => R[k].pos <= w.c
      BY <2>4, <2>6 DEF SameKey
    <3>2. R[k].step = w.step => R[k].pos < R[l].pos
      <4>1. R[k].pos \in Nat /\ w.c \in Nat /\ R[l].pos = w.c + 1
        BY <2>2, PieceFacts DEF Advances
      <4> QED BY <3>1, <4>1
    <3>3. w.step \in Nat
      BY DEF Advances
    <3> QED BY <2>2, <2>6, <3>2, <3>3, CallBefore
  <2>7. ASSUME NEW j \in DOMAIN V, NEW k \in DOMAIN R, LiveAnswer(V, j), SameKey(V[j].piece, R[k])
        PROVE  k # l
    <3>1. V[j].piece.kind = "result"
      BY <2>7 DEF Told, AnswersTold
    <3> QED BY <2>2, <2>7, <3>1 DEF SameKey
  <2>8. Tells(V, R, R, l, w, x, g)
    BY <2>1, <2>2, <2>5, <2>6, <2>7 DEF Tells
  <2>9. InTurn(U, x, g)
    <3> SUFFICES ASSUME NEW i \in DOMAIN U, LiveRow(U, i), U[i].piece.kind = "call",
                        U[i].piece.step = x.step
                 PROVE  U[i].piece.pos <= x.c
      BY DEF InTurn
    <3>0. w.c \in Nat /\ x.c = w.c + 1 /\ x.step = w.step
      BY DEF Advances
    <3>1. CASE i \in DOMAIN V
      <4>1. U[i] = V[i]
        BY <1>5, <3>1 DEF Grown
      <4>2. LiveRow(V, i)
        BY <4>1 DEF LiveRow
      <4>3. V[i].piece.kind = "call" /\ V[i].piece.step = w.step
        BY <3>0, <4>1
      <4>4. V[i].piece.pos <= w.c
        BY <2>4, <3>1, <4>2, <4>3
      <4>5. \E k \in DOMAIN R : SameKey(V[i].piece, R[k])
        BY <3>1, <4>2 DEF Told, Backed, LiveRow
      <4>6. V[i].piece.pos \in Nat
        BY <4>5, PieceFacts DEF SameKey
      <4> QED BY <3>0, <4>1, <4>4, <4>6
    <3>2. CASE i = n
      BY <1>3, <1>4, <1>5, <3>0, <3>2 DEF Grown
    <3> QED BY <1>5, <3>1, <3>2 DEF Grown
  <2>10. e.what = "row" /\ e.piece = R[l] /\ e.live
    BY <1>2, <1>3, <1>6
  <2> QED BY <1>5, <2>1, <2>8, <2>9, <2>10, ToldMore
<1>7. CASE ~(x.callGen > g)
  <2>1. \A k \in DOMAIN R : ~Later(R[k], w, g)
    BY <1>7 DEF Later, Advances
  <2>2. InTurn(V, x, g)
    BY <1>7 DEF InTurn
  <2>3. Told(V, R, s, x, g, cut)
    BY <2>1, <2>2, ToldOn
  <2> QED BY <1>3, <1>5, <1>7, <2>3, ToldQuiet
<1> QED BY <1>6, <1>7

LEMMA ResultTellInv ==
  ASSUME ViewInv, ViewInv', TellInv, NEW s \in Sessions, PublishResult(s) \/ PublishAnswer(s)
  PROVE  TellInv'
<1> DEFINE w == worker[s]
           R == rows[s]
<1>1. /\ w \in WorkerRec /\ PlaceOK(s, w, rowGen[s], inFlight[s]) /\ BatchOK(s, R, w, cut)
      /\ R \in Seq(Pieces)
  BY Current
<1>2. w.step \in Nat /\ w.prompts \in Nat /\ w.c \in Nat /\ w.calls \in Nat
  BY <1>1, WorkerFacts
<1>3. UNCHANGED <<gui, rows, rowGen, cut>> /\ w.pc \in {"result", "answered"}
  BY DEF PublishResult, PublishAnswer, At
<1>4. Batching(w) /\ ~Streaming(w) /\ w.c \in 1..w.calls
  BY <1>1, <1>3 DEF Batching, Streaming, PlaceOK
<1>5. Speaks(s)
  <2>1. CASE PublishResult(s)
    <3>1. w.pc = "result" /\ Publish(s, "row", Piece(s, "result", w.step, w.c, w.val), w.gen)
      BY <2>1 DEF PublishResult, At
    <3> QED BY <3>1, PlaceSpeaks DEF Due
  <2>2. CASE PublishAnswer(s)
    <3>1. w.pc = "answered" /\ Publish(s, "replace", Piece(s, "result", w.step, w.c, "answered"), w.gen)
      BY <2>2 DEF PublishAnswer, At
    <3> QED BY <3>1, PlaceSpeaks DEF Due
  <2> QED BY <2>1, <2>2
<1>6. CASE w.pc = "result" /\ w.val = "asked"
  <2> DEFINE x == [w EXCEPT !.pc = "ask"]
  <2>1. worker' = [worker EXCEPT ![s] = x]
    BY <1>6 DEF PublishResult, PublishAnswer, At, Work
  <2>2. /\ x.pc = "ask" /\ x.step = w.step /\ x.prompts = w.prompts /\ x.c = w.c
        /\ x.calls = w.calls /\ x.callGen = w.callGen
    BY <1>1, Changed
  <2>3. Batching(x) /\ ~Streaming(x) /\ x.prompts >= w.prompts /\ x.step >= w.step
    BY <1>2, <2>2 DEF Batching, Streaming
  <2> HIDE DEF x
  <2> QED BY <1>3, <1>4, <1>5, <2>1, <2>2, <2>3, QuietKeeps
<1>7. CASE ~(w.pc = "result" /\ w.val = "asked")
  <2> DEFINE x == NextCall(w)
  <2>1. worker' = [worker EXCEPT ![s] = x]
    BY <1>7 DEF PublishResult, PublishAnswer, At, Work
  <2>2. CASE w.c < w.calls
    <3>1. x = [w EXCEPT !.pc = "call", !.c = w.c + 1, !.gen = 0, !.val = ""]
      BY <1>1, <2>2 DEF NextCall, WorkerRec
    <3>2. /\ x.pc = "call" /\ x.step = w.step /\ x.prompts = w.prompts /\ x.c = w.c + 1
          /\ x.calls = w.calls /\ x.callGen = w.callGen
      BY <1>1, <3>1 DEF WorkerRec
    <3> HIDE DEF x
    <3>3. /\ w \in WorkerRec /\ x \in WorkerRec /\ RowsOK(s, R, w) /\ GensOK(w)
          /\ rows = [rows EXCEPT ![s] = R] /\ \A r \in Sessions : rowGen[r] <= rowGen[r]
      BY <2>1, Telling1
    <3>4. Batching(x) /\ ~Streaming(x) /\ x.prompts >= w.prompts /\ x.step >= w.step
      BY <1>2, <3>2 DEF Batching, Streaming
    <3>5. RowsOK(s, R, x)
      BY <1>1, <1>4, <3>2, <3>3, <3>4, RowsOn
    <3>6. GensOK(x)
      BY <1>4, <3>2, <3>3 DEF GensOK
    <3>7. Advances(w, x)
      <4>1. x.c \in 1..w.calls /\ x.c \in Nat
        BY <1>2, <2>2, <3>2
      <4> QED BY <1>2, <1>4, <3>2, <3>4, <4>1 DEF Advances
    <3>8. StepTells(s, R, x)
      <4> SUFFICES ASSUME NEW V, NEW U, NEW g, Told(V, R, s, w, g, cut), Follows(U, V, Coming(s, x, g))
                   PROVE  Told(U, R, s, x, g, cut)
        BY <1>3 DEF StepTells
      <4> QED BY <1>1, <3>3, <3>7, NextTells
    <3> QED BY <1>3, <1>5, <2>1, <3>3, <3>5, <3>6, <3>8, TellKeeps
  <2>3. CASE ~(w.c < w.calls)
    <3>1. x = Rest(w, "loop")
      BY <2>3 DEF NextCall
    <3>2. x.pc = "loop" /\ x.step = w.step /\ x.prompts = w.prompts
      <4>1. /\ Rest(w, "loop").pc = "loop" /\ Rest(w, "loop").step = w.step
            /\ Rest(w, "loop").prompts = w.prompts
        BY <1>1, RestFacts, RestPlaces
      <4> HIDE DEF x
      <4> QED BY <3>1, <4>1, Zenon
    <3> HIDE DEF x
    <3>3. ~Batching(x) /\ ~Streaming(x) /\ x.prompts >= w.prompts /\ x.step >= w.step
      BY <1>2, <3>2 DEF Batching, Streaming
    <3>4. ASSUME NEW k \in DOMAIN R, NEW g, Later(R[k], w, g)
          PROVE  <<s, R[k].step>> \in cut'
      <4> SUFFICES ASSUME <<s, R[k].step>> \notin cut  PROVE FALSE
        BY <1>3
      <4>1. R[k].kind = "call" /\ R[k].step = w.step /\ R[k].pos > w.c
        BY <3>4 DEF Later
      <4>2. CallInBatch(R, w, k)
        BY <1>1, <1>4, <4>1 DEF BatchOK
      <4>3. R[k].pos \in 1..w.calls
        BY <4>2 DEF CallInBatch
      <4> QED BY <1>2, <2>3, <4>1, <4>3
    <3> QED BY <1>3, <1>5, <2>1, <3>2, <3>3, <3>4, QuietKeeps
  <2> QED BY <2>2, <2>3
<1> QED BY <1>6, <1>7

ResultRow(s, step, c, val) == Piece(s, "result", step, c, val)

LEMMA IsResultRow ==
  ASSUME NEW p, NEW s, NEW step, NEW i, NEW val, p = ResultRow(s, step, i, val)
  PROVE  p.sess = s /\ p.kind = "result" /\ p.step = step /\ p.pos = i /\ p.val = val
<1>1. PICK kind : kind = "result" /\ p = Piece(s, kind, step, i, val)
  BY Zenon DEF ResultRow
<1>2. p.sess = s /\ p.kind = kind /\ p.step = step /\ p.pos = i /\ p.val = val
  <2>1. p = Piece(s, kind, step, i, val)
    BY <1>1
  <2> QED BY <2>1, IsPiece
<1> QED BY <1>1, <1>2

LEMMA ResultReworded ==
  ASSUME NEW p, NEW s, NEW step, NEW i, NEW val, NEW new, p = ResultRow(s, step, i, val)
  PROVE  [p EXCEPT !.val = new] = ResultRow(s, step, i, new)
<1>1. PICK kind : kind = "result" /\ p = Piece(s, kind, step, i, val)
  BY Zenon DEF ResultRow
<1>2. [p EXCEPT !.val = new] = Piece(s, kind, step, i, new)
  <2>1. p = Piece(s, kind, step, i, val)
    BY <1>1
  <2> QED BY <2>1 DEF Piece
<1>3. Piece(s, kind, step, i, new) = ResultRow(s, step, i, new)
  BY <1>1, Zenon DEF ResultRow
<1> QED BY <1>2, <1>3

\* the newest result of the call is the last row, and the reply rewrites it
LEMMA LastRewritten ==
  ASSUME NEW s, NEW step, NEW c, NEW R \in Seq(Pieces), R # <<>>,
         R[Len(R)] = ResultRow(s, step, c, "asked")
  PROVE  /\ Reworded(R, Rewrite(R, c, "answered"), Len(R), "answered")
         /\ Rewrite(R, c, "answered")[Len(R)] = ResultRow(s, step, c, "answered")
         /\ R[Len(R)].kind = "result" /\ R[Len(R)].step = step /\ R[Len(R)].pos = c
         /\ \A k \in DOMAIN R : ~(Len(R) < k)
<1> DEFINE Z == Rewrite(R, c, "answered")
           n == Len(R)
<1>1. n \in Nat /\ n \in DOMAIN R /\ DOMAIN R = 1..n
  OBVIOUS
<1>2. R[n].sess = s /\ R[n].kind = "result" /\ R[n].step = step /\ R[n].pos = c /\ R[n].val = "asked"
  BY IsResultRow
<1>3. Newest(R, c) = {n}
  BY <1>1, <1>2 DEF Newest
<1>4. Z = [i \in DOMAIN R |-> IF i = n THEN [R[i] EXCEPT !.val = "answered"] ELSE R[i]]
  BY <1>1, <1>3 DEF Rewrite
<1> HIDE DEF Z, n
<1>5. Z[n] = [R[n] EXCEPT !.val = "answered"] /\ DOMAIN Z = DOMAIN R
  BY <1>1, <1>4
<1>6. R[n] = ResultRow(s, step, c, "asked")
  BY DEF n
<1>7. Z[n] = ResultRow(s, step, c, "answered")
  BY <1>5, <1>6, ResultReworded
<1>8. Z[n].sess = s /\ Z[n].kind = "result" /\ Z[n].step = step /\ Z[n].pos = c /\ Z[n].val = "answered"
  BY <1>7, IsResultRow
<1>9. \A k \in DOMAIN R : k # n => Z[k] = R[k]
  BY <1>4
<1>10. Reworded(R, Z, n, "answered")
  BY <1>1, <1>2, <1>5, <1>8, <1>9 DEF Reworded, SameKey
<1>11. \A k \in DOMAIN R : ~(n < k)
  BY <1>1
<1> QED BY <1>2, <1>7, <1>10, <1>11 DEF Z, n

\* a row with another value is still the row
LEMMA RowsReworded ==
  ASSUME NEW s, NEW R \in Seq(Pieces), NEW Z \in Seq(Pieces), NEW m, NEW val, NEW w, NEW x,
         RowsOK(s, R, w), Reworded(R, Z, m, val), R[m].kind = "result",
         Batching(w), Batching(x), ~Streaming(x), x.step = w.step, x.prompts = w.prompts,
         x.calls = w.calls
  PROVE  RowsOK(s, Z, x)
<1>1. \A k \in DOMAIN R : SameKey(Z[k], R[k]) /\ Z[k].sess = R[k].sess
  BY DEF Reworded, SameKey
<1>2. DOMAIN Z = DOMAIN R
  BY DEF Reworded
<1>3. \A i \in DOMAIN Z : /\ Z[i].sess = s
                          /\ IF Z[i].kind = "prompt" THEN Z[i].pos <= x.prompts
                             ELSE Z[i].step <= x.step /\ (Streaming(x) => Z[i].step < x.step)
  BY <1>1, <1>2 DEF RowsOK, SameKey
<1>4. \A i, j \in DOMAIN Z : i < j => ~SameKey(Z[i], Z[j]) /\ RowOrder(Z[i], Z[j])
  <2> SUFFICES ASSUME NEW i \in DOMAIN R, NEW j \in DOMAIN R, i < j
               PROVE  ~SameKey(Z[i], Z[j]) /\ RowOrder(Z[i], Z[j])
    BY <1>2
  <2>1. ~SameKey(R[i], R[j]) /\ RowOrder(R[i], R[j])
    BY DEF RowsOK
  <2>2. SameKey(Z[i], R[i]) /\ SameKey(Z[j], R[j])
    BY <1>1
  <2> QED BY <2>1, <2>2 DEF SameKey, RowOrder
<1>5. \A c \in 1..x.calls : \E k \in DOMAIN Z : Z[k] = CallRow(s, x.step, c)
  <2> SUFFICES ASSUME NEW c \in 1..w.calls  PROVE \E k \in DOMAIN R : Z[k] = CallRow(s, w.step, c)
    BY <1>2
  <2>1. PICK k \in DOMAIN R : R[k] = CallRow(s, w.step, c)
    BY DEF RowsOK, CallRow
  <2>2. R[k].kind = "call"
    BY <2>1, IsCallRow
  <2>3. Z[k] = R[k]
    BY <2>2 DEF Reworded
  <2> QED BY <2>1, <2>3
<1> QED BY <1>3, <1>4, <1>5 DEF RowsOK, CallRow

LEMMA AnswerTellInv ==
  ASSUME ViewInv, ViewInv', TellInv, NEW s \in Sessions, Answer(s)
  PROVE  TellInv'
<1> DEFINE w == worker[s]
           x == [w EXCEPT !.pc = "answered", !.gen = rowGen[s] + 1]
           R == rows[s]
           Z == Rewrite(R, w.c, "answered")
           m == Len(R)
<1>1. /\ UNCHANGED <<gui, mailbox, cut>> /\ w.pc = "ask" /\ worker' = [worker EXCEPT ![s] = x]
      /\ rows' = [rows EXCEPT ![s] = Z] /\ rowGen' = [rowGen EXCEPT ![s] = @ + 1]
  BY DEF Answer, At, Work
<1>2. /\ w \in WorkerRec /\ x \in WorkerRec /\ R \in Seq(Pieces) /\ rowGen[s] \in Nat
      /\ RowsOK(s, R, w) /\ GensOK(w) /\ BatchOK(s, R, w, cut)
  BY <1>1, Telling1
<1>3. /\ x.pc = "answered" /\ x.gen = rowGen[s] + 1 /\ x.prompts = w.prompts
      /\ x.step = w.step /\ x.c = w.c /\ x.calls = w.calls /\ x.callGen = w.callGen
      /\ x.stop = w.stop
  BY <1>2 DEF WorkerRec
<1>4. /\ Batching(w) /\ Batching(x) /\ ~Streaming(x)
  BY <1>1, <1>3 DEF Batching, Streaming
<1>5. R # <<>> /\ R[m] = ResultRow(s, w.step, w.c, "asked")
  BY <1>1, <1>2 DEF BatchOK, ResultRow
<1> HIDE DEF x
<1>6. Z \in Seq(Pieces)
  BY <1>1, <1>2, <1>3, AnswerStored
<1>7. /\ Reworded(R, Z, m, "answered") /\ Z[m] = ResultRow(s, w.step, w.c, "answered")
      /\ R[m].kind = "result" /\ \A k \in DOMAIN R : ~(m < k)
  BY <1>2, <1>5, LastRewritten
<1> HIDE DEF Z, m
<1>8. RowsOK(s, Z, x)
  BY <1>2, <1>3, <1>4, <1>6, <1>7, RowsReworded
<1>9. GensOK(x)
  BY <1>2, <1>3, <1>4 DEF GensOK
<1>10. StepTells(s, Z, x)
  <2> SUFFICES ASSUME NEW V, NEW U, NEW g, g \in Nat, g <= rowGen[s], Told(V, R, s, w, g, cut),
                      Follows(U, V, Coming(s, x, g))
               PROVE  Told(U, Z, s, x, g, cut)
    BY <1>1 DEF StepTells
  <2>1. Coming(s, x, g) = <<Event("replace", Z[m], TRUE)>>
    <3>1. (x.gen > g) = TRUE
      BY <1>2, <1>3
    <3>2. Z[m] = Piece(s, "result", x.step, x.c, "answered")
      BY <1>3, <1>7 DEF ResultRow
    <3> QED BY <1>3, <3>1, <3>2 DEF Coming
  <2> DEFINE e == Event("replace", Z[m], TRUE)
  <2>2. PICK n : Grown(U, V, n, e)
    <3> HIDE DEF e
    <3> QED BY <2>1, FollowsOne DEF e
  <2>3. Unique(R)
    BY <1>2, RowsUnique
  <2>4. Told(U, Z, s, w, g, cut)
    BY <1>7, <2>2, <2>3, ToldAnswer
  <2>5. InTurn(U, x, g)
    BY <1>3, <1>4, <2>4 DEF Told, InTurn
  <2>6. \A k \in DOMAIN Z : Later(Z[k], w, g) => Later(Z[k], x, g)
    BY <1>3, <1>4 DEF Later
  <2> QED BY <2>4, <2>5, <2>6, ToldOn
<1>11. Silent(s)
  BY <1>1, PlaceSilent
<1>12. \A r \in Sessions : rowGen[r] <= rowGen'[r]
  BY <1>1, GenGrows
<1> QED BY <1>1, <1>8, <1>9, <1>10, <1>11, <1>12, TellKeeps

(***************************************************************************)
(* The steps of the window.                                                *)
(***************************************************************************)
LEMMA BoxTail ==
  ASSUME NEW box \in Seq(MessageRec), box # <<>>
  PROVE  /\ Head(box) \in MessageRec /\ Tail(box) \in Seq(MessageRec) /\ Head(box) = box[1]
         /\ Len(Tail(box)) \in Nat /\ Len(box) = Len(Tail(box)) + 1 /\ 1 \in DOMAIN box
         /\ \A i \in 1..Len(Tail(box)) : Tail(box)[i] = box[i + 1] /\ i + 1 \in DOMAIN box
         /\ DOMAIN Tail(box) = 1..Len(Tail(box))
OBVIOUS

\* V and U agree on the r events that follow place n of V and place d of U
Rests(V, n, U, d, r) ==
  /\ n \in Nat /\ d \in Nat /\ r \in Nat
  /\ DOMAIN V = 1..(n + r) /\ DOMAIN U = 1..(d + r)
  /\ \A j \in 1..r : U[d + j] = V[n + j]

\* the line before and after the window takes a message
LEMMA LineHandled ==
  ASSUME NEW q \in Seq(Pieces), NEW z \in Seq(Pieces), NEW box \in Seq(MessageRec), box # <<>>,
         NEW s, NEW g, NEW c \in Seq(EventRec)
  PROVE  LET V == Line(q, box, s, g, c)
             U == Line(z, Tail(box), s, g, c)
         IN  /\ \E r : Rests(V, Len(q) + 1, U, Len(z), r)
             /\ \A i \in 1..Len(q) : V[i] = Event("row", q[i], IsRow(q[i]))
             /\ \A i \in 1..Len(z) : U[i] = Event("row", z[i], IsRow(z[i]))
             /\ V[Len(q) + 1] = EventOf(Head(box), s, g)
             /\ Len(q) \in Nat /\ Len(z) \in Nat
<1> DEFINE V == Line(q, box, s, g, c)
           t == Tail(box)
           U == Line(z, t, s, g, c)
           b == Len(t)
           k == Len(c)
           n == Len(q)
           d == Len(z)
<1>1. /\ t \in Seq(MessageRec) /\ Head(box) = box[1] /\ b \in Nat /\ Len(box) = b + 1
      /\ \A i \in 1..b : t[i] = box[i + 1]
  BY BoxTail
<1>2. IsLine(V, q, box, s, g, c) /\ IsLine(U, z, t, s, g, c)
  BY <1>1, LineFacts
<1> HIDE DEF V, U, t
<1>3. /\ n \in Nat /\ k \in Nat /\ DOMAIN V = 1..(n + (b + 1) + k)
      /\ \A i \in 1..n : V[i] = Event("row", q[i], IsRow(q[i]))
      /\ \A i \in 1..(b + 1) : V[n + i] = EventOf(box[i], s, g)
      /\ \A i \in 1..k : V[n + (b + 1) + i] = c[i]
  BY <1>1, <1>2 DEF IsLine
<1>4. /\ d \in Nat /\ DOMAIN U = 1..(d + b + k)
      /\ \A i \in 1..d : U[i] = Event("row", z[i], IsRow(z[i]))
      /\ \A i \in 1..b : U[d + i] = EventOf(t[i], s, g)
      /\ \A i \in 1..k : U[d + b + i] = c[i]
  BY <1>2 DEF IsLine
<1> HIDE DEF n, d, b, k
<1>5. V[n + 1] = EventOf(Head(box), s, g)
  <2>1. 1 \in 1..(b + 1)
    BY <1>1
  <2> QED BY <1>1, <1>3, <2>1
<1>6. ASSUME NEW j \in 1..(b + k)
      PROVE  U[d + j] = V[n + 1 + j]
  <2>1. CASE j \in 1..b
    <3>1. j + 1 \in 1..(b + 1) /\ n + (j + 1) = n + 1 + j
      BY <1>1, <1>3, <2>1
    <3>2. U[d + j] = EventOf(box[j + 1], s, g)
      BY <1>1, <1>4, <2>1
    <3>3. V[n + (j + 1)] = EventOf(box[j + 1], s, g)
      BY <1>3, <3>1
    <3> QED BY <3>1, <3>2, <3>3
  <2>2. CASE j \notin 1..b
    <3>1. PICK i \in 1..k : j = b + i
      <4>1. j - b \in 1..k /\ j = b + (j - b)
        BY <1>1, <1>3, <2>2
      <4> QED BY <4>1
    <3>2. d + b + i = d + j /\ n + (b + 1) + i = n + 1 + j
      BY <1>1, <1>3, <1>4, <3>1
    <3>3. U[d + b + i] = c[i] /\ V[n + (b + 1) + i] = c[i]
      BY <1>3, <1>4
    <3> QED BY <3>2, <3>3
  <2> QED BY <2>1, <2>2
<1>7. Rests(V, n + 1, U, d, b + k)
  <2>1. n + (b + 1) + k = n + 1 + (b + k) /\ d + b + k = d + (b + k) /\ n + 1 \in Nat /\ b + k \in Nat
    BY <1>1, <1>3, <1>4
  <2>2. DOMAIN V = 1..(n + 1 + (b + k)) /\ DOMAIN U = 1..(d + (b + k))
    BY <1>3, <1>4, <2>1
  <2> QED BY <1>4, <1>6, <2>1, <2>2 DEF Rests
<1> QED BY <1>3, <1>4, <1>5, <1>7 DEF V, U, t, n, d

\* U is W without place n + 1
Skips(U, W, n) ==
  /\ \A i \in DOMAIN U : i \in Nat /\ (IF i <= n THEN i \in DOMAIN W /\ W[i] = U[i]
                                       ELSE i + 1 \in DOMAIN W /\ W[i + 1] = U[i])
  /\ \A j \in DOMAIN W : \/ j = n + 1
                         \/ j <= n /\ j \in DOMAIN U
                         \/ \E i \in DOMAIN U : ~(i <= n) /\ i + 1 = j

LEMMA ToldSkipping ==
  ASSUME NEW U, NEW W, NEW n \in Nat, NEW R, NEW s, NEW w, NEW g, NEW gone,
         Told(W, R, s, w, g, gone), Skips(U, W, n),
         W[n + 1].live => Spent(W, n + 1)
  PROVE  Told(U, R, s, w, g, gone)
<1> DEFINE f == [i \in DOMAIN U |-> IF i <= n THEN i ELSE i + 1]
<1>1. \A i \in DOMAIN U : i \in Nat /\ f[i] = IF i <= n THEN i ELSE i + 1
  BY DEF Skips
<1> HIDE DEF f
<1>2. \A i \in DOMAIN U : f[i] \in DOMAIN W /\ W[f[i]] = U[i]
  BY <1>1 DEF Skips
<1>3. \A i, j \in DOMAIN U : i < j <=> f[i] < f[j]
  BY <1>1
<1>4. ASSUME NEW j \in DOMAIN W, W[j].live
      PROVE  Spent(W, j) \/ \E i \in DOMAIN U : U[i].live /\ f[i] = j
  <2>1. CASE j = n + 1
    BY <1>4, <2>1
  <2>2. CASE j <= n /\ j \in DOMAIN U
    <3>1. f[j] = j
      BY <1>1, <2>2
    <3> QED BY <1>2, <1>4, <2>2, <3>1
  <2>3. CASE \E i \in DOMAIN U : ~(i <= n) /\ i + 1 = j
    <3>1. PICK i \in DOMAIN U : ~(i <= n) /\ i + 1 = j
      BY <2>3
    <3>2. f[i] = j
      BY <1>1, <3>1
    <3> QED BY <1>2, <1>4, <3>2
  <2> QED BY <2>1, <2>2, <2>3 DEF Skips
<1>5. Thins(U, W, f)
  BY <1>2, <1>3, <1>4 DEF Thins
<1> QED BY <1>5, ToldThinned

\* events that are not live can change
LEMMA ToldSame ==
  ASSUME NEW U, NEW W, NEW R, NEW s, NEW w, NEW g, NEW gone, Told(W, R, s, w, g, gone),
         DOMAIN U = DOMAIN W,
         \A i \in DOMAIN W : U[i] = W[i] \/ (~U[i].live /\ ~W[i].live)
  PROVE  Told(U, R, s, w, g, gone)
<1> DEFINE f == [i \in DOMAIN U |-> i]
<1>1. \A i \in DOMAIN U : f[i] = i
  OBVIOUS
<1> HIDE DEF f
<1>2. Thins(U, W, f)
  BY <1>1 DEF Thins
<1> QED BY <1>2, ToldThinned

\* the message is dropped, or its piece takes its place in the line
LEMMA ToldDropped ==
  ASSUME NEW q \in Seq(Pieces), NEW box \in Seq(MessageRec), box # <<>>,
         NEW s, NEW g, NEW c \in Seq(EventRec), NEW R, NEW w, NEW gone,
         Told(Line(q, box, s, g, c), R, s, w, g, gone), ~Fresh(Head(box), s, g)
  PROVE  Told(Line(q, Tail(box), s, g, c), R, s, w, g, gone)
<1> DEFINE V == Line(q, box, s, g, c)
           U == Line(q, Tail(box), s, g, c)
           n == Len(q)
<1>1. /\ \E r : Rests(V, n + 1, U, n, r)
      /\ \A i \in 1..n : V[i] = Event("row", q[i], IsRow(q[i]))
      /\ \A i \in 1..n : U[i] = Event("row", q[i], IsRow(q[i]))
      /\ V[n + 1] = EventOf(Head(box), s, g) /\ n \in Nat
  BY LineHandled
<1>2. PICK r : Rests(V, n + 1, U, n, r)
  BY <1>1
<1> HIDE DEF V, U, n
<1>3. Skips(U, V, n)
  <2>1. \A i \in 1..n : U[i] = V[i]
    BY <1>1
  <2>2. n \in Nat /\ r \in Nat /\ DOMAIN V = 1..(n + 1 + r) /\ DOMAIN U = 1..(n + r)
    BY <1>2 DEF Rests
  <2>3. \A j \in 1..r : U[n + j] = V[n + 1 + j]
    BY <1>2 DEF Rests
  <2>4. ASSUME NEW i \in DOMAIN U
        PROVE  i \in Nat /\ (IF i <= n THEN i \in DOMAIN V /\ V[i] = U[i]
                             ELSE i + 1 \in DOMAIN V /\ V[i + 1] = U[i])
    <3>1. CASE i <= n
      BY <2>1, <2>2, <3>1
    <3>2. CASE ~(i <= n)
      <4>1. i - n \in 1..r /\ n + (i - n) = i /\ n + 1 + (i - n) = i + 1 /\ i \in Nat /\ i + 1 \in DOMAIN V
        BY <2>2, <3>2
      <4> QED BY <2>3, <3>2, <4>1
    <3> QED BY <3>1, <3>2
  <2>5. ASSUME NEW j \in DOMAIN V
        PROVE  \/ j = n + 1
               \/ j <= n /\ j \in DOMAIN U
               \/ \E i \in DOMAIN U : ~(i <= n) /\ i + 1 = j
    <3>1. CASE j <= n
      BY <2>2, <3>1
    <3>2. CASE j > n + 1
      <4>1. j - 1 \in DOMAIN U /\ ~(j - 1 <= n) /\ (j - 1) + 1 = j
        BY <2>2, <3>2
      <4> QED BY <4>1
    <3> QED BY <2>2, <3>1, <3>2
  <2> QED BY <2>4, <2>5 DEF Skips
<1>4. ~V[n + 1].live
  <2>1. ~EventOf(Head(box), s, g).live
    BY DEF EventOf, Event
  <2> QED BY <1>1, <2>1
<1>5. Told(V, R, s, w, g, gone)
  BY DEF V
<1>6. Told(U, R, s, w, g, gone)
  BY <1>1, <1>3, <1>4, <1>5, ToldSkipping
<1> QED BY <1>6 DEF U

LEMMA ToldShown ==
  ASSUME NEW q \in Seq(Pieces), NEW box \in Seq(MessageRec), box # <<>>,
         NEW s, NEW g, NEW c \in Seq(EventRec), NEW R, NEW w, NEW gone,
         Told(Line(q, box, s, g, c), R, s, w, g, gone),
         LET m == Head(box)
         IN  IF Fresh(m, s, g) THEN m.what = "row" ELSE ~IsRow(m.piece)
  PROVE  Told(Line(Append(q, Head(box).piece), Tail(box), s, g, c), R, s, w, g, gone)
<1> DEFINE m == Head(box)
           p == m.piece
           z == Append(q, p)
           V == Line(q, box, s, g, c)
           U == Line(z, Tail(box), s, g, c)
           n == Len(q)
<1>1. p \in Pieces
  <2>1. m \in MessageRec
    BY BoxTail
  <2> QED BY <2>1 DEF MessageRec
<1>2. z \in Seq(Pieces) /\ Len(z) = n + 1 /\ z[n + 1] = p /\ n \in Nat /\ \A i \in 1..n : z[i] = q[i]
  BY <1>1
<1> HIDE DEF z
<1>3. /\ \E r : Rests(V, n + 1, U, Len(z), r)
      /\ \A i \in 1..n : V[i] = Event("row", q[i], IsRow(q[i]))
      /\ \A i \in 1..Len(z) : U[i] = Event("row", z[i], IsRow(z[i]))
      /\ V[n + 1] = EventOf(m, s, g) /\ n \in Nat
  BY <1>2, LineHandled
<1>4. PICK r : Rests(V, n + 1, U, n + 1, r)
  BY <1>2, <1>3
<1>5. Told(V, R, s, w, g, gone)
  BY DEF V
<1>6. IF Fresh(m, s, g) THEN m.what = "row" ELSE ~IsRow(p)
  OBVIOUS
<1> HIDE DEF V, U, n, p, m
<1>7. /\ n \in Nat /\ r \in Nat /\ DOMAIN V = 1..(n + 1 + r) /\ DOMAIN U = 1..(n + 1 + r)
  BY <1>3, <1>4, Zenon DEF Rests
<1>8. \A i \in 1..n : U[i] = V[i]
  <2>1. \A i \in 1..n : i \in 1..Len(z)
    BY <1>2
  <2> QED BY <1>2, <1>3, <2>1
<1>9. U[n + 1] = V[n + 1] \/ (~U[n + 1].live /\ ~V[n + 1].live)
  <2>1. U[n + 1] = Event("row", p, IsRow(p))
    <3>1. n + 1 \in 1..Len(z)
      BY <1>2
    <3> QED BY <1>2, <1>3, <3>1
  <2>2. V[n + 1] = Event(m.what, p, Fresh(m, s, g))
    BY <1>3 DEF EventOf, p
  <2>3. Fresh(m, s, g) \in BOOLEAN /\ IsRow(p) \in BOOLEAN
    BY FreshIsBool DEF IsRow
  <2>4. CASE Fresh(m, s, g)
    <3>1. V[n + 1].live /\ n + 1 \in DOMAIN V /\ V[n + 1].piece = p
      BY <1>7, <2>2, <2>4 DEF Event
    <3>2. IsRow(p)
      BY <1>5, <3>1 DEF Told, Backed
    <3>3. IsRow(p) = Fresh(m, s, g) /\ m.what = "row"
      BY <1>6, <2>3, <2>4, <3>2
    <3> QED BY <2>1, <2>2, <3>3
  <2>5. CASE ~Fresh(m, s, g)
    <3>1. ~IsRow(p)
      BY <1>6, <2>5
    <3> QED BY <2>1, <2>2, <2>5, <3>1 DEF Event
  <2> QED BY <2>4, <2>5
<1>10. \A i \in DOMAIN V : U[i] = V[i] \/ (~U[i].live /\ ~V[i].live)
  <2> SUFFICES ASSUME NEW i \in DOMAIN V  PROVE U[i] = V[i] \/ (~U[i].live /\ ~V[i].live)
    OBVIOUS
  <2>1. CASE i \in 1..n
    BY <1>8, <2>1
  <2>2. CASE i = n + 1
    BY <1>9, <2>2
  <2>3. CASE i > n + 1
    <3>1. i - (n + 1) \in 1..r /\ n + 1 + (i - (n + 1)) = i
      BY <1>7, <2>3
    <3>2. U[n + 1 + (i - (n + 1))] = V[n + 1 + (i - (n + 1))]
      BY <1>4, <3>1 DEF Rests
    <3> QED BY <3>1, <3>2
  <2> QED BY <1>7, <2>1, <2>2, <2>3
<1>11. Told(U, R, s, w, g, gone)
  BY <1>5, <1>7, <1>10, ToldSame
<1> QED BY <1>11 DEF U, z, p, m

LEMMA EventFields ==
  ASSUME NEW what, NEW piece, NEW live
  PROVE  /\ Event(what, piece, live).what = what /\ Event(what, piece, live).piece = piece
         /\ Event(what, piece, live).live = live
BY DEF Event

\* a piece on the screen
Screened(e, p) == e.what = "row" /\ e.piece = p /\ e.live = IsRow(p)
LEMMA IsScreened ==
  \A e, p : e = Event("row", p, IsRow(p)) => Screened(e, p)
<1> SUFFICES ASSUME NEW p  PROVE Screened(Event("row", p, IsRow(p)), p)
  BY Zenon
<1>1. \A what, live : /\ Event(what, p, live).what = what /\ Event(what, p, live).piece = p
                      /\ Event(what, p, live).live = live
  BY EventFields
<1>2. /\ Event("row", p, IsRow(p)).what = "row" /\ Event("row", p, IsRow(p)).piece = p
      /\ Event("row", p, IsRow(p)).live = IsRow(p)
  BY <1>1, Zenon
<1> QED BY <1>2 DEF Screened

RowEvent(p, live) == Event("row", p, live)
LEMMA IsRowEvent ==
  ASSUME NEW e, NEW p, NEW live, e = RowEvent(p, live)
  PROVE  e.what = "row" /\ e.piece = p /\ e.live = live
<1>1. PICK what : what = "row" /\ e = Event(what, p, live)
  BY Zenon DEF RowEvent
<1>2. e.what = what /\ e.piece = p /\ e.live = live
  <2>1. e = Event(what, p, live)
    BY <1>1
  <2> QED BY <2>1 DEF Event
<1> QED BY <1>1, <1>2

\* a stored row is told once
LEMMA ToldOnce ==
  ASSUME NEW V, NEW R \in Seq(Pieces), NEW s, NEW w, NEW g, NEW gone, Told(V, R, s, w, g, gone),
         NEW i \in DOMAIN V, NEW j \in DOMAIN V, i \in Nat, j \in Nat,
         LiveRow(V, i), LiveRow(V, j), SameKey(V[i].piece, V[j].piece)
  PROVE  i = j
<1>1. PICK k \in DOMAIN R : SameKey(V[i].piece, R[k])
  BY DEF Told, Backed, LiveRow
<1>2. SameKey(V[j].piece, R[k])
  BY <1>1 DEF SameKey
<1>3. k \in Nat
  BY PieceFacts
<1>4. ~(k < k)
  BY <1>3
<1>5. ~(i < j) /\ ~(j < i)
  BY <1>1, <1>2, <1>4 DEF Told, InOrder
<1> QED BY <1>5

\* the newest result of the answered call in the chat view
LastResult(q, i, pos) ==
  /\ i \in DOMAIN q /\ q[i].kind = "result" /\ q[i].pos = pos
  /\ \A k \in DOMAIN q : k > i => q[k].kind # "result"
RewrittenAt(q, pos, val, i, z) ==
  /\ z = Rewrite(q, pos, val) /\ Newest(q, pos) = {i} /\ z \in Seq(Pieces)
  /\ Reworded(q, z, i, val) /\ Len(z) = Len(q) /\ z[i].kind = "result"

LEMMA NewestShown ==
  ASSUME NEW q \in Seq(Pieces), NEW i, NEW pos, NEW val \in Vals, LastResult(q, i, pos)
  PROVE  RewrittenAt(q, pos, val, i, Rewrite(q, pos, val))
<1> i \in DOMAIN q /\ q[i].kind = "result" /\ q[i].pos = pos
  BY DEF LastResult
<1> DEFINE z == Rewrite(q, pos, val)
<1>1. DOMAIN q = 1..Len(q) /\ Len(q) \in Nat /\ i \in Nat
  OBVIOUS
<1>2. Newest(q, pos) = {i}
  BY <1>1 DEF Newest, LastResult
<1>3. z = [k \in DOMAIN q |-> IF k = i THEN [q[k] EXCEPT !.val = val] ELSE q[k]]
  BY <1>2 DEF Rewrite
<1> HIDE DEF z
<1>4. /\ [q[i] EXCEPT !.val = val] \in Pieces /\ q[i] \in Pieces
  <2>1. q[i] \in Pieces /\ val \in Vals
    OBVIOUS
  <2> QED BY <2>1 DEF Pieces
<1>5. z \in Seq(Pieces) /\ Len(z) = Len(q) /\ DOMAIN z = DOMAIN q
  <2>1. z \in [1..Len(q) -> Pieces]
    <3>1. \A k \in DOMAIN q : q[k] \in Pieces
      OBVIOUS
    <3> QED BY <1>1, <1>3, <1>4, <3>1
  <2> QED BY <1>1, <2>1, SeqOfLength
<1>6. z[i].kind = q[i].kind /\ z[i].step = q[i].step /\ z[i].pos = q[i].pos /\ z[i].sess = q[i].sess
      /\ z[i].val = val
  <2>1. z[i] = [q[i] EXCEPT !.val = val]
    BY <1>3
  <2> QED BY <1>4, <2>1 DEF Pieces
<1>7. \A k \in DOMAIN q : k # i => z[k] = q[k]
  BY <1>3
<1>8. Reworded(q, z, i, val)
  BY <1>5, <1>6, <1>7 DEF Reworded, SameKey
<1>9. z = Rewrite(q, pos, val)
  BY DEF z
<1> QED BY <1>2, <1>5, <1>6, <1>8, <1>9 DEF RewrittenAt

\* the answer rewrites the result that is shown
LEMMA ToldRewritten ==
  ASSUME NEW q \in Seq(Pieces), NEW box \in Seq(MessageRec), box # <<>>,
         NEW s, NEW g, NEW c \in Seq(EventRec), NEW R \in Seq(Pieces), NEW w, NEW gone,
         Told(Line(q, box, s, g, c), R, s, w, g, gone),
         NEW m, m = Head(box), NEW p, p = m.piece, Fresh(m, s, g), m.what = "replace"
  PROVE  /\ Newest(q, p.pos) # {} /\ p.val = "answered"
         /\ Rewrite(q, p.pos, p.val) \in Seq(Pieces)
         /\ Told(Line(Rewrite(q, p.pos, p.val), Tail(box), s, g, c), R, s, w, g, gone)
<1> DEFINE V == Line(q, box, s, g, c)
           n == Len(q)
           l == n + 1
<1>1. /\ V[l] = EventOf(m, s, g) /\ n \in Nat /\ l \in Nat
      /\ \A i \in 1..n : V[i] = Event("row", q[i], IsRow(q[i]))
      /\ \E r : Rests(V, l, Line(q, Tail(box), s, g, c), n, r)
  BY LineHandled
<1>2. DOMAIN q = 1..n
  OBVIOUS
<1> HIDE DEF V, n
<1>a. \A i \in 1..n : V[i].what = "row" /\ V[i].piece = q[i] /\ V[i].live = IsRow(q[i])
  BY <1>1, IsScreened DEF Screened
<1>3. /\ \A i \in 1..n : i \in DOMAIN V
      /\ l \in DOMAIN V /\ \A i \in DOMAIN V : i \in Nat
  <2>1. PICK r : Rests(V, l, Line(q, Tail(box), s, g, c), n, r)
    BY <1>1
  <2>2. DOMAIN V = 1..(l + r) /\ r \in Nat
    BY <2>1 DEF Rests
  <2> QED BY <1>1, <2>2
<1>4. Told(V, R, s, w, g, gone)
  BY DEF V
<1>5. V[l].what = "replace" /\ V[l].piece = p /\ V[l].live /\ LiveAnswer(V, l)
  BY <1>1 DEF EventOf, Event, LiveAnswer
<1> HIDE DEF l
<1>6. p.kind = "result" /\ p.val = "answered"
  BY <1>3, <1>4, <1>5 DEF Told, AnswersTold
<1>7. PICK i \in DOMAIN V :
        /\ i < l /\ LiveRow(V, i) /\ SameKey(V[i].piece, p)
        /\ \A k \in DOMAIN V : i < k /\ k < l /\ LiveRow(V, k) => V[k].piece.kind # "result"
  BY <1>3, <1>4, <1>5 DEF Told, AnswersTold
<1>8. i \in 1..n /\ i \in DOMAIN q /\ i \in Nat
  <2>1. i \in DOMAIN V /\ i < l
    BY <1>7
  <2>2. DOMAIN V \subseteq Nat \ {0}
    <3>1. PICK r : Rests(V, l, Line(q, Tail(box), s, g, c), n, r)
      BY <1>1
    <3>2. DOMAIN V = 1..(l + r) /\ r \in Nat
      BY <3>1 DEF Rests
    <3> QED BY <1>1, <3>2
  <2> QED BY <1>1, <1>2, <2>1, <2>2 DEF l
<1>9. V[i].piece = q[i] /\ (V[i].live <=> IsRow(q[i])) /\ V[i].what = "row"
  BY <1>a, <1>8
<1>10. q[i].kind = "result" /\ q[i].pos = p.pos
  BY <1>6, <1>7, <1>9 DEF SameKey
<1>11. ASSUME NEW k \in DOMAIN q, k > i  PROVE q[k].kind # "result"
  <2> SUFFICES ASSUME q[k].kind = "result"  PROVE FALSE
    OBVIOUS
  <2>1. V[k].what = "row" /\ V[k].piece = q[k] /\ V[k].live = IsRow(q[k]) /\ k \in DOMAIN V
    BY <1>a, <1>2, <1>3
  <2>2. LiveRow(V, k) /\ V[k].piece.kind = "result"
    BY <2>1 DEF LiveRow, IsRow
  <2>3. i < k /\ k < l
    BY <1>1, <1>2, <1>8, <1>11 DEF l
  <2> QED BY <1>7, <2>1, <2>2, <2>3
<1> DEFINE z == Rewrite(q, p.pos, p.val)
<1>12. /\ Newest(q, p.pos) = {i} /\ z \in Seq(Pieces) /\ Reworded(q, z, i, "answered") /\ Len(z) = n
       /\ z[i].kind = "result"
  <2>1. p.val \in Vals
    BY <1>6 DEF Vals
  <2>2. LastResult(q, i, p.pos)
    BY <1>8, <1>10, <1>11 DEF LastResult
  <2>3. RewrittenAt(q, p.pos, p.val, i, z)
    BY <2>1, <2>2, NewestShown
  <2> HIDE DEF z
  <2> QED BY <1>6, <2>3 DEF RewrittenAt, n
<1> HIDE DEF z
<1> DEFINE U == Line(z, Tail(box), s, g, c)
           W == [k \in DOMAIN V |-> IF k = i THEN RowEvent(z[i], V[i].live) ELSE V[k]]
<1>13. /\ DOMAIN W = DOMAIN V /\ W[i] = RowEvent(z[i], V[i].live)
       /\ \A k \in DOMAIN V : k # i => W[k] = V[k]
  BY <1>7
<1> HIDE DEF W
<1>14. RewordedAt(V, W, i, "answered")
  <2>1. /\ W[i].live = V[i].live /\ W[i].what = "row" /\ W[i].piece = z[i]
    BY <1>13, IsRowEvent
  <2>2. SameKey(z[i], q[i]) /\ z[i].sess = q[i].sess /\ z[i].val = "answered"
    BY <1>8, <1>12 DEF Reworded
  <2>4. /\ W[i].what = V[i].what /\ SameKey(W[i].piece, V[i].piece) /\ W[i].piece.sess = V[i].piece.sess
        /\ W[i].piece.val = "answered"
    BY <1>9, <2>1, <2>2
  <2>5. \A j \in DOMAIN V : j # i => /\ W[j] = V[j] /\ W[j].live = V[j].live /\ W[j].what = V[j].what
                                     /\ SameKey(W[j].piece, V[j].piece) /\ W[j].piece.sess = V[j].piece.sess
    BY <1>13 DEF SameKey
  <2> QED BY <1>7, <1>13, <2>1, <2>4, <2>5 DEF RewordedAt
<1>15. Told(W, R, s, w, g, gone)
  BY <1>3, <1>4, <1>5, <1>7, <1>14, ToldReplaced
<1>16. Spent(W, l)
  <2>1. W[l] = V[l]
    BY <1>3, <1>7, <1>8, <1>13, <1>1 DEF l
  <2> SUFFICES ASSUME NEW k \in DOMAIN V, LiveRow(W, k), SameKey(W[k].piece, p)
               PROVE  W[k].piece.val = p.val
    BY <1>5, <1>13, <2>1 DEF Spent, LiveAnswer
  <2>2. CASE k = i
    <3>1. W[i].piece = z[i] /\ z[i].val = "answered"
      BY <1>8, <1>12, <1>13, IsRowEvent DEF Reworded
    <3> QED BY <1>6, <2>2, <3>1
  <2>3. CASE k # i
    <3>1. LiveRow(V, k) /\ SameKey(V[k].piece, V[i].piece)
      BY <1>7, <1>13, <2>3 DEF LiveRow, SameKey
    <3>2. k = i
      BY <1>3, <1>4, <1>7, <1>8, <3>1, ToldOnce
    <3> QED BY <2>3, <3>2
  <2> QED BY <2>2, <2>3
<1>17. /\ \E r : Rests(V, n + 1, U, Len(z), r)
       /\ \A k \in 1..Len(z) : U[k] = Event("row", z[k], IsRow(z[k]))
  BY <1>12, LineHandled DEF V, n
<1>18. PICK r : Rests(V, n + 1, U, n, r)
  BY <1>12, <1>17
<1> HIDE DEF U
<1>19. n \in Nat /\ r \in Nat /\ DOMAIN V = 1..(n + 1 + r) /\ DOMAIN U = 1..(n + r)
  BY <1>1, <1>18, Zenon DEF Rests
<1>20. \A k \in 1..n : U[k] = W[k]
  <2> SUFFICES ASSUME NEW k \in 1..n  PROVE U[k] = W[k]
    OBVIOUS
  <2>1. U[k] = Event("row", z[k], IsRow(z[k]))
    BY <1>12, <1>17
  <2>2. CASE k = i
    <3>1. V[i].live = IsRow(q[i])
      BY <1>a, <1>8
    <3>2. IsRow(q[i]) = IsRow(z[i])
      BY <1>10, <1>12 DEF IsRow
    <3>3. RowEvent(z[i], V[i].live) = Event("row", z[i], IsRow(z[i]))
      BY <3>1, <3>2 DEF RowEvent
    <3> QED BY <1>13, <2>1, <2>2, <3>3
  <2>3. CASE k # i
    <3>1. z[k] = q[k]
      BY <1>2, <1>12, <2>3 DEF Reworded
    <3>2. V[k] = Event("row", q[k], IsRow(q[k])) /\ k \in DOMAIN V
      BY <1>1, <1>3
    <3> QED BY <1>13, <2>1, <2>3, <3>1, <3>2
  <2> QED BY <2>2, <2>3
<1>21. Skips(U, W, n)
  <2>3. \A j \in 1..r : U[n + j] = V[n + 1 + j]
    BY <1>18 DEF Rests
  <2>4. ASSUME NEW k \in DOMAIN U
        PROVE  k \in Nat /\ (IF k <= n THEN k \in DOMAIN W /\ W[k] = U[k]
                             ELSE k + 1 \in DOMAIN W /\ W[k + 1] = U[k])
    <3>1. CASE k <= n
      <4>1. k \in 1..n /\ k \in DOMAIN V /\ k \in Nat
        BY <1>19, <3>1
      <4> QED BY <1>13, <1>20, <3>1, <4>1
    <3>2. CASE ~(k <= n)
      <4>1. k - n \in 1..r /\ n + (k - n) = k /\ n + 1 + (k - n) = k + 1 /\ k \in Nat /\ k + 1 \in DOMAIN V
        BY <1>19, <3>2
      <4>2. U[k] = V[k + 1]
        BY <2>3, <4>1
      <4>3. k + 1 # i
        BY <1>8, <1>19, <3>2, <4>1
      <4> QED BY <1>13, <3>2, <4>1, <4>2, <4>3
    <3> QED BY <3>1, <3>2
  <2>5. ASSUME NEW j \in DOMAIN W
        PROVE  \/ j = n + 1
               \/ j <= n /\ j \in DOMAIN U
               \/ \E k \in DOMAIN U : ~(k <= n) /\ k + 1 = j
    <3>0. j \in 1..(n + 1 + r)
      BY <1>13, <1>19
    <3>1. CASE j <= n
      BY <1>19, <3>0, <3>1
    <3>2. CASE j > n + 1
      <4>1. j - 1 \in DOMAIN U /\ ~(j - 1 <= n) /\ (j - 1) + 1 = j
        BY <1>19, <3>0, <3>2
      <4> QED BY <4>1
    <3> QED BY <1>19, <3>0, <3>1, <3>2
  <2> QED BY <2>4, <2>5 DEF Skips
<1>22. Told(U, R, s, w, g, gone)
  <2>1. Spent(W, n + 1)
    BY <1>16 DEF l
  <2> QED BY <1>15, <1>19, <1>21, <2>1, ToldSkipping
<1> QED BY <1>6, <1>12, <1>22 DEF U, z

LEMMA MailRest ==
  ASSUME NEW box \in Seq(MessageRec), box # <<>>, NEW gens,
         \A i \in DOMAIN box : MessageOK(box[i], gens)
  PROVE  /\ MessageOK(Head(box), gens)
         /\ \A i \in DOMAIN Tail(box) : MessageOK(Tail(box)[i], gens)
<1>1. Head(box) = box[1] /\ 1 \in DOMAIN box /\ DOMAIN Tail(box) = 1..Len(Tail(box))
      /\ \A i \in 1..Len(Tail(box)) : Tail(box)[i] = box[i + 1] /\ i + 1 \in DOMAIN box
  BY BoxTail
<1>2. MessageOK(Head(box), gens)
  BY <1>1
<1>3. \A i \in DOMAIN Tail(box) : MessageOK(Tail(box)[i], gens)
  BY <1>1
<1> QED BY <1>2, <1>3

\* the view after the window took a message
Viewed(q, m, g, z) ==
  \/ z = q /\ ~Fresh(m, window.sess, g)
  \/ /\ z = Append(q, m.piece)
     /\ IF Fresh(m, window.sess, g) THEN m.what = "row" ELSE ~IsRow(m.piece)
  \/ /\ Fresh(m, window.sess, g) /\ m.what = "replace"
     /\ z = IF Newest(q, m.piece.pos) # {} THEN Rewrite(q, m.piece.pos, m.piece.val)
            ELSE Append(q, m.piece)

LEMMA Handled ==
  ASSUME ViewInv, NEW m \in MessageRec, MessageOK(m, rowGen),
         HandleRow(m) \/ HandleReplace(m) \/ HandleStep(m) \/ HandleDelta(m)
  PROVE  /\ Viewed(shown, m, window.gen, shown')
         /\ window'.sess = window.sess /\ window'.gen = window.gen /\ window'.loading = window.loading
<1>0. window \in WindowRec /\ window.gen \in Nat /\ m.gen \in Nat
  BY DEF ViewInv, TypesInv, ViewTypes, WindowRec, MessageRec
<1>1. CASE HandleRow(m) \/ HandleReplace(m)
  <2>1. m.what \in {"row", "replace"} /\ window' = window
    BY <1>1 DEF HandleRow, HandleReplace
  <2>2. m.gen > 0
    <3>1. m.gen \in 1..rowGen[m.piece.sess]
      BY <2>1 DEF MessageOK
    <3>2. \A n : m.gen \in 1..n => m.gen > 0
      BY <1>0
    <3> QED BY <3>1, <3>2
  <2>3. Fresh(m, window.sess, window.gen) <=> ~(FromOtherSession(m) \/ RowAlreadyLoaded(m))
    BY <1>0, <2>1, <2>2 DEF Fresh, FromOtherSession, RowAlreadyLoaded
  <2>4. Viewed(shown, m, window.gen, shown')
    BY <1>1, <2>3 DEF HandleRow, HandleReplace, Viewed
  <2> QED BY <2>1, <2>4
<1>2. CASE HandleStep(m)
  <2>1. ~Fresh(m, window.sess, window.gen) /\ shown' = shown
    BY <1>2 DEF HandleStep, Fresh
  <2>2. \/ window' = window
        \/ window' = [window EXCEPT !.step = m.piece.step, !.floor = 0]
    BY <1>2 DEF HandleStep
  <2>3. window'.sess = window.sess /\ window'.gen = window.gen /\ window'.loading = window.loading
    BY <1>0, <2>2 DEF WindowRec
  <2> QED BY <2>1, <2>3 DEF Viewed
<1>3. CASE HandleDelta(m)
  <2>1. ~Fresh(m, window.sess, window.gen) /\ window' = window
    BY <1>3 DEF HandleDelta, Fresh
  <2>2. ~IsRow(m.piece)
    BY <1>3 DEF HandleDelta, MessageOK, IsRow
  <2>3. shown' = shown \/ shown' = Append(shown, m.piece)
    BY <1>3 DEF HandleDelta
  <2> QED BY <2>1, <2>2, <2>3 DEF Viewed
<1> QED BY <1>1, <1>2, <1>3

\* the window takes a message
LEMMA HandleTellInv == ASSUME ViewInv, ViewInv', TellInv, Handle PROVE TellInv'
<1> DEFINE r == window.sess
           g == window.gen
           w == worker[r]
           c == Coming(r, w, g)
           m == Head(mailbox)
           R == rows[r]
<1>1. /\ r \in Sessions /\ g \in Nat /\ mailbox \in Seq(MessageRec) /\ shown \in Seq(Pieces)
      /\ R \in Seq(Pieces) /\ w \in WorkerRec /\ PlaceOK(r, w, rowGen[r], inFlight[r])
  <2>1. r \in Sessions
    BY Current DEF ViewInv, TypesInv, ViewTypes, WindowRec
  <2> QED BY <2>1, Current DEF ViewInv, TypesInv, ViewTypes, WindowRec
<1>2. c \in Seq(EventRec)
  BY <1>1, ComingFacts
<1>3. /\ ~window.loading /\ mailbox # <<>> /\ mailbox' = Tail(mailbox)
      /\ UNCHANGED <<engine, relay, loads, clean>>
      /\ HandleRow(m) \/ HandleReplace(m) \/ HandleStep(m) \/ HandleDelta(m)
  BY DEF Handle
<1>4. m \in MessageRec
  BY <1>1, <1>3, BoxTail
<1>5. MessageOK(m, rowGen) /\ \A i \in DOMAIN Tail(mailbox) : MessageOK(Tail(mailbox)[i], rowGen)
  BY <1>1, <1>3, MailRest DEF TellInv, MailOK
<1>6. /\ Viewed(shown, m, g, shown')
      /\ window'.sess = r /\ window'.gen = g /\ window'.loading = window.loading
  BY <1>3, <1>4, <1>5, Handled
<1>7. Told(Line(shown, mailbox, r, g, c), R, r, w, g, cut) /\ g <= rowGen[r]
  BY <1>3 DEF TellInv, Now, Telling
<1> HIDE DEF c, R, w, r, g, m
<1>8. Told(Line(shown', Tail(mailbox), r, g, c), R, r, w, g, cut)
  <2>1. CASE shown' = shown /\ ~Fresh(m, r, g)
    <3>1. Told(Line(shown, Tail(mailbox), r, g, c), R, r, w, g, cut)
      BY <1>1, <1>2, <1>3, <1>7, <2>1, ToldDropped DEF m
    <3> QED BY <2>1, <3>1
  <2>2. CASE /\ shown' = Append(shown, m.piece)
             /\ IF Fresh(m, r, g) THEN m.what = "row" ELSE ~IsRow(m.piece)
    <3>1. Told(Line(Append(shown, m.piece), Tail(mailbox), r, g, c), R, r, w, g, cut)
      BY <1>1, <1>2, <1>3, <1>7, <2>2, ToldShown DEF m
    <3> QED BY <2>2, <3>1
  <2>3. CASE /\ Fresh(m, r, g) /\ m.what = "replace"
             /\ shown' = IF Newest(shown, m.piece.pos) # {}
                         THEN Rewrite(shown, m.piece.pos, m.piece.val)
                         ELSE Append(shown, m.piece)
    <3> DEFINE p == m.piece
    <3>1. m = Head(mailbox) /\ p = m.piece
      BY DEF m
    <3> HIDE DEF p
    <3>2. /\ Newest(shown, p.pos) # {} /\ p.val = "answered"
          /\ Rewrite(shown, p.pos, p.val) \in Seq(Pieces)
          /\ Told(Line(Rewrite(shown, p.pos, p.val), Tail(mailbox), r, g, c), R, r, w, g, cut)
      BY <1>1, <1>2, <1>3, <1>7, <2>3, <3>1, ToldRewritten
    <3>3. shown' = Rewrite(shown, p.pos, p.val)
      BY <2>3, <3>2 DEF p
    <3> QED BY <3>2, <3>3
  <2> QED BY <1>6, <2>1, <2>2, <2>3, Zenon DEF Viewed, r
<1>9. /\ rows' = rows /\ rowGen' = rowGen /\ worker' = worker /\ cut' = cut
  BY <1>3 DEF engine
<1>10. MailOK'
  BY <1>3, <1>5, <1>9 DEF MailOK
<1>11. \A s \in Sessions : RowsOK(s, rows'[s], worker'[s]) /\ GensOK(worker'[s])
  BY <1>9 DEF TellInv
<1>12. window'.gen <= rowGen'[window'.sess]
  BY <1>6, <1>7, <1>9
<1>13. Now' = Line(shown', Tail(mailbox), r, g, c)
  BY <1>3, <1>6, <1>9 DEF Now, Telling, c, w
<1>14. Told(Now', rows'[window'.sess], window'.sess, worker'[window'.sess], window'.gen, cut')
  BY <1>6, <1>8, <1>9, <1>13 DEF R, w
<1> QED BY <1>3, <1>6, <1>10, <1>11, <1>12, <1>14 DEF TellInv

\* another session is chosen: its transcript is to be loaded
LEMMA SelectTellInv ==
  ASSUME ViewInv, ViewInv', TellInv, NEW s \in Sessions, Select(s)  PROVE TellInv'
<1>1. /\ window' = [window EXCEPT !.sess = s, !.loading = TRUE] /\ shown' = <<>>
      /\ UNCHANGED <<engine, mailbox>>
  BY DEF Select
<1>2. window'.loading
  BY <1>1 DEF ViewInv, TypesInv, ViewTypes, WindowRec
<1>3. rows' = rows /\ rowGen' = rowGen /\ worker' = worker /\ mailbox' = mailbox
  BY <1>1 DEF engine
<1>4. \A r \in Sessions : RowsOK(r, rows'[r], worker'[r]) /\ GensOK(worker'[r])
  BY <1>3 DEF TellInv
<1>5. MailOK'
  BY <1>3 DEF TellInv, MailOK
<1> QED BY <1>1, <1>2, <1>4, <1>5 DEF TellInv

\* what /retry leaves of the rows
LEMMA RowsTruncated ==
  ASSUME NEW s, NEW q \in Seq(Pieces), NEW w, NEW x, RowsOK(s, q, w),
         ~Batching(x), ~Streaming(x), x.step = w.step, x.prompts = w.prompts, Prompts(q) # {}
  PROVE  RowsOK(s, ThroughLastPrompt(q), x)
<1>1. Len(q) \in Nat /\ DOMAIN q = 1..Len(q) /\ Prompts(q) \subseteq 1..Len(q)
  BY DEF Prompts
<1>2. \E i \in Prompts(q) : \A j \in Prompts(q) : j <= i
  BY <1>1, Greatest
<1> DEFINE m == CHOOSE i \in Prompts(q) : \A j \in Prompts(q) : j <= i
           z == ThroughLastPrompt(q)
<1>3. m \in Prompts(q)
  BY <1>2
<1>4. m \in 1..Len(q)
  BY <1>1, <1>3
<1>5. z = SubSeq(q, 1, m)
  BY DEF ThroughLastPrompt
<1> HIDE DEF m, z
<1>6. \A i \in DOMAIN z : i \in DOMAIN q /\ z[i] = q[i]
  BY <1>1, <1>4, <1>5
<1>7. \A i \in DOMAIN z : /\ z[i].sess = s
                          /\ IF z[i].kind = "prompt" THEN z[i].pos <= x.prompts ELSE z[i].step <= x.step
  BY <1>6 DEF RowsOK
<1>8. \A i, j \in DOMAIN z : i < j => ~SameKey(z[i], z[j]) /\ RowOrder(z[i], z[j])
  BY <1>6 DEF RowsOK
<1> QED BY <1>7, <1>8 DEF RowsOK, z

LEMMA RetryTellInv == ASSUME ViewInv, ViewInv', TellInv, Retry PROVE TellInv'
<1> DEFINE s == window.sess
           w == worker[s]
           q == rows[s]
           x == [w EXCEPT !.pc = "loop"]
           z == ThroughLastPrompt(q)
<1>1. /\ window \in WindowRec /\ s \in Sessions /\ rows \in [Sessions -> Seq(Pieces)]
      /\ worker \in [Sessions -> WorkerRec]
  BY DEF ViewInv, TypesInv, ViewTypes, WindowRec
<1>2. /\ w.pc = "idle" /\ Prompts(q) # {} /\ rows' = [rows EXCEPT ![s] = z]
      /\ worker' = [worker EXCEPT ![s] = x]
      /\ window' = [window EXCEPT !.loading = TRUE] /\ shown' = <<>>
      /\ mailbox' = mailbox /\ rowGen' = rowGen
  BY <1>1 DEF Retry, At, Goto, Work
<1>3. window'.loading
  BY <1>1, <1>2 DEF WindowRec
<1>4. MailOK'
  BY <1>2 DEF TellInv, MailOK
<1>5. w \in WorkerRec /\ q \in Seq(Pieces) /\ RowsOK(s, q, w) /\ GensOK(w)
  BY <1>1 DEF TellInv
<1>6. /\ x.pc = "loop" /\ x.prompts = w.prompts /\ x.step = w.step
      /\ x.gen = w.gen /\ x.callGen = w.callGen
  BY <1>5, Changed
<1>a. /\ rows'[s] = z /\ worker'[s] = x
      /\ \A r \in Sessions : r # s => rows'[r] = rows[r] /\ worker'[r] = worker[r]
  BY <1>1, <1>2
<1> HIDE DEF s, w, q, x, z
<1>7. ~Batching(x) /\ ~Streaming(x)
  BY <1>6 DEF Batching, Streaming
<1>8. RowsOK(s, z, x)
  BY <1>2, <1>5, <1>6, <1>7, RowsTruncated DEF z
<1>9. GensOK(x)
  BY <1>6, <1>7 DEF GensOK
<1>10. \A r \in Sessions : RowsOK(r, rows'[r], worker'[r]) /\ GensOK(worker'[r])
  BY <1>8, <1>9, <1>a DEF TellInv
<1> QED BY <1>2, <1>3, <1>4, <1>10 DEF TellInv

LEMMA BytesMade ==
  ASSUME NEW s \in Sessions, NEW step \in 0..MaxSteps, NEW len \in 0..MaxBytes
  PROVE  /\ Bytes(s, step, len) \in Seq(Pieces) /\ Len(Bytes(s, step, len)) = len
         /\ DOMAIN Bytes(s, step, len) = 1..len /\ len \in Nat
         /\ \A i \in 1..len : ~IsRow(Bytes(s, step, len)[i])
<1> DEFINE b == Bytes(s, step, len)
<1>1. len \in Nat /\ \A i \in 1..len : i - 1 \in 0..MaxBytes
  BY Bounds
<1>2. \A i \in 1..len : b[i] = Byte(s, step, i - 1)
  BY DEF Bytes
<1>3. b \in [1..len -> {b[i] : i \in 1..len}]
  BY DEF Bytes
<1> HIDE DEF b
<1>4. ASSUME NEW p \in 0..MaxBytes  PROVE Byte(s, step, p) \in Pieces /\ Byte(s, step, p).kind = "byte"
  <2>1. p \in Positions
    BY InPositions
  <2>2. "byte" \in Kinds /\ "" \in Vals
    BY DEF Kinds, Vals
  <2>3. /\ Piece(s, "byte", step, p, "") \in Pieces
    BY <2>1, <2>2, PieceMade
  <2> QED BY <2>3, IsByteOf DEF Byte
<1>5. \A i \in 1..len : b[i] \in Pieces /\ b[i].kind = "byte"
  BY <1>1, <1>2, <1>4
<1>6. b \in [1..len -> Pieces]
  BY <1>3, <1>5
<1>7. b \in Seq(Pieces) /\ Len(b) = len /\ DOMAIN b = 1..len
  BY <1>1, <1>6, SeqOfLength
<1>8. \A i \in 1..len : ~IsRow(b[i])
  BY <1>5 DEF IsRow
<1> QED BY <1>1, <1>7, <1>8 DEF b

\* nothing that was announced is newer than the rows
LEMMA NoneFresh ==
  ASSUME NEW m \in MessageRec, NEW s \in Sessions, NEW gens \in [Sessions -> Nat], MessageOK(m, gens)
  PROVE  ~Fresh(m, s, gens[s])
<1> SUFFICES ASSUME Fresh(m, s, gens[s])  PROVE FALSE
  OBVIOUS
<1>1. m.gen \in 1..gens[s] /\ m.gen > gens[s]
  BY DEF Fresh, MessageOK
<1>2. gens[s] \in Nat
  OBVIOUS
<1> QED BY <1>1, <1>2

\* what is coming is not newer than the rows
LEMMA NoneComing ==
  ASSUME NEW s \in Sessions, NEW w \in WorkerRec, NEW g \in Nat, w.gen <= g, w.callGen <= g,
         NEW i, i \in DOMAIN Coming(s, w, g)
  PROVE  ~Coming(s, w, g)[i].live
<1>1. w.gen \in Nat /\ w.callGen \in Nat
  BY WorkerFacts
<1>2. ~(w.gen > g) /\ ~(w.callGen > g)
  BY <1>1
<1>3. (w.gen > g) = FALSE /\ (w.callGen > g) = FALSE
  BY <1>2, <1>1
<1> DEFINE None(c) == \A k \in DOMAIN c : ~c[k].live
<1>4. ASSUME NEW what, NEW piece  PROVE None(<<Event(what, piece, FALSE)>>)
  BY DEF Event
<1>5. None(<<>>)
  OBVIOUS
<1> HIDE DEF None
<1>6. None(Coming(s, w, g))
  <2>1. CASE w.pc = "prompted"
    BY <2>1, <1>3, <1>4 DEF Coming
  <2>2. CASE w.pc = "call"
    BY <2>2, <1>3, <1>4 DEF Coming
  <2>3. CASE w.pc = "result"
    BY <2>3, <1>3, <1>4 DEF Coming
  <2>4. CASE w.pc = "answered"
    BY <2>4, <1>3, <1>4 DEF Coming
  <2>5. CASE w.pc = "announce"
    BY <2>5, <1>4 DEF Coming
  <2>6. CASE w.pc = "delta"
    BY <2>6, <1>4 DEF Coming
  <2>7. CASE w.pc \notin {"prompted", "call", "result", "answered", "announce", "delta"}
    BY <2>7, <1>5 DEF Coming
  <2> QED BY <2>1, <2>2, <2>3, <2>4, <2>5, <2>6, <2>7
<1> QED BY <1>6 DEF None

LEMMA ToldLoaded ==
  ASSUME NEW R \in Seq(Pieces), NEW B \in Seq(Pieces), NEW box \in Seq(MessageRec), NEW s, NEW g,
         NEW c \in Seq(EventRec), NEW w, NEW gone,
         Unique(R), ~(w.callGen > g), \A i \in DOMAIN B : ~IsRow(B[i]),
         \A i \in DOMAIN box : ~Fresh(box[i], s, g), \A i \in DOMAIN c : ~c[i].live
  PROVE  Told(Line(R \o B, box, s, g, c), R, s, w, g, gone)
<1> DEFINE q == R \o B
           V == Line(q, box, s, g, c)
<1>1. /\ q \in Seq(Pieces) /\ Len(q) = Len(R) + Len(B) /\ Len(R) \in Nat /\ Len(B) \in Nat
      /\ DOMAIN R = 1..Len(R) /\ DOMAIN B = 1..Len(B)
      /\ \A i \in DOMAIN R : q[i] = R[i]
      /\ \A i \in (Len(R) + 1)..(Len(R) + Len(B)) : q[i] = B[i - Len(R)]
  BY Extended
<1> HIDE DEF q
<1>2. IsLine(V, q, box, s, g, c)
  BY <1>1, LineFacts
<1> HIDE DEF V
<1>3. /\ \A i \in 1..Len(q) : V[i] = Event("row", q[i], IsRow(q[i])) /\ i \in DOMAIN V
      /\ \A i \in DOMAIN V : \/ i \in 1..Len(q)
                             \/ i - Len(q) \in 1..Len(box) /\ V[i] = EventOf(box[i - Len(q)], s, g)
                             \/ /\ i - Len(q) - Len(box) \in 1..Len(c)
                                /\ V[i] = c[i - Len(q) - Len(box)]
  BY <1>2 DEF IsLine
<1>4. \A i \in 1..Len(q) : V[i].what = "row" /\ V[i].piece = q[i] /\ V[i].live = IsRow(q[i])
  BY <1>3, IsScreened DEF Screened
<1>5. ASSUME NEW k \in DOMAIN R
      PROVE  /\ k \in DOMAIN V /\ V[k].what = "row" /\ V[k].piece = R[k]
             /\ V[k].live <=> IsRow(R[k])
  <2>1. k \in 1..Len(q) /\ q[k] = R[k]
    BY <1>1
  <2> QED BY <1>3, <1>4, <2>1
<1>6. ASSUME NEW m, ~Fresh(m, s, g)  PROVE ~EventOf(m, s, g).live
  BY <1>6 DEF EventOf, Event
<1>7. ASSUME NEW i \in DOMAIN V, V[i].live  PROVE i \in DOMAIN R
  <2>1. CASE i \in 1..Len(q)
    <3>1. IsRow(q[i])
      BY <1>4, <1>7, <2>1
    <3>2. CASE i \in DOMAIN R
      BY <3>2
    <3>3. CASE i \notin DOMAIN R
      <4>1. i \in (Len(R) + 1)..(Len(R) + Len(B)) /\ i - Len(R) \in DOMAIN B
        BY <1>1, <2>1, <3>3
      <4> QED BY <1>1, <3>1, <4>1
    <3> QED BY <3>2, <3>3
  <2>2. CASE i - Len(q) \in 1..Len(box) /\ V[i] = EventOf(box[i - Len(q)], s, g)
    <3>1. i - Len(q) \in DOMAIN box
      BY <2>2
    <3>2. ~Fresh(box[i - Len(q)], s, g)
      BY <3>1
    <3> QED BY <1>6, <1>7, <2>2, <3>2
  <2>3. CASE i - Len(q) - Len(box) \in 1..Len(c) /\ V[i] = c[i - Len(q) - Len(box)]
    <3>1. i - Len(q) - Len(box) \in DOMAIN c
      BY <2>3
    <3> QED BY <1>7, <2>3, <3>1
  <2> QED BY <1>3, <2>1, <2>2, <2>3
<1>8. Told(V, R, s, w, g, gone)
  BY <1>5, <1>7, ToldLoad
<1> QED BY <1>8 DEF V, q

\* the rows, the text under way and the generation are loaded together
LEMMA LoadTellInv == ASSUME ViewInv, ViewInv', TellInv, LoadHistory PROVE TellInv'
<1> DEFINE s == window.sess
           w == worker[s]
           f == inFlight[s]
           R == rows[s]
           g == rowGen[s]
           c == Coming(s, w, g)
           B == Bytes(s, f.step, f.len)
<1>1. /\ window \in WindowRec /\ s \in Sessions /\ mailbox \in Seq(MessageRec)
      /\ rowGen \in [Sessions -> Nat]
  BY DEF ViewInv, TypesInv, ViewTypes, WindowRec
<1>2. /\ R \in Seq(Pieces) /\ w \in WorkerRec /\ g \in Nat /\ f \in StreamRec
      /\ PlaceOK(s, w, g, f)
  BY <1>1, Current
<1>3. /\ shown' = R \o B
      /\ window' = [window EXCEPT !.step = f.step, !.floor = f.len, !.gen = g, !.loading = FALSE]
      /\ UNCHANGED <<engine, relay, mailbox, loads>>
  BY DEF LoadHistory
<1>4. window'.sess = s /\ window'.gen = g /\ ~window'.loading
  BY <1>1, <1>3 DEF WindowRec
<1>5. RowsOK(s, R, w) /\ \A i \in DOMAIN mailbox : MessageOK(mailbox[i], rowGen)
  BY <1>1 DEF TellInv, MailOK
<1>6. rows' = rows /\ rowGen' = rowGen /\ worker' = worker /\ cut' = cut /\ mailbox' = mailbox
  BY <1>3 DEF engine
<1>7. Now' = Line(R \o B, mailbox, s, g, c)
  BY <1>3, <1>4, <1>6 DEF Now, Telling
<1>8. f.step \in 0..MaxSteps /\ f.len \in 0..MaxBytes
  BY <1>2 DEF StreamRec
<1>9. B \in Seq(Pieces) /\ \A i \in DOMAIN B : ~IsRow(B[i])
  BY <1>1, <1>8, BytesMade
<1> HIDE DEF B, c, R, w, f
<1>10. \A i \in DOMAIN mailbox : ~Fresh(mailbox[i], s, g)
  BY <1>1, <1>5, NoneFresh
<1>11. w.gen <= g /\ w.callGen <= g /\ ~(w.callGen > g)
  <2>1. w.gen <= g /\ w.callGen <= g
    BY <1>2 DEF PlaceOK
  <2>2. w.callGen \in Nat
    BY <1>2, WorkerFacts
  <2> QED BY <1>2, <2>1, <2>2
<1>12. c \in Seq(EventRec) /\ \A i \in DOMAIN c : ~c[i].live
  BY <1>1, <1>2, <1>11, ComingFacts, NoneComing DEF c
<1>13. Unique(R)
  BY <1>2, <1>5, RowsUnique
<1> HIDE DEF s, g
<1>14. Told(Line(R \o B, mailbox, s, g, c), R, s, w, g, cut)
  BY <1>1, <1>2, <1>9, <1>10, <1>11, <1>12, <1>13, ToldLoaded
<1>15. Told(Now', rows'[window'.sess], window'.sess, worker'[window'.sess], window'.gen, cut')
  BY <1>4, <1>6, <1>7, <1>14 DEF R, w
<1>16. window'.gen <= rowGen'[window'.sess]
  BY <1>2, <1>4, <1>6 DEF g
<1>17. \A r \in Sessions : RowsOK(r, rows'[r], worker'[r]) /\ GensOK(worker'[r])
  BY <1>6 DEF TellInv
<1>18. MailOK'
  BY <1>6 DEF TellInv, MailOK
<1> QED BY <1>4, <1>15, <1>16, <1>17, <1>18 DEF TellInv

LEMMA TellInit == Init => TellInv
<1> SUFFICES ASSUME Init PROVE TellInv
  OBVIOUS
<1>1. ViewInv
  BY ViewInit
<1>2. /\ rows = [s \in Sessions |-> <<>>] /\ rowGen = [s \in Sessions |-> 0]
      /\ worker = [s \in Sessions |-> IdleWorker]
      /\ mailbox = <<>> /\ shown = <<>> /\ window.gen = 0 /\ window.sess \in Sessions
  BY DEF Init
<1> DEFINE x == IdleWorker
<1>3. x.pc = "idle" /\ x.gen = 0 /\ x.callGen = 0 /\ ~Batching(x)
  BY DEF IdleWorker, Batching
<1> HIDE DEF x
<1>4. RowsOK(window.sess, <<>>, x) /\ GensOK(x) /\ \A s \in Sessions : RowsOK(s, <<>>, x)
  BY <1>3 DEF RowsOK, GensOK
<1>5. \A s \in Sessions : RowsOK(s, rows[s], worker[s]) /\ GensOK(worker[s])
  BY <1>2, <1>4 DEF x
<1>6. MailOK
  BY <1>2 DEF MailOK
<1>7. Unique(<<>>)
  BY DEF Unique
<1>8. Coming(window.sess, x, 0) = <<>>
  BY <1>3 DEF Coming
<1>9. ~(x.callGen > 0)
  BY <1>3
<1> DEFINE e == <<>>
<1>10. /\ e \in Seq(Pieces) /\ e \in Seq(MessageRec) /\ e \in Seq(EventRec) /\ DOMAIN e = {} /\ e \o e = e
  OBVIOUS
<1> HIDE DEF e
<1>11. Told(Line(e \o e, e, window.sess, 0, e), e, window.sess, x, 0, cut)
  <2>1. Unique(e)
    BY <1>10 DEF Unique
  <2> QED BY <1>9, <1>10, <2>1, ToldLoaded
<1>12. Now = Line(e, e, window.sess, 0, e)
  BY <1>2, <1>8 DEF Now, Telling, e, x
<1>13. Told(Now, rows[window.sess], window.sess, worker[window.sess], window.gen, cut)
  BY <1>2, <1>10, <1>11, <1>12 DEF e, x
<1>14. window.gen <= rowGen[window.sess]
  BY <1>2
<1> QED BY <1>2, <1>5, <1>6, <1>13, <1>14 DEF TellInv

LEMMA TellStep == ViewInv /\ TellInv /\ [Next]_vars => TellInv'
<1> SUFFICES ASSUME ViewInv, TellInv, [Next]_vars PROVE TellInv'
  OBVIOUS
<1>0. ViewInv'
  BY ViewStep
<1>1. CASE UNCHANGED vars
  <2>1. /\ rows' = rows /\ rowGen' = rowGen /\ worker' = worker /\ cut' = cut /\ mailbox' = mailbox
        /\ window' = window /\ shown' = shown
    BY <1>1 DEF vars, engine, gui
  <2>2. Now' = Now
    BY <2>1 DEF Now
  <2>3. MailOK'
    BY <2>1 DEF TellInv, MailOK
  <2> QED BY <2>1, <2>2, <2>3 DEF TellInv
<1>2. CASE WindowStep
  BY <1>0, <1>2, HandleTellInv, LoadTellInv, RetryTellInv, SelectTellInv DEF WindowStep
<1>3. ASSUME NEW s \in Talking, WorkerStep(s) PROVE TellInv'
  <2>1. s \in Sessions
    BY Bounds
  <2>2. CASE StorePrompt(s)
    BY <1>0, <2>1, <2>2, StorePromptTellInv
  <2>3. CASE BeginStep(s) \/ EndTurn(s) \/ RetryRequest(s) \/ Delta(s) \/ FailStep(s)
    BY <1>0, <2>1, <2>3, QuietTellInv
  <2>4. CASE PublishPrompt(s) \/ PublishStep(s) \/ PublishDelta(s)
    BY <1>0, <2>1, <2>4, StreamTellInv
  <2>5. CASE \E n \in 0..(MaxCalls - worker[s].made) : Persist(s, n)
    BY <1>0, <2>1, <2>5, PersistTellInv
  <2>6. CASE PublishCall(s) \/ ResultFails(s) \/ BreakUnasked(s)
    BY <1>0, <2>1, <2>6, CallTellInv, BreakTellInv
  <2>7. CASE \E val \in {"done", "stopper", "skipped", "asked"} : StoreResult(s, val)
    BY <1>0, <2>1, <2>7, StoreResultTellInv DEF ResultVals
  <2>8. CASE PublishResult(s) \/ PublishAnswer(s)
    BY <1>0, <2>1, <2>8, ResultTellInv
  <2>9. CASE Answer(s)
    BY <1>0, <2>1, <2>9, AnswerTellInv
  <2> QED BY <1>3, <2>2, <2>3, <2>4, <2>5, <2>6, <2>7, <2>8, <2>9 DEF WorkerStep
<1> QED BY <1>1, <1>2, <1>3 DEF Next

\* The rows on the screen, in the mailbox and behind the worker are the stored rows,
\* once each and in order: load_with_in_flight, the relay and the row generations of
\* append_transcript_row lose none and repeat none.
THEOREM TellInvariant == Spec => [](ViewInv /\ TellInv)
<1>1. Init => ViewInv /\ TellInv
  BY ViewInit, TellInit
<1>2. ViewInv /\ TellInv /\ [Next]_vars => ViewInv' /\ TellInv'
  BY ViewStep, TellStep
<1> QED BY <1>1, <1>2, PTL DEF Spec

\* the events of the rows on the screen
LEMMA ShownEvents ==
  ASSUME ViewInv, TellInv, ~window.loading
  PROVE  LET r == window.sess
         IN  /\ r \in Sessions /\ rows[r] \in Seq(Pieces) /\ shown \in Seq(Pieces)
             /\ Told(Now, rows[r], r, worker[r], window.gen, cut) /\ RowsOK(r, rows[r], worker[r])
             /\ IsLine(Now, shown, mailbox, r, window.gen, Coming(r, worker[r], window.gen))
             /\ \A i \in DOMAIN shown :
                  /\ i \in Nat /\ i \in DOMAIN Now /\ Now[i].piece = shown[i]
                  /\ LiveRow(Now, i) <=> IsRow(shown[i])
<1> DEFINE r == window.sess
           w == worker[r]
           g == window.gen
           c == Coming(r, w, g)
<1>1. /\ r \in Sessions /\ g \in Nat /\ mailbox \in Seq(MessageRec) /\ shown \in Seq(Pieces)
  BY DEF ViewInv, TypesInv, ViewTypes, WindowRec
<1>2. rows[r] \in Seq(Pieces) /\ w \in WorkerRec /\ PlaceOK(r, w, rowGen[r], inFlight[r])
  BY <1>1, Current
<1>3. c \in Seq(EventRec)
  BY <1>1, <1>2, ComingFacts
<1>4. Told(Now, rows[r], r, w, g, cut) /\ RowsOK(r, rows[r], w)
  BY <1>1 DEF TellInv
<1> HIDE DEF c, g
<1>5. IsLine(Now, shown, mailbox, r, g, c)
  BY <1>1, <1>3, LineFacts DEF Now, Telling, c, g
<1>6. \A i \in 1..Len(shown) : Now[i] = Event("row", shown[i], IsRow(shown[i])) /\ i \in DOMAIN Now
  BY <1>5 DEF IsLine
<1>7. \A i \in 1..Len(shown) : /\ Now[i].what = "row" /\ Now[i].piece = shown[i]
                               /\ Now[i].live = IsRow(shown[i])
  BY <1>6, IsScreened DEF Screened
<1>8. DOMAIN shown = 1..Len(shown) /\ Len(shown) \in Nat
  BY <1>1
<1>9. \A i \in DOMAIN shown : /\ i \in Nat /\ i \in DOMAIN Now /\ Now[i].piece = shown[i]
                              /\ LiveRow(Now, i) <=> IsRow(shown[i])
  BY <1>6, <1>7, <1>8 DEF LiveRow
<1> QED BY <1>1, <1>2, <1>4, <1>5, <1>9 DEF c, g

LEMMA TellOnce == ViewInv /\ TellInv => RowsOnce
<1> SUFFICES ASSUME ViewInv, TellInv, NEW i \in DOMAIN shown, NEW j \in DOMAIN shown,
                    IsRow(shown[i]), IsRow(shown[j]),
                    <<shown[i].kind, shown[i].step, shown[i].pos>>
                      = <<shown[j].kind, shown[j].step, shown[j].pos>>
             PROVE  i = j
  BY DEF RowsOnce, Distinct
<1>1. SameKey(shown[i], shown[j])
  BY DEF SameKey
<1>2. ~window.loading
  <2> SUFFICES ASSUME window.loading  PROVE FALSE
    OBVIOUS
  <2>1. shown = <<>>
    BY DEF TellInv
  <2> QED BY <2>1
<1>3. /\ i \in Nat /\ i \in DOMAIN Now /\ Now[i].piece = shown[i] /\ LiveRow(Now, i)
      /\ j \in Nat /\ j \in DOMAIN Now /\ Now[j].piece = shown[j] /\ LiveRow(Now, j)
  BY <1>2, ShownEvents
<1>4. /\ rows[window.sess] \in Seq(Pieces)
      /\ Told(Now, rows[window.sess], window.sess, worker[window.sess], window.gen, cut)
  BY <1>2, ShownEvents
<1> QED BY <1>1, <1>3, <1>4, ToldOnce

\* a window that caught up: what is told is on the screen
LEMMA SettledEvents ==
  ASSUME ViewInv, TellInv, Settled(window.sess)
  PROVE  /\ \A i \in DOMAIN Now : Now[i].live => i \in DOMAIN shown
         /\ \A i \in DOMAIN Now : ~LiveAnswer(Now, i)
<1> DEFINE r == window.sess
           w == worker[r]
           g == window.gen
           c == Coming(r, w, g)
<1>1. ~window.loading /\ w.pc \in {"idle", "loop", "stream"}
      /\ \A i \in DOMAIN mailbox : mailbox[i].piece.sess # r
  BY DEF Settled
<1>2. /\ IsLine(Now, shown, mailbox, r, g, c) /\ shown \in Seq(Pieces)
      /\ \A i \in DOMAIN shown : /\ i \in Nat /\ i \in DOMAIN Now /\ Now[i].piece = shown[i]
                                 /\ LiveRow(Now, i) <=> IsRow(shown[i])
  BY <1>1, ShownEvents
<1>3. c = <<>> /\ Len(c) = 0
  BY <1>1 DEF Coming
<1>4. mailbox \in Seq(MessageRec)
  BY DEF ViewInv, TypesInv, ViewTypes
<1> HIDE DEF c, r, g
<1>5. \A i \in DOMAIN Now : \/ i \in 1..Len(shown)
                            \/ i - Len(shown) \in 1..Len(mailbox)
                               /\ Now[i] = EventOf(mailbox[i - Len(shown)], r, g)
                            \/ i - Len(shown) - Len(mailbox) \in 1..0
  BY <1>2, <1>3 DEF IsLine
<1>6. ASSUME NEW m, m.piece.sess # r  PROVE ~EventOf(m, r, g).live
  BY <1>6 DEF EventOf, Event, Fresh
<1>7. ASSUME NEW i \in DOMAIN Now, Now[i].live  PROVE i \in DOMAIN shown
  <2>1. CASE i \in 1..Len(shown)
    BY <1>2, <2>1
  <2>2. CASE i - Len(shown) \in 1..Len(mailbox) /\ Now[i] = EventOf(mailbox[i - Len(shown)], r, g)
    <3>1. i - Len(shown) \in DOMAIN mailbox
      BY <1>4, <2>2
    <3>2. mailbox[i - Len(shown)].piece.sess # r
      BY <1>1, <3>1
    <3> QED BY <1>6, <1>7, <2>2, <3>2
  <2>3. CASE i - Len(shown) - Len(mailbox) \in 1..0
    BY <2>3
  <2> QED BY <1>5, <2>1, <2>2, <2>3
<1>8. ASSUME NEW i \in DOMAIN Now, LiveAnswer(Now, i)  PROVE FALSE
  <2>1. i \in DOMAIN shown
    BY <1>7, <1>8 DEF LiveAnswer
  <2>2. IsLine(Now, shown, mailbox, r, g, c)
    BY <1>2
  <2>3. \A k \in 1..Len(shown) : Now[k] = Event("row", shown[k], IsRow(shown[k]))
    BY <2>2 DEF IsLine
  <2>4. \A k \in 1..Len(shown) : Now[k].what = "row"
    BY <2>3, IsScreened DEF Screened
  <2>5. i \in 1..Len(shown)
    BY <1>2, <2>1
  <2> QED BY <1>8, <2>4, <2>5 DEF LiveAnswer
<1> QED BY <1>7, <1>8

SamePieces(p, q) == SameKey(p, q) /\ p.sess = q.sess /\ p.val = q.val
LEMMA PiecesEqual ==
  ASSUME NEW p \in Pieces, NEW q \in Pieces, SamePieces(p, q)  PROVE p = q
BY DEF Pieces, SamePieces, SameKey

\* shown and R have the same rows of a sort, in one order
Matched(q, R, S) ==
  /\ \A i \in DOMAIN q : q[i] \in S => \E k \in DOMAIN R : q[i] = R[k]
  /\ \A k \in DOMAIN R : R[k] \in S => \E i \in DOMAIN q : q[i] = R[k]
  /\ \A i, j \in DOMAIN q, k, l \in DOMAIN R :
       q[i] \in S /\ q[i] = R[k] /\ q[j] \in S /\ q[j] = R[l] => (i < j <=> k < l)

LEMMA SettledMatched ==
  ASSUME ViewInv, TellInv, Settled(window.sess), NEW S \in SUBSET Pieces,
         \A p \in S : IsRow(p) /\ (p.kind = "call" => <<p.sess, p.step>> \notin cut),
         \A p, q \in S : p.kind = "call" <=> q.kind = "call"
  PROVE  Matched(shown, rows[window.sess], S)
<1> DEFINE r == window.sess
           w == worker[r]
           g == window.gen
           R == rows[r]
<1>1. ~window.loading /\ w.pc \in {"idle", "loop", "stream"}
  BY DEF Settled
<1>2. /\ R \in Seq(Pieces) /\ shown \in Seq(Pieces)
      /\ Told(Now, R, r, w, g, cut) /\ RowsOK(r, R, w)
      /\ \A i \in DOMAIN shown : /\ i \in Nat /\ i \in DOMAIN Now /\ Now[i].piece = shown[i]
                                 /\ LiveRow(Now, i) <=> IsRow(shown[i])
  BY <1>1, ShownEvents
<1>3. /\ \A i \in DOMAIN Now : Now[i].live => i \in DOMAIN shown
      /\ \A i \in DOMAIN Now : ~LiveAnswer(Now, i)
  BY SettledEvents
<1>4. ~Batching(w)
  BY <1>1 DEF Batching
<1> HIDE DEF r, w, g, R
<1>5. ASSUME NEW i \in DOMAIN shown, IsRow(shown[i]), NEW k \in DOMAIN R, SameKey(shown[i], R[k]),
             shown[i].sess = R[k].sess
      PROVE  shown[i] = R[k]
  <2>1. shown[i] \in Pieces /\ R[k] \in Pieces
    BY <1>2
  <2>2. i \in DOMAIN Now /\ LiveRow(Now, i) /\ Now[i].piece = shown[i]
    BY <1>2, <1>5
  <2>3. shown[i].val = R[k].val
    BY <1>2, <1>3, <1>5, <2>2 DEF Told, ValuesTold
  <2> QED BY <1>5, <2>1, <2>3, PiecesEqual DEF SamePieces
<1>6. ASSUME NEW i \in DOMAIN shown, IsRow(shown[i])
      PROVE  \E k \in DOMAIN R : shown[i] = R[k]
  <2>1. i \in DOMAIN Now /\ Now[i].live /\ Now[i].piece = shown[i]
    BY <1>2, <1>6 DEF LiveRow
  <2>2. PICK k \in DOMAIN R : SameKey(shown[i], R[k]) /\ shown[i].sess = R[k].sess
    BY <1>2, <2>1 DEF Told, Backed
  <2> QED BY <1>5, <1>6, <2>2
<1>7. ASSUME NEW k \in DOMAIN R, R[k] \in S
      PROVE  \E i \in DOMAIN shown : shown[i] = R[k]
  <2>1. /\ IsRow(R[k]) /\ R[k].sess = r
        /\ R[k].kind = "call" => <<r, R[k].step>> \notin cut
    BY <1>2, <1>7 DEF RowsOK
  <2>2. ~Later(R[k], w, g)
    BY <1>4 DEF Later
  <2>3. PICK i \in DOMAIN Now : LiveRow(Now, i) /\ SameKey(Now[i].piece, R[k])
    BY <1>2, <2>1, <2>2 DEF Told, AllTold
  <2>4. Now[i].live
    BY <2>3 DEF LiveRow
  <2>5. i \in DOMAIN shown /\ Now[i].piece = shown[i] /\ IsRow(shown[i])
    BY <1>2, <1>3, <2>3, <2>4
  <2>6. PICK l \in DOMAIN R : SameKey(shown[i], R[l]) /\ shown[i].sess = R[l].sess
    BY <1>2, <2>3, <2>4, <2>5 DEF Told, Backed
  <2>7. shown[i].sess = R[k].sess
    BY <1>2, <2>1, <2>6 DEF RowsOK
  <2> QED BY <1>5, <2>3, <2>5, <2>7
<1>8. ASSUME NEW i \in DOMAIN shown, NEW j \in DOMAIN shown, NEW k \in DOMAIN R, NEW l \in DOMAIN R,
             shown[i] \in S, shown[i] = R[k], shown[j] \in S, shown[j] = R[l]
      PROVE  i < j <=> k < l
  <2>1. /\ LiveRow(Now, i) /\ Now[i].piece = shown[i] /\ i \in DOMAIN Now
        /\ LiveRow(Now, j) /\ Now[j].piece = shown[j] /\ j \in DOMAIN Now
    BY <1>2, <1>8
  <2>2. SameKey(Now[i].piece, R[k]) /\ SameKey(Now[j].piece, R[l])
    BY <1>8, <2>1 DEF SameKey
  <2>3. R[k].kind = "call" <=> R[l].kind = "call"
    BY <1>8
  <2> QED BY <1>2, <2>1, <2>2, <2>3 DEF Told, InOrder
<1>9. \A i \in DOMAIN shown : shown[i] \in S => \E k \in DOMAIN R : shown[i] = R[k]
  BY <1>6
<1> QED BY <1>7, <1>8, <1>9 DEF Matched, R, r

LEMMA MatchedAlike ==
  ASSUME NEW q \in Seq(Pieces), NEW R \in Seq(Pieces)
  PROVE  /\ Matched(q, R, {p \in Pieces : IsCall(p)}) => Alike(q, R, IsCall)
         /\ Matched(q, R, {p \in Pieces : IsStep(p)}) => Alike(q, R, IsStep)
<1>1. \A i \in DOMAIN q : q[i] \in Pieces
  OBVIOUS
<1>2. \A k \in DOMAIN R : R[k] \in Pieces
  OBVIOUS
<1>3. ASSUME Matched(q, R, {p \in Pieces : IsCall(p)})  PROVE Alike(q, R, IsCall)
  <2> DEFINE same == {x \in (DOMAIN q) \X (DOMAIN R) : IsCall(q[x[1]]) /\ q[x[1]] = R[x[2]]}
  <2>1. ASSUME NEW i \in DOMAIN q, IsCall(q[i])  PROVE \E x \in same : x[1] = i
    <3>1. PICK k \in DOMAIN R : q[i] = R[k]
      BY <1>1, <1>3, <2>1 DEF Matched
    <3>2. <<i, k>> \in same
      BY <2>1, <3>1
    <3> QED BY <3>2
  <2>2. ASSUME NEW k \in DOMAIN R, IsCall(R[k])  PROVE \E x \in same : x[2] = k
    <3>1. PICK i \in DOMAIN q : q[i] = R[k]
      BY <1>2, <1>3, <2>2 DEF Matched
    <3>2. <<i, k>> \in same
      BY <2>2, <3>1
    <3> QED BY <3>2
  <2>3. ASSUME NEW x \in same, NEW y \in same  PROVE x[1] < y[1] <=> x[2] < y[2]
    <3>1. /\ x[1] \in DOMAIN q /\ x[2] \in DOMAIN R /\ IsCall(q[x[1]]) /\ q[x[1]] = R[x[2]]
          /\ y[1] \in DOMAIN q /\ y[2] \in DOMAIN R /\ IsCall(q[y[1]]) /\ q[y[1]] = R[y[2]]
      OBVIOUS
    <3> HIDE DEF same
    <3> QED BY <1>1, <1>3, <3>1 DEF Matched
  <2> QED BY <2>1, <2>2, <2>3 DEF Alike
<1>4. ASSUME Matched(q, R, {p \in Pieces : IsStep(p)})  PROVE Alike(q, R, IsStep)
  <2> DEFINE same == {x \in (DOMAIN q) \X (DOMAIN R) : IsStep(q[x[1]]) /\ q[x[1]] = R[x[2]]}
  <2>1. ASSUME NEW i \in DOMAIN q, IsStep(q[i])  PROVE \E x \in same : x[1] = i
    <3>1. PICK k \in DOMAIN R : q[i] = R[k]
      BY <1>1, <1>4, <2>1 DEF Matched
    <3>2. <<i, k>> \in same
      BY <2>1, <3>1
    <3> QED BY <3>2
  <2>2. ASSUME NEW k \in DOMAIN R, IsStep(R[k])  PROVE \E x \in same : x[2] = k
    <3>1. PICK i \in DOMAIN q : q[i] = R[k]
      BY <1>2, <1>4, <2>2 DEF Matched
    <3>2. <<i, k>> \in same
      BY <2>2, <3>1
    <3> QED BY <3>2
  <2>3. ASSUME NEW x \in same, NEW y \in same  PROVE x[1] < y[1] <=> x[2] < y[2]
    <3>1. /\ x[1] \in DOMAIN q /\ x[2] \in DOMAIN R /\ IsStep(q[x[1]]) /\ q[x[1]] = R[x[2]]
          /\ y[1] \in DOMAIN q /\ y[2] \in DOMAIN R /\ IsStep(q[y[1]]) /\ q[y[1]] = R[y[2]]
      OBVIOUS
    <3> HIDE DEF same
    <3> QED BY <1>1, <1>4, <3>1 DEF Matched
  <2> QED BY <2>1, <2>2, <2>3 DEF Alike
<1> QED BY <1>3, <1>4

LEMMA TellCaughtUp == ViewInv /\ TellInv => RowsCaughtUp
<1> SUFFICES ASSUME ViewInv, TellInv, Settled(window.sess)
             PROVE  /\ Alike(shown, rows[window.sess], IsCall)
                    /\ Alike(shown, rows[window.sess], IsStep)
  BY DEF RowsCaughtUp
<1>1. shown \in Seq(Pieces) /\ rows[window.sess] \in Seq(Pieces)
  BY ShownEvents DEF Settled
<1> DEFINE C == {p \in Pieces : IsCall(p)}
           T == {p \in Pieces : IsStep(p)}
<1>2. C \in SUBSET Pieces /\ \A p \in C : p.kind = "call" /\ <<p.sess, p.step>> \notin cut
  BY DEF IsCall
<1>3. T \in SUBSET Pieces /\ \A p \in T : p.kind # "call" /\ p.kind # "byte"
  BY DEF IsStep
<1> HIDE DEF C, T
<1>4. Matched(shown, rows[window.sess], C)
  BY <1>2, SettledMatched DEF IsRow
<1>5. Matched(shown, rows[window.sess], T)
  BY <1>3, SettledMatched DEF IsRow
<1> QED BY <1>1, <1>4, <1>5, MatchedAlike DEF C, T

\* Every recorded row reaches the screen once, and a window that caught up shows the
\* stored rows in order with the answers in place, whatever load_with_in_flight, the
\* relay's switch and the generations of append_transcript_row overlapped.
THEOREM RowsToldHolds == Spec => []RowsTold
<1>1. ViewInv /\ TellInv => RowsTold
  BY TellOnce, TellCaughtUp DEF RowsTold
<1> QED BY <1>1, TellInvariant, PTL

=============================================================================
