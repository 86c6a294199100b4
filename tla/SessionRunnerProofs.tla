------------------------ MODULE SessionRunnerProofs ------------------------
(***************************************************************************)
(* Proofs about SessionRunner for every set of sessions, prompts, workers, *)
(* interrupts and deletes.                                                 *)
(*                                                                         *)
(* The invariant says who owns what: a live worker is the one its          *)
(* session's flag is named by, and it is reachable for a join - through    *)
(* runner_threads_, through the delete that took the handle, or through    *)
(* shutdown's list - until it is gone.  All this is lost for a session     *)
(* inside two deletes at once (doubled; the run OverlappingDeletes shows   *)
(* how), so most conjuncts speak of the other sessions only, and StrayStep *)
(* shows that whatever happens in a doubled session stays in it.           *)
(***************************************************************************)
EXTENDS SessionRunner, FiniteSetTheorems, TLAPS

ExitPcs == {"free", "done"}
TurnPcs == {"step", "ready", "streaming", "call", "submit", "approval",
            "askreg", "asking"}
CompactPcs == {"mint", "ready", "streaming", "tail", "drain", "flip", "stop"}
\* places of a worker whose flag has not been armed for a turn (again)
UnarmedPcs == {"start", "drain", "flip", "stop"}

\* what a worker's own variables hold, place by place
ShapeInv(w) ==
  /\ Live(w) => wk[w].sess \in Sessions
  /\ wk[w].sess \notin doubled =>
       /\ wk[w].held \in {None, w}
       /\ wk[w].pc \in TurnPcs \cup {"mint"} => wk[w].held = w
  /\ wk[w].compact => wk[w].pc \in CompactPcs
  /\ wk[w].pc = "mint" => wk[w].compact
  /\ (wk[w].pc \in TurnPcs \ {"step"} /\ ~wk[w].compact) => wk[w].left # 0
  /\ wk[w].pc = "store" => wk[w].row \in Prompts
  /\ wk[w].tok < nextRun

Interrupting(i, s) == intr[i].pc \notin {"idle", "done"} /\ intr[i].sess = s

\* a live worker owns its session's slot and flag, and somebody can join it
OwnerInv(w) == (Live(w) /\ wk[w].sess \notin doubled) =>
  LET s == wk[w].sess IN
  /\ s \in present /\ running[s] /\ flagOf[s] = w
  /\ flag[w] \in {"down", "up"}
  /\ Refused(s) => flag[w] = "up"
  /\ wk[w].pc = "stop" => Refused(s)
  /\ ~Refused(s) => handle[s] = w
  /\ shutting => w \in shut.join /\ shut.pc \in {"asks", "approvals", "stream", "join"}

\* a turn that was not interrupted has no interrupt in progress against it
ArmedInv(w) ==
  (/\ Live(w) /\ wk[w].sess \notin doubled
   /\ wk[w].pc \notin UnarmedPcs /\ ~wk[w].compact /\ flag[w] # "up") =>
  wk[w].sess \notin blocked /\ \A i \in Interrupters : ~Interrupting(i, wk[w].sess)

InProgress(s) == {i \in Interrupters : Interrupting(i, s)}

\* a flag is named by a worker of its session, a doubled one included
FlagOwned(s) ==
  \A w \in Workers : flagOf[s] = w => wk[w].pc # "free" /\ (Live(w) => wk[w].sess = s)

SlotInv(s) ==
  /\ FlagOwned(s)
  /\ s \notin doubled =>
       /\ running[s] => \E w \in Workers : Live(w) /\ wk[w].sess = s
       /\ queue[s] # <<>> => running[s]
       /\ s \in retiring => queue[s] = <<>>
       /\ s \notin present => s \in retiring
       /\ (s \in retiring /\ s \in present) => Deleting(s)

CountInv(s) ==
  IsFiniteSet(InProgress(s)) /\ (s \in present => interrupts[s] = Cardinality(InProgress(s)))

TokenInv(s) ==
  /\ token[s] < nextRun
  /\ \A w \in Workers :
       (wk[w].pc \in TurnPcs /\ token[s] # 0 /\ wk[w].tok = token[s]) => wk[w].sess = s

\* a delete that has its session to itself
AloneInv(d) == LET s == del[d].sess IN
  /\ s \in retiring
  /\ del[d].flag = flagOf[s]
  /\ s \in present <=> del[d].pc # "clear"
  /\ \A w \in Workers : (Live(w) /\ wk[w].sess = s) =>
        del[d].join = w /\ del[d].pc \in {"stream", "asks", "approvals", "join"}
  /\ \A e \in Deleters : del[e].pc # "idle" /\ del[e].sess = s => e = d

DeleteInv(d) == del[d].pc # "idle" =>
  /\ del[d].sess \in Sessions /\ ~shutting
  /\ \A w \in Workers : del[d].flag = w =>
        wk[w].pc # "free" /\ (Live(w) => wk[w].sess = del[d].sess)
  /\ del[d].pc = "clear" => del[d].sess \notin present
  /\ del[d].sess \notin doubled => AloneInv(d)

InterruptInv(i) ==
  /\ intr[i].pc \notin {"idle", "done"} => intr[i].sess \in Sessions
  /\ intr[i].tok < nextRun
  /\ intr[i].pc = "stream" => \A w \in Workers :
       (/\ wk[w].pc \in TurnPcs /\ wk[w].sess \notin doubled
        /\ intr[i].tok # 0 /\ wk[w].tok = intr[i].tok) => flag[w] = "up"

GuiInv ==
  /\ gui.pc # "idle" => gui.sess \in Sessions
  /\ gui.pc = "inject" =>
       gui.row \in Prompts /\ (shutting \/ gui.sess \in doubled \/ queue[gui.sess] = <<>>)
  /\ (gui.pc = "retry" /\ gui.sess \notin doubled) =>
       /\ ~running[gui.sess]
       /\ gui.sess \in present => gui.keep >= Len(rows[gui.sess])

OrderInv(s) ==
  shutting \/ s \in doubled \/ accepted[s] = taken[s] \o Injected(s) \o queue[s]

RunnerInv ==
  /\ TypeOK
  /\ shutting <=> shut.pc # "idle"
  /\ GuiInv
  /\ \A w \in Workers : ShapeInv(w) /\ OwnerInv(w) /\ ArmedInv(w)
  /\ \A s \in Sessions : SlotInv(s) /\ CountInv(s) /\ TokenInv(s) /\ OrderInv(s)
  /\ \A d \in Deleters : DeleteInv(d)
  /\ \A i \in Interrupters : InterruptInv(i)

\* RunnerInv as the list of facts the steps below work with
LEMMA RunnerInvFacts ==
  RunnerInv <=>
    /\ TypeOK
    /\ shutting <=> shut.pc # "idle"
    /\ GuiInv
    /\ \A w \in Workers : ShapeInv(w) /\ OwnerInv(w) /\ ArmedInv(w)
    /\ \A s \in Sessions : SlotInv(s) /\ CountInv(s) /\ TokenInv(s) /\ OrderInv(s)
    /\ \A d \in Deleters : DeleteInv(d)
    /\ \A i \in Interrupters : InterruptInv(i)
  BY DEF RunnerInv

LEMMA InitInv == Init => RunnerInv
<1> SUFFICES ASSUME Init PROVE RunnerInv
  OBVIOUS
<1>1. TypeOK
  <2>1. FreeWorker \in WorkerRec
    BY RunnerAssumption DEF FreeWorker, NewWorker, WorkerRec, WorkerPc
  <2>2. intr \in [Interrupters -> InterruptRec] /\ del \in [Deleters -> DeleteRec]
    BY DEF Init, InterruptRec, DeleteRec
  <2>3. shut \in ShutRec /\ gui \in GuiRec
    BY DEF Init, ShutRec, GuiRec
  <2>4. /\ queue \in [Sessions -> Seq(Prompts)] /\ rows \in [Sessions -> Seq(Prompts)]
        /\ accepted \in [Sessions -> Seq(Prompts)] /\ taken \in [Sessions -> Seq(Prompts)]
    BY DEF Init
  <2>5. /\ running \in [Sessions -> BOOLEAN] /\ handle \in [Sessions -> Workers \cup {None}]
        /\ flagOf \in [Sessions -> Workers \cup {None}]
        /\ flag \in [Workers -> {"none", "down", "up", "freed"}]
        /\ token \in [Sessions -> Nat] /\ interrupts \in [Sessions -> Int]
        /\ wk \in [Workers -> WorkerRec]
    BY <2>1 DEF Init
  <2>6. nextRun \in Nat \ {0}
    BY DEF Init
  <2>7. /\ shutting \in BOOLEAN /\ brokerShut \in BOOLEAN
        /\ retiring \in SUBSET Sessions /\ blocked \in SUBSET Sessions
        /\ present \in SUBSET Sessions /\ doubled \in SUBSET Sessions
    BY Zenon DEF Init
  <2> QED BY <2>2, <2>3, <2>4, <2>5, <2>6, <2>7 DEF TypeOK
<1>2. (shutting <=> shut.pc # "idle") /\ GuiInv
  BY DEF Init, GuiInv
<1>3. ASSUME NEW w \in Workers PROVE ShapeInv(w) /\ OwnerInv(w) /\ ArmedInv(w)
  BY RunnerAssumption DEF Init, ShapeInv, OwnerInv, ArmedInv, Live, FreeWorker, NewWorker,
     TurnPcs, CompactPcs
<1>4. ASSUME NEW s \in Sessions
      PROVE  SlotInv(s) /\ CountInv(s) /\ TokenInv(s) /\ OrderInv(s)
  <2>1. InProgress(s) = {}
    BY DEF Init, InProgress, Interrupting
  <2>2. CountInv(s)
    BY <2>1, FS_EmptySet DEF Init, CountInv
  <2>3. SlotInv(s)
    BY RunnerAssumption DEF Init, SlotInv, FlagOwned
  <2>4. TokenInv(s)
    BY DEF Init, TokenInv, FreeWorker, NewWorker
  <2>5. OrderInv(s)
    BY DEF Init, OrderInv, Injected
  <2> QED BY <2>2, <2>3, <2>4, <2>5
<1>5. \A d \in Deleters : DeleteInv(d)
  BY DEF Init, DeleteInv, AloneInv
<1>6. \A i \in Interrupters : InterruptInv(i)
  BY DEF Init, InterruptInv
<1> QED BY <1>1, <1>2, <1>3, <1>4, <1>5, <1>6 DEF RunnerInv

(***************************************************************************)
(* Steps of a live worker that stays with its session.                     *)
(***************************************************************************)
\* a token the worker keeps was its own before; a new one is the next to be minted
TokenMoves(w) ==
  LET s == wk[w].sess IN
  /\ nextRun' \in Nat \ {0} /\ nextRun' >= nextRun /\ token' \in [Sessions -> Nat]
  /\ \A x \in Sessions \ {s} : token'[x] = token[x]
  /\ \/ /\ wk'[w].tok = wk[w].tok /\ token'[s] \in {token[s], 0}
        /\ wk'[w].pc \in TurnPcs => wk[w].pc \in TurnPcs
     \/ wk'[w].tok = nextRun /\ token'[s] = nextRun /\ nextRun' > nextRun

LEMMA OwnStep ==
  ASSUME RunnerInv, NEW w \in Workers, Live(w), NEW r \in WorkerRec, Become(w, r),
         r.pc \notin ExitPcs, r.sess = wk[w].sess, r.pc = "stop" => Refused(r.sess),
         UNCHANGED <<running, queue, handle, flagOf, flag, interrupts, retiring, shutting, doubled,
                     brokerShut, intr, del, shut, gui, present, accepted, taken>>,
         ShapeInv(w)', ArmedInv(w)', TokenMoves(w),
         blocked' \in SUBSET blocked, rows' \in [Sessions -> Seq(Prompts)],
         \A x \in Sessions \ {r.sess} : rows'[x] = rows[x]
  PROVE  RunnerInv'
<1>0. /\ TypeOK /\ (shutting <=> shut.pc # "idle") /\ GuiInv
      /\ \A v \in Workers : ShapeInv(v) /\ OwnerInv(v) /\ ArmedInv(v)
      /\ \A s \in Sessions : SlotInv(s) /\ CountInv(s) /\ TokenInv(s) /\ OrderInv(s)
      /\ \A d \in Deleters : DeleteInv(d)
      /\ \A i \in Interrupters : InterruptInv(i)
  BY RunnerInvFacts
<1>1. /\ wk' \in [Workers -> WorkerRec] /\ wk'[w] = r
      /\ \A v \in Workers \ {w} : wk'[v] = wk[v]
      /\ r.sess \in Sessions
  BY <1>0 DEF TypeOK, Become, ShapeInv
<1>9. \A v \in Workers : /\ (Live(v)' <=> Live(v)) /\ wk'[v].sess = wk[v].sess
                         /\ wk[v].pc # "free" => wk'[v].pc # "free"
  BY <1>1 DEF Live, ExitPcs
<1>2. TypeOK'
  <2>1. blocked' \in SUBSET Sessions
    BY <1>0 DEF TypeOK
  <2>2. /\ nextRun' \in Nat \ {0} /\ token' \in [Sessions -> Nat]
    BY DEF TokenMoves
  <2> QED BY <1>0, <1>1, <2>1, <2>2 DEF TypeOK
<1>3. nextRun \in Nat /\ nextRun' \in Nat /\ nextRun' >= nextRun
  BY <1>0 DEF TypeOK, TokenMoves
<1>4. ASSUME NEW v \in Workers PROVE (ShapeInv(v) /\ OwnerInv(v) /\ ArmedInv(v))'
  <2>1. CASE v = w
    <3>1. OwnerInv(w)'
      BY <1>0, <1>1 DEF OwnerInv, Live, ExitPcs, Refused
    <3> QED BY <2>1, <3>1
  <2>2. CASE v # w
    <3>1. ShapeInv(v)'
      <4>1. wk[v].tok \in Nat
        BY <1>0 DEF TypeOK, WorkerRec
      <4> QED BY <1>0, <1>1, <1>3, <2>2, <4>1 DEF ShapeInv, Live
    <3>2. OwnerInv(v)'
      BY <1>0, <1>1, <2>2 DEF OwnerInv, Live, Refused
    <3>3. ArmedInv(v)'
      BY <1>0, <1>1, <2>2 DEF ArmedInv, Live, Interrupting
    <3> QED BY <3>1, <3>2, <3>3
  <2> QED BY <2>1, <2>2
<1>5. ASSUME NEW x \in Sessions
      PROVE  (SlotInv(x) /\ CountInv(x) /\ TokenInv(x) /\ OrderInv(x))'
  <2>1. SlotInv(x)'
    <3>1. SlotInv(x) /\ (Deleting(x)' <=> Deleting(x))
      BY <1>0 DEF Deleting
    <3>2. FlagOwned(x)'
      BY <1>9, <3>1 DEF SlotInv, FlagOwned
    <3>3. running[x] /\ x \notin doubled => \E v \in Workers : Live(v)' /\ wk'[v].sess = x
      BY <1>9, <3>1 DEF SlotInv
    <3> QED BY <3>1, <3>2, <3>3 DEF SlotInv
  <2>2. CountInv(x)'
    BY <1>0 DEF CountInv, InProgress, Interrupting
  <2>3. TokenInv(x)'
    <3>1. token[x] \in Nat /\ \A v \in Workers : wk[v].tok \in Nat /\ wk[v].tok < nextRun
      BY <1>0 DEF TypeOK, WorkerRec, ShapeInv
    <3>2. token'[x] < nextRun'
      BY <1>0, <1>1, <1>3, <3>1 DEF TokenInv, TokenMoves
    <3>3. ASSUME NEW v \in Workers, wk'[v].pc \in TurnPcs, token'[x] # 0, wk'[v].tok = token'[x]
          PROVE  wk'[v].sess = x
      <4>1. CASE v = w /\ x = r.sess
        BY <1>1, <4>1
      <4>2. CASE v # w /\ x = r.sess
        <5>1. token'[x] \in {token[x], 0} \/ token'[x] = nextRun
          BY <4>2 DEF TokenMoves
        <5>2. wk'[v] = wk[v] /\ wk[v].tok # nextRun
          BY <1>1, <1>3, <3>1, <4>2
        <5>3. token'[x] = token[x]
          BY <3>3, <5>1, <5>2
        <5> QED BY <1>0, <3>3, <5>2, <5>3 DEF TokenInv
      <4>3. CASE v = w /\ x # r.sess
        BY <1>0, <1>1, <1>3, <3>1, <3>3, <4>3 DEF TokenInv, TokenMoves
      <4>4. CASE v # w /\ x # r.sess
        BY ZenonT(60), <1>0, <1>1, <3>3, <4>4 DEF TokenInv, TokenMoves
      <4> QED BY <4>1, <4>2, <4>3, <4>4
    <3> QED BY <3>2, <3>3 DEF TokenInv
  <2>4. OrderInv(x)'
    BY <1>0 DEF OrderInv, Injected
  <2> QED BY <2>1, <2>2, <2>3, <2>4
<1>6. ASSUME NEW d \in Deleters PROVE DeleteInv(d)'
  BY <1>0, <1>9 DEF DeleteInv, AloneInv
<1>7. ASSUME NEW i \in Interrupters PROVE InterruptInv(i)'
  <2>1. intr[i].tok \in Nat
    BY <1>0 DEF TypeOK, InterruptRec
  <2>2. intr[i].tok < nextRun'
    BY <1>0, <1>3, <2>1 DEF InterruptInv, TypeOK
  <2>3. ASSUME intr[i].pc = "stream", NEW v \in Workers, wk'[v].pc \in TurnPcs,
               wk'[v].sess \notin doubled, intr[i].tok # 0, wk'[v].tok = intr[i].tok
        PROVE  flag[v] = "up"
    <3>1. intr[i].tok < nextRun
      BY <1>0 DEF InterruptInv
    <3>2. wk[v].pc \in TurnPcs /\ wk[v].tok = intr[i].tok
      BY <1>1, <1>3, <2>1, <2>3, <3>1 DEF TokenMoves
    <3> QED BY <1>0, <1>9, <2>3, <3>2 DEF InterruptInv
  <2> QED BY <1>0, <2>2, <2>3 DEF InterruptInv
<1>8. GuiInv' /\ (shutting <=> shut.pc # "idle")'
  BY <1>0, <1>1 DEF GuiInv, OwnerInv
<1> QED BY <1>2, <1>4, <1>5, <1>6, <1>7, <1>8 DEF RunnerInv

\* steps that only change the worker's own place and turn variables
LEMMA LocalStep ==
  ASSUME RunnerInv, NEW w \in Workers, Live(w), NEW r \in WorkerRec, Become(w, r),
         WorkerLocal(w), r.pc \notin ExitPcs \cup {"mint", "stop", "store"},
         r.sess = wk[w].sess, r.held = wk[w].held, r.tok = wk[w].tok,
         r.pc \in TurnPcs => wk[w].pc \in TurnPcs,
         r.pc \notin UnarmedPcs /\ ~r.compact =>
            wk[w].pc \notin UnarmedPcs /\ ~wk[w].compact,
         r.compact => r.pc \in CompactPcs,
         r.pc \in TurnPcs \ {"step"} /\ ~r.compact => r.left # 0
  PROVE  RunnerInv'
<1>0. TypeOK /\ ShapeInv(w) /\ ArmedInv(w)
  BY RunnerInvFacts
<1>1. UNCHANGED <<running, queue, handle, flagOf, flag, interrupts, retiring, shutting, doubled,
                  intr, del, shut, gui, accepted, token, nextRun, blocked, brokerShut,
                  rows, present, taken>>
  BY DEF WorkerLocal, WorkerKeeps, lifeVars, opVars, brokVars, dbVars
<1>2. wk'[w] = r
  BY <1>0 DEF TypeOK, Become
<1>3. ShapeInv(w)'
  BY <1>0, <1>1, <1>2 DEF ShapeInv, Live, ExitPcs, TurnPcs
<1>4. ArmedInv(w)'
  BY <1>0, <1>1, <1>2 DEF ArmedInv, Live, ExitPcs, Interrupting
<1>5. TokenMoves(w)
  BY <1>0, <1>1, <1>2 DEF TokenMoves, TypeOK
<1>6. rows' \in [Sessions -> Seq(Prompts)] /\ \A x \in Sessions : rows'[x] = rows[x]
      /\ blocked' \in SUBSET blocked
  BY <1>0, <1>1 DEF TypeOK
<1> QED BY <1>1, <1>2, <1>3, <1>4, <1>5, <1>6, OwnStep

(***************************************************************************)
(* Steps that cancel: they cut streams and deny waits, no worker moves.    *)
(***************************************************************************)
SameRuns == \A v \in Workers :
  /\ wk'[v].pc = wk[v].pc /\ wk'[v].sess = wk[v].sess /\ wk'[v].row = wk[v].row
  /\ wk'[v].held = wk[v].held /\ wk'[v].tok = wk[v].tok /\ wk'[v].left = wk[v].left
  /\ wk'[v].compact = wk[v].compact

SameCalls ==
  /\ \A i \in Interrupters :
       /\ intr'[i].sess = intr[i].sess /\ intr'[i].tok = intr[i].tok
       /\ intr'[i].pc = "stream" => intr[i].pc = "stream"
       /\ intr'[i].pc \in {"idle", "done"} <=> intr[i].pc \in {"idle", "done"}
  /\ \A d \in Deleters :
       /\ del'[d].sess = del[d].sess /\ del'[d].join = del[d].join /\ del'[d].flag = del[d].flag
       /\ del'[d].pc = "idle" <=> del[d].pc = "idle"
       /\ del'[d].pc = "clear" <=> del[d].pc = "clear"
       /\ del[d].pc \in {"stream", "asks", "approvals", "join"} =>
             del'[d].pc \in {"stream", "asks", "approvals", "join"}
  /\ shut'.join = shut.join
  /\ shut'.pc = "idle" <=> shut.pc = "idle"
  /\ shut.pc \in {"asks", "approvals", "stream", "join"} =>
        shut'.pc \in {"asks", "approvals", "stream", "join"}

LEMMA StreamsCut ==
  ASSUME TypeOK, NEW W, CancelStreams(W)
  PROVE  wk' \in [Workers -> WorkerRec] /\ SameRuns
<1>1. wk \in [Workers -> WorkerRec]
  BY DEF TypeOK
<1>2. ASSUME NEW v \in Workers
      PROVE  wk'[v] = wk[v] \/ wk'[v] = [wk[v] EXCEPT !.cut = TRUE]
  BY DEF CancelStreams
<1>3. ASSUME NEW v \in Workers PROVE [wk[v] EXCEPT !.cut = TRUE] \in WorkerRec
  BY <1>1 DEF WorkerRec
<1>4. wk' \in [Workers -> WorkerRec]
  <2>1. ASSUME NEW v \in Workers
        PROVE  (IF v \in W /\ wk[v].pc = "streaming" THEN [wk[v] EXCEPT !.cut = TRUE]
                ELSE wk[v])
               \in WorkerRec
    BY <1>1, <1>3
  <2> QED BY <2>1 DEF CancelStreams
<1>5. ASSUME NEW v \in Workers
      PROVE  /\ wk'[v].pc = wk[v].pc /\ wk'[v].sess = wk[v].sess
             /\ wk'[v].row = wk[v].row /\ wk'[v].held = wk[v].held
             /\ wk'[v].tok = wk[v].tok /\ wk'[v].left = wk[v].left
             /\ wk'[v].compact = wk[v].compact
  <2>1. wk[v] \in WorkerRec
    BY <1>1
  <2> QED BY <1>2, <2>1 DEF WorkerRec
<1> QED BY <1>4, <1>5 DEF SameRuns

LEMMA WaitsDenied ==
  ASSUME TypeOK, NEW S, NEW place, CancelWaits(S, place)
  PROVE  wk' \in [Workers -> WorkerRec] /\ SameRuns
<1>1. wk \in [Workers -> WorkerRec]
  BY DEF TypeOK
<1>2. ASSUME NEW v \in Workers
      PROVE  wk'[v] = wk[v] \/ wk'[v] = [wk[v] EXCEPT !.wait = "no"]
  BY DEF CancelWaits
<1>3. ASSUME NEW v \in Workers PROVE [wk[v] EXCEPT !.wait = "no"] \in WorkerRec
  BY <1>1 DEF WorkerRec
<1>4. wk' \in [Workers -> WorkerRec]
  <2>1. ASSUME NEW v \in Workers
        PROVE  (IF wk[v].sess \in S /\ Parked(v, place)
                THEN [wk[v] EXCEPT !.wait = "no"] ELSE wk[v])
               \in WorkerRec
    BY <1>1, <1>3
  <2> QED BY <2>1 DEF CancelWaits
<1>5. ASSUME NEW v \in Workers
      PROVE  /\ wk'[v].pc = wk[v].pc /\ wk'[v].sess = wk[v].sess
             /\ wk'[v].row = wk[v].row /\ wk'[v].held = wk[v].held
             /\ wk'[v].tok = wk[v].tok /\ wk'[v].left = wk[v].left
             /\ wk'[v].compact = wk[v].compact
  <2>1. wk[v] \in WorkerRec
    BY <1>1
  <2> QED BY <1>2, <2>1 DEF WorkerRec
<1> QED BY <1>4, <1>5 DEF SameRuns

LEMMA CancelStep ==
  ASSUME RunnerInv, SameRuns, SameCalls,
         UNCHANGED <<running, queue, handle, flagOf, flag, token, nextRun, interrupts,
                     retiring, shutting, doubled, gui, rows, present, accepted, taken>>,
         wk' \in [Workers -> WorkerRec], intr' \in [Interrupters -> InterruptRec],
         del' \in [Deleters -> DeleteRec], shut' \in ShutRec, brokerShut' \in BOOLEAN,
         blocked' \in SUBSET Sessions,
         \A s \in blocked' : s \in blocked \/ s \in retiring \/ s \in doubled
                             \/ \E i \in Interrupters : Interrupting(i, s)
  PROVE  RunnerInv'
<1>0. /\ TypeOK /\ (shutting <=> shut.pc # "idle") /\ GuiInv
      /\ \A v \in Workers : ShapeInv(v) /\ OwnerInv(v) /\ ArmedInv(v)
      /\ \A s \in Sessions : SlotInv(s) /\ CountInv(s) /\ TokenInv(s) /\ OrderInv(s)
      /\ \A d \in Deleters : DeleteInv(d)
      /\ \A i \in Interrupters : InterruptInv(i)
  BY RunnerInvFacts
<1>1. TypeOK'
  BY <1>0 DEF TypeOK
<1>2. ASSUME NEW i \in Interrupters, NEW s PROVE Interrupting(i, s)' <=> Interrupting(i, s)
  BY DEF Interrupting, SameCalls
<1>3. ASSUME NEW v \in Workers PROVE (ShapeInv(v) /\ OwnerInv(v) /\ ArmedInv(v))'
  <2>1. ShapeInv(v)'
    BY <1>0 DEF ShapeInv, Live, SameRuns
  <2>2. OwnerInv(v)'
    BY <1>0 DEF OwnerInv, Live, SameRuns, SameCalls, Refused
  <2>3. ArmedInv(v)'
    BY <1>0, <1>2 DEF ArmedInv, OwnerInv, Live, SameRuns, Refused
  <2> QED BY <2>1, <2>2, <2>3
<1>4. ASSUME NEW s \in Sessions
      PROVE  (SlotInv(s) /\ CountInv(s) /\ TokenInv(s) /\ OrderInv(s))'
  <2>1. SlotInv(s)'
    BY <1>0 DEF SlotInv, FlagOwned, Live, SameRuns, SameCalls, Deleting
  <2>2. InProgress(s)' = InProgress(s)
    BY <1>2 DEF InProgress
  <2>3. CountInv(s)'
    BY <1>0, <2>2 DEF CountInv
  <2>4. TokenInv(s)'
    BY <1>0 DEF TokenInv, SameRuns
  <2>5. OrderInv(s)'
    BY <1>0 DEF OrderInv, Injected
  <2> QED BY <2>1, <2>3, <2>4, <2>5
<1>5. ASSUME NEW d \in Deleters PROVE DeleteInv(d)'
  BY <1>0 DEF DeleteInv, AloneInv, Live, SameRuns, SameCalls
<1>6. ASSUME NEW i \in Interrupters PROVE InterruptInv(i)'
  BY <1>0 DEF InterruptInv, SameRuns, SameCalls
<1>7. GuiInv' /\ (shutting <=> shut.pc # "idle")'
  BY <1>0 DEF GuiInv, SameCalls
<1> QED BY <1>1, <1>3, <1>4, <1>5, <1>6, <1>7 DEF RunnerInv

LEMMA CancelActions ==
  ASSUME RunnerInv
  PROVE  /\ \A i \in Interrupters :
              InterruptStream(i) \/ InterruptAsks(i) \/ InterruptApprovals(i) => RunnerInv'
         /\ \A d \in Deleters :
              DeleteStream(d) \/ DeleteAsks(d) \/ DeleteApprovals(d) => RunnerInv'
         /\ ShutdownAsks \/ ShutdownApprovals \/ ShutdownStreams => RunnerInv'
<1>0. /\ TypeOK /\ \A s \in Sessions : SlotInv(s)
      /\ \A d \in Deleters : DeleteInv(d)
      /\ \A i \in Interrupters : InterruptInv(i)
  BY RunnerInvFacts
<1>1. ASSUME NEW i \in Interrupters, InterruptStream(i) PROVE RunnerInv'
  <2>1. wk' \in [Workers -> WorkerRec] /\ SameRuns
    BY <1>0, <1>1, StreamsCut DEF InterruptStream
  <2>2. UNCHANGED <<running, queue, handle, flagOf, flag, token, nextRun, interrupts,
                    retiring, shutting, doubled, gui, rows, present, accepted, taken>>
    BY <1>1 DEF InterruptStream, OpKeeps, mapVars, lifeVars, dbVars, histVars
  <2>3. UNCHANGED <<del, shut>> /\ brokerShut' \in BOOLEAN
    BY <1>0, <1>1 DEF InterruptStream, TypeOK, brokVars
  <2>4. intr' \in [Interrupters -> InterruptRec] /\ SameCalls
    BY <1>0, <1>1, <2>3 DEF InterruptStream, TypeOK, InterruptRec, SameCalls
  <2>5. /\ blocked' \in SUBSET Sessions
        /\ \A s \in blocked' : s \in blocked \/ s \in retiring \/ s \in doubled
                                \/ \E j \in Interrupters : Interrupting(j, s)
    BY <1>0, <1>1 DEF InterruptStream, TypeOK, brokVars
  <2> QED BY <1>0, <2>1, <2>2, <2>3, <2>4, <2>5, CancelStep DEF TypeOK
<1>2. ASSUME NEW i \in Interrupters, InterruptAsks(i) PROVE RunnerInv'
  <2>1. wk' \in [Workers -> WorkerRec] /\ SameRuns
    BY <1>0, <1>2, WaitsDenied DEF InterruptAsks
  <2>2. UNCHANGED <<running, queue, handle, flagOf, flag, token, nextRun, interrupts,
                    retiring, shutting, doubled, gui, rows, present, accepted, taken>>
    BY <1>2 DEF InterruptAsks, OpKeeps, mapVars, lifeVars, dbVars, histVars
  <2>3. UNCHANGED <<del, shut>> /\ brokerShut' \in BOOLEAN
    BY <1>0, <1>2 DEF InterruptAsks, TypeOK, brokVars
  <2>4. intr' \in [Interrupters -> InterruptRec] /\ SameCalls
    BY <1>0, <1>2, <2>3 DEF InterruptAsks, TypeOK, InterruptRec, SameCalls
  <2>5. /\ blocked' \in SUBSET Sessions
        /\ \A s \in blocked' : s \in blocked \/ s \in retiring \/ s \in doubled
                                \/ \E j \in Interrupters : Interrupting(j, s)
    BY <1>0, <1>2 DEF InterruptAsks, TypeOK, brokVars
  <2> QED BY <1>0, <2>1, <2>2, <2>3, <2>4, <2>5, CancelStep DEF TypeOK
<1>3. ASSUME NEW i \in Interrupters, InterruptApprovals(i) PROVE RunnerInv'
  <2>1. wk' \in [Workers -> WorkerRec] /\ SameRuns
    BY <1>0, <1>3, WaitsDenied DEF InterruptApprovals
  <2>2. UNCHANGED <<running, queue, handle, flagOf, flag, token, nextRun, interrupts,
                    retiring, shutting, doubled, gui, rows, present, accepted, taken>>
    BY <1>3 DEF InterruptApprovals, OpKeeps, mapVars, lifeVars, dbVars, histVars
  <2>3. UNCHANGED <<del, shut>> /\ brokerShut' \in BOOLEAN
    BY <1>0, <1>3 DEF InterruptApprovals, TypeOK, brokVars
  <2>4. intr' \in [Interrupters -> InterruptRec] /\ SameCalls
    BY <1>0, <1>3, <2>3 DEF InterruptApprovals, TypeOK, InterruptRec, SameCalls
  <2>5. /\ blocked' \in SUBSET Sessions
        /\ \A s \in blocked' : s \in blocked \/ s \in retiring \/ s \in doubled
                                \/ \E j \in Interrupters : Interrupting(j, s)
    BY <1>0, <1>3 DEF InterruptApprovals, TypeOK, Block, InterruptInv, Interrupting
  <2> QED BY <1>0, <2>1, <2>2, <2>3, <2>4, <2>5, CancelStep DEF TypeOK
<1>4. ASSUME NEW d \in Deleters, DeleteStream(d) PROVE RunnerInv'
  <2>1. wk' \in [Workers -> WorkerRec] /\ SameRuns
    BY <1>0, <1>4, StreamsCut DEF DeleteStream
  <2>2. UNCHANGED <<running, queue, handle, flagOf, flag, token, nextRun, interrupts,
                    retiring, shutting, doubled, gui, rows, present, accepted, taken>>
    BY <1>4 DEF DeleteStream, OpKeeps, mapVars, lifeVars, dbVars, histVars
  <2>3. UNCHANGED <<intr, shut>> /\ brokerShut' \in BOOLEAN
    BY <1>0, <1>4 DEF DeleteStream, TypeOK, brokVars
  <2>4. del' \in [Deleters -> DeleteRec] /\ SameCalls
    BY ZenonT(60), <1>0, <1>4, <2>3 DEF DeleteStream, TypeOK, DeleteRec, SameCalls
  <2>5. /\ blocked' \in SUBSET Sessions
        /\ \A s \in blocked' : s \in blocked \/ s \in retiring \/ s \in doubled
                                \/ \E j \in Interrupters : Interrupting(j, s)
    BY <1>0, <1>4 DEF DeleteStream, TypeOK, brokVars
  <2> QED BY <1>0, <2>1, <2>2, <2>3, <2>4, <2>5, CancelStep DEF TypeOK
<1>5. ASSUME NEW d \in Deleters, DeleteAsks(d) PROVE RunnerInv'
  <2>1. wk' \in [Workers -> WorkerRec] /\ SameRuns
    BY <1>0, <1>5, WaitsDenied DEF DeleteAsks
  <2>2. UNCHANGED <<running, queue, handle, flagOf, flag, token, nextRun, interrupts,
                    retiring, shutting, doubled, gui, rows, present, accepted, taken>>
    BY <1>5 DEF DeleteAsks, OpKeeps, mapVars, lifeVars, dbVars, histVars
  <2>3. UNCHANGED <<intr, shut>> /\ brokerShut' \in BOOLEAN
    BY <1>0, <1>5 DEF DeleteAsks, TypeOK, brokVars
  <2>4. del' \in [Deleters -> DeleteRec] /\ SameCalls
    BY ZenonT(60), <1>0, <1>5, <2>3 DEF DeleteAsks, TypeOK, DeleteRec, SameCalls
  <2>5. /\ blocked' \in SUBSET Sessions
        /\ \A s \in blocked' : s \in blocked \/ s \in retiring \/ s \in doubled
                                \/ \E j \in Interrupters : Interrupting(j, s)
    BY <1>0, <1>5 DEF DeleteAsks, TypeOK, brokVars
  <2> QED BY <1>0, <2>1, <2>2, <2>3, <2>4, <2>5, CancelStep DEF TypeOK
<1>6. ASSUME NEW d \in Deleters, DeleteApprovals(d) PROVE RunnerInv'
  <2>1. wk' \in [Workers -> WorkerRec] /\ SameRuns
    BY <1>0, <1>6, WaitsDenied DEF DeleteApprovals
  <2>2. UNCHANGED <<running, queue, handle, flagOf, flag, token, nextRun, interrupts,
                    retiring, shutting, doubled, gui, rows, present, accepted, taken>>
    BY <1>6 DEF DeleteApprovals, OpKeeps, mapVars, lifeVars, dbVars, histVars
  <2>3. UNCHANGED <<intr, shut>> /\ brokerShut' \in BOOLEAN
    BY <1>0, <1>6 DEF DeleteApprovals, TypeOK, brokVars
  <2>4. del' \in [Deleters -> DeleteRec] /\ SameCalls
    BY ZenonT(60), <1>0, <1>6, <2>3 DEF DeleteApprovals, TypeOK, DeleteRec, SameCalls
  <2>5. /\ blocked' \in SUBSET Sessions
        /\ \A s \in blocked' : s \in blocked \/ s \in retiring \/ s \in doubled
                                \/ \E j \in Interrupters : Interrupting(j, s)
    BY <1>0, <1>6 DEF DeleteApprovals, TypeOK, Block, DeleteInv, AloneInv
  <2> QED BY <1>0, <2>1, <2>2, <2>3, <2>4, <2>5, CancelStep DEF TypeOK
<1>7. ASSUME ShutdownAsks PROVE RunnerInv'
  <2>1. wk' \in [Workers -> WorkerRec] /\ SameRuns
    BY <1>0, <1>7, WaitsDenied DEF ShutdownAsks
  <2>2. UNCHANGED <<running, queue, handle, flagOf, flag, token, nextRun, interrupts,
                    retiring, shutting, doubled, gui, rows, present, accepted, taken>>
    BY <1>7 DEF ShutdownAsks, OpKeeps, mapVars, lifeVars, dbVars, histVars
  <2>3. UNCHANGED <<intr, del>> /\ brokerShut' \in BOOLEAN
    BY <1>0, <1>7 DEF ShutdownAsks, TypeOK, brokVars
  <2>4. shut' \in ShutRec /\ SameCalls
    BY <1>0, <1>7, <2>3 DEF ShutdownAsks, TypeOK, ShutRec, SameCalls
  <2>5. /\ blocked' \in SUBSET Sessions
        /\ \A s \in blocked' : s \in blocked \/ s \in retiring \/ s \in doubled
                                \/ \E j \in Interrupters : Interrupting(j, s)
    BY <1>0, <1>7 DEF ShutdownAsks, TypeOK, brokVars
  <2> QED BY <1>0, <2>1, <2>2, <2>3, <2>4, <2>5, CancelStep DEF TypeOK
<1>8. ASSUME ShutdownApprovals PROVE RunnerInv'
  <2>1. wk' \in [Workers -> WorkerRec] /\ SameRuns
    BY <1>0, <1>8, WaitsDenied DEF ShutdownApprovals
  <2>2. UNCHANGED <<running, queue, handle, flagOf, flag, token, nextRun, interrupts,
                    retiring, shutting, doubled, gui, rows, present, accepted, taken>>
    BY <1>8 DEF ShutdownApprovals, OpKeeps, mapVars, lifeVars, dbVars, histVars
  <2>3. UNCHANGED <<intr, del>> /\ brokerShut' \in BOOLEAN
    BY <1>0, <1>8 DEF ShutdownApprovals, TypeOK, brokVars
  <2>4. shut' \in ShutRec /\ SameCalls
    BY <1>0, <1>8, <2>3 DEF ShutdownApprovals, TypeOK, ShutRec, SameCalls
  <2>5. /\ blocked' \in SUBSET Sessions
        /\ \A s \in blocked' : s \in blocked \/ s \in retiring \/ s \in doubled
                                \/ \E j \in Interrupters : Interrupting(j, s)
    BY <1>0, <1>8 DEF ShutdownApprovals, TypeOK, brokVars
  <2> QED BY <1>0, <2>1, <2>2, <2>3, <2>4, <2>5, CancelStep DEF TypeOK
<1>9. ASSUME ShutdownStreams PROVE RunnerInv'
  <2>1. wk' \in [Workers -> WorkerRec] /\ SameRuns
    BY <1>0, <1>9, StreamsCut DEF ShutdownStreams
  <2>2. UNCHANGED <<running, queue, handle, flagOf, flag, token, nextRun, interrupts,
                    retiring, shutting, doubled, gui, rows, present, accepted, taken>>
    BY <1>9 DEF ShutdownStreams, OpKeeps, mapVars, lifeVars, dbVars, histVars
  <2>3. UNCHANGED <<intr, del>> /\ brokerShut' \in BOOLEAN
    BY <1>0, <1>9 DEF ShutdownStreams, TypeOK, brokVars
  <2>4. shut' \in ShutRec /\ SameCalls
    BY <1>0, <1>9, <2>3 DEF ShutdownStreams, TypeOK, ShutRec, SameCalls
  <2>5. /\ blocked' \in SUBSET Sessions
        /\ \A s \in blocked' : s \in blocked \/ s \in retiring \/ s \in doubled
                                \/ \E j \in Interrupters : Interrupting(j, s)
    BY <1>0, <1>9 DEF ShutdownStreams, TypeOK, brokVars
  <2> QED BY <1>0, <2>1, <2>2, <2>3, <2>4, <2>5, CancelStep DEF TypeOK
<1> QED BY <1>1, <1>2, <1>3, <1>4, <1>5, <1>6, <1>7, <1>8, <1>9

(***************************************************************************)
(* A session inside two deletes at once: its steps stay in it.             *)
(***************************************************************************)
\* the workers a step moves are the session's, and none enters a turn
StrayWorkers(s) == \A v \in Workers :
  \/ wk'[v] = wk[v]
  \/ /\ wk[v].pc # "done" /\ (Live(v) => wk[v].sess = s)
     /\ wk'[v].pc \notin TurnPcs \cup {"free"} /\ (Live(v)' => wk'[v].sess = s)
     /\ ShapeInv(v)'

StrayDeletes(s) == \A e \in Deleters :
  \/ del'[e] = del[e]
  \/ /\ del[e].pc # "idle" => del[e].sess = s
     /\ del'[e].pc # "idle" => del'[e].sess = s
     /\ DeleteInv(e)'

\* no other session's slot, flag, rows or queue is touched
StrayMaps(s) ==
  /\ \A x \in Sessions \ {s} :
       /\ running'[x] = running[x] /\ queue'[x] = queue[x] /\ handle'[x] = handle[x]
       /\ flagOf'[x] = flagOf[x] /\ token'[x] = token[x] /\ interrupts'[x] = interrupts[x]
       /\ x \in retiring' <=> x \in retiring
       /\ x \in present' <=> x \in present
       /\ x \in blocked' => x \in blocked
  /\ \A v \in Workers : Live(v) /\ wk[v].sess # s => flag'[v] = flag[v]
  /\ present' \subseteq present /\ token'[s] \in {token[s], 0}
  /\ interrupts'[s] = interrupts[s] \/ s \notin present'

LEMMA StrayStep ==
  ASSUME RunnerInv, NEW s \in Sessions, doubled' = doubled \cup {s},
         UNCHANGED <<shutting, shut, intr, nextRun>>,
         StrayWorkers(s), StrayDeletes(s), StrayMaps(s), FlagOwned(s)'
  PROVE  /\ \A v \in Workers : (ShapeInv(v) /\ OwnerInv(v) /\ ArmedInv(v))'
         /\ \A x \in Sessions : (SlotInv(x) /\ CountInv(x) /\ TokenInv(x))'
         /\ \A d \in Deleters : DeleteInv(d)'
         /\ \A i \in Interrupters : InterruptInv(i)'
<1>0. /\ TypeOK
      /\ \A v \in Workers : ShapeInv(v) /\ OwnerInv(v) /\ ArmedInv(v)
      /\ \A x \in Sessions : SlotInv(x) /\ CountInv(x) /\ TokenInv(x)
      /\ \A d \in Deleters : DeleteInv(d)
      /\ \A i \in Interrupters : InterruptInv(i)
  BY RunnerInvFacts
<1>1. ASSUME NEW v \in Workers, Live(v)', wk'[v].sess # s
      PROVE  /\ wk'[v] = wk[v] /\ Live(v) /\ wk[v].sess \in Sessions \ {s}
             /\ flag'[v] = flag[v]
  <2>1. wk'[v] = wk[v]
    BY <1>1 DEF StrayWorkers
  <2>2. Live(v) /\ wk[v].sess \in Sessions \ {s}
    BY <1>0, <1>1, <2>1 DEF Live, ShapeInv
  <2> QED BY <2>1, <2>2 DEF StrayMaps
<1>2. ASSUME NEW v \in Workers, Live(v), wk[v].sess # s
      PROVE  wk'[v] = wk[v] /\ Live(v)'
  BY <1>2 DEF StrayWorkers, Live
<1>3. ASSUME NEW v \in Workers PROVE (ShapeInv(v) /\ OwnerInv(v) /\ ArmedInv(v))'
  <2>1. ShapeInv(v)'
    <3>1. CASE wk'[v] = wk[v]
      BY <1>0, <3>1 DEF ShapeInv, Live
    <3> QED BY <3>1 DEF StrayWorkers
  <2>2. CASE ~(Live(v)' /\ wk'[v].sess \notin doubled')
    BY <2>1, <2>2 DEF OwnerInv, ArmedInv
  <2>3. CASE Live(v)' /\ wk'[v].sess \notin doubled'
    <3>1. /\ wk'[v] = wk[v] /\ Live(v) /\ wk[v].sess \in Sessions \ {s}
          /\ flag'[v] = flag[v] /\ wk[v].sess \notin doubled' \cup doubled
      BY <1>1, <2>3
    <3>2. OwnerInv(v)'
      BY <1>0, <3>1 DEF OwnerInv, Refused, StrayMaps
    <3>3. ArmedInv(v)'
      BY <1>0, <3>1 DEF ArmedInv, Interrupting, StrayMaps
    <3> QED BY <2>1, <3>2, <3>3
  <2> QED BY <2>2, <2>3
<1>4. ASSUME NEW x \in Sessions PROVE (SlotInv(x) /\ CountInv(x) /\ TokenInv(x))'
  <2>1. FlagOwned(x)'
    <3>1. CASE x # s
      <4>1. FlagOwned(x) /\ flagOf'[x] = flagOf[x]
        BY <1>0, <3>1 DEF SlotInv, StrayMaps
      <4>2. ASSUME NEW v \in Workers, flagOf[x] = v
            PROVE  wk'[v].pc # "free" /\ (Live(v)' => wk'[v].sess = x)
        <5>1. wk[v].pc # "free" /\ (Live(v) => wk[v].sess = x)
          BY <4>1, <4>2 DEF FlagOwned
        <5>2. wk'[v] = wk[v]
          BY <3>1, <5>1 DEF StrayWorkers, Live
        <5> QED BY <5>1, <5>2 DEF Live
      <4> QED BY <4>1, <4>2 DEF FlagOwned
    <3> QED BY <3>1
  <2>2. ASSUME x \notin doubled'
        PROVE  /\ running'[x] => \E v \in Workers : Live(v)' /\ wk'[v].sess = x
               /\ queue'[x] # <<>> => running'[x]
               /\ x \in retiring' => queue'[x] = <<>>
               /\ x \notin present' => x \in retiring'
               /\ (x \in retiring' /\ x \in present') => Deleting(x)'
    <3>1. x \in Sessions \ {s}
      BY <2>2
    <3>2. Deleting(x) => Deleting(x)'
      BY <3>1 DEF Deleting, StrayDeletes
    <3>3. running[x] => \E v \in Workers : Live(v)' /\ wk'[v].sess = x
      BY <1>0, <1>2, <2>2, <3>1 DEF SlotInv
    <3> QED BY <1>0, <2>2, <3>1, <3>2, <3>3 DEF SlotInv, StrayMaps
  <2>3. SlotInv(x)'
    BY <2>1, <2>2 DEF SlotInv
  <2>4. CountInv(x)'
    <3>1. InProgress(x)' = InProgress(x)
      BY DEF InProgress, Interrupting
    <3>2. interrupts'[x] = interrupts[x] \/ x \notin present'
      BY DEF StrayMaps
    <3> QED BY <1>0, <3>1, <3>2 DEF CountInv, StrayMaps
  <2>5. TokenInv(x)'
    <3>1. token'[x] \in {token[x], 0} /\ 0 < nextRun
      BY <1>0 DEF StrayMaps, TypeOK
    <3> QED BY <1>0, <3>1 DEF TokenInv, StrayWorkers
  <2> QED BY <2>3, <2>4, <2>5
<1>5. ASSUME NEW d \in Deleters PROVE DeleteInv(d)'
  <2>1. CASE del'[d] = del[d] /\ del[d].pc # "idle"
    <3>1. ASSUME NEW v \in Workers, del[d].flag = v
          PROVE  wk'[v].pc # "free" /\ (Live(v)' => wk'[v].sess = del[d].sess)
      <4>1. wk[v].pc # "free" /\ (Live(v) => wk[v].sess = del[d].sess)
        BY <1>0, <2>1, <3>1 DEF DeleteInv
      <4> QED BY <4>1 DEF StrayWorkers, Live
    <3>2. ASSUME del[d].sess \notin doubled' PROVE AloneInv(d)'
      <4>1. del[d].sess \in Sessions \ {s} /\ AloneInv(d)
        BY <1>0, <2>1, <3>2 DEF DeleteInv
      <4>2. \A v \in Workers : (Live(v)' /\ wk'[v].sess = del[d].sess) =>
                                 (Live(v) /\ wk[v].sess = del[d].sess)
        BY <1>1, <4>1
      <4>3. \A e \in Deleters : del'[e].pc # "idle" /\ del'[e].sess = del[d].sess => e = d
        BY <4>1 DEF AloneInv, StrayDeletes
      <4> QED BY <2>1, <4>1, <4>2, <4>3 DEF AloneInv, StrayMaps
    <3> QED BY <1>0, <2>1, <3>1, <3>2 DEF DeleteInv, StrayMaps
  <2>2. CASE del'[d] = del[d] /\ del[d].pc = "idle"
    BY <2>2 DEF DeleteInv
  <2> QED BY <2>1, <2>2 DEF StrayDeletes
<1>6. ASSUME NEW i \in Interrupters PROVE InterruptInv(i)'
  <2>1. ASSUME NEW v \in Workers, wk'[v].pc \in TurnPcs, wk'[v].sess \notin doubled'
        PROVE  wk'[v] = wk[v] /\ flag'[v] = flag[v]
    <3>1. Live(v)' /\ wk'[v].sess # s
      BY <2>1 DEF Live, TurnPcs
    <3> QED BY <1>1, <3>1
  <2> QED BY <1>0, <2>1 DEF InterruptInv
<1> QED BY <1>3, <1>4, <1>5, <1>6

(***************************************************************************)
(* Steps that spawn a worker for an idle session.                          *)
(***************************************************************************)
LEMMA SpawnStep ==
  ASSUME RunnerInv, NEW s \in Sessions, NEW w \in Workers, NEW r \in Prompts \cup {None},
         NEW place \in {"start", "mint"}, NEW held \in {None, w}, NEW compact \in BOOLEAN,
         place = "mint" => held = w, compact <=> place = "mint",
         ~Refused(s), ~running[s], SpawnAt(s, w, r, place, held, compact),
         UNCHANGED <<queue, token, nextRun, interrupts, retiring, shutting, doubled, blocked,
                     intr, del, shut, present>>
  PROVE  /\ wk' \in [Workers -> WorkerRec] /\ running' \in [Sessions -> BOOLEAN]
         /\ flagOf' \in [Sessions -> Workers \cup {None}]
         /\ handle' \in [Sessions -> Workers \cup {None}]
         /\ flag' \in [Workers -> {"none", "down", "up", "freed"}]
         /\ \A v \in Workers : (ShapeInv(v) /\ OwnerInv(v) /\ ArmedInv(v))'
         /\ \A x \in Sessions : (SlotInv(x) /\ CountInv(x) /\ TokenInv(x))'
         /\ \A d \in Deleters : DeleteInv(d)'
         /\ \A i \in Interrupters : InterruptInv(i)'
<1>0. /\ TypeOK /\ (shutting <=> shut.pc # "idle")
      /\ \A v \in Workers : ShapeInv(v) /\ OwnerInv(v) /\ ArmedInv(v)
      /\ \A x \in Sessions : SlotInv(x) /\ CountInv(x) /\ TokenInv(x)
      /\ \A d \in Deleters : DeleteInv(d)
      /\ \A i \in Interrupters : InterruptInv(i)
  BY RunnerInvFacts
<1> DEFINE new == NewWorker(place, s, r, held, compact)
<1>1. new \in WorkerRec /\ new.pc = place /\ new.sess = s /\ new.held = held /\ new.tok = 0
      /\ new.compact = compact
  BY RunnerAssumption DEF NewWorker, WorkerRec, WorkerPc
<1> HIDE DEF new
<1>2. /\ wk[w].pc = "free" /\ wk' = [wk EXCEPT ![w] = new]
      /\ flag' = [v \in Workers |-> IF v = w THEN "down"
                                    ELSE IF v = flagOf[s] THEN "freed" ELSE flag[v]]
      /\ flagOf' = [flagOf EXCEPT ![s] = w] /\ running' = [running EXCEPT ![s] = TRUE]
      /\ handle' = [handle EXCEPT ![s] = w]
  BY DEF SpawnAt, Become, new
<1>3. /\ wk' \in [Workers -> WorkerRec] /\ running' \in [Sessions -> BOOLEAN]
      /\ flagOf' \in [Sessions -> Workers \cup {None}]
      /\ handle' \in [Sessions -> Workers \cup {None}]
  BY <1>0, <1>1, <1>2 DEF TypeOK
<1>4. flag' \in [Workers -> {"none", "down", "up", "freed"}]
  BY <1>0, <1>2 DEF TypeOK
<1>5. /\ wk'[w] = new /\ \A v \in Workers \ {w} : wk'[v] = wk[v]
      /\ flagOf'[s] = w /\ running'[s] /\ handle'[s] = w
      /\ \A x \in Sessions \ {s} : flagOf'[x] = flagOf[x] /\ running'[x] = running[x]
                                   /\ handle'[x] = handle[x]
  BY <1>0, <1>2 DEF TypeOK
<1>6. CASE s \in doubled
  <2>1. w # None /\ \A v \in Workers \ {w} : v = flagOf[s] => (Live(v) => wk[v].sess = s)
    BY <1>0, RunnerAssumption DEF SlotInv, FlagOwned
  <2>2. StrayWorkers(s)
    <3>1. ShapeInv(w)'
      BY <1>0, <1>1, <1>5, <1>6 DEF ShapeInv, TurnPcs, CompactPcs, Live, TypeOK
    <3> QED BY <1>1, <1>2, <1>5, <3>1 DEF StrayWorkers, TurnPcs, Live
  <2>3. FlagOwned(s)'
    BY <1>1, <1>5, <2>1 DEF FlagOwned, Live
  <2>4. StrayMaps(s)
    <3>1. ASSUME NEW v \in Workers, Live(v), wk[v].sess # s PROVE flag'[v] = flag[v]
      BY <1>0, <1>2, <3>1 DEF SlotInv, FlagOwned, Live
    <3> QED BY <1>0, <1>5, <3>1 DEF StrayMaps, TypeOK
  <2>5. StrayDeletes(s)
    BY DEF StrayDeletes
  <2> QED BY <1>3, <1>4, <1>6, <2>2, <2>3, <2>4, <2>5, StrayStep
<1>7. CASE s \notin doubled
  <2>6. ASSUME NEW v \in Workers, Live(v) PROVE v # w /\ wk[v].sess # s /\ flagOf[s] # v
    BY <1>0, <1>2, <1>7, <2>6 DEF OwnerInv, SlotInv, FlagOwned, Live
  <2>7. flag'[w] = "down" /\ \A v \in Workers : Live(v) => flag'[v] = flag[v]
    BY <1>2, <2>6
  <2>8. /\ \A v \in Workers \ {w} : Live(v)' <=> Live(v)
        /\ Live(w)' /\ ~Live(w)
    BY <1>1, <1>2, <1>5 DEF Live
  <2>9. s \in present /\ s \notin retiring /\ ~shutting
    BY <1>0, <1>7 DEF SlotInv, Refused
  <2>10. ASSUME NEW v \in Workers PROVE (ShapeInv(v) /\ OwnerInv(v) /\ ArmedInv(v))'
    <3>1. CASE v = w
      BY <1>0, <1>1, <1>5, <2>7, <2>8, <2>9, <3>1 DEF ShapeInv, OwnerInv, ArmedInv, TurnPcs,
         CompactPcs, UnarmedPcs, Refused, TypeOK
    <3>2. CASE v # w
      <4>1. wk'[v] = wk[v] /\ (Live(v)' <=> Live(v)) /\ (Live(v) => flag'[v] = flag[v])
        BY <1>5, <2>7, <2>8, <3>2
      <4>2. Live(v) => /\ wk[v].sess \in Sessions \ {s}
                       /\ flagOf'[wk[v].sess] = flagOf[wk[v].sess]
                       /\ running'[wk[v].sess] = running[wk[v].sess]
                       /\ handle'[wk[v].sess] = handle[wk[v].sess]
        BY <1>0, <1>5, <2>6 DEF ShapeInv
      <4>3. ShapeInv(v)'
        BY <1>0, <4>1 DEF ShapeInv
      <4>4. OwnerInv(v)'
        BY <1>0, <4>1, <4>2 DEF OwnerInv, Refused
      <4>5. ArmedInv(v)'
        BY <1>0, <4>1 DEF ArmedInv, Interrupting
      <4> QED BY <4>3, <4>4, <4>5
    <3> QED BY <3>1, <3>2
  <2>11. ASSUME NEW x \in Sessions PROVE (SlotInv(x) /\ CountInv(x) /\ TokenInv(x))'
    <3>1. SlotInv(x)'
      <4>1. CASE x = s
        BY <1>0, <1>1, <1>5, <2>8, <2>9, <4>1 DEF SlotInv, FlagOwned, TypeOK
      <4>2. CASE x # s
        <5>1. \A v \in Workers : flagOf'[x] = v =>
                wk'[v].pc # "free" /\ (Live(v)' => wk'[v].sess = x)
          BY <1>0, <1>2, <1>5, <2>8, <4>2 DEF SlotInv, FlagOwned
        <5>2. (running'[x] /\ x \notin doubled) => \E v \in Workers : Live(v)' /\ wk'[v].sess = x
          BY <1>0, <1>5, <2>8, <4>2 DEF SlotInv, FlagOwned
        <5>3. SlotInv(x) /\ running'[x] = running[x] /\ Deleting(x)' = Deleting(x)
          BY <1>0, <1>5, <4>2 DEF Deleting
        <5>4. FlagOwned(x)'
          BY <5>1 DEF FlagOwned
        <5> QED BY <5>2, <5>3, <5>4 DEF SlotInv
      <4> QED BY <4>1, <4>2
    <3>2. CountInv(x)'
      BY <1>0 DEF CountInv, InProgress, Interrupting
    <3>3. TokenInv(x)'
      BY <1>0, <1>1, <1>5 DEF TokenInv, TurnPcs
    <3> QED BY <3>1, <3>2, <3>3
  <2>12. ASSUME NEW d \in Deleters PROVE DeleteInv(d)'
    <3>1. CASE del[d].pc = "idle"
      BY <3>1 DEF DeleteInv, AloneInv
    <3>2. CASE del[d].pc # "idle"
      <4>1. del[d].sess \in Sessions \ {s}
        BY <1>0, <1>7, <2>9, <3>2 DEF DeleteInv, AloneInv
      <4>2. \A v \in Workers : (Live(v)' /\ wk'[v].sess = del[d].sess) =>
                                 (Live(v) /\ wk[v].sess = del[d].sess)
        BY <1>1, <1>5, <2>8, <4>1
      <4>3. \A v \in Workers : del[d].flag = v =>
              wk'[v].pc # "free" /\ (Live(v)' => wk'[v].sess = del[d].sess)
        BY <1>0, <1>2, <1>5, <2>8, <3>2 DEF DeleteInv
      <4>4. del[d].sess \notin doubled => AloneInv(d)'
        BY <1>0, <1>5, <3>2, <4>1, <4>2 DEF DeleteInv, AloneInv
      <4> QED BY <1>0, <3>2, <4>3, <4>4 DEF DeleteInv
    <3> QED BY <3>1, <3>2
  <2>13. ASSUME NEW i \in Interrupters PROVE InterruptInv(i)'
    BY <1>0, <1>1, <1>5, <2>7 DEF InterruptInv, TurnPcs, Live
  <2> QED BY <1>3, <1>4, <2>10, <2>11, <2>12, <2>13
<1> QED BY <1>6, <1>7

(***************************************************************************)
(* The window's calls.                                                     *)
(***************************************************************************)
LEMMA AppendLast ==
  ASSUME NEW a \in Seq(Prompts), NEW b \in Seq(Prompts), NEW p \in Prompts
  PROVE  Append(a \o b, p) = a \o Append(b, p)
  OBVIOUS

LEMMA EmptyJoins ==
  ASSUME NEW a \in Seq(Prompts)
  PROVE  a \o <<>> = a /\ <<>> \o a = a
  OBVIOUS

LEMMA AppendIsJoin ==
  ASSUME NEW a \in Seq(Prompts), NEW p \in Prompts
  PROVE  a \o <<p>> = Append(a, p)
  OBVIOUS

LEMMA HeadMoves ==
  ASSUME NEW a \in Seq(Prompts), NEW b \in Seq(Prompts), b # <<>>
  PROVE  Append(a, Head(b)) \o Tail(b) = a \o b /\ Head(b) \in Prompts /\ Tail(b) \in Seq(Prompts)
  OBVIOUS

\* with nothing being injected, the order of a session's prompts reads simply
LEMMA OrderWhenIdle ==
  ASSUME TypeOK, NEW s \in Sessions, Injected(s) = <<>>
  PROVE  OrderInv(s) <=> shutting \/ s \in doubled \/ accepted[s] = taken[s] \o queue[s]
  BY EmptyJoins DEF TypeOK, OrderInv

\* a step that changes neither workers, slots nor the threads of the operations
LEMMA WindowStep ==
  ASSUME RunnerInv,
         UNCHANGED <<running, handle, flagOf, flag, token, nextRun, interrupts, wk,
                     retiring, shutting, doubled, blocked, intr, del, shut, present>>,
         \A s \in Sessions \ doubled :
           queue'[s] # <<>> => running[s] /\ (s \in retiring => queue[s] # <<>>)
  PROVE  /\ \A v \in Workers : (ShapeInv(v) /\ OwnerInv(v) /\ ArmedInv(v))'
         /\ \A s \in Sessions : (SlotInv(s) /\ CountInv(s) /\ TokenInv(s))'
         /\ \A d \in Deleters : DeleteInv(d)'
         /\ \A i \in Interrupters : InterruptInv(i)'
<1>0. /\ TypeOK
      /\ \A v \in Workers : ShapeInv(v) /\ OwnerInv(v) /\ ArmedInv(v)
      /\ \A s \in Sessions : SlotInv(s) /\ CountInv(s) /\ TokenInv(s)
      /\ \A d \in Deleters : DeleteInv(d)
      /\ \A i \in Interrupters : InterruptInv(i)
  BY RunnerInvFacts
<1>1. ASSUME NEW v \in Workers PROVE (ShapeInv(v) /\ OwnerInv(v) /\ ArmedInv(v))'
  BY <1>0 DEF ShapeInv, OwnerInv, ArmedInv, Live, Refused, Interrupting
<1>2. ASSUME NEW s \in Sessions PROVE (SlotInv(s) /\ CountInv(s) /\ TokenInv(s))'
  <2>1. SlotInv(s)'
    BY <1>0 DEF SlotInv, FlagOwned, Live, Deleting
  <2>2. CountInv(s)'
    BY <1>0 DEF CountInv, InProgress, Interrupting
  <2>3. TokenInv(s)'
    BY <1>0 DEF TokenInv
  <2> QED BY <2>1, <2>2, <2>3
<1>3. ASSUME NEW d \in Deleters PROVE DeleteInv(d)'
  BY <1>0 DEF DeleteInv, AloneInv, Live
<1>4. ASSUME NEW i \in Interrupters PROVE InterruptInv(i)'
  BY <1>0 DEF InterruptInv
<1> QED BY <1>1, <1>2, <1>3, <1>4

LEMMA WindowActions ==
  ASSUME RunnerInv
  PROVE  /\ \A s \in Sessions, p \in Prompts :
              SubmitQueued(s, p) \/ SubmitSpawn(s, p) \/ InjectMessage(s, p) => RunnerInv'
         /\ \A s \in Sessions :
              ContinueSession(s) \/ RetryRead(s) \/ CompactNow(s) => RunnerInv'
         /\ InjectAppend \/ RetryRun => RunnerInv'
<1>0. /\ TypeOK /\ (shutting <=> shut.pc # "idle") /\ GuiInv
      /\ \A v \in Workers : OwnerInv(v)
      /\ \A s \in Sessions : SlotInv(s) /\ OrderInv(s)
  BY RunnerInvFacts
<1>1. ASSUME NEW s \in Sessions, NEW p \in Prompts, SubmitQueued(s, p) PROVE RunnerInv'
  <2>1. /\ gui.pc = "idle" /\ ~Refused(s) /\ running[s] /\ Enqueue(s, p)
        /\ UNCHANGED <<running, handle, flagOf, flag, token, nextRun, interrupts, wk, retiring,
                       shutting, doubled, blocked, brokerShut, intr, del, shut, gui, rows, present, taken>>
    BY <1>1 DEF SubmitQueued, lifeVars, brokVars, opVars, dbVars
  <2>2. TypeOK'
    BY <1>0, <2>1 DEF TypeOK, Enqueue
  <2>3. \A x \in Sessions \ doubled :
         queue'[x] # <<>> => running[x] /\ (x \in retiring => queue[x] # <<>>)
    BY <1>0, <2>1 DEF TypeOK, Enqueue, SlotInv, Refused
  <2>4. ASSUME NEW x \in Sessions PROVE OrderInv(x)'
    <3>1. Injected(x) = <<>> /\ Injected(x)' = <<>>
      BY <2>1 DEF Injected
    <3>2. CASE x = s
      <4>1. accepted'[s] = Append(accepted[s], p) /\ queue'[s] = Append(queue[s], p)
        BY <1>0, <2>1 DEF Enqueue, TypeOK
      <4>2. shutting \/ s \in doubled \/ accepted'[s] = taken[s] \o queue'[s]
        <5>1. taken[s] \in Seq(Prompts) /\ queue[s] \in Seq(Prompts)
          BY <1>0 DEF TypeOK
        <5>2. shutting \/ s \in doubled \/ accepted[s] = taken[s] \o queue[s]
          BY <1>0, <3>1, <3>2, OrderWhenIdle
        <5>3. Append(taken[s] \o queue[s], p) = taken[s] \o Append(queue[s], p)
          BY <5>1, AppendLast, Zenon
        <5> QED BY <4>1, <5>2, <5>3
      <4>3. taken[s] \in Seq(Prompts) /\ taken[s] \o <<>> = taken[s]
        BY <1>0, EmptyJoins DEF TypeOK
      <4> QED BY <2>1, <3>1, <3>2, <4>2, <4>3 DEF OrderInv
    <3>3. CASE x # s
      BY <1>0, <2>1, <3>1, <3>3 DEF Enqueue, TypeOK, OrderInv
    <3> QED BY <3>2, <3>3
  <2>5. GuiInv'
    BY <2>1 DEF GuiInv
  <2> QED BY <1>0, <2>1, <2>2, <2>3, <2>4, <2>5, WindowStep DEF RunnerInv
<1>2. ASSUME NEW s \in Sessions, NEW p \in Prompts, SubmitSpawn(s, p) PROVE RunnerInv'
  <2>1. PICK w \in Workers : SpawnAt(s, w, p, "start", None, FALSE)
    BY <1>2 DEF SubmitSpawn, Spawn
  <2>2. /\ gui.pc = "idle" /\ ~Refused(s) /\ ~running[s]
        /\ accepted' = [accepted EXCEPT ![s] = Append(@, p)]
        /\ taken' = [taken EXCEPT ![s] = Append(@, p)]
        /\ UNCHANGED <<queue, token, nextRun, interrupts, retiring, shutting, doubled, blocked,
                       brokerShut, intr, del, shut, gui, rows, present>>
    BY <1>2 DEF SubmitSpawn, Idle, lifeVars, brokVars, opVars, dbVars
  <2>3. /\ wk' \in [Workers -> WorkerRec] /\ running' \in [Sessions -> BOOLEAN]
        /\ flagOf' \in [Sessions -> Workers \cup {None}]
        /\ handle' \in [Sessions -> Workers \cup {None}]
        /\ flag' \in [Workers -> {"none", "down", "up", "freed"}]
        /\ \A v \in Workers : (ShapeInv(v) /\ OwnerInv(v) /\ ArmedInv(v))'
        /\ \A x \in Sessions : (SlotInv(x) /\ CountInv(x) /\ TokenInv(x))'
        /\ \A d \in Deleters : DeleteInv(d)'
        /\ \A i \in Interrupters : InterruptInv(i)'
    BY <2>1, <2>2, SpawnStep
  <2>4. TypeOK'
    <3>1. accepted' \in [Sessions -> Seq(Prompts)] /\ taken' \in [Sessions -> Seq(Prompts)]
      BY <1>0, <2>2 DEF TypeOK
    <3> QED BY <1>0, <2>2, <2>3, <3>1 DEF TypeOK
  <2>5. ASSUME NEW x \in Sessions PROVE OrderInv(x)'
    <3>1. Injected(x) = <<>> /\ Injected(x)' = <<>>
      BY <2>2 DEF Injected
    <3>2. CASE x = s
      <4>1. /\ accepted'[s] = Append(accepted[s], p) /\ taken'[s] = Append(taken[s], p)
            /\ s \in doubled \/ queue[s] = <<>>
        BY SMTT(40), <1>0, <2>2 DEF SlotInv, TypeOK
      <4>2. shutting \/ s \in doubled \/ accepted'[s] = taken'[s] \o queue[s]
        <5>1. taken[s] \in Seq(Prompts)
          BY <1>0 DEF TypeOK
        <5>2. shutting \/ s \in doubled \/ accepted[s] = taken[s] \o queue[s]
          BY <1>0, <3>1, <3>2, OrderWhenIdle
        <5>3. shutting \/ s \in doubled \/ accepted[s] = taken[s]
          BY <4>1, <5>1, <5>2, EmptyJoins
        <5>4. Append(taken[s], p) \o <<>> = Append(taken[s], p)
          BY <5>1, EmptyJoins
        <5> QED BY <4>1, <5>3, <5>4
      <4>3. taken'[s] \o <<>> = taken'[s]
        BY <2>4, EmptyJoins DEF TypeOK
      <4> QED BY <2>2, <3>1, <3>2, <4>2, <4>3 DEF OrderInv
    <3>3. CASE x # s
      BY <1>0, <2>2, <3>1, <3>3 DEF TypeOK, OrderInv
    <3> QED BY <3>2, <3>3
  <2>6. GuiInv'
    BY <2>2 DEF GuiInv
  <2> QED BY <1>0, <2>2, <2>3, <2>4, <2>5, <2>6 DEF RunnerInv
<1>3. ASSUME NEW s \in Sessions, NEW p \in Prompts, InjectMessage(s, p) PROVE RunnerInv'
  <2>1. /\ gui.pc = "idle" /\ ~Refused(s)
        /\ UNCHANGED <<running, handle, flagOf, flag, token, nextRun, interrupts, wk, retiring,
                       shutting, doubled, blocked, brokerShut, intr, del, shut, rows, present, taken>>
    BY <1>3 DEF InjectMessage, lifeVars, brokVars, dbVars
  <2>2. CASE running[s]
    <3>1. Enqueue(s, p) /\ UNCHANGED gui
      BY <1>3, <2>2 DEF InjectMessage
    <3>2. SubmitQueued(s, p)
      BY <1>3, <2>1, <2>2, <3>1 DEF InjectMessage, SubmitQueued, lifeVars, brokVars, opVars, dbVars
    <3> QED BY <1>1, <3>2
  <2>3. CASE ~running[s]
    <3>1. /\ gui' = [gui EXCEPT !.pc = "inject", !.sess = s, !.row = p]
          /\ accepted' = [accepted EXCEPT ![s] = Append(@, p)]
          /\ UNCHANGED queue
      BY <1>3, <2>3 DEF InjectMessage
    <3>2. gui'.pc = "inject" /\ gui'.sess = s /\ gui'.row = p /\ gui' \in GuiRec
      BY <1>0, <3>1 DEF TypeOK, GuiRec
    <3>3. TypeOK'
      BY SMTT(40), <1>0, <2>1, <3>1, <3>2 DEF TypeOK
    <3>4. s \in doubled \/ queue[s] = <<>>
      BY <1>0, <2>3 DEF SlotInv
    <3>5. GuiInv'
      BY <2>1, <3>1, <3>2, <3>4 DEF GuiInv
    <3>6. ASSUME NEW x \in Sessions PROVE OrderInv(x)'
      <4>1. Injected(x) = <<>> /\ Injected(x)' = IF x = s THEN <<p>> ELSE <<>>
        BY <2>1, <3>2 DEF Injected
      <4>2. CASE x = s
        <5>1. accepted'[s] = Append(accepted[s], p)
          BY <1>0, <3>1 DEF TypeOK
        <5>2. shutting \/ s \in doubled \/ accepted[s] = taken[s]
          BY <1>0, <3>4, <4>1, <4>2, OrderWhenIdle, EmptyJoins DEF TypeOK
        <5>3. Append(taken[s], p) = (taken[s] \o <<p>>) \o <<>>
          BY SMTT(40), <1>0, AppendIsJoin, EmptyJoins DEF TypeOK
        <5> QED BY <2>1, <3>1, <3>4, <4>1, <4>2, <5>1, <5>2, <5>3 DEF OrderInv
      <4>3. CASE x # s
        BY <1>0, <2>1, <3>1, <4>1, <4>3 DEF TypeOK, OrderInv
      <4> QED BY <4>2, <4>3
    <3>7. \A x \in Sessions \ doubled :
         queue'[x] # <<>> => running[x] /\ (x \in retiring => queue[x] # <<>>)
      BY <1>0, <3>1 DEF SlotInv, FlagOwned
    <3> QED BY <1>0, <2>1, <3>3, <3>5, <3>6, <3>7, WindowStep DEF RunnerInv
  <2> QED BY <2>2, <2>3
<1>4. ASSUME NEW s \in Sessions, ContinueSession(s) PROVE RunnerInv'
  <2>1. PICK w \in Workers : SpawnAt(s, w, None, "start", None, FALSE)
    BY <1>4 DEF ContinueSession, Spawn
  <2>2. /\ ~Refused(s) /\ ~running[s]
        /\ UNCHANGED <<queue, token, nextRun, interrupts, retiring, shutting, doubled, blocked,
                       brokerShut, intr, del, shut, gui, rows, present, accepted, taken>>
    BY <1>4 DEF ContinueSession, Idle, lifeVars, brokVars, opVars, dbVars, histVars
  <2>3. /\ wk' \in [Workers -> WorkerRec] /\ running' \in [Sessions -> BOOLEAN]
        /\ flagOf' \in [Sessions -> Workers \cup {None}]
        /\ handle' \in [Sessions -> Workers \cup {None}]
        /\ flag' \in [Workers -> {"none", "down", "up", "freed"}]
        /\ \A v \in Workers : (ShapeInv(v) /\ OwnerInv(v) /\ ArmedInv(v))'
        /\ \A x \in Sessions : (SlotInv(x) /\ CountInv(x) /\ TokenInv(x))'
        /\ \A d \in Deleters : DeleteInv(d)'
        /\ \A i \in Interrupters : InterruptInv(i)'
    BY <2>1, <2>2, SpawnStep
  <2>4. TypeOK'
    BY <1>0, <2>2, <2>3 DEF TypeOK
  <2>5. GuiInv'
    BY <1>4 DEF ContinueSession, opVars, GuiInv
  <2>6. ASSUME NEW x \in Sessions PROVE OrderInv(x)'
    BY <1>0, <2>2 DEF OrderInv, Injected
  <2> QED BY <1>0, <2>2, <2>3, <2>4, <2>5, <2>6 DEF RunnerInv
<1>5. ASSUME NEW s \in Sessions, RetryRead(s) PROVE RunnerInv'
  <2>1. /\ gui.pc = "idle" /\ ~running[s]
        /\ gui' = [gui EXCEPT !.pc = "retry", !.sess = s, !.keep = Len(rows[s])]
        /\ UNCHANGED <<running, queue, handle, flagOf, flag, token, nextRun, interrupts, wk,
                       retiring, shutting, doubled, blocked, brokerShut, intr, del, shut, rows, present,
                       accepted, taken>>
    BY <1>5 DEF RetryRead, mapVars, lifeVars, brokVars, dbVars, histVars
  <2>2. Len(rows[s]) \in Nat
    BY <1>0 DEF TypeOK
  <2>3. gui'.pc = "retry" /\ gui'.sess = s /\ gui'.keep = Len(rows[s]) /\ gui' \in GuiRec
    BY <1>0, <2>1, <2>2 DEF TypeOK, GuiRec
  <2>4. TypeOK'
    BY <1>0, <2>1, <2>3 DEF TypeOK
  <2>5. GuiInv'
    BY <2>1, <2>2, <2>3 DEF GuiInv
  <2>6. ASSUME NEW x \in Sessions PROVE OrderInv(x)'
    BY <1>0, <2>1, <2>3 DEF OrderInv, Injected
  <2>7. \A x \in Sessions \ doubled :
         queue'[x] # <<>> => running[x] /\ (x \in retiring => queue[x] # <<>>)
    BY <1>0, <2>1 DEF SlotInv, FlagOwned
  <2> QED BY <1>0, <2>1, <2>4, <2>5, <2>6, <2>7, WindowStep DEF RunnerInv
<1>6. ASSUME NEW s \in Sessions, CompactNow(s) PROVE RunnerInv'
  <2>1. PICK w \in Workers : SpawnAt(s, w, None, "mint", w, TRUE)
    BY <1>6 DEF CompactNow
  <2>2. /\ ~Refused(s) /\ ~running[s]
        /\ UNCHANGED <<queue, token, nextRun, interrupts, retiring, shutting, doubled, blocked,
                       brokerShut, intr, del, shut, gui, rows, present, accepted, taken>>
    BY <1>6 DEF CompactNow, Idle, lifeVars, brokVars, opVars, dbVars, histVars
  <2>3. /\ wk' \in [Workers -> WorkerRec] /\ running' \in [Sessions -> BOOLEAN]
        /\ flagOf' \in [Sessions -> Workers \cup {None}]
        /\ handle' \in [Sessions -> Workers \cup {None}]
        /\ flag' \in [Workers -> {"none", "down", "up", "freed"}]
        /\ \A v \in Workers : (ShapeInv(v) /\ OwnerInv(v) /\ ArmedInv(v))'
        /\ \A x \in Sessions : (SlotInv(x) /\ CountInv(x) /\ TokenInv(x))'
        /\ \A d \in Deleters : DeleteInv(d)'
        /\ \A i \in Interrupters : InterruptInv(i)'
    BY <2>1, <2>2, SpawnStep
  <2>4. TypeOK'
    BY <1>0, <2>2, <2>3 DEF TypeOK
  <2>5. GuiInv'
    BY <1>6 DEF CompactNow, opVars, GuiInv
  <2>6. ASSUME NEW x \in Sessions PROVE OrderInv(x)'
    BY <1>0, <2>2 DEF OrderInv, Injected
  <2> QED BY <1>0, <2>2, <2>3, <2>4, <2>5, <2>6 DEF RunnerInv
<1>7. ASSUME InjectAppend PROVE RunnerInv'
  <2> DEFINE s == gui.sess
  <2>1. /\ gui.pc = "inject" /\ s \in Sessions /\ gui.row \in Prompts
        /\ shutting \/ s \in doubled \/ queue[s] = <<>>
    BY <1>0, <1>7 DEF InjectAppend, GuiInv
  <2>2. /\ gui' = [gui EXCEPT !.pc = "idle", !.sess = None, !.row = None]
        /\ taken' = [taken EXCEPT ![s] = Append(@, gui.row)]
        /\ UNCHANGED <<running, queue, handle, flagOf, flag, token, nextRun, interrupts, wk,
                       retiring, shutting, doubled, blocked, brokerShut, intr, del, shut, present,
                       accepted>>
    BY <1>7 DEF InjectAppend, mapVars, lifeVars, brokVars
  <2>3. rows' = rows \/ rows' = [rows EXCEPT ![s] = Append(@, gui.row)]
    BY <1>7 DEF InjectAppend
  <2>4. gui'.pc = "idle" /\ gui' \in GuiRec
    BY <1>0, <2>2 DEF TypeOK, GuiRec
  <2>5. TypeOK'
    <3>1. rows' \in [Sessions -> Seq(Prompts)] /\ taken' \in [Sessions -> Seq(Prompts)]
      <4>1. \A x \in Sessions : /\ Append(rows[x], gui.row) \in Seq(Prompts)
                              /\ Append(taken[x], gui.row) \in Seq(Prompts)
        BY <1>0, <2>1 DEF TypeOK
      <4>2. rows \in [Sessions -> Seq(Prompts)] /\ taken \in [Sessions -> Seq(Prompts)]
        BY <1>0 DEF TypeOK
      <4> HIDE DEF s
      <4> QED BY <2>2, <2>3, <4>1, <4>2
    <3> QED BY <1>0, <2>2, <2>4, <3>1 DEF TypeOK
  <2>6. GuiInv'
    BY <2>4 DEF GuiInv
  <2>7. ASSUME NEW x \in Sessions PROVE OrderInv(x)'
    <3>1. Injected(x) = (IF x = s THEN <<gui.row>> ELSE <<>>) /\ Injected(x)' = <<>>
      BY <2>1, <2>4 DEF Injected
    <3>2. CASE x = s
      <4>1. taken'[s] = Append(taken[s], gui.row) /\ taken[s] \in Seq(Prompts)
        BY <1>0, <2>1, <2>2 DEF TypeOK
      <4>2. shutting \/ s \in doubled \/ accepted[s] = (taken[s] \o <<gui.row>>) \o <<>>
        BY <1>0, <2>1, <3>1, <3>2 DEF OrderInv
      <4>3. (taken[s] \o <<gui.row>>) \o <<>> = (taken'[s] \o <<>>) \o <<>>
        BY <2>1, <4>1, AppendIsJoin, EmptyJoins
      <4> QED BY <2>1, <2>2, <3>1, <3>2, <4>2, <4>3 DEF OrderInv
    <3>3. CASE x # s
      BY <1>0, <2>2, <3>1, <3>3 DEF TypeOK, OrderInv
    <3> QED BY <3>2, <3>3
  <2>8. \A x \in Sessions \ doubled :
         queue'[x] # <<>> => running[x] /\ (x \in retiring => queue[x] # <<>>)
    BY <1>0, <2>2 DEF SlotInv, FlagOwned
  <2> QED BY <1>0, <2>2, <2>5, <2>6, <2>7, <2>8, WindowStep DEF RunnerInv
<1>8. ASSUME RetryRun PROVE RunnerInv'
  <2> DEFINE s == gui.sess
  <2>1. gui.pc = "retry" /\ s \in Sessions
    BY <1>0, <1>8 DEF RetryRun, GuiInv
  <2>2. /\ gui' = [gui EXCEPT !.pc = "idle", !.sess = None, !.keep = 0]
        /\ UNCHANGED <<queue, token, nextRun, interrupts, retiring, shutting, doubled, blocked,
                       brokerShut, intr, del, shut, present, accepted, taken>>
    BY <1>8 DEF RetryRun, mapVars, lifeVars, brokVars, histVars
  <2>3. gui'.pc = "idle" /\ gui' \in GuiRec
    BY <1>0, <2>2 DEF TypeOK, GuiRec
  <2>4. GuiInv'
    BY <2>3 DEF GuiInv
  <2>5. ASSUME NEW x \in Sessions PROVE OrderInv(x)'
    BY <1>0, <2>1, <2>2, <2>3 DEF OrderInv, Injected
  <2>6. CASE UNCHANGED <<mapVars, flag, wk, rows>>
    <3>1. UNCHANGED <<running, handle, flagOf, flag, wk, rows>>
      BY <2>6 DEF mapVars
    <3>2. TypeOK'
      BY <1>0, <2>2, <2>3, <3>1 DEF TypeOK
    <3>3. \A x \in Sessions \ doubled :
         queue'[x] # <<>> => running[x] /\ (x \in retiring => queue[x] # <<>>)
      BY <1>0, <2>2 DEF SlotInv, FlagOwned
    <3> QED BY <1>0, <2>2, <2>4, <2>5, <3>1, <3>2, <3>3, WindowStep DEF RunnerInv
  <2>7. CASE ~UNCHANGED <<mapVars, flag, wk, rows>>
    <3>1. /\ ~Refused(s) /\ ~running[s] /\ Spawn(s, None)
          /\ rows' = [rows EXCEPT ![s] = RowsUpTo(s)]
      BY <1>8, <2>7 DEF RetryRun, Idle
    <3>2. PICK w \in Workers : SpawnAt(s, w, None, "start", None, FALSE)
      BY <3>1 DEF Spawn
    <3>3. /\ wk' \in [Workers -> WorkerRec] /\ running' \in [Sessions -> BOOLEAN]
          /\ flagOf' \in [Sessions -> Workers \cup {None}]
          /\ handle' \in [Sessions -> Workers \cup {None}]
          /\ flag' \in [Workers -> {"none", "down", "up", "freed"}]
          /\ \A v \in Workers : (ShapeInv(v) /\ OwnerInv(v) /\ ArmedInv(v))'
          /\ \A x \in Sessions : (SlotInv(x) /\ CountInv(x) /\ TokenInv(x))'
          /\ \A d \in Deleters : DeleteInv(d)'
          /\ \A i \in Interrupters : InterruptInv(i)'
      BY <2>1, <2>2, <3>1, <3>2, SpawnStep
    <3>4. RowsUpTo(s) \in Seq(Prompts)
      BY <1>0, <2>1 DEF RowsUpTo, TypeOK, GuiRec
    <3>5. rows' \in [Sessions -> Seq(Prompts)]
      BY <1>0, <3>1, <3>4 DEF TypeOK
    <3>6. TypeOK'
      BY <1>0, <2>2, <2>3, <3>3, <3>5 DEF TypeOK
    <3> QED BY <1>0, <2>2, <2>4, <2>5, <3>3, <3>6 DEF RunnerInv
  <2> QED BY <2>6, <2>7
<1> QED BY <1>1, <1>2, <1>3, <1>4, <1>5, <1>6, <1>7, <1>8

(***************************************************************************)
(* The worker's turn.                                                      *)
(***************************************************************************)
LEMMA MovedRecord ==
  ASSUME TypeOK, NEW w \in Workers, NEW place \in WorkerPc
  PROVE  LET r == [wk[w] EXCEPT !.pc = place] IN
         /\ r \in WorkerRec /\ r.pc = place /\ r.sess = wk[w].sess /\ r.row = wk[w].row
         /\ r.held = wk[w].held /\ r.tok = wk[w].tok /\ r.left = wk[w].left
         /\ r.compact = wk[w].compact
<1>1. wk[w] \in WorkerRec
  BY DEF TypeOK
<1> QED BY <1>1 DEF WorkerRec

\* the worker only moves to another place of its turn
LEMMA GotoStep ==
  ASSUME RunnerInv, NEW w \in Workers, Live(w), NEW place \in WorkerPc,
         Goto(w, place), WorkerLocal(w), place \notin ExitPcs \cup {"mint", "stop", "store"},
         place \in TurnPcs => wk[w].pc \in TurnPcs,
         place \notin UnarmedPcs /\ ~wk[w].compact => wk[w].pc \notin UnarmedPcs,
         wk[w].compact => place \in CompactPcs,
         place \in TurnPcs \ {"step"} /\ ~wk[w].compact => wk[w].left # 0
  PROVE  RunnerInv'
<1>0. TypeOK
  BY RunnerInvFacts
<1> DEFINE r == [wk[w] EXCEPT !.pc = place]
<1>1. /\ r \in WorkerRec /\ r.pc = place /\ r.sess = wk[w].sess /\ r.held = wk[w].held
      /\ r.tok = wk[w].tok /\ r.left = wk[w].left /\ r.compact = wk[w].compact
  BY <1>0, MovedRecord
<1>2. Become(w, r)
  BY DEF Goto
<1> HIDE DEF r
<1> QED BY <1>1, <1>2, LocalStep

\* the turn goes on with its next iteration
LEMMA IterationStep ==
  ASSUME RunnerInv, NEW w \in Workers, wk[w].pc \in {"call", "approval", "asking"},
         Become(w, NextIteration(w)), WorkerLocal(w)
  PROVE  RunnerInv'
<1>0. TypeOK /\ ShapeInv(w) /\ wk[w] \in WorkerRec
  BY RunnerInvFacts DEF TypeOK
<1>1. ~wk[w].compact /\ wk[w].left # 0 /\ wk[w].left \in 0..Steps
  BY <1>0 DEF ShapeInv, CompactPcs, TurnPcs, WorkerRec
<1> DEFINE r == NextIteration(w)
<1>2. /\ r \in WorkerRec /\ r.pc = "step" /\ r.sess = wk[w].sess /\ r.held = wk[w].held
      /\ r.tok = wk[w].tok /\ r.compact = wk[w].compact
  <2>1. wk[w].left - 1 \in 0..Steps
    BY <1>1, RunnerAssumption
  <2>2. r = [wk[w] EXCEPT !.pc = "step", !.left = wk[w].left - 1, !.wait = "none"]
    BY <1>0 DEF NextIteration, WorkerRec
  <2> HIDE DEF r
  <2> QED BY <1>0, <2>1, <2>2 DEF WorkerRec, WorkerPc
<1> HIDE DEF r
<1>3. Become(w, r)
  BY DEF r
<1> QED BY <1>1, <1>2, <1>3, LocalStep DEF Live, ExitPcs, TurnPcs, UnarmedPcs

LEMMA TurnActions ==
  ASSUME RunnerInv, NEW w \in Workers,
         \/ LoopStep(w) \/ OpenStream(w) \/ StreamEnds(w) \/ ToolCall(w)
         \/ SubmitApproval(w) \/ ApprovalDone(w) \/ AskOpen(w) \/ AskDone(w)
         \/ TurnThrows(w) \/ \E a \in {"yes", "no"} : UserDecides(w, a)
         \/ ReplyToAsk(w)
  PROVE  RunnerInv'
<1>0. TypeOK /\ ShapeInv(w) /\ wk[w] \in WorkerRec
  BY RunnerInvFacts DEF TypeOK
<1>1. CASE LoopStep(w)
  <2>1. /\ wk[w].pc = "step" /\ WorkerLocal(w)
        /\ \E place \in {"tail", "ready"} :
              Goto(w, place) /\ (place = "ready" => wk[w].left # 0)
    BY <1>1 DEF LoopStep, BudgetSpent
  <2>2. ~wk[w].compact
    BY <1>0, <2>1 DEF ShapeInv, CompactPcs
  <2> QED BY <2>1, <2>2, GotoStep DEF Live, ExitPcs, TurnPcs, UnarmedPcs, WorkerPc
<1>2. CASE OpenStream(w)
  <2> DEFINE r == [wk[w] EXCEPT !.pc = "streaming", !.cut = FALSE]
  <2>1. wk[w].pc = "ready" /\ Become(w, r) /\ WorkerLocal(w)
    BY <1>2 DEF OpenStream
  <2>2. /\ r \in WorkerRec /\ r.pc = "streaming" /\ r.sess = wk[w].sess /\ r.held = wk[w].held
        /\ r.tok = wk[w].tok /\ r.left = wk[w].left /\ r.compact = wk[w].compact
    BY <1>0 DEF WorkerRec, WorkerPc
  <2>3. ~r.compact => r.left # 0
    BY <1>0, <2>1, <2>2 DEF ShapeInv, TurnPcs
  <2> HIDE DEF r
  <2> QED BY <2>1, <2>2, <2>3, LocalStep DEF Live, ExitPcs, TurnPcs, UnarmedPcs, CompactPcs
<1>3. CASE StreamEnds(w)
  <2>1. PICK place \in {"tail", "call"} :
           /\ place = "call" => ~wk[w].cut /\ ~wk[w].compact
           /\ Become(w, [wk[w] EXCEPT !.pc = place, !.cut = FALSE])
    BY <1>3 DEF StreamEnds
  <2> DEFINE r == [wk[w] EXCEPT !.pc = place, !.cut = FALSE]
  <2>2. wk[w].pc = "streaming" /\ Become(w, r) /\ WorkerLocal(w)
    BY <1>3, <2>1 DEF StreamEnds
  <2>3. /\ r \in WorkerRec /\ r.pc = place /\ r.sess = wk[w].sess /\ r.held = wk[w].held
        /\ r.tok = wk[w].tok /\ r.left = wk[w].left /\ r.compact = wk[w].compact
    BY <1>0 DEF WorkerRec, WorkerPc
  <2>4. ~r.compact => r.left # 0
    BY <1>0, <2>2, <2>3 DEF ShapeInv, TurnPcs
  <2> HIDE DEF r
  <2> QED BY <2>1, <2>2, <2>3, <2>4, LocalStep DEF Live, ExitPcs, TurnPcs, UnarmedPcs, CompactPcs
<1>4. CASE ToolCall(w)
  <2>1. wk[w].pc = "call" /\ WorkerLocal(w)
    BY <1>4 DEF ToolCall
  <2>2. ~wk[w].compact /\ wk[w].left # 0
    BY <1>0, <2>1 DEF ShapeInv, CompactPcs, TurnPcs
  <2>3. CASE Become(w, NextIteration(w))
    BY <2>1, <2>3, IterationStep
  <2>4. CASE Goto(w, "submit")
    BY <2>1, <2>2, <2>4, GotoStep DEF Live, ExitPcs, TurnPcs, UnarmedPcs, WorkerPc
  <2>5. CASE Goto(w, "askreg")
    BY <2>1, <2>2, <2>5, GotoStep DEF Live, ExitPcs, TurnPcs, UnarmedPcs, WorkerPc
  <2> QED BY <1>4, <2>3, <2>4, <2>5 DEF ToolCall
<1>5. CASE SubmitApproval(w)
  <2>1. wk[w].pc = "submit" /\ WorkerLocal(w)
    BY <1>5 DEF SubmitApproval
  <2>2. ~wk[w].compact /\ wk[w].left # 0
    BY <1>0, <2>1 DEF ShapeInv, CompactPcs, TurnPcs
  <2>3. CASE Goto(w, "tail")
    BY <2>1, <2>2, <2>3, GotoStep DEF Live, ExitPcs, TurnPcs, UnarmedPcs, WorkerPc
  <2>4. CASE Become(w, [wk[w] EXCEPT !.pc = "approval", !.wait = "open"])
    <3> DEFINE r == [wk[w] EXCEPT !.pc = "approval", !.wait = "open"]
    <3>1. /\ r \in WorkerRec /\ r.pc = "approval" /\ r.sess = wk[w].sess /\ r.held = wk[w].held
          /\ r.tok = wk[w].tok /\ r.left = wk[w].left /\ r.compact = wk[w].compact
          /\ Become(w, r)
      BY <1>0, <2>4 DEF WorkerRec, WorkerPc
    <3> HIDE DEF r
    <3> QED BY <2>1, <2>2, <3>1, LocalStep DEF Live, ExitPcs, TurnPcs, UnarmedPcs
  <2> QED BY <1>5, <2>3, <2>4 DEF SubmitApproval, Goto
<1>6. CASE ApprovalDone(w)
  <2>1. wk[w].pc = "approval" /\ WorkerLocal(w)
    BY <1>6 DEF ApprovalDone
  <2>2. CASE Become(w, NextIteration(w))
    BY <2>1, <2>2, IterationStep
  <2>3. CASE Become(w, [wk[w] EXCEPT !.pc = "tail", !.wait = "none"])
    <3> DEFINE r == [wk[w] EXCEPT !.pc = "tail", !.wait = "none"]
    <3>1. /\ r \in WorkerRec /\ r.pc = "tail" /\ r.sess = wk[w].sess /\ r.held = wk[w].held
          /\ r.tok = wk[w].tok /\ r.left = wk[w].left /\ r.compact = wk[w].compact
          /\ Become(w, r)
      BY <1>0, <2>3 DEF WorkerRec, WorkerPc
    <3>2. ~wk[w].compact
      BY <1>0, <2>1 DEF ShapeInv, CompactPcs
    <3> HIDE DEF r
    <3> QED BY <2>1, <3>1, <3>2, LocalStep DEF Live, ExitPcs, TurnPcs, UnarmedPcs
  <2> QED BY <1>6, <2>2, <2>3 DEF ApprovalDone
<1>7. CASE AskOpen(w)
  <2> DEFINE r == [wk[w] EXCEPT !.pc = "asking", !.wait = "open"]
  <2>1. wk[w].pc = "askreg" /\ WorkerLocal(w) /\ Become(w, r)
    BY <1>7 DEF AskOpen
  <2>2. ~wk[w].compact /\ wk[w].left # 0
    BY <1>0, <2>1 DEF ShapeInv, CompactPcs, TurnPcs
  <2>3. /\ r \in WorkerRec /\ r.pc = "asking" /\ r.sess = wk[w].sess /\ r.held = wk[w].held
        /\ r.tok = wk[w].tok /\ r.left = wk[w].left /\ r.compact = wk[w].compact
    BY <1>0 DEF WorkerRec, WorkerPc
  <2> HIDE DEF r
  <2> QED BY <2>1, <2>2, <2>3, LocalStep DEF Live, ExitPcs, TurnPcs, UnarmedPcs
<1>8. CASE AskDone(w)
  <2>1. wk[w].pc = "asking" /\ Become(w, NextIteration(w)) /\ WorkerLocal(w)
    BY <1>8 DEF AskDone
  <2> QED BY <2>1, IterationStep
<1>9. CASE TurnThrows(w)
  <2>1. /\ wk[w].pc \in {"step", "call", "streaming"} /\ WorkerLocal(w)
        /\ Goto(w, IF wk[w].compact THEN "tail" ELSE "drain")
    BY <1>9 DEF TurnThrows
  <2> QED BY <2>1, GotoStep DEF Live, ExitPcs, TurnPcs, UnarmedPcs, CompactPcs, WorkerPc
<1>10. ASSUME NEW a \in {"yes", "no"},
              Become(w, [wk[w] EXCEPT !.wait = a]), WorkerLocal(w),
              wk[w].pc \in {"approval", "asking"}
       PROVE  RunnerInv'
  <2> DEFINE r == [wk[w] EXCEPT !.wait = a]
  <2>1. /\ r \in WorkerRec /\ r.pc = wk[w].pc /\ r.sess = wk[w].sess /\ r.held = wk[w].held
        /\ r.tok = wk[w].tok /\ r.left = wk[w].left /\ r.compact = wk[w].compact
        /\ Become(w, r)
    BY <1>0, <1>10 DEF WorkerRec, WorkerPc
  <2>2. ~wk[w].compact /\ wk[w].left # 0
    BY <1>0, <1>10 DEF ShapeInv, CompactPcs, TurnPcs
  <2> HIDE DEF r
  <2> QED BY <1>10, <2>1, <2>2, LocalStep DEF Live, ExitPcs, TurnPcs, UnarmedPcs
<1>11. CASE \E a \in {"yes", "no"} : UserDecides(w, a)
  BY <1>10, <1>11 DEF UserDecides, Parked
<1>12. CASE ReplyToAsk(w)
  BY <1>10, <1>12 DEF ReplyToAsk, Parked
<1> QED BY <1>1, <1>2, <1>3, <1>4, <1>5, <1>6, <1>7, <1>8, <1>9, <1>11, <1>12

\* no interrupt of the session is in progress once the wait for it is over
LEMMA NoneInProgress ==
  ASSUME RunnerInv, NEW s \in Sessions, s \in present, InterruptsOver(s)
  PROVE  \A i \in Interrupters : ~Interrupting(i, s)
<1>1. IsFiniteSet(InProgress(s)) /\ Cardinality(InProgress(s)) = 0
  BY RunnerInvFacts DEF CountInv, InterruptsOver
<1>2. InProgress(s) = {}
  BY <1>1, FS_EmptySet
<1> QED BY <1>2 DEF InProgress

LEMMA TurnBounds ==
  ASSUME RunnerInv, NEW w \in Workers,
         \/ RunnerStart(w) \/ StorePromptRow(w) \/ EnterLoop(w) \/ CompactMint(w)
         \/ LoopTail(w)
  PROVE  RunnerInv'
<1>0. /\ TypeOK /\ ShapeInv(w) /\ OwnerInv(w) /\ ArmedInv(w) /\ wk[w] \in WorkerRec
      /\ \A x \in Sessions : TokenInv(x)
  BY RunnerInvFacts DEF TypeOK
<1>1. /\ Live(w) /\ wk[w].sess \in Sessions /\ wk[w].tok < nextRun
      /\ wk[w].sess \in present \/ wk[w].sess \in doubled
  BY <1>0 DEF RunnerStart, StorePromptRow, EnterLoop, CompactMint, LoopTail, Live, ShapeInv,
     OwnerInv
<1>2. /\ wk \in [Workers -> WorkerRec] /\ rows \in [Sessions -> Seq(Prompts)]
      /\ token \in [Sessions -> Nat] /\ nextRun \in Nat \ {0}
  BY <1>0 DEF TypeOK
<1>3. UNCHANGED <<running, queue, handle, flagOf, flag, interrupts, retiring, shutting, doubled,
                  brokerShut, intr, del, shut, gui, present, accepted, taken>>
  BY DEF RunnerStart, StorePromptRow, EnterLoop, CompactMint, LoopTail, WorkerKeeps,
     lifeVars, opVars, brokVars, dbVars
<1>4. CASE RunnerStart(w)
  <2>1. /\ wk[w].pc = "start" /\ InterruptsOver(wk[w].sess)
        /\ blocked' = blocked \ {wk[w].sess} /\ UNCHANGED <<token, nextRun, rows>>
    BY <1>4 DEF RunnerStart, dbVars
  <2>2. PICK place \in {"enter", "store"} :
           Goto(w, place) /\ (place = "store" => wk[w].row # None)
    BY <1>4 DEF RunnerStart
  <2> DEFINE r == [wk[w] EXCEPT !.pc = place]
  <2>3. /\ r \in WorkerRec /\ r.pc = place /\ r.sess = wk[w].sess /\ r.row = wk[w].row
        /\ r.held = wk[w].held /\ r.tok = wk[w].tok /\ r.left = wk[w].left
        /\ r.compact = wk[w].compact
    <3>1. place \in WorkerPc
      BY DEF WorkerPc
    <3> QED BY <1>0, <3>1, MovedRecord
  <2>4. Become(w, r)
    BY <2>2 DEF Goto
  <2> HIDE DEF r
  <2>5. wk'[w] = r
    BY <1>2, <2>4 DEF Become
  <2>6. ShapeInv(w)'
    BY <1>0, <1>1, <1>3, <2>1, <2>2, <2>3, <2>5 DEF ShapeInv, TurnPcs, CompactPcs, WorkerRec
  <2>7. ArmedInv(w)'
    <3>1. wk[w].sess \notin doubled => \A i \in Interrupters : ~Interrupting(i, wk[w].sess)
      BY <1>1, <2>1, NoneInProgress
    <3> QED BY <1>3, <2>1, <2>3, <2>5, <3>1 DEF ArmedInv, Interrupting
  <2>8. TokenMoves(w)
    BY <1>2, <2>1, <2>2, <2>3, <2>5 DEF TokenMoves, TurnPcs
  <2>9. blocked' \in SUBSET blocked
    BY <2>1
  <2> QED BY <1>1, <1>2, <1>3, <2>1, <2>2, <2>3, <2>4, <2>6, <2>7, <2>8, <2>9, OwnStep DEF ExitPcs
<1>5. CASE StorePromptRow(w)
  <2>1. PICK place \in {"enter", "drain"} : PromptDone(w, place)
    BY <1>5 DEF StorePromptRow
  <2>2. /\ wk[w].pc = "store" /\ UNCHANGED <<token, nextRun, blocked>>
        /\ rows' \in {rows, [rows EXCEPT ![wk[w].sess] = Append(@, wk[w].row)]}
    BY <1>5 DEF StorePromptRow, brokVars
  <2> DEFINE r == [wk[w] EXCEPT !.pc = place, !.row = None]
  <2>3. /\ r \in WorkerRec /\ r.pc = place /\ r.sess = wk[w].sess /\ r.held = wk[w].held
        /\ r.tok = wk[w].tok /\ r.compact = wk[w].compact
    BY <1>0 DEF WorkerRec, WorkerPc
  <2>4. Become(w, r)
    BY <2>1 DEF PromptDone
  <2> HIDE DEF r
  <2>5. wk'[w] = r
    BY <1>2, <2>4 DEF Become
  <2>6. ShapeInv(w)'
    BY <1>0, <1>1, <1>3, <2>2, <2>3, <2>5 DEF ShapeInv, TurnPcs, CompactPcs
  <2>7. ArmedInv(w)'
    BY <1>0, <1>1, <1>3, <2>2, <2>3, <2>5 DEF ArmedInv, Interrupting, UnarmedPcs, Live
  <2>8. TokenMoves(w)
    BY <1>2, <2>2, <2>3, <2>5 DEF TokenMoves, TurnPcs
  <2>9. rows' \in [Sessions -> Seq(Prompts)]
    <3>1. wk[w].row \in Prompts
      BY <1>0, <2>2 DEF ShapeInv
    <3>2. Append(rows[wk[w].sess], wk[w].row) \in Seq(Prompts)
      BY <1>1, <1>2, <3>1
    <3> QED BY <1>2, <2>2, <3>2
  <2>10. \A x \in Sessions \ {r.sess} : rows'[x] = rows[x]
    BY <1>2, <2>2, <2>3
  <2>11. blocked' \in SUBSET blocked
    BY <2>2
  <2> QED BY <1>1, <1>3, <2>1, <2>3, <2>4, <2>6, <2>7, <2>8, <2>9, <2>10, <2>11, OwnStep
          DEF ExitPcs
<1>6. CASE EnterLoop(w)
  <2>1. wk[w].pc = "enter" /\ UNCHANGED <<blocked, rows>>
    BY <1>6 DEF EnterLoop, brokVars, dbVars
  <2>2. ~wk[w].compact
    BY <1>0, <2>1 DEF ShapeInv, CompactPcs
  <2>3. CASE Goto(w, "drain") /\ UNCHANGED <<token, nextRun>>
    <3> DEFINE r == [wk[w] EXCEPT !.pc = "drain"]
    <3>1. /\ r \in WorkerRec /\ r.pc = "drain" /\ r.sess = wk[w].sess /\ r.held = wk[w].held
          /\ r.tok = wk[w].tok /\ r.compact = wk[w].compact /\ Become(w, r)
      BY ZenonT(60), <1>0, <2>3, MovedRecord DEF WorkerPc, Goto
    <3> HIDE DEF r
    <3>2. wk'[w] = r
      BY <1>2, <3>1 DEF Become
    <3>3. ShapeInv(w)' /\ ArmedInv(w)' /\ TokenMoves(w)
      BY <1>0, <1>1, <1>2, <1>3, <2>2, <2>3, <3>1, <3>2 DEF ShapeInv, ArmedInv, TokenMoves,
         TurnPcs, UnarmedPcs
    <3> QED BY <1>1, <1>2, <1>3, <2>1, <3>1, <3>3, OwnStep DEF ExitPcs
  <2>4. CASE ~(Goto(w, "drain") /\ UNCHANGED <<token, nextRun>>)
    <3> DEFINE r == [wk[w] EXCEPT !.pc = "step", !.held = flagOf[wk[w].sess], !.tok = nextRun,
                            !.left = Steps]
    <3>1. /\ Become(w, r) /\ token' = [token EXCEPT ![wk[w].sess] = nextRun]
          /\ nextRun' = nextRun + 1
      BY <1>6, <2>4 DEF EnterLoop
    <3>2. /\ wk[w].sess \notin doubled => flagOf[wk[w].sess] = w
          /\ flagOf[wk[w].sess] \in Workers \cup {None}
      BY <1>0, <1>1 DEF OwnerInv, TypeOK
    <3>3. /\ r \in WorkerRec /\ r.pc = "step" /\ r.sess = wk[w].sess
          /\ wk[w].sess \notin doubled => r.held = w
          /\ r.tok = nextRun /\ r.compact = wk[w].compact /\ r.left = Steps
      <4>1. Steps \in 0..Steps
        BY RunnerAssumption
      <4>2. r.held = flagOf[wk[w].sess] /\ r.sess = wk[w].sess
        BY <1>0 DEF WorkerRec
      <4>3. /\ r \in WorkerRec /\ r.pc = "step" /\ r.tok = nextRun
            /\ r.compact = wk[w].compact /\ r.left = Steps
        BY <1>0, <1>2, <3>2, <4>1 DEF WorkerRec, WorkerPc
      <4> QED BY <3>2, <4>2, <4>3
    <3> HIDE DEF r
    <3>4. wk'[w] = r
      BY <1>2, <3>1 DEF Become
    <3>5. ShapeInv(w)'
      BY <1>1, <1>2, <1>3, <2>2, <3>1, <3>3, <3>4 DEF ShapeInv, TurnPcs, CompactPcs
    <3>6. ArmedInv(w)'
      BY <1>0, <1>1, <1>3, <2>1, <2>2, <3>3, <3>4 DEF ArmedInv, Interrupting, UnarmedPcs, Live
    <3>7. TokenMoves(w)
      BY <1>1, <1>2, <3>1, <3>3, <3>4 DEF TokenMoves
    <3> QED BY <1>1, <1>2, <1>3, <2>1, <3>1, <3>3, <3>5, <3>6, <3>7, OwnStep DEF ExitPcs
  <2> QED BY <2>3, <2>4
<1>7. CASE CompactMint(w)
  <2> DEFINE r == [wk[w] EXCEPT !.pc = "ready", !.tok = nextRun]
  <2>1. /\ wk[w].pc = "mint" /\ Become(w, r) /\ token' = [token EXCEPT ![wk[w].sess] = nextRun]
        /\ nextRun' = nextRun + 1 /\ UNCHANGED <<blocked, rows>>
    BY <1>7 DEF CompactMint, brokVars, dbVars
  <2>2. (wk[w].sess \notin doubled => wk[w].held = w) /\ wk[w].compact
    BY <1>0, <2>1 DEF ShapeInv
  <2>3. /\ r \in WorkerRec /\ r.pc = "ready" /\ r.sess = wk[w].sess
        /\ wk[w].sess \notin doubled => r.held = w
        /\ r.tok = nextRun /\ r.compact
    BY <1>0, <1>2, <2>2 DEF WorkerRec, WorkerPc
  <2> HIDE DEF r
  <2>4. wk'[w] = r
    BY <1>2, <2>1 DEF Become
  <2>5. ShapeInv(w)' /\ ArmedInv(w)'
    BY <1>1, <1>2, <1>3, <2>1, <2>3, <2>4 DEF ShapeInv, ArmedInv, CompactPcs
  <2>6. TokenMoves(w)
    BY <1>1, <1>2, <2>1, <2>3, <2>4 DEF TokenMoves
  <2> QED BY <1>1, <1>2, <1>3, <2>1, <2>3, <2>5, <2>6, OwnStep DEF ExitPcs
<1>8. CASE LoopTail(w)
  <2> DEFINE r == [wk[w] EXCEPT !.pc = "drain", !.left = 0]
  <2>1. /\ wk[w].pc = "tail" /\ Become(w, r) /\ token' = [token EXCEPT ![wk[w].sess] = 0]
        /\ UNCHANGED <<nextRun, blocked, rows>>
    BY <1>8 DEF LoopTail, brokVars, dbVars
  <2>2. /\ r \in WorkerRec /\ r.pc = "drain" /\ r.sess = wk[w].sess /\ r.held = wk[w].held
        /\ r.tok = wk[w].tok /\ r.compact = wk[w].compact
    <3>1. 0 \in 0..Steps
      BY RunnerAssumption
    <3> QED BY <1>0, <3>1 DEF WorkerRec, WorkerPc
  <2> HIDE DEF r
  <2>3. wk'[w] = r
    BY <1>2, <2>1 DEF Become
  <2>4. ShapeInv(w)' /\ ArmedInv(w)'
    BY <1>0, <1>1, <1>3, <2>1, <2>2, <2>3 DEF ShapeInv, ArmedInv, CompactPcs, TurnPcs, UnarmedPcs
  <2>5. TokenMoves(w)
    BY <1>1, <1>2, <2>1, <2>2, <2>3 DEF TokenMoves, TurnPcs
  <2> QED BY <1>1, <1>2, <1>3, <2>1, <2>2, <2>4, <2>5, OwnStep DEF ExitPcs
<1> QED BY <1>4, <1>5, <1>6, <1>7, <1>8

(***************************************************************************)
(* drain_queue_and_finish.                                                 *)
(***************************************************************************)
\* the worker leaves and its session goes idle
LEMMA GoIdleStep ==
  ASSUME RunnerInv, NEW w \in Workers, Live(w), GoIdle(w),
         shutting \/ wk[w].sess \in doubled \/ queue[wk[w].sess] = <<>>,
         UNCHANGED <<handle, flagOf, flag, token, nextRun, interrupts, retiring, shutting, doubled,
                     blocked, brokerShut, intr, del, shut, gui, rows, present, accepted, taken>>
  PROVE  RunnerInv'
<1>0. /\ TypeOK /\ (shutting <=> shut.pc # "idle") /\ GuiInv
      /\ \A v \in Workers : ShapeInv(v) /\ OwnerInv(v) /\ ArmedInv(v)
      /\ \A s \in Sessions : SlotInv(s) /\ CountInv(s) /\ TokenInv(s) /\ OrderInv(s)
      /\ \A d \in Deleters : DeleteInv(d)
      /\ \A i \in Interrupters : InterruptInv(i)
  BY RunnerInvFacts
<1>1. PICK s \in Sessions : s = wk[w].sess /\ (s \notin doubled => flagOf[s] = w)
  BY <1>0 DEF ShapeInv, OwnerInv
<1>2. Exited \in WorkerRec /\ Exited.pc = "done" /\ Exited.held = None /\ Exited.tok = 0
      /\ ~Exited.compact
  BY RunnerAssumption DEF Exited, NewWorker, WorkerRec, WorkerPc
<1>3. /\ wk' = [wk EXCEPT ![w] = Exited] /\ queue' = [queue EXCEPT ![s] = <<>>]
      /\ running' = [running EXCEPT ![s] = FALSE]
  BY <1>1 DEF GoIdle, Become
<1>4. /\ wk' \in [Workers -> WorkerRec] /\ wk'[w] = Exited
      /\ \A v \in Workers \ {w} : wk'[v] = wk[v]
      /\ queue' \in [Sessions -> Seq(Prompts)] /\ running' \in [Sessions -> BOOLEAN]
      /\ queue'[s] = <<>> /\ ~running'[s]
      /\ \A x \in Sessions \ {s} : queue'[x] = queue[x] /\ running'[x] = running[x]
  <2>1. /\ wk \in [Workers -> WorkerRec] /\ queue \in [Sessions -> Seq(Prompts)]
        /\ running \in [Sessions -> BOOLEAN] /\ <<>> \in Seq(Prompts)
    BY <1>0 DEF TypeOK
  <2> QED BY <1>1, <1>2, <1>3, <2>1
<1>5. TypeOK'
  BY <1>0, <1>4 DEF TypeOK
<1>6. ~Live(w)' /\ \A v \in Workers \ {w} : (Live(v)' <=> Live(v))
  BY <1>2, <1>4 DEF Live
<1>7. CASE s \in doubled
  <2>1. StrayWorkers(s)
    <3>1. ShapeInv(w)'
      BY SMTT(40), <1>0, <1>2, <1>4, <1>6 DEF ShapeInv, TurnPcs, TypeOK
    <3>2. wk[w].pc # "done" /\ wk[w].sess = s
      BY <1>1 DEF Live
    <3> QED BY <1>2, <1>4, <1>6, <3>1, <3>2 DEF StrayWorkers, TurnPcs
  <2>2. StrayMaps(s) /\ StrayDeletes(s)
    BY <1>0, <1>4 DEF StrayMaps, StrayDeletes, TypeOK
  <2>3. FlagOwned(s)'
    <3>1. FlagOwned(s)
      BY <1>0, <1>1 DEF SlotInv
    <3>2. ASSUME NEW v \in Workers, flagOf[s] = v
          PROVE  wk'[v].pc # "free" /\ (Live(v)' => wk'[v].sess = s)
      <4>1. CASE v = w
        BY <1>2, <1>4, <1>6, <4>1
      <4>2. CASE v # w
        BY <1>4, <1>6, <3>1, <3>2, <4>2 DEF FlagOwned
      <4> QED BY <4>1, <4>2
    <3> QED BY <3>2 DEF FlagOwned
  <2>4. \A x \in Sessions : OrderInv(x)'
    BY <1>0, <1>4, <1>7 DEF OrderInv, Injected
  <2>5. GuiInv' /\ (shutting <=> shut.pc # "idle")'
    <3>1. \A x \in Sessions \ doubled : queue'[x] = queue[x] /\ running'[x] = running[x]
      BY <1>4, <1>7
    <3> QED BY <1>0, <3>1 DEF GuiInv
  <2> QED BY <1>1, <1>5, <1>7, <2>1, <2>2, <2>3, <2>4, <2>5, StrayStep DEF RunnerInv
<1>8. CASE s \notin doubled
  <2>7. \A v \in Workers \ {w} : Live(v) => wk[v].sess \in Sessions \ {s}
    BY <1>0, <1>1, <1>8 DEF OwnerInv, ShapeInv
  <2>8. ASSUME NEW v \in Workers PROVE (ShapeInv(v) /\ OwnerInv(v) /\ ArmedInv(v))'
    <3>1. CASE v = w
      BY SMTT(40), <1>0, <1>2, <1>4, <1>6, <3>1 DEF ShapeInv, OwnerInv, ArmedInv, TurnPcs, TypeOK
    <3>2. CASE v # w
      <4>1. wk'[v] = wk[v] /\ (Live(v)' <=> Live(v)) /\ ShapeInv(v) /\ OwnerInv(v) /\ ArmedInv(v)
        BY <1>0, <1>4, <1>6, <3>2
      <4>2. Live(v) => running'[wk[v].sess] = running[wk[v].sess]
        BY <1>4, <2>7, <3>2
      <4> QED BY <4>1, <4>2 DEF ShapeInv, OwnerInv, ArmedInv, Refused, Interrupting
    <3> QED BY <3>1, <3>2
  <2>9. ASSUME NEW x \in Sessions
        PROVE  (SlotInv(x) /\ CountInv(x) /\ TokenInv(x) /\ OrderInv(x))'
    <3>1. SlotInv(x)'
      <4>1. \A v \in Workers : flagOf[x] = v => wk'[v].pc # "free" /\ (Live(v)' => wk'[v].sess = x)
        BY <1>0, <1>2, <1>4, <1>6 DEF SlotInv, FlagOwned
      <4>2. ASSUME running'[x], x \notin doubled PROVE \E v \in Workers : Live(v)' /\ wk'[v].sess = x
        <5>1. x # s /\ running[x]
          BY <1>4, <4>2
        <5>2. PICK v \in Workers : Live(v) /\ wk[v].sess = x
          BY <1>0, <4>2, <5>1 DEF SlotInv
        <5>3. v # w
          BY <1>1, <5>1, <5>2
        <5> QED BY <1>4, <1>6, <5>2, <5>3
      <4>3. FlagOwned(x)' /\ (Deleting(x)' <=> Deleting(x))
        BY <4>1 DEF FlagOwned, Deleting
      <4> QED BY <1>0, <1>4, <4>2, <4>3 DEF SlotInv
    <3>2. CountInv(x)'
      BY <1>0 DEF CountInv, InProgress, Interrupting
    <3>3. TokenInv(x)'
      BY <1>0, <1>2, <1>4 DEF TokenInv, TurnPcs
    <3>4. OrderInv(x)'
      BY ZenonT(60), <1>0, <1>1, <1>4 DEF OrderInv, Injected
    <3> QED BY <3>1, <3>2, <3>3, <3>4
  <2>10. ASSUME NEW d \in Deleters PROVE DeleteInv(d)'
    <3>1. del[d].pc # "idle" => \A v \in Workers : del[d].flag = v =>
            wk'[v].pc # "free" /\ (Live(v)' => wk'[v].sess = del[d].sess)
      BY <1>0, <1>2, <1>4, <1>6 DEF DeleteInv
    <3>2. AloneInv(d) => AloneInv(d)'
      BY <1>4, <1>6 DEF AloneInv
    <3> QED BY <1>0, <3>1, <3>2 DEF DeleteInv
  <2>11. ASSUME NEW i \in Interrupters PROVE InterruptInv(i)'
    BY <1>0, <1>2, <1>4 DEF InterruptInv, TurnPcs
  <2>12. GuiInv' /\ (shutting <=> shut.pc # "idle")'
    BY <1>0, <1>1, <1>4 DEF GuiInv
  <2> QED BY <1>5, <2>8, <2>9, <2>10, <2>11, <2>12 DEF RunnerInv
<1> QED BY <1>7, <1>8

\* a step from one place outside the turn to another
LEMMA DrainGoto ==
  ASSUME RunnerInv, NEW w \in Workers, wk[w].pc \in {"drain", "flip"},
         NEW place \in {"drain", "flip", "stop"}, Goto(w, place),
         place = "stop" => Refused(wk[w].sess),
         UNCHANGED <<running, queue, handle, flagOf, flag, token, nextRun, interrupts, retiring,
                     shutting, doubled, blocked, brokerShut, intr, del, shut, gui, rows, present,
                     accepted, taken>>
  PROVE  RunnerInv'
<1>0. TypeOK /\ ShapeInv(w) /\ wk \in [Workers -> WorkerRec]
  BY RunnerInvFacts DEF TypeOK
<1> DEFINE r == [wk[w] EXCEPT !.pc = place]
<1>1. /\ r \in WorkerRec /\ r.pc = place /\ r.sess = wk[w].sess /\ r.held = wk[w].held
      /\ r.tok = wk[w].tok /\ r.compact = wk[w].compact /\ Become(w, r)
  <2>1. place \in WorkerPc
    BY DEF WorkerPc
  <2> QED BY <1>0, <2>1, MovedRecord DEF Goto
<1> HIDE DEF r
<1>2. wk'[w] = r
  BY <1>0, <1>1 DEF Become
<1>3. ShapeInv(w)' /\ ArmedInv(w)'
  BY <1>0, <1>1, <1>2 DEF ShapeInv, ArmedInv, CompactPcs, TurnPcs, UnarmedPcs, Live
<1>4. TokenMoves(w)
  BY <1>0, <1>1, <1>2 DEF TokenMoves, TurnPcs, TypeOK
<1>5. rows' \in [Sessions -> Seq(Prompts)] /\ \A x \in Sessions : rows'[x] = rows[x]
  BY <1>0 DEF TypeOK
<1> QED BY <1>1, <1>3, <1>4, <1>5, OwnStep DEF Live, ExitPcs

LEMMA DrainActions ==
  ASSUME RunnerInv, NEW w \in Workers, DrainQueue(w) \/ FlipIdle(w) \/ StopDrain(w)
  PROVE  RunnerInv'
<1>0. /\ TypeOK /\ (shutting <=> shut.pc # "idle") /\ GuiInv
      /\ \A v \in Workers : ShapeInv(v) /\ OwnerInv(v) /\ ArmedInv(v)
      /\ \A s \in Sessions : SlotInv(s) /\ CountInv(s) /\ TokenInv(s) /\ OrderInv(s)
      /\ \A d \in Deleters : DeleteInv(d)
      /\ \A i \in Interrupters : InterruptInv(i)
  BY RunnerInvFacts
<1>1. Live(w)
  BY DEF DrainQueue, FlipIdle, StopDrain, Live
<1>2. CASE StopDrain(w)
  <2>1. shutting \/ wk[w].sess \in doubled \/ queue[wk[w].sess] = <<>>
    BY <1>0, <1>1, <1>2 DEF StopDrain, OwnerInv, ShapeInv, SlotInv, Refused
  <2> QED BY <1>1, <1>2, <2>1, GoIdleStep DEF StopDrain, lifeVars, brokVars, opVars, dbVars,
          histVars
<1>3. CASE FlipIdle(w)
  <2>1. wk[w].pc = "flip" /\ UNCHANGED <<handle, flagOf, flag, token, nextRun, interrupts,
             retiring, shutting, doubled, blocked, brokerShut, intr, del, shut, gui, rows, present,
             accepted, taken>>
    BY <1>3 DEF FlipIdle, lifeVars, brokVars, opVars, dbVars, histVars
  <2>2. CASE MayGoIdle(wk[w].sess)
    BY <1>1, <1>3, <2>1, <2>2, GoIdleStep DEF FlipIdle, MayGoIdle
  <2>3. CASE ~MayGoIdle(wk[w].sess)
    <3>1. Goto(w, "drain") /\ UNCHANGED <<running, queue>>
      BY <1>3, <2>3 DEF FlipIdle
    <3> QED BY <2>1, <3>1, DrainGoto
  <2> QED BY <2>2, <2>3
<1>4. CASE DrainQueue(w)
  <2> DEFINE s == wk[w].sess
  <2>1. /\ wk[w].pc = "drain" /\ InterruptsOver(s)
        /\ UNCHANGED <<running, handle, flagOf, token, nextRun, interrupts, retiring, shutting, doubled,
                       brokerShut, intr, del, shut, gui, rows, present, accepted>>
    BY <1>4 DEF DrainQueue, lifeVars, opVars, dbVars
  <2>2. CASE Refused(s)
    <3>1. Goto(w, "stop") /\ UNCHANGED <<queue, flag, blocked, taken>>
      BY <1>4, <2>2 DEF DrainQueue
    <3> QED BY <2>1, <2>2, <3>1, DrainGoto
  <2>3. CASE ~Refused(s) /\ queue[s] = <<>>
    <3>1. Goto(w, "flip") /\ UNCHANGED <<queue, flag, blocked, taken>>
      BY <1>4, <2>3 DEF DrainQueue
    <3> QED BY <2>1, <3>1, DrainGoto
  <2>4. CASE ~Refused(s) /\ queue[s] # <<>> /\ s \in doubled
    <3> DEFINE r == [wk[w] EXCEPT !.pc = "store", !.row = Head(queue[s]), !.compact = FALSE]
    <3>1. s \in Sessions
      BY <1>0, <1>1 DEF ShapeInv
    <3>2. /\ Become(w, r) /\ queue' = [queue EXCEPT ![s] = Tail(@)]
          /\ flag' = IF flagOf[s] = None THEN flag ELSE [flag EXCEPT ![flagOf[s]] = "down"]
          /\ blocked' = blocked \ {s}
          /\ taken' = [taken EXCEPT ![s] = Append(@, Head(queue[s]))]
      BY <1>4, <2>4 DEF DrainQueue
    <3>3. /\ queue[s] \in Seq(Prompts) /\ Head(queue[s]) \in Prompts
          /\ Tail(queue[s]) \in Seq(Prompts) /\ taken[s] \in Seq(Prompts)
          /\ Append(taken[s], Head(queue[s])) \in Seq(Prompts)
      BY <1>0, <2>4, <3>1 DEF TypeOK
    <3>4. /\ r \in WorkerRec /\ r.pc = "store" /\ r.sess = s /\ r.row \in Prompts
          /\ r.held = wk[w].held /\ r.tok = wk[w].tok /\ ~r.compact
      <4>1. wk[w] \in WorkerRec
        BY <1>0 DEF TypeOK
      <4> HIDE DEF s
      <4> QED BY <3>3, <4>1 DEF WorkerRec, WorkerPc, s
    <3>5. PICK x \in Sessions : x = s /\ x = wk[w].sess /\ wk[w].pc # "done"
      BY <2>1, <3>1
    <3> HIDE DEF r, s
    <3>6. /\ wk' \in [Workers -> WorkerRec] /\ wk'[w] = r
          /\ \A v \in Workers \ {w} : wk'[v] = wk[v]
      BY <1>0, <3>2, <3>4 DEF TypeOK, Become
    <3>7. /\ queue' \in [Sessions -> Seq(Prompts)] /\ taken' \in [Sessions -> Seq(Prompts)]
          /\ \A y \in Sessions \ {x} : queue'[y] = queue[y] /\ taken'[y] = taken[y]
      <4>1. queue \in [Sessions -> Seq(Prompts)] /\ taken \in [Sessions -> Seq(Prompts)]
        BY <1>0 DEF TypeOK
      <4> QED BY <3>1, <3>2, <3>3, <3>5, <4>1
    <3>8. TypeOK'
      <4>1. blocked' \in SUBSET Sessions
        BY <1>0, <3>2 DEF TypeOK
      <4>2. flag' \in [Workers -> {"none", "down", "up", "freed"}]
        BY <1>0, <3>2 DEF TypeOK
      <4> QED BY <1>0, <2>1, <3>6, <3>7, <4>1, <4>2 DEF TypeOK
    <3>9. StrayWorkers(x)
      <4>1. ShapeInv(w)'
        BY <1>0, <1>1, <2>1, <3>1, <3>4, <3>5, <3>6 DEF ShapeInv, TurnPcs, Live
      <4> QED BY <3>4, <3>5, <3>6, <4>1 DEF StrayWorkers, TurnPcs
    <3>10. FlagOwned(x) /\ FlagOwned(x)'
      <4>1. FlagOwned(x)
        BY <1>0, <3>1 DEF SlotInv
      <4>2. ASSUME NEW v \in Workers, flagOf[x] = v
            PROVE  wk'[v].pc # "free" /\ (Live(v)' => wk'[v].sess = x)
        <5>1. CASE v = w
          BY <3>4, <3>5, <3>6, <5>1
        <5>2. CASE v # w
          BY <3>6, <4>1, <4>2, <5>2 DEF FlagOwned, Live
        <5> QED BY <5>1, <5>2
      <4> QED BY <2>1, <4>1, <4>2 DEF FlagOwned
    <3>11. StrayMaps(x) /\ StrayDeletes(x)
      <4>1. ASSUME NEW v \in Workers, Live(v), wk[v].sess # x PROVE flag'[v] = flag[v]
        BY <1>0, <3>2, <3>5, <3>10, <4>1 DEF FlagOwned, TypeOK
      <4>2. \A y \in blocked' : y \in blocked
        BY <3>2
      <4> QED BY <2>1, <3>7, <4>1, <4>2 DEF StrayMaps, StrayDeletes
    <3>12. \A y \in Sessions : OrderInv(y)'
      BY <1>0, <2>1, <2>4, <3>5, <3>7 DEF OrderInv, Injected
    <3>13. GuiInv' /\ (shutting <=> shut.pc # "idle")'
      <4>1. \A y \in Sessions \ doubled : queue'[y] = queue[y]
        BY <2>4, <3>5, <3>7
      <4> QED BY <1>0, <2>1, <4>1 DEF GuiInv
    <3>14. x \in doubled
      BY <2>4, <3>5
    <3> QED BY <2>1, <3>1, <3>8, <3>9, <3>10, <3>11, <3>12, <3>13, <3>14, StrayStep
            DEF RunnerInv
  <2>5. CASE ~Refused(s) /\ queue[s] # <<>> /\ s \notin doubled
    <3> DEFINE r == [wk[w] EXCEPT !.pc = "store", !.row = Head(queue[s]), !.compact = FALSE]
    <3>1. s \in Sessions /\ flagOf[s] = w /\ s \in present /\ running[s] /\ handle[s] = w
          /\ s \notin retiring /\ ~shutting
      BY <1>0, <1>1, <2>5 DEF ShapeInv, OwnerInv, Refused
    <3>2. w # None
      BY RunnerAssumption
    <3>3. /\ Become(w, r) /\ queue' = [queue EXCEPT ![s] = Tail(@)]
          /\ flag' = [flag EXCEPT ![w] = "down"] /\ blocked' = blocked \ {s}
          /\ taken' = [taken EXCEPT ![s] = Append(@, Head(queue[s]))]
      BY <1>4, <2>5, <3>1, <3>2 DEF DrainQueue
    <3>4. /\ queue[s] \in Seq(Prompts) /\ Head(queue[s]) \in Prompts
          /\ Tail(queue[s]) \in Seq(Prompts) /\ taken[s] \in Seq(Prompts)
          /\ Append(taken[s], Head(queue[s])) \in Seq(Prompts)
      BY <1>0, <2>5, <3>1 DEF TypeOK
    <3>5. /\ r \in WorkerRec /\ r.pc = "store" /\ r.sess = s /\ r.row \in Prompts
          /\ r.held = wk[w].held /\ r.tok = wk[w].tok /\ ~r.compact
      <4>1. wk[w] \in WorkerRec
        BY <1>0 DEF TypeOK
      <4> HIDE DEF s
      <4> QED BY <3>4, <4>1 DEF WorkerRec, WorkerPc, s
    <3> HIDE DEF r, s
    <3>6. /\ wk' \in [Workers -> WorkerRec] /\ wk'[w] = r
          /\ \A v \in Workers \ {w} : wk'[v] = wk[v]
          /\ flag' \in [Workers -> {"none", "down", "up", "freed"}] /\ flag'[w] = "down"
          /\ \A v \in Workers \ {w} : flag'[v] = flag[v]
      BY <1>0, <3>3, <3>5 DEF TypeOK, Become
    <3>7. /\ queue' \in [Sessions -> Seq(Prompts)] /\ taken' \in [Sessions -> Seq(Prompts)]
          /\ queue'[s] = Tail(queue[s]) /\ taken'[s] = Append(taken[s], Head(queue[s]))
          /\ \A x \in Sessions \ {s} : queue'[x] = queue[x] /\ taken'[x] = taken[x]
      <4>1. queue \in [Sessions -> Seq(Prompts)] /\ taken \in [Sessions -> Seq(Prompts)]
        BY <1>0 DEF TypeOK
      <4> QED BY <3>1, <3>3, <3>4, <4>1
    <3>8. TypeOK'
      <4>1. blocked' \in SUBSET Sessions
        BY <1>0, <3>3 DEF TypeOK
      <4> QED BY <1>0, <2>1, <3>6, <3>7, <4>1 DEF TypeOK
    <3>9. \A i \in Interrupters : ~Interrupting(i, s)
      BY <2>1, <3>1, NoneInProgress DEF s
    <3>10. Live(w)' /\ \A v \in Workers \ {w} : Live(v)' <=> Live(v)
      BY <3>5, <3>6 DEF Live
    <3>11. ASSUME NEW v \in Workers PROVE (ShapeInv(v) /\ OwnerInv(v) /\ ArmedInv(v))'
      <4>1. CASE v = w
        <5>1. ShapeInv(w) /\ OwnerInv(w)
          BY <1>0
        <5> QED BY <2>1, <3>1, <3>3, <3>5, <3>6, <3>9, <3>10, <4>1, <5>1 DEF ShapeInv, OwnerInv,
                ArmedInv, Refused, Interrupting, TurnPcs, s
      <4>2. CASE v # w
        <5>1. ShapeInv(v) /\ OwnerInv(v) /\ ArmedInv(v) /\ wk'[v] = wk[v] /\ flag'[v] = flag[v]
              /\ (Live(v)' <=> Live(v))
          BY <1>0, <3>6, <3>10, <4>2
        <5> QED BY <2>1, <3>3, <5>1 DEF ShapeInv, OwnerInv, ArmedInv, Refused, Interrupting
      <4> QED BY <4>1, <4>2
    <3>12. ASSUME NEW x \in Sessions
           PROVE  (SlotInv(x) /\ CountInv(x) /\ TokenInv(x) /\ OrderInv(x))'
      <4>1. SlotInv(x)'
        <5>1. \A v \in Workers : (Live(v)' <=> Live(v)) /\ wk'[v].sess = wk[v].sess
                                 /\ (wk[v].pc # "free" => wk'[v].pc # "free")
          BY <1>1, <3>5, <3>6, <3>10 DEF s
        <5>2. SlotInv(x) /\ (Deleting(x)' <=> Deleting(x))
          BY <1>0, <2>1 DEF Deleting
        <5> QED BY <2>1, <3>1, <3>7, <5>1, <5>2 DEF SlotInv, FlagOwned
      <4>2. CountInv(x)'
        BY <1>0, <2>1 DEF CountInv, InProgress, Interrupting
      <4>3. TokenInv(x)'
        BY <1>0, <2>1, <3>5, <3>6 DEF TokenInv, TurnPcs
      <4>4. OrderInv(x)'
        <5>1. CASE x = s
          <6>1. Injected(x) = <<>> /\ Injected(x)' = <<>>
            <7>1. ~(gui.pc = "inject" /\ gui.sess = x)
              BY <1>0, <2>5, <3>1, <5>1 DEF GuiInv
            <7> QED BY <2>1, <7>1 DEF Injected
          <6>2. accepted[s] = (taken[s] \o <<>>) \o queue[s]
            BY <1>0, <2>5, <3>1, <5>1, <6>1 DEF OrderInv, s
          <6>3. taken[s] \o <<>> = taken[s] /\ taken'[s] \o <<>> = taken'[s]
            BY <3>4, <3>7
          <6>4. taken'[s] \o queue'[s] = taken[s] \o queue[s]
            <7>1. Append(taken[s], Head(queue[s])) \o Tail(queue[s]) = taken[s] \o queue[s]
              BY <2>5, <3>4, HeadMoves, Zenon
            <7> QED BY <3>7, <7>1
          <6>5. accepted'[s] = (taken'[s] \o <<>>) \o queue'[s]
            BY <2>1, <6>2, <6>3, <6>4
          <6> QED BY <5>1, <6>1, <6>5 DEF OrderInv
        <5>2. CASE x # s
          BY <1>0, <2>1, <3>7, <5>2 DEF OrderInv, Injected
        <5> QED BY <5>1, <5>2
      <4> QED BY <4>1, <4>2, <4>3, <4>4
    <3>13. ASSUME NEW d \in Deleters PROVE DeleteInv(d)'
      BY <1>0, <1>1, <2>1, <3>5, <3>6, <3>10 DEF DeleteInv, AloneInv, s
    <3>14. ASSUME NEW i \in Interrupters PROVE InterruptInv(i)'
      BY <1>0, <2>1, <3>5, <3>6 DEF InterruptInv, TurnPcs
    <3>15. GuiInv' /\ (shutting <=> shut.pc # "idle")'
      BY <1>0, <2>1, <2>5, <3>1, <3>7 DEF GuiInv
    <3> QED BY <3>8, <3>11, <3>12, <3>13, <3>14, <3>15 DEF RunnerInv
  <2> QED BY <2>2, <2>3, <2>4, <2>5
<1> QED BY <1>2, <1>3, <1>4

(***************************************************************************)
(* interrupt().                                                            *)
(***************************************************************************)
LEMMA InterruptEnds ==
  ASSUME RunnerInv, NEW i \in Interrupters,
         (\E s \in Sessions : InterruptMark(i, s)) \/ InterruptLeave(i)
  PROVE  RunnerInv'
<1>0. /\ TypeOK /\ (shutting <=> shut.pc # "idle") /\ GuiInv
      /\ \A v \in Workers : ShapeInv(v) /\ OwnerInv(v) /\ ArmedInv(v)
      /\ \A x \in Sessions : SlotInv(x) /\ CountInv(x) /\ TokenInv(x) /\ OrderInv(x)
      /\ \A d \in Deleters : DeleteInv(d)
      /\ \A j \in Interrupters : InterruptInv(j)
  BY RunnerInvFacts
<1>1. /\ intr \in [Interrupters -> InterruptRec] /\ interrupts \in [Sessions -> Int]
      /\ flag \in [Workers -> {"none", "down", "up", "freed"}]
      /\ flagOf \in [Sessions -> Workers \cup {None}] /\ token \in [Sessions -> Nat]
  BY <1>0 DEF TypeOK
<1>2. UNCHANGED <<running, queue, handle, flagOf, token, nextRun, retiring, shutting, doubled, blocked,
                  brokerShut, wk, del, shut, gui, rows, present, accepted, taken>>
  BY DEF InterruptMark, InterruptLeave, OpKeeps, mapVars, lifeVars, brokVars, dbVars, histVars
<1>3. ASSUME NEW s \in Sessions, InterruptMark(i, s) PROVE RunnerInv'
  <2>1. /\ intr[i].pc = "idle"
        /\ intr' = [intr EXCEPT ![i] = [pc |-> "stream", sess |-> s, tok |-> token[s]]]
        /\ interrupts' = [interrupts EXCEPT ![s] = @ + 1]
        /\ flag' = IF flagOf[s] = None THEN flag ELSE [flag EXCEPT ![flagOf[s]] = "up"]
    BY <1>3 DEF InterruptMark
  <2> DEFINE call == [pc |-> "stream", sess |-> s, tok |-> token[s]]
  <2>2. call \in InterruptRec /\ call.pc = "stream" /\ call.sess = s /\ call.tok = token[s]
    BY <1>1 DEF InterruptRec
  <2> HIDE DEF call
  <2>3. /\ intr' \in [Interrupters -> InterruptRec] /\ intr'[i] = call
        /\ \A j \in Interrupters \ {i} : intr'[j] = intr[j]
    BY <1>1, <2>1, <2>2 DEF call
  <2>4. /\ flag' \in [Workers -> {"none", "down", "up", "freed"}]
        /\ \A v \in Workers : flag'[v] = IF flagOf[s] = v THEN "up" ELSE flag[v]
    BY <1>1, <2>1, RunnerAssumption
  <2>5. /\ interrupts' \in [Sessions -> Int] /\ interrupts'[s] = interrupts[s] + 1
        /\ \A x \in Sessions \ {s} : interrupts'[x] = interrupts[x]
    BY <1>1, <2>1
  <2>6. TypeOK'
    BY <1>0, <1>2, <2>3, <2>4, <2>5 DEF TypeOK
  <2>7. \A j \in Interrupters, x \in Sessions :
           Interrupting(j, x)' <=> Interrupting(j, x) \/ (j = i /\ x = s)
    BY <2>1, <2>2, <2>3 DEF Interrupting
  <2>8. ASSUME NEW v \in Workers PROVE (ShapeInv(v) /\ OwnerInv(v) /\ ArmedInv(v))'
    <3>1. ShapeInv(v)'
      BY <1>0, <1>2 DEF ShapeInv, Live
    <3>2. OwnerInv(v)'
      BY <1>0, <1>2, <2>4 DEF OwnerInv, Live, Refused
    <3>3. ArmedInv(v)'
      BY <1>0, <1>2, <2>4, <2>7 DEF ArmedInv, OwnerInv, ShapeInv, Live
    <3> QED BY <3>1, <3>2, <3>3
  <2>9. ASSUME NEW x \in Sessions
        PROVE  (SlotInv(x) /\ CountInv(x) /\ TokenInv(x) /\ OrderInv(x))'
    <3>1. SlotInv(x)'
      BY <1>0, <1>2 DEF SlotInv, FlagOwned, Live, Deleting
    <3>2. CountInv(x)'
      <4>1. CASE x = s
        <5>1. InProgress(s)' = InProgress(s) \cup {i} /\ i \notin InProgress(s)
          BY <2>1, <2>7 DEF InProgress, Interrupting
        <5>2. IsFiniteSet(InProgress(s))
          BY <1>0 DEF CountInv
        <5>3. IsFiniteSet(InProgress(s)') /\
              Cardinality(InProgress(s)') = Cardinality(InProgress(s)) + 1
          BY <5>1, <5>2, FS_AddElement
        <5>4. s \in present => interrupts[s] = Cardinality(InProgress(s))
          BY <1>0 DEF CountInv
        <5> QED BY <1>2, <2>5, <4>1, <5>3, <5>4 DEF CountInv
      <4>2. CASE x # s
        <5>1. InProgress(x)' = InProgress(x)
          BY <2>7, <4>2 DEF InProgress
        <5> QED BY <1>0, <1>2, <2>5, <4>2, <5>1 DEF CountInv
      <4> QED BY <4>1, <4>2
    <3>3. TokenInv(x)'
      BY <1>0, <1>2 DEF TokenInv
    <3>4. OrderInv(x)'
      BY <1>0, <1>2 DEF OrderInv, Injected
    <3> QED BY <3>1, <3>2, <3>3, <3>4
  <2>10. ASSUME NEW d \in Deleters PROVE DeleteInv(d)'
    BY <1>0, <1>2 DEF DeleteInv, AloneInv, Live
  <2>11. ASSUME NEW j \in Interrupters PROVE InterruptInv(j)'
    <3>1. CASE j = i
      <4>1. ASSUME NEW v \in Workers, wk[v].pc \in TurnPcs, wk[v].sess \notin doubled,
                   token[s] # 0, wk[v].tok = token[s]
            PROVE  flag'[v] = "up"
        <5>1. wk[v].sess = s /\ Live(v)
          BY <1>0, <4>1 DEF TokenInv, Live, TurnPcs
        <5>2. flagOf[s] = v
          BY <1>0, <4>1, <5>1 DEF OwnerInv
        <5> QED BY <2>4, <5>2
      <4>2. token[s] < nextRun
        BY <1>0 DEF TokenInv
      <4> QED BY <1>2, <2>2, <2>3, <3>1, <4>1, <4>2 DEF InterruptInv
    <3>2. CASE j # i
      BY <1>0, <1>2, <2>3, <2>4, <3>2 DEF InterruptInv
    <3> QED BY <3>1, <3>2
  <2>12. GuiInv' /\ (shutting <=> shut.pc # "idle")'
    BY <1>0, <1>2 DEF GuiInv
  <2> QED BY <2>6, <2>8, <2>9, <2>10, <2>11, <2>12 DEF RunnerInv
<1>4. CASE InterruptLeave(i)
  <2> DEFINE gone == [pc |-> "done", sess |-> None, tok |-> 0]
  <2>0. intr[i].sess \in Sessions
    BY <1>0, <1>4 DEF InterruptInv, InterruptLeave
  <2>2. PICK s \in Sessions : intr[i].sess = s
    BY <2>0
  <2>1. /\ intr[i].pc = "leave" /\ interrupts' = [interrupts EXCEPT ![s] = @ - 1]
        /\ intr' = [intr EXCEPT ![i] = gone] /\ UNCHANGED flag
    BY <1>4, <2>2 DEF InterruptLeave
  <2>3. gone \in InterruptRec /\ gone.pc = "done" /\ gone.tok = 0
    BY DEF InterruptRec
  <2> HIDE DEF gone
  <2>4. /\ intr' \in [Interrupters -> InterruptRec] /\ intr'[i] = gone
        /\ \A j \in Interrupters \ {i} : intr'[j] = intr[j]
    BY <1>1, <2>1, <2>3
  <2>5. /\ interrupts' \in [Sessions -> Int] /\ interrupts'[s] = interrupts[s] - 1
        /\ \A x \in Sessions \ {s} : interrupts'[x] = interrupts[x]
    BY <1>1, <2>1
  <2>6. TypeOK'
    BY <1>0, <1>2, <2>1, <2>4, <2>5 DEF TypeOK
  <2>7. \A j \in Interrupters, x \in Sessions :
           Interrupting(j, x)' <=> Interrupting(j, x) /\ ~(j = i /\ x = s)
    BY <2>1, <2>2, <2>3, <2>4 DEF Interrupting
  <2>8. ASSUME NEW v \in Workers PROVE (ShapeInv(v) /\ OwnerInv(v) /\ ArmedInv(v))'
    <3>1. ShapeInv(v)'
      BY <1>0, <1>2 DEF ShapeInv, Live
    <3>2. OwnerInv(v)'
      BY <1>0, <1>2, <2>1 DEF OwnerInv, Live, Refused
    <3>3. ArmedInv(v)'
      BY <1>0, <1>2, <2>1, <2>7 DEF ArmedInv, ShapeInv, Live
    <3> QED BY <3>1, <3>2, <3>3
  <2>9. ASSUME NEW x \in Sessions
        PROVE  (SlotInv(x) /\ CountInv(x) /\ TokenInv(x) /\ OrderInv(x))'
    <3>1. SlotInv(x)'
      BY <1>0, <1>2 DEF SlotInv, FlagOwned, Live, Deleting
    <3>2. CountInv(x)'
      <4>1. CASE x = s
        <5>1. InProgress(s)' = InProgress(s) \ {i} /\ i \in InProgress(s)
          BY <2>1, <2>2, <2>7 DEF InProgress, Interrupting
        <5>2. IsFiniteSet(InProgress(s))
          BY <1>0 DEF CountInv
        <5>3. IsFiniteSet(InProgress(s)') /\
              Cardinality(InProgress(s)') = Cardinality(InProgress(s)) - 1
          BY <5>1, <5>2, FS_RemoveElement
        <5>4. s \in present => interrupts[s] = Cardinality(InProgress(s))
          BY <1>0 DEF CountInv
        <5> QED BY <1>2, <2>5, <4>1, <5>3, <5>4 DEF CountInv
      <4>2. CASE x # s
        <5>1. InProgress(x)' = InProgress(x)
          BY <2>7, <4>2 DEF InProgress
        <5> QED BY <1>0, <1>2, <2>5, <4>2, <5>1 DEF CountInv
      <4> QED BY <4>1, <4>2
    <3>3. TokenInv(x)'
      BY <1>0, <1>2 DEF TokenInv
    <3>4. OrderInv(x)'
      BY <1>0, <1>2 DEF OrderInv, Injected
    <3> QED BY <3>1, <3>2, <3>3, <3>4
  <2>10. ASSUME NEW d \in Deleters PROVE DeleteInv(d)'
    BY <1>0, <1>2 DEF DeleteInv, AloneInv, Live
  <2>11. ASSUME NEW j \in Interrupters PROVE InterruptInv(j)'
    <3>1. CASE j = i
      BY <1>0, <1>2, <2>3, <2>4, <3>1 DEF InterruptInv, TypeOK
    <3>2. CASE j # i
      BY <1>0, <1>2, <2>1, <2>4, <3>2 DEF InterruptInv
    <3> QED BY <3>1, <3>2
  <2>12. GuiInv' /\ (shutting <=> shut.pc # "idle")'
    BY <1>0, <1>2 DEF GuiInv
  <2> QED BY <2>6, <2>8, <2>9, <2>10, <2>11, <2>12 DEF RunnerInv
<1> QED BY <1>3, <1>4

(***************************************************************************)
(* delete_session(), and what a second one for its session disturbs.       *)
(***************************************************************************)
LEMMA DeleteMarks ==
  ASSUME RunnerInv, NEW d \in Deleters, NEW s \in Sessions, DeleteMark(d, s)
  PROVE  RunnerInv'
<1>0. /\ TypeOK /\ (shutting <=> shut.pc # "idle") /\ GuiInv
      /\ \A v \in Workers : ShapeInv(v) /\ OwnerInv(v) /\ ArmedInv(v)
      /\ \A x \in Sessions : SlotInv(x) /\ CountInv(x) /\ TokenInv(x) /\ OrderInv(x)
      /\ \A e \in Deleters : DeleteInv(e)
      /\ \A i \in Interrupters : InterruptInv(i)
  BY RunnerInvFacts
<1>1. /\ queue \in [Sessions -> Seq(Prompts)] /\ taken \in [Sessions -> Seq(Prompts)]
      /\ handle \in [Sessions -> Workers \cup {None}]
      /\ flagOf \in [Sessions -> Workers \cup {None}]
      /\ flag \in [Workers -> {"none", "down", "up", "freed"}]
      /\ del \in [Deleters -> DeleteRec]
  BY <1>0 DEF TypeOK
<1> DEFINE rec == [pc |-> "stream", sess |-> s, join |-> handle[s], flag |-> flagOf[s]]
<1>2. /\ del[d].pc = "idle" /\ ~shutting /\ s \in present
      /\ doubled' = IF Deleting(s) THEN doubled \cup {s} ELSE doubled
      /\ retiring' = retiring \cup {s} /\ queue' = [queue EXCEPT ![s] = <<>>]
      /\ taken' = [taken EXCEPT ![s] = @ \o queue[s]]
      /\ flag' = IF flagOf[s] = None THEN flag ELSE [flag EXCEPT ![flagOf[s]] = "up"]
      /\ del' = [del EXCEPT ![d] = rec]
      /\ handle' = [handle EXCEPT ![s] = None]
      /\ UNCHANGED <<running, flagOf, token, nextRun, interrupts, shutting, blocked, brokerShut,
                     wk, intr, shut, gui, rows, present, accepted>>
  BY DEF DeleteMark, brokVars, dbVars
<1>3. rec \in DeleteRec /\ rec.pc = "stream" /\ rec.sess = s /\ rec.join = handle[s]
      /\ rec.flag = flagOf[s]
  BY <1>1 DEF DeleteRec
<1> HIDE DEF rec
<1>4. /\ del' \in [Deleters -> DeleteRec] /\ del'[d] = rec
      /\ \A e \in Deleters \ {d} : del'[e] = del[e]
  BY <1>1, <1>2, <1>3
<1>5. /\ flag' \in [Workers -> {"none", "down", "up", "freed"}]
      /\ \A v \in Workers : flag'[v] = IF flagOf[s] = v THEN "up" ELSE flag[v]
  BY <1>1, <1>2, RunnerAssumption
<1>6. /\ queue' \in [Sessions -> Seq(Prompts)] /\ taken' \in [Sessions -> Seq(Prompts)]
      /\ queue'[s] = <<>> /\ taken'[s] = taken[s] \o queue[s]
      /\ \A x \in Sessions \ {s} : queue'[x] = queue[x] /\ taken'[x] = taken[x]
  <2>1. <<>> \in Seq(Prompts) /\ taken[s] \o queue[s] \in Seq(Prompts)
    BY <1>1
  <2> QED BY <1>1, <1>2, <2>1
<1>7. /\ handle' \in [Sessions -> Workers \cup {None}]
      /\ \A x \in Sessions \ {s} : handle'[x] = handle[x]
  BY <1>1, <1>2
<1>8. TypeOK'
  <2>1. retiring' \in SUBSET Sessions /\ doubled' \in SUBSET Sessions
    BY <1>0, <1>2 DEF TypeOK
  <2> QED BY <1>0, <1>2, <1>4, <1>5, <1>6, <1>7, <2>1 DEF TypeOK
<1>9. CASE Deleting(s) \/ s \in doubled
  <2>1. doubled' = doubled \cup {s} /\ FlagOwned(s)
    BY <1>0, <1>2, <1>9 DEF SlotInv
  <2>2. FlagOwned(s)'
    BY <1>2, <2>1 DEF FlagOwned, Live
  <2>3. StrayWorkers(s)
    BY <1>2 DEF StrayWorkers
  <2>4. DeleteInv(d)'
    BY <1>2, <1>3, <1>4, <2>1 DEF DeleteInv, FlagOwned, Live
  <2>5. StrayDeletes(s)
    BY <1>2, <1>3, <1>4, <2>4 DEF StrayDeletes
  <2>6. StrayMaps(s)
    <3>1. ASSUME NEW v \in Workers, Live(v), wk[v].sess # s PROVE flag'[v] = flag[v]
      BY <1>5, <2>1, <3>1 DEF FlagOwned
    <3> QED BY <1>0, <1>2, <1>6, <1>7, <3>1 DEF StrayMaps, TypeOK
  <2>7. \A x \in Sessions : OrderInv(x)'
    BY <1>0, <1>2, <1>6, <2>1 DEF OrderInv, Injected
  <2>8. GuiInv' /\ (shutting <=> shut.pc # "idle")'
    BY <1>0, <1>2, <1>6, <2>1 DEF GuiInv
  <2> QED BY <1>2, <1>8, <2>1, <2>2, <2>3, <2>5, <2>6, <2>7, <2>8, StrayStep DEF RunnerInv
<1>10. CASE ~Deleting(s) /\ s \notin doubled
  <2>1. s \notin retiring /\ UNCHANGED doubled /\ ~Deleting(s)
    BY <1>0, <1>2, <1>10 DEF SlotInv
  <2>2. ASSUME NEW v \in Workers PROVE (ShapeInv(v) /\ OwnerInv(v) /\ ArmedInv(v))'
    <3>1. ShapeInv(v)'
      BY <1>0, <1>2, <2>1 DEF ShapeInv, Live
    <3>2. OwnerInv(v)'
      BY <1>0, <1>2, <2>1, <1>5, <1>7 DEF OwnerInv, ShapeInv, Live, Refused
    <3>3. ArmedInv(v)'
      BY <1>0, <1>2, <2>1, <1>5 DEF ArmedInv, Live, Interrupting
    <3> QED BY <3>1, <3>2, <3>3
  <2>3. ASSUME NEW x \in Sessions
         PROVE  (SlotInv(x) /\ CountInv(x) /\ TokenInv(x) /\ OrderInv(x))'
    <3>1. SlotInv(x)'
      <4>1. Deleting(x)' <=> Deleting(x) \/ x = s
        BY <1>2, <2>1, <1>3, <1>4 DEF Deleting
      <4> QED BY <1>0, <1>2, <2>1, <1>6, <4>1 DEF SlotInv, FlagOwned, Live
    <3>2. CountInv(x)'
      BY <1>0, <1>2, <2>1 DEF CountInv, InProgress, Interrupting
    <3>3. TokenInv(x)'
      BY <1>0, <1>2, <2>1 DEF TokenInv
    <3>4. OrderInv(x)'
      <4>1. CASE x = s /\ Injected(x) = <<>>
        <5>1. accepted[s] = (taken[s] \o <<>>) \o queue[s]
          BY <1>0, <1>2, <2>1, <1>10, <4>1 DEF OrderInv
        <5>2. (taken[s] \o <<>>) \o queue[s] = ((taken[s] \o queue[s]) \o <<>>) \o <<>>
          BY <1>1
        <5>3. accepted'[s] = (taken'[s] \o <<>>) \o queue'[s]
          BY <1>2, <2>1, <1>6, <5>1, <5>2
        <5>4. Injected(x)' = <<>>
          BY <1>2, <2>1, <4>1 DEF Injected
        <5> QED BY <4>1, <5>3, <5>4 DEF OrderInv
      <4>2. CASE x = s /\ Injected(x) # <<>>
        <5>1. queue[s] = <<>>
          BY <1>0, <1>2, <2>1, <1>10, <4>2 DEF Injected, GuiInv
        <5>2. taken'[s] = taken[s] /\ queue'[s] = queue[s]
          BY <1>1, <1>6, <5>1
        <5>3. Injected(x)' = Injected(x) /\ accepted'[x] = accepted[x]
          BY <1>2 DEF Injected
        <5>4. accepted[x] = taken[x] \o Injected(x) \o queue[x]
          BY <1>0, <1>2, <1>10, <4>2 DEF OrderInv
        <5>5. accepted'[x] = taken'[x] \o Injected(x)' \o queue'[x]
          BY <4>2, <5>2, <5>3, <5>4, Zenon
        <5> QED BY <5>5 DEF OrderInv
      <4>3. CASE x # s
        BY <1>0, <1>2, <2>1, <1>6, <4>3 DEF OrderInv, Injected
      <4> QED BY <4>1, <4>2, <4>3
    <3> QED BY <3>1, <3>2, <3>3, <3>4
  <2>4. ASSUME NEW e \in Deleters PROVE DeleteInv(e)'
    <3>1. CASE e = d
      <4>1. \A v \in Workers : (Live(v) /\ wk[v].sess = s) => handle[s] = v
        BY <1>0, <1>2, <2>1, <1>10 DEF OwnerInv, Refused
      <4>2. \A f \in Deleters : del'[f].pc # "idle" /\ del'[f].sess = s => f = d
        BY <1>2, <2>1, <1>4 DEF Deleting
      <4>3. /\ del'[e].pc = "stream" /\ del'[e].sess = s /\ del'[e].join = handle[s]
            /\ del'[e].flag = flagOf[s]
        BY <1>3, <1>4, <3>1
      <4>4. FlagOwned(s)
        BY <1>0 DEF SlotInv
      <4>5. \A v \in Workers : flagOf[s] = v => wk[v].pc # "free" /\ (Live(v) => wk[v].sess = s)
        BY <4>4 DEF FlagOwned
      <4>6. AloneInv(e)'
        BY <1>2, <3>1, <4>1, <4>2, <4>3 DEF AloneInv, Live
      <4> QED BY <1>2, <4>3, <4>5, <4>6 DEF DeleteInv, Live
    <3>2. CASE e # d
      <4>1. del[e].pc # "idle" => del[e].sess # s
        BY <1>2, <2>1 DEF Deleting
      <4> QED BY <1>0, <1>2, <2>1, <1>3, <1>4, <3>2, <4>1 DEF DeleteInv, AloneInv, Live
    <3> QED BY <3>1, <3>2
  <2>5. ASSUME NEW i \in Interrupters PROVE InterruptInv(i)'
    BY <1>0, <1>2, <2>1, <1>5 DEF InterruptInv
  <2>6. GuiInv' /\ (shutting <=> shut.pc # "idle")'
    BY <1>0, <1>2, <2>1, <1>6 DEF GuiInv
  <2> QED BY <1>8, <2>2, <2>3, <2>4, <2>5, <2>6 DEF RunnerInv
<1> QED BY <1>9, <1>10

\* the thread was joined before: nobody of the session is left
LEMMA JoinedIsGone ==
  ASSUME RunnerInv, NEW d \in Deleters, del[d].sess \notin doubled,
         \/ del[d].pc = "join" /\ Joined(del[d].join)
         \/ del[d].pc \in {"rows", "clear"}
  PROVE  \A v \in Workers : wk[v].sess = del[d].sess => ~Live(v)
<1>1. DeleteInv(d)
  BY RunnerInvFacts
<1>2. CASE del[d].pc = "join" /\ Joined(del[d].join)
  <2>1. ASSUME NEW v \in Workers, wk[v].sess = del[d].sess, Live(v) PROVE FALSE
    <3>1. del[d].join = v /\ v # None
      BY <1>1, <1>2, <2>1, RunnerAssumption DEF DeleteInv, AloneInv
    <3> QED BY <1>2, <2>1, <3>1 DEF Joined, Live
  <2> QED BY <2>1
<1>3. CASE del[d].pc \in {"rows", "clear"}
  BY <1>1, <1>3 DEF DeleteInv, AloneInv
<1> QED BY <1>2, <1>3

LEMMA DeleteJoins ==
  ASSUME RunnerInv, NEW d \in Deleters, DeleteJoin(d)
  PROVE  RunnerInv'
<1>0. /\ TypeOK /\ (shutting <=> shut.pc # "idle") /\ GuiInv
      /\ \A v \in Workers : ShapeInv(v) /\ OwnerInv(v) /\ ArmedInv(v)
      /\ \A x \in Sessions : SlotInv(x) /\ CountInv(x) /\ TokenInv(x) /\ OrderInv(x)
      /\ \A e \in Deleters : DeleteInv(e)
      /\ \A i \in Interrupters : InterruptInv(i)
  BY RunnerInvFacts
<1> DEFINE rec == [del[d] EXCEPT !.pc = "rows", !.join = None]
<1>1. /\ del[d].pc = "join" /\ Joined(del[d].join)
      /\ UNCHANGED <<running, queue, handle, flagOf, flag, token, nextRun, interrupts, retiring,
                     shutting, doubled, blocked, brokerShut, wk, intr, shut, gui, rows, present, accepted,
                     taken>>
  BY DEF DeleteJoin, OpKeeps, mapVars, lifeVars, brokVars, dbVars, histVars
<1>2. del \in [Deleters -> DeleteRec]
  BY <1>0 DEF TypeOK
<1>3. del' = [del EXCEPT ![d] = rec]
  BY <1>2 DEF DeleteJoin, DeleteRec
<1>4. rec \in DeleteRec /\ rec.pc = "rows" /\ rec.sess = del[d].sess /\ rec.flag = del[d].flag
  BY <1>2 DEF DeleteRec
<1> HIDE DEF rec
<1>5. /\ del' \in [Deleters -> DeleteRec] /\ del'[d] = rec
      /\ \A e \in Deleters \ {d} : del'[e] = del[e]
  BY <1>2, <1>3, <1>4
<1>6. TypeOK'
  BY <1>0, <1>1, <1>5 DEF TypeOK
<1>7. del[d].sess \notin doubled => \A v \in Workers : wk[v].sess = del[d].sess => ~Live(v)
  BY <1>1, JoinedIsGone
<1>8. ASSUME NEW v \in Workers PROVE (ShapeInv(v) /\ OwnerInv(v) /\ ArmedInv(v))'
  BY <1>0, <1>1 DEF ShapeInv, OwnerInv, ArmedInv, Live, Refused, Interrupting
<1>9. ASSUME NEW x \in Sessions
      PROVE  (SlotInv(x) /\ CountInv(x) /\ TokenInv(x) /\ OrderInv(x))'
  <2>1. Deleting(x)' <=> Deleting(x)
    BY <1>1, <1>4, <1>5 DEF Deleting
  <2>2. SlotInv(x)'
    BY <1>0, <1>1, <2>1 DEF SlotInv, FlagOwned, Live
  <2>3. CountInv(x)'
    BY <1>0, <1>1 DEF CountInv, InProgress, Interrupting
  <2>4. TokenInv(x)' /\ OrderInv(x)'
    BY <1>0, <1>1 DEF TokenInv, OrderInv, Injected
  <2> QED BY <2>2, <2>3, <2>4
<1>10. ASSUME NEW e \in Deleters PROVE DeleteInv(e)'
  <2>1. CASE e = d
    BY <1>0, <1>1, <1>4, <1>5, <1>7, <2>1 DEF DeleteInv, AloneInv, Live
  <2>2. CASE e # d
    BY <1>0, <1>1, <1>4, <1>5, <2>2 DEF DeleteInv, AloneInv, Live
  <2> QED BY <2>1, <2>2
<1>11. ASSUME NEW i \in Interrupters PROVE InterruptInv(i)'
  BY <1>0, <1>1 DEF InterruptInv
<1>12. GuiInv' /\ (shutting <=> shut.pc # "idle")'
  BY <1>0, <1>1 DEF GuiInv
<1> QED BY <1>6, <1>8, <1>9, <1>10, <1>11, <1>12 DEF RunnerInv

LEMMA IdleDeleteFacts == IdleDelete \in DeleteRec /\ IdleDelete.pc = "idle"
  BY DEF IdleDelete, DeleteRec

\* a delete of a doubled session disturbs no other session
LEMMA StrayDelete ==
  ASSUME RunnerInv, NEW d \in Deleters, del[d].sess \in doubled,
         DeleteRows(d) \/ DeleteFails(d) \/ DeleteClear(d)
  PROVE  RunnerInv'
<1>0. /\ TypeOK /\ (shutting <=> shut.pc # "idle") /\ GuiInv
      /\ \A v \in Workers : ShapeInv(v)
      /\ \A x \in Sessions : SlotInv(x) /\ OrderInv(x)
      /\ \A e \in Deleters : DeleteInv(e)
  BY RunnerInvFacts
<1>1. del[d].pc \in {"rows", "clear"} /\ del[d].sess \in Sessions
  BY <1>0 DEF DeleteRows, DeleteFails, DeleteClear, DeleteInv
<1>2. PICK s \in Sessions : del[d].sess = s
  BY <1>1
<1>3. s \in doubled /\ DeleteInv(d) /\ FlagOwned(s) /\ ~shutting
  BY <1>0, <1>1, <1>2 DEF DeleteInv, SlotInv
<1>4. /\ UNCHANGED <<handle, nextRun, shutting, doubled, blocked, brokerShut, wk, intr, shut,
                     gui, accepted, taken>>
      /\ del' \in [Deleters -> DeleteRec] /\ \A e \in Deleters \ {d} : del'[e] = del[e]
      /\ del'[d].pc # "idle" =>
           del'[d].sess = s /\ del'[d].flag = del[d].flag /\ s \notin present'
      /\ running' \in [Sessions -> BOOLEAN] /\ queue' \in [Sessions -> Seq(Prompts)]
      /\ token' \in [Sessions -> Nat] /\ interrupts' \in [Sessions -> Int]
      /\ rows' \in [Sessions -> Seq(Prompts)]
      /\ \A x \in Sessions \ {s} :
           /\ running'[x] = running[x] /\ queue'[x] = queue[x] /\ token'[x] = token[x]
           /\ interrupts'[x] = interrupts[x] /\ rows'[x] = rows[x]
           /\ (x \in present' <=> x \in present) /\ (x \in retiring' <=> x \in retiring)
      /\ token'[s] \in {token[s], 0} /\ (interrupts'[s] = interrupts[s] \/ s \notin present')
      /\ present' \subseteq present /\ retiring' \subseteq retiring
  <2>0. /\ del \in [Deleters -> DeleteRec] /\ running \in [Sessions -> BOOLEAN]
        /\ queue \in [Sessions -> Seq(Prompts)] /\ token \in [Sessions -> Nat]
        /\ interrupts \in [Sessions -> Int] /\ rows \in [Sessions -> Seq(Prompts)]
        /\ <<>> \in Seq(Prompts)
    BY <1>0 DEF TypeOK
  <2>1. CASE DeleteRows(d)
    <3>1. /\ present' = present \ {s} /\ rows' = [rows EXCEPT ![s] = <<>>]
          /\ del' = [del EXCEPT ![d].pc = "clear"]
          /\ UNCHANGED <<running, queue, handle, token, nextRun, interrupts, retiring, shutting,
                         doubled, blocked, brokerShut, wk, intr, shut, gui, accepted, taken>>
      BY <1>2, <2>1 DEF DeleteRows, mapVars, lifeVars, brokVars, histVars
    <3>2. del' \in [Deleters -> DeleteRec]
      <4>1. [del[d] EXCEPT !.pc = "clear"] \in DeleteRec
        BY <2>0 DEF DeleteRec
      <4> QED BY <2>0, <3>1, <4>1
    <3>3. /\ \A e \in Deleters \ {d} : del'[e] = del[e]
          /\ del'[d].sess = s /\ del'[d].flag = del[d].flag
      BY <1>2, <2>0, <3>1 DEF DeleteRec
    <3> QED BY <2>0, <3>1, <3>2, <3>3
  <2>2. CASE DeleteFails(d)
    <3>1. /\ retiring' = retiring \ {s} /\ running' = [running EXCEPT ![s] = FALSE]
          /\ del' = [del EXCEPT ![d] = IdleDelete]
          /\ UNCHANGED <<queue, handle, token, nextRun, interrupts, shutting, doubled, blocked,
                         brokerShut, wk, intr, shut, gui, rows, present, accepted, taken>>
      BY <1>2, <2>2 DEF DeleteFails, brokVars, dbVars, histVars
    <3> QED BY <2>0, <3>1, IdleDeleteFacts
  <2>3. CASE DeleteClear(d)
    <3>1. /\ running' = [running EXCEPT ![s] = FALSE] /\ queue' = [queue EXCEPT ![s] = <<>>]
          /\ token' = [token EXCEPT ![s] = 0] /\ interrupts' = [interrupts EXCEPT ![s] = 0]
          /\ del' = [del EXCEPT ![d] = IdleDelete]
          /\ UNCHANGED <<handle, nextRun, retiring, shutting, doubled, blocked, brokerShut, wk,
                         intr, shut, gui, rows, present, accepted, taken>>
      BY <1>2, <2>3 DEF DeleteClear, lifeVars, brokVars, dbVars, histVars
    <3>2. s \notin present
      BY <1>2, <1>3, <2>3 DEF DeleteClear, DeleteInv
    <3> QED BY <2>0, <3>1, <3>2, IdleDeleteFacts
  <2> QED BY <2>1, <2>2, <2>3
<1>5. /\ flagOf' \in [Sessions -> Workers \cup {None}] /\ flagOf'[s] \in {flagOf[s], None}
      /\ \A x \in Sessions \ {s} : flagOf'[x] = flagOf[x]
  <2>1. flagOf \in [Sessions -> Workers \cup {None}]
    BY <1>0 DEF TypeOK
  <2> QED BY <1>2, <2>1 DEF DeleteRows, DeleteFails, DeleteClear, mapVars
<1>6. /\ flag' \in [Workers -> {"none", "down", "up", "freed"}]
      /\ \A v \in Workers : del[d].flag = v \/ flag'[v] = flag[v]
  <2>1. flag \in [Workers -> {"none", "down", "up", "freed"}]
    BY <1>0 DEF TypeOK
  <2> QED BY <2>1 DEF DeleteRows, DeleteFails, DeleteClear
<1>7. TypeOK'
  <2>1. present' \in SUBSET Sessions /\ retiring' \in SUBSET Sessions
    BY <1>0, <1>4 DEF TypeOK
  <2> QED BY <1>0, <1>4, <1>5, <1>6, <2>1 DEF TypeOK
<1>8. StrayWorkers(s)
  BY <1>4 DEF StrayWorkers
<1>9. StrayMaps(s)
  <2>1. ASSUME NEW v \in Workers, Live(v), wk[v].sess # s PROVE flag'[v] = flag[v]
    BY <1>1, <1>2, <1>3, <1>6, <2>1 DEF DeleteInv
  <2> QED BY <1>4, <1>5, <2>1 DEF StrayMaps
<1>10. StrayDeletes(s)
  <2>1. DeleteInv(d)'
    <3>1. \A v \in Workers : del[d].flag = v =>
            wk'[v].pc # "free" /\ (Live(v)' => wk'[v].sess = s)
      BY <1>1, <1>2, <1>3, <1>4 DEF DeleteInv, Live
    <3> QED BY <1>3, <1>4, <3>1 DEF DeleteInv
  <2> QED BY <1>2, <1>4, <2>1 DEF StrayDeletes
<1>11. FlagOwned(s)'
  BY <1>3, <1>4, <1>5, RunnerAssumption DEF FlagOwned, Live
<1>12. ASSUME NEW x \in Sessions PROVE OrderInv(x)'
  <2>1. CASE x = s
    BY <1>3, <1>4, <2>1 DEF OrderInv
  <2>2. CASE x # s
    <3>1. queue'[x] = queue[x] /\ UNCHANGED <<shutting, doubled, gui, accepted, taken>>
      BY <1>4, <2>2
    <3> QED BY <1>0, <3>1 DEF OrderInv, Injected
  <2> QED BY <2>1, <2>2
<1>13. GuiInv' /\ (shutting <=> shut.pc # "idle")'
  <2>1. \A x \in Sessions \ doubled : /\ running'[x] = running[x] /\ queue'[x] = queue[x]
                                      /\ rows'[x] = rows[x] /\ (x \in present' <=> x \in present)
    BY <1>3, <1>4
  <2>2. UNCHANGED <<gui, shut, shutting, doubled>>
    BY <1>4
  <2>3. gui.pc # "idle" => gui.sess \in Sessions
    BY <1>0 DEF GuiInv
  <2>4. gui.pc = "inject" =>
          gui.row \in Prompts /\ (gui.sess \in doubled \/ queue'[gui.sess] = <<>>)
    BY <1>0, <1>3, <2>1, <2>3 DEF GuiInv
  <2>5. (gui.pc = "retry" /\ gui.sess \notin doubled) =>
          /\ ~running'[gui.sess]
          /\ gui.sess \in present' => gui.keep >= Len(rows'[gui.sess])
    BY <1>0, <2>1, <2>3 DEF GuiInv
  <2>6. GuiInv'
    BY <2>2, <2>3, <2>4, <2>5 DEF GuiInv
  <2> QED BY <1>0, <2>2, <2>6
<1>14. doubled' = doubled \cup {s}
  BY <1>3, <1>4
<1> QED BY <1>4, <1>7, <1>8, <1>9, <1>10, <1>11, <1>12, <1>13, <1>14, StrayStep DEF RunnerInv

LEMMA DeleteRemovesRows ==
  ASSUME RunnerInv, NEW d \in Deleters, del[d].sess \notin doubled, DeleteRows(d)
  PROVE  RunnerInv'
<1>0. /\ TypeOK /\ (shutting <=> shut.pc # "idle") /\ GuiInv
      /\ \A v \in Workers : ShapeInv(v) /\ OwnerInv(v) /\ ArmedInv(v)
      /\ \A x \in Sessions : SlotInv(x) /\ CountInv(x) /\ TokenInv(x) /\ OrderInv(x)
      /\ \A e \in Deleters : DeleteInv(e)
      /\ \A i \in Interrupters : InterruptInv(i)
  BY RunnerInvFacts
<1>1. del[d].pc = "rows" /\ del[d].sess \in Sessions
  BY <1>0 DEF DeleteRows, DeleteInv, AloneInv, TypeOK
<1>2. PICK s \in Sessions : del[d].sess = s
  BY <1>1
<1> DEFINE rec == [del[d] EXCEPT !.pc = "clear"]
<1>3. /\ present' = present \ {s} /\ rows' = [rows EXCEPT ![s] = <<>>]
      /\ UNCHANGED <<running, queue, handle, flagOf, flag, token, nextRun, interrupts, retiring,
                     shutting, doubled, blocked, brokerShut, wk, intr, shut, gui, accepted, taken>>
  BY <1>2 DEF DeleteRows, mapVars, lifeVars, brokVars, histVars
<1>4. del \in [Deleters -> DeleteRec] /\ rows \in [Sessions -> Seq(Prompts)]
  BY <1>0 DEF TypeOK
<1>5. del' = [del EXCEPT ![d] = rec]
  BY <1>4 DEF DeleteRows, DeleteRec
<1>6. rec \in DeleteRec /\ rec.pc = "clear" /\ rec.sess = s /\ rec.flag = del[d].flag
  BY <1>2, <1>4 DEF DeleteRec
<1> HIDE DEF rec
<1>7. /\ del' \in [Deleters -> DeleteRec] /\ del'[d] = rec
      /\ \A e \in Deleters \ {d} : del'[e] = del[e]
  BY <1>4, <1>5, <1>6
<1>8. /\ rows' \in [Sessions -> Seq(Prompts)]
      /\ \A x \in Sessions \ {s} : rows'[x] = rows[x]
  <2>1. <<>> \in Seq(Prompts)
    OBVIOUS
  <2> QED BY <1>3, <1>4, <2>1
<1>9. TypeOK'
  <2>1. present' \in SUBSET Sessions
    BY <1>0, <1>3 DEF TypeOK
  <2> QED BY <1>0, <1>3, <1>7, <1>8, <2>1 DEF TypeOK
<1>10. \A v \in Workers : Live(v) => wk[v].sess # s
  BY <1>1, <1>2, JoinedIsGone
<1>11. ASSUME NEW v \in Workers PROVE (ShapeInv(v) /\ OwnerInv(v) /\ ArmedInv(v))'
  BY <1>0, <1>3, <1>10 DEF ShapeInv, OwnerInv, ArmedInv, Live, Refused, Interrupting
<1>12. ASSUME NEW x \in Sessions
       PROVE  (SlotInv(x) /\ CountInv(x) /\ TokenInv(x) /\ OrderInv(x))'
  <2>1. Deleting(x)' <=> Deleting(x)
    BY <1>1, <1>2, <1>6, <1>7 DEF Deleting
  <2>2. SlotInv(x)'
    <3>1. s \in retiring
      BY <1>0, <1>1, <1>2 DEF DeleteInv, AloneInv
    <3> QED BY <1>0, <1>3, <2>1, <3>1 DEF SlotInv, FlagOwned, Live
  <2>3. CountInv(x)'
    BY <1>0, <1>3 DEF CountInv, InProgress, Interrupting
  <2>4. TokenInv(x)' /\ OrderInv(x)'
    BY <1>0, <1>3 DEF TokenInv, OrderInv, Injected
  <2> QED BY <2>2, <2>3, <2>4
<1>13. ASSUME NEW e \in Deleters PROVE DeleteInv(e)'
  <2>1. CASE e = d
    BY <1>0, <1>1, <1>2, <1>3, <1>6, <1>7, <1>10, <2>1 DEF DeleteInv, AloneInv, Live
  <2>2. CASE e # d
    <3>1. del[e].pc # "idle" => del[e].sess # s
      BY <1>0, <1>1, <1>2, <2>2 DEF DeleteInv, AloneInv
    <3> QED BY <1>0, <1>3, <1>6, <1>7, <2>2, <3>1 DEF DeleteInv, AloneInv, Live
  <2> QED BY <2>1, <2>2
<1>14. ASSUME NEW i \in Interrupters PROVE InterruptInv(i)'
  BY <1>0, <1>3 DEF InterruptInv
<1>15. GuiInv' /\ (shutting <=> shut.pc # "idle")'
  BY <1>0, <1>3, <1>8 DEF GuiInv
<1> QED BY <1>9, <1>11, <1>12, <1>13, <1>14, <1>15 DEF RunnerInv

LEMMA DeleteRollsBack ==
  ASSUME RunnerInv, NEW d \in Deleters, del[d].sess \notin doubled, DeleteFails(d)
  PROVE  RunnerInv'
<1>0. /\ TypeOK /\ (shutting <=> shut.pc # "idle") /\ GuiInv
      /\ \A v \in Workers : ShapeInv(v) /\ OwnerInv(v) /\ ArmedInv(v)
      /\ \A x \in Sessions : SlotInv(x) /\ CountInv(x) /\ TokenInv(x) /\ OrderInv(x)
      /\ \A e \in Deleters : DeleteInv(e)
      /\ \A i \in Interrupters : InterruptInv(i)
  BY RunnerInvFacts
<1>1. del[d].pc = "rows" /\ del[d].sess \in Sessions
  BY <1>0 DEF DeleteFails, DeleteInv, AloneInv, TypeOK
<1>2. PICK s \in Sessions : del[d].sess = s
  BY <1>1
<1>3. /\ retiring' = retiring \ {s} /\ running' = [running EXCEPT ![s] = FALSE]
      /\ flag' = IF flagOf[s] = None THEN flag ELSE [flag EXCEPT ![flagOf[s]] = "down"]
      /\ del' = [del EXCEPT ![d] = IdleDelete]
      /\ UNCHANGED <<queue, handle, flagOf, token, nextRun, interrupts, shutting, doubled, blocked,
                     brokerShut, wk, intr, shut, gui, rows, present, accepted, taken>>
  BY <1>0, <1>1, <1>2 DEF DeleteFails, DeleteInv, AloneInv, brokVars, dbVars, histVars
<1>4. /\ del \in [Deleters -> DeleteRec] /\ running \in [Sessions -> BOOLEAN]
      /\ flag \in [Workers -> {"none", "down", "up", "freed"}]
      /\ flagOf \in [Sessions -> Workers \cup {None}]
  BY <1>0 DEF TypeOK
<1>5. /\ del' \in [Deleters -> DeleteRec] /\ del'[d].pc = "idle"
      /\ \A e \in Deleters \ {d} : del'[e] = del[e]
      /\ running' \in [Sessions -> BOOLEAN] /\ ~running'[s]
      /\ \A x \in Sessions \ {s} : running'[x] = running[x]
  BY <1>3, <1>4, IdleDeleteFacts
<1>6. /\ flag' \in [Workers -> {"none", "down", "up", "freed"}]
      /\ \A v \in Workers : flag'[v] = IF flagOf[s] = v THEN "down" ELSE flag[v]
  BY <1>3, <1>4, RunnerAssumption
<1>7. TypeOK'
  <2>1. retiring' \in SUBSET Sessions
    BY <1>0, <1>3 DEF TypeOK
  <2> QED BY <1>0, <1>3, <1>5, <1>6, <2>1 DEF TypeOK
<1>8. \A v \in Workers : Live(v) => wk[v].sess # s /\ flagOf[s] # v
  BY <1>0, <1>1, <1>2, JoinedIsGone DEF SlotInv, FlagOwned
<1>9. s \in present /\ queue[s] = <<>> /\ ~shutting
  BY <1>0, <1>1, <1>2 DEF DeleteInv, AloneInv, SlotInv, FlagOwned
<1>10. \A e \in Deleters \ {d} : del[e].pc # "idle" => del[e].sess # s
  BY <1>0, <1>1, <1>2 DEF DeleteInv, AloneInv
<1>11. ASSUME NEW v \in Workers PROVE (ShapeInv(v) /\ OwnerInv(v) /\ ArmedInv(v))'
  <2>1. ShapeInv(v)'
    BY <1>0, <1>3 DEF ShapeInv, Live
  <2>2. Live(v) => running'[wk[v].sess] = running[wk[v].sess]
    BY <1>0, <1>5, <1>8 DEF ShapeInv
  <2>3. OwnerInv(v)'
    BY <1>0, <1>3, <1>6, <1>8, <2>2 DEF OwnerInv, Live, Refused
  <2>4. ArmedInv(v)'
    BY <1>0, <1>3, <1>6, <1>8 DEF ArmedInv, Live, Interrupting
  <2> QED BY <2>1, <2>3, <2>4
<1>12. ASSUME NEW x \in Sessions
       PROVE  (SlotInv(x) /\ CountInv(x) /\ TokenInv(x) /\ OrderInv(x))'
  <2>1. SlotInv(x)'
    <3>1. CASE x = s
      BY <1>0, <1>3, <1>5, <1>9, <3>1 DEF SlotInv, FlagOwned, Live
    <3>2. CASE x # s
      <4>1. Deleting(x)' <=> Deleting(x)
        BY <1>2, <1>5, <1>10, <3>2 DEF Deleting
      <4> QED BY <1>0, <1>3, <1>5, <3>2, <4>1 DEF SlotInv, FlagOwned, Live
    <3> QED BY <3>1, <3>2
  <2>2. CountInv(x)'
    BY <1>0, <1>3 DEF CountInv, InProgress, Interrupting
  <2>3. TokenInv(x)' /\ OrderInv(x)'
    BY <1>0, <1>3 DEF TokenInv, OrderInv, Injected
  <2> QED BY <2>1, <2>2, <2>3
<1>13. ASSUME NEW e \in Deleters PROVE DeleteInv(e)'
  BY <1>0, <1>3, <1>5, <1>10 DEF DeleteInv, AloneInv, Live
<1>14. ASSUME NEW i \in Interrupters PROVE InterruptInv(i)'
  BY <1>0, <1>3, <1>6, <1>8 DEF InterruptInv, TurnPcs, Live
<1>15. GuiInv' /\ (shutting <=> shut.pc # "idle")'
  BY <1>0, <1>3, <1>5 DEF GuiInv
<1> QED BY <1>7, <1>11, <1>12, <1>13, <1>14, <1>15 DEF RunnerInv

LEMMA DeleteClears ==
  ASSUME RunnerInv, NEW d \in Deleters, del[d].sess \notin doubled, DeleteClear(d)
  PROVE  RunnerInv'
<1>0. /\ TypeOK /\ (shutting <=> shut.pc # "idle") /\ GuiInv
      /\ \A v \in Workers : ShapeInv(v) /\ OwnerInv(v) /\ ArmedInv(v)
      /\ \A x \in Sessions : SlotInv(x) /\ CountInv(x) /\ TokenInv(x) /\ OrderInv(x)
      /\ \A e \in Deleters : DeleteInv(e)
      /\ \A i \in Interrupters : InterruptInv(i)
  BY RunnerInvFacts
<1>1. del[d].pc = "clear" /\ del[d].sess \in Sessions
  BY <1>0 DEF DeleteClear, DeleteInv, AloneInv, TypeOK
<1>2. PICK s \in Sessions : del[d].sess = s
  BY <1>1
<1>3. /\ del[d].flag = flagOf[s] /\ s \notin present /\ s \in retiring
      /\ queue[s] = <<>> /\ ~shutting
  BY <1>0, <1>1, <1>2 DEF DeleteInv, AloneInv, SlotInv, FlagOwned
<1>4. /\ running' = [running EXCEPT ![s] = FALSE] /\ queue' = [queue EXCEPT ![s] = <<>>]
      /\ token' = [token EXCEPT ![s] = 0] /\ interrupts' = [interrupts EXCEPT ![s] = 0]
      /\ flagOf' = [flagOf EXCEPT ![s] = IF flagOf[s] # None THEN None ELSE flagOf[s]]
      /\ flag' = IF flagOf[s] = None THEN flag ELSE [flag EXCEPT ![flagOf[s]] = "freed"]
      /\ del' = [del EXCEPT ![d] = IdleDelete]
      /\ UNCHANGED <<handle, nextRun, retiring, shutting, doubled, blocked, brokerShut, wk, intr, shut,
                     gui, rows, present, accepted, taken>>
  BY <1>2, <1>3 DEF DeleteClear, lifeVars, brokVars, dbVars, histVars
<1>5. /\ del \in [Deleters -> DeleteRec] /\ running \in [Sessions -> BOOLEAN]
      /\ queue \in [Sessions -> Seq(Prompts)] /\ token \in [Sessions -> Nat]
      /\ interrupts \in [Sessions -> Int] /\ flagOf \in [Sessions -> Workers \cup {None}]
      /\ flag \in [Workers -> {"none", "down", "up", "freed"}]
  BY <1>0 DEF TypeOK
<1>6. /\ del' \in [Deleters -> DeleteRec] /\ del'[d].pc = "idle"
      /\ \A e \in Deleters \ {d} : del'[e] = del[e]
      /\ running' \in [Sessions -> BOOLEAN] /\ ~running'[s]
      /\ token' \in [Sessions -> Nat] /\ token'[s] = 0
      /\ interrupts' \in [Sessions -> Int]
      /\ flagOf' \in [Sessions -> Workers \cup {None}] /\ flagOf'[s] = None
      /\ \A x \in Sessions \ {s} : /\ running'[x] = running[x] /\ token'[x] = token[x]
                                   /\ interrupts'[x] = interrupts[x] /\ flagOf'[x] = flagOf[x]
  BY <1>4, <1>5, IdleDeleteFacts
<1>7. queue' = queue
  BY <1>3, <1>4, <1>5
<1>8. /\ flag' \in [Workers -> {"none", "down", "up", "freed"}]
      /\ \A v \in Workers : flag'[v] = IF flagOf[s] = v THEN "freed" ELSE flag[v]
  BY <1>4, <1>5, RunnerAssumption
<1>9. TypeOK'
  BY <1>0, <1>4, <1>6, <1>7, <1>8 DEF TypeOK
<1>10. \A v \in Workers : Live(v) => wk[v].sess # s /\ flagOf[s] # v
  BY <1>0, <1>1, <1>2, JoinedIsGone DEF SlotInv, FlagOwned
<1>11. \A e \in Deleters \ {d} : del[e].pc # "idle" => del[e].sess # s
  BY <1>0, <1>1, <1>2 DEF DeleteInv, AloneInv
<1>12. ASSUME NEW v \in Workers PROVE (ShapeInv(v) /\ OwnerInv(v) /\ ArmedInv(v))'
  <2>1. ShapeInv(v)'
    BY <1>0, <1>4 DEF ShapeInv, Live
  <2>2. Live(v) => /\ running'[wk[v].sess] = running[wk[v].sess]
                   /\ flagOf'[wk[v].sess] = flagOf[wk[v].sess] /\ flag'[v] = flag[v]
    BY <1>0, <1>6, <1>8, <1>10 DEF ShapeInv
  <2>3. OwnerInv(v)'
    BY <1>0, <1>4, <2>2 DEF OwnerInv, Live, Refused
  <2>4. ArmedInv(v)'
    BY <1>0, <1>4, <2>2 DEF ArmedInv, Live, Interrupting
  <2> QED BY <2>1, <2>3, <2>4
<1>13. ASSUME NEW x \in Sessions
       PROVE  (SlotInv(x) /\ CountInv(x) /\ TokenInv(x) /\ OrderInv(x))'
  <2>1. SlotInv(x)'
    <3>1. CASE x = s
      BY <1>0, <1>3, <1>4, <1>6, <1>7, <3>1, RunnerAssumption DEF SlotInv, FlagOwned, Live
    <3>2. CASE x # s
      <4>1. Deleting(x)' <=> Deleting(x)
        BY <1>2, <1>6, <1>11, <3>2 DEF Deleting
      <4> QED BY <1>0, <1>4, <1>6, <1>7, <3>2, <4>1 DEF SlotInv, FlagOwned, Live
    <3> QED BY <3>1, <3>2
  <2>2. CountInv(x)'
    <3>1. InProgress(x)' = InProgress(x)
      BY <1>4 DEF InProgress, Interrupting
    <3> QED BY <1>0, <1>3, <1>4, <1>6, <3>1 DEF CountInv
  <2>3. TokenInv(x)'
    <3>1. 0 < nextRun
      BY <1>0 DEF TypeOK
    <3> QED BY <1>0, <1>4, <1>6, <3>1 DEF TokenInv
  <2>4. OrderInv(x)'
    BY <1>0, <1>4, <1>7 DEF OrderInv, Injected
  <2> QED BY <2>1, <2>2, <2>3, <2>4
<1>14. ASSUME NEW e \in Deleters PROVE DeleteInv(e)'
  <2>1. CASE e = d
    BY <1>6, <2>1 DEF DeleteInv, AloneInv
  <2>2. CASE e # d /\ del[e].pc = "idle"
    BY <1>6, <2>2 DEF DeleteInv, AloneInv
  <2>3. CASE e # d /\ del[e].pc # "idle"
    <3>1. del[e].sess \in Sessions \ {s}
      BY <1>0, <1>11, <2>3 DEF DeleteInv, AloneInv, TypeOK
    <3> QED BY <1>0, <1>4, <1>6, <2>3, <3>1 DEF DeleteInv, AloneInv, Live
  <2> QED BY <2>1, <2>2, <2>3
<1>15. ASSUME NEW i \in Interrupters PROVE InterruptInv(i)'
  BY <1>0, <1>4, <1>8, <1>10 DEF InterruptInv, TurnPcs, Live
<1>16. GuiInv' /\ (shutting <=> shut.pc # "idle")'
  BY <1>0, <1>4, <1>6, <1>7 DEF GuiInv
<1> QED BY <1>9, <1>12, <1>13, <1>14, <1>15, <1>16 DEF RunnerInv

(***************************************************************************)
(* shutdown().                                                             *)
(***************************************************************************)
LEMMA ShutdownMarks ==
  ASSUME RunnerInv, ShutdownMark
  PROVE  RunnerInv'
<1>0. /\ TypeOK /\ (shutting <=> shut.pc # "idle") /\ GuiInv
      /\ \A v \in Workers : ShapeInv(v) /\ OwnerInv(v) /\ ArmedInv(v)
      /\ \A x \in Sessions : SlotInv(x) /\ CountInv(x) /\ TokenInv(x) /\ OrderInv(x)
      /\ \A e \in Deleters : DeleteInv(e)
      /\ \A i \in Interrupters : InterruptInv(i)
  BY RunnerInvFacts
<1> DEFINE joined == {w \in Workers : \E s \in Sessions : handle[s] = w}
<1>1. /\ shut.pc = "idle" /\ \A d \in Deleters : del[d].pc = "idle"
      /\ shutting' = TRUE
      /\ flag' = [w \in Workers |-> IF \E s \in Sessions : flagOf[s] = w THEN "up" ELSE flag[w]]
      /\ shut' = [pc |-> "asks", join |-> joined] /\ handle' = [s \in Sessions |-> None]
      /\ UNCHANGED <<running, queue, flagOf, token, nextRun, interrupts, retiring, doubled, blocked,
                     brokerShut, wk, intr, del, gui, rows, present, accepted, taken>>
  BY DEF ShutdownMark, brokVars, dbVars, histVars
<1>2. shut' \in ShutRec /\ shut'.pc = "asks" /\ shut'.join = joined
  BY <1>1 DEF ShutRec
<1>3. /\ flag' \in [Workers -> {"none", "down", "up", "freed"}]
      /\ \A w \in Workers : flag'[w] = IF \E s \in Sessions : flagOf[s] = w THEN "up" ELSE flag[w]
  BY <1>0, <1>1 DEF TypeOK
<1>4. TypeOK'
  <2>1. handle' \in [Sessions -> Workers \cup {None}]
    BY <1>1
  <2>2. shutting' \in BOOLEAN
    BY <1>1
  <2> QED BY <1>0, <1>1, <1>2, <1>3, <2>1, <2>2 DEF TypeOK
<1>5. ASSUME NEW v \in Workers, Live(v), wk[v].sess \notin doubled PROVE handle[wk[v].sess] = v
  <2>1. wk[v].sess \in Sessions /\ wk[v].sess \in present /\ ~Refused(wk[v].sess) => handle[wk[v].sess] = v
    BY <1>0, <1>5 DEF ShapeInv, OwnerInv
  <2>2. wk[v].sess \in Sessions /\ wk[v].sess \in present
    BY <1>0, <1>5 DEF ShapeInv, OwnerInv
  <2>3. wk[v].sess \notin retiring
    BY <1>0, <1>1, <1>5, <2>2 DEF SlotInv, Deleting
  <2> QED BY <1>0, <1>1, <2>1, <2>2, <2>3 DEF Refused
<1>6. ASSUME NEW v \in Workers PROVE (ShapeInv(v) /\ OwnerInv(v) /\ ArmedInv(v))'
  <2>1. ShapeInv(v)'
    BY <1>0, <1>1 DEF ShapeInv, Live
  <2>2. (Live(v) /\ wk[v].sess \notin doubled) =>
           flag'[v] = "up" /\ v \in joined /\ wk[v].sess \in Sessions
    BY <1>0, <1>3, <1>5 DEF OwnerInv, ShapeInv
  <2>3. OwnerInv(v)'
    BY <1>0, <1>1, <1>2, <2>2 DEF OwnerInv, Live, Refused
  <2>4. ArmedInv(v)'
    BY <1>1, <2>2 DEF ArmedInv, Live
  <2> QED BY <2>1, <2>3, <2>4
<1>7. ASSUME NEW x \in Sessions
      PROVE  (SlotInv(x) /\ CountInv(x) /\ TokenInv(x) /\ OrderInv(x))'
  <2>1. SlotInv(x)'
    BY <1>0, <1>1 DEF SlotInv, FlagOwned, Live, Deleting
  <2>2. CountInv(x)'
    BY <1>0, <1>1 DEF CountInv, InProgress, Interrupting
  <2>3. TokenInv(x)' /\ OrderInv(x)'
    BY <1>0, <1>1 DEF TokenInv, OrderInv
  <2> QED BY <2>1, <2>2, <2>3
<1>8. ASSUME NEW e \in Deleters PROVE DeleteInv(e)'
  BY <1>1 DEF DeleteInv, AloneInv
<1>9. ASSUME NEW i \in Interrupters PROVE InterruptInv(i)'
  BY <1>0, <1>1, <1>3 DEF InterruptInv
<1>10. GuiInv' /\ (shutting <=> shut.pc # "idle")'
  BY <1>0, <1>1, <1>2 DEF GuiInv
<1> QED BY <1>4, <1>6, <1>7, <1>8, <1>9, <1>10 DEF RunnerInv

LEMMA ShutdownEndsAll ==
  ASSUME RunnerInv, ShutdownJoin \/ ShutdownClear
  PROVE  RunnerInv'
<1>0. /\ TypeOK /\ (shutting <=> shut.pc # "idle") /\ GuiInv
      /\ \A v \in Workers : ShapeInv(v) /\ OwnerInv(v) /\ ArmedInv(v)
      /\ \A x \in Sessions : SlotInv(x) /\ CountInv(x) /\ TokenInv(x) /\ OrderInv(x)
      /\ \A e \in Deleters : DeleteInv(e)
      /\ \A i \in Interrupters : InterruptInv(i)
  BY RunnerInvFacts
<1>1. shut.pc \in {"join", "clear"} /\ shutting
  BY <1>0 DEF ShutdownJoin, ShutdownClear
<1>2. \A v \in Workers : Live(v) => wk[v].sess \in doubled
  <2>1. ASSUME NEW v \in Workers, Live(v), wk[v].sess \notin doubled PROVE FALSE
    <3>1. v \in shut.join /\ shut.pc = "join" /\ v # None
      BY <1>0, <1>1, <2>1, RunnerAssumption DEF OwnerInv
    <3>2. Joined(v)
      BY <3>1 DEF ShutdownJoin, ShutdownClear
    <3> QED BY <2>1, <3>1, <3>2 DEF Joined, Live
  <2> QED BY <2>1
<1>3. /\ UNCHANGED <<running, queue, handle, nextRun, interrupts, retiring, shutting, doubled, blocked,
                     brokerShut, wk, intr, del, gui, rows, present, accepted, taken>>
      /\ shut' \in ShutRec /\ shut'.pc \in {"clear", "done"}
      /\ flag' \in [Workers -> {"none", "down", "up", "freed"}]
      /\ flagOf' \in [Sessions -> Workers \cup {None}] /\ token' \in [Sessions -> Nat]
      /\ \A x \in Sessions : flagOf'[x] \in {flagOf[x], None} /\ token'[x] \in {token[x], 0}
  <2>1. CASE ShutdownJoin
    <3>1. /\ UNCHANGED <<running, queue, handle, nextRun, interrupts, retiring, shutting, doubled, blocked,
                     brokerShut, wk, intr, del, gui, rows, present, accepted, taken, flagOf, token>>
          /\ flag' = [w \in Workers |-> IF \E s \in Sessions : flagOf[s] = w THEN "freed"
                                        ELSE flag[w]]
          /\ shut' = [pc |-> "clear", join |-> {}]
      BY <2>1 DEF ShutdownJoin, OpKeeps, mapVars, lifeVars, brokVars, dbVars, histVars
    <3>2. shut' \in ShutRec /\ shut'.pc = "clear"
      BY <3>1 DEF ShutRec
    <3>3. flag' \in [Workers -> {"none", "down", "up", "freed"}]
      BY <1>0, <3>1 DEF TypeOK
    <3> QED BY <1>0, <3>1, <3>2, <3>3 DEF TypeOK
  <2>2. CASE ShutdownClear
    <3>1. /\ UNCHANGED <<running, queue, handle, nextRun, interrupts, retiring, shutting, doubled, blocked,
                     brokerShut, wk, intr, del, gui, rows, present, accepted, taken, flag>>
          /\ flagOf' = [s \in Sessions |-> None] /\ token' = [s \in Sessions |-> 0]
          /\ shut' = [shut EXCEPT !.pc = "done"]
      BY <2>2 DEF ShutdownClear, lifeVars, brokVars, dbVars, histVars
    <3>2. shut' \in ShutRec /\ shut'.pc = "done"
      BY <1>0, <3>1 DEF ShutRec, TypeOK
    <3> QED BY <1>0, <3>1, <3>2 DEF TypeOK
  <2> QED BY <2>1, <2>2
<1>4. TypeOK'
  BY <1>0, <1>3 DEF TypeOK
<1>5. \A v \in Workers : Live(v)' => wk'[v].sess \in doubled
  BY <1>2, <1>3 DEF Live
<1>6. ASSUME NEW v \in Workers PROVE (ShapeInv(v) /\ OwnerInv(v) /\ ArmedInv(v))'
  <2>1. ShapeInv(v)'
    BY <1>0, <1>3 DEF ShapeInv, Live
  <2>2. (Live(v) /\ wk[v].sess \notin doubled)' <=> FALSE
    BY <1>3, <1>5
  <2> QED BY <2>1, <2>2 DEF OwnerInv, ArmedInv
<1>7. ASSUME NEW x \in Sessions
      PROVE  (SlotInv(x) /\ CountInv(x) /\ TokenInv(x) /\ OrderInv(x))'
  <2>1. SlotInv(x)'
    <3>1. x \notin doubled => ~running[x]
      BY <1>0, <1>2 DEF SlotInv
    <3>2. FlagOwned(x)'
      BY <1>0, <1>3, RunnerAssumption DEF SlotInv, FlagOwned, Live
    <3>3. Deleting(x)' <=> Deleting(x)
      BY <1>3 DEF Deleting
    <3> QED BY <1>0, <1>3, <3>1, <3>2, <3>3 DEF SlotInv
  <2>2. CountInv(x)'
    BY <1>0, <1>3 DEF CountInv, InProgress, Interrupting
  <2>3. TokenInv(x)'
    <3>1. 0 < nextRun
      BY <1>0 DEF TypeOK
    <3> QED BY <1>0, <1>3, <3>1 DEF TokenInv
  <2>4. OrderInv(x)'
    BY <1>1, <1>3 DEF OrderInv
  <2> QED BY <2>1, <2>2, <2>3, <2>4
<1>8. ASSUME NEW e \in Deleters PROVE DeleteInv(e)'
  BY <1>0, <1>1, <1>3 DEF DeleteInv, AloneInv
<1>9. ASSUME NEW i \in Interrupters PROVE InterruptInv(i)'
  BY <1>0, <1>2, <1>3 DEF InterruptInv, TurnPcs, Live
<1>10. GuiInv' /\ (shutting <=> shut.pc # "idle")'
  BY <1>0, <1>1, <1>3 DEF GuiInv
<1> QED BY <1>4, <1>6, <1>7, <1>8, <1>9, <1>10 DEF RunnerInv

(***************************************************************************)
(* The invariant, and what it says.                                        *)
(***************************************************************************)
LEMMA NextInv == RunnerInv /\ [Next]_vars => RunnerInv'
<1> SUFFICES ASSUME RunnerInv, [Next]_vars PROVE RunnerInv'
  OBVIOUS
<1>1. CASE UserStep
  <2>1. ASSUME NEW s \in Sessions, NEW p \in Prompts,
               SubmitQueued(s, p) \/ SubmitSpawn(s, p) \/ InjectMessage(s, p)
        PROVE  RunnerInv'
    BY <2>1, WindowActions
  <2>2. ASSUME NEW s \in Sessions, ContinueSession(s) \/ RetryRead(s) \/ CompactNow(s)
        PROVE  RunnerInv'
    BY <2>2, WindowActions
  <2>3. ASSUME NEW w \in Workers, (\E a \in {"yes", "no"} : UserDecides(w, a)) \/ ReplyToAsk(w)
        PROVE  RunnerInv'
    BY <2>3, TurnActions
  <2>4. ASSUME NEW i \in Interrupters, NEW s \in Sessions, InterruptMark(i, s) PROVE RunnerInv'
    BY <2>4, InterruptEnds
  <2>5. ASSUME NEW d \in Deleters, NEW s \in Sessions, DeleteMark(d, s) PROVE RunnerInv'
    BY <2>5, DeleteMarks
  <2>6. CASE ShutdownMark
    BY <2>6, ShutdownMarks
  <2> QED BY <1>1, <2>1, <2>2, <2>3, <2>4, <2>5, <2>6 DEF UserStep
<1>2. CASE GuiStep
  BY <1>2, WindowActions DEF GuiStep
<1>3. CASE ShutdownStep
  BY <1>3, CancelActions, ShutdownEndsAll DEF ShutdownStep
<1>4. ASSUME NEW w \in Workers, WorkerStep(w) PROVE RunnerInv'
  BY <1>4, TurnActions, TurnBounds, DrainActions DEF WorkerStep
<1>5. ASSUME NEW i \in Interrupters, InterruptStep(i) PROVE RunnerInv'
  BY <1>5, CancelActions, InterruptEnds DEF InterruptStep
<1>6. ASSUME NEW d \in Deleters, DeleteStep(d) PROVE RunnerInv'
  <2>1. CASE DeleteRows(d) \/ DeleteFails(d) \/ DeleteClear(d)
    BY <2>1, StrayDelete, DeleteRemovesRows, DeleteRollsBack, DeleteClears
  <2> QED BY <1>6, <2>1, CancelActions, DeleteJoins DEF DeleteStep
<1>7. CASE UNCHANGED vars
  <2>1. UNCHANGED <<running, queue, handle, flagOf, flag, token, nextRun, interrupts, retiring,
                    shutting, doubled, blocked, brokerShut, wk, intr, del, shut, gui, rows, present,
                    accepted, taken>>
    BY <1>7 DEF vars
  <2>2. /\ TypeOK' /\ GuiInv' /\ (shutting <=> shut.pc # "idle")'
        /\ \A s \in Sessions : OrderInv(s)'
    BY <2>1, RunnerInvFacts DEF TypeOK, GuiInv, OrderInv, Injected
  <2>3. \A s \in Sessions \ doubled :
           queue'[s] # <<>> => running[s] /\ (s \in retiring => queue[s] # <<>>)
    BY <2>1, RunnerInvFacts DEF SlotInv
  <2> QED BY <2>1, <2>2, <2>3, WindowStep DEF RunnerInv
<1> QED BY <1>1, <1>2, <1>3, <1>4, <1>5, <1>6, <1>7 DEF Next

\* RunnerInv holds in every state.
THEOREM RunnerInvariant == Spec => []RunnerInv
<1>1. Init => RunnerInv
  BY InitInv
<1>2. RunnerInv /\ [Next]_vars => RunnerInv'
  BY NextInv
<1> QED BY <1>1, <1>2, PTL DEF Spec

\* Every variable ranges over what the engine's maps can hold.
THEOREM RunnerTypes == Spec => []TypeOK
<1>1. RunnerInv => TypeOK
  BY DEF RunnerInv
<1> QED BY <1>1, RunnerInvariant, PTL

\* A session has at most one foreground worker, and session_running_ says
\* whether it has one.
THEOREM OneRunnerHolds == Spec => []OneRunner
<1>1. RunnerInv => OneRunner
  <2> SUFFICES ASSUME RunnerInv PROVE OneRunner
    OBVIOUS
  <2>1. ASSUME NEW s \in Orderly, NEW w \in Workers, Live(w), wk[w].sess = s
        PROVE  flagOf[s] = w /\ running[s]
    BY <2>1, RunnerInvFacts DEF OwnerInv, Orderly
  <2>2. ASSUME NEW s \in Orderly, running[s] PROVE \E w \in Workers : Live(w) /\ wk[w].sess = s
    BY <2>2, RunnerInvFacts DEF SlotInv, Orderly
  <2>3. ASSUME NEW s \in Orderly, NEW w \in Workers, NEW v \in Workers,
               Live(w), Live(v), wk[w].sess = s, wk[v].sess = s
        PROVE  w = v
    BY <2>1, <2>3
  <2> QED BY <2>1, <2>2, <2>3 DEF OneRunner
<1> QED BY <1>1, RunnerInvariant, PTL

\* A prompt waits in prompt_queue_ only behind a live worker.
THEOREM NoStrandedPromptHolds == Spec => []NoStrandedPrompt
<1>1. RunnerInv => NoStrandedPrompt
  BY RunnerInvFacts DEF NoStrandedPrompt, SlotInv, Orderly
<1> QED BY <1>1, RunnerInvariant, PTL

\* Short of shutdown no accepted prompt is dropped, repeated or reordered.
THEOREM PromptsInOrderHolds == Spec => []PromptsInOrder
<1>1. RunnerInv => PromptsInOrder
  BY RunnerInvFacts DEF PromptsInOrder, OrderInv, Orderly
<1> QED BY <1>1, RunnerInvariant, PTL

\* No worker of a session is alive once delete_session removed its rows.
THEOREM RowsLastHolds == Spec => []RowsLast
<1>1. RunnerInv => RowsLast
  BY RunnerInvFacts DEF RowsLast, OwnerInv, Orderly
<1> QED BY <1>1, RunnerInvariant, PTL

\* The interrupt flag a live worker polls has not been deleted.
THEOREM HeldFlagAliveHolds == Spec => []HeldFlagAlive
<1>1. RunnerInv => HeldFlagAlive
  BY RunnerInvFacts DEF HeldFlagAlive, OwnerInv, ShapeInv, Orderly
<1> QED BY <1>1, RunnerInvariant, PTL

\* A turn whose flag is down may ask for approvals: interrupting the turn
\* before it left no block behind.
THEOREM NextTurnHolds == Spec => []NextTurnNotPoisoned
<1>1. RunnerInv => NextTurnNotPoisoned
  <2> SUFFICES ASSUME RunnerInv, NEW w \in Workers, wk[w].sess \notin doubled,
                      InTurn(w), ~wk[w].compact, ~FlagUp(w)
               PROVE  wk[w].sess \notin blocked
    BY DEF NextTurnNotPoisoned, Orderly
  <2>1. ShapeInv(w) /\ ArmedInv(w)
    BY RunnerInvFacts
  <2>2. wk[w].held = w /\ Live(w) /\ wk[w].pc \notin UnarmedPcs
    BY <2>1 DEF InTurn, ShapeInv, TurnPcs, Live, UnarmedPcs
  <2>3. flag[w] # "up"
    BY <2>2, RunnerAssumption DEF FlagUp
  <2> QED BY <2>1, <2>2, <2>3 DEF ArmedInv
<1> QED BY <1>1, RunnerInvariant, PTL

(***************************************************************************)
(* What a step may never do: take a prompt row away.                       *)
(***************************************************************************)
KeepsRows(s) ==
  \/ s \notin present'
  \/ /\ Len(rows[s]) <= Len(rows'[s])
     /\ SubSeq(rows'[s], 1, Len(rows[s])) = rows[s]

LEMMA PrefixKept ==
  ASSUME NEW a \in Seq(Prompts), NEW p \in Prompts
  PROVE  /\ SubSeq(a, 1, Len(a)) = a
         /\ Len(a) <= Len(Append(a, p)) /\ SubSeq(Append(a, p), 1, Len(a)) = a
  OBVIOUS

LEMMA SameRowsKept ==
  ASSUME TypeOK, UNCHANGED rows, NEW s \in Sessions
  PROVE  KeepsRows(s)
<1>1. rows[s] \in Seq(Prompts) /\ Len(rows[s]) \in Nat
  BY DEF TypeOK
<1> QED BY <1>1 DEF KeepsRows

LEMMA OneRowMore ==
  ASSUME TypeOK, NEW t \in Sessions, NEW p \in Prompts, NEW s \in Sessions,
         rows' = rows \/ rows' = [rows EXCEPT ![t] = Append(@, p)]
  PROVE  KeepsRows(s)
<1>1. rows[s] \in Seq(Prompts) /\ rows \in [Sessions -> Seq(Prompts)]
  BY DEF TypeOK
<1>2. rows'[s] = rows[s] \/ rows'[s] = Append(rows[s], p)
  BY <1>1
<1> QED BY <1>1, <1>2 DEF KeepsRows

LEMMA NextKeepsRows == RunnerInv /\ [Next]_vars => \A s \in Orderly : KeepsRows(s)
<1> SUFFICES ASSUME RunnerInv, [Next]_vars, NEW s \in Sessions, s \notin doubled
             PROVE  KeepsRows(s)
  BY DEF Orderly
<1>0. TypeOK
  BY RunnerInvFacts
<1>1. CASE InjectAppend
  <2>1. gui.sess \in Sessions /\ gui.row \in Prompts
    BY <1>1, RunnerInvFacts DEF InjectAppend, GuiInv
  <2>2. rows' = rows \/ rows' = [rows EXCEPT ![gui.sess] = Append(@, gui.row)]
    BY <1>1 DEF InjectAppend
  <2> QED BY <1>0, <2>1, <2>2, OneRowMore
<1>2. CASE RetryRun
  <2>1. /\ gui.sess \in Sessions /\ UNCHANGED present
        /\ (gui.sess \notin doubled /\ gui.sess \in present) => gui.keep >= Len(rows[gui.sess])
    BY <1>2, RunnerInvFacts DEF RetryRun, GuiInv
  <2>2. CASE UNCHANGED rows
    BY <1>0, <2>2, SameRowsKept
  <2>3. CASE rows' = [rows EXCEPT ![gui.sess] = RowsUpTo(gui.sess)]
    <3>1. /\ rows[gui.sess] \in Seq(Prompts) /\ rows \in [Sessions -> Seq(Prompts)]
          /\ gui.keep \in Nat /\ Len(rows[gui.sess]) \in Nat
      BY <1>0, <2>1 DEF TypeOK, GuiRec
    <3>2. ASSUME gui.sess \in present, gui.sess \notin doubled PROVE RowsUpTo(gui.sess) = rows[gui.sess]
      <4>1. (IF gui.keep < Len(rows[gui.sess]) THEN gui.keep ELSE Len(rows[gui.sess]))
              = Len(rows[gui.sess])
        BY <2>1, <3>1, <3>2
      <4>2. SubSeq(rows[gui.sess], 1, Len(rows[gui.sess])) = rows[gui.sess]
        BY <3>1
      <4> QED BY <4>1, <4>2, Zenon DEF RowsUpTo
    <3>3. ASSUME s \in present PROVE rows'[s] = rows[s]
      <4>1. CASE s = gui.sess
        <5>1. rows'[s] = RowsUpTo(gui.sess)
          BY <2>1, <2>3, <3>1, <4>1, Zenon
        <5> QED BY <3>2, <3>3, <4>1, <5>1, Zenon
      <4>2. CASE s # gui.sess
        BY <2>3, <3>1, <4>2, Zenon
      <4> QED BY <4>1, <4>2
    <3>4. rows[s] \in Seq(Prompts) /\ Len(rows[s]) \in Nat
      BY <3>1
    <3> QED BY <2>1, <3>3, <3>4 DEF KeepsRows
  <2> QED BY <1>2, <2>2, <2>3 DEF RetryRun
<1>3. ASSUME NEW w \in Workers, StorePromptRow(w) PROVE KeepsRows(s)
  <2>1. wk[w].sess \in Sessions /\ wk[w].row \in Prompts
    BY <1>3, RunnerInvFacts DEF StorePromptRow, ShapeInv, Live
  <2>2. rows' = rows \/ rows' = [rows EXCEPT ![wk[w].sess] = Append(@, wk[w].row)]
    BY <1>3 DEF StorePromptRow
  <2> QED BY <1>0, <2>1, <2>2, OneRowMore
<1>4. ASSUME NEW d \in Deleters, DeleteRows(d) PROVE KeepsRows(s)
  <2>1. rows \in [Sessions -> Seq(Prompts)]
    BY <1>0 DEF TypeOK
  <2>2. CASE s = del[d].sess
    BY <1>4, <2>2 DEF DeleteRows, KeepsRows
  <2>3. CASE s # del[d].sess
    <3>1. rows'[s] = rows[s] /\ rows[s] \in Seq(Prompts) /\ Len(rows[s]) \in Nat
      BY <1>4, <2>1, <2>3 DEF DeleteRows
    <3> QED BY <3>1 DEF KeepsRows
  <2> QED BY <2>2, <2>3
<1>5. CASE UNCHANGED rows
  BY <1>0, <1>5, SameRowsKept
<1>6. ASSUME UserStep PROVE UNCHANGED rows
  <2>1. ASSUME NEW t \in Sessions, NEW p \in Prompts,
               SubmitQueued(t, p) \/ SubmitSpawn(t, p) \/ InjectMessage(t, p)
        PROVE  UNCHANGED rows
    BY <2>1 DEF SubmitQueued, SubmitSpawn, InjectMessage, dbVars
  <2>2. ASSUME NEW t \in Sessions, ContinueSession(t) \/ RetryRead(t) \/ CompactNow(t)
        PROVE  UNCHANGED rows
    BY <2>2 DEF ContinueSession, RetryRead, CompactNow, dbVars
  <2>3. ASSUME NEW w \in Workers, (\E a \in {"yes", "no"} : UserDecides(w, a)) \/ ReplyToAsk(w)
        PROVE  UNCHANGED rows
    BY <2>3 DEF UserDecides, ReplyToAsk, WorkerLocal, dbVars
  <2>4. ASSUME NEW i \in Interrupters, NEW t \in Sessions, InterruptMark(i, t)
        PROVE  UNCHANGED rows
    BY <2>4 DEF InterruptMark, OpKeeps, dbVars
  <2>5. ASSUME NEW d \in Deleters, NEW t \in Sessions, DeleteMark(d, t) PROVE UNCHANGED rows
    BY <2>5 DEF DeleteMark, dbVars
  <2>6. CASE ShutdownMark
    BY <2>6 DEF ShutdownMark, dbVars
  <2> QED BY <1>6, <2>1, <2>2, <2>3, <2>4, <2>5, <2>6 DEF UserStep
<1>7. ASSUME ShutdownStep PROVE UNCHANGED rows
  BY <1>7 DEF ShutdownStep, ShutdownAsks, ShutdownApprovals, ShutdownStreams, ShutdownJoin,
     ShutdownClear, OpKeeps, dbVars
<1>8. ASSUME NEW w \in Workers, WorkerStep(w) PROVE StorePromptRow(w) \/ UNCHANGED rows
  BY <1>8 DEF WorkerStep, RunnerStart, EnterLoop, CompactMint, LoopStep, OpenStream, StreamEnds,
     ToolCall, SubmitApproval, ApprovalDone, AskOpen, AskDone, TurnThrows, LoopTail, DrainQueue,
     FlipIdle, StopDrain, WorkerLocal, dbVars
<1>9. ASSUME NEW i \in Interrupters, InterruptStep(i) PROVE UNCHANGED rows
  BY <1>9 DEF InterruptStep, InterruptStream, InterruptAsks, InterruptApprovals, InterruptLeave,
     OpKeeps, dbVars
<1>10. ASSUME NEW d \in Deleters, DeleteStep(d) PROVE DeleteRows(d) \/ UNCHANGED rows
  BY <1>10 DEF DeleteStep, DeleteStream, DeleteAsks, DeleteApprovals, DeleteJoin, DeleteFails,
     DeleteClear, OpKeeps, dbVars
<1>11. CASE UNCHANGED vars
  BY <1>5, <1>11 DEF vars
<1> QED BY <1>1, <1>2, <1>3, <1>4, <1>5, <1>6, <1>7, <1>8, <1>9, <1>10, <1>11 DEF Next, GuiStep

\* A stored prompt row leaves the transcript only with its whole session.
THEOREM PromptRowsStayHolds == Spec => PromptRowsStay
<1>1. RunnerInv /\ [Next]_vars => [\A s \in Orderly : KeepsRows(s)]_vars
  BY NextKeepsRows
<1>2. Spec => [][\A s \in Orderly : KeepsRows(s)]_vars
  BY <1>1, RunnerInvariant, PTL DEF Spec
<1> QED BY <1>2 DEF PromptRowsStay, KeepsRows

(***************************************************************************)
(* What a step may never do: stop a run that nobody meant to stop.         *)
(***************************************************************************)
Stops(w) ==
  \/ ~wk[w].cut /\ wk'[w].cut
  \/ /\ wk[w].wait = "open" /\ wk'[w].wait = "no"
     /\ <<intr, del, shut>>' # <<intr, del, shut>>

\* the run's own flag is up (nothing is claimed of a doubled session)
StopMeant(w) == FlagUp(w) \/ wk[w].sess \in doubled

\* no stream is cut and nobody's call makes a step
Quiet == UNCHANGED <<intr, del, shut>> /\ \A v \in Workers : wk'[v].cut => wk[v].cut

LEMMA BecomeIsQuiet ==
  ASSUME TypeOK, NEW w \in Workers, NEW r, Become(w, r), r.cut => wk[w].cut,
         UNCHANGED <<intr, del, shut>>
  PROVE  Quiet
<1>1. wk \in [Workers -> WorkerRec]
  BY DEF TypeOK
<1>2. wk'[w] = r /\ \A v \in Workers \ {w} : wk'[v] = wk[v]
  BY <1>1 DEF Become
<1> QED BY <1>2 DEF Quiet

LEMMA GotoIsQuiet ==
  ASSUME TypeOK, NEW w \in Workers, NEW place, Goto(w, place), UNCHANGED <<intr, del, shut>>
  PROVE  Quiet
<1>1. [wk[w] EXCEPT !.pc = place].cut = wk[w].cut
  BY DEF TypeOK, WorkerRec
<1> QED BY <1>1, BecomeIsQuiet DEF Goto

LEMMA WorkersAreQuiet == ASSUME TypeOK, NEW w \in Workers, WorkerStep(w) PROVE Quiet
<1>0. UNCHANGED <<intr, del, shut>>
  BY DEF WorkerStep, RunnerStart, StorePromptRow, EnterLoop, CompactMint, LoopStep, OpenStream,
     StreamEnds, ToolCall, SubmitApproval, ApprovalDone, AskOpen, AskDone, TurnThrows, LoopTail,
     DrainQueue, FlipIdle, StopDrain, WorkerLocal, WorkerKeeps, opVars
<1>1. wk[w] \in WorkerRec
  BY DEF TypeOK
<1>2. CASE \E place \in WorkerPc : Goto(w, place)
  BY <1>0, <1>2, GotoIsQuiet
<1>3. ASSUME NEW r, Become(w, r), r.cut => wk[w].cut PROVE Quiet
  BY <1>0, <1>3, BecomeIsQuiet
<1>4. CASE RunnerStart(w) \/ LoopStep(w) \/ TurnThrows(w)
  BY <1>2, <1>4 DEF RunnerStart, LoopStep, TurnThrows, WorkerPc
<1>5. CASE StorePromptRow(w)
  <2>1. \E place : PromptDone(w, place)
    BY <1>5 DEF StorePromptRow
  <2> QED BY <1>1, <1>3, <2>1 DEF PromptDone, WorkerRec
<1>6. CASE EnterLoop(w)
  BY <1>1, <1>2, <1>3, <1>6 DEF EnterLoop, WorkerPc, WorkerRec
<1>7. CASE CompactMint(w)
  BY <1>1, <1>3, <1>7 DEF CompactMint, WorkerRec
<1>8. CASE OpenStream(w)
  BY <1>1, <1>3, <1>8 DEF OpenStream, WorkerRec
<1>9. CASE StreamEnds(w)
  BY <1>1, <1>3, <1>9 DEF StreamEnds, WorkerRec
<1>10. NextIteration(w).cut = wk[w].cut
  BY <1>1 DEF NextIteration, WorkerRec
<1>11. CASE ToolCall(w)
  BY <1>2, <1>3, <1>10, <1>11 DEF ToolCall, WorkerPc
<1>12. CASE SubmitApproval(w)
  BY <1>1, <1>3, <1>12 DEF SubmitApproval, WorkerRec
<1>13. CASE ApprovalDone(w)
  BY <1>1, <1>3, <1>10, <1>13 DEF ApprovalDone, WorkerRec
<1>14. CASE AskOpen(w) \/ AskDone(w)
  BY <1>1, <1>3, <1>10, <1>14 DEF AskOpen, AskDone, WorkerRec
<1>15. CASE LoopTail(w)
  BY <1>1, <1>3, <1>15 DEF LoopTail, WorkerRec
<1>16. CASE DrainQueue(w)
  BY <1>1, <1>2, <1>3, <1>16 DEF DrainQueue, WorkerPc, WorkerRec
<1>17. CASE FlipIdle(w) \/ StopDrain(w)
  BY <1>2, <1>3, <1>17 DEF FlipIdle, StopDrain, GoIdle, Exited, NewWorker, WorkerPc
<1> QED BY <1>4, <1>5, <1>6, <1>7, <1>8, <1>9, <1>11, <1>12, <1>13, <1>14, <1>15, <1>16, <1>17
    DEF WorkerStep

LEMMA SpawnIsQuiet ==
  ASSUME TypeOK, NEW s, NEW w \in Workers, NEW r, NEW place, NEW held, NEW compact,
         SpawnAt(s, w, r, place, held, compact), UNCHANGED <<intr, del, shut>>
  PROVE  Quiet
<1>1. ~NewWorker(place, s, r, held, compact).cut
  BY DEF NewWorker
<1> QED BY <1>1, BecomeIsQuiet DEF SpawnAt

LEMMA CallersAreQuiet == ASSUME TypeOK, UserStep \/ GuiStep PROVE Quiet \/ UNCHANGED wk
<1>1. ASSUME NEW s, NEW r, Spawn(s, r), UNCHANGED <<intr, del, shut>> PROVE Quiet
  BY <1>1, SpawnIsQuiet DEF Spawn
<1>2. ASSUME NEW s \in Sessions, NEW p \in Prompts,
             SubmitQueued(s, p) \/ SubmitSpawn(s, p) \/ InjectMessage(s, p)
      PROVE  Quiet \/ UNCHANGED wk
  BY <1>1, <1>2 DEF SubmitQueued, SubmitSpawn, InjectMessage, opVars
<1>3. ASSUME NEW s \in Sessions, ContinueSession(s) \/ RetryRead(s) \/ CompactNow(s)
      PROVE  Quiet \/ UNCHANGED wk
  BY <1>1, <1>3, SpawnIsQuiet DEF ContinueSession, RetryRead, CompactNow, opVars
<1>4. ASSUME NEW w \in Workers, (\E a \in {"yes", "no"} : UserDecides(w, a)) \/ ReplyToAsk(w)
      PROVE  Quiet
  <2>1. wk[w] \in WorkerRec /\ UNCHANGED <<intr, del, shut>>
    BY <1>4 DEF TypeOK, UserDecides, ReplyToAsk, WorkerLocal, WorkerKeeps, opVars
  <2>2. PICK a : Become(w, [wk[w] EXCEPT !.wait = a])
    BY <1>4 DEF UserDecides, ReplyToAsk
  <2>3. [wk[w] EXCEPT !.wait = a].cut = wk[w].cut
    BY <2>1 DEF WorkerRec
  <2> QED BY <2>1, <2>2, <2>3, BecomeIsQuiet
<1>5. ASSUME GuiStep PROVE Quiet \/ UNCHANGED wk
  BY <1>1, <1>5 DEF GuiStep, InjectAppend, RetryRun
<1> QED BY <1>2, <1>3, <1>4, <1>5 DEF UserStep, InterruptMark, DeleteMark, ShutdownMark

LEMMA CutsHit ==
  ASSUME TypeOK, NEW W, CancelStreams(W), NEW w \in Workers, Stops(w)
  PROVE  w \in W /\ wk[w].pc = "streaming"
<1>1. wk[w] \in WorkerRec
  BY DEF TypeOK
<1>2. CASE w \in W /\ wk[w].pc = "streaming"
  BY <1>2
<1>3. CASE ~(w \in W /\ wk[w].pc = "streaming")
  <2>1. wk'[w] = wk[w]
    BY <1>3 DEF CancelStreams
  <2> QED BY <2>1 DEF Stops
<1> QED BY <1>2, <1>3

LEMMA DenialsHit ==
  ASSUME TypeOK, NEW S, NEW place, CancelWaits(S, place), NEW w \in Workers, Stops(w)
  PROVE  wk[w].sess \in S /\ wk[w].pc = place
<1>1. CASE wk[w].sess \in S /\ Parked(w, place)
  BY <1>1 DEF Parked
<1>2. CASE ~(wk[w].sess \in S /\ Parked(w, place))
  <2>1. wk'[w] = wk[w]
    BY <1>2 DEF CancelWaits
  <2> QED BY <2>1 DEF Stops
<1> QED BY <1>1, <1>2

\* a run inside its turn polls the flag named by its own worker
LEMMA OwnFlag ==
  ASSUME RunnerInv, NEW w \in Workers, wk[w].pc \in TurnPcs, flag[w] = "up"
  PROVE  StopMeant(w)
<1>1. wk[w].held = w \/ wk[w].sess \in doubled
  BY RunnerInvFacts DEF ShapeInv
<1> QED BY <1>1, RunnerAssumption DEF FlagUp, StopMeant

LEMMA RefusedIsFlagged ==
  ASSUME RunnerInv, NEW w \in Workers, wk[w].pc \in TurnPcs, Refused(wk[w].sess)
  PROVE  StopMeant(w)
<1>1. flag[w] = "up" \/ wk[w].sess \in doubled
  BY RunnerInvFacts DEF OwnerInv, Live, TurnPcs
<1> QED BY <1>1, OwnFlag DEF StopMeant

LEMMA InterruptedIsFlagged ==
  ASSUME RunnerInv, NEW w \in Workers, wk[w].pc \in {"asking", "approval"},
         NEW i \in Interrupters, Interrupting(i, wk[w].sess)
  PROVE  StopMeant(w)
<1>1. ~wk[w].compact /\ Live(w) /\ wk[w].pc \notin UnarmedPcs /\ wk[w].pc \in TurnPcs
  BY RunnerInvFacts DEF ShapeInv, CompactPcs, Live, UnarmedPcs, TurnPcs
<1>2. flag[w] = "up" \/ wk[w].sess \in doubled
  BY <1>1, RunnerInvFacts DEF ArmedInv
<1> QED BY <1>1, <1>2, OwnFlag DEF StopMeant

LEMMA NextStopsItsRun ==
  RunnerInv /\ [Next]_vars => \A w \in Workers : Stops(w) => StopMeant(w)
<1> SUFFICES ASSUME RunnerInv, [Next]_vars, NEW w \in Workers, Stops(w) PROVE StopMeant(w)
  OBVIOUS
<1>0. TypeOK /\ (shutting <=> shut.pc # "idle")
  BY RunnerInvFacts
<1>1. CASE Quiet \/ UNCHANGED wk
  BY <1>1 DEF Quiet, Stops
<1>2. ASSUME NEW i \in Interrupters, InterruptStep(i) PROVE StopMeant(w)
  <2>1. CASE InterruptStream(i)
    <3>1. w \in StreamsOf(intr[i].tok) /\ wk[w].pc = "streaming"
      BY <1>0, <2>1, CutsHit DEF InterruptStream
    <3>2. flag[w] = "up" \/ wk[w].sess \in doubled
      BY <2>1, <3>1, RunnerInvFacts DEF InterruptStream, InterruptInv, StreamsOf, TurnPcs
    <3> QED BY <3>1, <3>2, OwnFlag DEF TurnPcs, StopMeant
  <2>2. CASE InterruptAsks(i)
    <3>1. wk[w].sess \in {intr[i].sess} /\ wk[w].pc = "asking"
      BY <1>0, <2>2, DenialsHit DEF InterruptAsks
    <3> QED BY <2>2, <3>1, InterruptedIsFlagged DEF InterruptAsks, Interrupting
  <2>3. CASE InterruptApprovals(i)
    <3>1. wk[w].sess \in {intr[i].sess} /\ wk[w].pc = "approval"
      BY <1>0, <2>3, DenialsHit DEF InterruptApprovals
    <3> QED BY <2>3, <3>1, InterruptedIsFlagged DEF InterruptApprovals, Interrupting
  <2>4. CASE InterruptLeave(i)
    BY <1>1, <2>4 DEF InterruptLeave
  <2> QED BY <1>2, <2>1, <2>2, <2>3, <2>4 DEF InterruptStep
<1>3. ASSUME NEW d \in Deleters, DeleteStep(d) PROVE StopMeant(w)
  <2>1. del[d].pc # "idle" => del[d].sess \in retiring \/ del[d].sess \in doubled
    BY RunnerInvFacts DEF DeleteInv, AloneInv
  <2>2. CASE DeleteStream(d)
    <3>1. w \in StreamsOf(token[del[d].sess]) /\ wk[w].pc = "streaming"
      BY <1>0, <2>2, CutsHit DEF DeleteStream
    <3>2. del[d].sess \in Sessions
      BY <1>0, <2>1, <2>2 DEF TypeOK, DeleteStream
    <3>3. wk[w].sess = del[d].sess
      BY <3>1, <3>2, RunnerInvFacts DEF TokenInv, StreamsOf, TurnPcs
    <3> QED BY <2>1, <2>2, <3>1, <3>3, RefusedIsFlagged
        DEF DeleteStream, Refused, TurnPcs, StopMeant
  <2>3. CASE DeleteAsks(d)
    <3>1. wk[w].sess \in {del[d].sess} /\ wk[w].pc = "asking"
      BY <1>0, <2>3, DenialsHit DEF DeleteAsks
    <3> QED BY <2>1, <2>3, <3>1, RefusedIsFlagged
        DEF DeleteAsks, Refused, TurnPcs, StopMeant
  <2>4. CASE DeleteApprovals(d)
    <3>1. wk[w].sess \in {del[d].sess} /\ wk[w].pc = "approval"
      BY <1>0, <2>4, DenialsHit DEF DeleteApprovals
    <3> QED BY <2>1, <2>4, <3>1, RefusedIsFlagged
        DEF DeleteApprovals, Refused, TurnPcs, StopMeant
  <2>5. CASE DeleteJoin(d) \/ DeleteRows(d) \/ DeleteFails(d) \/ DeleteClear(d)
    BY <1>1, <2>5 DEF DeleteJoin, DeleteRows, DeleteFails, DeleteClear
  <2> QED BY <1>3, <2>2, <2>3, <2>4, <2>5 DEF DeleteStep
<1>4. ASSUME ShutdownStep PROVE StopMeant(w)
  <2>1. CASE ShutdownAsks
    <3>1. wk[w].pc = "asking" /\ shutting
      BY <1>0, <2>1, DenialsHit DEF ShutdownAsks
    <3> QED BY <3>1, RefusedIsFlagged DEF Refused, TurnPcs
  <2>2. CASE ShutdownApprovals
    <3>1. wk[w].pc = "approval" /\ shutting
      BY <1>0, <2>2, DenialsHit DEF ShutdownApprovals
    <3> QED BY <3>1, RefusedIsFlagged DEF Refused, TurnPcs
  <2>3. CASE ShutdownStreams
    <3>1. wk[w].pc = "streaming" /\ shutting
      BY <1>0, <2>3, CutsHit DEF ShutdownStreams
    <3> QED BY <3>1, RefusedIsFlagged DEF Refused, TurnPcs
  <2>4. CASE ShutdownJoin \/ ShutdownClear
    BY <1>1, <2>4 DEF ShutdownJoin, ShutdownClear
  <2> QED BY <1>4, <2>1, <2>2, <2>3, <2>4 DEF ShutdownStep
<1>5. CASE UNCHANGED vars
  BY <1>1, <1>5 DEF vars
<1>6. CASE UserStep \/ GuiStep
  BY <1>0, <1>1, <1>6, CallersAreQuiet
<1>7. ASSUME NEW v \in Workers, WorkerStep(v) PROVE StopMeant(w)
  BY <1>0, <1>1, <1>7, WorkersAreQuiet
<1> QED BY <1>2, <1>3, <1>4, <1>5, <1>6, <1>7 DEF Next

\* Stopping hits the run it was meant for: interrupt, delete_session and
\* shutdown cut a stream, or deny a parked question or approval, only in a run
\* whose own interrupt flag is up.
THEOREM StopsOnlyItsRunHolds == Spec => StopsOnlyItsRun
<1>1. RunnerInv /\ [Next]_vars => [\A w \in Workers : Stops(w) => StopMeant(w)]_vars
  BY NextStopsItsRun
<1>2. Spec => [][\A w \in Workers : Stops(w) => StopMeant(w)]_vars
  BY <1>1, RunnerInvariant, PTL DEF Spec
<1> QED BY <1>2 DEF StopsOnlyItsRun, Stops, StopMeant
=============================================================================
