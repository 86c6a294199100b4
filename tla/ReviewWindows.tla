--------------------------- MODULE ReviewWindows ---------------------------
(***************************************************************************)
(* The windows that answer a waiting session: approval windows (at most    *)
(* one per session, the rest queue), question windows and plan windows.    *)
(* Approvals are posted by the broker for any session; questions and plans *)
(* pass the event relay, which forwards the active session's events only.  *)
(***************************************************************************)
EXTENDS Naturals, Sequences, FiniteSets

CONSTANTS
  Talks,        \* sessions
  Waits,        \* requests, questions and plans, one id each
  NoWait

VARIABLES
  waiting,      \* what a session's worker waits for: [kind, id]
  fresh,        \* ids not used yet
  inView,       \* active_session_id_, and the relay's copy of it
  windowbox,    \* the main window's queue
  decisions,    \* be_app's queue of MSG_PERMISSION_DECISION
  permQueue,    \* pending_perm_queue_
  permOpen,     \* open_perm_sessions_
  windows,      \* review windows on the screen: [kind, sess, id]
  planSlot,     \* pending_plan_path_
  gone,         \* deleted sessions
  seeded,       \* history: [sess, id] of the plans approved
  lost          \* history: requests a full port refused, or their decisions

reviewVars == <<waiting, fresh, inView, windowbox, decisions, permQueue, permOpen,
                windows, planSlot, gone, seeded, lost>>

None0 == [kind |-> "none", id |-> NoWait]
Window(kind, s, n) == [kind |-> kind, sess |-> s, id |-> n]
Msg(what, s, n) == [what |-> what, sess |-> s, id |-> n]

ReviewInit ==
  /\ waiting = [s \in Talks |-> None0]
  /\ fresh = Waits
  /\ inView \in Talks
  /\ windowbox = <<>> /\ decisions = <<>>
  /\ permQueue = [s \in Talks |-> <<>>]
  /\ permOpen = {} /\ windows = {}
  /\ planSlot = NoWait /\ gone = {} /\ seeded = {} /\ lost = {}

(***************************************************************************)
(* Workers.                                                                *)
(***************************************************************************)
\* PostMessage waits for no room: a port filled by what is not modelled here
\* refuses the message, and nobody looks at the result.  SendMessage waits.
\* The broker's delivery goes straight to the window, for any session.
AskApproval(s, n) ==
  /\ s \notin gone /\ waiting[s] = None0 /\ n \in fresh /\ fresh' = fresh \ {n}
  /\ waiting' = [waiting EXCEPT ![s] = [kind |-> "approval", id |-> n]]
  /\ \/ windowbox' = Append(windowbox, Msg("approval", s, n)) /\ UNCHANGED lost
     \/ lost' = lost \cup {n} /\ UNCHANGED windowbox
  /\ UNCHANGED <<inView, decisions, permQueue, permOpen, windows, planSlot, gone, seeded>>

\* the relay drops what is not of the active session
Relayed(what, s, n) ==
  windowbox' = IF s = inView THEN Append(windowbox, Msg(what, s, n)) ELSE windowbox

AskUser(s, n) ==
  /\ s \notin gone /\ waiting[s] = None0 /\ n \in fresh /\ fresh' = fresh \ {n}
  /\ waiting' = [waiting EXCEPT ![s] = [kind |-> "question", id |-> n]]
  /\ Relayed("question", s, n)
  /\ UNCHANGED <<inView, decisions, permQueue, permOpen, windows, planSlot, gone, seeded, lost>>

\* a proposed plan ends its turn
ProposePlan(s, n) ==
  /\ s \notin gone /\ waiting[s] = None0 /\ n \in fresh /\ fresh' = fresh \ {n}
  /\ Relayed("plan", s, n)
  /\ UNCHANGED <<waiting, inView, decisions, permQueue, permOpen, windows, planSlot, gone, seeded, lost>>

\* an interrupt denies the approval and answers the question, the Permissions
\* center answers an approval of its list; windows stay
Stop(s) ==
  /\ waiting[s] # None0
  /\ waiting' = [waiting EXCEPT ![s] = None0]
  /\ UNCHANGED <<fresh, inView, windowbox, decisions, permQueue, permOpen, windows,
                 planSlot, gone, seeded, lost>>

\* a delete denies and answers what is open, joins the worker and then tells
\* the window; the last session stays, so that there is one to select
Delete(s) ==
  /\ s \notin gone /\ \E t \in Talks \ {s} : t \notin gone
  /\ waiting' = [waiting EXCEPT ![s] = None0]
  /\ gone' = gone \cup {s}
  /\ windowbox' = Append(windowbox, Msg("deleted", s, NoWait))
  /\ UNCHANGED <<fresh, inView, decisions, permQueue, permOpen, windows, planSlot, seeded, lost>>

Release(s, kind, n) ==
  waiting' = IF waiting[s] = [kind |-> kind, id |-> n]
             THEN [waiting EXCEPT ![s] = None0] ELSE waiting

(***************************************************************************)
(* Main window.                                                            *)
(***************************************************************************)
Look(s) ==
  /\ s \notin gone \cup {inView} /\ inView' = s
  /\ UNCHANGED <<waiting, fresh, windowbox, decisions, permQueue, permOpen, windows,
                 planSlot, gone, seeded, lost>>

\* mutant: the queue of a session is not looked at when its window closes
ShowNone(s, queue, open) == permQueue' = queue /\ permOpen' = open /\ UNCHANGED windows

\* the next approval of a session, if any, gets the session's window
ShowNext(s, queue, open) ==
  IF queue[s] = <<>>
  THEN permQueue' = queue /\ permOpen' = open /\ UNCHANGED windows
  ELSE /\ windows' = windows \cup {Window("approval", s, Head(queue[s]))}
       /\ permQueue' = [queue EXCEPT ![s] = Tail(@)]
       /\ permOpen' = open \cup {s}

PermissionReq(s, n) ==
  LET queue == [permQueue EXCEPT ![s] = Append(@, n)] IN
  /\ IF s \in permOpen THEN permQueue' = queue /\ UNCHANGED <<permOpen, windows>>
     ELSE ShowNext(s, queue, permOpen)
  /\ UNCHANGED <<waiting, inView, decisions, planSlot, gone, seeded, lost>>

PermissionWindowClosed(s) ==
  /\ ShowNext(s, permQueue, permOpen \ {s})
  /\ UNCHANGED <<waiting, inView, decisions, planSlot, gone, seeded, lost>>

\* question and plan windows are tagged with the session in view now
AskUserReq(n) ==
  /\ windows' = windows \cup {Window("question", inView, n)}
  /\ UNCHANGED <<waiting, inView, decisions, permQueue, permOpen, planSlot, gone, seeded, lost>>

AskUserReply(s, n) ==
  /\ Release(s, "question", n)
  /\ UNCHANGED <<inView, decisions, permQueue, permOpen, windows, planSlot, gone, seeded, lost>>

PlanProposed(n) ==
  /\ windows' = windows \cup {Window("plan", inView, n)}
  /\ planSlot' = n
  /\ UNCHANGED <<waiting, inView, decisions, permQueue, permOpen, gone, seeded, lost>>

\* approving seeds the todos from the remembered path, once
PlanDecision(s, approved) ==
  /\ IF approved
     THEN /\ seeded' = seeded \cup {[sess |-> s, id |-> planSlot]} /\ planSlot' = NoWait
     ELSE UNCHANGED <<seeded, planSlot>>
  /\ UNCHANGED <<waiting, inView, decisions, permQueue, permOpen, windows, gone, lost>>

\* what the window remembers of the session goes; its windows stay
SessionDeleted(s) ==
  /\ permQueue' = [permQueue EXCEPT ![s] = <<>>] /\ permOpen' = permOpen \ {s}
  /\ IF s = inView THEN \E t \in Talks \ gone : inView' = t ELSE UNCHANGED inView
  /\ UNCHANGED <<waiting, decisions, windows, planSlot, gone, seeded, lost>>

WindowHandles ==
  /\ windowbox # <<>>
  /\ LET msg == Head(windowbox) IN
     \/ msg.what = "approval" /\ PermissionReq(msg.sess, msg.id)
     \/ msg.what = "closed" /\ PermissionWindowClosed(msg.sess)
     \/ msg.what = "question" /\ AskUserReq(msg.id)
     \/ msg.what = "reply" /\ AskUserReply(msg.sess, msg.id)
     \/ msg.what = "plan" /\ PlanProposed(msg.id)
     \/ msg.what = "approved" /\ PlanDecision(msg.sess, TRUE)
     \/ msg.what = "deleted" /\ SessionDeleted(msg.sess)
     \/ msg.what = "discarded" /\ PlanDecision(msg.sess, FALSE)
  /\ windowbox' = Tail(windowbox)
  /\ UNCHANGED fresh

(***************************************************************************)
(* The review windows: every way out, closing included, replies once.      *)
(***************************************************************************)
Close(w) == w \in windows /\ windows' = windows \ {w}

\* the decision is posted to be_app, the closing sent to the main window
AnswerApproval(w) ==
  /\ w.kind = "approval" /\ Close(w)
  /\ \/ decisions' = Append(decisions, w) /\ UNCHANGED lost
     \/ lost' = lost \cup {w.id} /\ UNCHANGED decisions
  /\ windowbox' = Append(windowbox, Msg("closed", w.sess, w.id))
  /\ UNCHANGED <<waiting, fresh, inView, permQueue, permOpen, planSlot, gone, seeded>>

AnswerQuestion(w) ==
  /\ w.kind = "question" /\ Close(w)
  /\ windowbox' = Append(windowbox, Msg("reply", w.sess, w.id))
  /\ UNCHANGED <<waiting, fresh, inView, decisions, permQueue, permOpen, planSlot, gone, seeded, lost>>

DecidePlan(w, verdict) ==
  /\ w.kind = "plan" /\ Close(w)
  /\ windowbox' = Append(windowbox, Msg(verdict, w.sess, w.id))
  /\ UNCHANGED <<waiting, fresh, inView, decisions, permQueue, permOpen, planSlot, gone, seeded, lost>>

\* be_app hands the decision to the broker, which ignores a stale id
PermissionDecision ==
  /\ decisions # <<>> /\ decisions' = Tail(decisions)
  /\ Release(Head(decisions).sess, "approval", Head(decisions).id)
  /\ UNCHANGED <<fresh, inView, windowbox, permQueue, permOpen, windows, planSlot, gone, seeded, lost>>

ReviewNext ==
  \/ \E s \in Talks, n \in Waits : AskApproval(s, n) \/ AskUser(s, n) \/ ProposePlan(s, n)
  \/ \E s \in Talks : Stop(s) \/ Look(s) \/ Delete(s)
  \/ WindowHandles \/ PermissionDecision
  \/ \E w \in windows : AnswerApproval(w) \/ AnswerQuestion(w)
                        \/ DecidePlan(w, "approved") \/ DecidePlan(w, "discarded")

ReviewSpec == ReviewInit /\ [][ReviewNext]_reviewVars

(***************************************************************************)
(* Properties.                                                             *)
(***************************************************************************)
InBox(what, s, n) == \E i \in DOMAIN windowbox : windowbox[i] = Msg(what, s, n)

Answerable(s, n) ==
  \/ InBox("approval", s, n) \/ Window("approval", s, n) \in windows
  \/ \E i \in DOMAIN decisions : decisions[i].id = n
  \/ s \in permOpen /\ \E i \in DOMAIN permQueue[s] : permQueue[s][i] = n

\* An approval somebody waits for can be answered in its window: it is on its
\* way there, on the screen, decided, or queued behind a window of its session
\* whose closing will show it.  Stopped requests leave stale windows in front.
\* Only what a full port refused is excepted, see ApprovalDelivered.
ApprovalShown ==
  \A s \in Talks :
    /\ waiting[s].kind = "approval" /\ waiting[s].id \notin lost => Answerable(s, waiting[s].id)
    /\ s \in permOpen =>
         \/ \E i \in DOMAIN windowbox : windowbox[i].what = "closed" /\ windowbox[i].sess = s
         \/ \E w \in windows : w.kind = "approval" /\ w.sess = s

\* permission_requests.h:54-55: "Returns true when the request was handed to a
\* UI, false when delivery failed (caller denies the request)": an approval
\* somebody waits for was handed to the UI, which can answer it.
ApprovalDelivered ==
  \A s \in Talks : waiting[s].kind = "approval" => Answerable(s, waiting[s].id)

\* engine.cpp:2838-2840: "Publish AskUserRequested so the UI shows a dialog,
\* then block until the user replies via reply_to_ask()": a question somebody
\* waits for is on its way to the window, on the screen, or answered.
QuestionShown ==
  \A s \in Talks : waiting[s].kind = "question" =>
    LET n == waiting[s].id IN
    \/ InBox("question", s, n) \/ InBox("reply", s, n)
    \/ Window("question", s, n) \in windows
=============================================================================
