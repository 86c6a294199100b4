---------------------------- MODULE AppLifecycle ----------------------------
(***************************************************************************)
(* HaiCodeApp and the session list of MainWindow: sessions are created,    *)
(* selected, deleted and cleaned up, prompts are typed and sent, settings  *)
(* and directory changes replace the engine, housekeeping runs when        *)
(* everything is idle, and the application quits.  Threads: be_app, the    *)
(* window, the Permissions center, the lifecycle workers that delete, the  *)
(* housekeeping worker and one run per session.  Engines are numbered;     *)
(* be_app owns the current one.                                            *)
(***************************************************************************)
EXTENDS Naturals, Sequences, FiniteSets

CONSTANTS
  Chats,          \* sessions that can exist
  NoChat,
  FirstChats,     \* the sessions in the database at launch
  Acts            \* bound: what the user does

ASSUME LifeAssumption == FirstChats \subseteq Chats /\ NoChat \notin Chats

VARIABLES
  rows, used,     \* sessions in the database now, and ever
  prompted,       \* sessions with a stored prompt
  listed,         \* session_ids_ of the window
  sel,            \* active_session_id_ of the window
  composer,       \* owner of the typed text: {} or {session}
  drafts,         \* session_drafts_
  typed,          \* history: sessions with unsent text
  winOpen,        \* the window exists
  winEng,         \* engine_ of the window
  eng,            \* engine_ of be_app
  alive,          \* engines not destroyed
  closing,        \* engines whose shutdown began
  wired,          \* engines that were given the permission broker
  center,         \* the engine the Permissions center is in a call of, or 0
  retiring,       \* sessions an engine refuses because they are being deleted
  run,            \* the run of each session: [on, at, stop]
  app,            \* what be_app is doing
  appq, winq,     \* message queues
  jobs,           \* lifecycle workers: [ids, done, sess, on, joins], equal ones are one
  keeping,        \* housekeeping: [pending, running, at, on]
  dirty,          \* history: rows were deleted that no housekeeping has seen
  acts

winVars == <<listed, sel, composer, drafts, typed>>
engVars == <<winEng, eng, alive, closing, wired, center>>
lifeVars == <<rows, used, prompted, winVars, winOpen, engVars, retiring, run, app, appq, winq,
              jobs, keeping, dirty, acts>>

Resting == [on |-> 0, at |-> "none", stop |-> FALSE]
NoKeeper == [pending |-> FALSE, running |-> FALSE, at |-> "none", on |-> 0]
Note(what, ids, ok) == [what |-> what, ids |-> ids, ok |-> ok]
Tell(note) == appq' = Append(appq, note)
Show(note) == winq' = IF winOpen THEN Append(winq, note) ELSE winq
Act == acts > 0 /\ acts' = acts - 1 /\ winOpen
Running == {s \in Chats : run[s].on # 0}

\* ReadyToRun: a housekeeping pass precedes the engine, the broker is
\* installed, and the window opens on a session
LifeInit ==
  /\ rows = FirstChats /\ used = FirstChats /\ prompted \in SUBSET FirstChats
  /\ listed = FirstChats
  /\ IF FirstChats = {} THEN sel = NoChat ELSE sel \in FirstChats
  /\ composer = {} /\ typed = {}
  /\ drafts = [s \in Chats |-> {}]
  /\ winOpen = TRUE /\ winEng = 1
  /\ eng = 1 /\ alive = {1} /\ closing = {} /\ wired = {1} /\ center = 0
  /\ retiring = {} /\ run = [s \in Chats |-> Resting]
  /\ app = "idle" /\ appq = <<>> /\ winq = <<>>
  /\ jobs = {} /\ dirty = FALSE
  /\ \E failed \in BOOLEAN : keeping = [NoKeeper EXCEPT !.pending = failed]
  /\ acts = Acts

(***************************************************************************)
(* Runs of the engine, as far as the application sees them.                *)
(***************************************************************************)
RunAsks(s) ==
  /\ run[s].at = "work" /\ (run[s].stop => run[s].on \notin wired)
  /\ run' = [run EXCEPT ![s].at = "approval"]
  /\ UNCHANGED <<rows, used, prompted, winVars, winOpen, engVars, retiring, app, appq, winq, jobs,
                 keeping, dirty, acts>>

RunEnds(s) ==
  /\ run[s].at = "work"
  /\ run' = [run EXCEPT ![s] = Resting]
  /\ UNCHANGED <<rows, used, prompted, winVars, winOpen, engVars, retiring, app, appq, winq, jobs,
                 keeping, dirty, acts>>

\* a stop denies the open approval only through the engine's broker
Stopped(r) ==
  [r EXCEPT !.stop = TRUE,
            !.at = IF r.on \in wired /\ r.at = "approval" THEN "work" ELSE r.at]

\* submit_prompt and retry_last_turn refuse in a closing engine and for a
\* session that is being deleted; a prompt for a running one is queued
Starts(s) ==
  /\ run' = IF winEng \in closing \/ s \in retiring \/ run[s].on # 0 THEN run
            ELSE [run EXCEPT ![s] = [on |-> winEng, at |-> "work", stop |-> FALSE]]

(***************************************************************************)
(* Window.                                                                 *)
(***************************************************************************)
\* mutant: the draft of the session that is left is not kept
SaveNothing == drafts

SaveActiveDraft == IF sel = NoChat THEN drafts ELSE [drafts EXCEPT ![sel] = composer]

\* the composer and the list follow the session entered; be_app syncs its flags
Enter(s, kept) ==
  /\ sel' = s
  /\ drafts' = kept
  /\ composer' = kept[s]
  /\ Tell(Note("active", {s}, TRUE))

\* ids are never used again
NewSession(kept) ==
  \E s \in Chats \ used :
    /\ used' = used \cup {s}
    /\ rows' = rows \cup {s} /\ listed' = rows'
    /\ Enter(s, kept)

\* a session that cannot be stored changes nothing
NotStored == UNCHANGED <<rows, used, listed, sel, drafts, appq>>

ClickNew ==
  /\ Act /\ NewSession(SaveActiveDraft)
  /\ UNCHANGED <<prompted, typed, winOpen, engVars, retiring, run, app, winq, jobs, keeping, dirty>>

ClickSession(s) ==
  /\ Act /\ s \in listed \ {sel}
  /\ Enter(s, SaveActiveDraft)
  /\ UNCHANGED <<rows, used, prompted, listed, typed, winOpen, engVars, retiring, run, app, winq,
                 jobs, keeping, dirty>>

Type ==
  /\ Act /\ composer = {}
  /\ composer' = {sel} /\ typed' = typed \cup {sel}
  /\ UNCHANGED <<rows, used, prompted, listed, sel, drafts, winOpen, engVars, retiring, run, app,
                 appq, winq,
                 jobs, keeping, dirty>>

\* the text is cleared before the engine accepts or refuses it
Submit ==
  /\ Act /\ composer # {} /\ sel # NoChat
  /\ composer' = {} /\ drafts' = [drafts EXCEPT ![sel] = {}] /\ typed' = typed \ {sel}
  /\ \/ Starts(sel) /\ prompted' = (IF run'[sel].on # 0 THEN prompted \cup {sel} ELSE prompted)
     \/ /\ UNCHANGED prompted                              \* /retry
        /\ IF sel \in prompted /\ run[sel].on = 0 THEN Starts(sel) ELSE UNCHANGED run
  /\ UNCHANGED <<rows, used, listed, sel, winOpen, engVars, retiring, app, appq, winq, jobs,
                 keeping, dirty>>

\* without a session one is made first, whose draft replaces the text
SubmitFirst ==
  /\ Act /\ composer # {} /\ sel = NoChat
  /\ NewSession(drafts) \/ (composer' = {} /\ NotStored)
  /\ typed' = typed \ composer
  /\ UNCHANGED <<prompted, winOpen, engVars, retiring, run, app, winq, jobs, keeping, dirty>>

ClickInterrupt ==
  /\ Act /\ sel # NoChat /\ run[sel].on = winEng
  /\ run' = [run EXCEPT ![sel] = Stopped(@)]
  /\ UNCHANGED <<rows, used, prompted, winVars, winOpen, engVars, retiring, app, appq, winq, jobs,
                 keeping, dirty>>

\* confirmed deletions name sessions, never rows of the list; a cleanup takes
\* the sessions that match when it is confirmed
ClickDelete ==
  /\ Act
  /\ \/ \E s \in listed : Tell(Note("delete", {s}, TRUE))
     \/ rows # {} /\ Tell(Note("cleanup", rows, TRUE))
     \/ rows \ prompted # {} /\ Tell(Note("cleanup", rows \ prompted, TRUE))
  /\ UNCHANGED <<rows, used, prompted, winVars, winOpen, engVars, retiring, run, app, winq, jobs,
                 keeping, dirty>>

ClickChange ==
  /\ Act
  /\ \E what \in {"settings", "directory"} : Tell(Note(what, {}, TRUE))
  /\ UNCHANGED <<rows, used, prompted, winVars, winOpen, engVars, retiring, run, app, winq, jobs,
                 keeping, dirty>>

Answers(s) ==
  /\ Act /\ run[s].at = "approval"
  /\ Tell(Note("decision", {s}, TRUE))
  /\ UNCHANGED <<rows, used, prompted, winVars, winOpen, engVars, retiring, run, app, winq, jobs,
                 keeping, dirty>>

\* running sessions are confirmed, then the window goes first
ClickQuit ==
  /\ Act /\ winOpen' = FALSE /\ winq' = <<>>
  /\ Tell(Note("quit", {}, TRUE))
  /\ UNCHANGED <<rows, used, prompted, winVars, engVars, retiring, run, app, jobs, keeping, dirty>>

\* the neighbour of a deleted session is entered, or a new one is made
Replace(kept) ==
  IF rows # {} THEN (\E t \in rows : Enter(t, kept)) /\ listed' = rows /\ UNCHANGED <<rows, used>>
  ELSE \/ NewSession(kept)
       \/ /\ sel' = NoChat /\ drafts' = kept /\ listed' = {}
          /\ UNCHANGED <<rows, used, composer, appq>>

Forget(ids) ==
  LET kept == [s \in Chats |-> IF s \in ids THEN {} ELSE drafts[s]] IN
  /\ typed' = typed \ ids
  /\ IF sel \notin ids
     THEN drafts' = kept /\ listed' = rows /\ UNCHANGED <<rows, used, sel, composer, appq>>
     ELSE Replace(kept)

WindowTakes ==
  /\ winOpen /\ winq # <<>> /\ winq' = Tail(winq)
  /\ LET note == Head(winq) IN
     \/ note.what = "deleted" /\ note.ok /\ Forget(note.ids)
     \/ note.what = "deleted" /\ ~note.ok /\ UNCHANGED <<rows, used, winVars, appq>>
     \/ note.what = "apply" /\ Tell(Note("changed", {}, TRUE))
                            /\ UNCHANGED <<rows, used, winVars>>
  /\ UNCHANGED <<prompted, winOpen, engVars, retiring, run, app, jobs, keeping, dirty, acts>>

(***************************************************************************)
(* be_app.                                                                 *)
(***************************************************************************)
Confirm(asked, next) == app' = IF Running = {} THEN next ELSE asked

KeepingDone(k, ok) == [k EXCEPT !.running = FALSE, !.pending = k.pending \/ ~ok]

Worker(ids) == [ids |-> ids, done |-> {}, sess |-> NoChat, on |-> 0, joins |-> TRUE]

AppHandle(note) ==
  \/ /\ note.what \in {"delete", "cleanup"}
     /\ jobs' = jobs \cup {Worker(note.ids)} /\ UNCHANGED <<app, winq, keeping, run>>
  \/ /\ note.what = "deleted" /\ Show(note)
     /\ keeping' = [keeping EXCEPT !.pending = @ \/ note.ok]
     /\ UNCHANGED <<app, jobs, run>>
  \/ note.what = "kept" /\ keeping' = KeepingDone(keeping, note.ok)
                        /\ UNCHANGED <<app, winq, jobs, run>>
  \/ note.what = "decision"
     /\ run' = [s \in Chats |-> IF s \in note.ids /\ run[s].at = "approval"
                                THEN [run[s] EXCEPT !.at = "work"] ELSE run[s]]
     /\ UNCHANGED <<app, winq, jobs, keeping>>
  \/ note.what = "settings" /\ Confirm("ask-join", "join") /\ UNCHANGED <<winq, jobs, keeping, run>>
  \/ note.what = "directory" /\ Confirm("ask-apply", "apply") /\ UNCHANGED <<winq, jobs, keeping, run>>
  \/ note.what = "changed" /\ app' = "join" /\ UNCHANGED <<winq, jobs, keeping, run>>
  \/ note.what = "quit" /\ app' = "quit-join" /\ UNCHANGED <<winq, jobs, keeping, run>>
  \/ note.what = "active" /\ UNCHANGED <<app, winq, jobs, keeping, run>>

AppTakesNote ==
  /\ app = "idle" /\ appq # <<>> /\ appq' = Tail(appq)
  /\ AppHandle(Head(appq))
  /\ UNCHANGED <<rows, used, prompted, winVars, winOpen, engVars, retiring, dirty, acts>>

\* the user agrees to interrupt what runs, or nothing changes
AppConfirms ==
  /\ \/ app = "ask-join" /\ app' \in {"join", "idle"} /\ UNCHANGED winq
     \/ app = "ask-apply" /\ app' \in {"apply", "idle"} /\ UNCHANGED winq
     \/ app = "apply" /\ app' = "idle" /\ Show(Note("apply", {}, TRUE))
  /\ UNCHANGED <<rows, used, prompted, winVars, winOpen, engVars, retiring, run, appq, jobs,
                 keeping, dirty, acts>>

\* mutant: the workers that delete are left to themselves
JoinedKeeper == keeping.at = "none"

\* _JoinLifecycleWorkers
Joined == jobs = {} /\ keeping.at = "none"

JoinWorkers ==
  /\ Joined
  /\ \/ app = "join" /\ app' = "shutdown"
     \/ app = "quit-join" /\ app' = "quit-shutdown"
  /\ UNCHANGED <<rows, used, prompted, winVars, winOpen, engVars, retiring, run, appq, winq, jobs,
                 keeping, dirty, acts>>

\* interrupt of every run, shutdown: spawns are refused from here
StopEngine ==
  /\ \/ app = "shutdown" /\ app' = "wait"
     \/ app = "quit-shutdown" /\ app' = "quit-wait"
  /\ closing' = closing \cup {eng}
  /\ run' = [s \in Chats |-> IF run[s].on = eng THEN Stopped(run[s]) ELSE run[s]]
  /\ UNCHANGED <<rows, used, prompted, winVars, winOpen, winEng, eng, alive, wired, center, retiring,
                 appq, winq, jobs, keeping, dirty, acts>>

\* mutant: the old engine goes before the window has the new one
FreedEarly == (alive \cup {eng + 1}) \ {eng}

Replaced == alive \cup {eng + 1}

\* the runs have ended: the next engine is made; nobody gives it the broker
ReplaceEngine ==
  /\ app = "wait" /\ \A s \in Chats : run[s].on # eng
  /\ app' = "swap"
  /\ eng' = eng + 1 /\ alive' = Replaced
  /\ retiring' = {}
  /\ UNCHANGED <<rows, used, prompted, winVars, winOpen, winEng, closing, wired, center, run, appq,
                 winq, jobs, keeping, dirty, acts>>

\* SetEngine under the window's lock, then the old engine is destroyed
SwapEngine ==
  /\ app = "swap"
  /\ app' = "idle"
  /\ winEng' = eng /\ alive' = {eng}
  /\ UNCHANGED <<rows, used, prompted, winVars, winOpen, eng, closing, wired, center, retiring, run,
                 appq, winq, jobs, keeping, dirty, acts>>

\* a shutdown that takes longer than ten seconds is cut off
Exit ==
  /\ app = "quit-wait" /\ app' = "ended"
  /\ UNCHANGED <<rows, used, prompted, winVars, winOpen, engVars, retiring, run, appq, winq, jobs,
                 keeping,
                 dirty, acts>>

Pulse ==
  /\ app = "idle" /\ keeping.pending /\ ~keeping.running /\ keeping.at = "none"
  /\ keeping' = [pending |-> FALSE, running |-> TRUE, at |-> "start", on |-> 0]
  /\ UNCHANGED <<rows, used, prompted, winVars, winOpen, engVars, retiring, run, app, appq, winq,
                 jobs,
                 dirty, acts>>

(***************************************************************************)
(* Permissions center: its own looper, which asks be_app's engine for the  *)
(* mode of the session it shows or inspects, without a lock.               *)
(***************************************************************************)
CenterAsks ==
  /\ Act /\ center = 0 /\ center' = eng
  /\ UNCHANGED <<rows, used, prompted, winVars, winOpen, winEng, eng, alive, closing, wired,
                 retiring, run, app, appq, winq, jobs, keeping, dirty>>

CenterAnswered ==
  /\ center # 0 /\ center' = 0
  /\ UNCHANGED <<rows, used, prompted, winVars, winOpen, winEng, eng, alive, closing, wired,
                 retiring, run, app, appq, winq, jobs, keeping, dirty, acts>>

(***************************************************************************)
(* Workers.                                                                *)
(***************************************************************************)
\* delete_session: refuse, stop what runs, join it, remove the rows.  A worker
\* goes through its sessions and notes which were deleted
JobDone(j, s, deleted) == (jobs \ {j}) \cup
  {[j EXCEPT !.ids = @ \ {s}, !.done = @ \cup deleted, !.sess = NoChat, !.on = 0]}

\* a second delete of a session that is gone is done; one that overlaps the
\* first finds no thread to join
JobTakes(j) ==
  /\ j \in jobs /\ j.sess = NoChat /\ j.ids # {}
  /\ \E s \in j.ids :
       IF eng \in closing \/ (s \in retiring /\ s \notin rows)
       THEN /\ jobs' = JobDone(j, s, IF eng \in closing THEN {} ELSE {s})
            /\ UNCHANGED <<retiring, run>>
       ELSE /\ jobs' = (jobs \ {j}) \cup
                       {[j EXCEPT !.sess = s, !.on = eng, !.joins = s \notin retiring]}
            /\ retiring' = retiring \cup {s}
            /\ run' = [run EXCEPT ![s] = IF @.on = 0 THEN @ ELSE Stopped(@)]
  /\ UNCHANGED <<rows, used, prompted, winVars, winOpen, engVars, app, appq, winq, keeping, dirty,
                 acts>>

\* the rows go, or the database refuses and the session is usable again
JobDeletes(j) ==
  /\ j \in jobs /\ j.sess # NoChat /\ (j.joins => run[j.sess].on = 0)
  /\ \/ /\ rows' = rows \ {j.sess} /\ dirty' = (dirty \/ j.sess \in rows)
        /\ jobs' = JobDone(j, j.sess, {j.sess}) /\ UNCHANGED retiring
     \/ /\ jobs' = JobDone(j, j.sess, {}) /\ retiring' = retiring \ {j.sess}
        /\ UNCHANGED <<rows, dirty>>
  /\ UNCHANGED <<used, prompted, winVars, winOpen, engVars, run, app, appq, winq, keeping, acts>>

JobReports(j) ==
  /\ j \in jobs /\ j.ids = {}
  /\ jobs' = jobs \ {j}
  /\ Tell(Note("deleted", j.done, j.done # {}))
  /\ UNCHANGED <<rows, used, prompted, winVars, winOpen, engVars, retiring, run, app, winq, keeping,
                 dirty, acts>>

\* run_when_idle holds the engine's lock while it works
KeeperEnters ==
  /\ keeping.at = "start"
  /\ keeping' = [keeping EXCEPT !.at = "work", !.on = eng]
  /\ UNCHANGED <<rows, used, prompted, winVars, winOpen, engVars, retiring, run, app, appq, winq,
                 jobs,
                 dirty, acts>>

KeeperWorks ==
  /\ keeping.at = "work"
  /\ keeping' = [keeping EXCEPT !.at = "none", !.on = 0]
  /\ \/ /\ eng \notin closing /\ Running = {} /\ dirty' = FALSE
        /\ Tell(Note("kept", {}, TRUE))
     \/ Tell(Note("kept", {}, FALSE)) /\ UNCHANGED dirty
  /\ UNCHANGED <<rows, used, prompted, winVars, winOpen, engVars, retiring, run, app, winq, jobs,
                 acts>>

LifeNext ==
  /\ app # "ended"
  /\ \/ \E s \in Chats : RunAsks(s) \/ RunEnds(s) \/ ClickSession(s) \/ Answers(s)
     \/ ClickNew \/ Type \/ Submit \/ SubmitFirst \/ ClickInterrupt \/ ClickDelete
     \/ ClickChange \/ ClickQuit \/ WindowTakes
     \/ AppTakesNote \/ AppConfirms \/ JoinWorkers \/ StopEngine \/ ReplaceEngine
     \/ SwapEngine \/ Exit \/ Pulse
     \/ \E j \in jobs : JobTakes(j) \/ JobDeletes(j) \/ JobReports(j)
     \/ KeeperEnters \/ KeeperWorks \/ CenterAsks \/ CenterAnswered

LifeSpec == LifeInit /\ [][LifeNext]_lifeVars

(***************************************************************************)
(* Properties.                                                             *)
(***************************************************************************)
\* Rows, list and selection are of known sessions, a deletion job names its session
\* and a housekeeping thread lives only inside its pass.
LifeTypeOK ==
  /\ rows \subseteq Chats /\ listed \subseteq Chats /\ sel \in Chats \cup {NoChat}
  /\ Cardinality(composer) <= 1
  /\ \A s \in Chats : run[s].at \in {"none", "work", "approval"}
  /\ \A j \in jobs : j.sess # NoChat => j.sess \in j.ids
  /\ keeping.at # "none" => keeping.running

\* An engine is destroyed after those be_app joins, waits for or gives the next
\* engine to: the window's calls, the threads that delete sessions, the
\* housekeeping thread, the runs (_RecreateEngine).  The Permissions center is
\* none of them, see EngineOutlivesCenter.
EngineOutlivesJoined ==
  /\ winOpen => winEng \in alive
  /\ eng \in alive
  /\ \A j \in jobs : j.on # 0 => j.on \in alive
  /\ keeping.on # 0 => keeping.on \in alive
  /\ \A s \in Chats : run[s].on # 0 => run[s].on \in alive

\* PermissionsCenterWindow.h: be_app "owns everything it references for the whole
\* app lifetime (engine accessor is a stable function since the engine object is
\* recreatable)".  Not so, see the README's findings: the engine that the accessor
\* returned may go while the center is in a call of it.
EngineOutlivesCenter == center # 0 => center \in alive

Reported(s) ==
  \/ \E j \in jobs : s \in j.done
  \/ \E i \in DOMAIN appq : appq[i].what = "deleted" /\ s \in appq[i].ids
  \/ \E i \in DOMAIN winq : winq[i].what = "deleted" /\ s \in winq[i].ids

\* However deletions, their reports, new sessions and clicks interleave: the
\* session in view exists or the report of its deletion is on its way; text
\* typed for a session stays with it until it is sent or the session is gone;
\* and rows that went are owed a housekeeping pass.
SessionsFollowed ==
  /\ winOpen => /\ sel # NoChat =>
                     (sel \in rows \/ Reported(sel)) /\ composer \subseteq {sel}
                /\ \A s \in typed \ {NoChat} :
                     IF s = sel THEN composer = {s} ELSE drafts[s] = {s}
  /\ dirty /\ app # "ended" =>
       \/ keeping.pending \/ keeping.at # "none"
       \/ \E s \in Chats : Reported(s)
       \/ \E i \in DOMAIN appq : appq[i].what = "kept" /\ ~appq[i].ok

\* docs/sessions.md:116-119: deleting a session means "cancelling open approvals
\* and questions", and docs/permissions.md: interrupting "denies its pending
\* approvals, so a wait can never hang the engine": be_app, which delivers the
\* decisions of the approval windows, never waits for a run that waits for one.
StopAfterReplace ==
  \A s \in Chats : run[s].at = "approval" =>
    /\ ~(app \in {"wait", "quit-wait"} /\ run[s].on = eng)
    /\ ~(app \in {"join", "quit-join"} /\ \E j \in jobs : j.sess = s)
=============================================================================
