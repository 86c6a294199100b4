---------------------------- MODULE Permissions ----------------------------
(***************************************************************************)
(* The permission state of a session and the threads that change it: the   *)
(* main window (mode menu, presets), the permissions center (toggles,      *)
(* grants), be_app, which owns the flags and arms the gate's session       *)
(* rules, and the session's worker, which evaluates tool calls.  The two   *)
(* windows and be_app have a message queue each.  An approval is what      *)
(* ApprovalContract promises: open until one answer or a denial.           *)
(***************************************************************************)
EXTENDS Authorization

CONSTANTS
  Sessions,     \* sessions of the list
  Calls,        \* the tool calls a model may make
  Documents,    \* the rule sequences the configuration may hold
  Working,      \* the sessions whose worker calls tools
  Budgets       \* bounds: [clicks, calls, documents], what the user and
                \* the model may do and the rules in force at first

\* a call asks for the permission of its tool
PermissionsAssumption ==
  /\ Working \subseteq Sessions
  /\ \A call \in Calls : call.action = RequiredPermission(call.tool)
ASSUME PermissionsAssumption

VARIABLES
  mode,         \* session_modes_: mode of a session
  stored,       \* the permission flags in the session's row
  flags,        \* session_flags_ of be_app, Absent before the first sync
  armed,        \* session_rules_ of the gate, by the flag that armed them
  exact,        \* exact_allows_ of the gate
  configured,   \* rules_ of the gate
  active,       \* active_session_id_
  shown,        \* perm_mode_, perm_read_on_ and perm_preset_ of the main window
  center,       \* the center: session, mode it shows, the flags it read
  appbox,       \* be_app's queue
  winbox,       \* MSG_PERM_STATUS echoes on their way to the main window
  work,         \* each session's tool call
  interrupted,  \* interrupt flag of the session's run
  told,         \* history: flags as the messages be_app has handled set them
  overwritten,  \* history: sessions whose row a toggle wrote from an older copy
  clicks, calls \* what is left of the budget

history == <<told, overwritten>>
wins == <<mode, stored, flags, armed, active, shown, center, appbox, winbox, history>>
gateVars == <<exact, configured, work, interrupted, calls>>
vars == <<wins, gateVars, clicks>>

FlagNames == {"auto", "yolo", "read"}
Absent == {"absent"}

\* mutant: rules follow the flags in every mode
DerivedAlways(set, m) == IF set = Absent THEN {} ELSE set

\* the rules _ApplySessionRules derives: write flags arm in Build only
Derived(set, m) ==
  IF set = Absent \/ m = "chat" THEN {}
  ELSE IF m = "plan" THEN set \cap {"read"} ELSE set

RuleOf == [auto |-> [action |-> "write", resource |-> "*", effect |-> "allow"],
           yolo |-> [action |-> "*", resource |-> "*", effect |-> "allow"],
           read |-> [action |-> "read", resource |-> "*", effect |-> "allow"]]
SessionRules(set) ==
  LET on(f) == IF f \in set THEN <<RuleOf[f]>> ELSE <<>>
  IN on("auto") \o on("yolo") \o on("read")

Idle == [pc |-> "idle", call |-> "none", mode |-> "build", by |-> "none",
         written |-> NoMatch, late |-> FALSE]

Init ==
  /\ mode \in [Sessions -> {"build", "plan"}]
  /\ stored = [s \in Sessions |-> {}]
  /\ flags = [s \in Sessions |-> Absent]
  /\ armed = [s \in Sessions |-> {}]
  /\ exact = [s \in Sessions |-> {}]
  /\ active \in Sessions
  /\ shown = [mode |-> mode[active], read |-> FALSE, yolo |-> FALSE]
  /\ center = [sess |-> active, mode |-> mode[active], read |-> Absent, stale |-> FALSE]
  /\ appbox = <<[what |-> "active", sess |-> active]>>
  /\ winbox = <<>>
  /\ work = [s \in Sessions |-> Idle]
  /\ interrupted = [s \in Sessions |-> FALSE]
  /\ told = stored /\ overwritten = {}
  /\ \E budget \in Budgets : clicks = budget.clicks /\ calls = budget.calls
                            /\ configured \in budget.documents

Sync == [what |-> "sync"]
ActiveMsg(s) == [what |-> "active", sess |-> s]
FlagMsg(s, f, on) == [what |-> "flag", sess |-> s, flag |-> f, on |-> on]
Post(msgs) == appbox' = appbox \o msgs
Click == clicks > 0 /\ clicks' = clicks - 1

(***************************************************************************)
(* Main window.                                                            *)
(***************************************************************************)
\* the mark follows the engine; a mode the menu does not show asks be_app
RefreshModeButton(s, m) == IF m # shown.mode THEN <<Sync>> ELSE <<>>

\* the toggles that mean nothing in the mode entered
InapplicableOff(s, m) ==
  IF m = "build" THEN <<>>
  ELSE <<FlagMsg(s, "auto", FALSE), FlagMsg(s, "yolo", FALSE)>>
       \o IF m = "chat" THEN <<FlagMsg(s, "read", FALSE)>> ELSE <<>>

\* the confirmation of a switch to Build can be cancelled
SetMode(m) ==
  /\ Click
  /\ IF m = mode[active] THEN Post(RefreshModeButton(active, m)) /\ UNCHANGED mode
     ELSE \/ /\ m = "build"
             /\ Post(RefreshModeButton(active, mode[active])) /\ UNCHANGED mode
          \/ /\ mode' = [mode EXCEPT ![active] = m]
             /\ Post(InapplicableOff(active, m) \o <<Sync>> \o RefreshModeButton(active, m))
  /\ UNCHANGED <<stored, flags, armed, active, shown, center, winbox, history, gateVars>>

\* a plan is approved from its review window, of whatever session
ApprovePlan(s) ==
  /\ mode[s] = "plan" /\ Click
  /\ mode' = [mode EXCEPT ![s] = "build"]
  /\ Post(IF s = active THEN RefreshModeButton(s, "build") ELSE <<>>)
  /\ UNCHANGED <<stored, flags, armed, active, shown, center, winbox, history, gateVars>>

\* the menu offers a mode's items until the echo rebuilds it
PickPreset(preset) ==
  /\ Click
  /\ IF preset # "standard" /\ shown.mode # "build" THEN Post(<<Sync>>)
     ELSE Post(<<FlagMsg(active, "auto", preset = "auto"),
                 FlagMsg(active, "yolo", preset = "yolo")>>)
  /\ UNCHANGED <<mode, stored, flags, armed, active, shown, center, winbox, history, gateVars>>

ToggleRead ==
  /\ Click
  /\ IF shown.mode = "chat" \/ shown.yolo THEN Post(<<Sync>>) /\ UNCHANGED shown
     ELSE /\ Post(<<FlagMsg(active, "read", ~shown.read)>>)
          /\ shown' = [shown EXCEPT !.read = ~@]
  /\ UNCHANGED <<mode, stored, flags, armed, active, center, winbox, history, gateVars>>

SelectSession(s) ==
  /\ s # active /\ Click
  /\ active' = s
  /\ Post(<<ActiveMsg(s)>>
          \o RefreshModeButton(s, mode[s]) \o <<Sync>>)
  /\ UNCHANGED <<mode, stored, flags, armed, shown, center, winbox, history, gateVars>>

PermStatus ==
  /\ winbox # <<>>
  /\ shown' = Head(winbox) /\ winbox' = Tail(winbox)
  /\ UNCHANGED <<mode, stored, flags, armed, active, center, appbox, history, gateVars, clicks>>

(***************************************************************************)
(* Permissions center.  Its toggles write the row and then tell be_app;    *)
(* reading the row and writing it are two calls of the store.              *)
(***************************************************************************)
CenterRefresh ==
  /\ center.stale /\ center.read = Absent
  /\ center' = [center EXCEPT !.mode = mode[center.sess], !.stale = FALSE]
  /\ UNCHANGED <<mode, stored, flags, armed, active, shown, appbox, winbox, history, gateVars, clicks>>

CenterSelect(s) ==
  /\ s # center.sess /\ center.read = Absent /\ Click
  /\ center' = [center EXCEPT !.sess = s, !.mode = mode[s]]
  /\ UNCHANGED <<mode, stored, flags, armed, active, shown, appbox, winbox, history, gateVars>>

CenterRead ==
  /\ center.read = Absent /\ Click
  /\ center' = [center EXCEPT !.read = stored[center.sess]]
  /\ UNCHANGED <<mode, stored, flags, armed, active, shown, appbox, winbox, history, gateVars>>

Enabled(f) ==
  \/ f = "read" /\ center.mode # "chat"
  \/ f # "read" /\ center.mode = "build"

CenterToggle(f, on) ==
  /\ center.read # Absent /\ Enabled(f)
  /\ stored' = [stored EXCEPT ![center.sess] =
       IF on THEN center.read \cup {f} ELSE center.read \ {f}]
  /\ Post(<<FlagMsg(center.sess, f, on)>>)
  /\ overwritten' = IF center.read \ {f} = stored[center.sess] \ {f} THEN overwritten
                    ELSE overwritten \cup {center.sess}
  /\ center' = [center EXCEPT !.read = Absent]
  /\ UNCHANGED <<mode, flags, armed, active, shown, winbox, told, gateVars, clicks>>

Revoke(grants) ==
  /\ grants \subseteq exact[center.sess] /\ grants # {} /\ Click
  /\ exact' = [exact EXCEPT ![center.sess] = @ \ grants]
  /\ UNCHANGED <<wins, configured, work, interrupted, calls>>

\* a policy document was saved: be_app reloads it into the gate
PolicySaved(rules) ==
  /\ rules # configured /\ calls > 0 /\ Click
  /\ configured' = rules
  /\ UNCHANGED <<wins, exact, work, interrupted, calls>>

(***************************************************************************)
(* be_app.                                                                 *)
(***************************************************************************)
\* every flag, mode or session change re-derives the active session's rules
\* and echoes what it found
Notify(newFlags, newArmed) ==
  /\ flags' = newFlags
  /\ armed' = [newArmed EXCEPT ![active] = Derived(newFlags[active], mode[active])]
  /\ winbox' = Append(winbox, [mode |-> mode[active],
                               read |-> "read" \in newFlags[active],
                               yolo |-> mode[active] = "build" /\ "yolo" \in newFlags[active]])
  /\ center' = [center EXCEPT !.stale = TRUE]

\* mutant: the flags are taken as they are in memory, synced or not
RawBase(s) == flags[s]

SyncedBase(s) == IF flags[s] = Absent THEN stored[s] ELSE flags[s]

AppFlag(s, f, on) ==
  LET set == IF on THEN SyncedBase(s) \cup {f} ELSE SyncedBase(s) \ {f} IN
  /\ stored' = [stored EXCEPT ![s] = set]
  /\ told' = [told EXCEPT ![s] = IF on THEN @ \cup {f} ELSE @ \ {f}]
  /\ Notify([flags EXCEPT ![s] = set], [armed EXCEPT ![s] = Derived(set, mode[s])])

AppActive(s) ==
  /\ Notify([flags EXCEPT ![s] = stored[s]], [armed EXCEPT ![s] = Derived(stored[s], mode[s])])
  /\ UNCHANGED <<stored, told>>

AppHandles ==
  /\ appbox # <<>> /\ appbox' = Tail(appbox)
  /\ LET msg == Head(appbox) IN
     \/ msg.what = "flag" /\ AppFlag(msg.sess, msg.flag, msg.on)
     \/ msg.what = "active" /\ AppActive(msg.sess)
     \/ msg.what = "sync" /\ Notify(flags, armed) /\ UNCHANGED <<stored, told>>
  /\ UNCHANGED <<mode, active, shown, overwritten, gateVars, clicks>>

(***************************************************************************)
(* The worker: ToolRegistry::execute.  A step reads the mode once; the     *)
(* rules are read at the evaluation, and again by check_tool before the    *)
(* user is asked.                                                          *)
(***************************************************************************)
Snapshot(s) ==
  [exact |-> exact[s], session |-> SessionRules(armed[s]), configured |-> configured]
Written(call) == LayerDecision(configured, "configuration", call)

Step(s, call) ==
  /\ work[s].pc = "idle" /\ calls > 0
  /\ work' = [work EXCEPT ![s] = [Idle EXCEPT !.pc = "called", !.call = call,
                                              !.mode = mode[s]]]
  /\ calls' = calls - 1
  /\ UNCHANGED <<wins, exact, configured, interrupted, clicks>>

Settle(s, pc, by, written) ==
  work' = [work EXCEPT ![s] = [@ EXCEPT !.pc = pc, !.by = by, !.written = written]]

Outcome(effect) == CASE effect = "allow" -> "ran" [] effect = "deny" -> "refused"
                     [] OTHER -> "asking"

EvaluateCall(s) ==
  /\ work[s].pc = "called"
  /\ LET d == Evaluate(work[s].call, work[s].mode, FALSE, Snapshot(s))
     IN Settle(s, IF d.effect = "ask" THEN "check" ELSE Outcome(d.effect), d.source,
               Written(work[s].call))
  /\ UNCHANGED <<wins, exact, configured, interrupted, calls, clicks>>

\* check_tool asks the gate alone, then opens the request
CheckTool(s) ==
  /\ work[s].pc = "check"
  /\ LET d == GateEvaluate(Snapshot(s), work[s].call)
     IN Settle(s, Outcome(d.effect), d.source, Written(work[s].call))
  /\ UNCHANGED <<wins, exact, configured, interrupted, calls, clicks>>

\* resolve() installs the session grant before the worker wakes
Answer(s, decision) ==
  /\ work[s].pc = "asking" /\ Click
  /\ Settle(s, "answered", decision, work[s].written)
  /\ exact' = IF decision = "session"
              THEN [exact EXCEPT ![s] = @ \cup {<<work[s].call.action, work[s].call.resource>>}]
              ELSE exact
  /\ UNCHANGED <<wins, configured, interrupted, calls>>

\* interrupt_session: the flag first, the broker's cancel after it, whether
\* the request is open by then or not
Interrupt(s) ==
  /\ work[s].pc # "idle" /\ ~interrupted[s]
  /\ interrupted' = [interrupted EXCEPT ![s] = TRUE]
  /\ UNCHANGED <<wins, exact, configured, work, calls, clicks>>

CancelAsk(s) ==
  /\ interrupted[s] /\ work[s].pc = "asking"
  /\ Settle(s, "answered", "cancel", work[s].written)
  /\ UNCHANGED <<wins, exact, configured, interrupted, calls, clicks>>

\* mutant: an approval is acted on without another look at the flag
ProceedsAtOnce(s) == work[s].by \in {"once", "session"}

\* an interrupt that landed during the wait stops the call
Proceeds(s) == work[s].by \in {"once", "session"} /\ ~interrupted[s]

Wake(s) ==
  /\ work[s].pc = "answered"
  /\ work' = [work EXCEPT ![s] = [@ EXCEPT !.pc = IF Proceeds(s) THEN "ran" ELSE "refused",
                                           !.late = Proceeds(s) /\ interrupted[s]]]
  /\ UNCHANGED <<wins, exact, configured, interrupted, calls, clicks>>

Return(s) ==
  /\ work[s].pc \in {"ran", "refused"}
  /\ work' = [work EXCEPT ![s] = Idle]
  /\ interrupted' = [interrupted EXCEPT ![s] = FALSE]
  /\ UNCHANGED <<wins, exact, configured, calls, clicks>>

Next ==
  \/ \E m \in Modes : SetMode(m)
  \/ \E s \in Sessions : ApprovePlan(s) \/ SelectSession(s) \/ CenterSelect(s)
  \/ \E preset \in {"standard", "auto", "yolo"} : PickPreset(preset)
  \/ ToggleRead \/ PermStatus \/ CenterRefresh \/ CenterRead
  \/ \E f \in FlagNames, on \in BOOLEAN : CenterToggle(f, on)
  \/ \E rules \in Documents : PolicySaved(rules)
  \/ \E grant \in exact[center.sess] : Revoke({grant})
  \/ Revoke(exact[center.sess])
  \/ AppHandles
  \/ \E s \in Sessions :
       EvaluateCall(s) \/ CheckTool(s) \/ Wake(s) \/ Return(s) \/ Interrupt(s) \/ CancelAsk(s)
  \/ \E s \in Working, call \in Calls : Step(s, call)
  \/ \E s \in Sessions, decision \in {"once", "session", "deny"} : Answer(s, decision)

Spec == Init /\ [][Next]_vars

(***************************************************************************)
(* Properties.                                                             *)
(***************************************************************************)
\* Queues hold messages of sessions, flags are absent or a set of flags, and
\* the center's snapshot is one it can have read.
TypeOK ==
  /\ mode \in [Sessions -> Modes] /\ active \in Sessions
  /\ stored \in [Sessions -> SUBSET FlagNames]
  /\ flags \in [Sessions -> (SUBSET FlagNames) \cup {Absent}]
  /\ armed \in [Sessions -> SUBSET FlagNames]
  /\ \A i \in DOMAIN appbox : appbox[i].what \in {"flag", "active", "sync"}
  /\ \A i \in DOMAIN winbox : winbox[i] \in [mode: Modes, read: BOOLEAN, yolo: BOOLEAN]
  /\ center.read \in (SUBSET FlagNames) \cup {Absent}
  /\ \A s \in Sessions : work[s].pc # "idle" => work[s].call \in Calls

\* Two windows and be_app write one session's flags, and a mode change disarms
\* some.  Once be_app's queue is empty its copy, the row and the gate agree, no
\* write rule is armed outside Build, and the row says what the toggles, in the
\* order be_app took them, said last: only a toggle of the center that wrote
\* over a newer row is excepted, see LastToggleStays.
Quiet == appbox = <<>> /\ center.read = Absent
FlagsConverge ==
  Quiet => \A s \in Sessions :
    /\ flags[s] # Absent => stored[s] = flags[s]
    /\ armed[s] \subseteq flags[s]
    /\ mode[s] # "build" => armed[s] \subseteq {"read"}
    /\ mode[s] = "chat" => armed[s] = {}
    /\ s \notin overwritten => stored[s] = told[s]

\* docs/permissions.md:19 says of the toggles "Persisted per session, restored on
\* reopen": what a toggle set stays until a toggle of the same flag.
LastToggleStays == Quiet => \A s \in Sessions : stored[s] = told[s]

Changes(call) ==
  \/ call.tool \in {"write", "edit", "bash"}
  \/ call.tool = "git" /\ ~GitReadonly(call.git)

\* docs/permissions.md: a Deny or Ask written in the Policies tab overrides an
\* exemption; a Deny is only passed over by the user's own grants and toggles
\* or the system roots; no link leads an exempt read out of the project; Plan
\* changes nothing and Chat touches nothing local; and an approval does not
\* outlive an interrupt that came before its worker woke.
GateHonest ==
  \A s \in Sessions : work[s].pc = "ran" =>
    /\ work[s].by = "builtin" => work[s].written = NoMatch
    /\ work[s].written.effect = "deny" => work[s].by \in {"temporary_exact", "session", "root"}
    /\ work[s].mode = "plan" => ~Changes(work[s].call)
    /\ work[s].mode = "chat" => work[s].call.action \notin {"read", "write", "bash", "git"}
    /\ work[s].by = "builtin" /\ work[s].call.action = "read"
         => work[s].call.path.real # "elsewhere"
    /\ ~work[s].late

\* docs/permissions.md:22-23: "Switching modes re-derives the armed rules, so
\* a dormant flag never waits to fire": outside Build no write flag is set.
NoDormantFlag ==
  Quiet => \A s \in Sessions :
    mode[s] # "build" => flags[s] = Absent \/ flags[s] \cap {"auto", "yolo"} = {}
=============================================================================
