----------------------------- MODULE Subprocess -----------------------------
(***************************************************************************)
(* run_subprocess() and the tools around it: one command under /bin/sh in  *)
(* a process group of its own, what it writes to the pipe it shares with a *)
(* descendant it leaves behind, and the caller that polls the exit, the    *)
(* interrupt flag, the deadline and the pipe.  Outside the code: when a    *)
(* process runs, writes and exits, the flag and the clock.  A byte is      *)
(* "sh", "bg" (by whom) or "bad", written by the shell and no UTF-8.       *)
(***************************************************************************)
EXTENDS SequencesExt, Integers

CONSTANTS
  OutputCap,   \* bytes of output that are kept
  ReadSize,    \* bytes one read() takes
  SpeechBound, \* bound: bytes the command writes
  ExitCodes    \* statuses a command exits with

ASSUME CommandAssumption ==
  /\ OutputCap \in Nat \ {0} /\ ReadSize \in Nat \ {0} /\ SpeechBound \in Nat
  /\ ExitCodes \subseteq Nat

VARIABLES
  sh,       \* the direct child: state, exit status, whether it has its group
  bg,       \* a descendant: state, and whether it left the group (setsid)
  ends,     \* who holds a write end of the pipe
  spoken,   \* everything written to the pipe
  taken,    \* how many bytes of it were read
  parent,   \* the caller: where it is, and what its locals say
  flag,     \* the engine's interrupt flag
  late,     \* the deadline has passed
  reply     \* what the call returned

commandVars == <<sh, bg, ends, spoken, taken, parent, flag, late, reply>>

\* statuses without an exit code: the child died of a signal that was not the
\* caller's, or of the caller's
Signalled == -1
Slain == -2

NoReply == [exit |-> 0, interrupted |-> FALSE, timed_out |-> FALSE, truncated |-> FALSE,
            output |-> <<>>]
Unread == Len(spoken) - taken
AtEnd == Unread = 0 /\ ends = {}
Lives == sh.state \in {"forked", "running"}

CommandInit ==
  /\ sh = [state |-> "none", status |-> 0, grouped |-> FALSE]
  /\ bg = [state |-> "none", away |-> FALSE]
  /\ ends = {} /\ spoken = <<>> /\ taken = 0
  /\ parent = [at |-> "spawn", open |-> TRUE, done |-> FALSE, grace |-> TRUE,
             output |-> <<>>, cut |-> FALSE, why |-> "", back |-> ""]
  /\ flag = FALSE /\ late = FALSE /\ reply = NoReply

(***************************************************************************)
(* Parent and child after fork().                                          *)
(***************************************************************************)
Forks ==
  /\ parent.at = "spawn"
  /\ sh' = [sh EXCEPT !.state = "forked"]
  /\ ends' = {"caller", "sh"}
  /\ parent' = [parent EXCEPT !.at = "close"]
  /\ UNCHANGED <<bg, spoken, taken, flag, late, reply>>

\* pipe() or fork() fails
SpawnFails ==
  /\ parent.at = "spawn"
  /\ parent' = [parent EXCEPT !.at = "returned", !.why = "failed"]
  /\ reply' = [NoReply EXCEPT !.exit = -1]
  /\ UNCHANGED <<sh, bg, ends, spoken, taken, flag, late>>

ClosesEnd ==
  /\ parent.at = "close"
  /\ ends' = ends \ {"caller"}
  /\ parent' = [parent EXCEPT !.at = "group"]
  /\ UNCHANGED <<sh, bg, spoken, taken, flag, late, reply>>

\* setpgid(pid, pid) from the parent fails once the child is past its exec
ParentGroups ==
  /\ parent.at = "group"
  /\ sh' = [sh EXCEPT !.grouped = @ \/ sh.state = "forked"]
  /\ parent' = [parent EXCEPT !.at = "test"]
  /\ UNCHANGED <<bg, ends, spoken, taken, flag, late, reply>>

\* the child's own setpgid, the redirections and exec
ChildExecs ==
  /\ sh.state = "forked"
  /\ sh' = [sh EXCEPT !.state = "running", !.grouped = TRUE]
  /\ UNCHANGED <<bg, ends, spoken, taken, parent, flag, late, reply>>

\* chdir or exec fails
ChildGivesUp ==
  /\ sh.state = "forked"
  /\ sh' = [sh EXCEPT !.state = "exited", !.status = 127, !.grouped = TRUE]
  /\ ends' = ends \ {"sh"}
  /\ UNCHANGED <<bg, spoken, taken, parent, flag, late, reply>>

(***************************************************************************)
(* The command.                                                            *)
(***************************************************************************)
\* after its return nothing more can change what the call did
Watched == parent.at # "returned"

Speaks ==
  /\ Watched /\ Len(spoken) < SpeechBound
  /\ \E b \in {"sh", "bad", "bg"} :
       /\ IF b = "bg" THEN bg.state = "running" /\ "bg" \in ends
                      ELSE sh.state = "running" /\ "sh" \in ends
       /\ spoken' = Append(spoken, b)
  /\ UNCHANGED <<sh, bg, ends, taken, parent, flag, late, reply>>

\* `server &`: the descendant inherits the shell's write end
LeavesBackground ==
  /\ Watched /\ sh.state = "running" /\ bg.state = "none"
  /\ bg' = [bg EXCEPT !.state = "running"]
  /\ ends' = IF "sh" \in ends THEN ends \cup {"bg"} ELSE ends
  /\ UNCHANGED <<sh, spoken, taken, parent, flag, late, reply>>

BackgroundLeaves ==
  /\ Watched /\ bg.state = "running" /\ ~bg.away
  /\ bg' = [bg EXCEPT !.away = TRUE]
  /\ UNCHANGED <<sh, ends, spoken, taken, parent, flag, late, reply>>

BackgroundExits ==
  /\ Watched /\ bg.state = "running"
  /\ bg' = [bg EXCEPT !.state = "gone"] /\ ends' = ends \ {"bg"}
  /\ UNCHANGED <<sh, spoken, taken, parent, flag, late, reply>>

\* `exec >&- 2>&-`
ShellClosesOutput ==
  /\ Watched /\ sh.state = "running" /\ "sh" \in ends
  /\ ends' = ends \ {"sh"}
  /\ UNCHANGED <<sh, bg, spoken, taken, parent, flag, late, reply>>

ShellExits ==
  /\ Watched /\ sh.state = "running"
  /\ \E code \in ExitCodes \cup {Signalled} :
       sh' = [sh EXCEPT !.state = "exited", !.status = code]
  /\ ends' = ends \ {"sh"}
  /\ UNCHANGED <<bg, spoken, taken, parent, flag, late, reply>>

Interrupted ==
  /\ Watched /\ ~flag /\ flag' = TRUE
  /\ UNCHANGED <<sh, bg, ends, spoken, taken, parent, late, reply>>

DeadlinePasses ==
  /\ Watched /\ ~late /\ late' = TRUE
  /\ UNCHANGED <<sh, bg, ends, spoken, taken, parent, flag, reply>>

GracePasses ==
  /\ parent.done /\ parent.grace /\ parent.at \in {"test", "poll", "drain"}
  /\ parent' = [parent EXCEPT !.grace = FALSE]
  /\ UNCHANGED <<sh, bg, ends, spoken, taken, flag, late, reply>>

(***************************************************************************)
(* The loop.                                                               *)
(***************************************************************************)
Goes(at) == parent' = [parent EXCEPT !.at = at]

GoesOn == ~parent.done \/ (parent.open /\ ~parent.cut /\ parent.grace)
LoopTest ==
  /\ parent.at = "test"
  /\ Goes(IF ~GoesOn THEN "answer" ELSE IF parent.done THEN "poll" ELSE "wait")
  /\ UNCHANGED <<sh, bg, ends, spoken, taken, flag, late, reply>>

\* waitpid(WNOHANG); nothing else waits for this child, so no ECHILD
Reaps ==
  /\ parent.at = "wait"
  /\ IF sh.state = "exited"
     THEN /\ sh' = [sh EXCEPT !.state = "reaped"]
          /\ parent' = [parent EXCEPT !.done = TRUE, !.at = "poll"]
     ELSE UNCHANGED sh /\ Goes("look")
  /\ UNCHANGED <<bg, ends, spoken, taken, flag, late, reply>>

\* the flag first, then the clock
LooksAtStop ==
  /\ parent.at = "look"
  /\ parent' = [parent EXCEPT
       !.at = IF flag \/ late THEN "kill" ELSE "poll",
       !.why = IF flag THEN "interrupted" ELSE IF late THEN "timed out" ELSE ""]
  /\ UNCHANGED <<sh, bg, ends, spoken, taken, flag, late, reply>>

KilledAlone == {"sh"}   \* mutant: no kill(-pid)
KilledTogether ==
  {"sh"} \cup IF sh.grouped /\ ~bg.away THEN {"bg"} ELSE {}

\* kill(-pid), kill(pid)
Kills ==
  /\ parent.at = "kill"
  /\ sh' = [sh EXCEPT !.state = "exited", !.status = IF Lives THEN Slain ELSE @]
  /\ bg' = [bg EXCEPT !.state = IF "bg" \in KilledTogether /\ @ = "running" THEN "gone" ELSE @]
  /\ ends' = ends \ KilledTogether
  /\ Goes("reap")
  /\ UNCHANGED <<spoken, taken, flag, late, reply>>

\* waitpid without WNOHANG, then what is left in the pipe
BlockingReap ==
  /\ parent.at = "reap" /\ sh.state = "exited"
  /\ sh' = [sh EXCEPT !.state = "reaped"]
  /\ parent' = [parent EXCEPT !.done = TRUE, !.at = IF parent.open THEN "drain" ELSE "answer",
                          !.back = "again"]
  /\ UNCHANGED <<bg, ends, spoken, taken, flag, late, reply>>

\* poll(100): ready on data or hang-up, or the tick is over; or it fails
Polls ==
  /\ parent.at = "poll"
  /\ \/ /\ parent.open /\ (Unread > 0 \/ ends = {})
        /\ parent' = [parent EXCEPT !.at = "drain", !.back = "test"]
     \/ /\ ~parent.open \/ (Unread = 0 /\ ends # {})
        /\ Goes("test")
     \/ /\ parent.open
        /\ parent' = [parent EXCEPT !.open = FALSE, !.at = "test"]
  /\ UNCHANGED <<sh, bg, ends, spoken, taken, flag, late, reply>>

\* one read() of drain_available(): past the cap bytes are taken and dropped
ReadCount == IF Unread < ReadSize THEN Unread ELSE ReadSize
Room == OutputCap - Len(parent.output)
Fits == IF ReadCount < Room THEN ReadCount ELSE Room
DrainReads ==
  /\ parent.at = "drain" /\ Unread > 0
  /\ taken' = taken + ReadCount
  /\ parent' = [parent EXCEPT !.output = @ \o SubSeq(spoken, taken + 1, taken + Fits),
                          !.cut = @ \/ Fits < ReadCount]
  /\ UNCHANGED <<sh, bg, ends, spoken, flag, late, reply>>

\* EAGAIN, or the end of the file; after a kill one poll(0) and one more round
AfterDrain(open) ==
  CASE parent.back = "test" -> [parent EXCEPT !.at = "test", !.open = @ /\ open]
    [] parent.back = "again" /\ open -> [parent EXCEPT !.at = "glance", !.back = "answer"]
    [] OTHER -> [parent EXCEPT !.at = "answer"]
DrainEnds ==
  /\ parent.at = "drain" /\ Unread = 0
  /\ parent' = AfterDrain(ends # {})
  /\ UNCHANGED <<sh, bg, ends, spoken, taken, flag, late, reply>>

Glances ==
  /\ parent.at = "glance"
  /\ Goes(IF Unread > 0 \/ ends = {} THEN "drain" ELSE "answer")
  /\ UNCHANGED <<sh, bg, ends, spoken, taken, flag, late, reply>>

(***************************************************************************)
(* The result and what the tools make of it.                               *)
(***************************************************************************)
\* sanitize_utf8: a bad byte becomes a longer replacement; truncate_utf8
Sanitized(bytes) ==
  FlattenSeq([i \in DOMAIN bytes |-> IF bytes[i] = "bad" THEN <<"?", "?">> ELSE <<bytes[i]>>])
CutTo(text, n) == SubSeq(text, 1, IF Len(text) < n THEN Len(text) ELSE n)

ExitOf(status) == IF parent.why # "" THEN -1 ELSE status

AnswerCall ==
  /\ parent.at = "answer"
  /\ reply' = [exit |-> ExitOf(sh.status),
               interrupted |-> parent.why = "interrupted", timed_out |-> parent.why = "timed out",
               truncated |-> parent.cut, output |-> CutTo(Sanitized(parent.output), OutputCap)]
  /\ Goes("returned")
  /\ UNCHANGED <<sh, bg, ends, spoken, taken, flag, late>>

WasStopped(r) == r.interrupted \/ r.timed_out
\* a tool's result: success or not, and whether it says "[output truncated]"
ToolAnswer(ok, marked) == [success |-> ok, marked |-> marked]
Finished0(r) == ~WasStopped(r) /\ r.exit = 0
NotError2(r) == ~WasStopped(r) /\ r.exit # 2

BashAnswer(r) == ToolAnswer(Finished0(r), r.truncated /\ ~WasStopped(r))
GitAnswer(r) == ToolAnswer(Finished0(r), r.truncated /\ ~WasStopped(r))
FindAnswer(r) == ToolAnswer(Finished0(r), r.truncated /\ Finished0(r))
GrepAnswer(r) == ToolAnswer(NotError2(r), r.truncated /\ NotError2(r))
DiffAnswer(r) == ToolAnswer(NotError2(r), r.truncated /\ NotError2(r))
\* ps and netstat: no status is looked at, and a filter drops the mark's line
ProcessAnswer(r, filtered) == ToolAnswer(~WasStopped(r), r.truncated /\ ~filtered)
\* the build hook's status, 124 and 130 for a stop; its caller wants 0
HookCode(r) == IF r.timed_out THEN 124 ELSE IF r.interrupted THEN 130 ELSE r.exit
HookAnswer(r) == ToolAnswer(HookCode(r) = 0, r.truncated /\ ~WasStopped(r))
WholeAnswers == {BashAnswer(reply), GitAnswer(reply), FindAnswer(reply), GrepAnswer(reply),
                 DiffAnswer(reply), ProcessAnswer(reply, FALSE), HookAnswer(reply)}
ToolAnswers == WholeAnswers \cup {ProcessAnswer(reply, TRUE)}

CommandNext ==
  \/ Forks \/ SpawnFails \/ ClosesEnd \/ ParentGroups \/ ChildExecs \/ ChildGivesUp
  \/ Speaks \/ LeavesBackground \/ BackgroundLeaves \/ BackgroundExits
  \/ ShellClosesOutput \/ ShellExits \/ Interrupted \/ DeadlinePasses \/ GracePasses
  \/ LoopTest \/ Reaps \/ LooksAtStop \/ Kills \/ BlockingReap
  \/ Polls \/ DrainReads \/ DrainEnds \/ Glances \/ AnswerCall

CommandSpec == CommandInit /\ [][CommandNext]_commandVars

(***************************************************************************)
(* Properties.                                                             *)
(***************************************************************************)
\* The caller is at a step of the loop, and never keeps more than the cap.
CommandTypeOK ==
  /\ sh.state \in {"none", "forked", "running", "exited", "reaped"}
  /\ bg.state \in {"none", "running", "gone"}
  /\ ends \subseteq {"caller", "sh", "bg"}
  /\ taken \in 0..Len(spoken) /\ Len(spoken) <= SpeechBound
  /\ Len(parent.output) <= OutputCap

Ran == parent.at = "returned" /\ parent.why # "failed"
LastOfShell == SelectLastInSeq(spoken, LAMBDA b : b # "bg")
PipeHeld == parent.open \/ AtEnd

\* However the exit, the interrupt, the deadline, the output and a descendant
\* that keeps the pipe are timed (run_subprocess, subprocess.cpp:75-165): the
\* blocking waitpid never waits for a live child; a call that returned left no
\* zombie, and after a stop nothing of the command's group; its status is the
\* child's own, -1 for one that died of a signal, and never that of a child the
\* caller killed unless it says stopped; what it returns is what was written, in
\* order and up to the last byte of the child unless it says truncated; no tool
\* calls a stopped command a success, and none that gives the output unfiltered
\* hides that some was dropped.
CommandHonest ==
  /\ parent.at = "reap" => ~Lives
  /\ Ran =>
       /\ sh.state = "reaped"
       /\ parent.why # "" => reply.exit = -1 /\ (bg.state = "running" => bg.away)
       /\ parent.why = "" => reply.exit = sh.status /\ sh.status # Slain
       /\ IsPrefix(reply.output, Sanitized(spoken))
       /\ PipeHeld /\ ~reply.truncated => taken >= LastOfShell
       /\ "bad" \notin ToSet(spoken) /\ ~reply.truncated => Len(reply.output) = taken
       /\ \A a \in ToolAnswers : a.success => parent.why = ""
       /\ \A a \in WholeAnswers : a.success => a.marked = reply.truncated

\* What subprocess.h:13 says of truncated, "output exceeded output_cap": false,
\* the replacements of sanitize_utf8 make the text longer and truncate_utf8 then
\* cuts it without a mark (subprocess.cpp:157-158).
CutIsReported == Ran /\ ~reply.truncated => reply.output = Sanitized(SubSeq(spoken, 1, taken))

=============================================================================
