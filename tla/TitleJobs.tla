----------------------------- MODULE TitleJobs -----------------------------
(***************************************************************************)
(* The naming of a session beside its turns: the heuristic title of a      *)
(* prompt, the title jobs a turn leaves behind on threads of their own,    *)
(* and what cancels, joins or waits for them: interrupt, delete, shutdown  *)
(* and the housekeeping that runs only when nothing else does.             *)
(***************************************************************************)
EXTENDS Integers, FiniteSets

CONSTANTS
  Jobs,         \* title jobs; a bound on the refinements of one execution
  Headlines,    \* titles a model may answer
  PromptBound   \* bound: prompts of the session

ASSUME TitleAssumption == PromptBound \in Nat

VARIABLES
  title,      \* session.title in the store, Gone once the row is deleted
  prompts,    \* user_prompted rows
  turn,       \* the runner: its place and the title it read
  flagged,    \* the session's interrupt flag
  refinement, \* per title job: its place, its baseline, its answer, cancel and done
  titleJobs,  \* title_jobs_
  deletion,   \* delete_session
  shutdown,   \* shutdown()
  housekeeping, \* run_when_idle is at its work, holding mu_
  overwrote   \* history: a refinement replaced a title it had not reconsidered

titleVars == <<title, prompts, turn, flagged, refinement, titleJobs, deletion, shutdown,
               housekeeping, overwrote>>

Untitled == ""
FirstLine == "first line"
Gone1 == "no row"
Unborn == [at |-> "none", baseline |-> Untitled, answer |-> Untitled, cancel |-> FALSE, of |-> "list"]

TitlesInit ==
  /\ title = Untitled /\ prompts = 0 /\ flagged = FALSE
  /\ turn = [at |-> "idle", baseline |-> Untitled]
  /\ refinement = [j \in Jobs |-> Unborn] /\ titleJobs = {}
  /\ deletion = "no" /\ shutdown = "no" /\ housekeeping = FALSE /\ overwrote = FALSE

MuFree == ~housekeeping
Refining(j) == refinement[j].at \in {"asking", "answered", "checked", "written"}

(***************************************************************************)
(* The turn.                                                               *)
(***************************************************************************)
\* submit_prompt; retry_last_turn and continue_session add no row
TurnStarts ==
  /\ MuFree /\ turn.at = "idle" /\ shutdown = "no" /\ deletion \in {"no", "failed"}
  /\ \/ prompts < PromptBound /\ prompts' = prompts + 1 /\ turn' = [turn EXCEPT !.at = "prompted"]
     \/ prompts > 0 /\ UNCHANGED prompts /\ turn' = [turn EXCEPT !.at = "running"]
  /\ flagged' = FALSE
  /\ UNCHANGED <<title, refinement, titleJobs, deletion, shutdown, housekeeping, overwrote>>

\* store_prompt_row: an empty title is read, then written without a condition;
\* a prompt of attachments only has no first line
ReadsTitle ==
  /\ turn.at = "prompted"
  /\ \/ title = Untitled /\ turn' = [turn EXCEPT !.at = "naming"]
     \/ turn' = [turn EXCEPT !.at = "running"]
  /\ UNCHANGED <<title, prompts, flagged, refinement, titleJobs, deletion, shutdown, housekeeping,
                 overwrote>>

NamesFromPrompt ==
  /\ turn.at = "naming"
  /\ title' = FirstLine
  /\ turn' = [turn EXCEPT !.at = "running"]
  /\ UNCHANGED <<prompts, flagged, refinement, titleJobs, deletion, shutdown, housekeeping,
                 overwrote>>

\* The end of agentic_loop: refinement on turns 1, 6, 11, ... not interrupted
RefinementDue == ~flagged /\ prompts % 5 = 1

TurnOver ==
  /\ turn.at = "running"
  /\ turn' = IF RefinementDue THEN [at |-> "sweeping", baseline |-> title]
             ELSE [turn EXCEPT !.at = "idle"]
  /\ UNCHANGED <<title, prompts, flagged, refinement, titleJobs, deletion, shutdown, housekeeping,
                 overwrote>>

\* sweep_title_jobs: jobs that are done leave the list and are joined
SweepsJobs ==
  /\ MuFree /\ turn.at = "sweeping"
  /\ LET done == {j \in titleJobs : refinement[j].at = "done"}
     IN /\ titleJobs' = titleJobs \ done
        /\ refinement' = [j \in Jobs |-> IF j \in done THEN [refinement[j] EXCEPT !.at = "joined"]
                                        ELSE refinement[j]]
  /\ turn' = [turn EXCEPT !.at = "spawning"]
  /\ UNCHANGED <<title, prompts, flagged, deletion, shutdown, housekeeping, overwrote>>

MayAlways == TRUE   \* mutant: the flag and shutting_down_ are not read again under mu_
MaySpawn == shutdown = "no" /\ ~flagged

SpawnsJob ==
  /\ MuFree /\ turn.at = "spawning"
  /\ \/ ~MaySpawn /\ UNCHANGED <<refinement, titleJobs>>
     \/ /\ MaySpawn
        /\ \E j \in Jobs :
             /\ refinement[j].at = "none"
             /\ refinement' = [refinement EXCEPT ![j] =
                  [Unborn EXCEPT !.at = "asking", !.baseline = turn.baseline]]
             /\ titleJobs' = titleJobs \cup {j}
  /\ turn' = [at |-> "idle", baseline |-> Untitled]
  /\ UNCHANGED <<title, prompts, flagged, deletion, shutdown, housekeeping, overwrote>>

(***************************************************************************)
(* A title job: refine_title_llm.                                          *)
(***************************************************************************)
Ends(j) == refinement' = [refinement EXCEPT ![j].at = "done"]

\* The answer, unless the stream fails, is cancelled, is empty or repeats the
\* title
AnswersTitle(j) ==
  /\ refinement[j].at = "asking"
  /\ \/ Ends(j)
     \/ \E t \in Headlines \ {refinement[j].baseline} :
          /\ ~refinement[j].cancel
          /\ refinement' = [refinement EXCEPT ![j] = [@ EXCEPT !.at = "answered", !.answer = t]]
  /\ UNCHANGED <<title, prompts, turn, flagged, titleJobs, deletion, shutdown, housekeeping,
                 overwrote>>

ReadsCancel(j) ==
  /\ refinement[j].at = "answered"
  /\ IF refinement[j].cancel THEN Ends(j) ELSE refinement' = [refinement EXCEPT ![j].at = "checked"]
  /\ UNCHANGED <<title, prompts, turn, flagged, titleJobs, deletion, shutdown, housekeeping,
                 overwrote>>

\* update_title_if_current
Whatever(j) == title # Gone1   \* mutant: update_title
StillCurrent(j) == title = refinement[j].baseline

WritesTitle(j) ==
  /\ refinement[j].at = "checked"
  /\ IF StillCurrent(j)
     THEN title' = refinement[j].answer /\ overwrote' = (overwrote \/ title # refinement[j].baseline)
     ELSE UNCHANGED <<title, overwrote>>
  /\ refinement' = [refinement EXCEPT ![j].at = "written"]
  /\ UNCHANGED <<prompts, turn, flagged, titleJobs, deletion, shutdown, housekeeping>>

RefinementDone(j) ==
  /\ refinement[j].at = "written"
  /\ Ends(j)
  /\ UNCHANGED <<title, prompts, turn, flagged, titleJobs, deletion, shutdown, housekeeping,
                 overwrote>>

(***************************************************************************)
(* Interrupt, delete, shutdown, housekeeping.                              *)
(***************************************************************************)
InterruptsTurn ==
  /\ MuFree /\ turn.at # "idle" /\ flagged' = TRUE
  /\ UNCHANGED <<title, prompts, turn, refinement, titleJobs, deletion, shutdown, housekeeping,
                 overwrote>>

\* a second hold of mu_: the jobs in the list by then
InterruptsJobs ==
  /\ MuFree /\ titleJobs # {}
  /\ refinement' = [j \in Jobs |-> [refinement[j] EXCEPT !.cancel = @ \/ j \in titleJobs]]
  /\ UNCHANGED <<title, prompts, turn, flagged, titleJobs, deletion, shutdown, housekeeping,
                 overwrote>>

Taken(by) ==
  [j \in Jobs |-> IF j \in titleJobs THEN [refinement[j] EXCEPT !.cancel = TRUE, !.of = by]
                  ELSE refinement[j]]
Over(by) == \A j \in Jobs : refinement[j].of = by => refinement[j].at \in {"done", "joined"}
Joined1(by) ==
  [j \in Jobs |-> IF refinement[j].of = by THEN [refinement[j] EXCEPT !.at = "joined"]
                  ELSE refinement[j]]

DeletionMarks ==
  /\ MuFree /\ shutdown = "no" /\ deletion \in {"no", "failed"}
  /\ deletion' = "joining" /\ flagged' = TRUE
  /\ refinement' = Taken("delete") /\ titleJobs' = {}
  /\ UNCHANGED <<title, prompts, turn, shutdown, housekeeping, overwrote>>

\* Rows go last; a delete the store refuses leaves the session usable
DeletionEnds ==
  /\ deletion = "joining" /\ turn.at = "idle" /\ Over("delete")
  /\ refinement' = Joined1("delete")
  /\ \/ title' = Gone1 /\ deletion' = "done" /\ UNCHANGED flagged
     \/ deletion' = "failed" /\ flagged' = FALSE /\ UNCHANGED title
  /\ UNCHANGED <<prompts, turn, titleJobs, shutdown, housekeeping, overwrote>>

ClosingMarks ==
  /\ MuFree /\ shutdown = "no"
  /\ shutdown' = "joining" /\ flagged' = TRUE
  /\ refinement' = Taken("shutdown") /\ titleJobs' = {}
  /\ UNCHANGED <<title, prompts, turn, deletion, housekeeping, overwrote>>

\* the thread of a session that is being deleted is its deleter's to join
ClosingEnds ==
  /\ shutdown = "joining" /\ Over("shutdown")
  /\ turn.at = "idle" \/ deletion = "joining"
  /\ refinement' = Joined1("shutdown") /\ shutdown' = "done"
  /\ UNCHANGED <<title, prompts, turn, flagged, titleJobs, deletion, housekeeping, overwrote>>

AllIdle == turn.at = "idle" /\ \A j \in titleJobs : refinement[j].at = "done"

KeepingStarts ==
  /\ MuFree /\ shutdown = "no" /\ AllIdle
  /\ housekeeping' = TRUE
  /\ UNCHANGED <<title, prompts, turn, flagged, refinement, titleJobs, deletion, shutdown,
                 overwrote>>

KeepingEnds ==
  /\ housekeeping /\ housekeeping' = FALSE
  /\ UNCHANGED <<title, prompts, turn, flagged, refinement, titleJobs, deletion, shutdown,
                 overwrote>>

TitlesNext ==
  \/ TurnStarts \/ ReadsTitle \/ NamesFromPrompt \/ TurnOver \/ SweepsJobs \/ SpawnsJob
  \/ \E j \in Jobs : AnswersTitle(j) \/ ReadsCancel(j) \/ WritesTitle(j) \/ RefinementDone(j)
  \/ InterruptsTurn \/ InterruptsJobs \/ DeletionMarks \/ DeletionEnds
  \/ ClosingMarks \/ ClosingEnds \/ KeepingStarts \/ KeepingEnds

TitlesSpec == TitlesInit /\ [][TitlesNext]_titleVars

(***************************************************************************)
(* Properties.                                                             *)
(***************************************************************************)
\* The list holds born jobs nobody joined.
TitlesTypeOK ==
  /\ prompts \in 0..PromptBound /\ title \in Headlines \cup {Untitled, FirstLine, Gone1}
  /\ \A j \in titleJobs : refinement[j].at \notin {"none", "joined"} /\ refinement[j].of = "list"
  /\ \A j \in Jobs :
       refinement[j].of = "list" /\ refinement[j].at \notin {"none", "joined"} => j \in titleJobs

\* A stale job never replaces another title than the one it reconsidered; no job
\* runs on after its session's row is deleted or after the shutdown that must
\* join it, whatever turn was about to spawn it; and housekeeping never works
\* beside a turn or a job nobody cancelled.
TitleJobsSettle ==
  /\ ~overwrote
  /\ deletion = "done" => turn.at = "idle" /\ \A j \in Jobs : ~Refining(j)
  /\ shutdown = "done" => \A j \in Jobs : Refining(j) => refinement[j].of = "delete"
  /\ housekeeping => turn.at = "idle" /\ \A j \in Jobs : Refining(j) => refinement[j].cancel

\* docs/sessions.md:149: "a tracked worker checks every 30 seconds until
\* foreground sessions and title jobs are idle".
KeepsAlone == housekeeping => \A j \in Jobs : ~Refining(j)

=============================================================================
