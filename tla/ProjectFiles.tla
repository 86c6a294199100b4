---------------------------- MODULE ProjectFiles ----------------------------
(***************************************************************************)
(* The files of a project under the file tools of its sessions: write,     *)
(* edit, write_agents_md, propose_plan and discard_plan, the engine's      *)
(* retirement of a finished plan and the owner-only documents, all of them *)
(* over atomic_write_file, with failures at each of its system calls, a    *)
(* killed process and a power loss.  A text is a sequence of phrases.      *)
(***************************************************************************)
EXTENDS SequencesExt, Integers

CONSTANTS
  Workers,     \* threads that run tools
  Start,       \* [paths -> node]: the project before the first call
  Plans,       \* names of plan files, in their order
  Drafts,      \* texts a write call brings
  Secrets,     \* documents written with mode 0600
  CrashBound   \* bound: kills and power losses

\* the phrases texts are made of; what a path can be
Statuses == {"active", "discarded", "implemented"}
Phrases == Statuses \cup ToSet(Plans) \cup UNION {ToSet(text) : text \in Drafts}
                    \cup UNION {ToSet(Start[p].text) : p \in DOMAIN Start}
WholeTexts == Seq(Phrases)
Nodes == [kind: {"file", "link", "none"}, text: WholeTexts, bits: Nat,
          to: DOMAIN Start \cup {""}, sound: {TRUE}]
Instructions == {"agents.md", "claude.md"}

\* no link of the project leads to a secret, and a plan's name is its own
ASSUME FilesAssumption ==
  /\ CrashBound \in Nat /\ Drafts \subseteq WholeTexts /\ "torn" \notin Phrases
  /\ Start \in [DOMAIN Start -> Nodes]
  /\ Secrets \subseteq DOMAIN Start \ Instructions /\ Instructions \subseteq DOMAIN Start
  /\ \A p \in DOMAIN Start : Start[p].kind = "link" =>
       p \notin Secrets /\ Start[p].to \in DOMAIN Start \ Secrets
  /\ Plans \in WholeTexts /\ \A i, k \in DOMAIN Plans : Plans[i] = Plans[k] => i = k
  /\ \A i \in DOMAIN Plans : Plans[i] \notin DOMAIN Start \cup {"active"}

VARIABLES
  node,      \* per path: a file, a symbolic link or nothing
  writer,    \* per worker: its call inside atomic_write_file
  strays,    \* how many temporary files no call will remove
  plansMade, \* plans proposed so far
  crashes,   \* kills and power losses so far
  retired    \* history: plans that have been retired on the disk

filesVars == <<node, writer, strays, plansMade, crashes, retired>>

NewFile == 644
OwnerOnly == 600
Torn == <<"torn">>
FileNode(text, bits) == [kind |-> "file", text |-> text, bits |-> bits, to |-> "", sound |-> TRUE]
LinkTo(p) == [kind |-> "link", text |-> <<>>, bits |-> 0, to |-> p, sound |-> TRUE]
NoNode == [kind |-> "none", text |-> <<>>, bits |-> 0, to |-> "", sound |-> TRUE]
AtRest == [phase |-> "rest", path |-> "", text |-> <<>>, bits |-> 0, how |-> ""]

IsFile(p) == node[p].kind = "file"
Real(p) == IF node[p].kind = "link" THEN node[p].to ELSE p
\* what the model asks write and edit to change; not the plan files
Given == (DOMAIN Start \ Secrets) \ Instructions

FilesInit ==
  /\ node = [p \in DOMAIN Start \cup ToSet(Plans) |->
               IF p \in DOMAIN Start THEN Start[p] ELSE NoNode]
  /\ writer = [w \in Workers |-> AtRest]
  /\ strays = 0 /\ plansMade = 0 /\ crashes = 0 /\ retired = {}

(***************************************************************************)
(* The tools, up to their call of atomic_write_file.                       *)
(***************************************************************************)
AsksToStore(w, p, text, bits) ==
  writer' = [writer EXCEPT ![w] = [@ EXCEPT
    !.phase = "asked", !.path = p, !.text = text, !.bits = bits]]

WritesFile(w) ==
  /\ writer[w].phase = "rest"
  /\ \E p \in Given, text \in Drafts : AsksToStore(w, p, text, 0)
  /\ UNCHANGED <<node, strays, plansMade, crashes, retired>>

Occurrences(text, phrase) == Len(SelectSeq(text, LAMBDA x : x = phrase))
ReplacedIn(text, old, new) ==
  FlattenSeq([i \in DOMAIN text |-> IF text[i] = old THEN new ELSE <<text[i]>>])

\* edit: old_string is there, and once unless replace_all; the whole file is
\* read, the whole file is written
EditsFile(w) ==
  /\ writer[w].phase = "rest"
  /\ \E p \in Given : LET text == node[Real(p)].text IN
       /\ IsFile(Real(p))
       /\ \E old \in ToSet(text), new \in Drafts \cup {<<>>}, all \in BOOLEAN :
            /\ all \/ Occurrences(text, old) = 1
            /\ AsksToStore(w, p, ReplacedIn(text, old, new), 0)
  /\ UNCHANGED <<node, strays, plansMade, crashes, retired>>

\* project_instructions_write_target(): the file the loader reads
HasText(p) == IsFile(p) /\ node[p].text # <<>>
AlwaysAgents == "agents.md"   \* mutant
InstructionsTarget ==
  CASE HasText("agents.md") -> "agents.md"
    [] ~HasText("agents.md") /\ HasText("claude.md") -> "claude.md"
    [] OTHER -> IF ~IsFile("agents.md") /\ IsFile("claude.md") THEN "claude.md" ELSE "agents.md"

WritesInstructions(w) ==
  /\ writer[w].phase = "rest"
  /\ \E text \in Drafts \ {<<>>} : AsksToStore(w, InstructionsTarget, text, 0)
  /\ UNCHANGED <<node, strays, plansMade, crashes, retired>>

\* propose_plan: a new name, its status in the first line
Proposes(w) ==
  /\ writer[w].phase = "rest" /\ plansMade < Len(Plans)
  /\ plansMade' = plansMade + 1
  /\ AsksToStore(w, Plans[plansMade + 1], <<"active", Plans[plansMade + 1]>>, 0)
  /\ UNCHANGED <<node, strays, crashes, retired>>

Active(p) == IsFile(p) /\ Head(node[p].text) = "active"
LatestActive == SelectLastInSeq(Plans, Active)

\* discard_plan, and the engine once every todo is completed: find the latest
\* active plan of the project, whichever session proposed it
FindsPlan(w) ==
  /\ writer[w].phase = "rest" /\ LatestActive # 0
  /\ \E how \in {"discarded", "implemented"} :
       writer' = [writer EXCEPT ![w] = [@ EXCEPT
         !.phase = "found", !.path = Plans[LatestActive], !.how = how]]
  /\ UNCHANGED <<node, strays, plansMade, crashes, retired>>

\* then read it again and swap its status
StatusOnly(text, how) == ReplacedIn(text, "active", <<how>>)
RetiresPlan(w) ==
  /\ writer[w].phase = "found"
  /\ AsksToStore(w, writer[w].path, StatusOnly(node[writer[w].path].text, writer[w].how), 0)
  /\ UNCHANGED <<node, strays, plansMade, crashes, retired>>

\* openai-auth.json and the configuration: an explicit mode
SavesDocument(w) ==
  /\ writer[w].phase = "rest"
  /\ \E p \in Secrets, text \in Drafts : AsksToStore(w, p, text, OwnerOnly)
  /\ UNCHANGED <<node, strays, plansMade, crashes, retired>>

(***************************************************************************)
(* atomic_write_file.                                                      *)
(***************************************************************************)
\* An explicit mode wins over the target's bits, those over the default
EffectiveInherited(explicit, p) == IF IsFile(p) THEN node[p].bits ELSE NewFile   \* mutant
Effective(explicit, p) ==
  CASE explicit # 0 -> explicit
    [] explicit = 0 /\ IsFile(p) -> node[p].bits
    [] OTHER -> NewFile

\* A link is written through, a dangling one refused; the temporary file gets
\* its mode before its first byte
Begins(w) ==
  /\ writer[w].phase = "asked"
  /\ LET p == Real(writer[w].path)
         dangling == node[writer[w].path].kind = "link" /\ ~IsFile(p)
     IN \/ /\ ~dangling
           /\ writer' = [writer EXCEPT ![w] = [@ EXCEPT
                !.phase = "temp", !.path = p, !.bits = Effective(writer[w].bits, p)]]
        \/ writer' = [writer EXCEPT ![w] = AtRest]   \* realpath, mkstemp or fchmod fails
  /\ UNCHANGED <<node, strays, plansMade, crashes, retired>>

HasTemp(w) == writer[w].phase \in {"temp", "filled", "flushed"}

Fills(w) ==
  /\ writer[w].phase = "temp"
  /\ writer' = [writer EXCEPT ![w].phase = "filled"]
  /\ UNCHANGED <<node, strays, plansMade, crashes, retired>>

Flushes(w) ==
  /\ writer[w].phase = "filled"
  /\ writer' = [writer EXCEPT ![w].phase = "flushed"]
  /\ UNCHANGED <<node, strays, plansMade, crashes, retired>>

\* A write, fsync, close or rename that fails unlinks the temporary file
GivesUp(w) ==
  /\ HasTemp(w)
  /\ writer' = [writer EXCEPT ![w] = AtRest]
  /\ UNCHANGED <<node, strays, plansMade, crashes, retired>>

\* what the temporary file holds
Held(w) == IF writer[w].phase = "temp" THEN Torn ELSE writer[w].text
ReadyWhenFilled(w) == writer[w].phase \in {"filled", "flushed"}   \* mutant: no fsync
Ready(w) == writer[w].phase = "flushed"

Renames(w) ==
  LET p == writer[w].path IN
  /\ Ready(w)
  /\ node' = [node EXCEPT ![p] = [FileNode(Held(w), writer[w].bits)
                EXCEPT !.sound = writer[w].phase = "flushed"]]
  /\ retired' = IF p \in ToSet(Plans) /\ Head(writer[w].text) # "active"
                THEN retired \cup {p} ELSE retired
  /\ writer' = [writer EXCEPT ![w] = AtRest]
  /\ UNCHANGED <<strays, plansMade, crashes>>

(***************************************************************************)
(* The system under the calls.                                             *)
(***************************************************************************)
Abandoned == Cardinality({w \in Workers : HasTemp(w)})

ProcessKilled ==
  /\ crashes < CrashBound /\ crashes' = crashes + 1
  /\ strays' = strays + Abandoned
  /\ writer' = [w \in Workers |-> AtRest]
  /\ UNCHANGED <<node, plansMade, retired>>

\* Data that was never flushed is torn; a rename the disk undoes leaves the
\* whole text of before
PowerLoss ==
  /\ crashes < CrashBound /\ crashes' = crashes + 1
  /\ node' = [p \in DOMAIN node |->
       IF node[p].sound THEN node[p] ELSE [node[p] EXCEPT !.text = Torn]]
  /\ strays' = strays + Abandoned
  /\ writer' = [w \in Workers |-> AtRest]
  /\ UNCHANGED <<plansMade, retired>>

FilesNext ==
  \/ \E w \in Workers : \/ WritesFile(w) \/ EditsFile(w) \/ WritesInstructions(w) \/ Proposes(w)
                         \/ FindsPlan(w) \/ RetiresPlan(w) \/ SavesDocument(w)
                         \/ Begins(w) \/ Fills(w) \/ Flushes(w) \/ GivesUp(w) \/ Renames(w)
  \/ ProcessKilled \/ PowerLoss

FilesSpec == FilesInit /\ [][FilesNext]_filesVars

(***************************************************************************)
(* Properties.                                                             *)
(***************************************************************************)
\* Every path is a node and every writer is at a step of a call.
FilesTypeOK ==
  /\ \A p \in DOMAIN node : node[p].kind \in {"file", "link", "none"}
  /\ \A w \in Workers : writer[w].phase \in {"rest", "found", "asked", "temp", "filled", "flushed"}
  /\ plansMade \in 0..Len(Plans) /\ crashes \in 0..CrashBound

\* Whatever fails, is killed or loses power, and whoever writes the same file: a
\* file holds one whole text, never a part of one; a link is
\* never replaced by a file; a file keeps its mode and a secret is never readable
\* by others, its temporary file included; only a crash leaves a temporary file;
\* a plan keeps its text and, once retired, is never active again; and
\* instructions written by a session never shadow the file the loader reads.
FilesSafe == LET start == Start IN
  /\ \A p \in DOMAIN node : IsFile(p) => node[p].text # Torn
  /\ \A p \in DOMAIN start : start[p].kind = "link" => node[p] = start[p]
  /\ \A p \in DOMAIN node \ Secrets : IsFile(p) =>
       node[p].bits = (IF p \in DOMAIN start /\ start[p].kind = "file" THEN start[p].bits ELSE NewFile)
  /\ \A p \in Secrets : IsFile(p) /\ node[p] # start[p] => node[p].bits = OwnerOnly
  /\ \A w \in Workers : HasTemp(w) /\ writer[w].path \in Secrets => writer[w].bits = OwnerOnly
  /\ strays > 0 => crashes > 0
  /\ \A i \in DOMAIN Plans : IsFile(Plans[i]) =>
       /\ Last(node[Plans[i]].text) = Plans[i]
       /\ Plans[i] \in retired => ~Active(Plans[i])
  /\ start["claude.md"].kind = "file" /\ start["agents.md"].kind = "none"
       => node["agents.md"].kind = "none"

=============================================================================
