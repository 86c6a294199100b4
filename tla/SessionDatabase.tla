-------------------------- MODULE SessionDatabase --------------------------
(***************************************************************************)
(* The file of the sessions: Database::migrate on whatever version it      *)
(* finds, the orphan sweep, and then the store's calls of several threads  *)
(* on the one connection, with a statement that throws and a killed        *)
(* process at every step.  A call that reads the session's model_json,     *)
(* patches a field and writes it back, and one that replaces the to-do     *)
(* list row by row, take several steps under conn_mu_.                     *)
(***************************************************************************)
EXTENDS SequencesExt, Integers

CONSTANTS
  Sessions,    \* rows of the session table
  Threads,     \* threads that use the store
  Fields,      \* patched fields of model_json besides "mode"
  OldFiles,    \* databases an earlier program may have left
  Lists,       \* to-do lists
  OpBound,     \* bound: store calls
  KillBound    \* bound: killed processes

ASSUME DatabaseAssumption ==
  /\ "mode" \notin Fields /\ OpBound \in Nat /\ KillBound \in Nat
  /\ Fields \subseteq STRING /\ "" \notin Threads
  /\ Lists # {} /\ Lists \subseteq Seq(STRING)

VARIABLES
  db,       \* what the connection sees
  disk,     \* what a killed process leaves
  opening,  \* where the start is: migrate reads user_version once, then each
            \* statement is a step
  storeOp,  \* per thread: its call inside the store
  connMu,   \* who holds conn_mu_
  cache,    \* session_modes_: "" before the first set_mode of this process
  loop,     \* per session: the turn's step mode, whether it marked the session
  opCount, kills,
  touched,  \* history: sessions in which a tool of the project has run
  worked,   \* history: sessions that were ever seen out of Chat
  lastWritten  \* history: the values the last finished patch of a field wrote

databaseVars == <<db, disk, opening, storeOp, connMu, cache, loop, opCount, kills, touched, worked,
                  lastWritten>>

SessionTables == {"session_message", "session_todo", "compaction_checkpoint"}
\* an old file: version, columns, whether the table `permission` is there, and per
\* session its document, the tools its rows call and the mark
FileAt(version, docs, calls, orphans) ==
  [version |-> version, lastInput |-> version >= 1, permission |-> version < 2,
   usedColumn |-> version >= 3, marked |-> {}, doc |-> docs, calls |-> calls,
   todos |-> [s \in Sessions |-> CHOOSE list \in Lists : TRUE], orphans |-> orphans]
\* an earlier program knew no mark, and its rows call tools of Chat or others
ASSUME OldFilesAssumption ==
  \A file \in OldFiles :
    /\ file = FileAt(file.version, file.doc, file.calls, file.orphans)
    /\ file.version \in 0..2 /\ file.orphans \subseteq SessionTables
    /\ file.doc \in [Sessions -> [Fields \cup {"mode"} -> STRING]]
    /\ file.calls \in [Sessions -> SUBSET {"web", "read"}]
EmptyDoc == [f \in Fields \cup {"mode"} |-> ""]
Corrupt == [f \in Fields \cup {"mode"} |-> "?"]
NoOp == [kind |-> "none", s |-> "", field |-> "", value |-> "", seen |-> EmptyDoc, left |-> <<>>]
NoTurn == [mode |-> "", marked |-> FALSE]

\* tool_allowed_in_mode: "web" stands for the tools of Chat, "read" for the rest
AllowedIn(tool, mode) == mode = "chat" => tool = "web"

DatabaseInit ==
  /\ disk \in OldFiles /\ db = disk
  /\ opening = "version"
  /\ storeOp = [t \in Threads |-> NoOp] /\ connMu = ""
  /\ cache = [s \in Sessions |-> ""] /\ loop = [s \in Sessions |-> NoTurn]
  /\ opCount = 0 /\ kills = 0
  /\ touched = {s \in Sessions : "read" \in disk.calls[s]}
  /\ worked = touched \cup {s \in Sessions : disk.doc[s]["mode"] # "chat"}
  /\ lastWritten = disk.doc

(***************************************************************************)
(* Database::migrate, statement by statement.                              *)
(***************************************************************************)
storeVars == <<storeOp, connMu, cache, loop, opCount, kills, touched, worked, lastWritten>>

\* outside a transaction a statement is durable when it returns
Durable(new) == db' = new /\ disk' = new
InTxn(new) == db' = new /\ UNCHANGED disk
\* on the one connection: whatever transaction is open takes it along
WritesRow(new) == db' = new /\ disk' = IF \E t \in Threads : storeOp[t].kind = "todos" THEN disk ELSE new

ReadsVersion ==
  /\ opening = "version"
  /\ opening' = CASE db.version < 1 -> "schema" [] db.version = 1 -> "drop"
                  [] db.version = 2 -> "begin" [] OTHER -> "sweep"
  /\ UNCHANGED <<db, disk, storeVars>>

CreatesTables ==
  /\ opening = "schema" /\ opening' = "column"
  /\ Durable(db)   \* every table is there already
  /\ UNCHANGED storeVars

AddsColumn ==
  /\ opening = "column" /\ opening' = "one"
  /\ Durable([db EXCEPT !.lastInput = TRUE])
  /\ UNCHANGED storeVars

SetsVersion1 ==
  /\ opening = "one" /\ opening' = "drop"
  /\ Durable([db EXCEPT !.version = 1])
  /\ UNCHANGED storeVars

DropsPermission ==
  /\ opening = "drop" /\ opening' = "two"
  /\ Durable([db EXCEPT !.permission = FALSE])
  /\ UNCHANGED storeVars

SetsVersion2 ==
  /\ opening = "two" /\ opening' = "begin"
  /\ Durable([db EXCEPT !.version = 2])
  /\ UNCHANGED storeVars

\* BEGIN, ADD COLUMN unless it is there
AddsUsedColumn ==
  /\ opening = "begin" /\ opening' = "backfill"
  /\ InTxn([db EXCEPT !.usedColumn = TRUE])
  /\ UNCHANGED storeVars

\* a session not in Chat, or whose rows hold a call Chat cannot make
BackfillByMode == {s \in Sessions : db.doc[s]["mode"] # "chat"}   \* mutant: the rows are not read
InferredUsed ==
  {s \in Sessions : \/ db.doc[s]["mode"] # "chat"
                    \/ \E tool \in db.calls[s] : ~AllowedIn(tool, "chat")}
Backfills ==
  /\ opening = "backfill" /\ opening' = "commit"
  /\ InTxn([db EXCEPT !.marked = @ \cup InferredUsed, !.version = 3])
  /\ UNCHANGED storeVars

CommitsUpgrade ==
  /\ opening = "commit" /\ opening' = "sweep"
  /\ Durable(db)
  /\ UNCHANGED storeVars

(***************************************************************************)
(* prune_orphans, before all engine work: one table after the other.       *)
(***************************************************************************)
SweepsTable ==
  /\ opening = "sweep"
  /\ \E table \in db.orphans : InTxn([db EXCEPT !.orphans = @ \ {table}])
  /\ UNCHANGED <<opening, storeVars>>

CommitsSweep ==
  /\ opening = "sweep" /\ db.orphans = {} /\ opening' = "ready"
  /\ Durable(db)
  /\ UNCHANGED storeVars

\* a statement throws: the transaction rolls back; the program reports it and
\* goes on without the sweep
SweepFails ==
  /\ opening = "sweep" /\ opening' = "ready" /\ db' = disk
  /\ UNCHANGED <<disk, storeVars>>

(***************************************************************************)
(* The store, for several threads.                                         *)
(***************************************************************************)
UnlockedFree(t) == TRUE   \* mutant: no lock_guard
MutexFree(t) == connMu = ""

Calls(t) == opening = "ready" /\ storeOp[t].kind = "none" /\ opCount < OpBound /\ opCount' = opCount + 1
Patch(kind, s, f, v) == [NoOp EXCEPT !.kind = kind, !.s = s, !.field = f, !.value = v]

\* update_permission_flags, update_provider_model, update_inference, update_skills
SetsFields(t) ==
  /\ Calls(t)
  /\ \E s \in Sessions, f \in Fields, v \in {"on", "off"} :
       storeOp' = [storeOp EXCEPT ![t] = Patch("wants", s, f, v)]
  /\ UNCHANGED <<db, disk, opening, connMu, cache, loop, kills, touched, worked, lastWritten>>

\* set_mode: the cache, under another lock, then update_mode
SetsMode(t) ==
  /\ Calls(t)
  /\ \E s \in Sessions, v \in {"build", "chat"} :
       /\ storeOp' = [storeOp EXCEPT ![t] = Patch("wants", s, "mode", v)]
       /\ cache' = [cache EXCEPT ![s] = v]
  /\ UNCHANGED <<db, disk, opening, connMu, loop, kills, touched, worked, lastWritten>>

\* conn_mu_ and SELECT ...
ReadsDoc(t) ==
  /\ storeOp[t].kind = "wants" /\ MutexFree(t) /\ connMu' = t
  /\ storeOp' = [storeOp EXCEPT ![t].kind = "patch", ![t].seen = db.doc[storeOp[t].s]]
  /\ UNCHANGED <<db, disk, opening, cache, loop, opCount, kills, touched, worked, lastWritten>>

\* ... then UPDATE; an object that does not parse starts anew
Parsed(doc) == IF doc = Corrupt THEN EmptyDoc ELSE doc
EndsOp(t) == storeOp' = [storeOp EXCEPT ![t] = NoOp] /\ connMu' = IF connMu = t THEN "" ELSE connMu

WritesPatch(t) ==
  LET o == storeOp[t] new == [Parsed(o.seen) EXCEPT ![o.field] = o.value] IN
  /\ o.kind = "patch"
  /\ WritesRow([db EXCEPT !.doc[o.s] = new])
  /\ lastWritten' = [lastWritten EXCEPT ![o.s] = [Parsed(@) EXCEPT ![o.field] = o.value]]
  /\ EndsOp(t)
  /\ UNCHANGED <<opening, cache, loop, opCount, kills, touched, worked>>

\* replace_todos: BEGIN and DELETE ...
StartsTodos(t) ==
  /\ Calls(t) /\ MutexFree(t) /\ connMu' = t
  /\ \E s \in Sessions, list \in Lists :
       /\ storeOp' = [storeOp EXCEPT ![t] = [NoOp EXCEPT !.kind = "todos", !.s = s, !.left = list]]
       /\ InTxn([db EXCEPT !.todos[s] = <<>>])
  /\ UNCHANGED <<opening, cache, loop, kills, touched, worked, lastWritten>>

InsertsTodo(t) ==
  /\ storeOp[t].kind = "todos" /\ storeOp[t].left # <<>>
  /\ InTxn([db EXCEPT !.todos[storeOp[t].s] = Append(@, Head(storeOp[t].left))])
  /\ storeOp' = [storeOp EXCEPT ![t].left = Tail(@)]
  /\ UNCHANGED <<opening, connMu, cache, loop, opCount, kills, touched, worked, lastWritten>>

CommitsTodos(t) ==
  /\ storeOp[t].kind = "todos" /\ storeOp[t].left = <<>>
  /\ Durable(db) /\ EndsOp(t)
  /\ UNCHANGED <<opening, cache, loop, opCount, kills, touched, worked, lastWritten>>

\* a statement throws; ROLLBACK in ~DbTxn
OpFails(t) ==
  /\ storeOp[t].kind \in {"patch", "todos"}
  /\ db' = IF storeOp[t].kind = "todos" THEN disk ELSE db
  /\ EndsOp(t)
  /\ UNCHANGED <<disk, opening, cache, loop, opCount, kills, touched, worked, lastWritten>>

(***************************************************************************)
(* The turn loop's use of the mark.                                        *)
(***************************************************************************)
\* get_mode: the cache, else the row, else the configuration's "build"
ModeOf(s) ==
  CASE cache[s] # "" -> cache[s]
    [] cache[s] = "" /\ db.doc[s]["mode"] = "chat" -> "chat"
    [] OTHER -> "build"

\* the top of each step: the mode is read again; the first step that is not Chat
\* marks the session, once a turn
FirstStepOnly(s, mode) == loop[s].mode = "" /\ mode # "chat"   \* mutant
MustMark(s, mode) == mode # "chat" /\ ~loop[s].marked
BeginsStep(s) ==
  LET mode == ModeOf(s) mark == MustMark(s, mode) IN
  /\ opening = "ready" /\ (mark => connMu = "")
  /\ loop' = [loop EXCEPT ![s] = [mode |-> mode, marked |-> @.marked \/ mark]]
  /\ IF mark THEN WritesRow([db EXCEPT !.marked = @ \cup {s}]) ELSE UNCHANGED <<db, disk>>
  /\ worked' = IF mode = "chat" THEN worked ELSE worked \cup {s}
  /\ UNCHANGED <<opening, storeOp, connMu, cache, opCount, kills, touched, lastWritten>>

\* the store throws and the turn ends; or it is over
EndsTurn(s) ==
  /\ loop[s] # NoTurn
  /\ loop' = [loop EXCEPT ![s] = NoTurn]
  /\ UNCHANGED <<db, disk, opening, storeOp, connMu, cache, opCount, kills, touched, worked, lastWritten>>

\* a call runs under its step's mode
RunsTool(s) ==
  /\ loop[s].mode # "" /\ AllowedIn("read", loop[s].mode)
  /\ touched' = touched \cup {s}
  /\ UNCHANGED <<db, disk, opening, storeOp, connMu, cache, loop, opCount, kills, worked, lastWritten>>

\* killed, in a migration, a transaction or a turn; or migrate throws and the
\* program quits
ProcessDies ==
  /\ kills < KillBound /\ kills' = kills + 1
  /\ db' = disk /\ opening' = "version"
  /\ storeOp' = [t \in Threads |-> NoOp] /\ connMu' = ""
  /\ cache' = [s \in Sessions |-> ""] /\ loop' = [s \in Sessions |-> NoTurn]
  /\ UNCHANGED <<disk, opCount, touched, worked, lastWritten>>

DatabaseNext ==
  \/ ReadsVersion \/ CreatesTables \/ AddsColumn \/ SetsVersion1 \/ DropsPermission \/ SetsVersion2
  \/ AddsUsedColumn \/ Backfills \/ CommitsUpgrade
  \/ SweepsTable \/ CommitsSweep \/ SweepFails
  \/ \E t \in Threads : \/ SetsFields(t) \/ SetsMode(t) \/ ReadsDoc(t) \/ WritesPatch(t)
                         \/ StartsTodos(t) \/ InsertsTodo(t) \/ CommitsTodos(t) \/ OpFails(t)
  \/ \E s \in Sessions : BeginsStep(s) \/ EndsTurn(s) \/ RunsTool(s)
  \/ ProcessDies

DatabaseSpec == DatabaseInit /\ [][DatabaseNext]_databaseVars

(***************************************************************************)
(* Properties.                                                             *)
(***************************************************************************)
\* A version of 0 to 3, a start at one of its statements, at most one holder.
DatabaseTypeOK ==
  /\ db.version \in 0..3 /\ disk.version \in 0..3
  /\ db.marked \subseteq Sessions /\ db.orphans \subseteq SessionTables
  /\ opening \in {"version", "schema", "column", "one", "drop", "two", "begin", "backfill",
                   "commit", "sweep", "ready"}
  /\ connMu \in Threads \cup {""}

UpgradedTo(file) ==
  /\ file.version >= 1 => file.lastInput
  /\ file.version >= 2 => ~file.permission
  /\ file.version >= 3 => file.usedColumn /\ touched \subseteq file.marked

\* Wherever a start or a call is killed or throws, and whoever else uses the
\* store: the version in the file never promises a column, a dropped table or a
\* mark that is not there (migrate); a session whose tools worked in its
\* directory is marked, even when the mode changed in the middle of a turn, and
\* one that never left Chat is not (backfill_project_used, engine.cpp:2085-2092);
\* a field of model_json is what its last writer wrote, whoever patched another
\* field at the same time; and a list of to-dos is one that was given whole.
StoreKept ==
  /\ UpgradedTo(disk)
  /\ opening = "ready" => db.version = 3 /\ UpgradedTo(db)
  /\ db.marked \subseteq worked
  /\ db.doc = lastWritten /\ disk.doc = lastWritten
  /\ \A s \in Sessions : disk.todos[s] \in Lists

\* What the comment at db.cpp:541 says, "Corrupt JSON - leave the row alone rather
\* than wiping other fields": false, a document that does not parse is replaced
\* by one that holds the patched field only.
CorruptLeftAlone ==
  [][\A s \in Sessions : db.doc[s] = Corrupt => db'.doc[s] = Corrupt]_databaseVars

=============================================================================
