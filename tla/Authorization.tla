--------------------------- MODULE Authorization ---------------------------
(***************************************************************************)
(* The decision of permission.cpp: may this tool call run, be refused, or  *)
(* must the user be asked.  Operators only; a tool call is a record        *)
(*   [tool, action, resource, path, git, segments]                         *)
(* with what Tool::required_permission and Tool::resource return, the file *)
(* it reads, its git invocation and the commands of its shell line (<<>>   *)
(* for the other tools).  Text matching is the relation Globs.             *)
(***************************************************************************)
EXTENDS Naturals, Sequences, FiniteSets

CONSTANTS
  Globs         \* <<pattern, text>> for which fnmatch succeeds

Modes == {"build", "plan", "chat"}
Effects == {"allow", "deny", "ask"}

\* a pattern without * ? [ matches only itself
Fnmatch(pattern, text) == pattern \in {"*", text} \/ <<pattern, text>> \in Globs

(***************************************************************************)
(* Where a path leads.  lexical: the root it lies in when only .. is       *)
(* folded; real: the root realpath finds, "missing" when it fails.         *)
(***************************************************************************)
Roots == {"project", "system", "elsewhere"}
Paths == [lexical: Roots, real: Roots \cup {"missing"}]

\* mutant: links are not followed
LexicallyWithin(path, root) == path.lexical = root

ResolvesWithin(path, root) ==
  IF path.real = "missing" THEN path.lexical = root ELSE path.real = root

(***************************************************************************)
(* Git invocations: [sub, unsafe, escapes, args].  unsafe: an option that  *)
(* writes, runs a program or reads an arbitrary file, abbreviated or in a  *)
(* cluster; escapes: a path outside the working directory; args: the shape *)
(* of the positional arguments.                                            *)
(***************************************************************************)
AlwaysReadonly == {"status", "diff", "log", "show", "blame", "ls-files", "shortlog",
                   "describe", "rev-parse", "merge-base", "rev-list", "ls-tree",
                   "cat-file", "grep", "for-each-ref"}

GitReadonly(git) ==
  /\ ~git.unsafe
  /\ ~(git.sub = "diff" /\ git.escapes)
  /\ \/ git.sub \in AlwaysReadonly
     \/ git.sub \in {"branch", "tag"} /\ git.args \in {"none", "flags", "list"}
     \/ git.sub = "stash" /\ git.args \in {"list", "show"}

\* an Allow pattern must cover every command of a shell line, and a
\* substitution is covered by * alone
BashAuthorizes(pattern, segments) ==
  \/ pattern = "*"
  \/ \A i \in DOMAIN segments :
       ~segments[i].subst /\ Fnmatch(pattern, segments[i].text)

(***************************************************************************)
(* Modes and offline: the tools that exist for a call at all.              *)
(***************************************************************************)
PlanAllowed == {"read", "glob", "grep", "ls", "find", "symbols", "git",
                "web_search", "web_extract", "diff", "todo_write", "ask_user",
                "propose_plan", "discard_plan", "screenshot", "date_time"}
ChatAllowed == {"web_search", "web_extract", "todo_write", "ask_user", "date_time"}

ToolAllowedInMode(tool, mode) ==
  CASE mode = "plan" -> tool \in PlanAllowed
    [] mode = "chat" -> tool \in ChatAllowed
    [] OTHER -> TRUE

ToolAvailable(tool, mode, offline) ==
  ToolAllowedInMode(tool, mode) /\ ~(offline /\ tool \in {"web_search", "web_extract"})

(***************************************************************************)
(* Rule layers.                                                            *)
(***************************************************************************)
Decision(effect, source) == [effect |-> effect, source |-> source]
NoMatch == Decision("ask", "prompt")

HasGlob(pattern) == pattern = "*" \/ \E g \in Globs : g[1] = pattern

RuleMatches(rule, call) ==
  /\ Fnmatch(rule.action, call.action)
  /\ IF call.action = "bash" /\ rule.effect = "allow" /\ HasGlob(rule.resource)
     THEN BashAuthorizes(rule.resource, call.segments)
     ELSE Fnmatch(rule.resource, call.resource)

\* within a layer the last matching rule wins
LayerDecision(rules, source, call) ==
  LET hits == {i \in DOMAIN rules : RuleMatches(rules[i], call)} IN
  IF hits = {} THEN NoMatch
  ELSE LET last == CHOOSE i \in hits : \A j \in hits : j <= i
       IN Decision(rules[last].effect, source)

\* exact grants first, then the toggles, then the documents; an Ask falls
\* through, but the first Ask that matched is what is reported
GateEvaluate(state, call) ==
  LET toggles == LayerDecision(state.session, "session", call)
      documents == LayerDecision(state.configured, "configuration", call)
  IN IF <<call.action, call.resource>> \in state.exact
       THEN Decision("allow", "temporary_exact")
     ELSE IF toggles.effect # "ask" THEN toggles
     ELSE IF documents.effect # "ask" THEN documents
     ELSE IF toggles # NoMatch THEN toggles ELSE documents

(***************************************************************************)
(* ToolRegistry::evaluate.                                                 *)
(***************************************************************************)
FileReaders == {"read", "ls", "grep", "diff", "find", "symbols", "glob"}

\* the action a tool asks a permission for: its own name, as a rule
RequiredPermission(tool) ==
  CASE tool \in FileReaders -> "read"
    [] tool \in {"write", "edit", "write_agents_md", "discard_plan"} -> "write"
    [] OTHER -> tool

\* the fallbacks that apply when no rule matched
Exempt(call) ==
  \/ call.tool \in FileReaders /\ ResolvesWithin(call.path, "project")
  \/ call.tool = "git" /\ GitReadonly(call.git)
  \/ call.tool \in {"web_search", "web_extract", "propose_plan", "todo_write",
                    "ask_user", "date_time", "screenshot"}
  \/ call.tool = "process" /\ call.resource \in {"list", "port"}

\* mutant: the mode only hides the tool from the model
BlockedOffline(call, mode, offline) == ~ToolAvailable(call.tool, "build", offline)

\* refused before any rule is looked at
Blocked(call, mode, offline) ==
  \/ ~ToolAvailable(call.tool, mode, offline)
  \/ call.tool = "git" /\ mode = "plan" /\ ~GitReadonly(call.git)

\* mutant: an exemption comes before the rules
ExemptFirst(call, mode, offline, state) ==
  IF Blocked(call, mode, offline) THEN Decision("deny", "mode")
  ELSE IF Exempt(call) THEN Decision("allow", "builtin")
  ELSE GateEvaluate(state, call)

Evaluate(call, mode, offline, state) ==
  IF Blocked(call, mode, offline) THEN Decision("deny", "mode")
  ELSE IF call.tool \in FileReaders /\ ResolvesWithin(call.path, "system")
    THEN Decision("allow", "root")
  ELSE LET gate == GateEvaluate(state, call) IN
       IF gate = NoMatch /\ Exempt(call) THEN Decision("allow", "builtin") ELSE gate
=============================================================================
