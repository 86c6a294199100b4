--------------------------- MODULE MCPermissions ---------------------------
(***************************************************************************)
(* Permissions with two sessions and one tool call of each kind the gate   *)
(* tells apart.                                                            *)
(***************************************************************************)
EXTENDS Permissions

CONSTANTS a, b     \* session ids

Inside == [lexical |-> "project", real |-> "project"]
Link == [lexical |-> "project", real |-> "elsewhere"]
System == [lexical |-> "elsewhere", real |-> "system"]
NoGit == [sub |-> "none", unsafe |-> FALSE, escapes |-> FALSE, args |-> "none"]

Call(tool, action, resource) ==
  [tool |-> tool, action |-> action, resource |-> resource, path |-> Inside,
   git |-> NoGit, segments |-> <<>>]
Command(text) == [text |-> text, subst |-> FALSE]

MCCalls == {
  Call("read", "read", "in"),
  [Call("read", "read", "link") EXCEPT !.path = Link],
  [Call("read", "read", "header") EXCEPT !.path = System],
  Call("write", "write", "in"),
  [Call("bash", "bash", "make; rm") EXCEPT !.segments = <<Command("make all"), Command("rm")>>],
  [Call("git", "git", "branch") EXCEPT !.git = [NoGit EXCEPT !.sub = "branch", !.args = "other"]],
  Call("web_search", "web_search", "words")}

MCGlobs == {<<"make*", "make all">>, <<"make*", "make; rm">>}

Rule(action, resource, effect) == [action |-> action, resource |-> resource, effect |-> effect]
MCDocuments == {
  <<>>,
  <<Rule("bash", "make*", "allow"), Rule("web_search", "*", "ask")>>,
  <<Rule("*", "*", "allow"), Rule("read", "in", "deny"), Rule("write", "*", "deny")>>}

Both == {a, b}
One == {a}

\* many clicks with no call, and each call with a few clicks
MCBudgets == {
  [clicks |-> 3, calls |-> 0, documents |-> {<<>>}],
  [clicks |-> 1, calls |-> 2, documents |-> MCDocuments]}
=============================================================================
