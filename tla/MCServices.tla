----------------------------- MODULE MCServices -----------------------------
(***************************************************************************)
(* Eleven parts of the program that share no state in the models, checked  *)
(* side by side: focus names the part a behaviour is about, the others     *)
(* stay in one of their initial states.                                    *)
(***************************************************************************)
EXTENDS ConfigDocuments, AppLifecycle, Compaction, Streams, CodexAuth,
        WireFormats, ProjectFiles, TitleJobs, Subprocess, SessionDatabase, TurnLoop, TLC

VARIABLE focus

Parts == {"documents", "lifecycle", "context", "streams", "sign-in", "wire",
          "files", "titles", "commands", "database", "loop"}

(***************************************************************************)
(* The instance.                                                           *)
(***************************************************************************)
TrustedBefore == [Blank EXCEPT !.permissions = "r1", !.models = "old", !.providers = "key",
                               !.trusted = {<<"r2", "make">>}]
WithGatedKeys == [Blank EXCEPT !.permissions = "r2", !.build_command = "make",
                               !.scalar = "project's", !.providers = "own"]
MCGlobalDocs == {TrustedBefore}
MCProjectDocs == {WithGatedKeys}

MCBatches == {<<>>, <<"c1">>, <<"c1", "c2">>}

MCSendBound == ("f1" :> 4) @@ ("f2" :> 0)

MCStart ==
  ("a" :> FileNode(<<"x">>, 755)) @@ ("l" :> LinkTo("a")) @@ ("d" :> LinkTo("d"))
  @@ ("s" :> FileNode(<<"x">>, 644)) @@ ("agents.md" :> NoNode)
  @@ ("claude.md" :> FileNode(<<"x">>, 644))
MCPlans == <<"p1">>
MCDrafts == {<<"y">>}

\* s1 never left Chat; s2 did, or its document does not parse
ChatDoc == [EmptyDoc EXCEPT !["mode"] = "chat"]
MCOldFiles ==
  {FileAt(v, ("s1" :> ChatDoc) @@ ("s2" :> d), ("s1" :> {"web"}) @@ ("s2" :> {"web", "read"}),
          {"session_todo", "compaction_checkpoint"}) : v \in 0..2, d \in {Corrupt, ChatDoc}}
MCLists == {<<"a", "b">>, <<"c">>}

(***************************************************************************)
(* One part moves.                                                         *)
(***************************************************************************)
\* one initial state for each part that is not looked at
Quiet ==
  /\ focus # "lifecycle" => prompted = {} /\ ~keeping.pending /\ sel = (CHOOSE s \in FirstChats : TRUE)
  /\ focus # "streams" => provider = "anthropic"
  /\ focus # "wire" => format = "anthropic"
  /\ focus # "database" => disk = CHOOSE file \in OldFiles : TRUE

ServicesInit ==
  /\ focus \in Parts
  /\ DocInit /\ LifeInit /\ ContextInit /\ StreamInit
  /\ AuthInit /\ WireInit /\ FilesInit /\ TitlesInit
  /\ CommandInit /\ DatabaseInit /\ Init
  /\ Quiet

ServicesNext ==
  \/ /\ focus = "documents" /\ DocNext
     /\ UNCHANGED <<focus, lifeVars, contextVars, streamVars, authVars, wireVars,
                    filesVars, titleVars, commandVars, databaseVars, vars>>
  \/ /\ focus = "lifecycle" /\ LifeNext
     /\ UNCHANGED <<focus, docVars, contextVars, streamVars, authVars, wireVars,
                    filesVars, titleVars, commandVars, databaseVars, vars>>
  \/ /\ focus = "context" /\ ContextNext
     /\ UNCHANGED <<focus, docVars, lifeVars, streamVars, authVars, wireVars,
                    filesVars, titleVars, commandVars, databaseVars, vars>>
  \/ /\ focus = "streams" /\ StreamNext
     /\ UNCHANGED <<focus, docVars, lifeVars, contextVars, authVars, wireVars,
                    filesVars, titleVars, commandVars, databaseVars, vars>>
  \/ /\ focus = "sign-in" /\ AuthNext
     /\ UNCHANGED <<focus, docVars, lifeVars, contextVars, streamVars, wireVars,
                    filesVars, titleVars, commandVars, databaseVars, vars>>
  \/ /\ focus = "wire" /\ WireNext
     /\ UNCHANGED <<focus, docVars, lifeVars, contextVars, streamVars, authVars,
                    filesVars, titleVars, commandVars, databaseVars, vars>>
  \/ /\ focus = "files" /\ FilesNext
     /\ UNCHANGED <<focus, docVars, lifeVars, contextVars, streamVars, authVars,
                    wireVars, titleVars, commandVars, databaseVars, vars>>
  \/ /\ focus = "titles" /\ TitlesNext
     /\ UNCHANGED <<focus, docVars, lifeVars, contextVars, streamVars, authVars,
                    wireVars, filesVars, commandVars, databaseVars, vars>>
  \/ /\ focus = "commands" /\ CommandNext
     /\ UNCHANGED <<focus, docVars, lifeVars, contextVars, streamVars, authVars,
                    wireVars, filesVars, titleVars, databaseVars, vars>>
  \/ /\ focus = "database" /\ DatabaseNext
     /\ UNCHANGED <<focus, docVars, lifeVars, contextVars, streamVars, authVars,
                    wireVars, filesVars, titleVars, commandVars, vars>>
  \/ /\ focus = "loop" /\ Next
     /\ UNCHANGED <<focus, docVars, lifeVars, contextVars, streamVars, authVars,
                    wireVars, filesVars, titleVars, commandVars, databaseVars>>

servicesVars == <<focus, docVars, lifeVars, contextVars, streamVars, authVars, wireVars,
                  filesVars, titleVars, commandVars, databaseVars, vars>>

ServicesSpec == ServicesInit /\ [][ServicesNext]_servicesVars

\* the part that moves is all a state is about
PartView ==
  CASE focus = "documents" -> <<focus, docVars>>
    [] focus = "lifecycle" -> <<focus, lifeVars>>
    [] focus = "context" -> <<focus, contextVars>>
    [] focus = "streams" -> <<focus, streamVars>>
    [] focus = "sign-in" -> <<focus, authVars>>
    [] focus = "wire" -> <<focus, wireVars>>
    [] focus = "files" -> <<focus, filesVars>>
    [] focus = "titles" -> <<focus, titleVars>>
    [] focus = "commands" -> <<focus, commandVars>>
    [] focus = "database" -> <<focus, databaseVars>>
    [] focus = "loop" -> <<focus, vars>>

(***************************************************************************)
(* Properties: those of the parts, and one type invariant.                 *)
(***************************************************************************)
\* The part that moves keeps its types: config.cpp, HaiCodeApp.cpp, engine.cpp,
\* the providers, codex_auth.cpp, tools.cpp, util.cpp, subprocess.cpp and db.cpp.
ServicesTypeOK ==
  CASE focus = "documents" -> DocTypeOK
    [] focus = "lifecycle" -> LifeTypeOK
    [] focus = "context" -> ContextTypeOK
    [] focus = "streams" -> StreamTypeOK
    [] focus = "sign-in" -> AuthTypeOK
    [] focus = "wire" -> WireTypeOK
    [] focus = "files" -> FilesTypeOK
    [] focus = "titles" -> TitlesTypeOK
    [] focus = "commands" -> CommandTypeOK
    [] focus = "database" -> DatabaseTypeOK
    [] focus = "loop" -> TypeOK
=============================================================================
