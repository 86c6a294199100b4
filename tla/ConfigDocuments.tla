-------------------------- MODULE ConfigDocuments --------------------------
(***************************************************************************)
(* The two configuration files, the layers read from them and the threads  *)
(* that save them: be_app, the settings window, the permissions center's   *)
(* policy tab and the model database window.  Every save is a read, a      *)
(* change of its own keys and an atomic write; nothing locks the file in   *)
(* between.  A document has a value or None for each key:                  *)
(*   permissions, build_command   gated (agents and search keys are alike) *)
(*   providers                    global only                              *)
(*   scalar                       any other key of global_scope_keys       *)
(*   models                       one entry of the model database          *)
(*   trusted                      the recorded fingerprint of the project  *)
(***************************************************************************)
EXTENDS Naturals, Sequences, FiniteSets

CONSTANTS
  GlobalDocs, ProjectDocs,  \* documents the files may hold at first
  Rules, Builds,            \* rule lists and build commands users write
  Edits                     \* bound: what users, editors and windows do

None == "none"
Blank == [permissions |-> None, build_command |-> None, providers |-> None,
          scalar |-> None, models |-> None, trusted |-> {}]

\* "own" stands for providers only a project's document may name
Texts == STRING \cup {None, "edited", "picked", "chosen", "entry"}
DocRec == [permissions: Texts, build_command: Texts, providers: Texts, scalar: Texts,
           models: Texts, trusted: SUBSET (Texts \X Texts)]
ASSUME DocAssumption ==
  /\ GlobalDocs \cup ProjectDocs \subseteq DocRec
  /\ \A doc \in GlobalDocs : doc.providers # "own"
  /\ Rules \cup Builds \subseteq STRING

VARIABLES
  files,        \* "global" and "project": [ok, doc], not ok if it does not parse
  globalLayer,  \* global_layer_: the global document in memory
  merged,       \* config_: merged document, and the project's gated part in it
  lastTrust,    \* last_trust_
  todo,         \* what is left of be_app's handler
  inbox,        \* be_app's queue
  held,         \* what each saving thread has read, {} or one document
  settings,     \* the settings window: {} or its copy of config_
  policy,       \* policy tab: documents, source, rules shown, dirty
  edits,        \* what is left of the bound
  accepted,     \* history: fingerprints the user trusted
  asked         \* history: fingerprints the user was asked about

appVars == <<globalLayer, merged, lastTrust, todo, accepted, asked>>
docVars == <<files, appVars, inbox, held, settings, policy, edits>>

(***************************************************************************)
(* Layers, merge and the trust boundary of config.cpp.                     *)
(***************************************************************************)
\* a missing or broken file is an empty layer
LoadLayer(file) == IF file.ok THEN file.doc ELSE Blank

GatedFingerprint(doc) == <<doc.permissions, doc.build_command>>
HasGatedKeys(doc) == GatedFingerprint(doc) # <<None, None>>
StripUntrusted(doc) == [doc EXCEPT !.permissions = None, !.build_command = None]

\* mutant: a project may bring its own providers
KeepProviders(doc) == doc

StripProjectProviders(doc) == [doc EXCEPT !.providers = None]

\* mutant: any record for the project will do
RecordedAtAll(doc, store) == LoadLayer(store).trusted # {}

TrustGranted(doc, store) == GatedFingerprint(doc) \in LoadLayer(store).trusted

\* the boundary reads the record from the file, not from the layer in memory
Trust(project, store) ==
  LET doc == StripProjectProviders(LoadLayer(project)) IN
  [needed |-> HasGatedKeys(doc), fingerprint |-> GatedFingerprint(doc),
   granted |-> HasGatedKeys(doc) /\ TrustGranted(doc, store)]

LoadProjectLayer(project, store) ==
  LET doc == StripProjectProviders(LoadLayer(project)) IN
  IF Trust(project, store).needed /\ ~Trust(project, store).granted
  THEN StripUntrusted(doc) ELSE doc

Overlay(base, over) == IF over = None THEN base ELSE over

\* present keys of the overlay win, rules append
Merge(base, over) ==
  [permissions |-> <<base.permissions, over.permissions>>,
   build_command |-> Overlay(base.build_command, over.build_command),
   providers |-> Overlay(base.providers, over.providers),
   scalar |-> Overlay(base.scalar, over.scalar),
   models |-> Overlay(base.models, over.models),
   gated |-> GatedFingerprint(over)]

LoadWithLayers(layer) == Merge(layer, LoadProjectLayer(files.project, files.global))

(***************************************************************************)
(* Saves.                                                                  *)
(***************************************************************************)
Save(key, value) == [do |-> key, value |-> value]
Scope == Save("scope", None)
Sync == Save("sync", None)
Load == Save("load", None)
Prompt == Save("prompt", None)
SavesTo(step) == IF step.do = "build_command" THEN "project" ELSE "global"

\* the settings window's keys are replaced wholesale and a build command in
\* the global file is a leftover; the other saves touch one key
Change(step, doc) ==
  CASE step.do = "scope" -> [doc EXCEPT !.scalar = globalLayer.scalar,
                                        !.providers = globalLayer.providers,
                                        !.models = globalLayer.models,
                                        !.build_command = None]
    [] step.do = "build_command" -> [doc EXCEPT !.build_command = step.value]
    [] step.do = "providers" -> [doc EXCEPT !.providers = step.value]
    [] step.do = "scalar" -> [doc EXCEPT !.scalar = Overlay(@, step.value)]
    [] step.do = "trusted" -> [doc EXCEPT !.trusted = {step.value}]
    [] OTHER -> doc                                      \* last_directory

Saves == {"scope", "build_command", "providers", "scalar", "trusted", "directory"}

Reads(thread, path) ==
  held' = [held EXCEPT ![thread] = {files[path].doc}]
Drops(thread) == held' = [held EXCEPT ![thread] = {}]
Writes(path, doc) == files' = [files EXCEPT ![path] = [ok |-> TRUE, doc |-> doc]]

\* a failed trust record ends its handler, the other failures only alert
AfterFailure == IF Head(todo).do = "trusted" THEN <<>> ELSE Tail(todo)

AppReads ==
  /\ todo # <<>> /\ Head(todo).do \in Saves /\ held.app = {}
  /\ LET path == SavesTo(Head(todo)) IN
     IF files[path].ok THEN Reads("app", path) /\ UNCHANGED todo
     ELSE todo' = AfterFailure /\ UNCHANGED held
  /\ UNCHANGED <<files, globalLayer, merged, lastTrust, accepted, asked, inbox,
                 settings, policy, edits>>

AppWrites ==
  /\ held.app # {} /\ Drops("app")
  /\ \/ /\ \E doc \in held.app : Writes(SavesTo(Head(todo)), Change(Head(todo), doc))
        /\ todo' = Tail(todo)
     \/ todo' = AfterFailure /\ UNCHANGED files
  /\ UNCHANGED <<globalLayer, merged, lastTrust, accepted, asked, inbox, settings,
                 policy, edits>>

(***************************************************************************)
(* be_app.                                                                 *)
(***************************************************************************)
SyncMergedConfig(layer) ==
  /\ merged' = LoadWithLayers(layer)
  /\ lastTrust' = Trust(files.project, files.global)

AppSyncs ==
  /\ todo # <<>> /\ Head(todo).do \in {"sync", "load"}
  /\ globalLayer' = IF Head(todo).do = "load" THEN LoadLayer(files.global) ELSE globalLayer
  /\ SyncMergedConfig(globalLayer')
  /\ todo' = Tail(todo)
  /\ UNCHANGED <<files, accepted, asked, inbox, held, settings, policy, edits>>

\* the alert shows what lastTrust was computed from; trusting records that
MaybePromptProjectTrust ==
  /\ todo # <<>> /\ Head(todo).do = "prompt"
  /\ IF lastTrust.needed /\ ~lastTrust.granted
     THEN /\ asked' = asked \cup {lastTrust.fingerprint}
          /\ \/ /\ accepted' = accepted \cup {lastTrust.fingerprint}
                /\ todo' = <<Save("trusted", lastTrust.fingerprint), Sync>>
             \/ todo' = Tail(todo) /\ UNCHANGED accepted
     ELSE todo' = Tail(todo) /\ UNCHANGED <<accepted, asked>>
  /\ UNCHANGED <<files, globalLayer, merged, lastTrust, inbox, held, settings,
                 policy, edits>>

\* _ApplyProviders(): into the global layer, and everything is merged anew
ApplyProviders(doc) == SyncMergedConfig([globalLayer EXCEPT !.providers = doc.providers])

\* settings may be vetoed while sessions run, and providers that do not parse
\* end the handler
AppTakes ==
  /\ todo = <<>> /\ inbox # <<>> /\ inbox' = Tail(inbox)
  /\ LET msg == Head(inbox) IN
     \/ /\ msg.what = "settings" /\ ApplyProviders(msg.doc)
        /\ globalLayer' = [globalLayer EXCEPT !.providers = msg.doc.providers,
                                              !.scalar = Overlay(@, msg.doc.scalar)]
        /\ todo' = <<Scope, Save("build_command", msg.doc.build_command), Sync>>
     \/ /\ msg.what = "providers" /\ ApplyProviders(msg.doc)
        /\ globalLayer' = [globalLayer EXCEPT !.providers = msg.doc.providers]
        /\ todo' = <<Save("providers", msg.doc.providers)>>
     \/ /\ msg.what \in {"settings", "providers"}
        /\ UNCHANGED <<globalLayer, merged, lastTrust, todo>>
     \/ /\ msg.what = "pick"
        /\ globalLayer' = [globalLayer EXCEPT !.scalar = msg.value]
        /\ merged' = [merged EXCEPT !.scalar = msg.value]
        /\ todo' = <<Save("scalar", msg.value)>> /\ UNCHANGED lastTrust
     \/ /\ msg.what \in {"policy", "models"} /\ todo' = <<Load>>
        /\ UNCHANGED <<globalLayer, merged, lastTrust>>
     \/ /\ msg.what = "open" /\ todo' = <<Save("directory", None), Load, Prompt>>
        /\ UNCHANGED <<globalLayer, merged, lastTrust>>
  /\ UNCHANGED <<files, accepted, asked, held, settings, policy, edits>>

(***************************************************************************)
(* The windows.                                                            *)
(***************************************************************************)
Post(msg) == inbox' = Append(inbox, msg)
Does == edits > 0 /\ edits' = edits - 1

\* the window starts from a copy of the merged configuration
OpenSettings ==
  /\ settings = {} /\ Does
  /\ settings' = {merged}
  /\ UNCHANGED <<files, appVars, inbox, held, policy>>

\* the whole window is sent, what the user did not touch included
SaveSettings(shown, scalar) ==
  /\ Post([what |-> "settings", doc |-> [shown EXCEPT !.scalar = scalar]])
  /\ settings' = {}
  /\ UNCHANGED <<files, appVars, held, policy, edits>>

EditProviders(shown) ==
  /\ Does
  /\ LET edited == [shown EXCEPT !.providers = "edited"] IN
     settings' = {edited} /\ Post([what |-> "providers", doc |-> edited])
  /\ UNCHANGED <<files, appVars, held, policy>>

PickModel ==
  /\ Does /\ Post([what |-> "pick", value |-> "picked"])
  /\ UNCHANGED <<files, appVars, held, settings, policy>>

OpenProject ==
  /\ Does /\ Post([what |-> "open"])
  /\ UNCHANGED <<files, appVars, held, settings, policy>>

\* save_model_db_entry, then the window tells be_app
ModelsRead ==
  /\ held.models = {} /\ files.global.ok /\ Does /\ Reads("models", "global")
  /\ UNCHANGED <<files, appVars, inbox, settings, policy>>

ModelsWrite ==
  /\ held.models # {} /\ Drops("models")
  /\ \E doc \in held.models : Writes("global", [doc EXCEPT !.models = "entry"])
  /\ Post([what |-> "models"])
  /\ UNCHANGED <<appVars, settings, policy, edits>>

(***************************************************************************)
(* Policy tab.  An edit makes the shown rules dirty, and dirty rules stay, *)
(* whatever else is reloaded or selected.                                  *)
(***************************************************************************)
ReloadPolicyDocs(p) ==
  IF p.dirty THEN p
  ELSE [p EXCEPT !.global = LoadLayer(files'.global).permissions,
                 !.project = LoadLayer(files'.project).permissions]
RefreshRulesList(p) == IF p.dirty THEN p ELSE [p EXCEPT !.rules = p[p.source]]

PolicyRefresh ==
  /\ held.policy = {} /\ UNCHANGED files
  /\ policy' = RefreshRulesList(ReloadPolicyDocs(policy))
  /\ UNCHANGED <<appVars, inbox, held, settings, edits>>

SelectSource ==
  /\ held.policy = {} /\ Does
  /\ policy' = RefreshRulesList([policy EXCEPT
       !.source = IF @ = "global" THEN "project" ELSE "global"])
  /\ UNCHANGED <<files, appVars, inbox, held, settings>>

EditRules(rules) ==
  /\ held.policy = {} /\ Does
  /\ policy' = [policy EXCEPT !.rules = rules, !.dirty = TRUE]
  /\ UNCHANGED <<files, appVars, inbox, held, settings>>

\* save_permission_document: refused if the file does not parse, or if its
\* rules are not the ones that were loaded
PolicyRead ==
  /\ policy.dirty /\ held.policy = {}
  /\ files[policy.source].ok
  /\ files[policy.source].doc.permissions = policy[policy.source]
  /\ Reads("policy", policy.source)
  /\ UNCHANGED <<files, appVars, inbox, settings, policy, edits>>

PolicyWrite ==
  /\ held.policy # {} /\ Drops("policy")
  /\ \E doc \in held.policy :
       Writes(policy.source, [doc EXCEPT !.permissions = policy.rules])
  /\ policy' = RefreshRulesList(ReloadPolicyDocs([policy EXCEPT !.dirty = FALSE]))
  /\ Post([what |-> "policy"])
  /\ UNCHANGED <<appVars, settings, edits>>

\* an editor, a checkout or a pull changes a file
FileChanged(path) ==
  /\ Does
  /\ \/ \E build \in Builds :
          Writes(path, [files[path].doc EXCEPT !.build_command = build])
     \/ files' = [files EXCEPT ![path].ok = FALSE]
  /\ UNCHANGED <<appVars, inbox, held, settings, policy>>

DocInit ==
  /\ \E g \in GlobalDocs, p \in ProjectDocs :
       files = [global |-> [ok |-> TRUE, doc |-> g], project |-> [ok |-> TRUE, doc |-> p]]
  /\ globalLayer = Blank /\ merged = Merge(Blank, Blank)
  /\ lastTrust = [needed |-> FALSE, fingerprint |-> <<None, None>>, granted |-> FALSE]
  /\ todo = <<Load, Prompt>> /\ inbox = <<>>
  /\ held = [app |-> {}, policy |-> {}, models |-> {}]
  /\ settings = {}
  /\ policy = [global |-> None, project |-> None, source |-> "global",
               rules |-> None, dirty |-> FALSE]
  /\ edits = Edits
  /\ accepted = files.global.doc.trusted /\ asked = {}

DocNext ==
  \/ AppTakes \/ AppReads \/ AppWrites \/ AppSyncs \/ MaybePromptProjectTrust
  \/ OpenSettings \/ PickModel \/ OpenProject \/ ModelsRead \/ ModelsWrite
  \/ \E shown \in settings :
       EditProviders(shown)
       \/ \E scalar \in {shown.scalar, "chosen"} : SaveSettings(shown, scalar)
  \/ PolicyRefresh \/ SelectSource \/ PolicyRead \/ PolicyWrite
  \/ \E rules \in Rules : EditRules(rules)
  \/ \E path \in {"global", "project"} : FileChanged(path)

DocSpec == DocInit /\ [][DocNext]_docVars

(***************************************************************************)
(* Properties.                                                             *)
(***************************************************************************)
DocTypeOK ==
  /\ \A path \in {"global", "project"} :
       files[path].ok \in BOOLEAN /\ DOMAIN files[path].doc = DOMAIN Blank
  /\ \A t \in DOMAIN held : Cardinality(held[t]) <= 1
  /\ Cardinality(settings) <= 1
  /\ held.app # {} => todo # <<>> /\ Head(todo).do \in Saves
  /\ held.policy # {} => policy.dirty

\* config.h:182-193: what a project may grant itself.  A gated value in force
\* is one the user trusted, as it was shown, however the file changed while
\* the alert was open or a save was under way; providers are never its own.
AuthorityAccepted ==
  /\ merged.gated = <<None, None>> \/ merged.gated \in accepted
  /\ merged.providers # "own"

\* HaiCodeApp.cpp:672-675: settings are applied to the global layer, "not to
\* config_", which "is what stops project-owned values from leaking into the
\* global file on save".
NoProjectValueInGlobal == files.global.doc.scalar # "project's"

\* docs/configuration.md:58-59: "any later change to those keys invalidates
\* the record and asks again": what is withheld was asked about.
WithheldWasAsked ==
  todo = <<>> /\ lastTrust.needed /\ ~lastTrust.granted => lastTrust.fingerprint \in asked

\* docs/configuration.md:29-33: a save "preserves every key it doesn't own":
\* a saved policy stays until rules are saved again.
PolicyStays ==
  [][files'.global.doc.permissions # files.global.doc.permissions => held.policy # {}]_docVars
=============================================================================
