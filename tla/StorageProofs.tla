---------------------------- MODULE StorageProofs ---------------------------
(***************************************************************************)
(* Proofs about what is kept on disk: ConfigDocuments for every set of     *)
(* documents and every number of edits, CodexAuth for every number of      *)
(* request threads, logins and token pairs, SessionDatabase for every      *)
(* number of sessions, threads and kills.                                  *)
(***************************************************************************)
EXTENDS ConfigDocuments, CodexAuth, SessionDatabase, FiniteSetTheorems, TLAPS

(***************************************************************************)
(* ConfigDocuments.  A trust record and a provider reach the global file   *)
(* by five ways: be_app at a save, the model window and the policy tab     *)
(* between their read and their write, the settings window and the         *)
(* messages on their way.  The invariant says of each that it carries      *)
(* nothing a project wrote.                                                *)
(***************************************************************************)
Fingerprints == Texts \X Texts
MergedRec == [permissions: Texts \X Texts, build_command: Texts, providers: Texts, scalar: Texts,
              models: Texts, gated: Fingerprints]
FileRec == [ok: BOOLEAN, doc: DocRec]
TrustRec == [needed: BOOLEAN, fingerprint: Fingerprints, granted: BOOLEAN]
StepRec == [do: Saves \cup {"sync", "load", "prompt"}, value: Texts \cup Fingerprints]
MsgRec == [what: {"settings", "providers"}, doc: MergedRec]
          \cup [what: {"pick"}, value: Texts] \cup [what: {"policy", "models", "open"}]
PolicyRec == [global: Texts, project: Texts, source: {"global", "project"}, rules: Texts,
              dirty: BOOLEAN]
Savers == {"app", "policy", "models"}

TypeInv ==
  /\ files \in [{"global", "project"} -> FileRec]
  /\ globalLayer \in DocRec /\ merged \in MergedRec /\ lastTrust \in TrustRec
  /\ todo \in Seq(StepRec) /\ inbox \in Seq(MsgRec)
  /\ held \in [Savers -> SUBSET DocRec] /\ settings \in SUBSET MergedRec
  /\ policy \in PolicyRec
  /\ accepted \in SUBSET Fingerprints /\ asked \in SUBSET Fingerprints

\* a document for the global file records only what the user trusted
DocSafe(doc) == doc.trusted \subseteq accepted /\ doc.providers # "own"

HeldInv ==
  /\ \A t \in Savers : held[t] = {} \/ \E doc \in DocRec : held[t] = {doc}
  /\ settings = {} \/ \E doc \in MergedRec : settings = {doc}
  /\ held.app # {} => todo # <<>> /\ todo[1].do \in Saves
  /\ held.app # {} /\ SavesTo(todo[1]) = "global" => \A doc \in held.app : DocSafe(doc)
  /\ held.policy # {} => policy.dirty
  /\ held.policy # {} /\ policy.source = "global" => \A doc \in held.policy : DocSafe(doc)
  /\ \A doc \in held.models : DocSafe(doc)

StepSafe(step) ==
  /\ step.do = "trusted" => step.value \in accepted
  /\ step.do = "providers" => step.value \in Texts /\ step.value # "own"
  /\ step.do \in {"build_command", "scalar"} => step.value \in Texts

MsgSafe(msg) == msg.what \in {"settings", "providers"} => msg.doc.providers # "own"

SafeInv ==
  /\ DocSafe(files.global.doc)
  /\ globalLayer.providers # "own" /\ AuthorityAccepted
  /\ \A doc \in settings : doc.providers # "own"
  /\ \A i \in 1..Len(todo) : StepSafe(todo[i])
  /\ \A i \in 1..Len(inbox) : MsgSafe(inbox[i])

DocInv == TypeInv /\ HeldInv /\ SafeInv

(***************************************************************************)
(* Layers and sequences.                                                   *)
(***************************************************************************)
LEMMA Literals == {None, "edited", "picked", "chosen", "entry"} \subseteq Texts
BY DEF Texts

LEMMA BlankTyped ==
  /\ Blank \in DocRec /\ Blank.trusted = {} /\ Blank.providers # "own"
  /\ Merge(Blank, Blank) \in MergedRec /\ Merge(Blank, Blank).providers # "own"
  /\ Merge(Blank, Blank).gated = <<None, None>>
<1>1. None \in Texts
  BY Literals
<1>2. {} \in SUBSET (Texts \X Texts)
  OBVIOUS
<1>3. Blank \in DocRec /\ Blank.trusted = {} /\ Blank.providers = None
      /\ Blank.permissions = None /\ Blank.build_command = None
      /\ Blank.scalar = None /\ Blank.models = None
  BY <1>1, <1>2 DEF Blank, DocRec
<1>4. Merge(Blank, Blank) =
        [permissions |-> <<None, None>>, build_command |-> None, providers |-> None,
         scalar |-> None, models |-> None, gated |-> <<None, None>>]
  BY <1>3 DEF Merge, Overlay, GatedFingerprint
<1>5. None # "own"
  BY DEF None
<1> QED BY <1>1, <1>3, <1>4, <1>5 DEF MergedRec, Fingerprints

LEMMA LayerLoaded ==
  ASSUME NEW file \in FileRec
  PROVE  /\ LoadLayer(file) \in DocRec
         /\ LoadLayer(file).trusted \subseteq file.doc.trusted
         /\ file.doc.providers # "own" => LoadLayer(file).providers # "own"
BY BlankTyped DEF LoadLayer, FileRec

\* what is merged from the files of the moment takes no authority of its own
LEMMA LayersMerged ==
  ASSUME DocInv, NEW layer \in DocRec, layer.providers # "own"
  PROVE  /\ LoadWithLayers(layer) \in MergedRec
         /\ LoadWithLayers(layer).providers # "own"
         /\ LoadWithLayers(layer).gated = <<None, None>> \/ LoadWithLayers(layer).gated \in accepted
         /\ Trust(files.project, files.global) \in TrustRec
<1> DEFINE doc == StripProjectProviders(LoadLayer(files.project))
           trust == Trust(files.project, files.global)
           over == LoadProjectLayer(files.project, files.global)
           both == LoadWithLayers(layer)
<1>1. files.project \in FileRec /\ files.global \in FileRec /\ None \in Texts
  BY Literals DEF DocInv, TypeInv
<1>2. doc \in DocRec /\ doc.providers = None
  <2>1. LoadLayer(files.project) \in DocRec
    BY <1>1, LayerLoaded
  <2> QED BY <1>1, <2>1 DEF StripProjectProviders, DocRec
<1>3. LoadLayer(files.global).trusted \subseteq accepted
  BY <1>1, LayerLoaded DEF DocInv, SafeInv, DocSafe
<1>4. GatedFingerprint(doc) = <<doc.permissions, doc.build_command>>
      /\ GatedFingerprint(doc) \in Fingerprints
  BY <1>2 DEF GatedFingerprint, Fingerprints, DocRec
<1>5. HasGatedKeys(doc) \in BOOLEAN /\ TrustGranted(doc, files.global) \in BOOLEAN
  BY DEF HasGatedKeys, TrustGranted
<1>6. trust = [needed |-> HasGatedKeys(doc), fingerprint |-> GatedFingerprint(doc),
               granted |-> HasGatedKeys(doc) /\ TrustGranted(doc, files.global)]
  BY DEF Trust
<1>7. trust \in TrustRec
  <2>1. (HasGatedKeys(doc) /\ TrustGranted(doc, files.global)) \in BOOLEAN
    BY <1>5
  <2> HIDE DEF doc, trust
  <2> QED BY Zenon, <1>4, <1>5, <1>6, <2>1 DEF TrustRec
<1>8. over = IF trust.needed /\ ~trust.granted THEN StripUntrusted(doc) ELSE doc
  BY DEF LoadProjectLayer
<1>9. /\ trust.needed <=> HasGatedKeys(doc)
      /\ trust.granted <=> HasGatedKeys(doc) /\ TrustGranted(doc, files.global)
  <2> HIDE DEF doc, trust
  <2>1. trust.needed = HasGatedKeys(doc)
        /\ trust.granted = (HasGatedKeys(doc) /\ TrustGranted(doc, files.global))
    BY Zenon, <1>6
  <2> QED BY Zenon, <2>1
<1> HIDE DEF doc, trust, over
<1>10. over \in DocRec /\ over.providers = None
  BY <1>1, <1>2, <1>8 DEF StripUntrusted, DocRec
<1>11. GatedFingerprint(over) = <<None, None>> \/ GatedFingerprint(over) \in accepted
  <2>1. CASE over = StripUntrusted(doc)
    <3>1. over.permissions = None /\ over.build_command = None
      BY <1>1, <1>2, <2>1 DEF StripUntrusted, DocRec
    <3> QED BY <3>1 DEF GatedFingerprint
  <2>2. CASE over = doc /\ HasGatedKeys(doc) /\ TrustGranted(doc, files.global)
    BY <1>3, <2>2 DEF TrustGranted
  <2>3. CASE over = doc /\ ~HasGatedKeys(doc)
    BY <2>3 DEF HasGatedKeys
  <2> QED BY <1>8, <1>9, <2>1, <2>2, <2>3
<1>12. both = [permissions |-> <<layer.permissions, over.permissions>>,
               build_command |-> Overlay(layer.build_command, over.build_command),
               providers |-> layer.providers,
               scalar |-> Overlay(layer.scalar, over.scalar),
               models |-> Overlay(layer.models, over.models),
               gated |-> GatedFingerprint(over)]
  BY <1>10 DEF LoadWithLayers, Merge, Overlay, over
<1>13. /\ <<layer.permissions, over.permissions>> \in Texts \X Texts
       /\ Overlay(layer.build_command, over.build_command) \in Texts
       /\ layer.providers \in Texts /\ Overlay(layer.scalar, over.scalar) \in Texts
       /\ Overlay(layer.models, over.models) \in Texts
       /\ GatedFingerprint(over) \in Fingerprints
  BY <1>10 DEF Overlay, DocRec, GatedFingerprint, Fingerprints
<1> HIDE DEF both
<1>14. both \in MergedRec
  BY Zenon, <1>12, <1>13 DEF MergedRec
<1>15. both.providers = layer.providers /\ both.gated = GatedFingerprint(over)
  BY <1>12
<1> QED BY <1>7, <1>11, <1>14, <1>15 DEF both, trust

LEMMA StepsRest ==
  ASSUME NEW q \in Seq(StepRec), q # <<>>
  PROVE  /\ Head(q) = q[1] /\ q[1] \in StepRec /\ 1 \in 1..Len(q)
         /\ Tail(q) \in Seq(StepRec)
         /\ \A i \in 1..Len(Tail(q)) : i + 1 \in 1..Len(q) /\ Tail(q)[i] = q[i + 1]
BY SMTT(30)

LEMMA MessagesRest ==
  ASSUME NEW q \in Seq(MsgRec), q # <<>>
  PROVE  /\ Head(q) = q[1] /\ q[1] \in MsgRec /\ 1 \in 1..Len(q)
         /\ Tail(q) \in Seq(MsgRec)
         /\ \A i \in 1..Len(Tail(q)) : i + 1 \in 1..Len(q) /\ Tail(q)[i] = q[i + 1]
BY SMTT(30)

LEMMA MessageAdded ==
  ASSUME NEW q \in Seq(MsgRec), NEW m \in MsgRec
  PROVE  /\ Append(q, m) \in Seq(MsgRec)
         /\ \A i \in 1..Len(Append(q, m)) :
              Append(q, m)[i] = m \/ (i \in 1..Len(q) /\ Append(q, m)[i] = q[i])
BY SMTT(30)

\* the rest of be_app's handler is as safe as all of it
LEMMA RestOfHandler ==
  ASSUME DocInv, todo # <<>>, todo' \in {<<>>, Tail(todo)}, accepted' = accepted
  PROVE  todo' \in Seq(StepRec) /\ \A i \in 1..Len(todo') : StepSafe(todo[i])'
<1>1. todo \in Seq(StepRec) /\ \A i \in 1..Len(todo) : StepSafe(todo[i])
  BY DEF DocInv, TypeInv, SafeInv
<1>2. CASE todo' = <<>>
  BY <1>2
<1>3. CASE todo' = Tail(todo)
  <2>1. todo' \in Seq(StepRec)
    BY <1>1, <1>3, StepsRest
  <2>2. ASSUME NEW i \in 1..Len(todo') PROVE StepSafe(todo[i])'
    <3>1. i + 1 \in 1..Len(todo) /\ todo'[i] = todo[i + 1]
      BY <1>1, <1>3, <2>2, StepsRest
    <3>2. StepSafe(todo[i + 1])
      BY <1>1, <3>1
    <3> QED BY <3>1, <3>2 DEF StepSafe
  <2> QED BY <2>1, <2>2
<1> QED BY <1>2, <1>3

\* a message that carries nothing of a project's
LEMMA MessagePosted ==
  ASSUME DocInv, NEW m \in MsgRec, MsgSafe(m), inbox' = Append(inbox, m)
  PROVE  inbox' \in Seq(MsgRec) /\ \A i \in 1..Len(inbox') : MsgSafe(inbox'[i])
<1>1. inbox \in Seq(MsgRec) /\ \A i \in 1..Len(inbox) : MsgSafe(inbox[i])
  BY DEF DocInv, TypeInv, SafeInv
<1> QED BY <1>1, MessageAdded

LEMMA InitDocs == DocInit => DocInv
<1> SUFFICES ASSUME DocInit PROVE DocInv
  OBVIOUS
<1>1. PICK g \in GlobalDocs, p \in ProjectDocs :
        files = [global |-> [ok |-> TRUE, doc |-> g], project |-> [ok |-> TRUE, doc |-> p]]
  BY DEF DocInit
<1>2. g \in DocRec /\ p \in DocRec /\ g.providers # "own" /\ None \in Texts
  BY DocAssumption, Literals
<1>3. [ok |-> TRUE, doc |-> g] \in FileRec /\ [ok |-> TRUE, doc |-> p] \in FileRec
  <2>1. TRUE \in BOOLEAN
    OBVIOUS
  <2> QED BY Zenon, <1>2, <2>1 DEF FileRec
<1>4. files \in [{"global", "project"} -> FileRec] /\ files.global.doc = g
  <2>1. PICK fg \in FileRec : fg = [ok |-> TRUE, doc |-> g]
    BY <1>3
  <2>2. PICK fp \in FileRec : fp = [ok |-> TRUE, doc |-> p]
    BY <1>3
  <2>3. files = [global |-> fg, project |-> fp] /\ fg.doc = g
    BY <1>1, <2>1, <2>2
  <2>4. files \in [{"global", "project"} -> FileRec] /\ files.global = fg
    BY <2>3
  <2> QED BY <2>3, <2>4
<1>5. accepted = g.trusted /\ accepted \in SUBSET Fingerprints /\ asked = {}
  BY <1>2, <1>4 DEF DocInit, DocRec, Fingerprints
<1>6. lastTrust \in TrustRec
  <2>1. <<None, None>> \in Fingerprints /\ FALSE \in BOOLEAN
    BY <1>2 DEF Fingerprints
  <2> QED BY Zenon, <2>1 DEF DocInit, TrustRec
<1>7. Load \in StepRec /\ Prompt \in StepRec /\ StepSafe(Load) /\ StepSafe(Prompt)
  BY <1>2 DEF Load, Prompt, Save, StepRec, StepSafe
<1>8. /\ todo \in Seq(StepRec) /\ inbox \in Seq(MsgRec) /\ Len(inbox) = 0
      /\ \A i \in 1..Len(todo) : StepSafe(todo[i])
  <2>1. todo = <<Load, Prompt>> /\ inbox = <<>>
    BY DEF DocInit
  <2> QED BY <1>7, <2>1
<1>9. policy \in PolicyRec /\ ~policy.dirty
  <2>1. "global" \in {"global", "project"} /\ FALSE \in BOOLEAN
    OBVIOUS
  <2>2. policy = [global |-> None, project |-> None, source |-> "global",
                  rules |-> None, dirty |-> FALSE]
    BY DEF DocInit
  <2>3. policy \in PolicyRec
    BY Zenon, <1>2, <2>1, <2>2 DEF PolicyRec
  <2> QED BY <2>2, <2>3
<1>10. /\ held \in [Savers -> SUBSET DocRec] /\ settings = {}
       /\ held.app = {} /\ held.policy = {} /\ held.models = {}
       /\ \A t \in Savers : held[t] = {}
  BY DEF DocInit, Savers
<1>11. TypeInv
  BY <1>4, <1>5, <1>6, <1>8, <1>9, <1>10, BlankTyped DEF DocInit, TypeInv
<1>12. HeldInv
  BY <1>10 DEF HeldInv
<1>13. SafeInv
  <2>1. DocSafe(files.global.doc)
    BY <1>2, <1>4, <1>5 DEF DocSafe
  <2>2. globalLayer.providers # "own" /\ AuthorityAccepted
    BY BlankTyped DEF DocInit, AuthorityAccepted
  <2> QED BY <1>8, <1>10, <2>1, <2>2 DEF SafeInv
<1> QED BY <1>11, <1>12, <1>13 DEF DocInv

(***************************************************************************)
(* be_app.                                                                 *)
(***************************************************************************)
LEMMA SavePaths == \A step : SavesTo(step) \in {"global", "project"}
BY DEF SavesTo

LEMMA AppReadsKeeps == ASSUME DocInv, AppReads PROVE DocInv'
<1> DEFINE path == SavesTo(todo[1])
<1>1. todo \in Seq(StepRec) /\ todo # <<>> /\ Head(todo) = todo[1] /\ todo[1].do \in Saves
  BY StepsRest DEF DocInv, TypeInv, AppReads
<1>2. /\ held.app = {}
      /\ UNCHANGED <<files, globalLayer, merged, lastTrust, accepted, asked, inbox, settings, policy>>
      /\ IF files[path].ok THEN Reads("app", path) /\ UNCHANGED todo
         ELSE todo' = AfterFailure /\ UNCHANGED held
  BY <1>1 DEF AppReads
<1>3. path \in {"global", "project"}
  BY SavePaths
<1>4. files \in [{"global", "project"} -> FileRec] /\ held \in [Savers -> SUBSET DocRec]
  BY DEF DocInv, TypeInv
<1>5. files[path] \in FileRec /\ files[path].doc \in DocRec
  BY <1>3, <1>4 DEF FileRec
<1>6. CASE files[path].ok
  <2>1. /\ held'.app = {files[path].doc} /\ held'.policy = held.policy /\ held'.models = held.models
        /\ held' \in [Savers -> SUBSET DocRec] /\ todo' = todo
    BY <1>2, <1>4, <1>5, <1>6 DEF Reads, Savers
  <2>2. TypeInv'
    BY <1>2, <2>1 DEF DocInv, TypeInv
  <2>3. HeldInv'
    <3>1. path = "global" => DocSafe(files[path].doc)
      BY DEF DocInv, SafeInv
    <3>2. \A doc : DocSafe(doc)' <=> DocSafe(doc)
      BY <1>2 DEF DocSafe
    <3>3. \A t \in Savers : held'[t] = {} \/ \E doc \in DocRec : held'[t] = {doc}
      BY <1>4, <1>5, <2>1 DEF DocInv, HeldInv, Savers
    <3>4. /\ held'.app # {} => todo' # <<>> /\ todo'[1].do \in Saves
          /\ held'.app # {} /\ SavesTo(todo'[1]) = "global" => \A doc \in held'.app : DocSafe(doc)
      BY <1>1, <2>1, <3>1
    <3> QED BY <1>2, <2>1, <3>2, <3>3, <3>4 DEF DocInv, HeldInv
  <2>4. SafeInv'
    BY <1>2, <2>1 DEF DocInv, SafeInv, DocSafe, StepSafe, AuthorityAccepted
  <2> QED BY <2>2, <2>3, <2>4 DEF DocInv
<1>7. CASE ~files[path].ok
  <2>1. todo' \in {<<>>, Tail(todo)} /\ held' = held
    BY <1>2, <1>7 DEF AfterFailure
  <2>2. todo' \in Seq(StepRec) /\ \A i \in 1..Len(todo') : StepSafe(todo[i])'
    BY <1>1, <1>2, <2>1, RestOfHandler
  <2>3. TypeInv'
    BY <1>2, <2>1, <2>2 DEF DocInv, TypeInv
  <2>4. HeldInv'
    BY <1>2, <2>1 DEF DocInv, HeldInv, DocSafe
  <2>5. SafeInv'
    BY <1>2, <2>1, <2>2 DEF DocInv, SafeInv, DocSafe, AuthorityAccepted
  <2> QED BY <2>3, <2>4, <2>5 DEF DocInv
<1> QED BY <1>6, <1>7

\* a save of be_app's own keys writes no authority the user did not give
LEMMA ChangeSafe ==
  ASSUME DocInv, NEW step \in StepRec, StepSafe(step), step.do \in Saves, NEW doc \in DocRec
  PROVE  /\ Change(step, doc) \in DocRec
         /\ SavesTo(step) = "global" /\ DocSafe(doc) => DocSafe(Change(step, doc))
<1>1. globalLayer \in DocRec /\ globalLayer.providers # "own" /\ None \in Texts
      /\ accepted \in SUBSET Fingerprints
  BY Literals DEF DocInv, TypeInv, SafeInv
<1>2. CASE step.do = "scope"
  <2>1. Change(step, doc) = [doc EXCEPT !.scalar = globalLayer.scalar,
                                        !.providers = globalLayer.providers,
                                        !.models = globalLayer.models, !.build_command = None]
    BY <1>2 DEF Change
  <2> QED BY <1>1, <2>1 DEF DocRec, DocSafe
<1>3. CASE step.do = "build_command"
  BY <1>3 DEF Change, SavesTo, DocRec, StepSafe
<1>4. CASE step.do = "providers"
  BY <1>4 DEF Change, DocRec, StepSafe, DocSafe
<1>5. CASE step.do = "scalar"
  BY <1>5 DEF Change, DocRec, StepSafe, DocSafe, Overlay
<1>6. CASE step.do = "trusted"
  <2>1. Change(step, doc) = [doc EXCEPT !.trusted = {step.value}]
    BY <1>6 DEF Change
  <2>2. step.value \in accepted /\ step.value \in Texts \X Texts
    BY <1>1, <1>6 DEF StepSafe, Fingerprints
  <2> QED BY <2>1, <2>2 DEF DocRec, DocSafe
<1>7. CASE step.do = "directory"
  BY <1>7 DEF Change
<1> QED BY <1>2, <1>3, <1>4, <1>5, <1>6, <1>7 DEF Saves

LEMMA AppWritesKeeps == ASSUME DocInv, AppWrites PROVE DocInv'
<1> DEFINE path == SavesTo(todo[1])
<1>1. /\ held.app # {} /\ todo # <<>> /\ todo[1].do \in Saves /\ todo \in Seq(StepRec)
      /\ path = "global" => \A doc \in held.app : DocSafe(doc)
  BY DEF AppWrites, DocInv, HeldInv, TypeInv
<1>2. Head(todo) = todo[1] /\ todo[1] \in StepRec /\ 1 \in 1..Len(todo)
  BY <1>1, StepsRest
<1>3. StepSafe(todo[1])
  BY <1>2 DEF DocInv, SafeInv
<1>4. UNCHANGED <<globalLayer, merged, lastTrust, accepted, asked, inbox, settings, policy>>
  BY DEF AppWrites
<1>5. /\ files \in [{"global", "project"} -> FileRec] /\ held \in [Savers -> SUBSET DocRec]
      /\ held' = [held EXCEPT !["app"] = {}] /\ path \in {"global", "project"}
  BY SavePaths DEF DocInv, TypeInv, AppWrites, Drops
<1>6. /\ held' \in [Savers -> SUBSET DocRec] /\ held'.app = {} /\ held'.policy = held.policy
      /\ held'.models = held.models
  BY <1>5 DEF Savers
<1>7. todo' \in {<<>>, Tail(todo)}
  BY DEF AppWrites, AfterFailure
<1>8. todo' \in Seq(StepRec) /\ \A i \in 1..Len(todo') : StepSafe(todo[i])'
  BY <1>1, <1>4, <1>7, RestOfHandler
<1>9. /\ files' \in [{"global", "project"} -> FileRec] /\ DocSafe(files'.global.doc)
  <2>1. CASE UNCHANGED files
    BY <1>5, <2>1 DEF DocInv, SafeInv
  <2>2. CASE \E doc \in held.app : Writes(SavesTo(Head(todo)), Change(Head(todo), doc))
    <3>1. PICK doc \in held.app : Writes(path, Change(todo[1], doc))
      BY <1>2, <2>2
    <3>2. doc \in DocRec
      BY <1>5, <3>1 DEF Savers
    <3>3. PICK new \in DocRec : new = Change(todo[1], doc)
      BY <1>1, <1>2, <1>3, <3>2, ChangeSafe
    <3>4. path = "global" => DocSafe(new)
      BY <1>1, <1>2, <1>3, <3>1, <3>2, <3>3, ChangeSafe
    <3>5. files' = [files EXCEPT ![path] = [ok |-> TRUE, doc |-> new]]
      BY <3>1, <3>3 DEF Writes
    <3>6. [ok |-> TRUE, doc |-> new] \in FileRec
      <4>1. TRUE \in BOOLEAN
        OBVIOUS
      <4> QED BY Zenon, <4>1 DEF FileRec
    <3>7. files' \in [{"global", "project"} -> FileRec]
      BY <1>5, <3>5, <3>6
    <3>8. CASE path = "global"
      <4>1. files'.global.doc = new
        BY <1>5, <3>5, <3>8
      <4> QED BY <3>4, <3>7, <3>8, <4>1
    <3>9. CASE path = "project"
      <4>1. files'.global = files.global
        BY <1>5, <3>5, <3>9
      <4> QED BY <3>7, <4>1 DEF DocInv, SafeInv
    <3> QED BY <1>5, <3>8, <3>9
  <2> QED BY <2>1, <2>2 DEF AppWrites
<1>10. TypeInv'
  BY <1>4, <1>6, <1>8, <1>9 DEF DocInv, TypeInv
<1>11. HeldInv'
  <2>1. \A t \in Savers : held'[t] = {} \/ held'[t] = held[t]
    BY <1>5
  <2>2. \A doc : DocSafe(doc)' <=> DocSafe(doc)
    BY <1>4 DEF DocSafe
  <2> QED BY <1>4, <1>6, <2>1, <2>2 DEF DocInv, HeldInv
<1>12. SafeInv'
  BY <1>4, <1>8, <1>9 DEF DocInv, SafeInv, DocSafe, AuthorityAccepted
<1> QED BY <1>10, <1>11, <1>12 DEF DocInv

LEMMA AppSyncsKeeps == ASSUME DocInv, AppSyncs PROVE DocInv'
<1>1. /\ todo # <<>> /\ todo' = Tail(todo) /\ Head(todo).do \in {"sync", "load"}
      /\ UNCHANGED <<files, accepted, asked, inbox, held, settings, policy>>
      /\ globalLayer' = globalLayer \/ globalLayer' = LoadLayer(files.global)
      /\ merged' = LoadWithLayers(globalLayer')
      /\ lastTrust' = Trust(files.project, files.global)
  BY DEF AppSyncs, SyncMergedConfig
<1>2. todo' \in Seq(StepRec) /\ \A i \in 1..Len(todo') : StepSafe(todo[i])'
  BY <1>1, RestOfHandler
<1>3. globalLayer' \in DocRec /\ globalLayer'.providers # "own"
  BY <1>1, LayerLoaded DEF DocInv, TypeInv, SafeInv, DocSafe
<1>4. PICK layer \in DocRec : layer = globalLayer'
  BY <1>3
<1>5. /\ merged' \in MergedRec /\ merged'.providers # "own"
      /\ merged'.gated = <<None, None>> \/ merged'.gated \in accepted
      /\ lastTrust' \in TrustRec
  BY <1>1, <1>3, <1>4, LayersMerged
<1>6. held.app = {}
  <2>1. todo[1] = Head(todo)
    BY <1>1, StepsRest DEF DocInv, TypeInv
  <2> QED BY <1>1, <2>1 DEF DocInv, HeldInv, Saves
<1>7. TypeInv'
  BY <1>1, <1>2, <1>3, <1>5 DEF DocInv, TypeInv
<1>8. HeldInv'
  BY <1>1, <1>6 DEF DocInv, HeldInv, DocSafe
<1>9. SafeInv'
  BY <1>1, <1>2, <1>3, <1>5 DEF DocInv, SafeInv, DocSafe, AuthorityAccepted
<1> QED BY <1>7, <1>8, <1>9 DEF DocInv

LEMMA PromptKeeps == ASSUME DocInv, MaybePromptProjectTrust PROVE DocInv'
<1>1. /\ todo # <<>> /\ Head(todo).do = "prompt"
      /\ UNCHANGED <<files, globalLayer, merged, lastTrust, inbox, held, settings, policy>>
  BY DEF MaybePromptProjectTrust
<1>2. held.app = {}
  <2>1. todo[1] = Head(todo)
    BY <1>1, StepsRest DEF DocInv, TypeInv
  <2> QED BY <1>1, <2>1 DEF DocInv, HeldInv, Saves
<1>3. lastTrust.fingerprint \in Fingerprints
  BY DEF DocInv, TypeInv, TrustRec
<1>4. accepted \subseteq accepted' /\ accepted' \in SUBSET Fingerprints /\ asked' \in SUBSET Fingerprints
  BY <1>3 DEF MaybePromptProjectTrust, DocInv, TypeInv
<1>5. todo' \in Seq(StepRec) /\ \A i \in 1..Len(todo') : StepSafe(todo[i])'
  <2>1. CASE /\ accepted' = accepted \cup {lastTrust.fingerprint}
             /\ todo' = <<Save("trusted", lastTrust.fingerprint), Sync>>
    <3>1. None \in Texts
      BY Literals
    <3>2. /\ Save("trusted", lastTrust.fingerprint) \in StepRec /\ Sync \in StepRec
          /\ Save("trusted", lastTrust.fingerprint).do = "trusted" /\ Sync.do = "sync"
          /\ Save("trusted", lastTrust.fingerprint).value = lastTrust.fingerprint
      BY <1>3, <3>1 DEF Save, Sync, StepRec, Saves
    <3>3. PICK a \in StepRec : a = Save("trusted", lastTrust.fingerprint)
      BY <3>2
    <3>4. PICK b \in StepRec : b = Sync
      BY <3>2
    <3>5. todo' = <<a, b>> /\ a.do = "trusted" /\ a.value \in accepted' /\ b.do = "sync"
      BY <2>1, <3>2, <3>3, <3>4
    <3>6. todo' \in Seq(StepRec) /\ \A i \in 1..Len(todo') : todo'[i] \in {a, b}
      BY <3>5
    <3> QED BY <3>5, <3>6 DEF StepSafe
  <2>2. CASE todo' = Tail(todo) /\ accepted' = accepted
    BY <1>1, <2>2, RestOfHandler
  <2> QED BY <2>1, <2>2 DEF MaybePromptProjectTrust
<1>6. TypeInv'
  BY <1>1, <1>4, <1>5 DEF DocInv, TypeInv
<1>7. HeldInv'
  BY <1>1, <1>2, <1>4 DEF DocInv, HeldInv, DocSafe
<1>8. SafeInv'
  BY <1>1, <1>4, <1>5 DEF DocInv, SafeInv, DocSafe, AuthorityAccepted
<1> QED BY <1>6, <1>7, <1>8 DEF DocInv

\* a handler of be_app starts: three steps at most, each of them safe
LEMMA HandlerSafe ==
  ASSUME NEW q, NEW a \in StepRec, NEW b \in StepRec, NEW c \in StepRec,
         StepSafe(a), StepSafe(b), StepSafe(c),
         q \in {<<a>>, <<a, b>>, <<a, b, c>>}
  PROVE  q \in Seq(StepRec) /\ \A i \in 1..Len(q) : StepSafe(q[i])
<1>1. CASE q = <<a>>
  BY <1>1
<1>2. CASE q = <<a, b>>
  <2>1. q \in Seq(StepRec) /\ \A i \in 1..Len(q) : q[i] \in {a, b}
    BY <1>2
  <2> QED BY <2>1
<1>3. CASE q = <<a, b, c>>
  <2>1. q \in Seq(StepRec) /\ \A i \in 1..Len(q) : q[i] \in {a, b, c}
    BY <1>3
  <2> QED BY <2>1
<1> QED BY <1>1, <1>2, <1>3

LEMMA SaveTyped ==
  ASSUME NEW key \in Saves, NEW value \in Texts \cup Fingerprints
  PROVE  /\ Save(key, value) \in StepRec
         /\ Save(key, value).do = key /\ Save(key, value).value = value
BY DEF Save, StepRec

LEMMA AppTakesKeeps == ASSUME DocInv, AppTakes PROVE DocInv'
<1> DEFINE msg == inbox[1]
<1>1. /\ todo = <<>> /\ inbox # <<>> /\ inbox' = Tail(inbox) /\ Head(inbox) = inbox[1]
      /\ inbox[1] \in MsgRec /\ 1 \in 1..Len(inbox) /\ inbox' \in Seq(MsgRec)
      /\ UNCHANGED <<files, accepted, asked, held, settings, policy>>
      /\ \A i \in 1..Len(inbox') : i + 1 \in 1..Len(inbox) /\ inbox'[i] = inbox[i + 1]
  BY MessagesRest DEF DocInv, TypeInv, AppTakes
<1>2. \A i \in 1..Len(inbox') : MsgSafe(inbox'[i])
  BY <1>1 DEF DocInv, SafeInv
<1>3. msg \in MsgRec /\ MsgSafe(msg)
  BY <1>1 DEF DocInv, SafeInv
<1>4. /\ globalLayer \in DocRec /\ globalLayer.providers # "own" /\ merged \in MergedRec
      /\ todo \in Seq(StepRec) /\ AuthorityAccepted /\ None \in Texts /\ lastTrust \in TrustRec
      /\ \A i \in 1..Len(todo) : StepSafe(todo[i])
  BY Literals DEF DocInv, TypeInv, SafeInv
<1>5. held.app = {}
  BY <1>1 DEF DocInv, HeldInv
<1>6. /\ Scope \in StepRec /\ StepSafe(Scope) /\ Sync \in StepRec /\ StepSafe(Sync)
      /\ Load \in StepRec /\ StepSafe(Load) /\ Prompt \in StepRec /\ StepSafe(Prompt)
      /\ Save("directory", None) \in StepRec /\ StepSafe(Save("directory", None))
  BY <1>4 DEF Scope, Sync, Load, Prompt, Save, StepRec, StepSafe, Saves
<1>7. /\ globalLayer' \in DocRec /\ globalLayer'.providers # "own" /\ merged' \in MergedRec
      /\ merged'.gated = <<None, None>> \/ merged'.gated \in accepted
      /\ merged'.providers # "own" /\ lastTrust' \in TrustRec
      /\ todo' \in Seq(StepRec) /\ \A i \in 1..Len(todo') : StepSafe(todo'[i])
  <2>a. merged.providers # "own" /\ (merged.gated = <<None, None>> \/ merged.gated \in accepted)
    BY <1>4 DEF AuthorityAccepted
  <2>b. ASSUME msg.what \in {"settings", "providers"}, ApplyProviders(msg.doc)
        PROVE  /\ merged' \in MergedRec /\ merged'.providers # "own"
               /\ merged'.gated = <<None, None>> \/ merged'.gated \in accepted
               /\ lastTrust' \in TrustRec
    <3>1. msg.doc \in MergedRec /\ msg.doc.providers # "own"
      BY <1>3, <2>b DEF MsgRec, MsgSafe
    <3>2. msg.doc.providers \in Texts
      BY <3>1 DEF MergedRec
    <3>3. PICK layer \in DocRec : /\ layer = [globalLayer EXCEPT !.providers = msg.doc.providers]
                                  /\ layer.providers # "own"
      BY <1>4, <3>1, <3>2 DEF DocRec
    <3>4. merged' = LoadWithLayers(layer) /\ lastTrust' = Trust(files.project, files.global)
      BY <2>b, <3>3 DEF ApplyProviders, SyncMergedConfig
    <3> QED BY <3>3, <3>4, LayersMerged
  <2>1. CASE msg.what = "settings" /\ todo' = <<Scope, Save("build_command", msg.doc.build_command), Sync>>
             /\ globalLayer' = [globalLayer EXCEPT !.providers = msg.doc.providers,
                                                   !.scalar = Overlay(@, msg.doc.scalar)]
             /\ ApplyProviders(msg.doc)
    <3>1. msg.doc \in MergedRec /\ msg.doc.providers # "own"
      BY <1>3, <2>1 DEF MsgRec, MsgSafe
    <3>2. /\ msg.doc.build_command \in Texts /\ msg.doc.providers \in Texts
          /\ Overlay(globalLayer.scalar, msg.doc.scalar) \in Texts
      BY <1>4, <3>1 DEF MergedRec, DocRec, Overlay
    <3>3. globalLayer' \in DocRec /\ globalLayer'.providers # "own"
      BY <1>4, <2>1, <3>1, <3>2 DEF DocRec
    <3>4. PICK step \in StepRec : step = Save("build_command", msg.doc.build_command) /\ StepSafe(step)
      <4>1. "build_command" \in Saves
        BY DEF Saves
      <4>2. PICK step \in StepRec : /\ step = Save("build_command", msg.doc.build_command)
                                    /\ step.do = "build_command" /\ step.value = msg.doc.build_command
        BY <3>2, <4>1, SaveTyped
      <4>3. StepSafe(step)
        BY <3>2, <4>2 DEF StepSafe
      <4> QED BY <4>2, <4>3
    <3>5. todo' \in Seq(StepRec) /\ \A i \in 1..Len(todo') : StepSafe(todo'[i])
      BY <1>6, <2>1, <3>4, HandlerSafe
    <3> QED BY <2>1, <2>b, <3>3, <3>5
  <2>2. CASE msg.what = "providers" /\ todo' = <<Save("providers", msg.doc.providers)>>
             /\ globalLayer' = [globalLayer EXCEPT !.providers = msg.doc.providers]
             /\ ApplyProviders(msg.doc)
    <3>1. msg.doc \in MergedRec /\ msg.doc.providers # "own"
      BY <1>3, <2>2 DEF MsgRec, MsgSafe
    <3>2. msg.doc.providers \in Texts
      BY <3>1 DEF MergedRec
    <3>3. globalLayer' \in DocRec /\ globalLayer'.providers # "own"
      BY <1>4, <2>2, <3>1, <3>2 DEF DocRec
    <3>4. PICK step \in StepRec : step = Save("providers", msg.doc.providers) /\ StepSafe(step)
      <4>1. "providers" \in Saves
        BY DEF Saves
      <4>2. PICK step \in StepRec : /\ step = Save("providers", msg.doc.providers)
                                    /\ step.do = "providers" /\ step.value = msg.doc.providers
        BY <3>1, <3>2, <4>1, SaveTyped
      <4>3. StepSafe(step)
        BY <3>1, <3>2, <4>2 DEF StepSafe
      <4> QED BY <4>2, <4>3
    <3>5. todo' \in Seq(StepRec) /\ \A i \in 1..Len(todo') : StepSafe(todo'[i])
      BY <2>2, <3>4, HandlerSafe
    <3> QED BY <2>2, <2>b, <3>3, <3>5
  <2>3. CASE UNCHANGED <<globalLayer, merged, lastTrust, todo>>
    BY <1>4, <2>3, <2>a
  <2>4. CASE msg.what = "pick" /\ globalLayer' = [globalLayer EXCEPT !.scalar = msg.value]
             /\ merged' = [merged EXCEPT !.scalar = msg.value] /\ todo' = <<Save("scalar", msg.value)>>
             /\ UNCHANGED lastTrust
    <3>1. msg.value \in Texts
      BY <1>3, <2>4 DEF MsgRec
    <3>2. globalLayer' \in DocRec /\ globalLayer'.providers = globalLayer.providers
      BY <1>4, <2>4, <3>1 DEF DocRec
    <3>3. /\ merged' \in MergedRec /\ merged'.gated = merged.gated
          /\ merged'.providers = merged.providers
      BY <1>4, <2>4, <3>1 DEF MergedRec
    <3>4. PICK step \in StepRec : step = Save("scalar", msg.value) /\ StepSafe(step)
      <4>1. "scalar" \in Saves
        BY DEF Saves
      <4>2. PICK step \in StepRec : /\ step = Save("scalar", msg.value)
                                    /\ step.do = "scalar" /\ step.value = msg.value
        BY <3>1, <4>1, SaveTyped
      <4>3. StepSafe(step)
        BY <3>1, <4>2 DEF StepSafe
      <4> QED BY <4>2, <4>3
    <3>5. todo' \in Seq(StepRec) /\ \A i \in 1..Len(todo') : StepSafe(todo'[i])
      BY <2>4, <3>4, HandlerSafe
    <3> QED BY <1>4, <2>4, <2>a, <3>2, <3>3, <3>5
  <2>5. CASE UNCHANGED <<globalLayer, merged, lastTrust>> /\ todo' = <<Load>>
    BY <1>4, <1>6, <2>5, <2>a, HandlerSafe
  <2>6. CASE /\ UNCHANGED <<globalLayer, merged, lastTrust>>
             /\ todo' = <<Save("directory", None), Load, Prompt>>
    BY <1>4, <1>6, <2>6, <2>a, HandlerSafe
  <2> QED BY <1>1, <2>1, <2>2, <2>3, <2>4, <2>5, <2>6 DEF AppTakes
<1>8. TypeInv'
  BY <1>1, <1>7 DEF DocInv, TypeInv
<1>9. HeldInv'
  BY <1>1, <1>5 DEF DocInv, HeldInv, DocSafe
<1>10. SafeInv'
  BY <1>1, <1>2, <1>7 DEF DocInv, SafeInv, DocSafe, AuthorityAccepted, StepSafe
<1> QED BY <1>8, <1>9, <1>10 DEF DocInv

(***************************************************************************)
(* The windows: be_app's layers, handler and record stay as they are.      *)
(***************************************************************************)
LEMMA WindowStep ==
  ASSUME DocInv, UNCHANGED appVars,
         files' \in [{"global", "project"} -> FileRec], DocSafe(files'.global.doc),
         held' \in [Savers -> SUBSET DocRec], held'.app = held.app,
         \A t \in Savers : held'[t] = {} \/ \E doc \in DocRec : held'[t] = {doc},
         settings' \in SUBSET MergedRec, settings' = {} \/ \E doc \in MergedRec : settings' = {doc},
         \A doc \in settings' : doc.providers # "own",
         policy' \in PolicyRec, held'.policy # {} => policy'.dirty,
         held'.policy # {} /\ policy'.source = "global" => \A doc \in held'.policy : DocSafe(doc),
         \A doc \in held'.models : DocSafe(doc),
         inbox' = inbox \/ \E m \in MsgRec : MsgSafe(m) /\ inbox' = Append(inbox, m)
  PROVE  DocInv'
<1>1. UNCHANGED <<globalLayer, merged, lastTrust, todo, accepted, asked>>
  BY DEF appVars
<1>2. inbox' \in Seq(MsgRec) /\ \A i \in 1..Len(inbox') : MsgSafe(inbox'[i])
  <2>1. CASE inbox' = inbox
    BY <2>1 DEF DocInv, TypeInv, SafeInv
  <2>2. CASE \E m \in MsgRec : MsgSafe(m) /\ inbox' = Append(inbox, m)
    BY <2>2, MessagePosted
  <2> QED BY <2>1, <2>2
<1>3. TypeInv'
  BY <1>1, <1>2 DEF DocInv, TypeInv
<1>4. \A doc : DocSafe(doc)' <=> DocSafe(doc)
  BY <1>1 DEF DocSafe
<1>5. HeldInv'
  <2>1. /\ held'.app # {} => todo' # <<>> /\ todo'[1].do \in Saves
        /\ held'.app # {} /\ SavesTo(todo'[1]) = "global" => \A doc \in held'.app : DocSafe(doc)
    BY <1>1 DEF DocInv, HeldInv
  <2> QED BY <1>1, <1>4, <2>1 DEF HeldInv
<1>6. SafeInv'
  BY <1>1, <1>2, <1>4 DEF DocInv, SafeInv, AuthorityAccepted, StepSafe
<1> QED BY <1>3, <1>5, <1>6 DEF DocInv

\* what a window finds, in the forms its step keeps
LEMMA WindowFacts ==
  ASSUME DocInv
  PROVE  /\ files \in [{"global", "project"} -> FileRec] /\ DocSafe(files.global.doc)
         /\ held \in [Savers -> SUBSET DocRec]
         /\ \A t \in Savers : held[t] = {} \/ \E doc \in DocRec : held[t] = {doc}
         /\ settings \in SUBSET MergedRec /\ (settings = {} \/ \E doc \in MergedRec : settings = {doc})
         /\ \A doc \in settings : doc.providers # "own"
         /\ policy \in PolicyRec /\ (held.policy # {} => policy.dirty)
         /\ held.policy # {} /\ policy.source = "global" => \A doc \in held.policy : DocSafe(doc)
         /\ \A doc \in held.models : DocSafe(doc)
         /\ merged \in MergedRec /\ merged.providers # "own"
BY DEF DocInv, TypeInv, HeldInv, SafeInv, AuthorityAccepted

LEMMA MessageForms ==
  /\ \A doc \in MergedRec : \A what \in {"settings", "providers"} :
       /\ [what |-> what, doc |-> doc] \in MsgRec
       /\ doc.providers # "own" => MsgSafe([what |-> what, doc |-> doc])
  /\ [what |-> "pick", value |-> "picked"] \in MsgRec
  /\ MsgSafe([what |-> "pick", value |-> "picked"])
  /\ \A what \in {"policy", "models", "open"} :
       [what |-> what] \in MsgRec /\ MsgSafe([what |-> what])
<1>1. "picked" \in Texts
  BY Literals
<1> QED BY <1>1 DEF MsgRec, MsgSafe

\* a document with one field replaced
LEMMA FieldReplaced ==
  /\ \A doc \in DocRec : \A v \in Texts :
       /\ [doc EXCEPT !.models = v] \in DocRec
       /\ [doc EXCEPT !.models = v].trusted = doc.trusted
       /\ [doc EXCEPT !.models = v].providers = doc.providers
       /\ [doc EXCEPT !.permissions = v] \in DocRec
       /\ [doc EXCEPT !.permissions = v].trusted = doc.trusted
       /\ [doc EXCEPT !.permissions = v].providers = doc.providers
       /\ [doc EXCEPT !.build_command = v] \in DocRec
       /\ [doc EXCEPT !.build_command = v].trusted = doc.trusted
       /\ [doc EXCEPT !.build_command = v].providers = doc.providers
  /\ \A doc \in MergedRec : \A v \in Texts :
       /\ [doc EXCEPT !.providers = v] \in MergedRec
       /\ [doc EXCEPT !.providers = v].providers = v
       /\ [doc EXCEPT !.scalar = v] \in MergedRec
       /\ [doc EXCEPT !.scalar = v].providers = doc.providers
BY DEF DocRec, MergedRec

LEMMA SettingsSteps ==
  ASSUME DocInv,
         \/ OpenSettings \/ PickModel \/ OpenProject
         \/ \E shown \in settings : \/ EditProviders(shown)
                                    \/ \E scalar \in {shown.scalar, "chosen"} : SaveSettings(shown, scalar)
  PROVE  DocInv'
<1>1. CASE OpenSettings
  BY <1>1, WindowFacts, WindowStep DEF OpenSettings
<1>2. CASE PickModel
  <2>1. PICK m \in MsgRec : MsgSafe(m) /\ inbox' = Append(inbox, m)
    BY <1>2, MessageForms DEF PickModel, Post
  <2> QED BY <1>2, <2>1, WindowFacts, WindowStep DEF PickModel
<1>3. CASE OpenProject
  <2>1. PICK m \in MsgRec : MsgSafe(m) /\ inbox' = Append(inbox, m)
    BY <1>3, MessageForms DEF OpenProject, Post
  <2> QED BY <1>3, <2>1, WindowFacts, WindowStep DEF OpenProject
<1>4. ASSUME NEW shown \in settings, EditProviders(shown) PROVE DocInv'
  <2>1. shown \in MergedRec /\ "edited" \in Texts
    BY WindowFacts, Literals
  <2>2. PICK edited \in MergedRec : edited = [shown EXCEPT !.providers = "edited"]
                                   /\ edited.providers = "edited"
    <3>1. /\ [shown EXCEPT !.providers = "edited"] \in MergedRec
          /\ [shown EXCEPT !.providers = "edited"].providers = "edited"
      BY Zenon, <2>1, FieldReplaced
    <3> QED BY <3>1
  <2>3. settings' = {edited} /\ inbox' = Append(inbox, [what |-> "providers", doc |-> edited])
        /\ UNCHANGED <<files, appVars, held, policy>>
    BY <1>4, <2>2 DEF EditProviders, Post
  <2>4. PICK m \in MsgRec : MsgSafe(m) /\ inbox' = Append(inbox, m)
    BY <2>2, <2>3, MessageForms
  <2> QED BY <2>2, <2>3, <2>4, WindowFacts, WindowStep
<1>5. ASSUME NEW shown \in settings, NEW scalar \in {shown.scalar, "chosen"},
             SaveSettings(shown, scalar)
      PROVE  DocInv'
  <2>1. shown \in MergedRec /\ "chosen" \in Texts /\ shown.providers # "own"
    BY WindowFacts, Literals
  <2>2. scalar \in Texts
    BY <2>1 DEF MergedRec
  <2>3. PICK sent \in MergedRec : sent = [shown EXCEPT !.scalar = scalar]
                                 /\ sent.providers = shown.providers
    BY ZenonT(60), <2>1, <2>2, FieldReplaced
  <2>4. settings' = {} /\ inbox' = Append(inbox, [what |-> "settings", doc |-> sent])
        /\ UNCHANGED <<files, appVars, held, policy>>
    BY <1>5, <2>3 DEF SaveSettings, Post
  <2>5. PICK m \in MsgRec : MsgSafe(m) /\ inbox' = Append(inbox, m)
    BY <2>1, <2>3, <2>4, MessageForms
  <2> QED BY <2>1, <2>4, <2>5, WindowFacts, WindowStep
<1> QED BY <1>1, <1>2, <1>3, <1>4, <1>5

\* a document written to one of the files
LEMMA FileWritten ==
  ASSUME DocInv, NEW path \in {"global", "project"}, NEW doc \in DocRec, Writes(path, doc),
         path = "global" => DocSafe(doc)
  PROVE  files' \in [{"global", "project"} -> FileRec] /\ DocSafe(files'.global.doc)
<1>1. files \in [{"global", "project"} -> FileRec] /\ DocSafe(files.global.doc)
  BY WindowFacts
<1>2. PICK file \in FileRec : file = [ok |-> TRUE, doc |-> doc] /\ file.doc = doc
  <2>1. TRUE \in BOOLEAN
    OBVIOUS
  <2>2. [ok |-> TRUE, doc |-> doc] \in FileRec
    BY Zenon, <2>1 DEF FileRec
  <2> QED BY <2>2
<1>3. files' = [files EXCEPT ![path] = file]
  BY <1>2 DEF Writes
<1>4. CASE path = "global"
  BY <1>1, <1>2, <1>3, <1>4
<1>5. CASE path = "project"
  BY <1>1, <1>3, <1>5
<1> QED BY <1>4, <1>5

LEMMA ModelsSteps == ASSUME DocInv, ModelsRead \/ ModelsWrite PROVE DocInv'
<1>1. CASE ModelsRead
  <2>1. files.global.doc \in DocRec /\ DocSafe(files.global.doc)
    BY WindowFacts DEF FileRec
  <2>2. /\ held' \in [Savers -> SUBSET DocRec] /\ held'.models = {files.global.doc}
        /\ held'.app = held.app /\ held'.policy = held.policy
    BY <1>1, <2>1, WindowFacts DEF ModelsRead, Reads, Savers
  <2>3. \A t \in Savers : held'[t] = {} \/ \E doc \in DocRec : held'[t] = {doc}
    BY <2>1, <2>2, WindowFacts DEF Savers
  <2>4. UNCHANGED <<files, appVars, inbox, settings, policy>>
    BY <1>1 DEF ModelsRead
  <2> QED BY <2>1, <2>2, <2>3, <2>4, WindowFacts, WindowStep
<1>2. CASE ModelsWrite
  <2>1. PICK doc \in held.models : Writes("global", [doc EXCEPT !.models = "entry"])
    BY <1>2 DEF ModelsWrite
  <2>2. doc \in DocRec /\ DocSafe(doc) /\ "entry" \in Texts
    BY <2>1, WindowFacts, Literals DEF Savers
  <2>3. PICK new \in DocRec : /\ new = [doc EXCEPT !.models = "entry"]
                              /\ new.trusted = doc.trusted /\ new.providers = doc.providers
    BY ZenonT(60), <2>2, FieldReplaced
  <2>4. files' \in [{"global", "project"} -> FileRec] /\ DocSafe(files'.global.doc)
    BY <2>1, <2>2, <2>3, FileWritten DEF DocSafe
  <2>5. /\ held' \in [Savers -> SUBSET DocRec] /\ held'.models = {}
        /\ held'.app = held.app /\ held'.policy = held.policy
    BY <1>2, WindowFacts DEF ModelsWrite, Drops, Savers
  <2>6. \A t \in Savers : held'[t] = {} \/ \E d \in DocRec : held'[t] = {d}
    BY <2>5, WindowFacts DEF Savers
  <2>7. PICK m \in MsgRec : MsgSafe(m) /\ inbox' = Append(inbox, m)
    BY <1>2, MessageForms DEF ModelsWrite, Post
  <2>8. UNCHANGED <<appVars, settings, policy>>
    BY <1>2 DEF ModelsWrite
  <2> QED BY <2>4, <2>5, <2>6, <2>7, <2>8, WindowFacts, WindowStep
<1> QED BY <1>1, <1>2

\* the policy tab's two documents and its list, reloaded or kept
LEMMA PolicyTyped ==
  ASSUME NEW p \in PolicyRec, files' \in [{"global", "project"} -> FileRec]
  PROVE  /\ RefreshRulesList(p) \in PolicyRec /\ RefreshRulesList(p).source = p.source
         /\ ReloadPolicyDocs(p) \in PolicyRec /\ ReloadPolicyDocs(p).source = p.source
<1>1. RefreshRulesList(p) \in PolicyRec /\ RefreshRulesList(p).source = p.source
  <2>1. p[p.source] \in Texts
    BY DEF PolicyRec
  <2> QED BY <2>1 DEF RefreshRulesList, PolicyRec
<1>2. LoadLayer(files'.global).permissions \in Texts /\ LoadLayer(files'.project).permissions \in Texts
  <2>1. files'.global \in FileRec /\ files'.project \in FileRec
    OBVIOUS
  <2>2. LoadLayer(files'.global) \in DocRec /\ LoadLayer(files'.project) \in DocRec
    BY <2>1, LayerLoaded
  <2> QED BY <2>2 DEF DocRec
<1>3. ReloadPolicyDocs(p) \in PolicyRec /\ ReloadPolicyDocs(p).source = p.source
  BY <1>2 DEF ReloadPolicyDocs, PolicyRec
<1> QED BY <1>1, <1>3

LEMMA PolicySteps ==
  ASSUME DocInv,
         PolicyRefresh \/ SelectSource \/ PolicyRead \/ PolicyWrite \/ \E rules \in Rules : EditRules(rules)
  PROVE  DocInv'
<1>1. files \in [{"global", "project"} -> FileRec] /\ policy \in PolicyRec
      /\ policy.source \in {"global", "project"}
  BY WindowFacts DEF PolicyRec
<1>2. CASE PolicyRefresh
  <2>1. files' = files /\ policy' = RefreshRulesList(ReloadPolicyDocs(policy)) /\ held.policy = {}
        /\ UNCHANGED <<appVars, inbox, held, settings>>
    BY <1>2 DEF PolicyRefresh
  <2>2. PICK p \in PolicyRec : p = ReloadPolicyDocs(policy)
    BY <1>1, <2>1, PolicyTyped
  <2>3. policy' \in PolicyRec
    BY <1>1, <2>1, <2>2, PolicyTyped
  <2> QED BY <2>1, <2>3, WindowFacts, WindowStep
<1>3. CASE SelectSource
  <2>1. UNCHANGED <<files, appVars, inbox, held, settings>> /\ held.policy = {}
    BY <1>3 DEF SelectSource
  <2>2. PICK p \in PolicyRec : p = [policy EXCEPT
                                     !.source = IF @ = "global" THEN "project" ELSE "global"]
    BY <1>1 DEF PolicyRec
  <2>3. policy' = RefreshRulesList(p)
    BY <1>3, <2>2 DEF SelectSource
  <2>4. policy' \in PolicyRec
    BY <1>1, <2>1, <2>2, <2>3, PolicyTyped
  <2> QED BY <2>1, <2>4, WindowFacts, WindowStep
<1>4. CASE PolicyRead
  <2>1. /\ policy.dirty /\ held.policy = {} /\ Reads("policy", policy.source)
        /\ UNCHANGED <<files, appVars, inbox, settings, policy>>
    BY <1>4 DEF PolicyRead
  <2>2. files[policy.source].doc \in DocRec
    BY <1>1 DEF FileRec
  <2>3. /\ held' \in [Savers -> SUBSET DocRec] /\ held'.policy = {files[policy.source].doc}
        /\ held'.app = held.app /\ held'.models = held.models
    BY <2>1, <2>2, WindowFacts DEF Reads, Savers
  <2>4. \A t \in Savers : held'[t] = {} \/ \E doc \in DocRec : held'[t] = {doc}
    BY <2>2, <2>3, WindowFacts DEF Savers
  <2>5. policy.source = "global" => DocSafe(files[policy.source].doc)
    BY WindowFacts
  <2> QED BY <2>1, <2>3, <2>4, <2>5, WindowFacts, WindowStep
<1>5. CASE PolicyWrite
  <2>1. PICK doc \in held.policy : Writes(policy.source, [doc EXCEPT !.permissions = policy.rules])
    BY <1>5 DEF PolicyWrite
  <2>2. doc \in DocRec /\ policy.rules \in Texts /\ (policy.source = "global" => DocSafe(doc))
    BY <1>1, <2>1, WindowFacts DEF Savers, PolicyRec
  <2>3. PICK new \in DocRec : /\ new = [doc EXCEPT !.permissions = policy.rules]
                              /\ new.trusted = doc.trusted /\ new.providers = doc.providers
    BY ZenonT(60), <2>2, FieldReplaced
  <2>4. files' \in [{"global", "project"} -> FileRec] /\ DocSafe(files'.global.doc)
    BY <1>1, <2>1, <2>2, <2>3, FileWritten DEF DocSafe
  <2>5. /\ held' \in [Savers -> SUBSET DocRec] /\ held'.policy = {}
        /\ held'.app = held.app /\ held'.models = held.models
    BY <1>5, WindowFacts DEF PolicyWrite, Drops, Savers
  <2>6. \A t \in Savers : held'[t] = {} \/ \E d \in DocRec : held'[t] = {d}
    BY <2>5, WindowFacts DEF Savers
  <2>7. PICK m \in MsgRec : MsgSafe(m) /\ inbox' = Append(inbox, m)
    BY <1>5, MessageForms DEF PolicyWrite, Post
  <2>8. PICK p \in PolicyRec : p = [policy EXCEPT !.dirty = FALSE]
    BY <1>1 DEF PolicyRec
  <2>9. policy' = RefreshRulesList(ReloadPolicyDocs(p)) /\ UNCHANGED <<appVars, settings>>
    BY <1>5, <2>8 DEF PolicyWrite
  <2>10. PICK r \in PolicyRec : r = ReloadPolicyDocs(p)
    BY <2>4, PolicyTyped
  <2>11. policy' \in PolicyRec
    BY <2>4, <2>9, <2>10, PolicyTyped
  <2> QED BY <2>4, <2>5, <2>6, <2>7, <2>9, <2>11, WindowFacts, WindowStep
<1>6. ASSUME NEW rules \in Rules, EditRules(rules) PROVE DocInv'
  <2>1. rules \in Texts
    BY DocAssumption DEF Texts
  <2>2. policy' = [policy EXCEPT !.rules = rules, !.dirty = TRUE] /\ held.policy = {}
        /\ UNCHANGED <<files, appVars, inbox, held, settings>>
    BY <1>6 DEF EditRules
  <2>3. policy' \in PolicyRec
    BY <1>1, <2>1, <2>2 DEF PolicyRec
  <2> QED BY <2>2, <2>3, WindowFacts, WindowStep
<1> QED BY <1>2, <1>3, <1>4, <1>5, <1>6

LEMMA FileChangedKeeps ==
  ASSUME DocInv, NEW path \in {"global", "project"}, FileChanged(path) PROVE DocInv'
<1>1. UNCHANGED <<appVars, inbox, held, settings, policy>>
  BY DEF FileChanged
<1>2. files \in [{"global", "project"} -> FileRec] /\ DocSafe(files.global.doc)
      /\ files[path] \in FileRec /\ files[path].doc \in DocRec
  BY WindowFacts DEF FileRec
<1>3. files' \in [{"global", "project"} -> FileRec] /\ DocSafe(files'.global.doc)
  <2>1. ASSUME NEW build \in Builds,
               Writes(path, [files[path].doc EXCEPT !.build_command = build])
        PROVE  files' \in [{"global", "project"} -> FileRec] /\ DocSafe(files'.global.doc)
    <3>1. build \in Texts
      BY DocAssumption DEF Texts
    <3>2. PICK new \in DocRec : /\ new = [files[path].doc EXCEPT !.build_command = build]
                                /\ new.trusted = files[path].doc.trusted
                                /\ new.providers = files[path].doc.providers
      BY <1>2, <3>1, FieldReplaced
    <3> QED BY <1>2, <2>1, <3>2, FileWritten DEF DocSafe
  <2>2. CASE files' = [files EXCEPT ![path].ok = FALSE]
    <3>1. PICK file \in FileRec : file = [files[path] EXCEPT !.ok = FALSE]
                                 /\ file.doc = files[path].doc
      <4>1. PICK f \in FileRec : f = files[path]
        BY <1>2
      <4>2. [f EXCEPT !.ok = FALSE] \in FileRec
        BY DEF FileRec
      <4>3. [f EXCEPT !.ok = FALSE].doc = f.doc
        BY DEF FileRec
      <4> QED BY <4>1, <4>2, <4>3
    <3>2. files' = [files EXCEPT ![path] = file]
      BY <1>2, <2>2, <3>1
    <3> QED BY <1>2, <3>1, <3>2
  <2> QED BY <2>1, <2>2 DEF FileChanged
<1> QED BY <1>1, <1>3, WindowFacts, WindowStep

LEMMA NextDocs == DocInv /\ [DocNext]_docVars => DocInv'
<1> SUFFICES ASSUME DocInv, [DocNext]_docVars PROVE DocInv'
  OBVIOUS
<1>1. CASE AppTakes \/ AppReads \/ AppWrites \/ AppSyncs \/ MaybePromptProjectTrust
  BY <1>1, AppTakesKeeps, AppReadsKeeps, AppWritesKeeps, AppSyncsKeeps, PromptKeeps
<1>2. CASE \/ OpenSettings \/ PickModel \/ OpenProject
           \/ \E shown \in settings :
                \/ EditProviders(shown)
                \/ \E scalar \in {shown.scalar, "chosen"} : SaveSettings(shown, scalar)
  BY <1>2, SettingsSteps
<1>3. CASE ModelsRead \/ ModelsWrite
  BY <1>3, ModelsSteps
<1>4. CASE PolicyRefresh \/ SelectSource \/ PolicyRead \/ PolicyWrite
           \/ \E rules \in Rules : EditRules(rules)
  BY <1>4, PolicySteps
<1>5. CASE \E path \in {"global", "project"} : FileChanged(path)
  BY <1>5, FileChangedKeeps
<1>6. CASE UNCHANGED docVars
  BY <1>6, WindowFacts, WindowStep DEF docVars, appVars
<1> QED BY <1>1, <1>2, <1>3, <1>4, <1>5, <1>6 DEF DocNext

(***************************************************************************)
(* The theorems.                                                           *)
(***************************************************************************)
\* Every document, handler step and message on its way to the global file or into
\* the merged configuration carries only what the user trusted or wrote.
THEOREM DocumentsInvariant == DocSpec => []DocInv
BY InitDocs, NextDocs, PTL DEF DocSpec

\* A thread holds at most one document between its read and its write, be_app only
\* in a save, and the policy tab only over rules it has not saved.
THEOREM DocTypesHold == DocSpec => []DocTypeOK
<1>1. DocInv => DocTypeOK
  <2> SUFFICES ASSUME DocInv PROVE DocTypeOK
    OBVIOUS
  <2>1. \A path \in {"global", "project"} :
          files[path].ok \in BOOLEAN /\ DOMAIN files[path].doc = DOMAIN Blank
    BY DEF DocInv, TypeInv, FileRec, DocRec, Blank
  <2>2. DOMAIN held = Savers /\ \A t \in DOMAIN held : Cardinality(held[t]) <= 1
    <3>1. DOMAIN held = Savers
      BY DEF DocInv, TypeInv
    <3>2. \A t \in Savers : held[t] = {} \/ \E doc : held[t] = {doc}
      BY DEF DocInv, HeldInv
    <3> QED BY <3>1, <3>2, FS_EmptySet, FS_Singleton
  <2>3. Cardinality(settings) <= 1
    <3>1. CASE settings = {}
      BY <3>1, FS_EmptySet
    <3>2. CASE \E doc : settings = {doc}
      <4>1. PICK doc : settings = {doc}
        BY <3>2
      <4>2. Cardinality({doc}) = 1
        BY FS_Singleton
      <4> QED BY <4>1, <4>2
    <3> QED BY <3>1, <3>2 DEF DocInv, HeldInv
  <2>4. held.app # {} => todo # <<>> /\ Head(todo).do \in Saves
    BY StepsRest DEF DocInv, TypeInv, HeldInv
  <2>5. held.policy # {} => policy.dirty
    BY DEF DocInv, HeldInv
  <2> QED BY <2>1, <2>2, <2>3, <2>4, <2>5 DEF DocTypeOK
<1> QED BY <1>1, DocumentsInvariant, PTL

\* config.h:182-193: a gated value in force is one the user trusted, as it was
\* shown, whatever editors, windows and saves did to the files meanwhile; and the
\* providers in force are never the project's own.
THEOREM AuthorityAcceptedHolds == DocSpec => []AuthorityAccepted
<1>1. DocInv => AuthorityAccepted
  BY DEF DocInv, SafeInv
<1> QED BY <1>1, DocumentsInvariant, PTL

(***************************************************************************)
(* CodexAuth.  The store is written under g_auth_mu only, so what its      *)
(* holder took from it is still there; and a pair that has not been stored *)
(* yet is one that no request has ever carried.                            *)
(***************************************************************************)
AuthRec == [access: Nat, refresh: Nat, grant: Nat]
RequestRec == [phase: {"idle", "access", "force", "refreshing", "forcing", "storing",
                       "storing force", "send"},
               op: {"none", "stream", "catalog"}, auth: AuthRec, token: Nat,
               rejected: Nat, attempt: {0, 1}]

\* the ports a login may report: none, or the least of those it could bind
LeastPort(S) == CHOOSE p \in S : \A q \in S : p <= q
PortRange == {0} \cup {LeastPort(S) : S \in (SUBSET Ports) \ {{}}}
LoginRec == [phase: {"idle", "listening", "exchanging", "granted"}, port: PortRange,
             auth: AuthRec]

\* places of a thread at the endpoint, and at its save
Asking == {"refreshing", "forcing"}
Saving == {"storing", "storing force"}
Storing(c) == caller[c].phase \in Saving
Granted(l) == login[l].phase = "granted"

\* no request holds the access token t, and none was refused it
Unused(t) == \A c \in Callers : caller[c].token # t /\ caller[c].rejected # t

AuthTypeInv ==
  /\ minted \in 0..MintBound
  /\ live \in SUBSET (1..minted) /\ valid \in SUBSET (1..minted) /\ aged \in SUBSET (1..minted)
  /\ store \in AuthRec /\ grantee \in Nat /\ authMu \in Callers \cup {NoOne}
  /\ caller \in [Callers -> RequestRec]

LoginShape == login \in [Logins -> LoginRec]

LockInv == \A c \in Callers : authMu = c <=> caller[c].phase \in Asking \cup Saving

StoreInv ==
  /\ store.grant = grantee
  /\ store.access <= minted /\ store.refresh <= minted
  /\ (CanRefresh(store) /\ \A c \in Callers : ~Storing(c)) => store.refresh \in live \cup lost
  /\ refused = FALSE

\* a request holds what the store gave it, at its place
RequestInv(c) ==
  /\ caller[c].token <= minted /\ caller[c].rejected <= minted
  /\ caller[c].phase = "idle" => caller[c].attempt = 0
  /\ caller[c].phase \in Asking => caller[c].auth = store /\ CanRefresh(store)
  /\ Storing(c) => /\ caller[c].auth.grant = grantee /\ caller[c].auth.refresh \in live
                   /\ caller[c].auth.access \in 1..minted /\ Unused(caller[c].auth.access)
  /\ caller[c].attempt = 1 =>
       /\ caller[c].phase \in {"access", "refreshing", "storing"} =>
            store.access # caller[c].rejected
       /\ caller[c].phase = "send" => caller[c].token # caller[c].rejected

\* the pair of a sign-in not saved yet is nobody else's
LoginInv(l) == Granted(l) =>
  LET n == login[l].auth.access IN
  /\ n \in 1..minted
  /\ login[l].auth.refresh = 0 \/ (login[l].auth.refresh = n /\ n \in live)
  /\ n # store.access /\ n # store.refresh /\ Unused(n)
  /\ \A c \in Callers : Storing(c) => caller[c].auth.access # n /\ caller[c].auth.refresh # n
  /\ \A m \in Logins : Granted(m) /\ login[m].auth.access = n => m = l

AuthInv ==
  /\ AuthTypeInv /\ LoginShape /\ LockInv /\ StoreInv
  /\ \A c \in Callers : RequestInv(c)
  /\ \A l \in Logins : LoginInv(l)

LEMMA NothingHeld ==
  /\ NoAuth \in AuthRec /\ NoRequest \in RequestRec
  /\ NoLogin \in LoginRec /\ NoLogin.phase # "granted"
<1>1. NoAuth \in AuthRec /\ NoRequest \in RequestRec
  BY DEF NoAuth, NoRequest, AuthRec, RequestRec
<1>2. 0 \in PortRange
  BY DEF PortRange
<1> QED BY <1>1, <1>2 DEF NoLogin, LoginRec

LEMMA InitAuth == AuthInit => AuthInv
<1> SUFFICES ASSUME AuthInit PROVE AuthInv
  OBVIOUS
<1>1. AuthTypeInv /\ LoginShape
  <2>1. login \in [Logins -> LoginRec]
    BY NothingHeld DEF AuthInit
  <2>2. /\ live \in SUBSET (1..minted) /\ valid \in SUBSET (1..minted)
        /\ aged \in SUBSET (1..minted)
    BY DEF AuthInit
  <2>3. minted \in 0..MintBound
    BY CodexAuthAssumption DEF AuthInit
  <2> QED BY <2>1, <2>2, <2>3, NothingHeld DEF AuthInit, AuthTypeInv, LoginShape, NoAuth
<1>2. LockInv
  BY CodexAuthAssumption DEF AuthInit, LockInv, NoRequest, Asking, Saving
<1>3. StoreInv
  BY DEF AuthInit, StoreInv, NoAuth, CanRefresh
<1>4. ASSUME NEW c \in Callers PROVE RequestInv(c)
  <2>1. caller[c] = NoRequest /\ minted = 0
    BY DEF AuthInit
  <2>2. /\ NoRequest.token = 0 /\ NoRequest.rejected = 0 /\ NoRequest.attempt = 0
        /\ NoRequest.phase = "idle"
    BY DEF NoRequest
  <2> QED BY <2>1, <2>2 DEF RequestInv, Asking, Storing, Saving
<1>5. \A l \in Logins : LoginInv(l)
  BY DEF AuthInit, LoginInv, Granted, NoLogin
<1> QED BY <1>1, <1>2, <1>3, <1>4, <1>5 DEF AuthInv

(***************************************************************************)
(* A request that moves on without bringing new tokens.                    *)
(***************************************************************************)
LEMMA RequestStep ==
  ASSUME AuthInv, NEW c \in Callers, NEW r \in RequestRec, caller' = [caller EXCEPT ![c] = r],
         UNCHANGED <<store, login, grantee, refused, minted, live, valid, aged>>,
         lost \subseteq lost',
         r.phase \notin Saving,
         r.phase \in Asking => authMu = NoOne /\ authMu' = c /\ r.auth = store /\ CanRefresh(store),
         r.phase \notin Asking =>
            authMu' = IF caller[c].phase \in Asking \cup Saving THEN NoOne ELSE authMu,
         r.token \in {0, caller[c].token} \/ (r.token = store.access /\ authMu = NoOne),
         r.rejected \in {0, caller[c].rejected, caller[c].token},
         r.phase = "idle" => r.attempt = 0,
         (r.attempt = 1 /\ r.phase \in {"access", "refreshing"}) => store.access # r.rejected,
         (r.attempt = 1 /\ r.phase = "send") => r.token # r.rejected,
         Storing(c) => store.refresh \in live \cup lost'
  PROVE  AuthInv'
<1>0. /\ AuthTypeInv /\ LoginShape /\ LockInv /\ StoreInv
      /\ \A d \in Callers : RequestInv(d)
      /\ \A l \in Logins : LoginInv(l)
  BY DEF AuthInv
<1>1. /\ caller' \in [Callers -> RequestRec] /\ caller'[c] = r
      /\ \A d \in Callers \ {c} : caller'[d] = caller[d]
  BY <1>0 DEF AuthTypeInv
<1>2. AuthTypeInv' /\ LoginShape'
  <2>1. authMu' \in Callers \cup {NoOne}
    BY <1>0 DEF AuthTypeInv
  <2> QED BY <1>0, <1>1, <2>1 DEF AuthTypeInv, LoginShape
<1>3. LockInv'
  <2>1. NoOne \notin Callers
    BY CodexAuthAssumption
  <2> QED BY <1>0, <1>1, <2>1 DEF LockInv
<1>4. StoreInv'
  <2>1. ASSUME CanRefresh(store), \A d \in Callers : caller'[d].phase \notin Saving
        PROVE  store.refresh \in live \cup lost'
    BY <1>0, <1>1, <2>1 DEF StoreInv, Storing
  <2> QED BY <1>0, <2>1 DEF StoreInv, Storing, CanRefresh
<1>5. /\ minted \in Nat /\ store.access \in Nat /\ \A d \in Callers :
           /\ caller[d] \in RequestRec /\ caller[d].auth.access \in Nat
           /\ caller[d].token \in Nat /\ caller[d].rejected \in Nat
  <2>1. minted \in Nat /\ caller \in [Callers -> RequestRec] /\ store \in AuthRec
    BY <1>0, CodexAuthAssumption DEF AuthTypeInv
  <2> QED BY <2>1 DEF RequestRec, AuthRec
<1>6. ASSUME NEW d \in Callers PROVE RequestInv(d)'
  <2>1. CASE d = c
    <3>1. r.token <= minted /\ r.rejected <= minted
      BY <1>0, <1>5 DEF RequestInv, StoreInv
    <3>2. caller'[d] = r /\ ~Storing(d)'
      BY <1>1, <2>1 DEF Storing
    <3>3. r.attempt = 1 /\ r.phase = "storing" => FALSE
      BY DEF Saving
    <3> QED BY <3>1, <3>2, <3>3 DEF RequestInv
  <2>2. CASE d # c
    <3>1. ASSUME Storing(d) PROVE Unused(caller[d].auth.access)'
      <4>1. authMu # NoOne
        BY <1>0, <3>1, CodexAuthAssumption DEF LockInv, Storing
      <4>2. caller[d].auth.access \in Nat /\ caller[d].auth.access # 0
        BY <1>0, <1>5, <3>1 DEF RequestInv
      <4>3. Unused(caller[d].auth.access)
        BY <1>0, <3>1 DEF RequestInv
      <4>4. \A e \in Callers : /\ caller'[e].token # caller[d].auth.access
                               /\ caller'[e].rejected # caller[d].auth.access
        BY <1>1, <4>1, <4>2, <4>3 DEF Unused
      <4> QED BY <1>1, <2>2, <4>4 DEF Unused
    <3> QED BY <1>0, <1>1, <2>2, <3>1 DEF RequestInv, Storing
  <2> QED BY <2>1, <2>2
<1>7. ASSUME NEW l \in Logins PROVE LoginInv(l)'
  <2>1. ASSUME Granted(l) PROVE Unused(login[l].auth.access)'
    <3>1. login[l].auth.access \in Nat /\ login[l].auth.access # 0
      BY <1>0, <1>5, <2>1 DEF LoginInv
    <3>2. Unused(login[l].auth.access) /\ login[l].auth.access # store.access
      BY <1>0, <2>1 DEF LoginInv
    <3> QED BY <1>1, <3>1, <3>2 DEF Unused
  <2> QED BY <1>0, <1>1, <2>1 DEF LoginInv, Granted, Storing
<1> QED BY <1>2, <1>3, <1>4, <1>6, <1>7 DEF AuthInv

LEMMA AuthTypes ==
  ASSUME AuthInv
  PROVE  /\ minted \in Nat /\ minted + 1 \in Nat /\ store \in AuthRec
         /\ store.access \in Nat /\ store.refresh \in Nat /\ store.grant \in Nat
         /\ \A c \in Callers :
              /\ caller[c] \in RequestRec /\ caller[c].auth \in AuthRec
              /\ caller[c].auth.access \in Nat /\ caller[c].auth.refresh \in Nat
              /\ caller[c].auth.grant \in Nat /\ caller[c].token \in Nat
              /\ caller[c].rejected \in Nat /\ caller[c].attempt \in {0, 1}
         /\ \A l \in Logins :
              /\ login[l].auth \in AuthRec /\ login[l].auth.access \in Nat
              /\ login[l].auth.refresh \in Nat /\ login[l].auth.grant \in Nat
<1>1. AuthTypeInv /\ LoginShape
  BY DEF AuthInv
<1>2. minted \in Nat /\ caller \in [Callers -> RequestRec] /\ store \in AuthRec
  BY <1>1, CodexAuthAssumption DEF AuthTypeInv
<1>3. \A l \in Logins : login[l].auth \in AuthRec
  BY <1>1 DEF LoginShape, LoginRec
<1>4. \A a \in AuthRec : a.access \in Nat /\ a.refresh \in Nat /\ a.grant \in Nat
  BY DEF AuthRec
<1>5. \A c \in Callers :
        /\ caller[c] \in RequestRec /\ caller[c].auth \in AuthRec /\ caller[c].token \in Nat
        /\ caller[c].rejected \in Nat /\ caller[c].attempt \in {0, 1}
  BY <1>2 DEF RequestRec
<1>6. minted + 1 \in Nat
  BY <1>2
<1> QED BY <1>2, <1>3, <1>4, <1>5, <1>6

LEMMA OneHolder ==
  ASSUME AuthInv, NEW c \in Callers, caller[c].phase \in Asking \cup Saving,
         NEW d \in Callers, caller[d].phase \in Asking \cup Saving
  PROVE  c = d
  BY DEF AuthInv, LockInv

LEMMA NobodyHolds ==
  ASSUME AuthInv, authMu = NoOne, NEW d \in Callers
  PROVE  caller[d].phase \notin Asking \cup Saving
  BY CodexAuthAssumption DEF AuthInv, LockInv

\* a request is given up, or moves on to its own place
LEMMA LeavesStep ==
  ASSUME AuthInv, NEW c \in Callers, caller' = [caller EXCEPT ![c] = NoRequest],
         UNCHANGED <<store, login, grantee, refused, minted, live, valid, aged>>,
         lost \subseteq lost',
         authMu' = IF caller[c].phase \in Asking \cup Saving THEN NoOne ELSE authMu,
         Storing(c) => store.refresh \in live \cup lost'
  PROVE  AuthInv'
<1>1. /\ NoRequest.token = 0 /\ NoRequest.rejected = 0 /\ NoRequest.attempt = 0
      /\ NoRequest.phase = "idle"
  BY DEF NoRequest
<1> QED BY <1>1, NothingHeld, RequestStep DEF Asking, Saving

LEMMA RequestActions ==
  ASSUME AuthInv, NEW c \in Callers,
         StartsRequest(c) \/ Loads(c) \/ EndpointFails(c) \/ Sends(c) \/ Misses(c)
  PROVE  AuthInv'
<1>0. caller[c] \in RequestRec /\ caller[c].attempt \in {0, 1} /\ store \in AuthRec
  BY AuthTypes
<1>1. CASE StartsRequest(c)
  <2>1. caller[c].phase = "idle" /\ caller[c].attempt = 0
    BY <1>1 DEF StartsRequest, AuthInv, RequestInv
  <2>2. PICK r \in RequestRec :
          /\ r.phase = "access" /\ r.token = caller[c].token
          /\ r.rejected = caller[c].rejected /\ r.attempt = 0
          /\ caller' = [caller EXCEPT ![c] = r]
    <3>1. PICK op \in {"stream", "catalog"} :
            caller' = [caller EXCEPT ![c] = [caller[c] EXCEPT !.phase = "access", !.op = op]]
      BY <1>1 DEF StartsRequest
    <3>2. /\ [caller[c] EXCEPT !.phase = "access", !.op = op] \in RequestRec
          /\ [caller[c] EXCEPT !.phase = "access", !.op = op].attempt = 0
      BY <1>0, <2>1 DEF RequestRec
    <3> QED BY <1>0, <3>1, <3>2 DEF RequestRec
  <2>3. /\ UNCHANGED <<store, login, grantee, refused, minted, live, valid, aged>>
        /\ lost' = lost /\ authMu' = authMu
    BY <1>1 DEF StartsRequest, serverVars
  <2>4. caller[c].phase \notin Asking \cup Saving /\ ~Storing(c)
    BY <2>1 DEF Asking, Saving, Storing
  <2>5. /\ r.phase \notin Asking /\ r.phase \notin Saving /\ r.phase # "idle" /\ r.attempt # 1
        /\ r.token \in {0, caller[c].token}
        /\ r.rejected \in {0, caller[c].rejected, caller[c].token}
    BY <2>2 DEF Asking, Saving
  <2>6. lost \subseteq lost'
    BY <2>3
  <2>7. authMu' = IF caller[c].phase \in Asking \cup Saving THEN NoOne ELSE authMu
    BY <2>3, <2>4
  <2> QED BY <2>2, <2>3, <2>4, <2>5, <2>6, <2>7, RequestStep
<1>2. CASE Loads(c)
  <2>1. /\ UNCHANGED <<store, login, grantee, refused, minted, live, valid, aged>>
        /\ lost' = lost /\ caller[c].phase \in {"access", "force"} /\ authMu = NoOne
    BY <1>2 DEF Loads, serverVars, Enters
  <2>2. caller[c].phase \notin Asking \cup Saving /\ ~Storing(c)
    BY <2>1 DEF Asking, Saving, Storing
  <2>3. CASE caller' = [caller EXCEPT ![c] = NoRequest] /\ UNCHANGED authMu
    BY <2>1, <2>2, <2>3, LeavesStep
  <2>4. CASE /\ CanRefresh(store) /\ authMu' = c
             /\ caller' = [caller EXCEPT ![c] = [caller[c] EXCEPT
                  !.phase = IF caller[c].phase = "force" THEN "forcing" ELSE "refreshing",
                  !.auth = store]]
    <3> DEFINE r == [caller[c] EXCEPT
          !.phase = IF caller[c].phase = "force" THEN "forcing" ELSE "refreshing",
          !.auth = store]
    <3>1. /\ r \in RequestRec /\ r.token = caller[c].token /\ r.auth = store
          /\ r.rejected = caller[c].rejected /\ r.attempt = caller[c].attempt
          /\ r.phase = IF caller[c].phase = "force" THEN "forcing" ELSE "refreshing"
      BY <1>0 DEF RequestRec
    <3>2. caller' = [caller EXCEPT ![c] = r]
      BY <2>4, Zenon
    <3>3. (r.attempt = 1 /\ r.phase = "refreshing") => store.access # r.rejected
      BY <2>1, <3>1 DEF AuthInv, RequestInv
    <3> HIDE DEF r
    <3> QED BY <2>1, <2>2, <2>4, <3>1, <3>2, <3>3, RequestStep DEF Asking, Saving
  <2>5. CASE /\ ~MustRefresh(c) /\ authMu' = authMu
             /\ caller' = [caller EXCEPT ![c] = [@ EXCEPT !.phase = "send", !.token = store.access]]
    <3> DEFINE r == [caller[c] EXCEPT !.phase = "send", !.token = store.access]
    <3>1. /\ r \in RequestRec /\ r.token = store.access /\ r.phase = "send"
          /\ r.rejected = caller[c].rejected /\ r.attempt = caller[c].attempt
      BY <1>0 DEF RequestRec, AuthRec
    <3>2. caller' = [caller EXCEPT ![c] = r]
      BY <2>5
    <3>3. r.attempt = 1 => r.token # r.rejected
      <4>1. caller[c].phase = "access"
        BY <2>1, <2>5 DEF MustRefresh
      <4> QED BY <3>1, <4>1 DEF AuthInv, RequestInv
    <3> HIDE DEF r
    <3> QED BY <2>1, <2>2, <2>5, <3>1, <3>2, <3>3, RequestStep DEF Asking, Saving
  <2> QED BY <1>2, <2>3, <2>4, <2>5 DEF Loads, Holder
<1>3. CASE EndpointFails(c)
  <2>1. /\ UNCHANGED <<store, login, grantee, minted, live, valid, aged>> /\ lost' = lost
        /\ caller[c].phase \in Asking /\ authMu' = NoOne
        /\ caller' = [caller EXCEPT ![c] = NoRequest]
        /\ refused' = (refused \/ caller[c].auth.refresh \notin live \cup lost)
    BY <1>3 DEF EndpointFails, AtEndpoint, Leaves, serverVars, Asking
  <2>2. \A d \in Callers : ~Storing(d)
    BY <2>1, OneHolder DEF Storing, Asking, Saving
  <2>3. caller[c].auth.refresh \in live \cup lost /\ refused = FALSE
    BY <2>1, <2>2 DEF AuthInv, RequestInv, StoreInv
  <2>4. refused' = refused
    BY <2>1, <2>3
  <2> QED BY <2>1, <2>2, <2>4, LeavesStep
<1>4. CASE Sends(c)
  <2>1. /\ UNCHANGED <<store, login, grantee, refused, minted, live, valid, aged>>
        /\ lost' = lost /\ caller[c].phase = "send" /\ authMu' = authMu
    BY <1>4 DEF Sends, serverVars
  <2>2. caller[c].phase \notin Asking \cup Saving /\ ~Storing(c)
    BY <2>1 DEF Asking, Saving, Storing
  <2>3. CASE caller' = [caller EXCEPT ![c] = NoRequest]
    BY <2>1, <2>2, <2>3, LeavesStep
  <2>4. CASE caller' = [caller EXCEPT ![c] =
                 [@ EXCEPT !.phase = "force", !.rejected = caller[c].token, !.attempt = 1]]
    <3> DEFINE r == [caller[c] EXCEPT !.phase = "force", !.rejected = caller[c].token,
                                      !.attempt = 1]
    <3>1. /\ r \in RequestRec /\ r.token = caller[c].token /\ r.phase = "force"
          /\ r.rejected = caller[c].token
      BY <1>0 DEF RequestRec
    <3>2. caller' = [caller EXCEPT ![c] = r]
      BY <2>4
    <3> HIDE DEF r
    <3> QED BY <2>1, <2>2, <3>1, <3>2, RequestStep DEF Asking, Saving
  <2> QED BY <1>4, <2>3, <2>4 DEF Sends
<1>5. CASE Misses(c)
  <2>1. caller[c].phase \notin Asking \cup Saving /\ ~Storing(c)
    BY <1>5 DEF Misses, Asking, Saving, Storing
  <2> QED BY <1>5, <2>1, LeavesStep DEF Misses, serverVars
<1> QED BY <1>1, <1>2, <1>3, <1>4, <1>5

(***************************************************************************)
(* Steps that bring or store tokens.                                       *)
(***************************************************************************)
\* the endpoint's answer: c holds auth, with access token minted + 1
LEMMA AnswerStep ==
  ASSUME AuthInv, NEW c \in Callers, caller[c].phase \in Asking, NEW auth \in AuthRec,
         caller' = Answered(c, auth), auth.access = minted + 1, auth.grant = store.grant,
         auth.refresh \in {minted + 1, store.refresh}, auth.refresh \in live',
         live' \in SUBSET (1..(minted + 1)), live \subseteq live' \cup {store.refresh},
         minted < MintBound, minted' = minted + 1, valid' \in SUBSET (1..(minted + 1)),
         UNCHANGED <<store, login, authMu, grantee, refused, aged, lost>>
  PROVE  AuthInv'
<1>0. /\ AuthTypeInv /\ LoginShape /\ LockInv /\ StoreInv
      /\ \A d \in Callers : RequestInv(d)
      /\ \A l \in Logins : LoginInv(l)
  BY DEF AuthInv
<1> DEFINE r == [caller[c] EXCEPT
              !.phase = IF caller[c].phase = "forcing" THEN "storing force" ELSE "storing",
              !.auth = auth]
<1>1. /\ r \in RequestRec /\ r.phase \in Saving /\ r.auth = auth /\ r.token = caller[c].token
      /\ r.rejected = caller[c].rejected /\ r.attempt = caller[c].attempt
      /\ r.phase = "storing" => caller[c].phase = "refreshing"
  BY AuthTypes DEF RequestRec, Asking, Saving
<1>2. /\ caller' = [caller EXCEPT ![c] = r] /\ caller \in [Callers -> RequestRec]
  BY <1>0 DEF Answered, AuthTypeInv
<1> HIDE DEF r
<1>3. /\ caller' \in [Callers -> RequestRec] /\ caller'[c] = r
      /\ \A d \in Callers \ {c} : caller'[d] = caller[d]
  BY <1>1, <1>2
<1>4. AuthTypeInv' /\ LoginShape'
  <2>1. /\ minted \in Nat /\ MintBound \in Nat /\ aged \in SUBSET (1..minted)
    BY <1>0, CodexAuthAssumption DEF AuthTypeInv
  <2>2. minted' \in 0..MintBound /\ aged \in SUBSET (1..(minted + 1))
    BY <2>1
  <2> QED BY <1>0, <1>3, <2>2 DEF AuthTypeInv, LoginShape
<1>5. \A d \in Callers \ {c} : caller[d].phase \notin Asking \cup Saving
  BY OneHolder
<1>6. LockInv'
  BY <1>0, <1>1, <1>3 DEF LockInv
<1>7. StoreInv'
  <2>1. store.access <= minted' /\ store.refresh <= minted'
    BY <1>0, AuthTypes DEF StoreInv
  <2> QED BY <1>0, <1>1, <1>3, <2>1 DEF StoreInv, Storing
<1>8. ASSUME NEW d \in Callers PROVE RequestInv(d)'
  <2>1. caller[d].token < minted + 1 /\ caller[d].rejected < minted + 1
    BY <1>0, AuthTypes DEF RequestInv
  <2>2. CASE d = c
    <3>1. ASSUME NEW e \in Callers
          PROVE  caller'[e].token # minted + 1 /\ caller'[e].rejected # minted + 1
      <4>1. caller[e].token <= minted /\ caller[e].rejected <= minted
        BY <1>0 DEF RequestInv
      <4> QED BY <1>1, <1>3, <4>1, AuthTypes
    <3>2. caller'[d] = r /\ auth.access \in 1..minted'
      BY <1>3, <2>2, AuthTypes
    <3>3. r.auth.access = minted + 1
      BY <1>1
    <3>4. r.attempt = 1 /\ r.phase = "storing" => store.access # r.rejected
      BY <1>0, <1>1 DEF RequestInv
    <3>5. r.token <= minted' /\ r.rejected <= minted'
      BY <1>1, <2>1, <2>2, AuthTypes
    <3>6. r.phase \notin Asking /\ r.phase \notin {"idle", "access", "refreshing", "send"}
      BY <1>1 DEF Asking, Saving
    <3>7. auth.grant = grantee
      BY <1>0 DEF StoreInv
    <3> QED BY <1>1, <3>1, <3>2, <3>3, <3>4, <3>5, <3>6, <3>7 DEF RequestInv, Unused
  <2>3. CASE d # c
    <3>1. caller'[d] = caller[d] /\ ~Storing(d) /\ ~(caller[d].phase \in Asking)
      BY <1>3, <1>5, <2>3 DEF Storing
    <3>2. caller[d].token <= minted' /\ caller[d].rejected <= minted'
      BY <2>1, AuthTypes
    <3> QED BY <1>0, <3>1, <3>2 DEF RequestInv, Storing
  <2> QED BY <2>2, <2>3
<1>9. ASSUME NEW l \in Logins PROVE LoginInv(l)'
  <2>1. SUFFICES ASSUME Granted(l) PROVE LoginInv(l)'
    BY DEF LoginInv, Granted
  <2> DEFINE n == login[l].auth.access
  <2>2. /\ n \in 1..(minted + 1) /\ n # store.access /\ n # store.refresh
        /\ login[l].auth.refresh = 0 \/ (login[l].auth.refresh = n /\ n \in live')
        /\ Unused(n) /\ n \in Nat /\ n # minted + 1
        /\ \A m \in Logins : Granted(m) /\ login[m].auth.access = n => m = l
    <3>1. LoginInv(l) /\ live \in SUBSET (1..minted)
      BY <1>0 DEF AuthTypeInv
    <3> QED BY <2>1, <3>1, AuthTypes DEF LoginInv
  <2>3. \A e \in Callers : caller'[e].token # n /\ caller'[e].rejected # n
    BY <1>1, <1>3, <2>2 DEF Unused
  <2>4. ASSUME NEW e \in Callers, caller'[e].phase \in Saving
        PROVE  caller'[e].auth.access # n /\ caller'[e].auth.refresh # n
    <3>1. e = c
      BY <1>3, <1>5, <2>4
    <3> QED BY <1>1, <1>3, <2>2, <3>1
  <2> QED BY <2>1, <2>2, <2>3, <2>4 DEF LoginInv, Granted, Unused, Storing
<1> QED BY <1>4, <1>6, <1>7, <1>8, <1>9 DEF AuthInv

LEMMA EndpointActions ==
  ASSUME AuthInv, NEW c \in Callers, Rotated(c) \/ Renewed(c)
  PROVE  AuthInv'
<1>0. /\ AuthTypeInv /\ StoreInv /\ RequestInv(c) /\ minted \in Nat
      /\ \A l \in Logins : LoginInv(l)
  BY AuthTypes DEF AuthInv
<1>1. /\ caller[c].phase \in Asking /\ caller[c].auth = store /\ store.refresh \in live
      /\ minted < MintBound /\ minted' = minted + 1 /\ valid' = valid \cup {minted + 1}
      /\ UNCHANGED <<store, login, grantee, refused, aged>>
  BY <1>0 DEF Rotated, Renewed, AtEndpoint, Asking, RequestInv
<1>2. valid' \in SUBSET (1..(minted + 1)) /\ live \in SUBSET (1..(minted + 1))
      /\ minted + 1 \in 1..(minted + 1)
  <2>1. valid \in SUBSET (1..minted) /\ live \in SUBSET (1..minted)
    BY <1>0 DEF AuthTypeInv
  <2>2. minted \in Nat /\ valid' = valid \cup {minted + 1}
    BY <1>0, <1>1
  <2>3. 1..minted \subseteq 1..(minted + 1) /\ minted + 1 \in 1..(minted + 1)
    BY <2>2
  <2> QED BY <2>1, <2>2, <2>3
<1>3. \A d \in Callers : ~Storing(d)
  BY <1>1, OneHolder DEF Storing, Asking, Saving
<1>4. CASE /\ Rotated(c) /\ caller' = Answered(c, Mint(caller[c].auth.grant))
           /\ UNCHANGED <<authMu, lost>>
  <2> DEFINE auth == Mint(store.grant)
  <2>1. /\ auth \in AuthRec /\ auth.access = minted + 1 /\ auth.refresh = minted + 1
        /\ auth.grant = store.grant
    BY AuthTypes DEF Mint, AuthRec
  <2>2. live' = (live \ {store.refresh}) \cup {minted + 1}
    BY <1>1, <1>4 DEF Rotated
  <2>3. live' \in SUBSET (1..(minted + 1))
    BY <1>2, <2>2
  <2>4. caller' = Answered(c, auth)
    BY <1>1, <1>4
  <2> HIDE DEF auth
  <2> QED BY <1>1, <1>2, <1>4, <2>1, <2>2, <2>3, <2>4, AnswerStep
<1>5. CASE Rotated(c) /\ Leaves(c) /\ lost' = lost \cup {caller[c].auth.refresh}
  <2>1. live' = (live \ {store.refresh}) \cup {minted + 1} /\ live' \in SUBSET (1..(minted + 1))
    BY <1>1, <1>2, <1>5 DEF Rotated
  <2> DEFINE Lost == lost \cup {store.refresh}
  <2>2. /\ caller' \in [Callers -> RequestRec] /\ caller'[c] = NoRequest
        /\ \A d \in Callers \ {c} : caller'[d] = caller[d]
        /\ authMu' = NoOne
    BY <1>0, <1>5, NothingHeld DEF Leaves, AuthTypeInv
  <2>3. \A d \in Callers : caller'[d].phase \notin Asking \cup Saving
    <3>1. NoRequest.phase \notin Asking \cup Saving
      BY DEF NoRequest, Asking, Saving
    <3> QED BY <1>1, <2>2, <3>1, OneHolder
  <2>4. AuthTypeInv' /\ LoginShape'
    <3>1. minted' \in 0..MintBound /\ aged' \in SUBSET (1..minted')
      BY <1>0, <1>1, CodexAuthAssumption DEF AuthTypeInv
    <3> QED BY <1>0, <1>1, <1>2, <2>1, <2>2, <3>1 DEF AuthInv, AuthTypeInv, LoginShape
  <2>5. LockInv'
    BY <2>2, <2>3, CodexAuthAssumption DEF LockInv
  <2>6. StoreInv'
    <3>1. store.access <= minted' /\ store.refresh <= minted'
      BY <1>0, <1>1, AuthTypes DEF StoreInv
    <3>2. store.refresh \in lost'
      BY <1>1, <1>5
    <3> QED BY <1>0, <1>1, <3>1, <3>2 DEF StoreInv
  <2>7. /\ NoRequest.token = 0 /\ NoRequest.rejected = 0 /\ NoRequest.attempt = 0
    BY DEF NoRequest
  <2>8. ASSUME NEW d \in Callers PROVE RequestInv(d)'
    <3>1. caller'[d].token <= minted' /\ caller'[d].rejected <= minted'
      <4>1. caller[d].token <= minted /\ caller[d].rejected <= minted
        BY DEF AuthInv, RequestInv
      <4> QED BY <1>1, <2>2, <2>7, <4>1, AuthTypes
    <3>2. caller'[d].phase \notin Asking /\ ~Storing(d)'
      BY <2>3 DEF Storing
    <3>3. CASE d = c
      BY <2>2, <2>7, <3>1, <3>2, <3>3 DEF RequestInv
    <3>4. CASE d # c
      <4>1. RequestInv(d) /\ caller'[d] = caller[d]
        BY <2>2, <3>4 DEF AuthInv
      <4> QED BY <1>1, <3>1, <3>2, <4>1 DEF RequestInv
    <3> QED BY <3>3, <3>4
  <2>9. ASSUME NEW l \in Logins PROVE LoginInv(l)'
    <3>1. LoginInv(l) /\ login' = login /\ store' = store
      BY <1>0, <1>1
    <3>2. ASSUME Granted(l)
          PROVE  /\ login[l].auth.access \in 1..minted' /\ login[l].auth.access # 0
                 /\ login[l].auth.refresh = login[l].auth.access => login[l].auth.refresh \in live'
      <4>1. login[l].auth.access \in 1..minted /\ login[l].auth.access # store.refresh
        BY <3>1, <3>2 DEF LoginInv
      <4>2. login[l].auth.refresh = login[l].auth.access => login[l].auth.refresh \in live
        BY <3>1, <3>2, <4>1 DEF LoginInv
      <4> QED BY <1>0, <1>1, <2>1, <4>1, <4>2
    <3>3. \A e \in Callers : caller'[e].phase \notin Saving
      BY <2>3
    <3> QED BY <2>2, <2>7, <3>1, <3>2, <3>3 DEF LoginInv, Granted, Unused, Storing
  <2> QED BY <2>4, <2>5, <2>6, <2>8, <2>9 DEF AuthInv
<1>6. CASE Renewed(c)
  <2> DEFINE auth == [store EXCEPT !.access = minted + 1]
  <2>1. /\ auth \in AuthRec /\ auth.access = minted + 1 /\ auth.refresh = store.refresh
        /\ auth.grant = store.grant
    BY AuthTypes DEF AuthRec
  <2>2. caller' = Answered(c, auth) /\ UNCHANGED <<live, authMu, lost>>
    BY <1>1, <1>6 DEF Renewed
  <2> HIDE DEF auth
  <2> QED BY <1>1, <1>2, <2>1, <2>2, AnswerStep
<1> QED BY <1>4, <1>5, <1>6 DEF Rotated

\* the successor is saved
LEMMA SaveStep ==
  ASSUME AuthInv, NEW c \in Callers, Storing(c), NEW r \in RequestRec,
         caller' = [caller EXCEPT ![c] = r], store' = caller[c].auth,
         r.rejected = caller[c].rejected, r.attempt = caller[c].attempt,
         \/ r.phase = "send" /\ r.token = caller[c].auth.access
         \/ r.phase = "access" /\ r.token = caller[c].token,
         authMu' = NoOne,
         UNCHANGED <<login, live, valid, aged, minted, grantee, lost, refused>>
  PROVE  AuthInv'
<1>0. /\ AuthTypeInv /\ LoginShape /\ LockInv /\ StoreInv
      /\ \A d \in Callers : RequestInv(d)
      /\ \A l \in Logins : LoginInv(l)
  BY DEF AuthInv
<1>1. /\ caller' \in [Callers -> RequestRec] /\ caller'[c] = r
      /\ \A d \in Callers \ {c} : caller'[d] = caller[d]
  BY <1>0 DEF AuthTypeInv
<1>2. r.phase \notin Asking \cup Saving
  BY DEF Asking, Saving
<1>3. \A d \in Callers : caller'[d].phase \notin Asking \cup Saving
  BY <1>1, <1>2, OneHolder DEF Storing
<1>4. /\ store' \in AuthRec /\ store'.grant = grantee /\ store'.refresh \in live
      /\ store'.access <= minted /\ store'.refresh <= minted /\ Unused(store'.access)
  <2>1. RequestInv(c) /\ live \in SUBSET (1..minted)
    BY <1>0 DEF AuthTypeInv
  <2> QED BY <2>1, AuthTypes DEF RequestInv
<1>5. AuthTypeInv' /\ LoginShape'
  BY <1>0, <1>1, <1>4 DEF AuthTypeInv, LoginShape
<1>6. LockInv'
  BY <1>3, CodexAuthAssumption DEF LockInv
<1>7. StoreInv'
  BY <1>0, <1>4 DEF StoreInv
<1>8. ASSUME NEW d \in Callers PROVE RequestInv(d)'
  <2>1. RequestInv(d) /\ RequestInv(c)
    BY <1>0
  <2>2. caller'[d].phase \notin Asking /\ ~Storing(d)'
    BY <1>3 DEF Storing
  <2>3. store'.access # caller[d].rejected /\ store'.access # caller[c].rejected
    BY <1>4 DEF Unused
  <2>4. CASE d = c
    <3>1. r.token <= minted /\ r.rejected <= minted
      BY <1>4, <2>1 DEF RequestInv
    <3> QED BY <1>1, <2>2, <2>3, <2>4, <3>1 DEF RequestInv
  <2>5. CASE d # c
    BY <1>1, <2>1, <2>2, <2>3, <2>5 DEF RequestInv
  <2> QED BY <2>4, <2>5
<1>9. ASSUME NEW l \in Logins PROVE LoginInv(l)'
  <2>1. LoginInv(l) /\ login' = login
    BY <1>0
  <2>2. \A e \in Callers : caller'[e].phase \notin Saving
    BY <1>3
  <2> QED BY <1>1, <2>1, <2>2 DEF LoginInv, Granted, Unused, Storing
<1> QED BY <1>5, <1>6, <1>7, <1>8, <1>9 DEF AuthInv

LEMMA StoreActions == ASSUME AuthInv, NEW c \in Callers, Stores(c) PROVE AuthInv'
<1>0. /\ AuthTypeInv /\ StoreInv /\ RequestInv(c) /\ caller[c] \in RequestRec
  BY AuthTypes DEF AuthInv
<1>1. /\ Storing(c) /\ authMu' = NoOne
      /\ UNCHANGED <<login, live, valid, aged, minted, grantee, refused>>
  BY DEF Stores, Storing, Saving, serverVars
<1>2. CASE /\ store' = caller[c].auth /\ UNCHANGED lost
           /\ caller' = [caller EXCEPT ![c] =
                IF @.phase = "storing"
                THEN [@ EXCEPT !.phase = "send", !.token = caller[c].auth.access, !.auth = NoAuth]
                ELSE [@ EXCEPT !.phase = "access", !.auth = NoAuth]]
  <2>1. PICK r \in RequestRec :
          /\ caller' = [caller EXCEPT ![c] = r]
          /\ r.rejected = caller[c].rejected /\ r.attempt = caller[c].attempt
          /\ \/ r.phase = "send" /\ r.token = caller[c].auth.access
             \/ r.phase = "access" /\ r.token = caller[c].token
    <3>1. CASE caller[c].phase = "storing"
      <4> DEFINE r == [caller[c] EXCEPT !.phase = "send", !.token = caller[c].auth.access,
                                        !.auth = NoAuth]
      <4>1. /\ r \in RequestRec /\ r.rejected = caller[c].rejected /\ r.phase = "send"
            /\ r.token = caller[c].auth.access /\ r.attempt = caller[c].attempt
        BY <1>0, NothingHeld DEF RequestRec, AuthRec
      <4>2. caller' = [caller EXCEPT ![c] = r]
        BY <1>2, <3>1
      <4> HIDE DEF r
      <4> QED BY <4>1, <4>2
    <3>2. CASE caller[c].phase # "storing"
      <4> DEFINE r == [caller[c] EXCEPT !.phase = "access", !.auth = NoAuth]
      <4>1. /\ r \in RequestRec /\ r.rejected = caller[c].rejected /\ r.phase = "access"
            /\ r.token = caller[c].token /\ r.attempt = caller[c].attempt
        BY <1>0, NothingHeld DEF RequestRec
      <4>2. caller' = [caller EXCEPT ![c] = r]
        BY <1>2, <3>2
      <4> HIDE DEF r
      <4> QED BY <4>1, <4>2
    <3> QED BY <3>1, <3>2
  <2> QED BY <1>1, <1>2, <2>1, SaveStep
<1>3. CASE /\ lost' = IF store.refresh = caller[c].auth.refresh THEN lost
                      ELSE lost \cup {store.refresh}
           /\ caller' = [caller EXCEPT ![c] = NoRequest] /\ UNCHANGED store
  <2>1. store.refresh \in live \cup lost' /\ lost \subseteq lost'
    BY <1>0, <1>1, <1>3 DEF RequestInv
  <2>2. caller[c].phase \in Asking \cup Saving
    BY <1>1 DEF Storing
  <2> QED BY <1>1, <1>3, <2>1, <2>2, LeavesStep
<1> QED BY <1>2, <1>3 DEF Stores

(***************************************************************************)
(* The browser logins.                                                     *)
(***************************************************************************)
\* a login that holds no pair of tokens (yet, or any more)
LEMMA LoginMoves ==
  ASSUME AuthInv, NEW l \in Logins, NEW r, login' = [login EXCEPT ![l] = r],
         r \in LoginRec, r.phase # "granted",
         UNCHANGED <<store, authMu, caller, live, valid, aged, minted, grantee, lost, refused>>
  PROVE  AuthInv'
<1>0. /\ AuthTypeInv /\ LoginShape /\ LockInv /\ StoreInv
      /\ \A d \in Callers : RequestInv(d)
      /\ \A m \in Logins : LoginInv(m)
  BY DEF AuthInv
<1>1. login \in [Logins -> LoginRec]
  BY <1>0 DEF LoginShape
<1>2. login'[l] = r /\ \A m \in Logins \ {l} : login'[m] = login[m]
  BY <1>1
<1>3. LoginShape'
  BY <1>1 DEF LoginShape
<1>4. AuthTypeInv' /\ LockInv' /\ StoreInv'
  BY <1>0 DEF AuthTypeInv, LockInv, StoreInv, Storing
<1>5. \A d \in Callers : RequestInv(d)'
  BY <1>0 DEF RequestInv, Storing, Unused
<1>6. ASSUME NEW m \in Logins PROVE LoginInv(m)'
  BY <1>0, <1>2 DEF LoginInv, Granted, Unused, Storing
<1> QED BY <1>3, <1>4, <1>5, <1>6 DEF AuthInv

LEMMA LoginRecord ==
  ASSUME AuthInv, NEW l \in Logins
  PROVE  login[l] \in LoginRec /\ login \in [Logins -> LoginRec]
  BY DEF AuthInv, LoginShape

LEMMA ListenActions ==
  ASSUME AuthInv, NEW l \in Logins, Listens(l) \/ HearsCallback(l)
  PROVE  AuthInv'
<1>0. UNCHANGED <<store, authMu, caller, live, valid, aged, minted, grantee, lost, refused>>
  BY DEF Listens, HearsCallback, serverVars
<1>1. CASE login' = [login EXCEPT ![l] = NoLogin]
  BY <1>0, <1>1, NothingHeld, LoginMoves
<1>2. ASSUME NEW p \in PortRange, NEW place \in {"listening", "exchanging"},
             login' = [login EXCEPT ![l] = [@ EXCEPT !.phase = place, !.port = p]]
      PROVE  AuthInv'
  <2> DEFINE r == [login[l] EXCEPT !.phase = place, !.port = p]
  <2>1. r \in LoginRec /\ r.phase # "granted"
    BY LoginRecord DEF LoginRec
  <2>2. login' = [login EXCEPT ![l] = r]
    BY <1>2
  <2> HIDE DEF r
  <2> QED BY <1>0, <2>1, <2>2, LoginMoves
<1>3. CASE Listens(l)
  <2>1. PICK free \in SUBSET (Ports \ {login[m].port : m \in Listening}) :
          login' = [login EXCEPT ![l] =
            IF free = {} THEN NoLogin
            ELSE [@ EXCEPT !.phase = "listening",
                           !.port = CHOOSE p \in free : \A q \in free : p <= q]]
    BY <1>3 DEF Listens
  <2>2. CASE free = {}
    BY <1>1, <2>1, <2>2
  <2>3. CASE free # {}
    <3>1. LeastPort(free) \in PortRange
      BY <2>3 DEF PortRange
    <3>2. login' = [login EXCEPT ![l] = [@ EXCEPT !.phase = "listening",
                                                  !.port = LeastPort(free)]]
      BY <2>1, <2>3, Zenon DEF LeastPort
    <3> QED BY <1>2, <3>1, <3>2
  <2> QED BY <2>2, <2>3
<1>4. CASE HearsCallback(l)
  <2>1. login[l].phase = "listening"
    BY <1>4 DEF HearsCallback, Listening
  <2>2. PICK req \in {"other", "stale", "error", "no code", "timeout", "code"} :
          login' = [login EXCEPT ![l] =
            CASE req \in {"other", "stale"} -> @
              [] req \in {"error", "no code", "timeout"} -> NoLogin
              [] req = "code" -> [@ EXCEPT !.phase = "exchanging", !.port = 0]]
    BY <1>4 DEF HearsCallback
  <2>3. CASE req \in {"other", "stale"}
    <3>1. login' = [login EXCEPT ![l] = login[l]]
      BY <2>2, <2>3
    <3>2. login[l].phase # "granted"
      BY <2>1
    <3> QED BY <1>0, <3>1, <3>2, LoginRecord, LoginMoves
  <2>4. CASE req \in {"error", "no code", "timeout"}
    BY <1>1, <2>2, <2>4
  <2>5. CASE req = "code"
    <3>1. login' = [login EXCEPT ![l] = [@ EXCEPT !.phase = "exchanging", !.port = 0]]
      BY <2>2, <2>5
    <3>2. 0 \in PortRange
      BY DEF PortRange
    <3> QED BY <1>2, <3>1, <3>2
  <2> QED BY <2>3, <2>4, <2>5
<1> QED BY <1>3, <1>4

LEMMA ExchangeActions == ASSUME AuthInv, NEW l \in Logins, Exchanges(l) PROVE AuthInv'
<1>0. /\ AuthTypeInv /\ LoginShape /\ LockInv /\ StoreInv
      /\ \A d \in Callers : RequestInv(d)
      /\ \A m \in Logins : LoginInv(m)
  BY DEF AuthInv
<1>1. /\ UNCHANGED <<store, authMu, caller, grantee, lost, refused>> /\ minted < MintBound
  BY DEF Exchanges
<1>2. CASE login' = [login EXCEPT ![l] = NoLogin] /\ UNCHANGED serverVars
  BY <1>1, <1>2, NothingHeld, LoginMoves DEF serverVars
<1>3. ASSUME NEW first \in {Mint(minted + 1), [Mint(minted + 1) EXCEPT !.refresh = 0]},
             login' = [login EXCEPT ![l] = [@ EXCEPT !.phase = "granted", !.auth = first]],
             live' = live \cup ({first.refresh} \ {0}),
             minted' = minted + 1, valid' = valid \cup {minted + 1}, UNCHANGED aged
      PROVE  AuthInv'
  <2> DEFINE r == [login[l] EXCEPT !.phase = "granted", !.auth = first]
  <2>1. /\ first \in AuthRec /\ first.access = minted + 1 /\ first.grant = minted + 1
        /\ first.refresh = 0 \/ (first.refresh = minted + 1 /\ minted + 1 \in live')
    BY <1>3, AuthTypes DEF Mint, AuthRec
  <2>a. live' \in {live, live \cup {minted + 1}}
    BY <1>3, <2>1
  <2>2. r \in LoginRec /\ r.auth = first /\ r.phase = "granted"
    BY <2>1, LoginRecord DEF LoginRec
  <2>3. login' = [login EXCEPT ![l] = r] /\ login \in [Logins -> LoginRec]
    BY <1>3, LoginRecord
  <2> HIDE DEF r
  <2>4. login'[l] = r /\ \A m \in Logins \ {l} : login'[m] = login[m]
    BY <2>3
  <2>5. LoginShape'
    BY <2>2, <2>3 DEF LoginShape
  <2>6. AuthTypeInv'
    <3>1. /\ live' \in SUBSET (1..minted') /\ valid' \in SUBSET (1..minted')
          /\ aged' \in SUBSET (1..minted') /\ minted' \in 0..MintBound
      <4>1. /\ live \in SUBSET (1..minted) /\ valid \in SUBSET (1..minted)
            /\ aged \in SUBSET (1..minted) /\ minted \in 0..MintBound
        BY <1>0 DEF AuthTypeInv
      <4> QED BY <1>1, <1>3, <2>a, <4>1, AuthTypes, CodexAuthAssumption
    <3> QED BY <1>0, <1>1, <3>1 DEF AuthTypeInv
  <2>7. LockInv' /\ StoreInv'
    <3>1. store.access <= minted' /\ store.refresh <= minted'
      BY <1>0, <1>3, AuthTypes DEF StoreInv
    <3> QED BY <1>0, <1>1, <1>3, <2>a, <3>1 DEF LockInv, StoreInv, Storing
  <2>8. ASSUME NEW d \in Callers PROVE RequestInv(d)'
    <3>1. caller[d].token <= minted' /\ caller[d].rejected <= minted'
      BY <1>0, <1>3, AuthTypes DEF RequestInv
    <3>2. Storing(d) => caller[d].auth.access \in 1..minted' /\ caller[d].auth.refresh \in live'
      BY <1>0, <1>3, <2>a, AuthTypes DEF RequestInv
    <3> QED BY <1>0, <1>1, <3>1, <3>2 DEF RequestInv, Storing, Unused
  <2>9. ASSUME NEW m \in Logins, Granted(m) PROVE login[m].auth.access # minted + 1
    <3>1. login[m].auth.access \in 1..minted
      BY <1>0, <2>9 DEF LoginInv
    <3> QED BY <3>1, AuthTypes
  <2>10. ASSUME NEW m \in Logins PROVE LoginInv(m)'
    <3>1. CASE m = l
      <4>1. \A e \in Callers : caller[e].token # minted + 1 /\ caller[e].rejected # minted + 1
        <5>1. \A e \in Callers : caller[e].token <= minted /\ caller[e].rejected <= minted
          BY <1>0 DEF RequestInv
        <5> QED BY <5>1, AuthTypes
      <4>2. ASSUME NEW e \in Callers, Storing(e)
            PROVE  caller[e].auth.access # minted + 1 /\ caller[e].auth.refresh # minted + 1
        <5>1. caller[e].auth.access \in 1..minted /\ caller[e].auth.refresh \in 1..minted
          BY <1>0, <4>2 DEF RequestInv, AuthTypeInv
        <5> QED BY <5>1, AuthTypes
      <4>3. store.access # minted + 1 /\ store.refresh # minted + 1
        BY <1>0, AuthTypes DEF StoreInv
      <4>4. /\ login'[m].auth.access = minted + 1 /\ minted + 1 \in 1..minted'
            /\ \/ login'[m].auth.refresh = 0
               \/ login'[m].auth.refresh = minted + 1 /\ minted + 1 \in live'
        BY <1>3, <2>1, <2>2, <2>4, <3>1, AuthTypes
      <4>5. \A k \in Logins :
              login'[k].phase = "granted" /\ login'[k].auth.access = minted + 1 => k = m
        BY <2>4, <2>9, <3>1 DEF Granted
      <4> QED BY <1>1, <4>1, <4>2, <4>3, <4>4, <4>5 DEF LoginInv, Granted, Unused, Storing
    <3>2. CASE m # l
      <4>1. login'[m] = login[m] /\ LoginInv(m)
        BY <1>0, <2>4, <3>2
      <4>2. login'[l].auth.access = minted + 1
        BY <2>1, <2>2, <2>4
      <4>3. Granted(m) => \A k \in Logins :
              login'[k].phase = "granted" /\ login'[k].auth.access = login[m].auth.access => k = m
        BY <2>4, <2>9, <4>1, <4>2 DEF LoginInv, Granted
      <4>4. live \subseteq live' /\ 1..minted \subseteq 1..minted'
        BY <1>3, <2>a, AuthTypes
      <4> QED BY <1>1, <4>1, <4>3, <4>4 DEF LoginInv, Granted, Unused, Storing
    <3> QED BY <3>1, <3>2
  <2> QED BY <2>5, <2>6, <2>7, <2>8, <2>10 DEF AuthInv
<1> QED BY <1>2, <1>3 DEF Exchanges

LEMMA LoginSaved == ASSUME AuthInv, NEW l \in Logins, StoresLogin(l) PROVE AuthInv'
<1>0. /\ AuthTypeInv /\ LoginShape /\ LockInv /\ StoreInv
      /\ \A d \in Callers : RequestInv(d)
      /\ \A m \in Logins : LoginInv(m)
  BY DEF AuthInv
<1>1. /\ UNCHANGED <<authMu, caller, live, valid, aged, minted, lost, refused>>
      /\ login' = [login EXCEPT ![l] = NoLogin] /\ Granted(l) /\ authMu = NoOne
  BY DEF StoresLogin, serverVars, Granted, Enters
<1>2. CASE UNCHANGED <<store, grantee>>
  BY <1>1, <1>2, NothingHeld, LoginMoves
<1>3. CASE store' = login[l].auth /\ grantee' = login[l].auth.grant
  <2>1. login'[l] = NoLogin /\ \A m \in Logins \ {l} : login'[m] = login[m]
    BY <1>1, LoginRecord
  <2>2. /\ store' \in AuthRec /\ grantee' \in Nat /\ store'.grant = grantee'
        /\ store'.access \in 1..minted /\ store'.access <= minted /\ store'.refresh <= minted
        /\ store'.refresh = 0 \/ (store'.refresh = store'.access /\ store'.refresh \in live)
        /\ Unused(store'.access)
    <3>1. LoginInv(l) /\ live \in SUBSET (1..minted)
      BY <1>0 DEF AuthTypeInv
    <3> QED BY <1>1, <1>3, <3>1, AuthTypes DEF LoginInv
  <2>3. LoginShape' /\ AuthTypeInv' /\ LockInv'
    <3>1. LoginShape'
      BY <1>0, <1>1, <2>1, NothingHeld DEF LoginShape
    <3> QED BY <1>0, <1>1, <2>2, <3>1 DEF AuthTypeInv, LockInv
  <2>4. StoreInv'
    BY <1>0, <1>1, <2>2 DEF StoreInv, CanRefresh
  <2>5. ASSUME NEW d \in Callers PROVE RequestInv(d)'
    <3>1. caller[d].phase \notin Asking \cup Saving /\ RequestInv(d)
      BY <1>0, <1>1, NobodyHolds
    <3> QED BY <1>1, <2>2, <3>1 DEF RequestInv, Storing, Unused
  <2>6. ASSUME NEW m \in Logins PROVE LoginInv(m)'
    <3>1. CASE m = l
      BY <2>1, <3>1, NothingHeld DEF LoginInv, Granted
    <3>2. CASE m # l
      <4>1. login'[m] = login[m] /\ LoginInv(m) /\ LoginInv(l)
        BY <1>0, <2>1, <3>2
      <4>2. Granted(m) => /\ login[m].auth.access # store'.access
                          /\ login[m].auth.access # store'.refresh
        BY <1>1, <1>3, <2>2, <3>2, <4>1 DEF LoginInv
      <4> QED BY <1>1, <2>1, <2>2, <4>1, <4>2, NothingHeld DEF LoginInv, Granted, Unused, Storing
    <3> QED BY <3>1, <3>2
  <2> QED BY <2>3, <2>4, <2>5, <2>6 DEF AuthInv
<1> QED BY <1>2, <1>3 DEF StoresLogin

(***************************************************************************)
(* Time, the server and the end of the process.                            *)
(***************************************************************************)
LEMMA ServerMoves ==
  ASSUME AuthInv, valid' \in SUBSET valid, aged' \in SUBSET (aged \cup valid),
         UNCHANGED <<store, authMu, caller, login, live, minted, grantee, lost, refused>>
  PROVE  AuthInv'
<1>0. /\ AuthTypeInv /\ LoginShape /\ LockInv /\ StoreInv
      /\ \A d \in Callers : RequestInv(d)
      /\ \A m \in Logins : LoginInv(m)
  BY DEF AuthInv
<1>1. valid' \in SUBSET (1..minted) /\ aged' \in SUBSET (1..minted)
  BY <1>0 DEF AuthTypeInv
<1>2. AuthTypeInv' /\ LoginShape' /\ LockInv' /\ StoreInv'
  BY <1>0, <1>1 DEF AuthTypeInv, LoginShape, LockInv, StoreInv, Storing
<1>3. \A d \in Callers : RequestInv(d)'
  BY <1>0 DEF RequestInv, Storing, Unused
<1>4. \A m \in Logins : LoginInv(m)'
  BY <1>0 DEF LoginInv, Granted, Unused, Storing
<1> QED BY <1>2, <1>3, <1>4 DEF AuthInv

LEMMA KilledKeeps == ASSUME AuthInv, Killed PROVE AuthInv'
<1>0. /\ AuthTypeInv /\ LoginShape /\ LockInv /\ StoreInv
      /\ \A d \in Callers : RequestInv(d)
  BY DEF AuthInv
<1>1. /\ caller' = [c \in Callers |-> NoRequest] /\ login' = [l \in Logins |-> NoLogin]
      /\ authMu' = NoOne
      /\ UNCHANGED <<store, live, valid, aged, minted, grantee, refused>>
      /\ lost' = lost \cup {store.refresh : c \in {d \in Callers :
                   caller[d].phase \in Saving /\ caller[d].auth.refresh # store.refresh}}
  BY DEF Killed, serverVars, Saving
<1>2. /\ NoRequest.token = 0 /\ NoRequest.rejected = 0 /\ NoRequest.attempt = 0
      /\ NoRequest.phase = "idle"
  BY DEF NoRequest
<1>3. AuthTypeInv' /\ LoginShape' /\ LockInv'
  <2>1. \A d \in Callers : caller'[d].phase \notin Asking \cup Saving
    BY <1>1, <1>2 DEF Asking, Saving
  <2>2. LockInv'
    BY <1>1, <2>1, CodexAuthAssumption DEF LockInv
  <2> QED BY <1>0, <1>1, <2>2, NothingHeld DEF AuthTypeInv, LoginShape
<1>4. StoreInv'
  <2>1. ASSUME CanRefresh(store) PROVE store.refresh \in live \cup lost'
    <3>1. CASE \E d \in Callers : Storing(d)
      <4>1. PICK d \in Callers : Storing(d)
        BY <3>1
      <4>2. caller[d].auth.refresh \in live
        BY <1>0, <4>1 DEF RequestInv
      <4> QED BY <1>1, <4>1, <4>2 DEF Storing
    <3>2. CASE \A d \in Callers : ~Storing(d)
      BY <1>0, <1>1, <2>1, <3>2 DEF StoreInv
    <3> QED BY <3>1, <3>2
  <2> QED BY <1>0, <1>1, <2>1 DEF StoreInv
<1>5. \A d \in Callers : RequestInv(d)'
  <2>1. 0 <= minted
    BY AuthTypes
  <2> QED BY <1>1, <1>2, <2>1 DEF RequestInv, Storing, Asking, Saving
<1>6. \A m \in Logins : LoginInv(m)'
  BY <1>1, NothingHeld DEF LoginInv, Granted
<1> QED BY <1>3, <1>4, <1>5, <1>6 DEF AuthInv

LEMMA NextAuth == AuthInv /\ [AuthNext]_authVars => AuthInv'
<1> SUFFICES ASSUME AuthInv, [AuthNext]_authVars PROVE AuthInv'
  OBVIOUS
<1>1. ASSUME NEW l \in Logins,
             Listens(l) \/ HearsCallback(l) \/ Exchanges(l) \/ StoresLogin(l)
      PROVE  AuthInv'
  BY <1>1, ListenActions, ExchangeActions, LoginSaved
<1>2. ASSUME NEW c \in Callers,
             \/ StartsRequest(c) \/ Loads(c) \/ Rotated(c) \/ Renewed(c)
             \/ EndpointFails(c) \/ Stores(c) \/ Sends(c) \/ Misses(c)
      PROVE  AuthInv'
  BY <1>2, RequestActions, EndpointActions, StoreActions
<1>3. CASE Ages
  <2>1. /\ aged' \in SUBSET (aged \cup valid) /\ valid' = valid
        /\ UNCHANGED <<store, authMu, caller, login, live, minted, grantee, lost, refused>>
    BY <1>3 DEF Ages
  <2> QED BY <2>1, ServerMoves
<1>4. CASE Revoked
  <2>1. /\ aged' = aged /\ valid' \in SUBSET valid
        /\ UNCHANGED <<store, authMu, caller, login, live, minted, grantee, lost, refused>>
    BY <1>4 DEF Revoked
  <2> QED BY <2>1, ServerMoves
<1>5. CASE UNCHANGED authVars
  BY <1>5, ServerMoves DEF authVars, serverVars
<1> QED BY <1>1, <1>2, <1>3, <1>4, <1>5, KilledKeeps DEF AuthNext

(***************************************************************************)
(* The theorems.                                                           *)
(***************************************************************************)
THEOREM AuthInvariant == AuthSpec => []AuthInv
  BY InitAuth, NextAuth, PTL DEF AuthSpec

\* The lock is held exactly by a thread at the endpoint or at its save, and
\* the server's tokens are those it gave.
THEOREM AuthTypesHold == AuthSpec => []AuthTypeOK
<1>1. AuthInv => AuthTypeOK
  <2> SUFFICES ASSUME AuthInv PROVE AuthTypeOK
    OBVIOUS
  <2>1. AuthTypeInv /\ LockInv
    BY DEF AuthInv
  <2>2. minted \in 0..MintBound /\ live \cup valid \cup aged \subseteq 1..minted
    BY <2>1 DEF AuthTypeInv
  <2> QED BY <2>1, <2>2 DEF AuthTypeOK, LockInv, AtEndpoint, Asking, Saving
<1> QED BY <1>1, AuthInvariant, PTL

\* A refresh never costs the sign-in: the store holds tokens of the sign-in
\* last saved, with a refresh token the server takes unless one was lost; no
\* refresh token is presented twice; and the request after a 401 carries
\* another token than the one rejected.
THEOREM SignInKeptHolds == AuthSpec => []SignInKept
<1>1. AuthInv => SignInKept
  <2> SUFFICES ASSUME AuthInv PROVE SignInKept
    OBVIOUS
  <2>1. StoreInv /\ \A c \in Callers : RequestInv(c)
    BY DEF AuthInv
  <2>2. authMu = NoOne => \A c \in Callers : ~Storing(c)
    BY NobodyHolds DEF Storing
  <2> QED BY <2>1, <2>2 DEF SignInKept, StoreInv, RequestInv
<1> QED BY <1>1, AuthInvariant, PTL

(***************************************************************************)
(* SessionDatabase.  Where the start stands says what the file already     *)
(* has; outside a transaction the connection and the disk agree on         *)
(* everything but the swept tables; and whoever holds conn_mu_ sees the    *)
(* document it read.                                                       *)
(***************************************************************************)
\* every string; those the model names are listed for the provers
FieldTexts == STRING \cup {"", "?", "on", "off", "build", "chat"}
Modes == {"", "build", "chat"}
Doc == [Fields \cup {"mode"} -> FieldTexts]
Tools == {"web", "read"}
DatabaseRec == [version: 0..3, lastInput: BOOLEAN, permission: BOOLEAN, usedColumn: BOOLEAN,
            marked: SUBSET Sessions, doc: [Sessions -> Doc],
            calls: [Sessions -> SUBSET Tools], todos: [Sessions -> Seq(STRING)],
            orphans: SUBSET SessionTables]
OpRec == [kind: {"none", "wants", "patch", "todos"}, s: Sessions \cup {""},
          field: Fields \cup {"mode", ""}, value: FieldTexts, seen: Doc, left: Seq(STRING)]

Places == {"version", "schema", "column", "one", "drop", "two", "begin", "backfill",
           "commit", "sweep", "ready"}
Upgrading == {"backfill", "commit"}

StoreTypeInv ==
  /\ db \in DatabaseRec /\ disk \in DatabaseRec
  /\ opening \in Places
  /\ storeOp \in [Threads -> OpRec] /\ connMu \in Threads \cup {""}
  /\ cache \in [Sessions -> Modes] /\ loop \in [Sessions -> [mode: Modes, marked: BOOLEAN]]
  /\ touched \in SUBSET Sessions /\ worked \in SUBSET Sessions
  /\ lastWritten \in [Sessions -> Doc]

\* what the file has at each statement of the start
PlaceInv ==
  /\ opening \in {"schema", "column", "one"} => db.version = 0
  /\ opening = "one" => db.lastInput
  /\ opening \in {"drop", "two"} => db.version = 1
  /\ opening = "two" => ~db.permission
  /\ opening \in {"begin", "backfill"} => db.version = 2
  /\ opening = "backfill" => db.usedColumn
  /\ opening \in {"commit", "sweep", "ready"} => db.version = 3

\* the connection and the disk
SameInv ==
  /\ db.doc = lastWritten /\ disk.doc = lastWritten /\ db.calls = disk.calls
  /\ opening \in Upgrading => disk.version = 2
  /\ opening \notin Upgrading =>
       /\ db.version = disk.version /\ db.lastInput = disk.lastInput
       /\ db.permission = disk.permission /\ db.usedColumn = disk.usedColumn
       /\ db.marked = disk.marked

\* nothing promised is missing, and a mark means what it says
MarkInv ==
  /\ UpgradedTo(db) /\ UpgradedTo(disk)
  /\ db.marked \subseteq worked /\ disk.marked \subseteq worked
  /\ disk.version < 3 =>
       \A s \in Sessions : /\ s \in touched => "read" \in disk.calls[s]
                           /\ "read" \in disk.calls[s] => s \in worked
                           /\ disk.doc[s]["mode"] # "chat" => s \in worked

\* a call under conn_mu_
OpInv(t) ==
  /\ storeOp[t].kind # "none" => opening = "ready" /\ storeOp[t].s \in Sessions
  /\ storeOp[t].kind \in {"wants", "patch"} => storeOp[t].field \in Fields \cup {"mode"}
  /\ storeOp[t].kind \in {"patch", "todos"} => connMu = t
  /\ storeOp[t].kind = "patch" => storeOp[t].seen = db.doc[storeOp[t].s]
  /\ storeOp[t].kind = "todos" => db.todos[storeOp[t].s] \o storeOp[t].left \in Lists

TodoInv ==
  \A s \in Sessions :
    /\ disk.todos[s] \in Lists
    /\ \/ db.todos[s] \in Lists
       \/ \E t \in Threads : storeOp[t].kind = "todos" /\ storeOp[t].s = s

TurnInv(s) ==
  /\ loop[s] # NoTurn => opening = "ready"
  /\ loop[s].mode \notin {"", "chat"} => loop[s].marked
  /\ loop[s].marked => s \in db.marked

DatabaseInv ==
  /\ StoreTypeInv /\ PlaceInv /\ SameInv /\ MarkInv /\ TodoInv
  /\ \A t \in Threads : OpInv(t)
  /\ \A s \in Sessions : TurnInv(s)

LEMMA InitDatabase == DatabaseInit => DatabaseInv
<1> SUFFICES ASSUME DatabaseInit PROVE DatabaseInv
  OBVIOUS
<1> DEFINE first == CHOOSE list \in Lists : TRUE
<1>1. first \in Lists /\ first \in Seq(STRING)
  BY DatabaseAssumption
<1>2. /\ disk = FileAt(disk.version, disk.doc, disk.calls, disk.orphans)
      /\ disk.version \in 0..2 /\ disk.orphans \subseteq SessionTables
      /\ disk.doc \in [Sessions -> Doc] /\ disk.calls \in [Sessions -> SUBSET Tools]
  <2>1. disk \in OldFiles
    BY DEF DatabaseInit
  <2>2. disk.doc \in [Sessions -> [Fields \cup {"mode"} -> STRING]] /\ STRING \subseteq FieldTexts
    BY <2>1, OldFilesAssumption DEF FieldTexts
  <2>3. disk.doc \in [Sessions -> Doc]
    BY <2>2 DEF Doc
  <2> QED BY <2>1, <2>3, OldFilesAssumption DEF Tools
<1> HIDE DEF first
<1>3. /\ disk.lastInput = (disk.version >= 1) /\ disk.permission = (disk.version < 2)
      /\ disk.usedColumn = (disk.version >= 3) /\ disk.marked = {}
      /\ disk.todos = [s \in Sessions |-> first]
  BY <1>2 DEF FileAt, first
<1>4. disk = [version |-> disk.version, lastInput |-> disk.version >= 1,
              permission |-> disk.version < 2, usedColumn |-> disk.version >= 3,
              marked |-> {}, doc |-> disk.doc, calls |-> disk.calls,
              todos |-> [s \in Sessions |-> first], orphans |-> disk.orphans]
  BY <1>2 DEF FileAt, first
<1>5. (disk.version >= 1) \in BOOLEAN /\ (disk.version < 2) \in BOOLEAN /\ (disk.version >= 3) \in BOOLEAN
  OBVIOUS
<1>6. disk \in DatabaseRec
  <2>1. [s \in Sessions |-> first] \in [Sessions -> Seq(STRING)]
    BY <1>1
  <2>2. disk.version \in 0..3
    BY <1>2
  <2>3. disk.lastInput \in BOOLEAN /\ disk.permission \in BOOLEAN /\ disk.usedColumn \in BOOLEAN
    BY <1>3, <1>5
  <2>4. disk = [version |-> disk.version, lastInput |-> disk.lastInput,
                permission |-> disk.permission, usedColumn |-> disk.usedColumn,
                marked |-> {}, doc |-> disk.doc, calls |-> disk.calls,
                todos |-> [s \in Sessions |-> first], orphans |-> disk.orphans]
    BY <1>3, <1>4
  <2>5. {} \in SUBSET Sessions /\ disk.orphans \in SUBSET SessionTables
    BY <1>2
  <2> HIDE DEF first
  <2> DEFINE lists == [s \in Sessions |-> first]
  <2>6. lists \in [Sessions -> Seq(STRING)] /\ disk = [version |-> disk.version, lastInput |-> disk.lastInput,
                permission |-> disk.permission, usedColumn |-> disk.usedColumn,
                marked |-> {}, doc |-> disk.doc, calls |-> disk.calls,
                todos |-> lists, orphans |-> disk.orphans]
    BY <2>1, <2>4
  <2> HIDE DEF lists
  <2> QED BY <1>2, <2>2, <2>3, <2>5, <2>6 DEF DatabaseRec
<1>7. NoOp \in OpRec /\ NoOp.kind = "none" /\ NoTurn \in [mode: Modes, marked: BOOLEAN]
  <2>1. EmptyDoc \in Doc /\ <<>> \in Seq(STRING)
    <3>1. EmptyDoc \in Doc
      BY Zenon DEF EmptyDoc, Doc, FieldTexts
    <3>2. <<>> \in Seq(STRING)
      BY SMT
    <3> QED BY <3>1, <3>2
  <2>2. NoTurn \in [mode: Modes, marked: BOOLEAN]
    BY Zenon DEF NoTurn, Modes
  <2>3. NoOp \in OpRec /\ NoOp.kind = "none"
    BY Zenon, <2>1 DEF NoOp, OpRec, FieldTexts
  <2> QED BY <2>2, <2>3
<1>8. touched \in SUBSET Sessions /\ worked \in SUBSET Sessions
  BY <1>2 DEF DatabaseInit
<1>9. StoreTypeInv
  <2>1. /\ db \in DatabaseRec /\ disk \in DatabaseRec /\ opening \in Places
        /\ connMu \in Threads \cup {""} /\ lastWritten \in [Sessions -> Doc]
    BY <1>2, <1>6 DEF DatabaseInit, Places
  <2>2. "" \in Modes
    BY DEF Modes
  <2>3. /\ storeOp \in [Threads -> OpRec] /\ cache \in [Sessions -> Modes]
        /\ loop \in [Sessions -> [mode: Modes, marked: BOOLEAN]]
    BY Zenon, <1>7, <2>2 DEF DatabaseInit
  <2> QED BY Zenon, <1>8, <2>1, <2>3 DEF StoreTypeInv
<1>10. PlaceInv /\ SameInv
  BY <1>2 DEF DatabaseInit, PlaceInv, SameInv, Upgrading
<1>11. MarkInv
  <2>1. db = disk /\ touched = {s \in Sessions : "read" \in disk.calls[s]}
        /\ worked = touched \cup {s \in Sessions : disk.doc[s]["mode"] # "chat"}
    BY DEF DatabaseInit
  <2>2. UpgradedTo(disk)
    <3>1. disk.version >= 1 => disk.lastInput
      BY <1>3
    <3>2. disk.version >= 2 => ~disk.permission
      <4>1. disk.version >= 2 => ~(disk.version < 2)
        BY <1>2
      <4> QED BY Zenon, <4>1, <1>3
    <3>3. ~(disk.version >= 3)
      BY <1>2
    <3> QED BY <3>1, <3>2, <3>3 DEF UpgradedTo
  <2>3. UpgradedTo(db)
    BY <2>1, <2>2
  <2> QED BY <1>3, <2>1, <2>2, <2>3 DEF MarkInv
<1>12. TodoInv
  BY <1>1, <1>3 DEF DatabaseInit, TodoInv
<1>13. \A t \in Threads : OpInv(t)
  BY <1>7 DEF DatabaseInit, OpInv
<1>14. \A s \in Sessions : TurnInv(s)
  BY DEF DatabaseInit, TurnInv, NoTurn
<1> QED BY <1>9, <1>10, <1>11, <1>12, <1>13, <1>14 DEF DatabaseInv

(***************************************************************************)
(* The start: no call and no turn before it is over.                       *)
(***************************************************************************)
LEMMA StartStep ==
  ASSUME DatabaseInv, UNCHANGED storeVars, opening # "ready",
         db' \in DatabaseRec, disk' \in DatabaseRec, opening' \in Places,
         db'.todos = db.todos \/ db'.todos = disk.todos, disk'.todos = disk.todos \/ disk'.todos = db.todos,
         PlaceInv', SameInv', MarkInv'
  PROVE  DatabaseInv'
<1>1. StoreTypeInv'
  BY DEF DatabaseInv, StoreTypeInv, storeVars
<1>2. \A t \in Threads : storeOp[t].kind = "none"
  BY DEF DatabaseInv, OpInv, StoreTypeInv, OpRec
<1>3. \A s \in Sessions : loop'[s] = NoTurn
  BY DEF DatabaseInv, TurnInv, storeVars
<1>4. TodoInv'
  BY <1>2 DEF DatabaseInv, TodoInv, storeVars
<1>5. \A t \in Threads : OpInv(t)'
  BY <1>2 DEF OpInv, storeVars
<1>6. \A s \in Sessions : TurnInv(s)'
  <2>1. NoTurn.mode = "" /\ ~NoTurn.marked
    BY DEF NoTurn
  <2> QED BY <1>3, <2>1 DEF TurnInv
<1> QED BY <1>1, <1>4, <1>5, <1>6 DEF DatabaseInv

LEMMA VersionRead == DatabaseInv /\ ReadsVersion => DatabaseInv'
<1> SUFFICES ASSUME DatabaseInv, ReadsVersion PROVE DatabaseInv'
  OBVIOUS
<1>1. /\ db.version \in 0..3 /\ opening = "version" /\ opening' \in Places /\ opening' \notin Upgrading
      /\ db \in DatabaseRec /\ disk \in DatabaseRec
  BY DEF DatabaseInv, StoreTypeInv, DatabaseRec, ReadsVersion, Places, Upgrading
<1>2. PlaceInv'
  BY <1>1 DEF DatabaseInv, MarkInv, UpgradedTo, PlaceInv, ReadsVersion
<1>3. SameInv' /\ MarkInv'
  BY <1>1 DEF DatabaseInv, SameInv, MarkInv, UpgradedTo, ReadsVersion, storeVars, Upgrading
<1> QED BY <1>1, <1>2, <1>3, StartStep DEF ReadsVersion

\* a statement outside a transaction
LEMMA StatementRuns ==
  ASSUME DatabaseInv, opening \in {"schema", "column", "one", "drop", "two"},
         \/ CreatesTables \/ AddsColumn \/ SetsVersion1 \/ DropsPermission \/ SetsVersion2
  PROVE  DatabaseInv'
<1>1. /\ db \in DatabaseRec /\ disk \in DatabaseRec /\ opening \notin Upgrading
      /\ opening' \in Places /\ opening' \notin Upgrading
      /\ disk' = db' /\ UNCHANGED storeVars
  BY DEF DatabaseInv, StoreTypeInv, CreatesTables, AddsColumn, SetsVersion1, DropsPermission, SetsVersion2,
         Durable, Places, Upgrading
<1>2. db' \in DatabaseRec
  <2>1. TRUE \in BOOLEAN /\ FALSE \in BOOLEAN /\ 1 \in 0..3 /\ 2 \in 0..3
    OBVIOUS
  <2>2. \/ db' = db \/ db' = [db EXCEPT !.lastInput = TRUE] \/ db' = [db EXCEPT !.version = 1]
        \/ db' = [db EXCEPT !.permission = FALSE] \/ db' = [db EXCEPT !.version = 2]
    BY DEF CreatesTables, AddsColumn, SetsVersion1, DropsPermission, SetsVersion2, Durable
  <2> QED BY ZenonT(40), <1>1, <2>1, <2>2 DEF DatabaseRec
<1>3. /\ db'.doc = db.doc /\ db'.calls = db.calls /\ db'.todos = db.todos /\ db'.marked = db.marked
      /\ db'.usedColumn = db.usedColumn
  BY <1>1 DEF CreatesTables, AddsColumn, SetsVersion1, DropsPermission, SetsVersion2, Durable, DatabaseRec
<1>4. PlaceInv' /\ UpgradedTo(db)' /\ db'.version < 3
  <2>1. db.version \in 0..3 /\ UpgradedTo(db) /\ PlaceInv /\ touched' = touched
    BY <1>1 DEF DatabaseInv, MarkInv, DatabaseRec, storeVars
  <2>2. CASE CreatesTables
    BY <2>1, <2>2 DEF CreatesTables, Durable, PlaceInv, UpgradedTo
  <2>3. CASE AddsColumn
    <3>1. db'.lastInput /\ db'.version = db.version /\ db'.permission = db.permission
      BY <1>1, <2>3 DEF AddsColumn, Durable, DatabaseRec
    <3> QED BY <2>1, <2>3, <3>1 DEF AddsColumn, PlaceInv, UpgradedTo
  <2>4. CASE SetsVersion1
    <3>1. db'.version = 1 /\ db'.lastInput = db.lastInput /\ db'.permission = db.permission
      BY <1>1, <2>4 DEF SetsVersion1, Durable, DatabaseRec
    <3> QED BY <2>1, <2>4, <3>1 DEF SetsVersion1, PlaceInv, UpgradedTo
  <2>5. CASE DropsPermission
    <3>1. ~db'.permission /\ db'.version = db.version /\ db'.lastInput = db.lastInput
      BY <1>1, <2>5 DEF DropsPermission, Durable, DatabaseRec
    <3> QED BY <2>1, <2>5, <3>1 DEF DropsPermission, PlaceInv, UpgradedTo
  <2>6. CASE SetsVersion2
    <3>1. db'.version = 2 /\ db'.lastInput = db.lastInput /\ db'.permission = db.permission
      BY <1>1, <2>6 DEF SetsVersion2, Durable, DatabaseRec
    <3> QED BY <2>1, <2>6, <3>1 DEF SetsVersion2, PlaceInv, UpgradedTo
  <2> QED BY <2>2, <2>3, <2>4, <2>5, <2>6
<1>5. SameInv'
  BY <1>1, <1>3 DEF DatabaseInv, SameInv, storeVars
<1>6. MarkInv'
  <2>1. disk.version < 3
    BY <1>1 DEF DatabaseInv, SameInv, PlaceInv
  <2> QED BY <1>1, <1>3, <1>4, <2>1 DEF DatabaseInv, SameInv, MarkInv, UpgradedTo, storeVars
<1> QED BY <1>1, <1>2, <1>3, <1>4, <1>5, <1>6, StartStep

LEMMA UpgradeRuns ==
  ASSUME DatabaseInv, AddsUsedColumn \/ Backfills \/ CommitsUpgrade
  PROVE  DatabaseInv'
<1>1. db \in DatabaseRec /\ disk \in DatabaseRec /\ opening' \in Places /\ UNCHANGED storeVars
      /\ opening \in {"begin", "backfill", "commit"}
  BY DEF DatabaseInv, StoreTypeInv, AddsUsedColumn, Backfills, CommitsUpgrade, Places
<1>2. CASE AddsUsedColumn
  <2>1. /\ db' \in DatabaseRec /\ disk' = disk /\ opening = "begin" /\ opening' = "backfill"
        /\ db' = [db EXCEPT !.usedColumn = TRUE]
    BY <1>1, <1>2 DEF AddsUsedColumn, InTxn, DatabaseRec
  <2>2. /\ db'.doc = db.doc /\ db'.calls = db.calls /\ db'.todos = db.todos /\ db'.marked = db.marked
        /\ db'.version = db.version /\ db'.lastInput = db.lastInput
        /\ db'.permission = db.permission
    BY <1>1, <2>1 DEF DatabaseRec
  <2>4. db'.usedColumn = TRUE
    BY <1>1, <2>1 DEF DatabaseRec
  <2>3. PlaceInv' /\ SameInv' /\ MarkInv'
    BY <1>1, <2>1, <2>2, <2>4
       DEF DatabaseInv, PlaceInv, SameInv, MarkInv, UpgradedTo, storeVars, Upgrading
  <2> QED BY <1>1, <2>1, <2>2, <2>3, StartStep
<1>3. CASE Backfills
  <2>1. disk' = disk /\ opening = "backfill" /\ opening' = "commit"
        /\ db' = [db EXCEPT !.marked = @ \cup InferredUsed, !.version = 3]
    BY <1>3 DEF Backfills, InTxn
  <2>2. InferredUsed \subseteq Sessions
    BY DEF InferredUsed
  <2>3. /\ db'.doc = db.doc /\ db'.calls = db.calls /\ db'.todos = db.todos
        /\ db'.marked = db.marked \cup InferredUsed
        /\ db'.version = 3 /\ db'.lastInput = db.lastInput
        /\ db'.permission = db.permission /\ db'.usedColumn = db.usedColumn
    BY <1>1, <2>1 DEF DatabaseRec
  <2>4. db' \in DatabaseRec
    <3>1. db.marked \cup InferredUsed \in SUBSET Sessions /\ 3 \in 0..3
      BY <1>1, <2>2 DEF DatabaseRec
    <3> QED BY Zenon, <1>1, <2>1, <3>1 DEF DatabaseRec
  <2>5. disk.version = 2 /\ db.doc = disk.doc /\ db.calls = disk.calls /\ db.version = 2 /\ db.usedColumn
    BY <2>1 DEF DatabaseInv, SameInv, PlaceInv, Upgrading
  <2>6. \A s \in Sessions : /\ s \in touched => "read" \in db.calls[s]
                            /\ "read" \in db.calls[s] => s \in worked
                            /\ db.doc[s]["mode"] # "chat" => s \in worked
    BY <2>5 DEF DatabaseInv, MarkInv
  <2>7. /\ touched \in SUBSET Sessions
        /\ \A s \in Sessions : \A tool \in db.calls[s] : tool \in {"web", "read"}
    BY <1>1 DEF DatabaseInv, StoreTypeInv, DatabaseRec, Tools
  <2>10. ~AllowedIn("read", "chat") /\ AllowedIn("web", "chat")
    BY DEF AllowedIn
  <2>11. touched \subseteq InferredUsed
    BY <2>6, <2>7, <2>10 DEF InferredUsed
  <2>12. InferredUsed \subseteq worked
    BY <2>6, <2>7, <2>10 DEF InferredUsed
  <2>8. PlaceInv' /\ SameInv'
    BY <1>1, <2>1, <2>3, <2>5 DEF DatabaseInv, PlaceInv, SameInv, storeVars, Upgrading
  <2>9. MarkInv'
    BY <1>1, <2>1, <2>3, <2>5, <2>11, <2>12 DEF DatabaseInv, MarkInv, UpgradedTo, storeVars
  <2> QED BY <1>1, <2>1, <2>3, <2>4, <2>8, <2>9, StartStep
<1>4. CASE CommitsUpgrade
  <2>1. disk' = db /\ db' = db /\ opening = "commit" /\ opening' = "sweep" /\ db.version = 3
    BY <1>4 DEF CommitsUpgrade, Durable, DatabaseInv, PlaceInv
  <2>2. PlaceInv' /\ SameInv' /\ MarkInv'
    BY <1>1, <2>1 DEF DatabaseInv, PlaceInv, SameInv, MarkInv, UpgradedTo, storeVars, Upgrading
  <2> QED BY <1>1, <2>1, <2>2, StartStep
<1> QED BY <1>2, <1>3, <1>4

LEMMA SweepRuns ==
  ASSUME DatabaseInv, SweepsTable \/ CommitsSweep \/ SweepFails
  PROVE  DatabaseInv'
<1>1. /\ db \in DatabaseRec /\ disk \in DatabaseRec /\ opening' \in {"sweep", "ready"} /\ UNCHANGED storeVars
      /\ opening = "sweep" /\ db.version = 3 /\ disk.version = 3
  BY DEF DatabaseInv, StoreTypeInv, PlaceInv, SameInv, Upgrading, SweepsTable, CommitsSweep, SweepFails, storeVars
<1>2. /\ db' \in DatabaseRec /\ disk' \in DatabaseRec
      /\ db'.doc = db.doc /\ db'.calls = db.calls /\ db'.marked = db.marked
      /\ db'.version = db.version /\ db'.lastInput = db.lastInput
      /\ db'.permission = db.permission /\ db'.usedColumn = db.usedColumn
      /\ db'.todos = db.todos \/ db'.todos = disk.todos
  <2>1. CASE SweepsTable
    <3>1. PICK table \in db.orphans : db' = [db EXCEPT !.orphans = @ \ {table}] /\ disk' = disk
      BY <2>1 DEF SweepsTable, InTxn
    <3> QED BY <1>1, <3>1 DEF DatabaseRec
  <2>2. CASE CommitsSweep
    BY <1>1, <2>2 DEF CommitsSweep, Durable
  <2>3. CASE SweepFails
    BY <1>1, <2>3 DEF SweepFails, DatabaseInv, SameInv, Upgrading
  <2> QED BY <2>1, <2>2, <2>3
<1>3. disk' = disk \/ disk' = db
  BY DEF SweepsTable, CommitsSweep, SweepFails, InTxn, Durable
<1>4. /\ disk'.doc = disk.doc /\ disk'.calls = disk.calls /\ disk'.marked = disk.marked
      /\ disk'.version = disk.version /\ disk'.lastInput = disk.lastInput
      /\ disk'.permission = disk.permission /\ disk'.usedColumn = disk.usedColumn
      /\ disk'.todos = disk.todos \/ disk'.todos = db.todos
  BY <1>1, <1>3 DEF DatabaseInv, SameInv, Upgrading
<1>5. PlaceInv' /\ SameInv' /\ MarkInv'
  BY <1>1, <1>2, <1>4 DEF DatabaseInv, PlaceInv, SameInv, MarkInv, UpgradedTo, storeVars, Upgrading
<1>6. opening' \in Places /\ opening # "ready"
  BY <1>1 DEF Places
<1> QED BY <1>1, <1>2, <1>4, <1>5, <1>6, StartStep

(***************************************************************************)
(* Calls on the store.  Every one of them runs when the start is over.     *)
(***************************************************************************)
\* outside the start the connection and the disk differ in to-dos and swept
\* tables only, and at most the holder of conn_mu_ is in a transaction
LEMMA ReadyFacts ==
  ASSUME DatabaseInv, opening = "ready"
  PROVE  /\ db \in DatabaseRec /\ disk \in DatabaseRec
         /\ db.version = 3 /\ disk.version = 3
         /\ db.doc = disk.doc /\ db.calls = disk.calls /\ db.marked = disk.marked
         /\ db.lastInput = disk.lastInput /\ db.permission = disk.permission
         /\ db.usedColumn = disk.usedColumn
         /\ \A t \in Threads : storeOp[t] \in OpRec
         /\ \A t \in Threads : storeOp[t].kind \in {"patch", "todos"} => connMu = t
<1>1. opening \notin Upgrading
  BY DEF Upgrading
<1> QED BY <1>1 DEF DatabaseInv, StoreTypeInv, PlaceInv, SameInv, OpInv

\* a call that has not written anything
LEMMA CallStep ==
  ASSUME DatabaseInv, opening = "ready", NEW t \in Threads, NEW o \in OpRec,
         UNCHANGED <<db, disk, opening, loop, touched, worked, lastWritten>>,
         storeOp' = [storeOp EXCEPT ![t] = o], storeOp[t].kind # "todos",
         cache' \in [Sessions -> Modes], connMu' \in Threads \cup {""},
         \A u \in Threads : u # t /\ storeOp[u].kind \in {"patch", "todos"} => connMu' = connMu,
         o.kind # "none" => o.s \in Sessions /\ o.field \in Fields \cup {"mode"},
         o.kind = "patch" => connMu' = t /\ o.seen = db.doc[o.s],
         o.kind # "todos"
  PROVE  DatabaseInv'
<1>1. storeOp \in [Threads -> OpRec]
  BY DEF DatabaseInv, StoreTypeInv
<1>2. storeOp'[t] = o /\ \A u \in Threads : u # t => storeOp'[u] = storeOp[u]
  BY <1>1
<1>3. StoreTypeInv'
  BY <1>1 DEF DatabaseInv, StoreTypeInv
<1>4. PlaceInv' /\ SameInv' /\ MarkInv'
  BY DEF DatabaseInv, PlaceInv, SameInv, MarkInv, UpgradedTo
<1>5. TodoInv'
  <2>1. \A u \in Threads : storeOp[u].kind = "todos" => storeOp'[u] = storeOp[u]
    BY <1>2
  <2>2. ASSUME NEW s \in Sessions
        PROVE  /\ disk'.todos[s] \in Lists
               /\ \/ db'.todos[s] \in Lists
                  \/ \E u \in Threads : storeOp'[u].kind = "todos" /\ storeOp'[u].s = s
    <3>1. db' = db /\ disk' = disk /\ disk.todos[s] \in Lists
      BY DEF DatabaseInv, TodoInv
    <3>2. CASE db.todos[s] \in Lists
      BY <3>1, <3>2
    <3>3. CASE \E u \in Threads : storeOp[u].kind = "todos" /\ storeOp[u].s = s
      BY <2>1, <3>1, <3>3
    <3> QED BY <3>2, <3>3 DEF DatabaseInv, TodoInv
  <2> QED BY <2>2 DEF TodoInv
<1>6. ASSUME NEW u \in Threads PROVE OpInv(u)'
  <2>1. CASE u = t
    BY <1>2, <2>1 DEF OpInv
  <2>2. CASE u # t
    BY <1>2, <2>2 DEF DatabaseInv, OpInv
  <2> QED BY <2>1, <2>2
<1>7. ASSUME NEW s \in Sessions PROVE TurnInv(s)'
  BY DEF DatabaseInv, TurnInv
<1> QED BY <1>3, <1>4, <1>5, <1>6, <1>7 DEF DatabaseInv

LEMMA Texted ==
  /\ EmptyDoc \in Doc /\ NoOp \in OpRec /\ NoOp.kind = "none" /\ NoOp.left = <<>>
  /\ NoOp.seen = EmptyDoc
  /\ {"on", "off", "build", "chat"} \subseteq FieldTexts
<1>1. EmptyDoc \in Doc
  BY Zenon DEF EmptyDoc, Doc, FieldTexts
<1>2. <<>> \in Seq(STRING)
  BY SMT
<1>3. NoOp \in OpRec
  BY Zenon, <1>1, <1>2 DEF NoOp, OpRec, FieldTexts
<1>4. /\ NoOp.kind = "none" /\ NoOp.left = <<>> /\ NoOp.seen = EmptyDoc
      /\ {"on", "off", "build", "chat"} \subseteq FieldTexts
  BY DEF NoOp, FieldTexts
<1> QED BY <1>1, <1>3, <1>4

LEMMA PatchTyped ==
  ASSUME NEW s \in Sessions, NEW f \in Fields \cup {"mode"}, NEW v \in FieldTexts
  PROVE  LET o == Patch("wants", s, f, v) IN
         /\ o \in OpRec /\ o.kind = "wants" /\ o.s = s /\ o.field = f /\ o.value = v
<1> DEFINE o == Patch("wants", s, f, v)
<1>1. o = [NoOp EXCEPT !.kind = "wants", !.s = s, !.field = f, !.value = v]
  BY DEF Patch
<1>2. o \in OpRec
  BY Zenon, <1>1, Texted DEF OpRec
<1>3. o.kind = "wants" /\ o.s = s /\ o.field = f /\ o.value = v
  BY <1>1, Texted DEF OpRec
<1> QED BY <1>2, <1>3

LEMMA FieldsSet == ASSUME DatabaseInv, NEW t \in Threads, SetsFields(t) PROVE DatabaseInv'
<1>1. PICK s \in Sessions, f \in Fields, v \in {"on", "off"} :
        storeOp' = [storeOp EXCEPT ![t] = Patch("wants", s, f, v)]
  BY DEF SetsFields
<1>2. v \in FieldTexts /\ f \in Fields \cup {"mode"}
  BY Texted
<1>3. PICK o \in OpRec : /\ o = Patch("wants", s, f, v) /\ o.kind = "wants"
                         /\ o.s = s /\ o.field = f
  BY <1>2, PatchTyped
<1>4. /\ opening = "ready" /\ storeOp[t].kind = "none" /\ cache' = cache /\ connMu' = connMu
      /\ UNCHANGED <<db, disk, opening, loop, touched, worked, lastWritten>>
  BY DEF SetsFields, Calls
<1>5. cache' \in [Sessions -> Modes] /\ connMu' \in Threads \cup {""}
  BY <1>4 DEF DatabaseInv, StoreTypeInv
<1> QED BY <1>1, <1>2, <1>3, <1>4, <1>5, CallStep

LEMMA ModeSet == ASSUME DatabaseInv, NEW t \in Threads, SetsMode(t) PROVE DatabaseInv'
<1>1. PICK s \in Sessions, v \in {"build", "chat"} :
        /\ storeOp' = [storeOp EXCEPT ![t] = Patch("wants", s, "mode", v)]
        /\ cache' = [cache EXCEPT ![s] = v]
  BY DEF SetsMode
<1>2. v \in FieldTexts /\ "mode" \in Fields \cup {"mode"} /\ v \in Modes
  BY Texted DEF Modes
<1>3. PICK o \in OpRec : /\ o = Patch("wants", s, "mode", v) /\ o.kind = "wants"
                         /\ o.s = s /\ o.field = "mode"
  BY <1>2, PatchTyped
<1>4. /\ opening = "ready" /\ storeOp[t].kind = "none" /\ connMu' = connMu
      /\ UNCHANGED <<db, disk, opening, loop, touched, worked, lastWritten>>
  BY DEF SetsMode, Calls
<1>5. cache' \in [Sessions -> Modes] /\ connMu' \in Threads \cup {""}
  BY <1>1, <1>2, <1>4 DEF DatabaseInv, StoreTypeInv
<1> QED BY <1>1, <1>2, <1>3, <1>4, <1>5, CallStep

LEMMA DocRead == ASSUME DatabaseInv, NEW t \in Threads, ReadsDoc(t) PROVE DatabaseInv'
<1>1. /\ storeOp[t] \in OpRec /\ storeOp[t].kind = "wants" /\ opening = "ready"
      /\ storeOp[t].s \in Sessions /\ storeOp[t].field \in Fields \cup {"mode"}
      /\ connMu = "" /\ connMu' = t /\ db.doc \in [Sessions -> Doc]
      /\ storeOp \in [Threads -> OpRec]
  BY DEF ReadsDoc, MutexFree, DatabaseInv, StoreTypeInv, OpInv, DatabaseRec
<1>2. PICK d \in Doc : d = db.doc[storeOp[t].s]
  BY <1>1
<1> DEFINE r == [storeOp[t] EXCEPT !.kind = "patch", !.seen = d]
<1>3. r \in OpRec
  BY Zenon, <1>1, <1>2 DEF OpRec
<1>4. PICK o \in OpRec : o = r
  BY <1>3
<1>5. o.kind = "patch" /\ o.seen = db.doc[o.s] /\ o.s = storeOp[t].s /\ o.field = storeOp[t].field
  BY <1>1, <1>2, <1>4 DEF OpRec
<1>6. storeOp' = [storeOp EXCEPT ![t] = o]
  BY <1>1, <1>2, <1>4 DEF ReadsDoc
<1>7. /\ UNCHANGED <<db, disk, opening, loop, touched, worked, lastWritten>>
      /\ cache' \in [Sessions -> Modes]
  BY DEF ReadsDoc, DatabaseInv, StoreTypeInv
<1>8. \A u \in Threads : u # t /\ storeOp[u].kind \in {"patch", "todos"} => connMu' = connMu
  BY <1>1, DatabaseAssumption DEF DatabaseInv, OpInv
<1> HIDE DEF r
<1> QED BY <1>1, <1>5, <1>6, <1>7, <1>8, CallStep

\* the end of a call: its thread gives conn_mu_ back
LEMMA CallEnds ==
  ASSUME DatabaseInv, opening = "ready", NEW t \in Threads, EndsOp(t),
         storeOp[t].kind \in {"patch", "todos"}
  PROVE  /\ storeOp' \in [Threads -> OpRec] /\ connMu' \in Threads \cup {""}
         /\ storeOp'[t] = NoOp
         /\ \A u \in Threads : u # t => /\ storeOp'[u] = storeOp[u]
                                       /\ storeOp[u].kind \in {"none", "wants"}
<1>1. storeOp \in [Threads -> OpRec] /\ connMu = t /\ connMu' = ""
  BY DEF DatabaseInv, StoreTypeInv, OpInv, EndsOp
<1>2. \A u \in Threads : u # t => storeOp[u].kind \notin {"patch", "todos"}
  BY <1>1 DEF DatabaseInv, OpInv
<1>3. \A u \in Threads : storeOp[u].kind \in {"none", "wants", "patch", "todos"}
  BY <1>1 DEF OpRec
<1>4. storeOp' = [storeOp EXCEPT ![t] = NoOp]
  BY DEF EndsOp
<1>5. storeOp' \in [Threads -> OpRec] /\ storeOp'[t] = NoOp
      /\ \A u \in Threads : u # t => storeOp'[u] = storeOp[u]
  BY <1>1, <1>4, Texted
<1> QED BY <1>1, <1>2, <1>3, <1>5

LEMMA PatchWritten == ASSUME DatabaseInv, NEW t \in Threads, WritesPatch(t) PROVE DatabaseInv'
<1>1. /\ opening = "ready" /\ opening' = opening /\ storeOp[t] \in OpRec /\ storeOp[t].kind = "patch"
      /\ storeOp[t].s \in Sessions /\ storeOp[t].field \in Fields \cup {"mode"}
      /\ storeOp[t].seen = db.doc[storeOp[t].s] /\ EndsOp(t)
      /\ UNCHANGED <<cache, loop, touched, worked>>
  BY DEF WritesPatch, DatabaseInv, StoreTypeInv, OpInv
<1>2. /\ storeOp' \in [Threads -> OpRec] /\ connMu' \in Threads \cup {""} /\ storeOp'[t] = NoOp
      /\ \A u \in Threads : u # t => /\ storeOp'[u] = storeOp[u]
                                     /\ storeOp[u].kind \in {"none", "wants"}
  BY <1>1, CallEnds
<1>3. PICK p \in Sessions : p = storeOp[t].s
  BY <1>1
<1>4. PICK f \in Fields \cup {"mode"} : f = storeOp[t].field
  BY <1>1
<1>5. PICK v \in FieldTexts : v = storeOp[t].value
  BY <1>1 DEF OpRec
<1>6. /\ db \in DatabaseRec /\ db.doc = lastWritten /\ db.doc \in [Sessions -> Doc]
      /\ lastWritten \in [Sessions -> Doc]
  BY <1>1, ReadyFacts DEF DatabaseInv, SameInv, StoreTypeInv
<1>7. PICK d \in Doc : d = [Parsed(db.doc[p]) EXCEPT ![f] = v]
  <2>1. Parsed(db.doc[p]) \in Doc
    BY <1>6, Texted DEF Parsed
  <2> QED BY <2>1 DEF Doc
<1>8. /\ db' = [db EXCEPT !.doc[p] = d] /\ disk' = db'
      /\ lastWritten' = [lastWritten EXCEPT ![p] = d]
  <2>1. \A u \in Threads : storeOp[u].kind # "todos"
    BY <1>1, <1>2
  <2>2. WritesRow([db EXCEPT !.doc[p] = d])
    BY <1>1, <1>3, <1>4, <1>5, <1>7 DEF WritesPatch
  <2>3. lastWritten' = [lastWritten EXCEPT ![p] = d]
    BY <1>1, <1>3, <1>4, <1>5, <1>6, <1>7 DEF WritesPatch
  <2> QED BY <2>1, <2>2, <2>3 DEF WritesRow
<1>9. /\ db'.doc = [db.doc EXCEPT ![p] = d] /\ db'.calls = db.calls /\ db'.todos = db.todos
      /\ db'.marked = db.marked /\ db'.version = db.version /\ db'.lastInput = db.lastInput
      /\ db'.permission = db.permission /\ db'.usedColumn = db.usedColumn
  BY <1>6, <1>8 DEF DatabaseRec
<1>10. db' \in DatabaseRec
  <2>1. [db.doc EXCEPT ![p] = d] \in [Sessions -> Doc]
    BY <1>6
  <2>2. db' = [db EXCEPT !.doc = [db.doc EXCEPT ![p] = d]]
    BY <1>6, <1>8 DEF DatabaseRec
  <2> QED BY Zenon, <1>6, <2>1, <2>2 DEF DatabaseRec
<1>11. StoreTypeInv'
  <2>1. lastWritten' \in [Sessions -> Doc]
    BY <1>6, <1>8
  <2> QED BY <1>1, <1>2, <1>8, <1>10, <2>1 DEF DatabaseInv, StoreTypeInv
<1>12. PlaceInv' /\ SameInv'
  BY <1>1, <1>6, <1>8, <1>9, ReadyFacts DEF PlaceInv, SameInv, Upgrading
<1>13. MarkInv'
  BY <1>1, <1>8, <1>9, ReadyFacts DEF DatabaseInv, MarkInv, UpgradedTo
<1>14. TodoInv'
  <2>1. \A s \in Sessions : db.todos[s] \in Lists
    BY <1>1, <1>2 DEF DatabaseInv, TodoInv
  <2> QED BY <1>8, <1>9, <2>1 DEF TodoInv
<1>15. ASSUME NEW u \in Threads PROVE OpInv(u)'
  <2>1. CASE u = t
    BY <1>2, <2>1, Texted DEF OpInv
  <2>2. CASE u # t
    BY <1>1, <1>2, <2>2 DEF DatabaseInv, OpInv
  <2> QED BY <2>1, <2>2
<1>16. ASSUME NEW s \in Sessions PROVE TurnInv(s)'
  BY <1>1, <1>9 DEF DatabaseInv, TurnInv
<1> QED BY <1>11, <1>12, <1>13, <1>14, <1>15, <1>16 DEF DatabaseInv

(***************************************************************************)
(* replace_todos.                                                          *)
(***************************************************************************)
LEMMA ListMoves ==
  ASSUME NEW a \in Seq(STRING), NEW l \in Seq(STRING), l # <<>>
  PROVE  /\ Append(a, Head(l)) \o Tail(l) = a \o l
         /\ Append(a, Head(l)) \in Seq(STRING) /\ Tail(l) \in Seq(STRING)
BY SMTT(30)

LEMMA ListEnds ==
  ASSUME NEW a \in Seq(STRING) PROVE <<>> \o a = a /\ a \o <<>> = a
BY SMTT(30)

\* a step of one thread's transaction on the to-dos of one session
LEMMA TodosStep ==
  ASSUME DatabaseInv, opening = "ready", NEW t \in Threads, NEW s \in Sessions,
         UNCHANGED <<disk, opening, cache, loop, touched, worked, lastWritten>>,
         NEW new \in Seq(STRING), NEW o \in OpRec,
         db' = [db EXCEPT !.todos[s] = new], storeOp' = [storeOp EXCEPT ![t] = o],
         o.kind = "todos", o.s = s, new \o o.left \in Lists,
         storeOp[t].kind = "todos" => storeOp[t].s = s,
         connMu' = t, \A u \in Threads : u # t => storeOp[u].kind \in {"none", "wants"}
  PROVE  DatabaseInv'
<1>1. db \in DatabaseRec /\ storeOp \in [Threads -> OpRec]
  BY DEF DatabaseInv, StoreTypeInv
<1>2. /\ db'.doc = db.doc /\ db'.calls = db.calls /\ db'.todos = [db.todos EXCEPT ![s] = new]
      /\ db'.marked = db.marked /\ db'.version = db.version /\ db'.lastInput = db.lastInput
      /\ db'.permission = db.permission /\ db'.usedColumn = db.usedColumn
  BY <1>1 DEF DatabaseRec
<1>3. db.todos \in [Sessions -> Seq(STRING)] /\ db'.todos \in [Sessions -> Seq(STRING)]
  BY <1>1, <1>2 DEF DatabaseRec
<1>4. db' \in DatabaseRec
  <2>1. db' = [db EXCEPT !.todos = db'.todos]
    BY <1>1, <1>2 DEF DatabaseRec
  <2> QED BY Zenon, <1>1, <1>3, <2>1 DEF DatabaseRec
<1>5. storeOp'[t] = o /\ \A u \in Threads : u # t => storeOp'[u] = storeOp[u]
  BY <1>1
<1>6. StoreTypeInv'
  <2>1. storeOp' \in [Threads -> OpRec]
    BY <1>1
  <2> QED BY <1>4, <2>1 DEF DatabaseInv, StoreTypeInv
<1>7. PlaceInv' /\ SameInv' /\ MarkInv'
  BY <1>2, ReadyFacts DEF DatabaseInv, PlaceInv, SameInv, MarkInv, UpgradedTo, Upgrading
<1>8. TodoInv'
  <2>1. ASSUME NEW q \in Sessions, q # s PROVE db'.todos[q] \in Lists
    <3>1. db'.todos[q] = db.todos[q]
      BY <1>2, <1>3, <2>1
    <3>2. \A u \in Threads : ~(storeOp[u].kind = "todos" /\ storeOp[u].s = q)
      BY <2>1
    <3> QED BY <3>1, <3>2 DEF DatabaseInv, TodoInv
  <2>2. storeOp'[t].kind = "todos" /\ storeOp'[t].s = s
    BY <1>5
  <2>3. \A q \in Sessions : disk'.todos[q] \in Lists
    BY DEF DatabaseInv, TodoInv
  <2> QED BY <2>1, <2>2, <2>3 DEF TodoInv
<1>9. ASSUME NEW u \in Threads PROVE OpInv(u)'
  <2>1. CASE u = t
    <3>1. db'.todos[s] = new
      BY <1>2, <1>3
    <3> QED BY <1>5, <2>1, <3>1 DEF OpInv
  <2>2. CASE u # t
    BY <1>5, <2>2 DEF DatabaseInv, OpInv
  <2> QED BY <2>1, <2>2
<1>10. ASSUME NEW q \in Sessions PROVE TurnInv(q)'
  BY <1>2 DEF DatabaseInv, TurnInv
<1> QED BY <1>6, <1>7, <1>8, <1>9, <1>10 DEF DatabaseInv

LEMMA TodosStarted == ASSUME DatabaseInv, NEW t \in Threads, StartsTodos(t) PROVE DatabaseInv'
<1>1. PICK s \in Sessions, list \in Lists :
        /\ storeOp' = [storeOp EXCEPT ![t] = [NoOp EXCEPT !.kind = "todos", !.s = s, !.left = list]]
        /\ InTxn([db EXCEPT !.todos[s] = <<>>])
  BY DEF StartsTodos
<1>2. /\ opening = "ready" /\ storeOp[t].kind = "none" /\ connMu = "" /\ connMu' = t
      /\ UNCHANGED <<disk, opening, cache, loop, touched, worked, lastWritten>>
      /\ db' = [db EXCEPT !.todos[s] = <<>>]
  BY <1>1 DEF StartsTodos, Calls, MutexFree, InTxn
<1>3. list \in Seq(STRING) /\ <<>> \in Seq(STRING)
  <2>1. list \in Seq(STRING)
    BY Zenon, DatabaseAssumption
  <2>2. <<>> \in Seq(STRING)
    BY SMT
  <2> QED BY <2>1, <2>2
<1> DEFINE r == [NoOp EXCEPT !.kind = "todos", !.s = s, !.left = list]
<1>4. r \in OpRec
  BY Zenon, <1>3, Texted DEF OpRec
<1>5. PICK o \in OpRec : o = r
  BY <1>4
<1>6. o.kind = "todos" /\ o.s = s /\ o.left = list
  BY <1>5, Texted DEF OpRec
<1>7. storeOp' = [storeOp EXCEPT ![t] = o]
  BY <1>1, <1>5
<1>8. <<>> \o o.left \in Lists
  BY <1>3, <1>6, ListEnds
<1>9. \A u \in Threads : u # t => storeOp[u].kind \in {"none", "wants"}
  BY <1>2, ReadyFacts, DatabaseAssumption DEF OpRec
<1> HIDE DEF r
<1> QED BY <1>2, <1>3, <1>6, <1>7, <1>8, <1>9, TodosStep

LEMMA TodoInserted == ASSUME DatabaseInv, NEW t \in Threads, InsertsTodo(t) PROVE DatabaseInv'
<1>1. /\ storeOp[t].kind = "todos" /\ opening = "ready" /\ storeOp[t] \in OpRec
      /\ storeOp[t].s \in Sessions /\ connMu = t /\ connMu' = t
      /\ storeOp \in [Threads -> OpRec] /\ storeOp[t].left # <<>>
      /\ UNCHANGED <<disk, opening, cache, loop, touched, worked, lastWritten>>
      /\ db.todos[storeOp[t].s] \o storeOp[t].left \in Lists
  BY DEF InsertsTodo, InTxn, DatabaseInv, StoreTypeInv, OpInv
<1>2. PICK s \in Sessions : s = storeOp[t].s
  BY <1>1
<1>3. PICK l \in Seq(STRING) : l = storeOp[t].left
  BY <1>1 DEF OpRec
<1>4. db \in DatabaseRec /\ db.todos[s] \in Seq(STRING)
  BY DEF DatabaseInv, StoreTypeInv, DatabaseRec
<1>5. /\ Append(db.todos[s], Head(l)) \o Tail(l) \in Lists
      /\ Append(db.todos[s], Head(l)) \in Seq(STRING) /\ Tail(l) \in Seq(STRING)
  BY <1>1, <1>2, <1>3, <1>4, ListMoves
<1>6. PICK new \in Seq(STRING) : new = Append(db.todos[s], Head(l))
  BY <1>5
<1>7. db' = [db EXCEPT !.todos[s] = new]
  BY <1>2, <1>3, <1>6 DEF InsertsTodo, InTxn
<1>8. PICK rest \in Seq(STRING) : rest = Tail(l)
  BY <1>5
<1> DEFINE r == [storeOp[t] EXCEPT !.left = rest]
<1>9. r \in OpRec
  BY Zenon, <1>1 DEF OpRec
<1>10. PICK o \in OpRec : o = r
  BY <1>9
<1>11. o.kind = "todos" /\ o.s = s /\ o.left = rest
  BY <1>1, <1>2, <1>10 DEF OpRec
<1>12. storeOp' = [storeOp EXCEPT ![t] = o]
  BY <1>1, <1>3, <1>8, <1>10 DEF InsertsTodo
<1>13. \A u \in Threads : u # t => storeOp[u].kind \in {"none", "wants"}
  BY <1>1, ReadyFacts DEF OpRec
<1> HIDE DEF r
<1> QED BY <1>1, <1>2, <1>5, <1>6, <1>7, <1>8, <1>11, <1>12, <1>13, TodosStep

LEMMA TodosCommitted == ASSUME DatabaseInv, NEW t \in Threads, CommitsTodos(t) PROVE DatabaseInv'
<1>1. /\ storeOp[t].kind = "todos" /\ opening = "ready" /\ storeOp[t].left = <<>> /\ EndsOp(t)
      /\ storeOp[t].s \in Sessions /\ db' = db /\ disk' = db
      /\ UNCHANGED <<opening, cache, loop, touched, worked, lastWritten>>
      /\ db.todos[storeOp[t].s] \o storeOp[t].left \in Lists
  BY DEF CommitsTodos, Durable, DatabaseInv, OpInv
<1>2. /\ storeOp' \in [Threads -> OpRec] /\ connMu' \in Threads \cup {""} /\ storeOp'[t] = NoOp
      /\ \A u \in Threads : u # t => /\ storeOp'[u] = storeOp[u]
                                     /\ storeOp[u].kind \in {"none", "wants"}
  BY <1>1, CallEnds
<1>3. StoreTypeInv'
  BY <1>1, <1>2 DEF DatabaseInv, StoreTypeInv
<1>4. PlaceInv' /\ SameInv' /\ MarkInv'
  BY <1>1, ReadyFacts DEF DatabaseInv, PlaceInv, SameInv, MarkInv, UpgradedTo, Upgrading
<1>5. TodoInv'
  <2>1. ASSUME NEW s \in Sessions PROVE db.todos[s] \in Lists
    <3>1. CASE s = storeOp[t].s
      <4>1. db.todos[s] \in Seq(STRING)
        BY DEF DatabaseInv, StoreTypeInv, DatabaseRec
      <4> QED BY <1>1, <3>1, <4>1, ListEnds
    <3>2. CASE s # storeOp[t].s
      <4>1. \A u \in Threads : ~(storeOp[u].kind = "todos" /\ storeOp[u].s = s)
        BY <1>2, <3>2
      <4> QED BY <4>1 DEF DatabaseInv, TodoInv
    <3> QED BY <3>1, <3>2
  <2> QED BY <1>1, <2>1 DEF TodoInv
<1>6. ASSUME NEW u \in Threads PROVE OpInv(u)'
  <2>1. CASE u = t
    BY <1>2, <2>1, Texted DEF OpInv
  <2>2. CASE u # t
    BY <1>1, <1>2, <2>2 DEF DatabaseInv, OpInv
  <2> QED BY <2>1, <2>2
<1>7. ASSUME NEW s \in Sessions PROVE TurnInv(s)'
  BY <1>1 DEF DatabaseInv, TurnInv
<1> QED BY <1>3, <1>4, <1>5, <1>6, <1>7 DEF DatabaseInv

LEMMA CallFailed == ASSUME DatabaseInv, NEW t \in Threads, OpFails(t) PROVE DatabaseInv'
<1>1. /\ storeOp[t].kind \in {"patch", "todos"} /\ opening = "ready" /\ EndsOp(t)
      /\ UNCHANGED <<disk, opening, cache, loop, touched, worked, lastWritten>>
      /\ db' = IF storeOp[t].kind = "todos" THEN disk ELSE db
  BY DEF OpFails, DatabaseInv, OpInv
<1>2. /\ storeOp' \in [Threads -> OpRec] /\ connMu' \in Threads \cup {""} /\ storeOp'[t] = NoOp
      /\ \A u \in Threads : u # t => /\ storeOp'[u] = storeOp[u]
                                     /\ storeOp[u].kind \in {"none", "wants"}
  BY <1>1, CallEnds
<1>3. /\ db' \in DatabaseRec /\ db'.doc = db.doc /\ db'.calls = db.calls
      /\ db'.marked = db.marked /\ db'.version = db.version /\ db'.lastInput = db.lastInput
      /\ db'.permission = db.permission /\ db'.usedColumn = db.usedColumn
  BY <1>1, ReadyFacts
<1>4. StoreTypeInv'
  BY <1>1, <1>2, <1>3 DEF DatabaseInv, StoreTypeInv
<1>5. PlaceInv' /\ SameInv' /\ MarkInv'
  BY <1>1, <1>3, ReadyFacts DEF DatabaseInv, PlaceInv, SameInv, MarkInv, UpgradedTo, Upgrading
<1>6. TodoInv'
  <2>1. ASSUME NEW s \in Sessions PROVE db'.todos[s] \in Lists
    <3>1. CASE storeOp[t].kind = "todos"
      BY <1>1, <3>1 DEF DatabaseInv, TodoInv
    <3>2. CASE storeOp[t].kind = "patch"
      <4>1. \A u \in Threads : storeOp[u].kind # "todos"
        BY <1>2, <3>2
      <4> QED BY <1>1, <3>2, <4>1 DEF DatabaseInv, TodoInv
    <3> QED BY <1>1, <3>1, <3>2
  <2>2. \A s \in Sessions : disk'.todos[s] \in Lists
    BY <1>1 DEF DatabaseInv, TodoInv
  <2> QED BY <2>1, <2>2 DEF TodoInv
<1>7. ASSUME NEW u \in Threads PROVE OpInv(u)'
  <2>1. CASE u = t
    BY <1>2, <2>1, Texted DEF OpInv
  <2>2. CASE u # t
    BY <1>1, <1>2, <2>2 DEF DatabaseInv, OpInv
  <2> QED BY <2>1, <2>2
<1>8. ASSUME NEW s \in Sessions PROVE TurnInv(s)'
  BY <1>1, <1>3 DEF DatabaseInv, TurnInv
<1> QED BY <1>4, <1>5, <1>6, <1>7, <1>8 DEF DatabaseInv

(***************************************************************************)
(* Turns, and the killed process.                                          *)
(***************************************************************************)
LEMMA StepBegun == ASSUME DatabaseInv, NEW s \in Sessions, BeginsStep(s) PROVE DatabaseInv'
<1> DEFINE m == ModeOf(s)
<1>1. m \in {"build", "chat"}
  <2>1. cache[s] \in Modes
    BY DEF DatabaseInv, StoreTypeInv
  <2> QED BY <2>1 DEF ModeOf, Modes
<1>2. PICK mode \in {"build", "chat"} : mode = m
  BY <1>1
<1>3. PICK mark \in BOOLEAN : mark = MustMark(s, mode)
  BY DEF MustMark
<1>4. /\ opening = "ready" /\ (mark => connMu = "")
      /\ loop' = [loop EXCEPT ![s] = [mode |-> mode, marked |-> loop[s].marked \/ mark]]
      /\ IF mark THEN WritesRow([db EXCEPT !.marked = @ \cup {s}]) ELSE UNCHANGED <<db, disk>>
      /\ worked' = IF mode = "chat" THEN worked ELSE worked \cup {s}
      /\ UNCHANGED <<opening, storeOp, connMu, cache, opCount, kills, touched, lastWritten>>
  BY <1>2, <1>3 DEF BeginsStep
<1> HIDE DEF m
<1>5. /\ db \in DatabaseRec /\ disk \in DatabaseRec /\ storeOp \in [Threads -> OpRec]
      /\ loop \in [Sessions -> [mode: Modes, marked: BOOLEAN]]
      /\ worked \in SUBSET Sessions /\ db.marked \subseteq worked
  BY DEF DatabaseInv, StoreTypeInv, MarkInv
<1>6. /\ db'.doc = db.doc /\ db'.calls = db.calls /\ db'.todos = db.todos
      /\ db'.version = db.version /\ db'.lastInput = db.lastInput
      /\ db'.permission = db.permission /\ db'.usedColumn = db.usedColumn
      /\ db'.marked = IF mark THEN db.marked \cup {s} ELSE db.marked
      /\ db' \in DatabaseRec
  <2>1. CASE mark
    <3>1. db' = [db EXCEPT !.marked = @ \cup {s}]
      BY <1>4, <2>1 DEF WritesRow
    <3>2. db.marked \cup {s} \in SUBSET Sessions
      BY <1>5 DEF DatabaseRec
    <3>3. db' \in DatabaseRec
      BY Zenon, <1>5, <3>1, <3>2 DEF DatabaseRec
    <3> QED BY <1>5, <2>1, <3>1, <3>3 DEF DatabaseRec
  <2>2. CASE ~mark
    BY <1>4, <1>5, <2>2
  <2> QED BY <2>1, <2>2
<1>7. (disk' = disk /\ ~mark /\ db' = db) \/ disk' = db'
  <2>1. CASE mark
    <3>1. \A t \in Threads : storeOp[t].kind # "todos"
      BY <1>4, <2>1, DatabaseAssumption DEF DatabaseInv, OpInv
    <3> QED BY <1>4, <2>1, <3>1 DEF WritesRow
  <2>2. CASE ~mark
    BY <1>4, <2>2
  <2> QED BY <2>1, <2>2
<1>8. mode # "chat" => mark \/ loop[s].marked
  BY <1>3 DEF MustMark
<1>9. mark => mode # "chat"
  BY <1>3 DEF MustMark
<1>10. worked' \in SUBSET Sessions /\ db'.marked \subseteq worked' /\ worked \subseteq worked'
  BY <1>4, <1>5, <1>6, <1>9
<1>11. /\ loop' \in [Sessions -> [mode: Modes, marked: BOOLEAN]]
       /\ loop'[s].mode = mode /\ (loop'[s].marked => loop[s].marked \/ mark)
       /\ (loop[s].marked \/ mark => loop'[s].marked)
       /\ \A q \in Sessions : q # s => loop'[q] = loop[q]
  <2>1. (loop[s].marked \/ mark) \in BOOLEAN /\ mode \in Modes
    BY DEF Modes
  <2>2. PICK b \in BOOLEAN : b = (loop[s].marked \/ mark)
    BY <2>1
  <2>3. loop' = [loop EXCEPT ![s] = [mode |-> mode, marked |-> b]]
    BY <1>4, <2>2
  <2>4. [mode |-> mode, marked |-> b] \in [mode: Modes, marked: BOOLEAN]
    BY <2>1
  <2>5. /\ loop' \in [Sessions -> [mode: Modes, marked: BOOLEAN]]
        /\ loop'[s] = [mode |-> mode, marked |-> b]
        /\ \A q \in Sessions : q # s => loop'[q] = loop[q]
    BY <1>5, <2>3, <2>4
  <2> QED BY <2>2, <2>5
<1>12. StoreTypeInv'
  <2>1. disk' \in DatabaseRec
    BY <1>5, <1>6, <1>7
  <2> QED BY <1>4, <1>6, <1>10, <1>11, <2>1 DEF DatabaseInv, StoreTypeInv
<1>13. PlaceInv' /\ SameInv'
  BY <1>4, <1>6, <1>7, ReadyFacts DEF DatabaseInv, PlaceInv, SameInv, Upgrading
<1>14. MarkInv'
  <2>1. UpgradedTo(db)' /\ db'.version = 3
    BY <1>4, <1>5, <1>6, ReadyFacts DEF DatabaseInv, MarkInv, UpgradedTo
  <2>2. UpgradedTo(disk)' /\ disk'.version = 3 /\ disk'.marked \subseteq worked'
    <3>1. CASE disk' = db'
      BY <1>10, <2>1, <3>1 DEF UpgradedTo
    <3>2. CASE disk' = disk
      BY <1>4, <1>5, <1>10, <3>2, ReadyFacts DEF DatabaseInv, MarkInv, UpgradedTo
    <3> QED BY <1>7, <3>1, <3>2
  <2> QED BY <1>10, <2>1, <2>2 DEF MarkInv
<1>15. TodoInv'
  <2>1. CASE disk' = disk
    BY <1>4, <1>6, <2>1 DEF DatabaseInv, TodoInv
  <2>2. CASE mark /\ disk' = db'
    <3>1. \A t \in Threads : storeOp[t].kind # "todos"
      BY <1>4, <2>2, DatabaseAssumption DEF DatabaseInv, OpInv
    <3> QED BY <1>4, <1>6, <2>2, <3>1 DEF DatabaseInv, TodoInv
  <2>3. CASE ~mark
    BY <1>4, <2>1, <2>3
  <2> QED BY <1>7, <2>1, <2>2, <2>3
<1>16. ASSUME NEW t \in Threads PROVE OpInv(t)'
  BY <1>4, <1>6 DEF DatabaseInv, OpInv
<1>17. ASSUME NEW q \in Sessions PROVE TurnInv(q)'
  <2>1. CASE q = s
    <3>1. loop[s].marked => s \in db.marked
      BY DEF DatabaseInv, TurnInv
    <3>2. loop'[s].marked => s \in db'.marked
      BY <1>6, <1>11, <3>1
    <3>3. loop'[s].mode \notin {"", "chat"} => loop'[s].marked
      BY <1>8, <1>11
    <3> QED BY <1>4, <2>1, <3>2, <3>3 DEF TurnInv
  <2>2. CASE q # s
    BY <1>4, <1>6, <1>11, <2>2 DEF DatabaseInv, TurnInv
  <2> QED BY <2>1, <2>2
<1> QED BY <1>12, <1>13, <1>14, <1>15, <1>16, <1>17 DEF DatabaseInv

LEMMA NoTurnTyped ==
  /\ NoTurn \in [mode: Modes, marked: BOOLEAN] /\ NoTurn.mode = "" /\ ~NoTurn.marked
<1>1. NoTurn \in [mode: Modes, marked: BOOLEAN]
  BY Zenon DEF NoTurn, Modes
<1>2. NoTurn.mode = "" /\ ~NoTurn.marked
  BY DEF NoTurn
<1> QED BY <1>1, <1>2

LEMMA TurnEnded == ASSUME DatabaseInv, NEW s \in Sessions, EndsTurn(s) PROVE DatabaseInv'
<1>1. /\ UNCHANGED <<db, disk, opening, storeOp, connMu, cache, touched, worked, lastWritten>>
      /\ loop \in [Sessions -> [mode: Modes, marked: BOOLEAN]]
      /\ loop' = [loop EXCEPT ![s] = NoTurn]
  BY DEF EndsTurn, DatabaseInv, StoreTypeInv
<1>2. loop' \in [Sessions -> [mode: Modes, marked: BOOLEAN]] /\ loop'[s] = NoTurn
      /\ \A q \in Sessions : q # s => loop'[q] = loop[q]
  BY <1>1, NoTurnTyped
<1>3. StoreTypeInv'
  BY <1>1, <1>2 DEF DatabaseInv, StoreTypeInv
<1>4. PlaceInv' /\ SameInv' /\ MarkInv' /\ TodoInv'
  BY <1>1 DEF DatabaseInv, PlaceInv, SameInv, MarkInv, UpgradedTo, TodoInv
<1>5. \A t \in Threads : OpInv(t)'
  BY <1>1 DEF DatabaseInv, OpInv
<1>6. ASSUME NEW q \in Sessions PROVE TurnInv(q)'
  <2>1. CASE q = s
    BY <1>2, <2>1, NoTurnTyped DEF TurnInv
  <2>2. CASE q # s
    BY <1>1, <1>2, <2>2 DEF DatabaseInv, TurnInv
  <2> QED BY <2>1, <2>2
<1> QED BY <1>3, <1>4, <1>5, <1>6 DEF DatabaseInv

\* a tool of the project runs in a marked session only
LEMMA ToolRun == ASSUME DatabaseInv, NEW s \in Sessions, RunsTool(s) PROVE DatabaseInv'
<1>1. /\ UNCHANGED <<db, disk, opening, storeOp, connMu, cache, loop, worked, lastWritten>>
      /\ touched' = touched \cup {s} /\ loop[s].mode \notin {"", "chat"}
  BY DEF RunsTool, AllowedIn
<1>2. opening = "ready" /\ s \in db.marked
  <2>1. loop[s].marked /\ loop[s] # NoTurn
    BY <1>1, NoTurnTyped DEF DatabaseInv, TurnInv
  <2> QED BY <2>1 DEF DatabaseInv, TurnInv
<1>3. s \in disk.marked /\ db.version = 3 /\ disk.version = 3
  BY <1>2, ReadyFacts
<1>4. StoreTypeInv'
  BY <1>1 DEF DatabaseInv, StoreTypeInv
<1>5. PlaceInv' /\ SameInv' /\ TodoInv'
  BY <1>1 DEF DatabaseInv, PlaceInv, SameInv, TodoInv
<1>6. MarkInv'
  <2>1. touched' \subseteq db.marked /\ touched' \subseteq disk.marked
    <3>1. db.version >= 3 /\ disk.version >= 3
      BY <1>3
    <3>2. touched \subseteq db.marked /\ touched \subseteq disk.marked
      BY <3>1 DEF DatabaseInv, MarkInv, UpgradedTo
    <3>3. touched' = touched \cup {s}
      BY <1>1
    <3> QED BY <1>2, <1>3, <3>2, <3>3
  <2>2. /\ db.lastInput /\ ~db.permission /\ db.usedColumn
        /\ disk.lastInput /\ ~disk.permission /\ disk.usedColumn
    BY <1>3 DEF DatabaseInv, MarkInv, UpgradedTo
  <2>3. UpgradedTo(db)' /\ UpgradedTo(disk)'
    BY <1>1, <2>1, <2>2 DEF UpgradedTo
  <2>4. ~(disk'.version < 3)
    <3>1. disk' = disk
      BY <1>1
    <3> QED BY <1>3, <3>1
  <2> QED BY <1>1, <2>3, <2>4 DEF DatabaseInv, MarkInv
<1>7. \A t \in Threads : OpInv(t)'
  BY <1>1 DEF DatabaseInv, OpInv
<1>8. \A q \in Sessions : TurnInv(q)'
  BY <1>1 DEF DatabaseInv, TurnInv
<1> QED BY <1>4, <1>5, <1>6, <1>7, <1>8 DEF DatabaseInv

LEMMA Died == ASSUME DatabaseInv, ProcessDies PROVE DatabaseInv'
<1>1. /\ db' = disk /\ disk' = disk /\ opening' = "version"
      /\ storeOp' = [t \in Threads |-> NoOp] /\ connMu' = ""
      /\ cache' = [s \in Sessions |-> ""] /\ loop' = [s \in Sessions |-> NoTurn]
      /\ UNCHANGED <<touched, worked, lastWritten>>
  BY DEF ProcessDies
<1>2. StoreTypeInv'
  <2>1. opening' \in Places /\ "" \in Modes
    BY <1>1 DEF Places, Modes
  <2>2. storeOp' \in [Threads -> OpRec] /\ cache' \in [Sessions -> Modes]
        /\ loop' \in [Sessions -> [mode: Modes, marked: BOOLEAN]]
    BY Zenon, <1>1, <2>1, Texted, NoTurnTyped
  <2> QED BY <1>1, <2>1, <2>2 DEF DatabaseInv, StoreTypeInv
<1>3. PlaceInv' /\ SameInv'
  BY <1>1 DEF DatabaseInv, PlaceInv, SameInv, Upgrading
<1>4. MarkInv'
  BY <1>1 DEF DatabaseInv, MarkInv, UpgradedTo
<1>5. TodoInv'
  BY <1>1 DEF DatabaseInv, TodoInv
<1>6. ASSUME NEW t \in Threads PROVE OpInv(t)'
  BY <1>1, Texted DEF OpInv
<1>7. ASSUME NEW s \in Sessions PROVE TurnInv(s)'
  BY <1>1, NoTurnTyped DEF TurnInv
<1> QED BY <1>2, <1>3, <1>4, <1>5, <1>6, <1>7 DEF DatabaseInv

LEMMA NextDatabase == DatabaseInv /\ [DatabaseNext]_databaseVars => DatabaseInv'
<1> SUFFICES ASSUME DatabaseInv, [DatabaseNext]_databaseVars PROVE DatabaseInv'
  OBVIOUS
<1>1. CASE ReadsVersion
  BY <1>1, VersionRead
<1>2. CASE CreatesTables \/ AddsColumn \/ SetsVersion1 \/ DropsPermission \/ SetsVersion2
  <2>1. opening \in {"schema", "column", "one", "drop", "two"}
    BY <1>2 DEF CreatesTables, AddsColumn, SetsVersion1, DropsPermission, SetsVersion2
  <2> QED BY <1>2, <2>1, StatementRuns
<1>3. CASE AddsUsedColumn \/ Backfills \/ CommitsUpgrade
  BY <1>3, UpgradeRuns
<1>4. CASE SweepsTable \/ CommitsSweep \/ SweepFails
  BY <1>4, SweepRuns
<1>5. ASSUME NEW t \in Threads,
             \/ SetsFields(t) \/ SetsMode(t) \/ ReadsDoc(t) \/ WritesPatch(t)
             \/ StartsTodos(t) \/ InsertsTodo(t) \/ CommitsTodos(t) \/ OpFails(t)
      PROVE  DatabaseInv'
  BY <1>5, FieldsSet, ModeSet, DocRead, PatchWritten, TodosStarted, TodoInserted, TodosCommitted,
     CallFailed
<1>6. ASSUME NEW s \in Sessions, BeginsStep(s) \/ EndsTurn(s) \/ RunsTool(s) PROVE DatabaseInv'
  BY <1>6, StepBegun, TurnEnded, ToolRun
<1>7. CASE ProcessDies
  BY <1>7, Died
<1>8. CASE UNCHANGED databaseVars
  <2>1. UNCHANGED <<db, disk, opening, storeOp, connMu, cache, loop, touched, worked, lastWritten>>
    BY <1>8 DEF databaseVars
  <2>2. StoreTypeInv'
    BY <2>1 DEF DatabaseInv, StoreTypeInv
  <2>3. PlaceInv' /\ SameInv' /\ MarkInv' /\ TodoInv'
    BY <2>1 DEF DatabaseInv, PlaceInv, SameInv, MarkInv, UpgradedTo, TodoInv
  <2>4. (\A t \in Threads : OpInv(t)') /\ \A s \in Sessions : TurnInv(s)'
    BY <2>1 DEF DatabaseInv, OpInv, TurnInv
  <2> QED BY <2>2, <2>3, <2>4 DEF DatabaseInv
<1> QED BY <1>1, <1>2, <1>3, <1>4, <1>5, <1>6, <1>7, <1>8 DEF DatabaseNext

(***************************************************************************)
(* The theorems.                                                           *)
(***************************************************************************)
\* Where migrate, a store call and a turn each stand says what is in the file, on
\* the connection and under conn_mu_.
THEOREM DatabaseInvariant == DatabaseSpec => []DatabaseInv
<1>1. DatabaseInv /\ [DatabaseNext]_databaseVars => DatabaseInv'
  BY NextDatabase
<1> QED BY <1>1, InitDatabase, PTL DEF DatabaseSpec

\* The version is one migrate knows, the start is at one of its statements and
\* conn_mu_ has at most one holder.
THEOREM DatabaseTypesHold == DatabaseSpec => []DatabaseTypeOK
<1>1. DatabaseInv => DatabaseTypeOK
  BY DEF DatabaseInv, StoreTypeInv, DatabaseRec, Places, DatabaseTypeOK
<1> QED BY <1>1, DatabaseInvariant, PTL

\* Wherever a start or a call is killed or throws: the version of the file promises
\* nothing that is not there, a session whose tools worked in its directory is
\* marked and one that never left Chat is not, no patch of model_json loses the
\* field another thread wrote, and a to-do list is one that was given whole.
THEOREM StoreKeptHolds == DatabaseSpec => []StoreKept
<1>1. DatabaseInv => StoreKept
  <2> SUFFICES ASSUME DatabaseInv PROVE StoreKept
    OBVIOUS
  <2>1. UpgradedTo(disk) /\ UpgradedTo(db) /\ db.marked \subseteq worked
    BY DEF DatabaseInv, MarkInv
  <2>2. opening = "ready" => db.version = 3
    BY DEF DatabaseInv, PlaceInv
  <2>3. db.doc = lastWritten /\ disk.doc = lastWritten
    BY DEF DatabaseInv, SameInv
  <2>4. \A s \in Sessions : disk.todos[s] \in Lists
    BY DEF DatabaseInv, TodoInv
  <2> QED BY <2>1, <2>2, <2>3, <2>4 DEF StoreKept
<1> QED BY <1>1, DatabaseInvariant, PTL
=============================================================================
