-------------------------- MODULE ApprovalsProofs --------------------------
(***************************************************************************)
(* Proofs about the permission state and about the review windows, for     *)
(* every set of sessions, calls and documents: the flags converge, the     *)
(* gate decides what the documentation promises, and an approval somebody  *)
(* waits for can be answered.                                              *)
(***************************************************************************)
EXTENDS Permissions, ReviewWindows, TLAPS

(***************************************************************************)
(* What the permission state can hold.                                     *)
(***************************************************************************)
FlagSets == SUBSET FlagNames
Held == FlagSets \cup {Absent}
Shown == [mode: Modes, read: BOOLEAN, yolo: BOOLEAN]
Messages ==
  [what: {"sync"}] \cup [what: {"active"}, sess: Sessions]
  \cup [what: {"flag"}, sess: Sessions, flag: FlagNames, on: BOOLEAN]
CenterRec == [sess: Sessions, mode: Modes, read: Held, stale: BOOLEAN]

FlagTypes ==
  /\ mode \in [Sessions -> Modes] /\ active \in Sessions
  /\ stored \in [Sessions -> FlagSets] /\ told \in [Sessions -> FlagSets]
  /\ flags \in [Sessions -> Held]
  /\ armed \in [Sessions -> FlagSets]
  /\ shown \in Shown /\ center \in CenterRec
  /\ appbox \in Seq(Messages) /\ winbox \in Seq(Shown)

\* be_app will set this session's flags and derive its rules again
Pending(s) ==
  \E i \in 1..Len(appbox) : appbox[i].what \in {"flag", "active"} /\ appbox[i].sess = s

\* what holds of a session until then
Agrees(s) ==
  /\ flags[s] # Absent => stored[s] = flags[s]
  /\ mode[s] # "build" => armed[s] \subseteq {"read"}
  /\ mode[s] = "chat" => armed[s] = {}

\* be_app will be told of this flag again
PendingFlag(s, f) ==
  \E i \in 1..Len(appbox) : /\ appbox[i].what = "flag" /\ appbox[i].sess = s
                            /\ appbox[i].flag = f

\* until then the row and the copy say what the last toggle of it said
Kept(s, f) ==
  /\ f \in stored[s] <=> f \in told[s]
  /\ flags[s] # Absent => (f \in flags[s] <=> f \in told[s])
ToldInv ==
  \A s \in Sessions \ overwritten : \A f \in FlagNames : PendingFlag(s, f) \/ Kept(s, f)

FlagInv ==
  /\ FlagTypes
  /\ \A s \in Sessions : armed[s] \subseteq flags[s] /\ (Pending(s) \/ Agrees(s))
  /\ ToldInv

\* a slot of work has these fields whatever they hold
Slot(w) == w = [pc |-> w.pc, call |-> w.call, mode |-> w.mode, by |-> w.by,
                written |-> w.written, late |-> w.late]

Grants == {"temporary_exact", "session", "root"}
Placed(w) ==
  /\ w.pc # "idle" => w.call \in Calls /\ w.mode \in Modes
  /\ w.pc \in {"check", "asking", "answered", "ran"} => ~Blocked(w.call, w.mode, FALSE)
  /\ w.pc \in {"asking", "answered"} => w.written.effect # "deny"
  /\ w.pc = "answered" => w.by \in {"once", "session", "deny", "cancel"}
  /\ w.pc = "ran" =>
       /\ w.by = "builtin" => w.written = NoMatch /\ Exempt(w.call)
       /\ w.written.effect = "deny" => w.by \in Grants
  /\ ~w.late

WorkInv ==
  /\ work = [s \in Sessions |-> work[s]]
  /\ \A s \in Sessions : Slot(work[s]) /\ Placed(work[s])

\* the inductive invariant of Permissions
PermissionsInv == FlagInv /\ WorkInv

(***************************************************************************)
(* Lemmas about the flags and the queue.                                   *)
(***************************************************************************)
LEMMA AbsentIsNoSet == Absent \notin FlagSets
  <1>1. "absent" \in Absent /\ "absent" \notin FlagNames
    BY DEF Absent, FlagNames
  <1> QED BY <1>1 DEF FlagSets

\* what _ApplySessionRules arms
LEMMA DerivedFacts ==
  ASSUME NEW set \in Held, NEW m \in Modes
  PROVE  /\ Derived(set, m) \in FlagSets /\ Derived(set, m) \subseteq set
         /\ m # "build" => Derived(set, m) \subseteq {"read"}
         /\ m = "chat" => Derived(set, m) = {}
  <1>1. CASE set = Absent
    BY <1>1 DEF Derived, FlagSets
  <1>2. CASE set # Absent
    BY <1>2 DEF Derived, Held, FlagSets, Modes
  <1> QED BY <1>1, <1>2

LEMMA MessageFacts ==
  /\ Sync \in Messages
  /\ \A s \in Sessions : ActiveMsg(s) \in Messages
  /\ \A s \in Sessions, f \in FlagNames, on \in BOOLEAN : FlagMsg(s, f, on) \in Messages
  BY DEF Messages, Sync, ActiveMsg, FlagMsg

\* a message of a session says so
LEMMA MessageOf ==
  ASSUME NEW msg \in Messages
  PROVE  /\ msg.what \in {"sync", "active", "flag"}
         /\ msg.what \in {"active", "flag"} => msg.sess \in Sessions
         /\ msg.what = "flag" => msg.flag \in FlagNames /\ msg.on \in BOOLEAN
  BY DEF Messages

\* posting keeps what is pending
LEMMA PostKeeps ==
  ASSUME NEW q \in Seq(Messages), NEW msgs \in Seq(Messages)
  PROVE  /\ q \o msgs \in Seq(Messages)
         /\ \A i \in 1..Len(q) : i \in 1..Len(q \o msgs) /\ (q \o msgs)[i] = q[i]
         /\ \A i \in 1..Len(msgs) :
              Len(q) + i \in 1..Len(q \o msgs) /\ (q \o msgs)[Len(q) + i] = msgs[i]
  BY SMTT(30)

LEMMA TailKeeps ==
  ASSUME NEW S, NEW q \in Seq(S), q # <<>>
  PROVE  /\ Head(q) \in S /\ Head(q) = q[1] /\ Tail(q) \in Seq(S) /\ 1 \in 1..Len(q)
         /\ Len(q) = Len(Tail(q)) + 1 /\ Len(Tail(q)) \in Nat
         /\ \A i \in 1..Len(q) : i # 1 => i - 1 \in 1..Len(Tail(q)) /\ Tail(q)[i - 1] = q[i]
         /\ \A i \in 1..Len(Tail(q)) : i + 1 \in 1..Len(q) /\ Tail(q)[i] = q[i + 1]
  BY SMTT(30)

\* a step that only posts leaves every session pending or in agreement
LEMMA PostStep ==
  ASSUME FlagInv, NEW msgs \in Seq(Messages), Post(msgs), NEW s \in Sessions, Pending(s)
  PROVE  Pending(s)'
  <1>1. PICK i \in 1..Len(appbox) : appbox[i].what \in {"flag", "active"} /\ appbox[i].sess = s
    BY DEF Pending
  <1>2. i \in 1..Len(appbox') /\ appbox'[i] = appbox[i]
    BY PostKeeps DEF Post, FlagInv, FlagTypes
  <1> QED BY <1>1, <1>2 DEF Pending

\* what was posted is pending
LEMMA PostPends ==
  ASSUME FlagInv, NEW msgs \in Seq(Messages), Post(msgs), NEW s \in Sessions,
         NEW i \in 1..Len(msgs), msgs[i].what \in {"flag", "active"}, msgs[i].sess = s
  PROVE  Pending(s)'
  <1>1. Len(appbox) + i \in 1..Len(appbox') /\ appbox'[Len(appbox) + i] = msgs[i]
    BY PostKeeps DEF Post, FlagInv, FlagTypes
  <1> QED BY <1>1 DEF Pending

(***************************************************************************)
(* The flags converge.                                                     *)
(***************************************************************************)
LEMMA FlagsAtFirst == Init => FlagInv
  <1> SUFFICES ASSUME Init PROVE FlagInv
    OBVIOUS
  <1>1. FlagTypes
    <2>1. mode \in [Sessions -> Modes] /\ active \in Sessions
      BY DEF Init, Modes
    <2>2. /\ stored \in [Sessions -> FlagSets] /\ flags \in [Sessions -> Held]
          /\ armed \in [Sessions -> FlagSets] /\ told \in [Sessions -> FlagSets]
      BY DEF Init, FlagSets, Held
    <2>3. shown \in Shown /\ center \in CenterRec
      BY <2>1 DEF Init, Shown, CenterRec, Held
    <2>4. appbox \in Seq(Messages) /\ winbox \in Seq(Shown)
      <3>1. ActiveMsg(active) \in Messages /\ appbox = <<ActiveMsg(active)>> /\ winbox = <<>>
        BY <2>1, MessageFacts DEF Init, ActiveMsg
      <3> QED BY <3>1
    <2> QED BY <2>1, <2>2, <2>3, <2>4 DEF FlagTypes
  <1>2. ASSUME NEW s \in Sessions
        PROVE  armed[s] \subseteq flags[s] /\ Agrees(s)
    BY <1>2 DEF Init, Agrees
  <1>3. ToldInv
    BY DEF Init, ToldInv, Kept
  <1> QED BY <1>1, <1>2, <1>3 DEF FlagInv

\* a step that takes nothing from be_app's queue keeps what was told: a row it
\* changes is followed by a message of the flag
LEMMA ToldStays ==
  ASSUME FlagInv, UNCHANGED <<flags, told>>, overwritten \subseteq overwritten',
         \A i \in 1..Len(appbox) : i \in 1..Len(appbox') /\ appbox'[i] = appbox[i],
         \A s \in Sessions \ overwritten' : \A f \in FlagNames :
           (f \in stored'[s] <=> f \in stored[s]) \/ PendingFlag(s, f)'
  PROVE  ToldInv'
  <1>1. ASSUME NEW s \in Sessions \ overwritten', NEW f \in FlagNames
        PROVE  PendingFlag(s, f)' \/ Kept(s, f)'
    <2>1. PendingFlag(s, f) \/ Kept(s, f)
      BY <1>1 DEF FlagInv, ToldInv
    <2>2. PendingFlag(s, f) => PendingFlag(s, f)'
      BY DEF PendingFlag
    <2>3. CASE Kept(s, f) /\ (f \in stored'[s] <=> f \in stored[s])
      BY <2>3 DEF Kept
    <2> QED BY <1>1, <2>1, <2>2, <2>3
  <1> QED BY <1>1 DEF ToldInv

\* the windows set no flag and derive nothing: a row or a mode they change is
\* followed by a message, unless the mode becomes Build
LEMMA WindowStep ==
  ASSUME FlagInv, FlagTypes', ToldInv', UNCHANGED <<flags, armed>>,
         \A s \in Sessions : Pending(s) => Pending(s)',
         \A s \in Sessions : stored'[s] = stored[s] \/ Pending(s)',
         \A s \in Sessions : mode'[s] \in {mode[s], "build"} \/ Pending(s)'
  PROVE  FlagInv'
  <1>1. ASSUME NEW s \in Sessions
        PROVE  (armed[s] \subseteq flags[s])' /\ (Pending(s)' \/ Agrees(s)')
    <2>1. CASE Pending(s)'
      BY <1>1, <2>1 DEF FlagInv
    <2>2. CASE ~Pending(s)'
      <3>1. Agrees(s) /\ stored'[s] = stored[s] /\ mode'[s] \in {mode[s], "build"}
        BY <1>1, <2>2 DEF FlagInv
      <3> QED BY <1>1, <3>1 DEF FlagInv, Agrees
    <2> QED BY <2>1, <2>2
  <1> QED BY <1>1 DEF FlagInv

\* be_app takes a message of session h: the row, the flags and the rules of h
\* are made of one set
LEMMA FlagsSet ==
  ASSUME FlagInv, appbox # <<>>, appbox' = Tail(appbox),
         NEW h \in Sessions, NEW set \in FlagSets,
         appbox[1].what \in {"flag", "active"} => appbox[1].sess = h,
         stored' = [stored EXCEPT ![h] = set], told' \in [Sessions -> FlagSets], ToldInv',
         Notify([flags EXCEPT ![h] = set], [armed EXCEPT ![h] = Derived(set, mode[h])]),
         UNCHANGED <<mode, active, shown>>
  PROVE  FlagInv'
  <1> DEFINE nf == [flags EXCEPT ![h] = set]
  <1>1. /\ set \in Held /\ nf \in [Sessions -> Held] /\ nf[active] \in Held
        /\ mode[h] \in Modes /\ mode[active] \in Modes /\ active \in Sessions
    BY DEF FlagInv, FlagTypes, Held
  <1>2. /\ flags' = nf
        /\ armed' = [[armed EXCEPT ![h] = Derived(set, mode[h])]
                       EXCEPT ![active] = Derived(nf[active], mode[active])]
    BY DEF Notify
  <1>3. /\ Derived(set, mode[h]) \in FlagSets /\ Derived(nf[active], mode[active]) \in FlagSets
    BY <1>1, DerivedFacts
  <1>4. FlagTypes'
    <2>1. /\ mode' \in [Sessions -> Modes] /\ active' \in Sessions
          /\ stored' \in [Sessions -> FlagSets] /\ shown' \in Shown
      BY <1>1 DEF FlagInv, FlagTypes
    <2>2. flags' \in [Sessions -> Held] /\ armed' \in [Sessions -> FlagSets]
      BY <1>1, <1>2, <1>3 DEF FlagInv, FlagTypes
    <2>3. center' \in CenterRec
      BY DEF Notify, FlagInv, FlagTypes, CenterRec
    <2>4. appbox' \in Seq(Messages)
      BY TailKeeps DEF FlagInv, FlagTypes
    <2>5. winbox' \in Seq(Shown)
      <3>1. [mode |-> mode[active], read |-> "read" \in nf[active],
             yolo |-> mode[active] = "build" /\ "yolo" \in nf[active]] \in Shown
        BY <1>1 DEF Shown
      <3> QED BY <3>1 DEF Notify, FlagInv, FlagTypes
    <2> QED BY <2>1, <2>2, <2>3, <2>4, <2>5 DEF FlagTypes
  <1>5. ASSUME NEW s \in Sessions, Pending(s), s # h
        PROVE  Pending(s)'
    <2>1. PICK i \in 1..Len(appbox) : appbox[i].what \in {"flag", "active"} /\ appbox[i].sess = s
      BY <1>5 DEF Pending
    <2>2. i # 1
      BY <1>5, <2>1
    <2>3. i - 1 \in 1..Len(appbox') /\ appbox'[i - 1] = appbox[i]
      BY <2>2, TailKeeps DEF FlagInv, FlagTypes
    <2> QED BY <2>1, <2>3 DEF Pending
  <1>6. ASSUME NEW s \in Sessions
        PROVE  (armed[s] \subseteq flags[s])' /\ (Pending(s)' \/ Agrees(s)')
    <2>1. CASE s = h
      <3>1. flags'[s] = set /\ stored'[s] = set /\ armed'[s] = Derived(set, mode[s])
        BY <1>2, <2>1 DEF FlagInv, FlagTypes
      <3> QED BY <2>1, <1>1, <3>1, DerivedFacts DEF Agrees
    <2>2. CASE s # h /\ s = active
      <3>1. /\ flags'[s] = flags[s] /\ stored'[s] = stored[s]
            /\ armed'[s] = Derived(flags[s], mode[s]) /\ flags[s] \in Held
        BY <1>2, <2>2 DEF FlagInv, FlagTypes
      <3>2. Pending(s)' \/ Agrees(s)
        BY <2>2, <1>5 DEF FlagInv
      <3> QED BY <2>2, <1>1, <3>1, <3>2, DerivedFacts DEF Agrees
    <2>3. CASE s # h /\ s # active
      <3>1. flags'[s] = flags[s] /\ stored'[s] = stored[s] /\ armed'[s] = armed[s]
        BY <1>2, <2>3 DEF FlagInv, FlagTypes
      <3>2. (Pending(s)' \/ Agrees(s)) /\ armed[s] \subseteq flags[s]
        BY <2>3, <1>5 DEF FlagInv
      <3> QED BY <3>1, <3>2 DEF Agrees
    <2> QED BY <2>1, <2>2, <2>3
  <1> QED BY <1>4, <1>6 DEF FlagInv

\* be_app takes a message: what is told of another flag is still on its way
LEMMA FlagTaken ==
  ASSUME FlagInv, appbox # <<>>, appbox' = Tail(appbox), NEW s \in Sessions,
         NEW f \in FlagNames, PendingFlag(s, f),
         ~(appbox[1].what = "flag" /\ appbox[1].sess = s /\ appbox[1].flag = f)
  PROVE  PendingFlag(s, f)'
  <1>1. PICK i \in 1..Len(appbox) : /\ appbox[i].what = "flag" /\ appbox[i].sess = s
                                    /\ appbox[i].flag = f
    BY DEF PendingFlag
  <1>2. i # 1
    BY <1>1
  <1>3. i - 1 \in 1..Len(appbox') /\ appbox'[i - 1] = appbox[i]
    BY <1>2, TailKeeps DEF FlagInv, FlagTypes
  <1> QED BY <1>1, <1>3 DEF PendingFlag

\* a toggle sets its flag in the row and in the copy, and no other
LEMMA FlagTold ==
  ASSUME FlagInv, appbox # <<>>, appbox' = Tail(appbox),
         NEW h \in Sessions, NEW g \in FlagNames, NEW on \in BOOLEAN,
         appbox[1].what = "flag", appbox[1].sess = h, appbox[1].flag = g,
         AppFlag(h, g, on), UNCHANGED overwritten
  PROVE  told' \in [Sessions -> FlagSets] /\ ToldInv'
  <1> DEFINE new(set) == IF on THEN set \cup {g} ELSE set \ {g}
  <1>1. /\ stored' = [stored EXCEPT ![h] = new(SyncedBase(h))]
        /\ flags' = [flags EXCEPT ![h] = new(SyncedBase(h))]
        /\ told' = [told EXCEPT ![h] = new(told[h])]
    BY DEF AppFlag, Notify
  <1>2. /\ told \in [Sessions -> FlagSets] /\ stored \in [Sessions -> FlagSets]
        /\ flags \in [Sessions -> Held]
    BY DEF FlagInv, FlagTypes
  <1>3. told' \in [Sessions -> FlagSets]
    <2>1. new(told[h]) \in FlagSets
      BY <1>2 DEF FlagSets
    <2> HIDE DEF new
    <2> QED BY <1>1, <1>2, <2>1
  <1>4. ASSUME NEW s \in Sessions \ overwritten', NEW f \in FlagNames
        PROVE  PendingFlag(s, f)' \/ Kept(s, f)'
    <2>0. PendingFlag(s, f) \/ Kept(s, f)
      BY <1>4 DEF FlagInv, ToldInv
    <2>1. CASE s # h
      <3>1. stored'[s] = stored[s] /\ flags'[s] = flags[s] /\ told'[s] = told[s]
        BY <1>1, <1>2, <2>1
      <3>2. Kept(s, f) => Kept(s, f)'
        BY <3>1 DEF Kept
      <3> QED BY <2>0, <2>1, <3>2, FlagTaken
    <2>2. CASE s = h
      <3>1. /\ stored'[s] = new(SyncedBase(h)) /\ flags'[s] = new(SyncedBase(h))
            /\ told'[s] = new(told[h])
        BY <1>1, <1>2, <2>2
      <3>2. CASE f = g
        BY <3>1, <3>2 DEF Kept
      <3>3. CASE f # g /\ Kept(s, f)
        <4>1. f \in SyncedBase(h) <=> f \in told[h]
          BY <2>2, <3>3 DEF Kept, SyncedBase
        <4> QED BY <3>1, <3>3, <4>1 DEF Kept
      <3>4. CASE f # g /\ PendingFlag(s, f)
        BY <3>4, FlagTaken
      <3> QED BY <2>0, <3>2, <3>3, <3>4
    <2> QED BY <2>1, <2>2
  <1>5. ToldInv'
    BY <1>4 DEF ToldInv
  <1> QED BY <1>3, <1>5

\* another message changes no row and may read one again
LEMMA RowRead ==
  ASSUME FlagInv, appbox # <<>>, appbox' = Tail(appbox), appbox[1].what # "flag",
         UNCHANGED <<stored, history>>,
         \A s \in Sessions : flags'[s] \in {flags[s], stored[s]}
  PROVE  told' \in [Sessions -> FlagSets] /\ ToldInv'
  <1>1. told' \in [Sessions -> FlagSets]
    BY DEF FlagInv, FlagTypes, history
  <1>2. ASSUME NEW s \in Sessions \ overwritten', NEW f \in FlagNames
        PROVE  PendingFlag(s, f)' \/ Kept(s, f)'
    <2>1. PendingFlag(s, f) \/ Kept(s, f)
      BY <1>2 DEF FlagInv, ToldInv, history
    <2>2. Kept(s, f) => Kept(s, f)'
      BY <1>2 DEF Kept, history
    <2> QED BY <2>1, <2>2, FlagTaken
  <1>3. ToldInv'
    BY <1>2 DEF ToldInv
  <1> QED BY <1>1, <1>3

LEMMA AppStep == FlagInv /\ AppHandles => FlagInv'
  <1> SUFFICES ASSUME FlagInv, AppHandles PROVE FlagInv'
    OBVIOUS
  <1> DEFINE msg == Head(appbox)
  <1>1. /\ appbox # <<>> /\ appbox' = Tail(appbox) /\ UNCHANGED <<mode, active, shown>>
        /\ msg \in Messages /\ msg = appbox[1]
    BY TailKeeps DEF AppHandles, FlagInv, FlagTypes
  <1>2. CASE msg.what = "flag" /\ AppFlag(msg.sess, msg.flag, msg.on)
    <2> DEFINE h == msg.sess
               set == IF msg.on THEN SyncedBase(h) \cup {msg.flag}
                      ELSE SyncedBase(h) \ {msg.flag}
    <2>1. h \in Sessions /\ msg.flag \in FlagNames
      BY <1>1, <1>2, MessageOf
    <2>2. SyncedBase(h) \in FlagSets
      BY <2>1 DEF SyncedBase, FlagInv, FlagTypes, Held
    <2>3. set \in FlagSets
      BY <2>1, <2>2 DEF FlagSets
    <2>4. /\ stored' = [stored EXCEPT ![h] = set]
          /\ Notify([flags EXCEPT ![h] = set], [armed EXCEPT ![h] = Derived(set, mode[h])])
      BY <1>2 DEF AppFlag
    <2>5. told' \in [Sessions -> FlagSets] /\ ToldInv'
      <3>1. msg.on \in BOOLEAN /\ UNCHANGED overwritten
        BY <1>1, <1>2, MessageOf DEF AppHandles
      <3> QED BY <1>1, <1>2, <2>1, <3>1, FlagTold
    <2> HIDE DEF set
    <2> QED BY <1>1, <2>1, <2>3, <2>4, <2>5, FlagsSet
  <1>3. CASE msg.what = "active" /\ AppActive(msg.sess)
    <2> DEFINE h == msg.sess
    <2>1. h \in Sessions
      BY <1>1, <1>3, MessageOf
    <2>2. stored[h] \in FlagSets /\ stored' = [stored EXCEPT ![h] = stored[h]]
      BY <1>3, <2>1 DEF AppActive, FlagInv, FlagTypes
    <2>3. Notify([flags EXCEPT ![h] = stored[h]],
                 [armed EXCEPT ![h] = Derived(stored[h], mode[h])])
      BY <1>3 DEF AppActive
    <2>4. told' \in [Sessions -> FlagSets] /\ ToldInv'
      <3>1. UNCHANGED <<stored, history>>
        BY <1>3 DEF AppActive, AppHandles, history
      <3>2. \A s \in Sessions : flags'[s] \in {flags[s], stored[s]}
        BY <2>1, <2>3 DEF Notify, FlagInv, FlagTypes
      <3> QED BY <1>1, <1>3, <3>1, <3>2, RowRead
    <2> QED BY <1>1, <2>1, <2>2, <2>3, <2>4, FlagsSet
  <1>4. CASE msg.what = "sync" /\ Notify(flags, armed) /\ UNCHANGED <<stored, told>>
    <2>1. /\ flags' = flags /\ stored' = stored /\ active \in Sessions
          /\ armed' = [armed EXCEPT ![active] = Derived(flags[active], mode[active])]
      BY <1>4 DEF Notify, FlagInv, FlagTypes
    <2>2. flags[active] \in Held /\ mode[active] \in Modes
      BY <2>1 DEF FlagInv, FlagTypes
    <2>3. FlagTypes'
      <3>1. armed' \in [Sessions -> FlagSets]
        BY <2>1, <2>2, DerivedFacts DEF FlagInv, FlagTypes
      <3>2. center' \in CenterRec
        BY <1>4 DEF Notify, FlagInv, FlagTypes, CenterRec
      <3>3. appbox' \in Seq(Messages)
        BY <1>1, TailKeeps DEF FlagInv, FlagTypes
      <3>4. winbox' \in Seq(Shown)
        <4>1. [mode |-> mode[active], read |-> "read" \in flags[active],
               yolo |-> mode[active] = "build" /\ "yolo" \in flags[active]] \in Shown
          BY <2>2 DEF Shown
        <4> QED BY <4>1, <1>4 DEF Notify, FlagInv, FlagTypes
      <3> QED BY <1>1, <1>4, <2>1, <3>1, <3>2, <3>3, <3>4 DEF FlagInv, FlagTypes
    <2>6. ToldInv'
      BY <1>1, <1>4, <2>1, RowRead DEF AppHandles, history
    <2>4. ASSUME NEW s \in Sessions, Pending(s)
          PROVE  Pending(s)'
      <3>1. PICK i \in 1..Len(appbox) : appbox[i].what \in {"flag", "active"} /\ appbox[i].sess = s
        BY <2>4 DEF Pending
      <3>2. i # 1
        BY <1>1, <1>4, <3>1
      <3>3. i - 1 \in 1..Len(appbox') /\ appbox'[i - 1] = appbox[i]
        BY <1>1, <3>2, TailKeeps DEF FlagInv, FlagTypes
      <3> QED BY <3>1, <3>3 DEF Pending
    <2>5. ASSUME NEW s \in Sessions
          PROVE  (armed[s] \subseteq flags[s])' /\ (Pending(s)' \/ Agrees(s)')
      <3>1. CASE s = active
        <4>1. armed'[s] = Derived(flags[s], mode[s]) /\ (Pending(s)' \/ Agrees(s))
          BY <2>1, <2>4, <3>1 DEF FlagInv, FlagTypes
        <4> QED BY <1>1, <2>1, <2>2, <3>1, <4>1, DerivedFacts DEF Agrees
      <3>2. CASE s # active
        <4>1. armed'[s] = armed[s] /\ (Pending(s)' \/ Agrees(s)) /\ armed[s] \subseteq flags[s]
          BY <2>1, <2>4, <2>5, <3>2 DEF FlagInv, FlagTypes
        <4> QED BY <1>1, <2>1, <4>1 DEF Agrees
      <3> QED BY <3>1, <3>2
    <2> QED BY <2>3, <2>5, <2>6 DEF FlagInv
  <1> QED BY <1>2, <1>3, <1>4 DEF AppHandles

\* an action of a window: it posts msgs and touches neither be_app's flags
\* nor the rules
LEMMA Posted ==
  ASSUME FlagInv, NEW msgs \in Seq(Messages), Post(msgs), UNCHANGED <<stored, flags, armed, history>>,
         mode' \in [Sessions -> Modes], active' \in Sessions,
         shown' \in Shown, center' \in CenterRec, winbox' \in Seq(Shown),
         \A s \in Sessions :
           \/ mode'[s] \in {mode[s], "build"}
           \/ \E i \in 1..Len(msgs) : msgs[i].what \in {"flag", "active"} /\ msgs[i].sess = s
  PROVE  FlagInv'
  <1>1. appbox' \in Seq(Messages)
    BY PostKeeps DEF Post, FlagInv, FlagTypes
  <1>2. FlagTypes'
    BY <1>1 DEF FlagInv, FlagTypes, history
  <1>3. \A s \in Sessions : Pending(s) => Pending(s)'
    BY PostStep
  <1>4. \A s \in Sessions : mode'[s] \in {mode[s], "build"} \/ Pending(s)'
    BY PostPends
  <1>5. ToldInv'
    <2>1. \A i \in 1..Len(appbox) : i \in 1..Len(appbox') /\ appbox'[i] = appbox[i]
      BY PostKeeps DEF Post, FlagInv, FlagTypes
    <2> QED BY <2>1, ToldStays DEF history
  <1> QED BY <1>2, <1>3, <1>4, <1>5, WindowStep

\* an action that leaves be_app's queue alone
LEMMA Silent ==
  ASSUME FlagInv, UNCHANGED <<mode, stored, flags, armed, active, appbox, history>>,
         shown' \in Shown, center' \in CenterRec, winbox' \in Seq(Shown)
  PROVE  FlagInv'
  <1>1. FlagTypes'
    BY DEF FlagInv, FlagTypes, history
  <1>2. \A s \in Sessions : Pending(s) => Pending(s)'
    BY DEF Pending
  <1>3. ToldInv'
    BY ToldStays DEF history
  <1> QED BY <1>1, <1>2, <1>3, WindowStep

LEMMA RefreshPosts ==
  ASSUME NEW s, NEW m
  PROVE  RefreshModeButton(s, m) \in Seq(Messages)
  BY MessageFacts DEF RefreshModeButton

LEMMA SinglePost == <<>> \in Seq(Messages) /\ \A x \in Messages : <<x>> \in Seq(Messages)
  OBVIOUS

LEMMA JoinFacts ==
  ASSUME NEW x \in Messages, NEW y \in Messages, NEW t \in Seq(Messages)
  PROVE  <<x, y>> \o t \in Seq(Messages) /\ Len(<<x, y>> \o t) > 0 /\ (<<x, y>> \o t)[1] = x
  <1>1. <<x, y>> \in Seq(Messages) /\ Len(<<x, y>>) = 2 /\ <<x, y>>[1] = x
    OBVIOUS
  <1> QED BY <1>1, PostKeeps

LEMMA OffPosts ==
  ASSUME NEW s \in Sessions, NEW m \in Modes
  PROVE  /\ InapplicableOff(s, m) \in Seq(Messages)
         /\ m # "build" => /\ Len(InapplicableOff(s, m)) > 0
                           /\ InapplicableOff(s, m)[1] = FlagMsg(s, "auto", FALSE)
  <1>1. /\ FlagMsg(s, "auto", FALSE) \in Messages /\ FlagMsg(s, "yolo", FALSE) \in Messages
        /\ FlagMsg(s, "read", FALSE) \in Messages
    BY MessageFacts DEF FlagNames
  <1> DEFINE rest == IF m = "chat" THEN <<FlagMsg(s, "read", FALSE)>> ELSE <<>>
  <1>2. rest \in Seq(Messages)
    <2>1. CASE m = "chat"
      BY Zenon, <1>1, <2>1, SinglePost
    <2>2. CASE m # "chat"
      BY Zenon, <2>2, SinglePost
    <2> QED BY <2>1, <2>2
  <1>3. CASE m = "build"
    BY <1>3 DEF InapplicableOff
  <1>4. CASE m # "build"
    <2>1. InapplicableOff(s, m)
            = <<FlagMsg(s, "auto", FALSE), FlagMsg(s, "yolo", FALSE)>> \o rest
      BY <1>4 DEF InapplicableOff
    <2> HIDE DEF rest
    <2>2. <<FlagMsg(s, "auto", FALSE), FlagMsg(s, "yolo", FALSE)>> \o rest \in Seq(Messages)
          /\ Len(<<FlagMsg(s, "auto", FALSE), FlagMsg(s, "yolo", FALSE)>> \o rest) > 0
          /\ (<<FlagMsg(s, "auto", FALSE), FlagMsg(s, "yolo", FALSE)>> \o rest)[1]
               = FlagMsg(s, "auto", FALSE)
      BY <1>1, <1>2, JoinFacts
    <2> QED BY <2>1, <2>2
  <1> QED BY <1>3, <1>4

LEMMA FlagStep == FlagInv /\ [Next]_vars => FlagInv'
  <1> SUFFICES ASSUME FlagInv, [Next]_vars PROVE FlagInv'
    OBVIOUS
  <1>0. /\ mode \in [Sessions -> Modes] /\ active \in Sessions
        /\ shown \in Shown /\ center \in CenterRec /\ winbox \in Seq(Shown)
    BY DEF FlagInv, FlagTypes
  <1>1. ASSUME NEW m \in Modes, SetMode(m) PROVE FlagInv'
    <2> DEFINE refresh == RefreshModeButton(active, mode[active])
               posts == InapplicableOff(active, m) \o (<<Sync>> \o RefreshModeButton(active, m))
    <2>1. CASE UNCHANGED mode /\ m = mode[active] /\ Post(RefreshModeButton(active, m))
      BY <1>0, <1>1, <2>1, RefreshPosts, Posted DEF SetMode
    <2>2. CASE UNCHANGED mode /\ Post(refresh)
      BY <1>0, <1>1, <2>2, RefreshPosts, Posted DEF SetMode
    <2>3. CASE /\ mode' = [mode EXCEPT ![active] = m]
               /\ Post(InapplicableOff(active, m) \o <<Sync>> \o RefreshModeButton(active, m))
      <3>1. /\ <<Sync>> \in Seq(Messages) /\ RefreshModeButton(active, m) \in Seq(Messages)
            /\ InapplicableOff(active, m) \in Seq(Messages)
        BY Zenon, <1>0, <1>1, RefreshPosts, OffPosts, MessageFacts, SinglePost
      <3>2. /\ InapplicableOff(active, m) \o <<Sync>> \in Seq(Messages)
            /\ InapplicableOff(active, m) \o <<Sync>> \o RefreshModeButton(active, m)
                 \in Seq(Messages)
        BY <3>1, PostKeeps
      <3> DEFINE all == InapplicableOff(active, m) \o <<Sync>> \o RefreshModeButton(active, m)
      <3>3. m # "build" => 1 \in 1..Len(all) /\ all[1] = FlagMsg(active, "auto", FALSE)
        <4>1. SUFFICES ASSUME m # "build"
                       PROVE  1 \in 1..Len(all) /\ all[1] = FlagMsg(active, "auto", FALSE)
          OBVIOUS
        <4>2. /\ 1 \in 1..Len(InapplicableOff(active, m))
              /\ InapplicableOff(active, m)[1] = FlagMsg(active, "auto", FALSE)
          <5>1. /\ Len(InapplicableOff(active, m)) > 0
                /\ InapplicableOff(active, m)[1] = FlagMsg(active, "auto", FALSE)
            BY Zenon, <4>1, <1>0, <1>1, OffPosts
          <5>2. Len(InapplicableOff(active, m)) \in Nat
            BY <3>1
          <5> QED BY <5>1, <5>2
        <4>3. /\ 1 \in 1..Len(InapplicableOff(active, m) \o <<Sync>>)
              /\ (InapplicableOff(active, m) \o <<Sync>>)[1] = FlagMsg(active, "auto", FALSE)
          BY <4>2, <3>1, PostKeeps
        <4> QED BY <4>3, <3>1, <3>2, PostKeeps
      <3>4. \A s \in Sessions :
              \/ mode'[s] \in {mode[s], "build"}
              \/ \E i \in 1..Len(all) : all[i].what \in {"flag", "active"} /\ all[i].sess = s
        BY <1>0, <2>3, <3>3 DEF FlagMsg
      <3>5. mode' \in [Sessions -> Modes] /\ all \in Seq(Messages) /\ Post(all)
        BY <1>0, <2>3, <3>2
      <3> HIDE DEF all
      <3> QED BY <1>0, <1>1, <3>4, <3>5, Posted DEF SetMode
    <2> QED BY <1>1, <2>1, <2>2, <2>3 DEF SetMode
  <1>2. ASSUME NEW s \in Sessions, ApprovePlan(s) PROVE FlagInv'
    <2> DEFINE posts == IF s = active THEN RefreshModeButton(s, "build") ELSE <<>>
    <2>1. posts \in Seq(Messages) /\ Post(posts)
      BY <1>2, RefreshPosts DEF ApprovePlan
    <2>2. mode' \in [Sessions -> Modes] /\ \A t \in Sessions : mode'[t] \in {mode[t], "build"}
      BY <1>0, <1>2 DEF ApprovePlan, Modes
    <2> HIDE DEF posts
    <2> QED BY <1>0, <1>2, <2>1, <2>2, Posted DEF ApprovePlan
  <1>3. ASSUME NEW s \in Sessions, SelectSession(s) PROVE FlagInv'
    <2> DEFINE posts == <<ActiveMsg(s)>> \o RefreshModeButton(s, mode[s]) \o <<Sync>>
    <2>1. /\ <<ActiveMsg(s)>> \in Seq(Messages) /\ <<Sync>> \in Seq(Messages)
          /\ RefreshModeButton(s, mode[s]) \in Seq(Messages)
      BY <1>3, RefreshPosts, MessageFacts
    <2>2. posts \in Seq(Messages) /\ Post(posts)
      BY <1>3, <2>1, PostKeeps DEF SelectSession
    <2> HIDE DEF posts
    <2> QED BY <1>0, <1>3, <2>2, Posted DEF SelectSession
  <1>4. ASSUME NEW s \in Sessions, CenterSelect(s) PROVE FlagInv'
    <2>1. center' \in CenterRec
      BY <1>0, <1>4 DEF CenterSelect, CenterRec
    <2> QED BY <1>0, <1>4, <2>1, Silent DEF CenterSelect
  <1>5. ASSUME NEW preset, PickPreset(preset) PROVE FlagInv'
    <2>1. CASE Post(<<Sync>>)
      <3>1. <<Sync>> \in Seq(Messages)
        BY MessageFacts
      <3> QED BY <1>0, <1>5, <2>1, <3>1, Posted DEF PickPreset
    <2>2. CASE Post(<<FlagMsg(active, "auto", preset = "auto"),
                      FlagMsg(active, "yolo", preset = "yolo")>>)
      <3>1. /\ FlagMsg(active, "auto", preset = "auto") \in Messages
            /\ FlagMsg(active, "yolo", preset = "yolo") \in Messages
        BY <1>0, MessageFacts DEF FlagNames
      <3>2. <<FlagMsg(active, "auto", preset = "auto"),
              FlagMsg(active, "yolo", preset = "yolo")>> \in Seq(Messages)
        BY <3>1
      <3> QED BY <1>0, <1>5, <2>2, <3>2, Posted DEF PickPreset
    <2> QED BY <1>5, <2>1, <2>2 DEF PickPreset
  <1>6. ASSUME ToggleRead PROVE FlagInv'
    <2>1. CASE Post(<<Sync>>) /\ UNCHANGED shown
      <3>1. <<Sync>> \in Seq(Messages)
        BY MessageFacts
      <3> QED BY <1>0, <1>6, <2>1, <3>1, Posted DEF ToggleRead
    <2>2. CASE /\ Post(<<FlagMsg(active, "read", ~shown.read)>>)
               /\ shown' = [shown EXCEPT !.read = ~@]
      <3>1. (~shown.read) \in BOOLEAN /\ shown' \in Shown
        BY <1>0, <2>2 DEF Shown
      <3>2. FlagMsg(active, "read", ~shown.read) \in Messages
        BY <1>0, <3>1, MessageFacts DEF FlagNames
      <3>3. <<FlagMsg(active, "read", ~shown.read)>> \in Seq(Messages)
        BY <3>2
      <3> QED BY <1>0, <1>6, <2>2, <3>1, <3>3, Posted DEF ToggleRead
    <2> QED BY <1>6, <2>1, <2>2 DEF ToggleRead
  <1>7. ASSUME PermStatus PROVE FlagInv'
    <2>1. shown' \in Shown /\ winbox' \in Seq(Shown)
      BY <1>0, <1>7, TailKeeps DEF PermStatus
    <2> QED BY <1>0, <1>7, <2>1, Silent DEF PermStatus
  <1>8. ASSUME CenterRefresh PROVE FlagInv'
    <2>1. center' \in CenterRec
      BY <1>0, <1>8 DEF CenterRefresh, CenterRec
    <2> QED BY <1>0, <1>8, <2>1, Silent DEF CenterRefresh
  <1>9. ASSUME CenterRead PROVE FlagInv'
    <2>1. center' \in CenterRec
      BY <1>0, <1>9 DEF CenterRead, CenterRec, FlagInv, FlagTypes, Held
    <2> QED BY <1>0, <1>9, <2>1, Silent DEF CenterRead
  <1>10. ASSUME NEW f \in FlagNames, NEW on \in BOOLEAN, CenterToggle(f, on) PROVE FlagInv'
    <2>0. PICK h \in Sessions : h = center.sess
      BY <1>0 DEF CenterRec
    <2> DEFINE posts == <<FlagMsg(h, f, on)>>
    <2>1. center.read \in FlagSets
      BY <1>0, <1>10 DEF CenterToggle, CenterRec, Held
    <2>2. posts \in Seq(Messages) /\ Post(posts)
      <3>1. FlagMsg(h, f, on) \in Messages
        BY <1>10, MessageFacts
      <3> QED BY <1>10, <2>0, <3>1, SinglePost DEF CenterToggle
    <2>3. center' \in CenterRec
      BY <1>0, <1>10 DEF CenterToggle, CenterRec, Held
    <2>4. /\ stored' \in [Sessions -> FlagSets]
          /\ \A s \in Sessions \ {h} : stored'[s] = stored[s]
      BY <1>10, <2>0, <2>1 DEF CenterToggle, FlagInv, FlagTypes, FlagSets
    <2>5. appbox' \in Seq(Messages)
      BY <2>2, PostKeeps DEF Post, FlagInv, FlagTypes
    <2>6. FlagTypes'
      BY <1>10, <2>3, <2>4, <2>5 DEF CenterToggle, FlagInv, FlagTypes
    <2>11. ToldInv'
      <3>1. \A i \in 1..Len(appbox) : i \in 1..Len(appbox') /\ appbox'[i] = appbox[i]
        BY <2>2, PostKeeps DEF Post, FlagInv, FlagTypes
      <3>2. PendingFlag(h, f)'
        <4>1. Len(appbox) + 1 \in 1..Len(appbox') /\ appbox'[Len(appbox) + 1] = posts[1]
          BY <2>2, PostKeeps DEF Post, FlagInv, FlagTypes
        <4>2. posts[1].what = "flag" /\ posts[1].sess = h /\ posts[1].flag = f
          BY DEF FlagMsg
        <4> QED BY <4>1, <4>2 DEF PendingFlag
      <3>3. ASSUME NEW s \in Sessions \ overwritten', NEW g \in FlagNames
            PROVE  (g \in stored'[s] <=> g \in stored[s]) \/ PendingFlag(s, g)'
        <4>1. CASE s # h
          BY <2>4, <3>3, <4>1
        <4>2. CASE s = h /\ g = f
          BY <3>2, <4>2
        <4>3. CASE s = h /\ g # f
          <5>1. center.read \ {f} = stored[h] \ {f}
            BY <1>10, <2>0, <3>3, <4>3 DEF CenterToggle
          <5>2. stored'[h] = center.read \cup {f} \/ stored'[h] = center.read \ {f}
            BY <1>10, <2>0 DEF CenterToggle, FlagInv, FlagTypes
          <5> QED BY <4>3, <5>1, <5>2
        <4> QED BY <4>1, <4>2, <4>3
      <3>4. UNCHANGED <<flags, told>> /\ overwritten \subseteq overwritten'
        BY <1>10 DEF CenterToggle
      <3> QED BY <3>1, <3>3, <3>4, ToldStays
    <2>7. Pending(h)'
      <3>1. /\ 1 \in 1..Len(posts) /\ posts[1].sess = h
            /\ posts[1].what \in {"flag", "active"}
        BY DEF FlagMsg
      <3> HIDE DEF posts
      <3> QED BY <2>1, <2>2, <3>1, PostPends
    <2>8. \A s \in Sessions : Pending(s) => Pending(s)'
      BY <2>2, PostStep
    <2>9. UNCHANGED <<mode, flags, armed>>
      BY <1>10 DEF CenterToggle
    <2>10. /\ \A s \in Sessions : stored'[s] = stored[s] \/ Pending(s)'
           /\ \A s \in Sessions : mode'[s] \in {mode[s], "build"} \/ Pending(s)'
      BY <2>4, <2>7, <2>9
    <2> QED BY <2>6, <2>8, <2>9, <2>10, <2>11, WindowStep
  <1>11. CASE UNCHANGED wins
    BY <1>0, <1>11, Silent DEF wins
  <1>12. AppHandles => FlagInv'
    BY AppStep
  <1>13. ASSUME NEW g, Revoke(g) PROVE UNCHANGED wins
    BY <1>13 DEF Revoke
  <1>14. ASSUME NEW rules, PolicySaved(rules) PROVE UNCHANGED wins
    BY <1>14 DEF PolicySaved
  <1>15. ASSUME NEW s, EvaluateCall(s) \/ CheckTool(s) \/ Wake(s) \/ Return(s) \/ Interrupt(s)
                       \/ CancelAsk(s)
         PROVE  UNCHANGED wins
    BY <1>15 DEF EvaluateCall, CheckTool, Wake, Return, Interrupt, CancelAsk
  <1>16. ASSUME NEW s, NEW call, Step(s, call) PROVE UNCHANGED wins
    BY <1>16 DEF Step
  <1>17. ASSUME NEW s, NEW decision, Answer(s, decision) PROVE UNCHANGED wins
    BY <1>17 DEF Answer
  <1>18. CASE UNCHANGED vars
    BY <1>11, <1>18 DEF vars
  <1> QED BY <1>1, <1>2, <1>3, <1>4, <1>5, <1>6, <1>7, <1>8, <1>9, <1>10, <1>11, <1>12,
             <1>13, <1>14, <1>15, <1>16, <1>17, <1>18 DEF Next

(***************************************************************************)
(* What the gate decides.                                                  *)
(***************************************************************************)
\* a toggle can only allow, whichever rules are armed
LEMMA TogglesAllow ==
  ASSUME NEW set \in FlagSets, NEW call
  PROVE  LayerDecision(SessionRules(set), "session", call)
           \in {NoMatch, Decision("allow", "session")}
  <1> DEFINE rules == SessionRules(set)
             hits == {i \in DOMAIN rules : RuleMatches(rules[i], call)}
             last == CHOOSE i \in hits : \A j \in hits : j <= i
  <1>1. DOMAIN rules \subseteq 1..3 /\ \A i \in DOMAIN rules : rules[i].effect = "allow"
    <2>1. /\ RuleOf["auto"].effect = "allow" /\ RuleOf["yolo"].effect = "allow"
          /\ RuleOf["read"].effect = "allow"
      BY DEF RuleOf
    <2> DEFINE on(f) == IF f \in set THEN <<RuleOf[f]>> ELSE <<>>
    <2>2. rules = on("auto") \o on("yolo") \o on("read")
      BY DEF SessionRules
    <2>3. \A f \in FlagNames : /\ DOMAIN on(f) \subseteq {1} /\ Len(on(f)) \in {0, 1}
                               /\ \A i \in DOMAIN on(f) : on(f)[i].effect = "allow"
      BY <2>1 DEF FlagNames
    <2> QED BY <2>1, <2>2, SMTT(30)
  <1>2. CASE hits = {}
    BY <1>2 DEF LayerDecision
  <1>3. CASE hits # {}
    <2>1. hits \subseteq 1..3
      BY <1>1
    <2>2. \E i \in hits : \A j \in hits : j <= i
      <3> HIDE DEF hits
      <3>1. CASE 3 \in hits
        BY <2>1, <3>1
      <3>2. CASE 3 \notin hits /\ 2 \in hits
        BY <2>1, <3>2
      <3>3. CASE 3 \notin hits /\ 2 \notin hits
        <4>1. \A i \in hits : i = 1
          BY <2>1, <3>3
        <4> QED BY <1>3, <4>1
      <3> QED BY <3>1, <3>2, <3>3
    <2>3. last \in hits
      <3> HIDE DEF hits
      <3> QED BY <2>2
    <2>4. rules[last].effect = "allow"
      BY <1>1, <2>3
    <2> QED BY <1>3, <2>4 DEF LayerDecision
  <1> QED BY <1>2, <1>3

\* a layer without a rule for the call leaves the decision to the user
LEMMA LayerShape ==
  ASSUME NEW rules, NEW source, NEW call
  PROVE  \/ LayerDecision(rules, source, call) = NoMatch
         \/ \E effect : LayerDecision(rules, source, call) = Decision(effect, source)
  BY DEF LayerDecision

\* a Deny of the documents is passed over by the user's own grants alone, and
\* the gate is silent only where the documents are
LEMMA GateFacts ==
  ASSUME NEW s \in Sessions, armed \in [Sessions -> FlagSets], NEW call
  PROVE  LET d == GateEvaluate(Snapshot(s), call) IN
         /\ d = NoMatch => Written(call) = NoMatch
         /\ d.source \in {"temporary_exact", "session", "configuration", "prompt"}
         /\ Written(call).effect = "deny" =>
              d.effect = "deny" \/ (d.effect = "allow" /\ d.source \in Grants)
  <1> DEFINE state == Snapshot(s)
             toggles == LayerDecision(SessionRules(armed[s]), "session", call)
             documents == LayerDecision(configured, "configuration", call)
             granted == <<call.action, call.resource>> \in exact[s]
             d == GateEvaluate(state, call)
  <1>1. toggles \in {NoMatch, Decision("allow", "session")}
    BY TogglesAllow
  <1>2. documents = NoMatch \/ \E effect : documents = Decision(effect, "configuration")
    BY LayerShape
  <1>3. d = IF granted THEN Decision("allow", "temporary_exact")
            ELSE IF toggles.effect # "ask" THEN toggles
            ELSE IF documents.effect # "ask" THEN documents
            ELSE IF toggles # NoMatch THEN toggles ELSE documents
    BY DEF GateEvaluate, Snapshot
  <1>4. Written(call) = documents
    BY DEF Written
  <1> SUFFICES
        /\ d = NoMatch => documents = NoMatch
        /\ d.source \in {"temporary_exact", "session", "configuration", "prompt"}
        /\ documents.effect = "deny" =>
             d.effect = "deny" \/ (d.effect = "allow" /\ d.source \in Grants)
    BY <1>4
  <1> HIDE DEF toggles, documents, granted, d
  <1>5. CASE granted
    BY <1>3, <1>5 DEF Decision, NoMatch, Grants
  <1>6. CASE ~granted /\ toggles = Decision("allow", "session")
    BY <1>3, <1>6 DEF Decision, NoMatch, Grants
  <1>7. CASE ~granted /\ toggles = NoMatch
    BY <1>2, <1>3, <1>7 DEF Decision, NoMatch, Grants
  <1> QED BY <1>1, <1>5, <1>6, <1>7

\* nothing that changes the project passes in Plan, nothing local in Chat, and
\* no exemption of a read follows a link out of the project
LEMMA ModeKept ==
  ASSUME NEW call \in Calls, NEW m \in Modes, ~Blocked(call, m, FALSE)
  PROVE  /\ m = "plan" => ~Changes(call)
         /\ m = "chat" => call.action \notin {"read", "write", "bash", "git"}
  <1>1. ToolAllowedInMode(call.tool, m) /\ ~(call.tool = "git" /\ m = "plan" /\ ~GitReadonly(call.git))
    BY DEF Blocked, ToolAvailable
  <1>2. CASE m = "plan"
    <2>1. call.tool \in PlanAllowed
      BY <1>1, <1>2 DEF ToolAllowedInMode
    <2>2. call.tool \notin {"write", "edit", "bash"}
      BY <2>1 DEF PlanAllowed
    <2> QED BY <1>1, <1>2, <2>2 DEF Changes
  <1>3. CASE m = "chat"
    <2>1. call.tool \in ChatAllowed /\ call.action = RequiredPermission(call.tool)
      BY <1>1, <1>3, PermissionsAssumption DEF ToolAllowedInMode, PermissionsAssumption
    <2>2. call.action = call.tool
      BY <2>1 DEF ChatAllowed, RequiredPermission, FileReaders
    <2> QED BY <1>3, <2>1, <2>2 DEF ChatAllowed
  <1> QED BY <1>2, <1>3 DEF Modes

LEMMA ExemptReads ==
  ASSUME NEW call \in Calls, Exempt(call), call.action = "read"
  PROVE  call.path.real # "elsewhere"
  <1>1. call.action = RequiredPermission(call.tool)
    BY PermissionsAssumption DEF PermissionsAssumption
  <1>2. call.tool \in FileReaders
    BY <1>1 DEF RequiredPermission, FileReaders
  <1>3. ResolvesWithin(call.path, "project")
    BY <1>2 DEF Exempt, FileReaders
  <1> QED BY <1>3 DEF ResolvesWithin

(***************************************************************************)
(* The worker.                                                             *)
(***************************************************************************)
\* a change of some fields of a slot, field by field
LEMMA FieldChanged ==
  ASSUME NEW a, NEW b, NEW c, NEW d, NEW e, NEW f, NEW r, NEW new,
         r = [pc |-> a, call |-> b, mode |-> c, by |-> d, written |-> e, late |-> f]
  PROVE  /\ [r EXCEPT !.pc = new]
              = [pc |-> new, call |-> b, mode |-> c, by |-> d, written |-> e, late |-> f]
         /\ [r EXCEPT !.call = new]
              = [pc |-> a, call |-> new, mode |-> c, by |-> d, written |-> e, late |-> f]
         /\ [r EXCEPT !.mode = new]
              = [pc |-> a, call |-> b, mode |-> new, by |-> d, written |-> e, late |-> f]
         /\ [r EXCEPT !.by = new]
              = [pc |-> a, call |-> b, mode |-> c, by |-> new, written |-> e, late |-> f]
         /\ [r EXCEPT !.written = new]
              = [pc |-> a, call |-> b, mode |-> c, by |-> d, written |-> new, late |-> f]
         /\ [r EXCEPT !.late = new]
              = [pc |-> a, call |-> b, mode |-> c, by |-> d, written |-> e, late |-> new]
  OBVIOUS

LEMMA SlotSettled ==
  ASSUME NEW r, Slot(r), NEW pc, NEW by, NEW written
  PROVE  [r EXCEPT !.pc = pc, !.by = by, !.written = written]
           = [pc |-> pc, call |-> r.call, mode |-> r.mode, by |-> by,
              written |-> written, late |-> r.late]
  <1>1. PICK r1 : r1 = [r EXCEPT !.pc = pc]
    OBVIOUS
  <1>2. r1 = [pc |-> pc, call |-> r.call, mode |-> r.mode, by |-> r.by,
              written |-> r.written, late |-> r.late]
    BY Zenon, <1>1, FieldChanged DEF Slot
  <1>3. PICK r2 : r2 = [r1 EXCEPT !.by = by]
    OBVIOUS
  <1>4. r2 = [pc |-> pc, call |-> r.call, mode |-> r.mode, by |-> by,
              written |-> r.written, late |-> r.late]
    BY Zenon, <1>2, <1>3, FieldChanged
  <1>7. PICK r3 : r3 = [r2 EXCEPT !.written = written]
    OBVIOUS
  <1>5. r3
          = [pc |-> pc, call |-> r.call, mode |-> r.mode, by |-> by,
             written |-> written, late |-> r.late]
    BY Zenon, <1>4, <1>7, FieldChanged
  <1>6. [r EXCEPT !.pc = pc, !.by = by, !.written = written] = r3
    BY <1>1, <1>3, <1>7
  <1> QED BY <1>5, <1>6

LEMMA SlotWoken ==
  ASSUME NEW r, Slot(r), NEW pc, NEW late
  PROVE  [r EXCEPT !.pc = pc, !.late = late]
           = [pc |-> pc, call |-> r.call, mode |-> r.mode, by |-> r.by,
              written |-> r.written, late |-> late]
  <1>1. PICK r1 : r1 = [r EXCEPT !.pc = pc]
    OBVIOUS
  <1>2. r1 = [pc |-> pc, call |-> r.call, mode |-> r.mode, by |-> r.by,
              written |-> r.written, late |-> r.late]
    BY Zenon, <1>1, FieldChanged DEF Slot
  <1>5. PICK r2 : r2 = [r1 EXCEPT !.late = late]
    OBVIOUS
  <1>3. r2
          = [pc |-> pc, call |-> r.call, mode |-> r.mode, by |-> r.by,
             written |-> r.written, late |-> late]
    BY Zenon, <1>2, <1>5, FieldChanged
  <1>4. [r EXCEPT !.pc = pc, !.late = late] = r2
    BY <1>1, <1>5
  <1> QED BY <1>3, <1>4

LEMMA SlotCalled ==
  ASSUME NEW pc, NEW call, NEW m
  PROVE  [Idle EXCEPT !.pc = pc, !.call = call, !.mode = m]
           = [pc |-> pc, call |-> call, mode |-> m, by |-> "none",
              written |-> NoMatch, late |-> FALSE]
  <1>0. PICK off : off = FALSE
    OBVIOUS
  <1>1. PICK r : r = Idle
    OBVIOUS
  <1>2. r = [pc |-> "idle", call |-> "none", mode |-> "build", by |-> "none",
             written |-> NoMatch, late |-> off]
    BY Zenon, <1>0, <1>1 DEF Idle
  <1>3. PICK r1 : r1 = [r EXCEPT !.pc = pc]
    OBVIOUS
  <1>4. r1 = [pc |-> pc, call |-> "none", mode |-> "build", by |-> "none",
              written |-> NoMatch, late |-> off]
    BY Zenon, <1>2, <1>3, FieldChanged
  <1>5. PICK r2 : r2 = [r1 EXCEPT !.call = call]
    OBVIOUS
  <1>6. r2 = [pc |-> pc, call |-> call, mode |-> "build", by |-> "none",
              written |-> NoMatch, late |-> off]
    BY Zenon, <1>4, <1>5, FieldChanged
  <1>9. PICK r3 : r3 = [r2 EXCEPT !.mode = m]
    OBVIOUS
  <1>7. r3
          = [pc |-> pc, call |-> call, mode |-> m, by |-> "none",
             written |-> NoMatch, late |-> off]
    BY Zenon, <1>6, <1>9, FieldChanged
  <1>8. [r EXCEPT !.pc = pc, !.call = call, !.mode = m] = r3
    BY <1>3, <1>5, <1>9
  <1> QED BY Zenon, <1>0, <1>1, <1>7, <1>8

LEMMA IdlePlaced == Slot(Idle) /\ Placed(Idle)
  BY DEF Slot, Placed, Idle

LEMMA WorkAtFirst == Init => WorkInv
  BY IdlePlaced DEF Init, WorkInv

\* a step of session h's worker leaves the slots of the others
LEMMA WorkStep ==
  ASSUME WorkInv, NEW h \in Sessions, NEW w, Slot(w), Placed(w),
         work' = [work EXCEPT ![h] = w]
  PROVE  WorkInv'
  <1>1. work' = [s \in Sessions |-> IF s = h THEN w ELSE work[s]]
    BY DEF WorkInv
  <1> QED BY <1>1 DEF WorkInv

LEMMA WorkUnmoved ==
  ASSUME WorkInv, UNCHANGED work PROVE WorkInv'
  BY DEF WorkInv

\* the call goes on to pc, decided by somebody
LEMMA Settled ==
  ASSUME WorkInv, NEW s \in Sessions, NEW pc, NEW by, NEW written,
         Settle(s, pc, by, written),
         pc \in {"check", "asking", "answered", "ran", "refused"}, work[s].pc # "idle",
         pc # "refused" => ~Blocked(work[s].call, work[s].mode, FALSE),
         pc \in {"asking", "answered"} => written.effect # "deny",
         pc = "answered" => by \in {"once", "session", "deny", "cancel"},
         pc = "ran" =>
           /\ by = "builtin" => written = NoMatch /\ Exempt(work[s].call)
           /\ written.effect = "deny" => by \in Grants
  PROVE  WorkInv'
  <1>1. Slot(work[s]) /\ Placed(work[s])
    BY DEF WorkInv
  <1>0. PICK w : w = [work[s] EXCEPT !.pc = pc, !.by = by, !.written = written]
    OBVIOUS
  <1>2. /\ w = [pc |-> pc, call |-> work[s].call, mode |-> work[s].mode, by |-> by,
                written |-> written, late |-> work[s].late]
        /\ work' = [work EXCEPT ![s] = w]
    BY Zenon, <1>0, <1>1, SlotSettled DEF Settle
  <1>3. Slot(w) /\ Placed(w)
    BY <1>1, <1>2 DEF Slot, Placed
  <1> QED BY <1>2, <1>3, WorkStep

LEMMA WorkMoves == PermissionsInv /\ [Next]_vars => WorkInv'
  <1> SUFFICES ASSUME PermissionsInv, [Next]_vars PROVE WorkInv'
    OBVIOUS
  <1>0. /\ WorkInv /\ armed \in [Sessions -> FlagSets] /\ mode \in [Sessions -> Modes]
        /\ \A s \in Sessions : Slot(work[s]) /\ Placed(work[s])
    BY DEF PermissionsInv, FlagInv, FlagTypes, WorkInv
  <1>1. ASSUME NEW s \in Sessions, NEW call \in Calls, Step(s, call) PROVE WorkInv'
    <2>0. PICK w : w = [Idle EXCEPT !.pc = "called", !.call = call, !.mode = mode[s]]
      OBVIOUS
    <2>1. /\ w = [pc |-> "called", call |-> call, mode |-> mode[s], by |-> "none",
                  written |-> NoMatch, late |-> FALSE]
          /\ work' = [work EXCEPT ![s] = w]
      BY ZenonT(60), <2>0, <1>1, SlotCalled DEF Step
    <2>2. Slot(w) /\ Placed(w)
      BY <2>1, <1>0, <1>1 DEF Slot, Placed
    <2> QED BY <1>0, <2>1, <2>2, WorkStep
  <1>2. ASSUME NEW s \in Sessions, EvaluateCall(s) PROVE WorkInv'
    <2> DEFINE call == work[s].call
               m == work[s].mode
               gate == GateEvaluate(Snapshot(s), call)
               d == Evaluate(call, m, FALSE, Snapshot(s))
               pc == IF d.effect = "ask" THEN "check" ELSE Outcome(d.effect)
    <2>1. work[s].pc = "called" /\ Settle(s, pc, d.source, Written(call))
      BY <1>2 DEF EvaluateCall
    <2>2. /\ gate = NoMatch => Written(call) = NoMatch
          /\ gate.source \in {"temporary_exact", "session", "configuration", "prompt"}
          /\ Written(call).effect = "deny" =>
               gate.effect = "deny" \/ (gate.effect = "allow" /\ gate.source \in Grants)
      BY <1>0, GateFacts
    <2>3. pc \in {"check", "asking", "answered", "ran", "refused"}
      BY DEF Outcome
    <2> DEFINE blocked0 == Blocked(call, m, FALSE)
    <2>4. /\ blocked0 => pc = "refused"
          /\ pc \in {"asking", "answered"} => Written(call).effect # "deny"
          /\ pc # "answered"
          /\ pc = "ran" => /\ d.source = "builtin" => Written(call) = NoMatch /\ Exempt(call)
                           /\ Written(call).effect = "deny" => d.source \in Grants
      <3>1. \/ blocked0 /\ d = Decision("deny", "mode")
            \/ ~blocked0 /\ d = Decision("allow", "root")
            \/ ~blocked0 /\ d = Decision("allow", "builtin") /\ gate = NoMatch /\ Exempt(call)
            \/ ~blocked0 /\ d = gate
        BY DEF Evaluate
      <3> HIDE DEF d, gate, blocked0
      <3>2. CASE blocked0 /\ d = Decision("deny", "mode")
        BY <3>2 DEF Decision, Outcome
      <3>3. CASE ~blocked0 /\ d = Decision("allow", "root")
        BY <3>3 DEF Decision, Outcome, Grants
      <3>4. CASE ~blocked0 /\ d = Decision("allow", "builtin")
                 /\ gate = NoMatch /\ Exempt(call)
        BY <2>2, <3>4 DEF Decision, Outcome, NoMatch
      <3>5. CASE ~blocked0 /\ d = gate
        BY <2>2, <3>5 DEF Outcome
      <3> QED BY <3>1, <3>2, <3>3, <3>4, <3>5
    <2> HIDE DEF pc, d
    <2> QED BY <1>0, <2>1, <2>3, <2>4, Settled
  <1>3. ASSUME NEW s \in Sessions, CheckTool(s) PROVE WorkInv'
    <2> DEFINE call == work[s].call
               d == GateEvaluate(Snapshot(s), call)
    <2>1. work[s].pc = "check" /\ Settle(s, Outcome(d.effect), d.source, Written(call))
      BY <1>3 DEF CheckTool
    <2>2. /\ d.source \in {"temporary_exact", "session", "configuration", "prompt"}
          /\ Written(call).effect = "deny" =>
               d.effect = "deny" \/ (d.effect = "allow" /\ d.source \in Grants)
      BY <1>0, GateFacts
    <2>3. ~Blocked(call, work[s].mode, FALSE)
      BY <1>0, <2>1 DEF Placed
    <2> HIDE DEF d
    <2>4. /\ Outcome(d.effect) \in {"asking", "ran", "refused"}
          /\ Outcome(d.effect) = "asking" => Written(call).effect # "deny"
          /\ Outcome(d.effect) = "ran" =>
               /\ d.source # "builtin"
               /\ Written(call).effect = "deny" => d.source \in Grants
      BY <2>2 DEF Outcome
    <2> QED BY <1>0, <2>1, <2>3, <2>4, Settled
  <1>4. ASSUME NEW s \in Sessions, NEW decision \in {"once", "session", "deny"},
               Answer(s, decision)
        PROVE  WorkInv'
    <2>1. work[s].pc = "asking" /\ Settle(s, "answered", decision, work[s].written)
      BY <1>4 DEF Answer
    <2>2. ~Blocked(work[s].call, work[s].mode, FALSE) /\ work[s].written.effect # "deny"
      BY <1>0, <2>1 DEF Placed
    <2> QED BY <1>0, <1>4, <2>1, <2>2, Settled
  <1>5. ASSUME NEW s \in Sessions, CancelAsk(s) PROVE WorkInv'
    <2>1. work[s].pc = "asking" /\ Settle(s, "answered", "cancel", work[s].written)
      BY <1>5 DEF CancelAsk
    <2>2. ~Blocked(work[s].call, work[s].mode, FALSE) /\ work[s].written.effect # "deny"
      BY <1>0, <2>1 DEF Placed
    <2> QED BY <1>0, <2>1, <2>2, Settled
  <1>6. ASSUME NEW s \in Sessions, Wake(s) PROVE WorkInv'
    <2> DEFINE w == [pc |-> IF Proceeds(s) THEN "ran" ELSE "refused",
                     call |-> work[s].call, mode |-> work[s].mode, by |-> work[s].by,
                     written |-> work[s].written,
                     late |-> Proceeds(s) /\ interrupted[s]]
    <2>1. work[s].pc = "answered" /\ work' = [work EXCEPT ![s] = w]
      BY Zenon, <1>0, <1>6, SlotWoken DEF Wake
    <2>2. /\ work[s].call \in Calls /\ work[s].mode \in Modes
          /\ ~Blocked(work[s].call, work[s].mode, FALSE)
          /\ work[s].written.effect # "deny" /\ work[s].by # "builtin"
      BY <1>0, <2>1 DEF Placed
    <2>3. ~(Proceeds(s) /\ interrupted[s])
      BY DEF Proceeds
    <2>4. Slot(w)
      BY DEF Slot
    <2>5. Placed(w)
      BY <2>2, <2>3 DEF Placed
    <2> QED BY <1>0, <2>1, <2>4, <2>5, WorkStep
  <1>7. ASSUME NEW s \in Sessions, Return(s) PROVE WorkInv'
    <2>1. work' = [work EXCEPT ![s] = Idle]
      BY <1>7 DEF Return
    <2> QED BY <1>0, <2>1, IdlePlaced, WorkStep
  <1>8. ASSUME NEW m, SetMode(m) PROVE UNCHANGED work
    BY <1>8 DEF SetMode, gateVars
  <1>9. ASSUME NEW s, ApprovePlan(s) \/ SelectSession(s) \/ CenterSelect(s)
        PROVE  UNCHANGED work
    BY <1>9 DEF ApprovePlan, SelectSession, CenterSelect, gateVars
  <1>10. ASSUME NEW preset, PickPreset(preset) PROVE UNCHANGED work
    BY <1>10 DEF PickPreset, gateVars
  <1>11. ASSUME ToggleRead \/ PermStatus \/ CenterRefresh \/ CenterRead PROVE UNCHANGED work
    BY <1>11 DEF ToggleRead, PermStatus, CenterRefresh, CenterRead, gateVars
  <1>12. ASSUME NEW f, NEW on, CenterToggle(f, on) PROVE UNCHANGED work
    BY <1>12 DEF CenterToggle, gateVars
  <1>13. ASSUME NEW rules, PolicySaved(rules) PROVE UNCHANGED work
    BY <1>13 DEF PolicySaved
  <1>14. ASSUME NEW grants, Revoke(grants) PROVE UNCHANGED work
    BY <1>14 DEF Revoke
  <1>15. AppHandles => UNCHANGED work
    BY DEF AppHandles, gateVars
  <1>16. ASSUME NEW s, Interrupt(s) PROVE UNCHANGED work
    BY <1>16 DEF Interrupt
  <1>17. UNCHANGED vars => UNCHANGED work
    BY DEF vars, gateVars
  <1>18. UNCHANGED work => WorkInv'
    BY <1>0, WorkUnmoved
  <1>19. CASE UNCHANGED vars
    BY <1>17, <1>18, <1>19
  <1>20. CASE Next
    <2>1. SUFFICES ASSUME ~UNCHANGED work PROVE WorkInv'
      BY <1>18
    <2>2. \/ \E s \in Working, call \in Calls : Step(s, call)
          \/ \E s \in Sessions : EvaluateCall(s) \/ CheckTool(s) \/ Wake(s) \/ Return(s)
                                 \/ CancelAsk(s)
          \/ \E s \in Sessions, decision \in {"once", "session", "deny"} : Answer(s, decision)
      BY Zenon, <1>20, <2>1, <1>8, <1>9, <1>10, <1>11, <1>12, <1>13, <1>14, <1>15, <1>16 DEF Next
    <2>3. \A s \in Working : s \in Sessions
      BY PermissionsAssumption DEF PermissionsAssumption
    <2> QED BY Zenon, <2>2, <2>3, <1>1, <1>2, <1>3, <1>4, <1>5, <1>6, <1>7
  <1> QED BY <1>19, <1>20

(***************************************************************************)
(* Theorems about Permissions.                                             *)
(***************************************************************************)
\* The inductive invariant: the row, be_app's flags and the rules of a session
\* agree unless be_app has a message that will set all three, a flag is as its
\* last toggle left it unless one is on its way or the center wrote over it, and
\* a call has passed what its place in ToolRegistry::execute says.
THEOREM PermissionsInvariant == Spec => []PermissionsInv
  <1>1. Init => PermissionsInv
    BY FlagsAtFirst, WorkAtFirst DEF PermissionsInv
  <1>2. PermissionsInv /\ [Next]_vars => PermissionsInv'
    <2> SUFFICES ASSUME PermissionsInv, [Next]_vars PROVE PermissionsInv'
      OBVIOUS
    <2>1. FlagInv'
      BY FlagStep DEF PermissionsInv
    <2>2. WorkInv'
      BY WorkMoves
    <2> QED BY <2>1, <2>2 DEF PermissionsInv
  <1> QED BY <1>1, <1>2, PTL DEF Spec

\* The permission state has its types: queued messages name sessions of the
\* list, and the calls a worker is in are calls a model can make.
THEOREM PermissionTypesHold == Spec => []TypeOK
  <1>1. PermissionsInv => TypeOK
    <2> SUFFICES ASSUME PermissionsInv PROVE TypeOK
      OBVIOUS
    <2>1. FlagTypes /\ WorkInv
      BY DEF PermissionsInv, FlagInv
    <2>2. \A i \in DOMAIN appbox : appbox[i].what \in {"flag", "active", "sync"}
      <3>1. \A i \in DOMAIN appbox : appbox[i] \in Messages
        BY <2>1 DEF FlagTypes
      <3> QED BY <3>1, MessageOf
    <2>3. \A i \in DOMAIN winbox : winbox[i] \in [mode: Modes, read: BOOLEAN, yolo: BOOLEAN]
      <3>1. \A i \in DOMAIN winbox : winbox[i] \in Shown
        BY <2>1 DEF FlagTypes
      <3> QED BY Zenon, <3>1 DEF Shown
    <2>4. center.read \in (SUBSET FlagNames) \cup {Absent}
      <3>1. center.read \in Held
        BY <2>1 DEF FlagTypes, CenterRec
      <3> QED BY Zenon, <3>1 DEF Held, FlagSets
    <2>5. \A s \in Sessions : work[s].pc # "idle" => work[s].call \in Calls
      BY <2>1 DEF WorkInv, Placed
    <2>6. /\ mode \in [Sessions -> Modes] /\ active \in Sessions
          /\ stored \in [Sessions -> SUBSET FlagNames]
          /\ flags \in [Sessions -> (SUBSET FlagNames) \cup {Absent}]
          /\ armed \in [Sessions -> SUBSET FlagNames]
      BY Zenon, <2>1 DEF FlagTypes, FlagSets, Held
    <2> QED BY Zenon, <2>2, <2>3, <2>4, <2>5, <2>6 DEF TypeOK
  <1> QED BY <1>1, PermissionsInvariant, PTL

\* Once be_app's queue is empty, the row, be_app's copy and the gate's rules of
\* every session agree, no write rule is armed outside Build, and the row says
\* what the last toggles said unless the center wrote over it.
THEOREM FlagsConvergeHolds == Spec => []FlagsConverge
  <1>1. PermissionsInv => FlagsConverge
    <2> SUFFICES ASSUME PermissionsInv, Quiet, NEW s \in Sessions
                 PROVE  /\ flags[s] # Absent => stored[s] = flags[s]
                        /\ armed[s] \subseteq flags[s]
                        /\ mode[s] # "build" => armed[s] \subseteq {"read"}
                        /\ mode[s] = "chat" => armed[s] = {}
                        /\ s \notin overwritten => stored[s] = told[s]
      BY DEF FlagsConverge
    <2>1. ~Pending(s)
      <3>1. Len(appbox) = 0
        BY DEF Quiet
      <3> QED BY <3>1 DEF Pending
    <2>2. s \notin overwritten => stored[s] = told[s]
      <3>1. SUFFICES ASSUME s \notin overwritten PROVE stored[s] = told[s]
        OBVIOUS
      <3>2. \A f \in FlagNames : ~PendingFlag(s, f)
        BY DEF Quiet, PendingFlag
      <3>3. \A f \in FlagNames : f \in stored[s] <=> f \in told[s]
        BY <3>1, <3>2 DEF PermissionsInv, FlagInv, ToldInv, Kept
      <3>4. stored[s] \subseteq FlagNames /\ told[s] \subseteq FlagNames
        BY DEF PermissionsInv, FlagInv, FlagTypes, FlagSets
      <3> QED BY <3>3, <3>4
    <2> QED BY <2>1, <2>2 DEF PermissionsInv, FlagInv, Agrees
  <1> QED BY <1>1, PermissionsInvariant, PTL

\* A call that runs was allowed by what the documentation says may allow it.
THEOREM GateHonestHolds == Spec => []GateHonest
  <1>1. PermissionsInv => GateHonest
    <2> SUFFICES ASSUME PermissionsInv, NEW s \in Sessions, work[s].pc = "ran"
                 PROVE  /\ work[s].by = "builtin" => work[s].written = NoMatch
                        /\ work[s].written.effect = "deny" => work[s].by \in Grants
                        /\ work[s].mode = "plan" => ~Changes(work[s].call)
                        /\ work[s].mode = "chat"
                             => work[s].call.action \notin {"read", "write", "bash", "git"}
                        /\ work[s].by = "builtin" /\ work[s].call.action = "read"
                             => work[s].call.path.real # "elsewhere"
                        /\ ~work[s].late
      BY DEF GateHonest, Grants
    <2>1. Placed(work[s])
      BY DEF PermissionsInv, WorkInv
    <2>2. /\ work[s].call \in Calls /\ work[s].mode \in Modes
          /\ ~Blocked(work[s].call, work[s].mode, FALSE)
          /\ work[s].by = "builtin" => work[s].written = NoMatch /\ Exempt(work[s].call)
          /\ work[s].written.effect = "deny" => work[s].by \in Grants
          /\ ~work[s].late
      BY <2>1 DEF Placed
    <2> QED BY <2>2, ModeKept, ExemptReads
  <1> QED BY <1>1, PermissionsInvariant, PTL

(***************************************************************************)
(* The review windows.                                                     *)
(***************************************************************************)
WaitRec == [kind: {"none", "approval", "question"}, id: Waits \cup {NoWait}]
WindowRec == [kind: {"approval", "question", "plan"}, sess: Talks, id: Waits]
BoxRec == [what: {"approval", "closed", "question", "reply", "plan", "approved",
                  "discarded", "deleted"},
           sess: Talks, id: Waits \cup {NoWait}]

ReviewTypes ==
  /\ waiting \in [Talks -> WaitRec] /\ inView \in Talks
  /\ windowbox \in Seq(BoxRec) /\ decisions \in Seq(WindowRec)
  /\ permQueue \in [Talks -> Seq(Waits)]
  /\ permOpen \subseteq Talks /\ windows \subseteq WindowRec /\ gone \subseteq Talks
  /\ \A i \in 1..Len(windowbox) :
       windowbox[i].what \in {"approval", "question", "plan"} => windowbox[i].id \in Waits

Boxed(what, s, n) == \E i \in 1..Len(windowbox) : windowbox[i] = Msg(what, s, n)
Queued(s, n) == s \in permOpen /\ \E i \in 1..Len(permQueue[s]) : permQueue[s][i] = n
Decided(s, n) == \E i \in 1..Len(decisions) : decisions[i] = Window("approval", s, n)

\* the approval is where an answer will find the session that waits for it,
\* unless a full port refused it
Reachable(s, n) ==
  \/ Boxed("approval", s, n) \/ Window("approval", s, n) \in windows
  \/ Decided(s, n) \/ Queued(s, n) \/ n \in lost

\* a session's mark stands for a window of it, or for one just closed
Fronted(s) ==
  \/ \E i \in 1..Len(windowbox) : windowbox[i].what = "closed" /\ windowbox[i].sess = s
  \/ \E w \in windows : w.kind = "approval" /\ w.sess = s

ShownInv(s) ==
  /\ waiting[s].kind = "approval" => Reachable(s, waiting[s].id)
  /\ s \in permOpen => Fronted(s)
  /\ s \in gone => waiting[s] = None0
  /\ \A i \in 1..Len(windowbox) :
       windowbox[i].what = "deleted" /\ windowbox[i].sess = s => s \in gone

\* the inductive invariant of ReviewWindows
ReviewInv == ReviewTypes /\ \A s \in Talks : ShownInv(s)

LEMMA SequenceFacts ==
  ASSUME NEW S, NEW q \in Seq(S), NEW x \in S
  PROVE  /\ Append(q, x) \in Seq(S) /\ Len(Append(q, x)) = Len(q) + 1 /\ Len(q) \in Nat
         /\ Append(q, x)[Len(q) + 1] = x
         /\ \A i \in 1..Len(q) : Append(q, x)[i] = q[i]
         /\ Append(q, x) # <<>> /\ (q = <<>> => Head(Append(q, x)) = x)
  BY SMTT(30)

\* what stays: a step that takes nothing from the box, a queue or the screen
LEMMA Stays ==
  ASSUME ReviewInv, NEW s \in Talks, NEW n,
         \A i \in 1..Len(windowbox) : i \in 1..Len(windowbox') /\ windowbox'[i] = windowbox[i],
         windows \subseteq windows', lost \subseteq lost',
         UNCHANGED <<decisions, permQueue, permOpen>>
  PROVE  (Reachable(s, n) => Reachable(s, n)') /\ (Fronted(s) => Fronted(s)')
  <1>1. Boxed("approval", s, n) => Boxed("approval", s, n)'
    BY DEF Boxed
  <1>2. (Decided(s, n) => Decided(s, n)') /\ (Queued(s, n) => Queued(s, n)')
    BY DEF Decided, Queued
  <1>3. Reachable(s, n) => Reachable(s, n)'
    BY <1>1, <1>2 DEF Reachable
  <1>4. Fronted(s) => Fronted(s)'
    BY DEF Fronted
  <1> QED BY <1>3, <1>4

LEMMA BoxGrows ==
  ASSUME ReviewInv, NEW m \in BoxRec, windowbox' = Append(windowbox, m),
         m.what \in {"approval", "question", "plan"} => m.id \in Waits
  PROVE  /\ windowbox' \in Seq(BoxRec)
         /\ \A i \in 1..Len(windowbox) : i \in 1..Len(windowbox') /\ windowbox'[i] = windowbox[i]
         /\ \A i \in 1..Len(windowbox') : i \in 1..Len(windowbox) \/ windowbox'[i] = m
         /\ \E i \in 1..Len(windowbox') : windowbox'[i] = m
         /\ \A i \in 1..Len(windowbox') :
              windowbox'[i].what \in {"approval", "question", "plan"} => windowbox'[i].id \in Waits
  <1>1. windowbox \in Seq(BoxRec)
    BY DEF ReviewInv, ReviewTypes
  <1>2. /\ windowbox' \in Seq(BoxRec) /\ Len(windowbox') = Len(windowbox) + 1
        /\ Len(windowbox) \in Nat /\ windowbox'[Len(windowbox) + 1] = m
        /\ \A i \in 1..Len(windowbox) : windowbox'[i] = windowbox[i]
    BY <1>1, SequenceFacts
  <1>3. \A i \in 1..Len(windowbox') : i \in 1..Len(windowbox) \/ i = Len(windowbox) + 1
    BY <1>2
  <1> QED BY <1>2, <1>3 DEF ReviewInv, ReviewTypes

\* a worker's step: a new wait, or none, and perhaps one message
LEMMA WorkerStep ==
  ASSUME ReviewInv, NEW h \in Talks, NEW w \in WaitRec, waiting' = [waiting EXCEPT ![h] = w],
         windowbox' \in Seq(BoxRec),
         \A i \in 1..Len(windowbox) : i \in 1..Len(windowbox') /\ windowbox'[i] = windowbox[i],
         \A i \in 1..Len(windowbox') :
           windowbox'[i].what \in {"approval", "question", "plan"} => windowbox'[i].id \in Waits,
         UNCHANGED <<inView, decisions, permQueue, permOpen, windows>>,
         gone' \in {gone, gone \cup {h}},
         h \in gone' => w = None0,
         lost \subseteq lost',
         w.kind = "approval" => Boxed("approval", h, w.id)' \/ w.id \in lost',
         \A i \in 1..Len(windowbox') :
           i \in 1..Len(windowbox) \/ windowbox'[i].what # "deleted"
             \/ windowbox'[i].sess \in gone'
  PROVE  ReviewInv'
  <1>1. ReviewTypes'
    BY DEF ReviewInv, ReviewTypes
  <1>2. ASSUME NEW s \in Talks PROVE ShownInv(s)'
    <2>0. waiting \in [Talks -> WaitRec]
      BY DEF ReviewInv, ReviewTypes
    <2>1. (waiting[s].kind = "approval" => Reachable(s, waiting[s].id))'
      <3>0. PICK n : n = waiting'[s].id
        OBVIOUS
      <3>1. SUFFICES ASSUME waiting'[s].kind = "approval" PROVE Reachable(s, n)'
        BY <3>0
      <3>2. CASE s = h
        <4>1. waiting'[s] = w
          BY <2>0, <3>2
        <4> QED BY <3>0, <3>1, <3>2, <4>1 DEF Reachable
      <3>3. CASE s # h
        <4>1. waiting'[s] = waiting[s]
          BY <2>0, <3>3
        <4>2. Reachable(s, n)
          BY <3>0, <3>1, <4>1 DEF ReviewInv, ShownInv
        <4> QED BY <4>2, Stays
      <3> QED BY <3>2, <3>3
    <2>2. s \in permOpen' => Fronted(s)'
      BY Stays DEF ReviewInv, ShownInv
    <2>3. s \in gone' => waiting'[s] = None0
      BY <2>0 DEF ReviewInv, ShownInv
    <2>4. \A i \in 1..Len(windowbox') :
            windowbox'[i].what = "deleted" /\ windowbox'[i].sess = s => s \in gone'
      BY DEF ReviewInv, ShownInv
    <2> QED BY <2>1, <2>2, <2>3, <2>4 DEF ShownInv
  <1> QED BY <1>1, <1>2 DEF ReviewInv

LEMMA MessageFields ==
  ASSUME NEW m \in BoxRec
  PROVE  /\ m.sess \in Talks /\ m.id \in Waits \cup {NoWait} /\ m = Msg(m.what, m.sess, m.id)
         /\ m.what \in {"approval", "closed", "question", "reply", "plan", "approved",
                        "discarded", "deleted"}
  BY DEF BoxRec, Msg

\* what is left of the window's queue when its first message is taken
LEMMA BoxTaken ==
  ASSUME ReviewInv, windowbox # <<>>, windowbox' = Tail(windowbox)
  PROVE  /\ windowbox' \in Seq(BoxRec) /\ Head(windowbox) \in BoxRec
         /\ Head(windowbox) = windowbox[1] /\ 1 \in 1..Len(windowbox)
         /\ \A i \in 1..Len(windowbox) :
              i # 1 => i - 1 \in 1..Len(windowbox') /\ windowbox'[i - 1] = windowbox[i]
         /\ \A i \in 1..Len(windowbox') :
              i + 1 \in 1..Len(windowbox) /\ windowbox'[i] = windowbox[i + 1]
         /\ \A i \in 1..Len(windowbox') :
              windowbox'[i].what \in {"approval", "question", "plan"} => windowbox'[i].id \in Waits
  <1>1. windowbox \in Seq(BoxRec)
    BY DEF ReviewInv, ReviewTypes
  <1>2. /\ windowbox' \in Seq(BoxRec) /\ Head(windowbox) \in BoxRec
        /\ Head(windowbox) = windowbox[1] /\ 1 \in 1..Len(windowbox)
        /\ \A i \in 1..Len(windowbox) :
             i # 1 => i - 1 \in 1..Len(windowbox') /\ windowbox'[i - 1] = windowbox[i]
        /\ \A i \in 1..Len(windowbox') :
             i + 1 \in 1..Len(windowbox) /\ windowbox'[i] = windowbox[i + 1]
    BY <1>1, TailKeeps
  <1> QED BY <1>2 DEF ReviewInv, ReviewTypes

Front(s) == \E w \in windows : w.kind = "approval" /\ w.sess = s

\* a handler of the main window keeps the invariant if what it takes off a
\* queue it shows, and if a session stays marked only with a window
LEMMA HandlerStep ==
  ASSUME ReviewInv, windowbox # <<>>, windowbox' = Tail(windowbox),
         permQueue' \in [Talks -> Seq(Waits)], permOpen' \subseteq Talks,
         windows' \subseteq WindowRec, inView' \in Talks, waiting' \in [Talks -> WaitRec],
         UNCHANGED <<decisions, gone, lost>>, windows \subseteq windows',
         \A s \in Talks : waiting'[s] \in {waiting[s], None0},
         \A s \in Talks : \A n : Queued(s, n) /\ waiting'[s].kind = "approval"
            => Queued(s, n)' \/ Window("approval", s, n) \in windows',
         \A s \in Talks : \A n : Head(windowbox) = Msg("approval", s, n)
            => Queued(s, n)' \/ Window("approval", s, n) \in windows',
         \A s \in Talks : s \in permOpen' => s \in permOpen \/ Front(s)',
         \A s \in Talks : Head(windowbox).what = "closed" /\ Head(windowbox).sess = s
                            /\ s \in permOpen' => Front(s)'
  PROVE  ReviewInv'
  <1>1. ReviewTypes'
    BY BoxTaken DEF ReviewInv, ReviewTypes
  <1>2. ASSUME NEW s \in Talks PROVE ShownInv(s)'
    <2>0. ShownInv(s)
      BY DEF ReviewInv
    <2>1. (waiting[s].kind = "approval" => Reachable(s, waiting[s].id))'
      <3>0. PICK n : n = waiting'[s].id
        OBVIOUS
      <3>1. SUFFICES ASSUME waiting'[s].kind = "approval" PROVE Reachable(s, n)'
        BY <3>0
      <3>2. waiting'[s] = waiting[s]
        BY <3>1 DEF None0
      <3>3. Reachable(s, n)
        BY <2>0, <3>0, <3>1, <3>2 DEF ShownInv
      <3>4. CASE Boxed("approval", s, n)
        <4>1. PICK i \in 1..Len(windowbox) : windowbox[i] = Msg("approval", s, n)
          BY <3>4 DEF Boxed
        <4>2. CASE i = 1
          BY <4>1, <4>2, BoxTaken DEF Reachable
        <4>3. CASE i # 1
          <5>1. i - 1 \in 1..Len(windowbox') /\ windowbox'[i - 1] = Msg("approval", s, n)
            BY <4>1, <4>3, BoxTaken
          <5>2. Boxed("approval", s, n)'
            BY <5>1 DEF Boxed
          <5> QED BY <5>2 DEF Reachable
        <4> QED BY <4>2, <4>3
      <3>5. CASE Window("approval", s, n) \in windows \/ Decided(s, n)
        BY <3>5 DEF Reachable, Decided
      <3>6. CASE Queued(s, n) \/ n \in lost
        BY <3>1, <3>6 DEF Reachable
      <3> QED BY <3>3, <3>4, <3>5, <3>6 DEF Reachable
    <2>2. s \in permOpen' => Fronted(s)'
      <3>1. SUFFICES ASSUME s \in permOpen', ~Front(s)' PROVE Fronted(s)'
        BY DEF Fronted, Front
      <3>2. Fronted(s) /\ ~Front(s)
        BY <2>0, <3>1 DEF ShownInv, Front
      <3>3. PICK i \in 1..Len(windowbox) : windowbox[i].what = "closed" /\ windowbox[i].sess = s
        BY <3>2 DEF Fronted, Front
      <3>4. i # 1
        BY <3>1, <3>3, BoxTaken
      <3>5. i - 1 \in 1..Len(windowbox') /\ windowbox'[i - 1] = windowbox[i]
        BY <3>4, BoxTaken
      <3> QED BY <3>3, <3>5 DEF Fronted
    <2>3. s \in gone' => waiting'[s] = None0
      BY <2>0 DEF ShownInv
    <2>4. \A i \in 1..Len(windowbox') :
            windowbox'[i].what = "deleted" /\ windowbox'[i].sess = s => s \in gone'
      BY <2>0, BoxTaken DEF ShownInv
    <2> QED BY <2>1, <2>2, <2>3, <2>4 DEF ShownInv
  <1> QED BY <1>1, <1>2 DEF ReviewInv

\* the next approval of session h, if any, gets the window: what its queue
\* held is on the screen or queued behind it
LEMMA NextShown ==
  ASSUME ReviewInv, NEW h \in Talks, NEW queue \in [Talks -> Seq(Waits)],
         NEW open \in SUBSET Talks, h \notin open, ShowNext(h, queue, open)
  PROVE  /\ permQueue' \in [Talks -> Seq(Waits)] /\ permOpen' \subseteq Talks
         /\ windows' \subseteq WindowRec /\ windows \subseteq windows'
         /\ \A s \in Talks : s # h => permQueue'[s] = queue[s] /\ (s \in permOpen' <=> s \in open)
         /\ \A i \in 1..Len(queue[h]) :
              Queued(h, queue[h][i])' \/ Window("approval", h, queue[h][i]) \in windows'
         /\ h \in permOpen' => Front(h)'
  <1>0. windows \subseteq WindowRec /\ queue[h] \in Seq(Waits)
    BY DEF ReviewInv, ReviewTypes
  <1>1. CASE queue[h] = <<>>
    <2>1. permQueue' = queue /\ permOpen' = open /\ windows' = windows
      BY <1>1 DEF ShowNext
    <2> QED BY <1>0, <1>1, <2>1
  <1>2. CASE queue[h] # <<>>
    <2> DEFINE w == Window("approval", h, Head(queue[h]))
    <2>1. /\ windows' = windows \cup {w} /\ permOpen' = open \cup {h}
          /\ permQueue' = [queue EXCEPT ![h] = Tail(queue[h])]
      BY <1>2 DEF ShowNext
    <2>2. /\ Head(queue[h]) \in Waits /\ Head(queue[h]) = queue[h][1]
          /\ Tail(queue[h]) \in Seq(Waits)
          /\ \A i \in 1..Len(queue[h]) : i # 1 =>
               i - 1 \in 1..Len(Tail(queue[h])) /\ Tail(queue[h])[i - 1] = queue[h][i]
      BY <1>0, <1>2, TailKeeps
    <2>3. w \in WindowRec /\ w.kind = "approval" /\ w.sess = h
      BY <2>2 DEF WindowRec, Window
    <2>4. permQueue'[h] = Tail(queue[h]) /\ h \in permOpen'
      BY <2>1
    <2>5. ASSUME NEW i \in 1..Len(queue[h])
          PROVE  Queued(h, queue[h][i])' \/ Window("approval", h, queue[h][i]) \in windows'
      <3>1. CASE i = 1
        BY <2>1, <2>2, <3>1
      <3>2. CASE i # 1
        <4>1. i - 1 \in 1..Len(permQueue'[h]) /\ permQueue'[h][i - 1] = queue[h][i]
          BY <2>2, <2>4, <3>2
        <4> QED BY <2>4, <4>1 DEF Queued
      <3> QED BY <3>1, <3>2
    <2>6. Front(h)'
      BY <2>1, <2>3 DEF Front
    <2> HIDE DEF w
    <2> QED BY <1>0, <2>1, <2>2, <2>3, <2>5, <2>6
  <1> QED BY <1>1, <1>2

\* an approval arrives: shown, or queued behind its session's window
LEMMA ApprovalArrives ==
  ASSUME ReviewInv, windowbox # <<>>, windowbox' = Tail(windowbox),
         NEW h \in Talks, NEW m \in Waits, Head(windowbox) = Msg("approval", h, m),
         PermissionReq(h, m)
  PROVE  ReviewInv'
  <1>0. /\ permQueue \in [Talks -> Seq(Waits)] /\ permOpen \subseteq Talks
        /\ windows \subseteq WindowRec /\ inView \in Talks /\ waiting \in [Talks -> WaitRec]
    BY DEF ReviewInv, ReviewTypes
  <1>1. PICK q : q = [permQueue EXCEPT ![h] = Append(permQueue[h], m)]
    OBVIOUS
  <1>2. /\ q \in [Talks -> Seq(Waits)] /\ q[h] = Append(permQueue[h], m)
        /\ \A s \in Talks : s # h => q[s] = permQueue[s]
    BY <1>0, <1>1
  <1>3. /\ \A i \in 1..Len(permQueue[h]) : i \in 1..Len(q[h]) /\ q[h][i] = permQueue[h][i]
        /\ \E i \in 1..Len(q[h]) : q[h][i] = m
    <2>1. /\ Len(q[h]) = Len(permQueue[h]) + 1 /\ Len(permQueue[h]) \in Nat
          /\ q[h][Len(permQueue[h]) + 1] = m
          /\ \A i \in 1..Len(permQueue[h]) : q[h][i] = permQueue[h][i]
      BY <1>0, <1>2, SequenceFacts
    <2> QED BY <2>1
  <1>4. UNCHANGED <<waiting, inView, decisions, gone, lost>>
    BY DEF PermissionReq
  <1>5. Head(windowbox).what = "approval"
    BY DEF Msg
  <1>6. \A s \in Talks : \A n : Head(windowbox) = Msg("approval", s, n) => s = h /\ n = m
    BY DEF Msg
  <1>7. CASE h \in permOpen /\ permQueue' = q /\ UNCHANGED <<permOpen, windows>>
    <2>1. \A s \in Talks : \A n : Queued(s, n) => Queued(s, n)'
      <3>1. ASSUME NEW s \in Talks, NEW n, Queued(s, n) PROVE Queued(s, n)'
        BY <1>2, <1>3, <1>7, <3>1 DEF Queued
      <3> QED BY <3>1
    <2>2. Queued(h, m)'
      BY <1>3, <1>7 DEF Queued
    <2> QED BY <1>0, <1>2, <1>4, <1>5, <1>6, <1>7, <2>1, <2>2, HandlerStep
  <1>8. CASE h \notin permOpen /\ ShowNext(h, q, permOpen)
    <2>0. PICK open : open = permOpen
      OBVIOUS
    <2>1. /\ permQueue' \in [Talks -> Seq(Waits)] /\ permOpen' \subseteq Talks
          /\ windows' \subseteq WindowRec /\ windows \subseteq windows'
          /\ \A s \in Talks : s # h => permQueue'[s] = q[s] /\ (s \in permOpen' <=> s \in open)
          /\ \A i \in 1..Len(q[h]) :
               Queued(h, q[h][i])' \/ Window("approval", h, q[h][i]) \in windows'
          /\ h \in permOpen' => Front(h)'
      <3>1. open \in SUBSET Talks /\ h \notin open /\ q \in [Talks -> Seq(Waits)]
        BY <1>0, <1>2, <1>8, <2>0
      <3>2. ShowNext(h, q, open)
        BY <1>8, <2>0 DEF ShowNext
      <3> QED BY <3>1, <3>2, NextShown
    <2>2. ASSUME NEW s \in Talks, NEW n, Queued(s, n) PROVE Queued(s, n)'
      <3>1. s # h
        BY <1>8, <2>2 DEF Queued
      <3> QED BY <1>2, <2>0, <2>1, <2>2, <3>1 DEF Queued
    <2>3. Queued(h, m)' \/ Window("approval", h, m) \in windows'
      BY <1>3, <2>1
    <2>4. \A s \in Talks : s \in permOpen' => s \in permOpen \/ Front(s)'
      BY <2>0, <2>1
    <2> QED BY <1>0, <1>4, <1>5, <1>6, <2>1, <2>2, <2>3, <2>4, HandlerStep
  <1> QED BY <1>1, <1>7, <1>8 DEF PermissionReq

\* an approval window closed: the next of its session is shown
LEMMA ClosedHandled ==
  ASSUME ReviewInv, windowbox # <<>>, windowbox' = Tail(windowbox),
         NEW h \in Talks, Head(windowbox).what = "closed", Head(windowbox).sess = h,
         PermissionWindowClosed(h)
  PROVE  ReviewInv'
  <1>0. /\ permQueue \in [Talks -> Seq(Waits)] /\ permOpen \subseteq Talks
        /\ inView \in Talks /\ waiting \in [Talks -> WaitRec]
    BY DEF ReviewInv, ReviewTypes
  <1>1. PICK q, open : q = permQueue /\ open = permOpen \ {h}
    OBVIOUS
  <1>2. ShowNext(h, q, open) /\ UNCHANGED <<waiting, inView, decisions, gone, lost>>
    BY <1>1 DEF PermissionWindowClosed
  <1>3. /\ permQueue' \in [Talks -> Seq(Waits)] /\ permOpen' \subseteq Talks
        /\ windows' \subseteq WindowRec /\ windows \subseteq windows'
        /\ \A s \in Talks : s # h => permQueue'[s] = q[s] /\ (s \in permOpen' <=> s \in open)
        /\ \A i \in 1..Len(q[h]) :
             Queued(h, q[h][i])' \/ Window("approval", h, q[h][i]) \in windows'
        /\ h \in permOpen' => Front(h)'
    BY ZenonT(60), <1>0, <1>1, <1>2, NextShown
  <1>4. ASSUME NEW s \in Talks, NEW n, Queued(s, n)
        PROVE  Queued(s, n)' \/ Window("approval", s, n) \in windows'
    <2>1. CASE s = h
      <3>1. PICK i \in 1..Len(q[h]) : q[h][i] = n
        BY <1>1, <1>4, <2>1 DEF Queued
      <3> QED BY <1>3, <2>1, <3>1
    <2>2. CASE s # h
      BY <1>1, <1>3, <1>4, <2>2 DEF Queued
    <2> QED BY <2>1, <2>2
  <1>5. \A s \in Talks : \A n : Head(windowbox) # Msg("approval", s, n)
    BY DEF Msg
  <1>6. \A s \in Talks : s \in permOpen' => s \in permOpen \/ Front(s)'
    BY <1>1, <1>3
  <1> QED BY <1>0, <1>2, <1>3, <1>4, <1>5, <1>6, HandlerStep

\* the other messages leave the queues of approvals alone
LEMMA OtherHandled ==
  ASSUME ReviewInv, windowbox # <<>>, windowbox' = Tail(windowbox),
         Head(windowbox).what \notin {"approval", "closed"},
         UNCHANGED <<permQueue, permOpen, inView, decisions, gone, lost>>,
         windows' \subseteq WindowRec, windows \subseteq windows',
         waiting' \in [Talks -> WaitRec],
         \A s \in Talks : waiting'[s] \in {waiting[s], None0}
  PROVE  ReviewInv'
  <1>0. permQueue \in [Talks -> Seq(Waits)] /\ permOpen \subseteq Talks /\ inView \in Talks
    BY DEF ReviewInv, ReviewTypes
  <1>1. \A s \in Talks : \A n : Head(windowbox) # Msg("approval", s, n)
    BY DEF Msg
  <1>2. \A s \in Talks : \A n : Queued(s, n) => Queued(s, n)'
    BY DEF Queued
  <1> QED BY <1>0, <1>1, <1>2, HandlerStep

\* a deleted session is forgotten: nobody of it waits any more
LEMMA DeletedHandled ==
  ASSUME ReviewInv, windowbox # <<>>, windowbox' = Tail(windowbox),
         NEW h \in Talks, Head(windowbox).what = "deleted", Head(windowbox).sess = h,
         SessionDeleted(h)
  PROVE  ReviewInv'
  <1>0. /\ permQueue \in [Talks -> Seq(Waits)] /\ permOpen \subseteq Talks
        /\ windows \subseteq WindowRec /\ inView \in Talks /\ waiting \in [Talks -> WaitRec]
    BY DEF ReviewInv, ReviewTypes
  <1>1. /\ permQueue' = [permQueue EXCEPT ![h] = <<>>] /\ permOpen' = permOpen \ {h}
        /\ UNCHANGED <<waiting, decisions, windows, gone, lost>> /\ inView' \in Talks
    BY <1>0 DEF SessionDeleted
  <1>2. permQueue' \in [Talks -> Seq(Waits)]
    BY <1>0, <1>1
  <1>3. waiting[h].kind = "none"
    <2>1. h \in gone
      BY BoxTaken DEF ReviewInv, ShownInv
    <2> QED BY <2>1 DEF ReviewInv, ShownInv, None0
  <1>4. ASSUME NEW s \in Talks, NEW n, Queued(s, n), waiting[s].kind = "approval"
        PROVE  Queued(s, n)'
    <2>1. s # h
      BY <1>3, <1>4
    <2> QED BY <1>0, <1>1, <1>4, <2>1 DEF Queued
  <1>5. \A s \in Talks : \A n : Head(windowbox) # Msg("approval", s, n)
    BY DEF Msg
  <1> QED BY <1>0, <1>1, <1>2, <1>4, <1>5, HandlerStep

LEMMA ReviewAtFirst == ReviewInit => ReviewInv
  <1> SUFFICES ASSUME ReviewInit PROVE ReviewInv
    OBVIOUS
  <1>1. ReviewTypes
    <2>1. None0 \in WaitRec
      BY DEF None0, WaitRec
    <2>2. /\ waiting \in [Talks -> WaitRec] /\ inView \in Talks
          /\ permQueue \in [Talks -> Seq(Waits)]
          /\ permOpen \subseteq Talks /\ windows \subseteq WindowRec /\ gone \subseteq Talks
      BY <2>1 DEF ReviewInit
    <2>3. windowbox = <<>> /\ decisions = <<>>
      BY DEF ReviewInit
    <2> QED BY <2>2, <2>3 DEF ReviewTypes
  <1>2. ASSUME NEW s \in Talks PROVE ShownInv(s)
    <2>1. Len(windowbox) = 0 /\ waiting[s] = None0 /\ permOpen = {}
      BY <1>2 DEF ReviewInit
    <2> QED BY <2>1 DEF ShownInv, None0
  <1> QED BY <1>1, <1>2 DEF ReviewInv

LEMMA Asked ==
  ASSUME ReviewInv, NEW s \in Talks, NEW n \in Waits, s \notin gone,
         NEW kind \in {"none", "approval", "question"},
         NEW what \in {"approval", "question", "plan"},
         kind = "approval" => what = "approval",
         waiting' = [waiting EXCEPT ![s] =
                       IF kind = "none" THEN None0 ELSE [kind |-> kind, id |-> n]],
         lost \subseteq lost',
         \/ windowbox' = Append(windowbox, Msg(what, s, n))
         \/ windowbox' = windowbox /\ (kind # "approval" \/ n \in lost'),
         UNCHANGED <<inView, decisions, permQueue, permOpen, windows, gone>>
  PROVE  ReviewInv'
  <1>1. PICK w : w = IF kind = "none" THEN None0 ELSE [kind |-> kind, id |-> n]
    OBVIOUS
  <1>2. /\ w \in WaitRec /\ waiting' = [waiting EXCEPT ![s] = w]
        /\ w.kind = "approval" => kind = "approval" /\ w.id = n
    BY <1>1 DEF WaitRec, None0
  <1>3. CASE windowbox' = windowbox /\ (kind # "approval" \/ n \in lost')
    <2>1. windowbox' \in Seq(BoxRec) /\ \A i \in 1..Len(windowbox') :
            windowbox'[i].what \in {"approval", "question", "plan"} => windowbox'[i].id \in Waits
      BY <1>3 DEF ReviewInv, ReviewTypes
    <2> QED BY <1>2, <1>3, <2>1, WorkerStep
  <1>4. CASE windowbox' = Append(windowbox, Msg(what, s, n))
    <2>1. PICK m : m = Msg(what, s, n)
      OBVIOUS
    <2>2. m \in BoxRec /\ m.id \in Waits /\ m.what = what /\ m.what # "deleted"
      BY <2>1 DEF Msg, BoxRec
    <2>3. /\ windowbox' \in Seq(BoxRec)
          /\ \A i \in 1..Len(windowbox) :
               i \in 1..Len(windowbox') /\ windowbox'[i] = windowbox[i]
          /\ \A i \in 1..Len(windowbox') : i \in 1..Len(windowbox) \/ windowbox'[i] = m
          /\ \E i \in 1..Len(windowbox') : windowbox'[i] = m
          /\ \A i \in 1..Len(windowbox') :
               windowbox'[i].what \in {"approval", "question", "plan"}
                 => windowbox'[i].id \in Waits
      BY <1>4, <2>1, <2>2, BoxGrows
    <2>4. w.kind = "approval" => Boxed("approval", s, w.id)'
      <3>1. SUFFICES ASSUME w.kind = "approval" PROVE Boxed("approval", s, n)'
        BY <1>2
      <3>2. m = Msg("approval", s, n)
        BY <1>2, <2>1, <3>1
      <3> QED BY <2>3, <3>2 DEF Boxed
    <2> QED BY ZenonT(60), <1>2, <2>2, <2>3, <2>4, WorkerStep
  <1> QED BY <1>3, <1>4

\* a review window answers: it goes, and a message tells the main window
LEMMA WindowAnswers ==
  ASSUME ReviewInv, NEW w \in windows, NEW m \in BoxRec, windows' = windows \ {w},
         windowbox' = Append(windowbox, m),
         m.what \notin {"approval", "question", "plan", "deleted"},
         w.kind = "approval" => m.what = "closed" /\ m.sess = w.sess,
         lost \subseteq lost',
         w.kind = "approval" =>
           decisions' = Append(decisions, w) \/ (UNCHANGED decisions /\ w.id \in lost'),
         w.kind # "approval" => UNCHANGED decisions,
         UNCHANGED <<waiting, inView, permQueue, permOpen, gone>>
  PROVE  ReviewInv'
  <1>0. /\ decisions \in Seq(WindowRec) /\ w \in WindowRec /\ windows \subseteq WindowRec
        /\ \A s \in Talks : ShownInv(s)
    BY DEF ReviewInv, ReviewTypes
  <1>1. /\ windowbox' \in Seq(BoxRec)
        /\ \A i \in 1..Len(windowbox) : i \in 1..Len(windowbox') /\ windowbox'[i] = windowbox[i]
        /\ \A i \in 1..Len(windowbox') : i \in 1..Len(windowbox) \/ windowbox'[i] = m
        /\ \E i \in 1..Len(windowbox') : windowbox'[i] = m
        /\ \A i \in 1..Len(windowbox') :
             windowbox'[i].what \in {"approval", "question", "plan"} => windowbox'[i].id \in Waits
    BY BoxGrows
  <1>2. /\ decisions' \in Seq(WindowRec)
        /\ \A i \in 1..Len(decisions) : i \in 1..Len(decisions') /\ decisions'[i] = decisions[i]
        /\ w.kind = "approval" => (\E i \in 1..Len(decisions') : decisions'[i] = w) \/ w.id \in lost'
    <2>1. CASE w.kind = "approval" /\ decisions' = Append(decisions, w)
      <3>1. /\ decisions' \in Seq(WindowRec) /\ Len(decisions') = Len(decisions) + 1
            /\ Len(decisions) \in Nat /\ decisions'[Len(decisions) + 1] = w
            /\ \A i \in 1..Len(decisions) : decisions'[i] = decisions[i]
        BY <1>0, <2>1, SequenceFacts
      <3> QED BY <3>1
    <2>2. CASE UNCHANGED decisions
      BY <1>0, <2>2
    <2> QED BY <2>1, <2>2
  <1>3. ReviewTypes'
    BY <1>0, <1>1, <1>2 DEF ReviewInv, ReviewTypes
  <1>4. ASSUME NEW s \in Talks, NEW n, Reachable(s, n) PROVE Reachable(s, n)'
    <2>1. CASE Boxed("approval", s, n)
      BY <1>1, <2>1 DEF Boxed, Reachable
    <2>2. CASE Window("approval", s, n) \in windows
      <3>1. CASE Window("approval", s, n) = w
        <4>1. w.kind = "approval" /\ w.id = n
          BY <3>1 DEF Window
        <4> QED BY <1>2, <3>1, <4>1 DEF Decided, Reachable
      <3>2. CASE Window("approval", s, n) # w
        BY <2>2, <3>2 DEF Reachable
      <3> QED BY <3>1, <3>2
    <2>3. CASE Decided(s, n) \/ Queued(s, n) \/ n \in lost
      BY <1>2, <2>3 DEF Decided, Queued, Reachable
    <2> QED BY <1>4, <2>1, <2>2, <2>3 DEF Reachable
  <1>5. ASSUME NEW s \in Talks, Fronted(s) PROVE Fronted(s)'
    <2>1. CASE \E i \in 1..Len(windowbox) : windowbox[i].what = "closed" /\ windowbox[i].sess = s
      BY <1>1, <2>1 DEF Fronted
    <2>2. CASE \E v \in windows : v.kind = "approval" /\ v.sess = s
      <3>1. PICK v \in windows : v.kind = "approval" /\ v.sess = s
        BY <2>2
      <3>2. CASE v = w
        BY <1>1, <3>1, <3>2 DEF Fronted
      <3>3. CASE v # w
        BY <3>1, <3>3 DEF Fronted
      <3> QED BY <3>2, <3>3
    <2> QED BY <1>5, <2>1, <2>2 DEF Fronted
  <1>6. ASSUME NEW s \in Talks PROVE ShownInv(s)'
    <2>1. (waiting[s].kind = "approval" => Reachable(s, waiting[s].id))'
      <3>0. PICK n : n = waiting'[s].id
        OBVIOUS
      <3> SUFFICES ASSUME waiting'[s].kind = "approval" PROVE Reachable(s, n)'
        BY <3>0
      <3>1. Reachable(s, n)
        BY <1>0, <3>0 DEF ShownInv
      <3> QED BY <1>4, <3>1
    <2>2. s \in permOpen' => Fronted(s)'
      BY <1>0, <1>5 DEF ShownInv
    <2>3. s \in gone' => waiting'[s] = None0
      BY <1>0 DEF ShownInv
    <2>4. \A i \in 1..Len(windowbox') :
            windowbox'[i].what = "deleted" /\ windowbox'[i].sess = s => s \in gone'
      BY <1>0, <1>1 DEF ShownInv
    <2> QED BY <2>1, <2>2, <2>3, <2>4 DEF ShownInv
  <1> QED BY <1>3, <1>6 DEF ReviewInv

LEMMA ReleaseTypes ==
  ASSUME ReviewInv, NEW h \in Talks, NEW kind, NEW m, Release(h, kind, m)
  PROVE  /\ waiting' \in [Talks -> WaitRec]
         /\ \A s \in Talks : waiting'[s] \in {waiting[s], None0}
         /\ waiting[h] = [kind |-> kind, id |-> m] => waiting'[h] = None0
  <1>1. None0 \in WaitRec /\ waiting \in [Talks -> WaitRec]
    BY DEF None0, WaitRec, ReviewInv, ReviewTypes
  <1> QED BY <1>1 DEF Release

\* be_app hands a decision to the broker: who waits for it does no more
LEMMA DecisionStep == ReviewInv /\ PermissionDecision => ReviewInv'
  <1> SUFFICES ASSUME ReviewInv, PermissionDecision PROVE ReviewInv'
    OBVIOUS
  <1>0. /\ decisions \in Seq(WindowRec) /\ decisions # <<>> /\ decisions' = Tail(decisions)
        /\ \A s \in Talks : ShownInv(s)
    BY DEF ReviewInv, ReviewTypes, PermissionDecision
  <1>1. PICK d \in WindowRec : d = decisions[1] /\ d = Head(decisions)
    BY <1>0, TailKeeps
  <1>2. /\ decisions' \in Seq(WindowRec)
        /\ \A i \in 1..Len(decisions) :
             i # 1 => i - 1 \in 1..Len(decisions') /\ decisions'[i - 1] = decisions[i]
    BY <1>0, TailKeeps
  <1>3. d.sess \in Talks /\ Release(d.sess, "approval", d.id)
    BY <1>1 DEF PermissionDecision, WindowRec
  <1>4. /\ waiting' \in [Talks -> WaitRec]
        /\ \A s \in Talks : waiting'[s] \in {waiting[s], None0}
        /\ waiting[d.sess] = [kind |-> "approval", id |-> d.id] => waiting'[d.sess] = None0
    BY <1>3, ReleaseTypes
  <1>5. UNCHANGED <<inView, windowbox, permQueue, permOpen, windows, gone, lost>>
    BY DEF PermissionDecision
  <1>6. ReviewTypes'
    BY <1>2, <1>4, <1>5 DEF ReviewInv, ReviewTypes
  <1>7. ASSUME NEW s \in Talks PROVE ShownInv(s)'
    <2>1. (waiting[s].kind = "approval" => Reachable(s, waiting[s].id))'
      <3>0. PICK n : n = waiting'[s].id
        OBVIOUS
      <3> SUFFICES ASSUME waiting'[s].kind = "approval" PROVE Reachable(s, n)'
        BY <3>0
      <3>1. waiting'[s] = waiting[s] /\ Reachable(s, n)
        BY <1>0, <1>4, <3>0 DEF ShownInv, None0
      <3>2. waiting[s] = [kind |-> "approval", id |-> n]
        <4>1. waiting[s] \in WaitRec /\ waiting[s].kind = "approval" /\ waiting[s].id = n
          BY <3>0, <3>1 DEF ReviewInv, ReviewTypes
        <4> QED BY <4>1 DEF WaitRec
      <3>3. CASE Decided(s, n)
        <4>1. PICK i \in 1..Len(decisions) : decisions[i] = Window("approval", s, n)
          BY <3>3 DEF Decided
        <4>2. i # 1
          <5>1. SUFFICES ASSUME i = 1 PROVE FALSE
            OBVIOUS
          <5>2. d.sess = s /\ d.id = n
            BY <1>1, <4>1, <5>1 DEF Window
          <5> QED BY <1>4, <3>1, <3>2, <5>2 DEF None0
        <4>3. i - 1 \in 1..Len(decisions') /\ decisions'[i - 1] = Window("approval", s, n)
          BY <1>2, <4>1, <4>2
        <4>4. Decided(s, n)'
          BY <4>3 DEF Decided
        <4> QED BY <4>4 DEF Reachable
      <3>4. CASE \/ Boxed("approval", s, n) \/ Window("approval", s, n) \in windows
                 \/ Queued(s, n) \/ n \in lost
        BY <1>5, <3>4 DEF Boxed, Queued, Reachable
      <3> QED BY <3>1, <3>3, <3>4 DEF Reachable
    <2>2. s \in permOpen' => Fronted(s)'
      BY <1>0, <1>5 DEF ShownInv, Fronted
    <2>3. s \in gone' => waiting'[s] = None0
      BY <1>0, <1>4, <1>5 DEF ShownInv
    <2>4. \A i \in 1..Len(windowbox') :
            windowbox'[i].what = "deleted" /\ windowbox'[i].sess = s => s \in gone'
      BY <1>0, <1>5 DEF ShownInv
    <2> QED BY <2>1, <2>2, <2>3, <2>4 DEF ShownInv
  <1> QED BY <1>6, <1>7 DEF ReviewInv

LEMMA HandlesStep == ReviewInv /\ WindowHandles => ReviewInv'
  <1> SUFFICES ASSUME ReviewInv, WindowHandles PROVE ReviewInv'
    OBVIOUS
  <1>0. /\ windowbox # <<>> /\ windowbox' = Tail(windowbox)
        /\ windows \subseteq WindowRec /\ waiting \in [Talks -> WaitRec] /\ inView \in Talks
    BY DEF WindowHandles, ReviewInv, ReviewTypes
  <1>1. PICK m \in BoxRec : m = Head(windowbox)
    BY <1>0, BoxTaken
  <1>2. /\ m.sess \in Talks /\ m = Msg(m.what, m.sess, m.id)
        /\ m.what \in {"approval", "question", "plan"} => m.id \in Waits
    BY <1>0, <1>1, MessageFields, BoxTaken DEF ReviewInv, ReviewTypes
  <1>3. CASE m.what = "approval" /\ PermissionReq(m.sess, m.id)
    BY <1>0, <1>1, <1>2, <1>3, ApprovalArrives
  <1>4. CASE m.what = "closed" /\ PermissionWindowClosed(m.sess)
    BY <1>0, <1>1, <1>2, <1>4, ClosedHandled
  <1>5. CASE m.what = "question" /\ AskUserReq(m.id)
    <2>1. Window("question", inView, m.id) \in WindowRec
      BY <1>0, <1>2, <1>5 DEF Window, WindowRec
    <2> QED BY <1>0, <1>1, <1>5, <2>1, OtherHandled DEF AskUserReq
  <1>6. CASE m.what = "reply" /\ AskUserReply(m.sess, m.id)
    <2>1. /\ waiting' \in [Talks -> WaitRec]
          /\ \A s \in Talks : waiting'[s] \in {waiting[s], None0}
      BY <1>2, <1>6, ReleaseTypes DEF AskUserReply
    <2> QED BY <1>0, <1>1, <1>6, <2>1, OtherHandled DEF AskUserReply
  <1>7. CASE m.what = "plan" /\ PlanProposed(m.id)
    <2>1. Window("plan", inView, m.id) \in WindowRec
      BY <1>0, <1>2, <1>7 DEF Window, WindowRec
    <2> QED BY <1>0, <1>1, <1>7, <2>1, OtherHandled DEF PlanProposed
  <1>8. CASE m.what \in {"approved", "discarded"} /\ \E yes \in BOOLEAN : PlanDecision(m.sess, yes)
    BY <1>0, <1>1, <1>8, OtherHandled DEF PlanDecision
  <1>9. CASE m.what = "deleted" /\ SessionDeleted(m.sess)
    BY <1>0, <1>1, <1>2, <1>9, DeletedHandled
  <1>10. \/ m.what = "approval" /\ PermissionReq(m.sess, m.id)
         \/ m.what = "closed" /\ PermissionWindowClosed(m.sess)
         \/ m.what = "question" /\ AskUserReq(m.id)
         \/ m.what = "reply" /\ AskUserReply(m.sess, m.id)
         \/ m.what = "plan" /\ PlanProposed(m.id)
         \/ m.what \in {"approved", "discarded"} /\ \E yes \in BOOLEAN : PlanDecision(m.sess, yes)
         \/ m.what = "deleted" /\ SessionDeleted(m.sess)
    BY Zenon, <1>1 DEF WindowHandles
  <1> QED BY <1>3, <1>4, <1>5, <1>6, <1>7, <1>8, <1>9, <1>10

LEMMA ReviewStep == ReviewInv /\ [ReviewNext]_reviewVars => ReviewInv'
  <1> SUFFICES ASSUME ReviewInv, [ReviewNext]_reviewVars PROVE ReviewInv'
    OBVIOUS
  <1>0. /\ windows \subseteq WindowRec /\ waiting \in [Talks -> WaitRec]
        /\ windowbox \in Seq(BoxRec) /\ None0 \in WaitRec
        /\ \A i \in 1..Len(windowbox) :
             windowbox[i].what \in {"approval", "question", "plan"} => windowbox[i].id \in Waits
    BY DEF ReviewInv, ReviewTypes, None0, WaitRec
  <1>1. ASSUME NEW s \in Talks, NEW n \in Waits, AskApproval(s, n) PROVE ReviewInv'
    BY <1>1, Asked DEF AskApproval
  <1>2. ASSUME NEW s \in Talks, NEW n \in Waits, AskUser(s, n) PROVE ReviewInv'
    BY <1>2, Asked DEF AskUser, Relayed
  <1>3. ASSUME NEW s \in Talks, NEW n \in Waits, ProposePlan(s, n) PROVE ReviewInv'
    <2>1. waiting[s] = None0 /\ waiting' = [waiting EXCEPT ![s] = None0]
      BY <1>0, <1>3 DEF ProposePlan
    <2> QED BY <1>3, <2>1, Asked DEF ProposePlan, Relayed
  <1>4. ASSUME NEW s \in Talks, Stop(s) PROVE ReviewInv'
    <2>1. ~(None0.kind = "approval")
      BY DEF None0
    <2> QED BY <1>0, <1>4, <2>1, WorkerStep DEF Stop
  <1>5. ASSUME NEW s \in Talks, Look(s) PROVE ReviewInv'
    <2>1. ReviewTypes'
      BY <1>5 DEF Look, ReviewInv, ReviewTypes
    <2>2. ASSUME NEW t \in Talks PROVE ShownInv(t)'
      <3>1. ShownInv(t) /\ UNCHANGED <<waiting, windowbox, decisions, permQueue, permOpen,
                                       windows, gone, lost>>
        BY <1>5, <2>2 DEF Look, ReviewInv
      <3> QED BY <3>1 DEF ShownInv, Reachable, Fronted, Boxed, Decided, Queued
    <2> QED BY <2>1, <2>2 DEF ReviewInv
  <1>6. ASSUME NEW s \in Talks, Delete(s) PROVE ReviewInv'
    <2>1. PICK m : m = Msg("deleted", s, NoWait)
      OBVIOUS
    <2>2. m \in BoxRec /\ m.what = "deleted" /\ m.sess = s
      BY <1>6, <2>1 DEF Msg, BoxRec
    <2>3. windowbox' = Append(windowbox, m) /\ gone' = gone \cup {s}
          /\ waiting' = [waiting EXCEPT ![s] = None0]
          /\ UNCHANGED <<inView, decisions, permQueue, permOpen, windows, lost>>
      BY <1>6, <2>1 DEF Delete
    <2>4. /\ windowbox' \in Seq(BoxRec)
          /\ \A i \in 1..Len(windowbox) :
               i \in 1..Len(windowbox') /\ windowbox'[i] = windowbox[i]
          /\ \A i \in 1..Len(windowbox') : i \in 1..Len(windowbox) \/ windowbox'[i] = m
          /\ \A i \in 1..Len(windowbox') :
               windowbox'[i].what \in {"approval", "question", "plan"}
                 => windowbox'[i].id \in Waits
      BY <2>2, <2>3, BoxGrows
    <2>5. ~(None0.kind = "approval") /\ s \in gone'
      BY <2>3 DEF None0
    <2> QED BY <1>0, <1>6, <2>2, <2>3, <2>4, <2>5, WorkerStep
  <1>7. ASSUME NEW w \in windows, AnswerApproval(w) PROVE ReviewInv'
    <2>1. Msg("closed", w.sess, w.id) \in BoxRec /\ w.kind = "approval"
      BY <1>0, <1>7 DEF Msg, BoxRec, WindowRec, AnswerApproval
    <2>2. /\ Msg("closed", w.sess, w.id).what = "closed"
          /\ Msg("closed", w.sess, w.id).sess = w.sess
      BY DEF Msg
    <2>3. /\ lost \subseteq lost'
          /\ decisions' = Append(decisions, w) \/ (UNCHANGED decisions /\ w.id \in lost')
      <3>1. CASE decisions' = Append(decisions, w) /\ UNCHANGED lost
        BY <3>1
      <3>2. CASE lost' = lost \cup {w.id} /\ UNCHANGED decisions
        BY <3>2
      <3> QED BY Zenon, <1>7, <3>1, <3>2 DEF AnswerApproval
    <2>4. PICK m \in BoxRec : m = Msg("closed", w.sess, w.id)
      BY <2>1
    <2>5. windows' = windows \ {w} /\ windowbox' = Append(windowbox, m)
          /\ m.what = "closed" /\ m.sess = w.sess
          /\ UNCHANGED <<waiting, inView, permQueue, permOpen, gone>>
      BY <1>7, <2>2, <2>4 DEF AnswerApproval, Close
    <2> QED BY <2>1, <2>3, <2>5, WindowAnswers
  <1>8. ASSUME NEW w \in windows, AnswerQuestion(w) PROVE ReviewInv'
    <2>1. Msg("reply", w.sess, w.id) \in BoxRec /\ w.kind = "question"
      BY <1>0, <1>8 DEF Msg, BoxRec, WindowRec, AnswerQuestion
    <2>2. Msg("reply", w.sess, w.id).what = "reply"
      BY DEF Msg
    <2> QED BY <1>8, <2>1, <2>2, WindowAnswers DEF AnswerQuestion, Close
  <1>9. ASSUME NEW w \in windows, NEW verdict \in {"approved", "discarded"},
               DecidePlan(w, verdict)
        PROVE  ReviewInv'
    <2>1. Msg(verdict, w.sess, w.id) \in BoxRec /\ w.kind = "plan"
      BY <1>0, <1>9 DEF Msg, BoxRec, WindowRec, DecidePlan
    <2>2. Msg(verdict, w.sess, w.id).what = verdict
      BY DEF Msg
    <2> QED BY <1>9, <2>1, <2>2, WindowAnswers DEF DecidePlan, Close
  <1>10. CASE UNCHANGED reviewVars
    <2>1. UNCHANGED <<waiting, inView, windowbox, decisions, permQueue, permOpen, windows, gone,
                      lost>>
      BY <1>10 DEF reviewVars
    <2>2. ReviewTypes'
      BY <2>1 DEF ReviewInv, ReviewTypes
    <2>3. ASSUME NEW t \in Talks PROVE ShownInv(t)'
      BY <2>1, <2>3 DEF ReviewInv, ShownInv, Reachable, Fronted, Boxed, Decided, Queued
    <2> QED BY <2>2, <2>3 DEF ReviewInv
  <1> QED BY Zenon, <1>1, <1>2, <1>3, <1>4, <1>5, <1>6, <1>7, <1>8, <1>9, <1>10,
             HandlesStep, DecisionStep DEF ReviewNext

\* The inductive invariant: a pending approval is where its answer will find
\* the session that waits, a session's mark stands for a window of it or for
\* one just closed, and only deleted sessions are announced as deleted.
THEOREM ReviewInvariant == ReviewSpec => []ReviewInv
  <1> QED BY ReviewAtFirst, ReviewStep, PTL DEF ReviewSpec

\* An approval somebody waits for can be answered, whichever sessions are in
\* view, interrupted or deleted meanwhile, unless a full port refused it or its
\* decision.
THEOREM ApprovalShownHolds == ReviewSpec => []ApprovalShown
  <1>1. ReviewInv => ApprovalShown
    <2> SUFFICES ASSUME ReviewInv, NEW s \in Talks
                 PROVE  /\ waiting[s].kind = "approval" /\ waiting[s].id \notin lost
                             => Answerable(s, waiting[s].id)
                        /\ s \in permOpen =>
                             \/ \E i \in DOMAIN windowbox :
                                  windowbox[i].what = "closed" /\ windowbox[i].sess = s
                             \/ \E w \in windows : w.kind = "approval" /\ w.sess = s
      BY DEF ApprovalShown
    <2>1. /\ windowbox \in Seq(BoxRec) /\ decisions \in Seq(WindowRec)
          /\ permQueue[s] \in Seq(Waits)
          /\ waiting[s].kind = "approval" => Reachable(s, waiting[s].id)
          /\ s \in permOpen => Fronted(s)
      BY DEF ReviewInv, ReviewTypes, ShownInv
    <2>2. /\ DOMAIN windowbox = 1..Len(windowbox) /\ DOMAIN decisions = 1..Len(decisions)
          /\ DOMAIN permQueue[s] = 1..Len(permQueue[s])
      BY <2>1
    <2>3. s \in permOpen =>
            \/ \E i \in DOMAIN windowbox : windowbox[i].what = "closed" /\ windowbox[i].sess = s
            \/ \E w \in windows : w.kind = "approval" /\ w.sess = s
      BY <2>1, <2>2 DEF Fronted
    <2>4. PICK n : n = waiting[s].id
      OBVIOUS
    <2>5. Reachable(s, n) => Answerable(s, n) \/ n \in lost
      <3>1. \A t, k : Window("approval", t, k).id = k
        BY DEF Window
      <3> QED BY <2>2, <3>1 DEF Reachable, Answerable, Boxed, InBox, Decided, Queued
    <2> QED BY <2>1, <2>3, <2>4, <2>5
  <1> QED BY <1>1, ReviewInvariant, PTL
=============================================================================
