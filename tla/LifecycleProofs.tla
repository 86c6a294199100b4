-------------------------- MODULE LifecycleProofs --------------------------
(***************************************************************************)
(* Proofs about the threads beside a turn, who joins them, what they may   *)
(* use and where they wait: TitleJobs for every number of title jobs and   *)
(* prompts, AppLifecycle for every set of sessions, and PermissionBroker   *)
(* for every set of sessions and requests.                                 *)
(***************************************************************************)
EXTENDS AppLifecycle, TitleJobs, PermissionBroker, FiniteSetTheorems, TLAPS

(***************************************************************************)
(* Title jobs.  Whoever is to join a job is written on it (of): the list,  *)
(* a delete or the shutdown.  A mark empties the list and raises the flag, *)
(* so that no turn adds to the list behind it.                             *)
(***************************************************************************)
Titles == Headlines \cup {Untitled, FirstLine, Gone1}
TurnPlaces == {"idle", "prompted", "naming", "running", "sweeping", "spawning"}
JobPlaces == {"none", "asking", "answered", "checked", "written", "done", "joined"}
JobRec == [at: JobPlaces, baseline: Titles, answer: Titles, cancel: BOOLEAN,
           of: {"list", "delete", "shutdown"}]

TypeInv ==
  /\ title \in Titles /\ prompts \in 0..PromptBound
  /\ turn \in [at: TurnPlaces, baseline: Titles]
  /\ flagged \in BOOLEAN /\ housekeeping \in BOOLEAN /\ overwrote = FALSE
  /\ refinement \in [Jobs -> JobRec] /\ titleJobs \in SUBSET Jobs
  /\ deletion \in {"no", "joining", "failed", "done"}
  /\ shutdown \in {"no", "joining", "done"}

\* a job is on the list exactly from its spawn until somebody takes it
JobInv(j) ==
  /\ j \in titleJobs <=> refinement[j].of = "list" /\ refinement[j].at \notin {"none", "joined"}
  /\ refinement[j].of # "list" => refinement[j].cancel
  /\ refinement[j].of = "shutdown" => shutdown # "no" /\ deletion \in {"no", "failed"}
  /\ refinement[j].at = "none" => refinement[j].of = "list"

MarkInv ==
  /\ deletion \in {"joining", "done"} => titleJobs = {}
  /\ deletion = "joining" => flagged
  /\ shutdown # "no" => titleJobs = {}

TitlesInv == TypeInv /\ MarkInv /\ TitleJobsSettle /\ \A j \in Jobs : JobInv(j)

LEMMA InitTitles == TitlesInit => TitlesInv
<1> SUFFICES ASSUME TitlesInit PROVE TitlesInv
  OBVIOUS
<1>1. Unborn \in JobRec /\ Unborn.at = "none" /\ Unborn.of = "list"
  BY DEF Unborn, JobRec, JobPlaces, Titles
<1>2. TypeInv
  <2>1. /\ prompts \in 0..PromptBound /\ turn \in [at: TurnPlaces, baseline: Titles]
        /\ title \in Titles
    BY TitleAssumption DEF TitlesInit, TurnPlaces, Titles
  <2>2. flagged \in BOOLEAN /\ housekeeping \in BOOLEAN
    BY Zenon DEF TitlesInit
  <2> QED BY <1>1, <2>1, <2>2 DEF TitlesInit, TypeInv
<1>3. MarkInv /\ TitleJobsSettle /\ \A j \in Jobs : JobInv(j)
  BY <1>1 DEF TitlesInit, MarkInv, TitleJobsSettle, JobInv
<1> QED BY <1>2, <1>3 DEF TitlesInv

\* steps that leave the jobs, the list, the delete and the shutdown alone
LEMMA TurnStep ==
  ASSUME TitlesInv, UNCHANGED <<refinement, titleJobs, deletion, shutdown, overwrote>>, TypeInv',
         \/ housekeeping' = FALSE
         \/ housekeeping' = housekeeping /\ turn'.at = turn.at
         \/ housekeeping' = TRUE /\ UNCHANGED turn /\ AllIdle /\ shutdown = "no",
         \/ turn'.at = "idle" /\ (deletion # "joining" \/ flagged')
         \/ turn.at # "idle" /\ (deletion # "joining" \/ flagged')
         \/ deletion \in {"no", "failed"}
  PROVE  TitlesInv'
<1>1. TypeInv /\ MarkInv /\ TitleJobsSettle /\ \A j \in Jobs : JobInv(j)
  BY DEF TitlesInv
<1>2. (\A j \in Jobs : JobInv(j))'
  BY <1>1 DEF JobInv
<1>3. MarkInv'
  BY <1>1 DEF MarkInv
<1>4. TitleJobsSettle'
  <2>1. ASSUME AllIdle, NEW j \in Jobs, Refining(j) PROVE refinement[j].cancel
    BY <1>1, <2>1 DEF AllIdle, Refining, JobInv
  <2>2. /\ ~overwrote'
        /\ deletion = "done" => turn'.at = "idle" /\ \A j \in Jobs : ~Refining(j)
    BY <1>1 DEF TitleJobsSettle, TypeInv
  <2>3. housekeeping' => turn'.at = "idle" /\ \A j \in Jobs : Refining(j) => refinement[j].cancel
    BY <1>1, <2>1 DEF TitleJobsSettle, AllIdle
  <2> QED BY <1>1, <2>2, <2>3 DEF TitleJobsSettle, Refining
<1> QED BY <1>1, <1>2, <1>3, <1>4 DEF TitlesInv

LEMMA TurnActions ==
  ASSUME TitlesInv,
         \/ TurnStarts \/ ReadsTitle \/ NamesFromPrompt \/ TurnOver \/ InterruptsTurn
         \/ KeepingStarts \/ KeepingEnds
  PROVE  TitlesInv'
<1>1. TypeInv /\ MarkInv /\ TitleJobsSettle
  BY DEF TitlesInv
<1>2. turn \in [at: TurnPlaces, baseline: Titles] /\ prompts \in 0..PromptBound
      /\ title \in Titles
  BY <1>1 DEF TypeInv
<1>3. UNCHANGED <<refinement, titleJobs, deletion, shutdown, overwrote>>
  BY DEF TurnStarts, ReadsTitle, NamesFromPrompt, TurnOver, InterruptsTurn, KeepingStarts,
     KeepingEnds
<1>4. flagged' \in BOOLEAN /\ housekeeping' \in BOOLEAN
  BY <1>1, Zenon DEF TypeInv, TurnStarts, ReadsTitle, NamesFromPrompt, TurnOver, InterruptsTurn,
     KeepingStarts, KeepingEnds
<1>5. ASSUME turn' \in [at: TurnPlaces, baseline: Titles], prompts' \in 0..PromptBound,
             title' \in Titles
      PROVE  TypeInv'
  BY <1>1, <1>3, <1>4, <1>5 DEF TypeInv
<1>6. CASE TurnStarts
  <2>1. turn' \in [at: TurnPlaces, baseline: Titles] /\ prompts' \in 0..PromptBound
    BY <1>2, <1>6, TitleAssumption DEF TurnStarts, TurnPlaces
  <2>2. ~housekeeping /\ housekeeping' = housekeeping /\ deletion \in {"no", "failed"}
        /\ title' = title
    BY <1>6 DEF TurnStarts, MuFree
  <2>3. TypeInv'
    BY <1>2, <1>5, <2>1, <2>2
  <2>4. housekeeping' = FALSE
    BY <2>2, <1>4
  <2> QED BY <1>3, <2>2, <2>3, <2>4, TurnStep
<1>7. CASE ReadsTitle \/ NamesFromPrompt \/ TurnOver
  <2>1. /\ turn' \in [at: TurnPlaces, baseline: Titles] /\ prompts' \in 0..PromptBound
        /\ title' \in Titles /\ turn.at # "idle" /\ flagged' = flagged
        /\ housekeeping' = housekeeping
    BY <1>2, <1>7 DEF ReadsTitle, NamesFromPrompt, TurnOver, TurnPlaces, Titles
  <2>2. housekeeping' = FALSE
    BY <1>1, <1>4, <2>1 DEF TitleJobsSettle
  <2> QED BY <1>1, <1>3, <1>5, <2>1, <2>2, TurnStep DEF MarkInv
<1>8. CASE InterruptsTurn
  <2>1. /\ UNCHANGED <<title, prompts, turn, housekeeping>> /\ turn.at # "idle" /\ flagged'
    BY <1>8 DEF InterruptsTurn
  <2>2. TypeInv'
    BY <1>2, <1>5, <2>1
  <2> QED BY <1>3, <2>1, <2>2, TurnStep
<1>9. CASE KeepingStarts
  <2>1. /\ UNCHANGED <<title, prompts, turn, flagged>> /\ AllIdle /\ shutdown = "no"
        /\ housekeeping' = TRUE
    BY <1>9 DEF KeepingStarts
  <2>2. TypeInv'
    BY <1>2, <1>5, <2>1
  <2>3. turn'.at = "idle" /\ (deletion # "joining" \/ flagged')
    BY <1>1, <2>1 DEF AllIdle, MarkInv
  <2> QED BY <1>3, <2>1, <2>2, <2>3, TurnStep
<1>10. CASE KeepingEnds
  <2>1. /\ UNCHANGED <<title, prompts, turn, flagged>> /\ housekeeping' = FALSE /\ housekeeping
    BY <1>10 DEF KeepingEnds
  <2>2. TypeInv'
    BY <1>2, <1>5, <2>1
  <2>3. turn'.at = "idle" /\ (deletion # "joining" \/ flagged')
    BY <1>1, <2>1 DEF TitleJobsSettle, MarkInv
  <2> QED BY <1>3, <2>1, <2>2, <2>3, TurnStep
<1> QED BY <1>6, <1>7, <1>8, <1>9, <1>10

\* a job moves on and stays with whoever is to join it
LEMMA JobStep ==
  ASSUME TitlesInv, NEW j \in Jobs, Refining(j), NEW r \in JobRec,
         refinement' = [refinement EXCEPT ![j] = r], r.at \notin {"none", "joined"},
         r.of = refinement[j].of, r.cancel = refinement[j].cancel,
         title' \in Titles,
         UNCHANGED <<prompts, turn, flagged, titleJobs, deletion, shutdown, housekeeping,
                     overwrote>>
  PROVE  TitlesInv'
<1>1. TypeInv /\ MarkInv /\ TitleJobsSettle /\ \A k \in Jobs : JobInv(k)
  BY DEF TitlesInv
<1>2. /\ refinement' \in [Jobs -> JobRec] /\ refinement'[j] = r
      /\ \A k \in Jobs \ {j} : refinement'[k] = refinement[k]
  BY <1>1 DEF TypeInv
<1>3. TypeInv'
  BY <1>1, <1>2 DEF TypeInv
<1>4. MarkInv'
  BY <1>1 DEF MarkInv
<1>5. ASSUME NEW k \in Jobs PROVE JobInv(k)'
  <2>1. CASE k = j
    BY <1>1, <1>2, <2>1 DEF JobInv, Refining
  <2>2. CASE k # j
    BY <1>1, <1>2, <2>2 DEF JobInv
  <2> QED BY <2>1, <2>2
<1>6. \A k \in Jobs :
        /\ Refining(k)' => Refining(k)
        /\ refinement'[k].of = refinement[k].of
        /\ refinement'[k].cancel = refinement[k].cancel
  BY <1>2 DEF Refining
<1>7. TitleJobsSettle'
  BY <1>1, <1>6 DEF TitleJobsSettle
<1> QED BY <1>3, <1>4, <1>5, <1>7 DEF TitlesInv

LEMMA JobActions ==
  ASSUME TitlesInv, NEW j \in Jobs,
         AnswersTitle(j) \/ ReadsCancel(j) \/ WritesTitle(j) \/ RefinementDone(j)
  PROVE  TitlesInv'
<1>1. refinement[j] \in JobRec /\ title \in Titles /\ overwrote = FALSE
      /\ refinement \in [Jobs -> JobRec]
  BY DEF TitlesInv, TypeInv
<1>2. /\ UNCHANGED <<prompts, turn, flagged, titleJobs, deletion, shutdown, housekeeping>>
      /\ Refining(j)
  BY DEF AnswersTitle, ReadsCancel, WritesTitle, RefinementDone, Refining
<1>3. title' \in Titles /\ overwrote' = overwrote
  <2>1. refinement[j].answer \in Titles
    BY <1>1 DEF JobRec
  <2>2. CASE WritesTitle(j)
    <3>1. CASE StillCurrent(j)
      <4>1. title' = refinement[j].answer
            /\ overwrote' = (overwrote \/ title # refinement[j].baseline)
        BY <2>2, <3>1 DEF WritesTitle
      <4>2. overwrote' = FALSE
        BY <1>1, <3>1, <4>1 DEF StillCurrent
      <4> QED BY <1>1, <2>1, <4>1, <4>2
    <3>2. CASE ~StillCurrent(j)
      BY <1>1, <2>2, <3>2 DEF WritesTitle
    <3> QED BY <3>1, <3>2
  <2>3. CASE ~WritesTitle(j)
    BY <1>1, <2>3 DEF AnswersTitle, ReadsCancel, RefinementDone
  <2> QED BY <2>2, <2>3
<1>4. ASSUME NEW place \in JobPlaces \ {"none", "joined"},
             refinement' = [refinement EXCEPT ![j].at = place]
      PROVE  TitlesInv'
  <2> DEFINE r == [refinement[j] EXCEPT !.at = place]
  <2>1. /\ r \in JobRec /\ r.at = place /\ r.of = refinement[j].of
        /\ r.cancel = refinement[j].cancel
    BY <1>1 DEF JobRec
  <2>2. refinement' = [refinement EXCEPT ![j] = r]
    BY <1>4
  <2> HIDE DEF r
  <2> QED BY <1>2, <1>3, <2>1, <2>2, JobStep
<1>5. ASSUME NEW t \in Headlines,
             refinement' = [refinement EXCEPT ![j] = [@ EXCEPT !.at = "answered", !.answer = t]]
      PROVE  TitlesInv'
  <2> DEFINE r == [refinement[j] EXCEPT !.at = "answered", !.answer = t]
  <2>1. /\ r \in JobRec /\ r.at = "answered" /\ r.of = refinement[j].of
        /\ r.cancel = refinement[j].cancel
    BY <1>1 DEF JobRec, Titles, JobPlaces
  <2>2. refinement' = [refinement EXCEPT ![j] = r]
    BY <1>5
  <2> HIDE DEF r
  <2> QED BY <1>2, <1>3, <2>1, <2>2, JobStep
<1>6. \/ \E place \in JobPlaces \ {"none", "joined"} :
           refinement' = [refinement EXCEPT ![j].at = place]
      \/ \E t \in Headlines :
           refinement' = [refinement EXCEPT ![j] = [@ EXCEPT !.at = "answered", !.answer = t]]
  BY DEF AnswersTitle, ReadsCancel, WritesTitle, RefinementDone, Ends, JobPlaces
<1> QED BY <1>4, <1>5, <1>6

LEMMA SweepKeeps == ASSUME TitlesInv, SweepsJobs PROVE TitlesInv'
<1>1. TypeInv /\ MarkInv /\ TitleJobsSettle /\ \A k \in Jobs : JobInv(k)
  BY DEF TitlesInv
<1>2. PICK done : /\ done = {j \in titleJobs : refinement[j].at = "done"}
                  /\ titleJobs' = titleJobs \ done
                  /\ refinement' = [j \in Jobs |-> IF j \in done
                                                   THEN [refinement[j] EXCEPT !.at = "joined"]
                                                   ELSE refinement[j]]
  BY DEF SweepsJobs
<1>3. /\ UNCHANGED <<title, prompts, flagged, deletion, shutdown, housekeeping, overwrote>>
      /\ turn.at = "sweeping" /\ turn' = [turn EXCEPT !.at = "spawning"] /\ housekeeping # TRUE
  BY <1>1 DEF SweepsJobs, MuFree
<1>4. ASSUME NEW k \in Jobs
      PROVE  /\ refinement'[k] \in JobRec /\ refinement'[k].of = refinement[k].of
             /\ refinement'[k].cancel = refinement[k].cancel
             /\ k \in done => refinement'[k].at = "joined"
             /\ k \notin done => refinement'[k].at = refinement[k].at
  <2>1. refinement[k] \in JobRec
    BY <1>1 DEF TypeInv
  <2> QED BY <1>2, <2>1 DEF JobRec, JobPlaces
<1>5. TypeInv'
  <2>1. refinement' \in [Jobs -> JobRec] /\ titleJobs' \in SUBSET Jobs
    BY <1>1, <1>2, <1>4 DEF TypeInv
  <2>2. turn' \in [at: TurnPlaces, baseline: Titles]
    BY <1>1, <1>3 DEF TypeInv, TurnPlaces
  <2> QED BY <1>1, <1>3, <2>1, <2>2 DEF TypeInv
<1>6. MarkInv'
  BY <1>1, <1>2, <1>3 DEF MarkInv
<1>7. ASSUME NEW k \in Jobs PROVE JobInv(k)'
  BY <1>1, <1>2, <1>3, <1>4 DEF JobInv
<1>8. TitleJobsSettle'
  <2>1. \A k \in Jobs : Refining(k)' => Refining(k)
    BY <1>4 DEF Refining
  <2>2. deletion # "done"
    BY <1>1, <1>3 DEF TitleJobsSettle
  <2> QED BY <1>1, <1>3, <1>4, <2>1, <2>2 DEF TitleJobsSettle
<1> QED BY <1>5, <1>6, <1>7, <1>8 DEF TitlesInv

LEMMA SpawnKeeps == ASSUME TitlesInv, SpawnsJob PROVE TitlesInv'
<1>1. TypeInv /\ MarkInv /\ TitleJobsSettle /\ \A k \in Jobs : JobInv(k)
  BY DEF TitlesInv
<1>2. /\ UNCHANGED <<title, prompts, flagged, deletion, shutdown, housekeeping, overwrote>>
      /\ turn.at = "spawning" /\ turn' = [at |-> "idle", baseline |-> Untitled] /\ ~housekeeping
  BY DEF SpawnsJob, MuFree
<1>3. turn' \in [at: TurnPlaces, baseline: Titles] /\ turn'.at = "idle"
  BY <1>2 DEF TurnPlaces, Titles
<1>4. CASE UNCHANGED <<refinement, titleJobs>>
  <2>1. TypeInv'
    BY <1>1, <1>2, <1>3, <1>4 DEF TypeInv
  <2>2. housekeeping' = FALSE
    BY <1>1, <1>2 DEF TypeInv
  <2> QED BY <1>1, <1>2, <1>3, <1>4, <2>1, <2>2, TurnStep DEF MarkInv
<1>5. ASSUME MaySpawn, NEW j \in Jobs, refinement[j].at = "none",
             refinement' = [refinement EXCEPT ![j] =
               [Unborn EXCEPT !.at = "asking", !.baseline = turn.baseline]],
             titleJobs' = titleJobs \cup {j}
      PROVE  TitlesInv'
  <2> DEFINE r == [Unborn EXCEPT !.at = "asking", !.baseline = turn.baseline]
  <2>1. r \in JobRec /\ r.at = "asking" /\ r.of = "list"
    <3>1. Unborn \in JobRec /\ Unborn.of = "list"
      BY DEF Unborn, JobRec, JobPlaces, Titles
    <3>2. turn.baseline \in Titles
      BY <1>1 DEF TypeInv
    <3> QED BY <3>1, <3>2 DEF JobRec, JobPlaces
  <2>2. refinement' = [refinement EXCEPT ![j] = r] /\ refinement \in [Jobs -> JobRec]
    BY <1>1, <1>5 DEF TypeInv
  <2> HIDE DEF r
  <2>3. /\ refinement' \in [Jobs -> JobRec] /\ refinement'[j] = r
        /\ \A k \in Jobs \ {j} : refinement'[k] = refinement[k]
    BY <2>1, <2>2
  <2>4. shutdown = "no" /\ ~flagged
    BY <1>5 DEF MaySpawn
  <2>5. deletion \in {"no", "failed"}
    BY <1>1, <1>2, <2>4 DEF TitleJobsSettle, MarkInv, TypeInv
  <2>6. TypeInv'
    BY <1>1, <1>2, <1>3, <1>5, <2>3 DEF TypeInv
  <2>7. MarkInv' /\ TitleJobsSettle'
    BY <1>1, <1>2, <2>4, <2>5 DEF MarkInv, TitleJobsSettle
  <2>8. ASSUME NEW k \in Jobs PROVE JobInv(k)'
    <3>1. CASE k = j
      BY <1>5, <2>1, <2>3, <3>1 DEF JobInv
    <3>2. CASE k # j
      BY <1>1, <1>2, <1>5, <2>3, <3>2 DEF JobInv
    <3> QED BY <3>1, <3>2
  <2> QED BY <2>6, <2>7, <2>8 DEF TitlesInv
<1> QED BY <1>4, <1>5 DEF SpawnsJob

\* interrupt() cancels what is on the list
LEMMA InterruptKeeps == ASSUME TitlesInv, InterruptsJobs PROVE TitlesInv'
<1>1. TypeInv /\ MarkInv /\ TitleJobsSettle /\ \A k \in Jobs : JobInv(k)
  BY DEF TitlesInv
<1>2. /\ UNCHANGED <<title, prompts, turn, flagged, titleJobs, deletion, shutdown, housekeeping,
                     overwrote>>
      /\ refinement' = [j \in Jobs |-> [refinement[j] EXCEPT !.cancel = @ \/ j \in titleJobs]]
  BY DEF InterruptsJobs
<1>3. ASSUME NEW k \in Jobs
      PROVE  /\ refinement'[k] \in JobRec /\ refinement'[k].of = refinement[k].of
             /\ refinement'[k].at = refinement[k].at
             /\ refinement[k].cancel => refinement'[k].cancel
  <2>1. refinement[k] \in JobRec
    BY <1>1 DEF TypeInv
  <2>2. (refinement[k].cancel \/ k \in titleJobs) \in BOOLEAN
    BY Zenon
  <2>3. refinement'[k] = [refinement[k] EXCEPT !.cancel = refinement[k].cancel \/ k \in titleJobs]
    BY <1>2
  <2> QED BY <2>1, <2>2, <2>3 DEF JobRec
<1>4. TypeInv'
  <2>1. refinement' \in [Jobs -> JobRec]
    BY <1>2, <1>3
  <2> QED BY <1>1, <1>2, <2>1 DEF TypeInv
<1>5. MarkInv' /\ TitleJobsSettle'
  BY <1>1, <1>2, <1>3 DEF MarkInv, TitleJobsSettle, Refining
<1>6. ASSUME NEW k \in Jobs PROVE JobInv(k)'
  BY <1>1, <1>2, <1>3 DEF JobInv
<1> QED BY <1>4, <1>5, <1>6 DEF TitlesInv

LEMMA TakenFacts ==
  ASSUME TitlesInv, NEW by \in {"delete", "shutdown"}, NEW k \in Jobs
  PROVE  /\ Taken(by)[k] \in JobRec /\ Taken(by)[k].at = refinement[k].at
         /\ k \in titleJobs => Taken(by)[k].of = by /\ Taken(by)[k].cancel = TRUE
         /\ k \notin titleJobs => Taken(by)[k] = refinement[k]
<1>1. refinement[k] \in JobRec
  BY DEF TitlesInv, TypeInv
<1> QED BY <1>1 DEF Taken, JobRec

LEMMA JoinedFacts ==
  ASSUME TitlesInv, NEW by \in {"delete", "shutdown"}, NEW k \in Jobs
  PROVE  /\ Joined1(by)[k] \in JobRec /\ Joined1(by)[k].of = refinement[k].of
         /\ Joined1(by)[k].cancel = refinement[k].cancel
         /\ refinement[k].of = by => Joined1(by)[k].at = "joined"
         /\ refinement[k].of # by => Joined1(by)[k].at = refinement[k].at
<1>1. refinement[k] \in JobRec
  BY DEF TitlesInv, TypeInv
<1> QED BY <1>1 DEF Joined1, JobRec, JobPlaces

LEMMA MarksKeep == ASSUME TitlesInv, DeletionMarks \/ ClosingMarks PROVE TitlesInv'
<1>1. TypeInv /\ MarkInv /\ TitleJobsSettle /\ \A k \in Jobs : JobInv(k)
  BY DEF TitlesInv
<1>2. /\ UNCHANGED <<title, prompts, turn, housekeeping, overwrote>> /\ ~housekeeping
      /\ flagged' = TRUE /\ titleJobs' = {} /\ shutdown = "no"
  BY DEF DeletionMarks, ClosingMarks, MuFree
<1>3. PICK by \in {"delete", "shutdown"} :
        /\ refinement' = Taken(by)
        /\ by = "delete" => /\ deletion' = "joining" /\ deletion \in {"no", "failed"}
                            /\ shutdown' = shutdown
        /\ by = "shutdown" => shutdown' = "joining" /\ deletion' = deletion
  BY DEF DeletionMarks, ClosingMarks
<1>4. ASSUME NEW k \in Jobs
      PROVE  /\ refinement'[k] \in JobRec /\ refinement'[k].at = refinement[k].at
             /\ k \in titleJobs => refinement'[k].of = by /\ refinement'[k].cancel = TRUE
             /\ k \notin titleJobs => refinement'[k] = refinement[k]
  BY <1>3, TakenFacts
<1>5. TypeInv'
  <2>1. refinement' \in [Jobs -> JobRec]
    BY <1>3, <1>4 DEF Taken
  <2>2. flagged' \in BOOLEAN
    BY <1>2, Zenon
  <2> QED BY <1>1, <1>2, <1>3, <2>1, <2>2 DEF TypeInv
<1>6. MarkInv'
  BY <1>2 DEF MarkInv
<1>7. TitleJobsSettle'
  <2>1. \A k \in Jobs : Refining(k)' <=> Refining(k)
    BY <1>4 DEF Refining
  <2>2. shutdown' # "done" /\ ~housekeeping'
    BY <1>2, <1>3
  <2>3. deletion' = "done" => deletion = "done"
    BY <1>3
  <2> QED BY <1>1, <1>2, <2>1, <2>2, <2>3 DEF TitleJobsSettle
<1>8. ASSUME NEW k \in Jobs PROVE JobInv(k)'
  <2>1. CASE k \in titleJobs
    <3>1. deletion' \in {"no", "failed"} \/ by = "delete"
      BY <1>1, <1>3, <2>1 DEF MarkInv, TypeInv
    <3> QED BY <1>1, <1>2, <1>3, <1>4, <2>1, <3>1 DEF JobInv
  <2>2. CASE k \notin titleJobs
    BY <1>1, <1>2, <1>4, <2>2 DEF JobInv
  <2> QED BY <2>1, <2>2
<1> QED BY <1>5, <1>6, <1>7, <1>8 DEF TitlesInv

LEMMA EndsKeep == ASSUME TitlesInv, DeletionEnds \/ ClosingEnds PROVE TitlesInv'
<1>1. TypeInv /\ MarkInv /\ TitleJobsSettle /\ \A k \in Jobs : JobInv(k)
  BY DEF TitlesInv
<1>2. UNCHANGED <<prompts, turn, titleJobs, housekeeping, overwrote>>
  BY DEF DeletionEnds, ClosingEnds
<1>3. PICK by \in {"delete", "shutdown"} : refinement' = Joined1(by)
  BY DEF DeletionEnds, ClosingEnds
<1>4. ASSUME NEW k \in Jobs
      PROVE  /\ refinement'[k] \in JobRec /\ refinement'[k].of = refinement[k].of
             /\ refinement'[k].cancel = refinement[k].cancel
             /\ refinement[k].of = by => refinement'[k].at = "joined"
             /\ refinement[k].of # by => refinement'[k].at = refinement[k].at
  BY <1>3, JoinedFacts
<1>5. \A k \in Jobs : Refining(k)' => Refining(k)
  BY <1>4 DEF Refining
<1>6. refinement' \in [Jobs -> JobRec]
  BY <1>3, <1>4 DEF Joined1
<1>7. CASE DeletionEnds
  <2>1. /\ shutdown' = shutdown /\ deletion = "joining" /\ turn.at = "idle" /\ Over("delete")
        /\ \/ title' = Gone1 /\ deletion' = "done" /\ flagged' = flagged
           \/ deletion' = "failed" /\ flagged' = FALSE /\ title' = title
    BY <1>7 DEF DeletionEnds
  <2>2. TypeInv'
    <3>1. flagged' \in BOOLEAN /\ title' \in Titles
      BY <1>1, <2>1 DEF TypeInv, Titles
    <3> QED BY <1>1, <1>2, <1>6, <2>1, <3>1 DEF TypeInv
  <2>3. \A k \in Jobs : ~Refining(k)
    BY <1>1, <2>1 DEF JobInv, MarkInv, Over, Refining, TypeInv, JobRec
  <2>4. MarkInv' /\ TitleJobsSettle'
    BY <1>1, <1>2, <1>5, <2>1, <2>3 DEF MarkInv, TitleJobsSettle
  <2>5. ASSUME NEW k \in Jobs PROVE JobInv(k)'
    BY <1>1, <1>2, <1>4, <2>1 DEF JobInv
  <2> QED BY <2>2, <2>4, <2>5 DEF TitlesInv
<1>8. CASE ClosingEnds
  <2>1. /\ UNCHANGED <<title, flagged, deletion>> /\ shutdown = "joining" /\ shutdown' = "done"
        /\ Over("shutdown")
    BY <1>8 DEF ClosingEnds
  <2>2. TypeInv'
    BY <1>1, <1>2, <1>6, <2>1 DEF TypeInv
  <2>3. ASSUME NEW k \in Jobs, Refining(k) PROVE refinement[k].of = "delete"
    BY <1>1, <2>1, <2>3 DEF JobInv, MarkInv, Over, Refining, TypeInv, JobRec
  <2>4. MarkInv' /\ TitleJobsSettle'
    BY <1>1, <1>2, <1>4, <1>5, <2>1, <2>3 DEF MarkInv, TitleJobsSettle
  <2>5. ASSUME NEW k \in Jobs PROVE JobInv(k)'
    BY <1>1, <1>2, <1>4, <2>1 DEF JobInv
  <2> QED BY <2>2, <2>4, <2>5 DEF TitlesInv
<1> QED BY <1>7, <1>8

LEMMA NextTitles == TitlesInv /\ [TitlesNext]_titleVars => TitlesInv'
<1> SUFFICES ASSUME TitlesInv, [TitlesNext]_titleVars PROVE TitlesInv'
  OBVIOUS
<1>1. CASE UNCHANGED titleVars
  <2>1. TypeInv' /\ MarkInv' /\ TitleJobsSettle' /\ \A k \in Jobs : JobInv(k)'
    BY <1>1 DEF titleVars, TitlesInv, TypeInv, MarkInv, TitleJobsSettle, JobInv, Refining
  <2> QED BY <2>1 DEF TitlesInv
<1> QED BY <1>1, TurnActions, JobActions, SweepKeeps, SpawnKeeps, InterruptKeeps, MarksKeep,
           EndsKeep DEF TitlesNext

(***************************************************************************)
(* The theorems.                                                           *)
(***************************************************************************)
THEOREM TitlesInvariant == TitlesSpec => []TitlesInv
  BY InitTitles, NextTitles, PTL DEF TitlesSpec

\* The list holds exactly the born jobs that nobody took or joined.
THEOREM TitlesTypesHold == TitlesSpec => []TitlesTypeOK
<1>1. TitlesInv => TitlesTypeOK
  BY DEF TitlesInv, TypeInv, JobInv, TitlesTypeOK, Titles
<1> QED BY <1>1, TitlesInvariant, PTL

\* A stale job never replaces another title, none runs on after the delete or
\* the shutdown that joins it, and housekeeping has the session to itself.
THEOREM TitleJobsSettleHolds == TitlesSpec => []TitleJobsSettle
<1>1. TitlesInv => TitleJobsSettle
  BY DEF TitlesInv
<1> QED BY <1>1, TitlesInvariant, PTL

(***************************************************************************)
(* The application.  be_app's engine and the window's differ only while    *)
(* the window is given the new one, when no worker and no run is left; a   *)
(* deletion is told to be_app before the window; a session's text is in    *)
(* the composer or in its draft.                                           *)
(***************************************************************************)
RunRec == [on: Nat, at: {"none", "work", "approval"}, stop: BOOLEAN]
KeeperRec == [pending: BOOLEAN, running: BOOLEAN, at: {"none", "start", "work"}, on: Nat]
WorkerRec ==
  {j \in [ids: SUBSET Chats, done: SUBSET Chats, sess: Chats \cup {NoChat}, on: Nat,
          joins: BOOLEAN] : j.sess # NoChat => j.sess \in j.ids}

\* a report of deletions is good exactly when it names some
Whats == {"active", "delete", "cleanup", "settings", "directory", "decision", "quit", "deleted",
          "apply", "changed", "kept"}
NoteRec == {n \in [what: Whats, ids: SUBSET Chats, ok: BOOLEAN] :
              n.what = "deleted" => (n.ok <=> n.ids # {})}

\* what be_app does after it joined the workers
Alone == {"shutdown", "wait", "swap", "quit-shutdown", "quit-wait", "ended"}
AppPlaces == {"idle", "ask-join", "ask-apply", "apply", "join", "quit-join"} \cup Alone

LifeTypes ==
  /\ rows \in SUBSET Chats /\ listed \in SUBSET Chats /\ sel \in Chats \cup {NoChat}
  /\ winOpen \in BOOLEAN /\ dirty \in BOOLEAN
  /\ eng \in Nat \ {0} /\ winEng \in Nat \ {0}
  /\ run \in [Chats -> RunRec]
  /\ app \in AppPlaces /\ appq \in Seq(NoteRec) /\ winq \in Seq(NoteRec)
  /\ jobs \in SUBSET WorkerRec /\ keeping \in KeeperRec

EngineInv ==
  /\ app # "swap" => winEng = eng /\ alive = {eng}
  /\ app = "swap" => /\ alive = {winEng, eng}
                     /\ \A s \in Chats : run[s].on = 0
  /\ app \in {"wait", "swap"} => winEng \in closing
  /\ \A s \in Chats : run[s].on \in {0, winEng}
  /\ app \in Alone => jobs = {} /\ keeping.at = "none"
  /\ \A j \in jobs : j.on \in {0, eng}
  /\ keeping.on # 0 => keeping.on = eng /\ keeping.at = "work"

\* the housekeeping worker tells its end once, and is gone by then
Kept(q, i) == i \in DOMAIN q /\ q[i].what = "kept"
KeeperInv ==
  /\ keeping.at # "none" => keeping.running
  /\ \A i \in DOMAIN appq : appq[i].what = "kept" =>
       /\ keeping.running /\ keeping.at = "none"
       /\ \A k \in DOMAIN appq : appq[k].what = "kept" => k = i

\* the text of a session is in the composer or in its draft
TextInv ==
  /\ typed \subseteq Chats \cup {NoChat}
  /\ composer = {} \/ \E s \in Chats \cup {NoChat} : composer = {s}
  /\ drafts \in [Chats -> SUBSET Chats] /\ \A s \in Chats : drafts[s] \subseteq {s}
  /\ sel # NoChat => composer \subseteq {sel}
  /\ \A s \in typed \ {NoChat} : IF s = sel THEN composer = {s} ELSE drafts[s] = {s}

\* a session the window shows exists or is reported
ShownInv == winOpen =>
  \A s \in Chats : s \in listed \/ s = sel => s \in rows \/ Reported(s)

\* be_app learns of every deletion before the window does
OwedInv == dirty /\ app # "ended" =>
  \/ keeping.pending \/ keeping.at # "none"
  \/ \E j \in jobs : j.done # {}
  \/ \E i \in DOMAIN appq : appq[i].what = "deleted" /\ appq[i].ids # {}
  \/ \E i \in DOMAIN appq : appq[i].what = "kept" /\ ~appq[i].ok

LifeInv == LifeTypes /\ EngineInv /\ KeeperInv /\ TextInv /\ ShownInv /\ OwedInv

(***************************************************************************)
(* Queues of notes.                                                        *)
(***************************************************************************)
LEMMA AppendNote ==
  ASSUME NEW q \in Seq(NoteRec), NEW n \in NoteRec
  PROVE  /\ Append(q, n) \in Seq(NoteRec)
         /\ DOMAIN q \subseteq DOMAIN Append(q, n) /\ Len(q) + 1 \in DOMAIN Append(q, n)
         /\ \A i \in DOMAIN q : Append(q, n)[i] = q[i]
         /\ Append(q, n)[Len(q) + 1] = n
         /\ \A i \in DOMAIN Append(q, n) : i \in DOMAIN q \/ i = Len(q) + 1
<1> DEFINE R == NoteRec
<1>1. q \in Seq(R) /\ n \in R
  OBVIOUS
<1> HIDE DEF R
<1>2. /\ Append(q, n) \in Seq(R)
      /\ DOMAIN q = 1..Len(q) /\ DOMAIN Append(q, n) = 1..(Len(q) + 1) /\ Len(q) \in Nat
      /\ \A i \in 1..Len(q) : Append(q, n)[i] = q[i]
      /\ Append(q, n)[Len(q) + 1] = n
  BY <1>1
<1> QED BY <1>2 DEF R

LEMMA TakeNote ==
  ASSUME NEW q \in Seq(NoteRec), q # <<>>
  PROVE  /\ Head(q) \in NoteRec /\ Tail(q) \in Seq(NoteRec)
         /\ \A i \in DOMAIN Tail(q) : i + 1 \in DOMAIN q /\ Tail(q)[i] = q[i + 1] /\ i \in Nat
         /\ 1 \in DOMAIN q /\ Head(q) = q[1]
         /\ \A i \in DOMAIN q : i = 1 \/ (i - 1 \in DOMAIN Tail(q) /\ Tail(q)[i - 1] = q[i])
<1> DEFINE R == NoteRec
<1>1. q \in Seq(R)
  OBVIOUS
<1> HIDE DEF R
<1>2. /\ Head(q) \in R /\ Tail(q) \in Seq(R) /\ Len(q) \in Nat \ {0} /\ Head(q) = q[1]
      /\ DOMAIN q = 1..Len(q) /\ DOMAIN Tail(q) = 1..(Len(q) - 1)
      /\ \A i \in 1..(Len(q) - 1) : Tail(q)[i] = q[i + 1]
  BY <1>1
<1>3. \A i \in DOMAIN q : i = 1 \/ (i - 1 \in DOMAIN Tail(q) /\ Tail(q)[i - 1] = q[i])
  BY <1>2
<1> QED BY <1>2, <1>3 DEF R

LEMMA LifeStart == LifeInit => LifeInv
<1> SUFFICES ASSUME LifeInit PROVE LifeInv
  OBVIOUS
<1> USE LifeAssumption DEF LifeInit
<1>1. LifeTypes
  <2>1. PICK failed \in BOOLEAN : keeping = [NoKeeper EXCEPT !.pending = failed]
    OBVIOUS
  <2>2. keeping \in KeeperRec
    BY <2>1 DEF NoKeeper, KeeperRec
  <2>3. run \in [Chats -> RunRec]
    BY DEF Resting, RunRec
  <2>4. appq \in Seq(NoteRec) /\ winq \in Seq(NoteRec)
    OBVIOUS
  <2>5. /\ rows \in SUBSET Chats /\ listed \in SUBSET Chats /\ sel \in Chats \cup {NoChat}
        /\ jobs \in SUBSET WorkerRec
    OBVIOUS
  <2>6. winOpen \in BOOLEAN /\ dirty \in BOOLEAN
    OBVIOUS
  <2>7. eng \in Nat \ {0} /\ winEng \in Nat \ {0}
    OBVIOUS
  <2>8. app \in AppPlaces
    BY DEF AppPlaces
  <2> QED BY <2>2, <2>3, <2>4, <2>5, <2>6, <2>7, <2>8 DEF LifeTypes
<1>2. keeping.at = "none" /\ keeping.on = 0
  BY DEF NoKeeper
<1>3. EngineInv
  BY <1>2 DEF EngineInv, Alone, Resting
<1>4. KeeperInv
  BY <1>2 DEF KeeperInv
<1>5. TextInv
  BY DEF TextInv
<1>6. ShownInv
  BY DEF ShownInv
<1>7. OwedInv
  BY DEF OwedInv
<1> QED BY <1>1, <1>3, <1>4, <1>5, <1>6, <1>7 DEF LifeInv

(***************************************************************************)
(* What a step that leaves a part alone keeps of it.                       *)
(***************************************************************************)
\* nothing is taken from the queue of be_app, and no note but these is added
LEMMA KeeperKept ==
  ASSUME LifeTypes, KeeperInv, UNCHANGED keeping,
         UNCHANGED appq \/ \E n \in NoteRec : n.what # "kept" /\ Tell(n)
  PROVE  KeeperInv'
<1>1. CASE UNCHANGED appq
  BY <1>1 DEF KeeperInv
<1>2. CASE \E n \in NoteRec : n.what # "kept" /\ Tell(n)
  <2>1. PICK n \in NoteRec : n.what # "kept" /\ appq' = Append(appq, n)
    BY <1>2 DEF Tell
  <2>2. appq \in Seq(NoteRec)
    BY DEF LifeTypes
  <2>3. \A i \in DOMAIN appq' : appq'[i].what = "kept" => i \in DOMAIN appq /\ appq'[i] = appq[i]
    BY <2>1, <2>2, AppendNote
  <2> QED BY <2>3 DEF KeeperInv
<1> QED BY <1>1, <1>2

LEMMA ReportedKept ==
  ASSUME LifeTypes, UNCHANGED jobs, UNCHANGED winq,
         UNCHANGED appq \/ \E n \in NoteRec : Tell(n)
  PROVE  \A s \in Chats : Reported(s) => Reported(s)'
<1>1. CASE UNCHANGED appq
  BY <1>1 DEF Reported
<1>2. CASE \E n \in NoteRec : Tell(n)
  <2>1. PICK n \in NoteRec : appq' = Append(appq, n)
    BY <1>2 DEF Tell
  <2>2. \A i \in DOMAIN appq : i \in DOMAIN appq' /\ appq'[i] = appq[i]
    BY <2>1, AppendNote DEF LifeTypes
  <2> QED BY <2>2 DEF Reported
<1> QED BY <1>1, <1>2

LEMMA ShownKept ==
  ASSUME ShownInv, UNCHANGED <<listed, sel>>, rows \subseteq rows', winOpen' => winOpen,
         \A s \in Chats : Reported(s) => Reported(s)'
  PROVE  ShownInv'
BY DEF ShownInv

LEMMA OwedKept ==
  ASSUME LifeTypes, OwedInv, dirty' => dirty, app' # "ended" => app # "ended",
         keeping.pending => keeping'.pending \/ keeping'.at # "none",
         keeping.at # "none" => keeping'.at # "none" \/ ~dirty',
         \A j \in jobs : j.done # {} => \E k \in jobs' : k.done # {},
         UNCHANGED appq \/ \E n \in NoteRec : Tell(n)
  PROVE  OwedInv'
<1>1. \A i \in DOMAIN appq : i \in DOMAIN appq' /\ appq'[i] = appq[i]
  <2>1. CASE UNCHANGED appq
    BY <2>1
  <2>2. CASE \E n \in NoteRec : Tell(n)
    BY <2>2, AppendNote DEF LifeTypes, Tell
  <2> QED BY <2>1, <2>2
<1> QED BY <1>1 DEF OwedInv

(***************************************************************************)
(* Runs and the clicks that only tell be_app something.                    *)
(***************************************************************************)
LEMMA StopsRun == \A r \in RunRec : Stopped(r) \in RunRec /\ Stopped(r).on = r.on
<1> TAKE r \in RunRec
<1> DEFINE at == IF r.on \in wired /\ r.at = "approval" THEN "work" ELSE r.at
<1>1. at \in {"none", "work", "approval"}
  BY DEF RunRec
<1> HIDE DEF at
<1>2. [r EXCEPT !.stop = TRUE, !.at = at] \in RunRec /\ [r EXCEPT !.stop = TRUE, !.at = at].on = r.on
  BY <1>1 DEF RunRec
<1> QED BY <1>2 DEF Stopped, at

\* runs move or end, and at most a note that is neither a report nor the end
\* of housekeeping is left
LEMMA RunsMove ==
  ASSUME LifeInv, run' \in [Chats -> RunRec], \A s \in Chats : run'[s].on \in {0, run[s].on},
         UNCHANGED <<rows, winVars, winOpen, engVars, app, winq, jobs, keeping, dirty>>,
         UNCHANGED appq \/ \E n \in NoteRec : n.what # "kept" /\ Tell(n)
  PROVE  LifeInv'
<1> USE DEF LifeInv, winVars, engVars
<1>0. /\ UNCHANGED appq \/ \E n \in NoteRec : Tell(n)
      /\ UNCHANGED <<rows, listed, sel, composer, drafts, typed, winOpen, winEng, eng, alive,
                     closing, app, winq, jobs, keeping, dirty>>
  OBVIOUS
<1>1. appq' \in Seq(NoteRec)
  <2>1. CASE UNCHANGED appq
    BY <2>1 DEF LifeTypes
  <2>2. CASE \E n \in NoteRec : Tell(n)
    <3>1. PICK n \in NoteRec : Tell(n)
      BY <2>2
    <3> QED BY <3>1, AppendNote DEF LifeTypes, Tell
  <2> QED BY <1>0, <2>1, <2>2
<1>2. LifeTypes'
  BY <1>0, <1>1 DEF LifeTypes
<1>3. EngineInv'
  BY <1>0 DEF EngineInv
<1>4. KeeperInv'
  BY <1>0, KeeperKept
<1>5. TextInv'
  BY <1>0 DEF TextInv
<1>6. ShownInv'
  <2>1. \A s \in Chats : Reported(s) => Reported(s)'
    BY <1>0, ReportedKept
  <2> QED BY <1>0, <2>1, ShownKept
<1>7. OwedInv'
  BY <1>0, OwedKept
<1> QED BY <1>2, <1>3, <1>4, <1>5, <1>6, <1>7

LEMMA RunActions ==
  ASSUME LifeInv, NEW s \in Chats, RunAsks(s) \/ RunEnds(s) \/ ClickInterrupt
  PROVE  LifeInv'
<1>0. run \in [Chats -> RunRec] /\ run[s] \in RunRec /\ sel \in Chats \cup {NoChat}
  BY DEF LifeInv, LifeTypes
<1>1. CASE RunAsks(s)
  <2>1. run' \in [Chats -> RunRec] /\ \A t \in Chats : run'[t].on = run[t].on
    BY <1>0, <1>1 DEF RunAsks, RunRec
  <2> QED BY <1>1, <2>1, RunsMove DEF RunAsks
<1>2. CASE RunEnds(s)
  <2>1. run' \in [Chats -> RunRec] /\ \A t \in Chats : run'[t].on \in {0, run[t].on}
    BY <1>0, <1>2 DEF RunEnds, Resting, RunRec
  <2> QED BY <1>2, <2>1, RunsMove DEF RunEnds
<1>3. CASE ClickInterrupt
  <2>1. sel \in Chats /\ run' = [run EXCEPT ![sel] = Stopped(run[sel])]
    BY <1>0, <1>3 DEF ClickInterrupt
  <2>2. run' \in [Chats -> RunRec] /\ \A t \in Chats : run'[t].on = run[t].on
    BY <1>0, <2>1, StopsRun
  <2> QED BY <1>3, <2>2, RunsMove DEF ClickInterrupt
<1> QED BY <1>1, <1>2, <1>3

LEMMA ClickActions ==
  ASSUME LifeInv, ClickDelete \/ ClickChange \/ \E s \in Chats : Answers(s)
  PROVE  LifeInv'
<1>0. rows \in SUBSET Chats /\ listed \in SUBSET Chats /\ run \in [Chats -> RunRec]
  BY DEF LifeInv, LifeTypes
<1>1. \A what \in {"delete", "cleanup", "settings", "directory", "decision"}, ids \in SUBSET Chats :
        Note(what, ids, TRUE) \in NoteRec /\ Note(what, ids, TRUE).what # "kept"
  BY DEF Note, NoteRec, Whats
<1>2. CASE ClickDelete
  <2>1. \E n \in NoteRec : n.what # "kept" /\ Tell(n)
    <3>1. CASE \E s \in listed : Tell(Note("delete", {s}, TRUE))
      BY <1>0, <1>1, <3>1
    <3>2. CASE Tell(Note("cleanup", rows, TRUE))
      BY <1>0, <1>1, <3>2
    <3>3. CASE Tell(Note("cleanup", rows \ prompted, TRUE))
      <4>1. rows \ prompted \in SUBSET Chats
        BY <1>0
      <4> QED BY <4>1, <1>1, <3>3
    <3> QED BY <1>2, <3>1, <3>2, <3>3 DEF ClickDelete
  <2> QED BY <1>0, <1>2, <2>1, RunsMove DEF ClickDelete
<1>3. CASE ClickChange
  <2>1. \E n \in NoteRec : n.what # "kept" /\ Tell(n)
    <3>1. PICK what \in {"settings", "directory"} : Tell(Note(what, {}, TRUE))
      BY <1>3 DEF ClickChange
    <3> QED BY <3>1, <1>1
  <2> QED BY <1>0, <1>3, <2>1, RunsMove DEF ClickChange
<1>4. CASE \E s \in Chats : Answers(s)
  <2>0. PICK s \in Chats : Answers(s)
    BY <1>4
  <2>1. \E n \in NoteRec : n.what # "kept" /\ Tell(n)
    <3>1. Tell(Note("decision", {s}, TRUE)) /\ {s} \in SUBSET Chats
      BY <2>0 DEF Answers
    <3> QED BY <3>1, <1>1
  <2> QED BY <1>0, <2>0, <2>1, RunsMove DEF Answers
<1> QED BY <1>2, <1>3, <1>4

LEMMA QuitKeeps == ASSUME LifeInv, ClickQuit PROVE LifeInv'
<1> USE DEF LifeInv, winVars, engVars
<1> DEFINE n == Note("quit", {}, TRUE)
<1>0. n \in NoteRec /\ n.what # "kept"
  BY DEF Note, NoteRec, Whats
<1>1. /\ appq' = Append(appq, n) /\ winq' = <<>> /\ winOpen' = FALSE
      /\ UNCHANGED <<rows, listed, sel, composer, drafts, typed, winEng, eng, alive, closing, app,
                     run, jobs, keeping, dirty>>
  BY DEF ClickQuit, Tell
<1> HIDE DEF n
<1>2. Tell(n)
  BY <1>1 DEF Tell
<1>3. LifeTypes'
  <2>1. appq' \in Seq(NoteRec) /\ winq' \in Seq(NoteRec)
    BY <1>0, <1>1, AppendNote DEF LifeTypes
  <2> QED BY <1>1, <2>1 DEF LifeTypes
<1>4. EngineInv'
  BY <1>1 DEF EngineInv
<1>5. KeeperInv'
  BY <1>0, <1>1, <1>2, KeeperKept
<1>6. TextInv'
  BY <1>1 DEF TextInv
<1>7. ShownInv'
  BY <1>1 DEF ShownInv
<1>8. OwedInv'
  BY <1>0, <1>1, <1>2, OwedKept
<1> QED BY <1>3, <1>4, <1>5, <1>6, <1>7, <1>8

(***************************************************************************)
(* The window.                                                             *)
(***************************************************************************)
LEMMA SavedDraft ==
  ASSUME LifeTypes, TextInv
  PROVE  /\ SaveActiveDraft \in [Chats -> SUBSET Chats]
         /\ \A s \in Chats : SaveActiveDraft[s] \subseteq {s}
         /\ \A s \in typed \ {NoChat} : SaveActiveDraft[s] = {s}
<1>0. /\ drafts \in [Chats -> SUBSET Chats] /\ \A s \in Chats : drafts[s] \subseteq {s}
      /\ sel \in Chats \cup {NoChat} /\ typed \subseteq Chats \cup {NoChat}
      /\ sel # NoChat => composer \subseteq {sel}
      /\ \A s \in typed \ {NoChat} : IF s = sel THEN composer = {s} ELSE drafts[s] = {s}
  BY DEF LifeTypes, TextInv
<1>1. CASE sel = NoChat
  BY <1>0, <1>1 DEF SaveActiveDraft
<1>2. CASE sel # NoChat
  <2>1. sel \in Chats /\ composer \in SUBSET Chats
    BY <1>0, <1>2
  <2>2. SaveActiveDraft = [drafts EXCEPT ![sel] = composer]
    BY <1>2 DEF SaveActiveDraft
  <2>3. /\ SaveActiveDraft \in [Chats -> SUBSET Chats] /\ SaveActiveDraft[sel] = composer
        /\ \A s \in Chats : s # sel => SaveActiveDraft[s] = drafts[s]
    BY <1>0, <2>1, <2>2
  <2> QED BY <1>0, <1>2, <2>1, <2>3
<1> QED BY <1>1, <1>2

\* the text that is kept for a session is in the composer once it is entered
LEMMA EnterKeepsText ==
  ASSUME NEW s \in Chats, NEW kept \in [Chats -> SUBSET Chats],
         \A t \in Chats : kept[t] \subseteq {t},
         typed' \subseteq Chats \cup {NoChat}, \A t \in typed' \ {NoChat} : kept[t] = {t},
         Enter(s, kept)
  PROVE  TextInv'
<1>1. sel' = s /\ drafts' = kept /\ composer' = kept[s] /\ s # NoChat
  BY LifeAssumption DEF Enter
<1>2. composer' = {} \/ composer' = {s}
  BY <1>1
<1>3. \A t \in typed' \ {NoChat} : IF t = sel' THEN composer' = {t} ELSE drafts'[t] = {t}
  BY <1>1
<1> QED BY <1>1, <1>2, <1>3 DEF TextInv

LEMMA EnterTells ==
  ASSUME NEW s \in Chats, NEW kept, Enter(s, kept)
  PROVE  \E n \in NoteRec : n.what # "kept" /\ Tell(n)
<1>1. Note("active", {s}, TRUE) \in NoteRec /\ Note("active", {s}, TRUE).what # "kept"
  BY DEF Note, NoteRec, Whats
<1> QED BY <1>1 DEF Enter

LEMMA WindowFrame ==
  ASSUME LifeInv, TextInv', ShownInv', rows' \in SUBSET Chats,
         listed' \in SUBSET Chats, sel' \in Chats \cup {NoChat}, winq' \in Seq(NoteRec),
         run' \in [Chats -> RunRec], \A s \in Chats : run'[s].on \in {0, winEng},
         app = "swap" => UNCHANGED run,
         UNCHANGED <<winOpen, engVars, app, jobs, keeping, dirty>>,
         UNCHANGED appq \/ \E n \in NoteRec : n.what # "kept" /\ Tell(n)
  PROVE  LifeInv'
<1> USE DEF LifeInv, engVars
<1>0. /\ UNCHANGED appq \/ \E n \in NoteRec : Tell(n)
      /\ UNCHANGED <<winOpen, winEng, eng, alive, closing, app, jobs, keeping, dirty>>
  OBVIOUS
<1>1. appq' \in Seq(NoteRec)
  <2>1. CASE UNCHANGED appq
    BY <2>1 DEF LifeTypes
  <2>2. CASE \E n \in NoteRec : Tell(n)
    <3>1. PICK n \in NoteRec : Tell(n)
      BY <2>2
    <3> QED BY <3>1, AppendNote DEF LifeTypes, Tell
  <2> QED BY <1>0, <2>1, <2>2
<1>2. LifeTypes'
  BY <1>0, <1>1 DEF LifeTypes
<1>3. EngineInv'
  BY <1>0 DEF EngineInv
<1>4. KeeperInv'
  BY <1>0, KeeperKept
<1>5. OwedInv'
  BY <1>0, OwedKept
<1> QED BY <1>2, <1>3, <1>4, <1>5

\* the session in view changes to one that exists or was shown before
LEMMA WindowMoves ==
  ASSUME LifeInv, TextInv', rows \subseteq rows', rows' \in SUBSET Chats,
         listed' \in SUBSET Chats, sel' \in Chats \cup {NoChat},
         \A s \in Chats : s \in listed' \/ s = sel' => s \in rows' \/ s \in listed \/ s = sel,
         run' \in [Chats -> RunRec], \A s \in Chats : run'[s].on \in {0, winEng},
         app = "swap" => UNCHANGED run,
         UNCHANGED <<winOpen, engVars, app, winq, jobs, keeping, dirty>>,
         UNCHANGED appq \/ \E n \in NoteRec : n.what # "kept" /\ Tell(n)
  PROVE  LifeInv'
<1>1. ShownInv'
  <2>1. \A s \in Chats : Reported(s) => Reported(s)'
    BY ReportedKept DEF LifeInv
  <2> QED BY <2>1 DEF ShownInv, LifeInv
<1>2. winq' \in Seq(NoteRec)
  BY DEF LifeInv, LifeTypes
<1> QED BY <1>1, <1>2, WindowFrame

LEMMA StartKeeps ==
  ASSUME LifeInv, NEW s \in Chats, Starts(s)
  PROVE  /\ run' \in [Chats -> RunRec] /\ \A t \in Chats : run'[t].on \in {0, winEng}
         /\ app = "swap" => UNCHANGED run
<1>0. /\ run \in [Chats -> RunRec] /\ winEng \in Nat /\ \A t \in Chats : run[t].on \in {0, winEng}
      /\ app = "swap" => winEng \in closing
  BY DEF LifeInv, LifeTypes, EngineInv
<1>1. CASE run' = run
  BY <1>0, <1>1
<1>2. CASE winEng \notin closing
           /\ run' = [run EXCEPT ![s] = [on |-> winEng, at |-> "work", stop |-> FALSE]]
  <2>1. [on |-> winEng, at |-> "work", stop |-> FALSE] \in RunRec
    BY <1>0 DEF RunRec
  <2> QED BY <1>0, <1>2, <2>1
<1> QED BY <1>1, <1>2 DEF Starts

LEMMA SubmitKeeps == ASSUME LifeInv, Submit PROVE LifeInv'
<1> USE DEF LifeInv
<1>0. /\ run \in [Chats -> RunRec] /\ \A t \in Chats : run[t].on \in {0, winEng}
      /\ rows \in SUBSET Chats /\ listed \in SUBSET Chats /\ sel \in Chats /\ sel # NoChat
  BY DEF LifeTypes, EngineInv, Submit
<1>1. /\ run' \in [Chats -> RunRec] /\ \A t \in Chats : run'[t].on \in {0, winEng}
      /\ app = "swap" => UNCHANGED run
  <2>1. Starts(sel) \/ UNCHANGED run
    BY DEF Submit
  <2> QED BY <1>0, <2>1, StartKeeps
<1>2. /\ composer' = {} /\ drafts' = [drafts EXCEPT ![sel] = {}] /\ typed' = typed \ {sel}
      /\ UNCHANGED <<rows, listed, sel, winOpen, engVars, app, appq, winq, jobs, keeping, dirty>>
  BY DEF Submit
<1>3. TextInv'
  <2>1. drafts' \in [Chats -> SUBSET Chats] /\ \A s \in Chats : drafts'[s] \subseteq {s}
    BY <1>0, <1>2 DEF TextInv
  <2>2. \A s \in typed' \ {NoChat} : s # sel' /\ drafts'[s] = {s}
    BY <1>0, <1>2 DEF TextInv
  <2>3. typed' \subseteq Chats \cup {NoChat} /\ composer' = {}
    BY <1>2 DEF TextInv
  <2> QED BY <2>1, <2>2, <2>3 DEF TextInv
<1> QED BY <1>0, <1>1, <1>2, <1>3, WindowMoves

LEMMA TypeKeeps == ASSUME LifeInv, Type PROVE LifeInv'
<1> USE DEF LifeInv
<1>0. /\ run \in [Chats -> RunRec] /\ \A t \in Chats : run[t].on \in {0, winEng}
      /\ rows \in SUBSET Chats /\ listed \in SUBSET Chats /\ sel \in Chats \cup {NoChat}
  BY DEF LifeTypes, EngineInv
<1>1. /\ composer' = {sel} /\ typed' = typed \cup {sel}
      /\ UNCHANGED <<rows, listed, sel, drafts, winOpen, engVars, run, app, appq, winq, jobs,
                     keeping, dirty>>
  BY DEF Type
<1>2. TextInv'
  BY <1>0, <1>1 DEF TextInv
<1> QED BY <1>0, <1>1, <1>2, WindowMoves

LEMMA NewSessionKeeps ==
  ASSUME LifeInv, NEW kept \in [Chats -> SUBSET Chats],
         \A t \in Chats : kept[t] \subseteq {t},
         typed' \subseteq Chats \cup {NoChat}, \A t \in typed' \ {NoChat} : kept[t] = {t},
         NewSession(kept),
         UNCHANGED <<winOpen, engVars, run, app, winq, jobs, keeping, dirty>>
  PROVE  LifeInv'
<1>0. /\ run \in [Chats -> RunRec] /\ \A t \in Chats : run[t].on \in {0, winEng}
      /\ rows \in SUBSET Chats
  BY DEF LifeInv, LifeTypes, EngineInv
<1>1. PICK s \in Chats \ used : rows' = rows \cup {s} /\ listed' = rows' /\ Enter(s, kept)
  BY DEF NewSession
<1>2. TextInv' /\ sel' = s /\ \E n \in NoteRec : n.what # "kept" /\ Tell(n)
  BY <1>1, EnterKeepsText, EnterTells DEF Enter
<1> QED BY <1>0, <1>1, <1>2, WindowMoves

LEMMA SelectActions ==
  ASSUME LifeInv, ClickNew \/ SubmitFirst \/ \E s \in Chats : ClickSession(s)
  PROVE  LifeInv'
<1> USE DEF LifeInv
<1>0. /\ run \in [Chats -> RunRec] /\ \A t \in Chats : run[t].on \in {0, winEng}
      /\ rows \in SUBSET Chats /\ listed \in SUBSET Chats /\ sel \in Chats \cup {NoChat}
      /\ typed \subseteq Chats \cup {NoChat}
      /\ drafts \in [Chats -> SUBSET Chats] /\ \A t \in Chats : drafts[t] \subseteq {t}
  BY DEF LifeTypes, EngineInv, TextInv
<1>1. CASE ClickNew
  BY <1>0, <1>1, SavedDraft, NewSessionKeeps DEF ClickNew
<1>2. CASE \E s \in Chats : ClickSession(s)
  <2>1. PICK s \in Chats : ClickSession(s)
    BY <1>2
  <2>2. /\ s \in listed /\ Enter(s, SaveActiveDraft)
        /\ UNCHANGED <<rows, listed, typed, winOpen, engVars, run, app, winq, jobs, keeping, dirty>>
    BY <2>1 DEF ClickSession
  <2>3. TextInv' /\ sel' = s /\ \E n \in NoteRec : n.what # "kept" /\ Tell(n)
    BY <1>0, <2>2, SavedDraft, EnterKeepsText, EnterTells DEF Enter
  <2> QED BY <1>0, <2>2, <2>3, WindowMoves
<1>3. CASE SubmitFirst
  <2>1. /\ sel = NoChat /\ typed' = typed \ composer
        /\ UNCHANGED <<winOpen, engVars, run, app, winq, jobs, keeping, dirty>>
    BY <1>3 DEF SubmitFirst
  <2>2. typed' \subseteq Chats \cup {NoChat} /\ \A t \in typed' \ {NoChat} : drafts[t] = {t}
    BY <1>0, <2>1 DEF TextInv
  <2>3. CASE NewSession(drafts)
    BY <1>0, <2>1, <2>2, <2>3, NewSessionKeeps
  <2>4. CASE composer' = {} /\ NotStored
    <3>1. /\ composer' = {} /\ UNCHANGED <<rows, listed, sel, drafts, appq>>
      BY <2>4 DEF NotStored
    <3>2. TextInv'
      BY <1>0, <2>1, <2>2, <3>1, LifeAssumption DEF TextInv
    <3> QED BY <1>0, <2>1, <3>1, <3>2, WindowMoves
  <2> QED BY <1>3, <2>3, <2>4 DEF SubmitFirst
<1> QED BY <1>1, <1>2, <1>3

\* what the window has not taken yet is still reported
LEMMA ReportTaken ==
  ASSUME LifeTypes, winq # <<>>, winq' = Tail(winq), UNCHANGED jobs,
         UNCHANGED appq \/ \E n \in NoteRec : Tell(n),
         NEW s \in Chats, Reported(s),
         Head(winq).what # "deleted" \/ s \notin Head(winq).ids
  PROVE  Reported(s)'
<1>0. winq \in Seq(NoteRec) /\ appq \in Seq(NoteRec)
  BY DEF LifeTypes
<1>1. CASE \E j \in jobs : s \in j.done
  BY <1>1 DEF Reported
<1>2. CASE \E i \in DOMAIN appq : appq[i].what = "deleted" /\ s \in appq[i].ids
  <2>1. \A i \in DOMAIN appq : i \in DOMAIN appq' /\ appq'[i] = appq[i]
    <3>1. CASE UNCHANGED appq
      BY <3>1
    <3>2. CASE \E n \in NoteRec : Tell(n)
      BY <1>0, <3>2, AppendNote DEF Tell
    <3> QED BY <3>1, <3>2
  <2> QED BY <1>2, <2>1 DEF Reported
<1>3. CASE \E i \in DOMAIN winq : winq[i].what = "deleted" /\ s \in winq[i].ids
  <2>1. PICK i \in DOMAIN winq : winq[i].what = "deleted" /\ s \in winq[i].ids
    BY <1>3
  <2>2. /\ Head(winq) = winq[1]
        /\ i = 1 \/ (i - 1 \in DOMAIN Tail(winq) /\ Tail(winq)[i - 1] = winq[i])
    BY <1>0, TakeNote
  <2>3. i - 1 \in DOMAIN winq' /\ winq'[i - 1] = winq[i]
    BY <2>1, <2>2
  <2> QED BY <2>1, <2>3 DEF Reported
<1> QED BY <1>1, <1>2, <1>3 DEF Reported

LEMMA ForgetText ==
  ASSUME LifeTypes, TextInv, NEW ids \in SUBSET Chats,
         NEW kept, kept = [s \in Chats |-> IF s \in ids THEN {} ELSE drafts[s]],
         typed' = typed \ ids
  PROVE  /\ kept \in [Chats -> SUBSET Chats] /\ \A s \in Chats : kept[s] \subseteq {s}
         /\ typed' \subseteq Chats \cup {NoChat}
         /\ \A s \in typed' \ {NoChat} : IF s = sel THEN composer = {s} ELSE kept[s] = {s}
<1>1. /\ drafts \in [Chats -> SUBSET Chats] /\ \A s \in Chats : drafts[s] \subseteq {s}
      /\ typed \subseteq Chats \cup {NoChat}
      /\ \A s \in typed \ {NoChat} : IF s = sel THEN composer = {s} ELSE drafts[s] = {s}
  BY DEF TextInv
<1>2. \A s \in Chats : kept[s] = IF s \in ids THEN {} ELSE drafts[s]
  OBVIOUS
<1>3. kept \in [Chats -> SUBSET Chats]
  BY <1>1
<1> QED BY <1>1, <1>2, <1>3

\* a session that was deleted is left for one that exists, or for none
LEMMA ForgetKeeps ==
  ASSUME LifeInv, NEW ids \in SUBSET Chats, Forget(ids),
         winq # <<>>, winq' = Tail(winq), Head(winq).ids = ids,
         UNCHANGED <<winOpen, engVars, run, app, jobs, keeping, dirty>>
  PROVE  LifeInv'
<1> USE DEF LifeInv
<1> DEFINE kept == [s \in Chats |-> IF s \in ids THEN {} ELSE drafts[s]]
<1>0. /\ run \in [Chats -> RunRec] /\ \A t \in Chats : run[t].on \in {0, winEng}
      /\ rows \in SUBSET Chats /\ listed \in SUBSET Chats /\ sel \in Chats \cup {NoChat}
      /\ winq \in Seq(NoteRec) /\ winq' \in Seq(NoteRec)
      /\ composer = {} \/ \E s \in Chats \cup {NoChat} : composer = {s}
      /\ sel # NoChat => composer \subseteq {sel}
  BY TakeNote DEF LifeTypes, EngineInv, TextInv
<1>1. /\ kept \in [Chats -> SUBSET Chats] /\ \A s \in Chats : kept[s] \subseteq {s}
      /\ typed' = typed \ ids /\ typed' \subseteq Chats \cup {NoChat}
      /\ \A s \in typed' \ {NoChat} : IF s = sel THEN composer = {s} ELSE kept[s] = {s}
  BY ForgetText DEF Forget
<1>2. IF sel \notin ids
      THEN drafts' = kept /\ listed' = rows /\ UNCHANGED <<rows, used, sel, composer, appq>>
      ELSE Replace(kept)
  BY DEF Forget
<1> HIDE DEF kept
<1>3. CASE sel \notin ids
  <2>1. drafts' = kept /\ listed' = rows /\ UNCHANGED <<rows, sel, composer, appq>>
    BY <1>2, <1>3
  <2>2. TextInv'
    BY <1>0, <1>1, <2>1 DEF TextInv
  <2>3. ShownInv'
    <3>1. \A s \in Chats : s \notin ids /\ Reported(s) => Reported(s)'
      BY <2>1, ReportTaken
    <3> QED BY <1>3, <2>1, <3>1 DEF ShownInv
  <2> QED BY <1>0, <2>1, <2>2, <2>3, WindowFrame
<1>4. CASE sel \in ids
  <2>0. \A s \in typed' \ {NoChat} : kept[s] = {s}
    BY <1>1, <1>4
  <2>1. CASE rows # {} /\ (\E t \in rows : Enter(t, kept)) /\ listed' = rows /\ UNCHANGED <<rows, used>>
    <3>1. PICK t \in rows : Enter(t, kept)
      BY <2>1
    <3>2. TextInv' /\ sel' = t /\ \E n \in NoteRec : n.what # "kept" /\ Tell(n)
      <4>1. t \in Chats /\ TextInv'
        BY <1>0, <1>1, <2>0, <3>1, EnterKeepsText
      <4>2. \E n \in NoteRec : n.what # "kept" /\ Tell(n)
        BY <4>1, <3>1, EnterTells
      <4> QED BY <3>1, <4>1, <4>2 DEF Enter
    <3>3. ShownInv'
      BY <2>1, <3>1, <3>2 DEF ShownInv
    <3> QED BY <1>0, <2>1, <3>1, <3>2, <3>3, WindowFrame
  <2>2. CASE NewSession(kept)
    <3>1. PICK s \in Chats \ used : rows' = rows \cup {s} /\ listed' = rows' /\ Enter(s, kept)
      BY <2>2 DEF NewSession
    <3>2. TextInv' /\ sel' = s /\ \E n \in NoteRec : n.what # "kept" /\ Tell(n)
      <4>1. s \in Chats /\ TextInv'
        BY <1>1, <2>0, <3>1, EnterKeepsText
      <4>2. \E n \in NoteRec : n.what # "kept" /\ Tell(n)
        BY <4>1, <3>1, EnterTells
      <4> QED BY <3>1, <4>1, <4>2 DEF Enter
    <3>3. ShownInv'
      BY <3>1, <3>2 DEF ShownInv
    <3> QED BY <1>0, <3>1, <3>2, <3>3, WindowFrame
  <2>3. CASE /\ sel' = NoChat /\ drafts' = kept /\ listed' = {}
             /\ UNCHANGED <<rows, used, composer, appq>>
    <3>1. TextInv'
      BY <1>0, <1>1, <2>0, <2>3 DEF TextInv
    <3>2. ShownInv'
      BY <2>3, LifeAssumption DEF ShownInv
    <3> QED BY <1>0, <2>3, <3>1, <3>2, WindowFrame
  <2> QED BY <1>2, <1>4, <2>1, <2>2, <2>3 DEF Replace
<1> QED BY <1>3, <1>4

LEMMA WindowTakesKeeps == ASSUME LifeInv, WindowTakes PROVE LifeInv'
<1> USE DEF LifeInv
<1>0. /\ run \in [Chats -> RunRec] /\ \A t \in Chats : run[t].on \in {0, winEng}
      /\ rows \in SUBSET Chats /\ listed \in SUBSET Chats /\ sel \in Chats \cup {NoChat}
      /\ winq \in Seq(NoteRec)
  BY DEF LifeTypes, EngineInv
<1>1. /\ winq # <<>> /\ winq' = Tail(winq)
      /\ UNCHANGED <<winOpen, engVars, run, app, jobs, keeping, dirty>>
  BY DEF WindowTakes
<1>2. winq' \in Seq(NoteRec) /\ Head(winq) \in NoteRec
  BY <1>0, <1>1, TakeNote
<1>3. CASE Head(winq).what = "deleted" /\ Head(winq).ok /\ Forget(Head(winq).ids)
  <2>1. Head(winq).ids \in SUBSET Chats
    BY <1>2 DEF NoteRec
  <2> QED BY <1>1, <1>3, <2>1, ForgetKeeps
<1>4. CASE /\ Head(winq).what = "deleted" => Head(winq).ids = {}
           /\ UNCHANGED <<rows, used, winVars>>
           /\ UNCHANGED appq \/ \E n \in NoteRec : n.what # "kept" /\ Tell(n)
  <2>1. UNCHANGED <<rows, listed, sel, composer, drafts, typed>>
    BY <1>4 DEF winVars
  <2>2. TextInv'
    BY <2>1 DEF TextInv
  <2>3. ShownInv'
    <3>1. \A s \in Chats : Reported(s) => Reported(s)'
      BY <1>1, <1>4, ReportTaken
    <3> QED BY <1>1, <2>1, <3>1 DEF ShownInv
  <2> QED BY <1>0, <1>1, <1>2, <1>4, <2>1, <2>2, <2>3, WindowFrame
<1>5. CASE Head(winq).what = "deleted" /\ ~Head(winq).ok /\ UNCHANGED <<rows, used, winVars, appq>>
  <2>1. Head(winq).ids = {}
    BY <1>2, <1>5 DEF NoteRec
  <2> QED BY <1>4, <1>5, <2>1
<1>6. CASE /\ Head(winq).what = "apply" /\ Tell(Note("changed", {}, TRUE))
           /\ UNCHANGED <<rows, used, winVars>>
  <2>1. Note("changed", {}, TRUE) \in NoteRec /\ Note("changed", {}, TRUE).what # "kept"
    BY DEF Note, NoteRec, Whats
  <2> QED BY <1>4, <1>6, <2>1
<1> QED BY <1>3, <1>5, <1>6 DEF WindowTakes

(***************************************************************************)
(* be_app.                                                                 *)
(***************************************************************************)
\* a note that is taken is no longer in the queue, the others are
LEMMA NotesLeft ==
  ASSUME LifeTypes, appq # <<>>, appq' = Tail(appq)
  PROVE  /\ appq' \in Seq(NoteRec) /\ Head(appq) \in NoteRec
         /\ 1 \in DOMAIN appq /\ appq[1] = Head(appq)
         /\ \A i \in DOMAIN appq' : i \in Nat /\ i + 1 \in DOMAIN appq /\ appq'[i] = appq[i + 1]
         /\ \A i \in DOMAIN appq : appq[i] = Head(appq)
              \/ \E k \in DOMAIN appq' : appq'[k] = appq[i]
<1>0. appq \in Seq(NoteRec)
  BY DEF LifeTypes
<1>1. /\ appq' \in Seq(NoteRec) /\ Head(appq) \in NoteRec
      /\ 1 \in DOMAIN appq /\ appq[1] = Head(appq)
      /\ \A i \in DOMAIN appq' : i \in Nat /\ i + 1 \in DOMAIN appq /\ appq'[i] = appq[i + 1]
      /\ \A i \in DOMAIN appq : i = 1 \/ (i - 1 \in DOMAIN appq' /\ appq'[i - 1] = appq[i])
  BY <1>0, TakeNote
<1> QED BY <1>1

LEMMA KeeperTakes ==
  ASSUME LifeTypes, KeeperInv, appq # <<>>, appq' = Tail(appq), keeping'.at = keeping.at,
         keeping'.running = keeping.running \/ Head(appq).what = "kept"
  PROVE  KeeperInv'
<1>1. /\ 1 \in DOMAIN appq /\ appq[1] = Head(appq)
      /\ \A i \in DOMAIN appq' : i \in Nat /\ i + 1 \in DOMAIN appq /\ appq'[i] = appq[i + 1]
  BY NotesLeft
<1>2. CASE Head(appq).what = "kept"
  <2>1. keeping.at = "none" /\ \A k \in DOMAIN appq : appq[k].what = "kept" => k = 1
    BY <1>1, <1>2 DEF KeeperInv
  <2>2. \A i \in DOMAIN appq' : appq'[i].what # "kept"
    <3>1. SUFFICES ASSUME NEW i \in DOMAIN appq', appq'[i].what = "kept" PROVE FALSE
      OBVIOUS
    <3>2. i \in Nat /\ i + 1 = 1
      BY <1>1, <2>1, <3>1
    <3>3. i = 0 /\ appq' \in Seq(NoteRec)
      BY <3>2, NotesLeft
    <3>4. DOMAIN appq' = 1..Len(appq')
      BY <3>3
    <3> QED BY <3>1, <3>3, <3>4
  <2> QED BY <2>1, <2>2 DEF KeeperInv
<1>3. CASE Head(appq).what # "kept"
  <2>1. keeping'.running = keeping.running
    BY <1>3
  <2>2. ASSUME NEW i \in DOMAIN appq', appq'[i].what = "kept"
        PROVE  /\ keeping.running /\ keeping.at = "none"
               /\ \A k \in DOMAIN appq' : appq'[k].what = "kept" => k = i
    <3>1. i + 1 \in DOMAIN appq /\ appq[i + 1].what = "kept" /\ i \in Nat
      BY <1>1, <2>2
    <3>2. \A k \in DOMAIN appq' : appq'[k].what = "kept" => k \in Nat /\ k + 1 = i + 1
      BY <1>1, <3>1 DEF KeeperInv
    <3> QED BY <3>1, <3>2 DEF KeeperInv
  <2> QED BY <2>1, <2>2 DEF KeeperInv
<1> QED BY <1>2, <1>3

\* the report of a deletion goes on to an open window
LEMMA ReportPassed ==
  ASSUME LifeTypes, appq # <<>>, appq' = Tail(appq), winOpen, jobs \subseteq jobs',
         UNCHANGED winq \/ \E n \in NoteRec : Show(n),
         Head(appq).what = "deleted" => Show(Head(appq)),
         NEW s \in Chats, Reported(s)
  PROVE  Reported(s)'
<1>0. winq \in Seq(NoteRec) /\ Head(appq) \in NoteRec
  BY NotesLeft DEF LifeTypes
<1>1. CASE \E j \in jobs : s \in j.done
  BY <1>1 DEF Reported
<1>2. CASE \E i \in DOMAIN winq : winq[i].what = "deleted" /\ s \in winq[i].ids
  <2>1. \A i \in DOMAIN winq : i \in DOMAIN winq' /\ winq'[i] = winq[i]
    BY <1>0, AppendNote DEF Show
  <2> QED BY <1>2, <2>1 DEF Reported
<1>3. CASE \E i \in DOMAIN appq : appq[i].what = "deleted" /\ s \in appq[i].ids
  <2>1. PICK i \in DOMAIN appq : appq[i].what = "deleted" /\ s \in appq[i].ids
    BY <1>3
  <2>2. CASE appq[i] = Head(appq)
    <3>1. winq' = Append(winq, Head(appq))
      BY <2>1, <2>2 DEF Show
    <3>2. Len(winq) + 1 \in DOMAIN winq' /\ winq'[Len(winq) + 1] = Head(appq)
      BY <1>0, <3>1, AppendNote
    <3> QED BY <2>1, <2>2, <3>2 DEF Reported
  <2>3. CASE \E k \in DOMAIN appq' : appq'[k] = appq[i]
    BY <2>1, <2>3 DEF Reported
  <2> QED BY <2>2, <2>3, NotesLeft
<1> QED BY <1>1, <1>2, <1>3 DEF Reported

LEMMA NoteTaken ==
  ASSUME LifeInv, app = "idle", appq # <<>>, appq' = Tail(appq),
         UNCHANGED <<rows, winVars, winOpen, engVars, dirty>>,
         app' \in AppPlaces \ Alone,
         run' \in [Chats -> RunRec], \A s \in Chats : run'[s].on = run[s].on,
         UNCHANGED jobs \/ jobs' = jobs \cup {Worker(Head(appq).ids)},
         keeping' \in KeeperRec, keeping'.at = keeping.at, keeping'.on = keeping.on,
         keeping.pending => keeping'.pending,
         keeping'.running = keeping.running \/ Head(appq).what = "kept",
         Head(appq).what = "kept" => Head(appq).ok \/ keeping'.pending,
         Head(appq).what = "deleted" =>
           Show(Head(appq)) /\ (Head(appq).ok => keeping'.pending),
         Head(appq).what # "deleted" => UNCHANGED winq
  PROVE  LifeInv'
<1> USE DEF LifeInv, winVars, engVars
<1>0. /\ appq' \in Seq(NoteRec) /\ Head(appq) \in NoteRec /\ Head(appq).ids \in SUBSET Chats
      /\ winq \in Seq(NoteRec) /\ jobs \in SUBSET WorkerRec
  BY NotesLeft DEF LifeTypes, NoteRec
<1>1. Worker(Head(appq).ids) \in WorkerRec
  BY <1>0 DEF Worker, WorkerRec
<1>2. LifeTypes'
  <2>1. winq' \in Seq(NoteRec)
    <3>1. winq' = winq \/ winq' = Append(winq, Head(appq))
      BY DEF Show
    <3>2. Append(winq, Head(appq)) \in Seq(NoteRec)
      BY <1>0, AppendNote
    <3> QED BY <1>0, <3>1, <3>2
  <2>2. jobs' \in SUBSET WorkerRec
    BY <1>0, <1>1
  <2> QED BY <1>0, <2>1, <2>2 DEF LifeTypes
<1>3. EngineInv'
  <2>1. \A j \in jobs' : j.on \in {0, eng}
    BY DEF EngineInv, Worker
  <2>2. /\ app \notin Alone /\ app' \notin Alone
        /\ app # "swap" /\ app' \notin {"wait", "swap"}
    BY DEF Alone
  <2>3. /\ \A s \in Chats : run'[s].on \in {0, run[s].on}
        /\ UNCHANGED <<winEng, eng, alive, closing>>
    OBVIOUS
  <2> QED BY <2>1, <2>2, <2>3 DEF EngineInv
<1>4. KeeperInv'
  BY KeeperTakes
<1>5. TextInv'
  BY DEF TextInv
<1>6. ShownInv'
  <2>1. winOpen => \A s \in Chats : Reported(s) => Reported(s)'
    BY <1>0, ReportPassed
  <2> QED BY <2>1 DEF ShownInv
<1>7. OwedInv'
  <2>0. SUFFICES ASSUME dirty PROVE OwedInv'
    BY DEF OwedInv
  <2>1. CASE keeping.pending \/ keeping.at # "none"
    BY <2>1 DEF OwedInv
  <2>2. CASE \E j \in jobs : j.done # {}
    BY <2>2 DEF OwedInv
  <2>3. CASE \E i \in DOMAIN appq : appq[i].what = "deleted" /\ appq[i].ids # {}
    <3>1. PICK i \in DOMAIN appq : appq[i].what = "deleted" /\ appq[i].ids # {}
      BY <2>3
    <3>2. CASE appq[i] = Head(appq)
      <4>1. keeping'.pending
        BY <1>0, <3>1, <3>2 DEF NoteRec
      <4> QED BY <4>1 DEF OwedInv
    <3>3. CASE \E k \in DOMAIN appq' : appq'[k] = appq[i]
      BY <3>1, <3>3 DEF OwedInv
    <3> QED BY <3>2, <3>3, NotesLeft
  <2>4. CASE \E i \in DOMAIN appq : appq[i].what = "kept" /\ ~appq[i].ok
    <3>1. PICK i \in DOMAIN appq : appq[i].what = "kept" /\ ~appq[i].ok
      BY <2>4
    <3>2. CASE appq[i] = Head(appq)
      BY <3>1, <3>2 DEF OwedInv
    <3>3. CASE \E k \in DOMAIN appq' : appq'[k] = appq[i]
      BY <3>1, <3>3 DEF OwedInv
    <3> QED BY <3>2, <3>3, NotesLeft
  <2> QED BY <2>0, <2>1, <2>2, <2>3, <2>4 DEF OwedInv
<1> QED BY <1>2, <1>3, <1>4, <1>5, <1>6, <1>7

LEMMA TakesNoteKeeps == ASSUME LifeInv, AppTakesNote PROVE LifeInv'
<1> DEFINE n == Head(appq)
<1>0. /\ app = "idle" /\ appq # <<>> /\ appq' = Tail(appq) /\ AppHandle(n)
      /\ UNCHANGED <<rows, winVars, winOpen, engVars, dirty>>
  BY DEF AppTakesNote
<1>1. run \in [Chats -> RunRec] /\ keeping \in KeeperRec
  BY DEF LifeInv, LifeTypes
<1>2. /\ "idle" \in AppPlaces \ Alone /\ "ask-join" \in AppPlaces \ Alone
      /\ "ask-apply" \in AppPlaces \ Alone /\ "join" \in AppPlaces \ Alone
      /\ "apply" \in AppPlaces \ Alone /\ "quit-join" \in AppPlaces \ Alone
  BY DEF AppPlaces, Alone
<1> HIDE DEF n
<1>3. CASE /\ n.what \in {"delete", "cleanup"}
           /\ jobs' = jobs \cup {Worker(n.ids)} /\ UNCHANGED <<app, winq, keeping, run>>
  <2>1. n.what # "kept" /\ n.what # "deleted"
    BY <1>3
  <2> QED BY <1>0, <1>1, <1>2, <1>3, <2>1, NoteTaken DEF n
<1>4. CASE /\ n.what = "deleted" /\ Show(n)
           /\ keeping' = [keeping EXCEPT !.pending = @ \/ n.ok] /\ UNCHANGED <<app, jobs, run>>
  <2>1. /\ keeping' \in KeeperRec /\ keeping'.at = keeping.at /\ keeping'.on = keeping.on
        /\ keeping'.pending = (keeping.pending \/ n.ok) /\ keeping'.running = keeping.running
    <3>1. n.ok \in BOOLEAN
      BY <1>0, NotesLeft DEF n, NoteRec, LifeInv
    <3>2. (keeping.pending \/ n.ok) \in BOOLEAN
      BY ZenonT(30), <1>1, <3>1 DEF KeeperRec
    <3> QED BY ZenonT(30), <1>1, <1>4, <3>2 DEF KeeperRec
  <2>2. n.what # "kept"
    BY <1>4
  <2> QED BY <1>0, <1>1, <1>2, <1>4, <2>1, <2>2, NoteTaken DEF n
<1>5. CASE n.what = "kept" /\ keeping' = KeepingDone(keeping, n.ok) /\ UNCHANGED <<app, winq, jobs, run>>
  <2>1. /\ keeping' \in KeeperRec /\ keeping'.at = keeping.at /\ keeping'.on = keeping.on
        /\ keeping'.pending = (keeping.pending \/ ~n.ok)
    <3>1. n.ok \in BOOLEAN
      BY <1>0, NotesLeft DEF n, NoteRec, LifeInv
    <3>2. (keeping.pending \/ ~n.ok) \in BOOLEAN
      BY ZenonT(30), <1>1, <3>1 DEF KeeperRec
    <3> QED BY ZenonT(30), <1>1, <1>5, <3>2 DEF KeeperRec, KeepingDone
  <2>2. n.what # "deleted"
    BY <1>5
  <2> QED BY <1>0, <1>1, <1>2, <1>5, <2>1, <2>2, NoteTaken DEF n
<1>6. CASE /\ n.what = "decision"
           /\ run' = [s \in Chats |-> IF s \in n.ids /\ run[s].at = "approval"
                                      THEN [run[s] EXCEPT !.at = "work"] ELSE run[s]]
           /\ UNCHANGED <<app, winq, jobs, keeping>>
  <2>1. run' \in [Chats -> RunRec] /\ \A s \in Chats : run'[s].on = run[s].on
    BY <1>1, <1>6 DEF RunRec
  <2>2. n.what # "kept" /\ n.what # "deleted"
    BY <1>6
  <2> QED BY <1>0, <1>1, <1>2, <1>6, <2>1, <2>2, NoteTaken DEF n
<1>7. CASE /\ n.what \in {"settings", "directory", "changed", "quit", "active"}
           /\ app' \in {"idle", "ask-join", "ask-apply", "join", "apply", "quit-join"}
           /\ UNCHANGED <<winq, jobs, keeping, run>>
  <2>1. n.what # "kept" /\ n.what # "deleted" /\ app' \in AppPlaces \ Alone
    BY <1>2, <1>7
  <2> QED BY <1>0, <1>1, <1>7, <2>1, NoteTaken DEF n
<1>8. \/ /\ n.what = "settings" /\ Confirm("ask-join", "join")
      \/ /\ n.what = "directory" /\ Confirm("ask-apply", "apply")
      \/ /\ n.what = "changed" /\ app' = "join"
      \/ /\ n.what = "quit" /\ app' = "quit-join"
      \/ /\ n.what = "active" /\ UNCHANGED app
      => app' \in {"idle", "ask-join", "ask-apply", "join", "apply", "quit-join"}
  BY <1>0 DEF Confirm
<1> QED BY <1>0, <1>3, <1>4, <1>5, <1>6, <1>7, <1>8 DEF AppHandle

\* be_app moves on without a note, and takes nothing away
LEMMA AppMoves ==
  ASSUME LifeInv, LifeTypes', EngineInv', UNCHANGED <<rows, winVars, winOpen, appq, jobs, dirty>>,
         UNCHANGED winq \/ \E n \in NoteRec : Show(n),
         app # "ended", UNCHANGED keeping
  PROVE  LifeInv'
<1> USE DEF LifeInv, winVars
<1>0. UNCHANGED <<rows, listed, sel, composer, drafts, typed, winOpen, appq, jobs, dirty>>
  OBVIOUS
<1>1. KeeperInv'
  BY <1>0, KeeperKept
<1>2. TextInv'
  BY <1>0 DEF TextInv
<1>3. ShownInv'
  <2>1. winOpen => \A i \in DOMAIN winq : i \in DOMAIN winq' /\ winq'[i] = winq[i]
    <3>1. CASE UNCHANGED winq
      BY <3>1
    <3>2. CASE \E n \in NoteRec : Show(n)
      <4>1. PICK n \in NoteRec : winq' = IF winOpen THEN Append(winq, n) ELSE winq
        BY <3>2 DEF Show
      <4>2. winq \in Seq(NoteRec)
        BY DEF LifeTypes
      <4> QED BY <4>1, <4>2, AppendNote
    <3> QED BY <3>1, <3>2
  <2>2. winOpen => \A s \in Chats : Reported(s) => Reported(s)'
    BY <1>0, <2>1 DEF Reported
  <2> QED BY <1>0, <2>2 DEF ShownInv
<1>4. OwedInv'
  BY <1>0 DEF OwedInv
<1> QED BY <1>1, <1>2, <1>3, <1>4

LEMMA ConfirmsKeeps == ASSUME LifeInv, AppConfirms, app # "ended" PROVE LifeInv'
<1> USE DEF LifeInv
<1>0. UNCHANGED <<rows, winVars, winOpen, engVars, run, appq, jobs, keeping, dirty>>
  BY DEF AppConfirms
<1>1. Note("apply", {}, TRUE) \in NoteRec
  BY DEF Note, NoteRec, Whats
<1>2. /\ app' \in {"join", "apply", "idle"} /\ app \in {"ask-join", "ask-apply", "apply"}
      /\ UNCHANGED winq \/ \E n \in NoteRec : Show(n)
  BY <1>1 DEF AppConfirms
<1>3. LifeTypes'
  <2>1. winq' \in Seq(NoteRec)
    <3>1. CASE UNCHANGED winq
      BY <3>1 DEF LifeTypes
    <3>2. CASE \E n \in NoteRec : Show(n)
      <4>1. PICK n \in NoteRec : winq' = winq \/ winq' = Append(winq, n)
        BY <3>2 DEF Show
      <4>2. winq \in Seq(NoteRec)
        BY DEF LifeTypes
      <4> QED BY <4>1, <4>2, AppendNote
    <3> QED BY <1>2, <3>1, <3>2
  <2>2. app' \in AppPlaces
    BY <1>2 DEF AppPlaces
  <2> QED BY <1>0, <2>1, <2>2 DEF LifeTypes, winVars, engVars
<1>4. EngineInv'
  BY <1>0, <1>2 DEF EngineInv, Alone, winVars, engVars
<1> QED BY <1>0, <1>2, <1>3, <1>4, AppMoves

LEMMA StopActions ==
  ASSUME LifeInv, JoinWorkers \/ StopEngine \/ Exit, app # "ended" PROVE LifeInv'
<1> USE DEF LifeInv
<1>1. CASE JoinWorkers
  <2>0. /\ jobs = {} /\ keeping.at = "none" /\ app' \in {"shutdown", "quit-shutdown"}
        /\ app \in {"join", "quit-join"}
        /\ UNCHANGED <<rows, winVars, winOpen, engVars, run, appq, winq, jobs, keeping, dirty>>
    BY <1>1 DEF JoinWorkers, Joined
  <2>1. LifeTypes'
    BY <2>0 DEF LifeTypes, AppPlaces, Alone, winVars, engVars
  <2>2. EngineInv'
    BY <2>0 DEF EngineInv, engVars
  <2> QED BY <2>0, <2>1, <2>2, AppMoves
<1>2. CASE StopEngine
  <2>0. /\ app \in {"shutdown", "quit-shutdown"} /\ app' \in {"wait", "quit-wait"}
        /\ closing' = closing \cup {eng}
        /\ run' = [s \in Chats |-> IF run[s].on = eng THEN Stopped(run[s]) ELSE run[s]]
        /\ UNCHANGED <<rows, winVars, winOpen, winEng, eng, alive, appq, winq, jobs, keeping, dirty>>
    BY <1>2 DEF StopEngine
  <2>1. run' \in [Chats -> RunRec] /\ \A s \in Chats : run'[s].on = run[s].on
    <3>1. run \in [Chats -> RunRec]
      BY DEF LifeTypes
    <3> QED BY <2>0, <3>1, StopsRun
  <2>2. LifeTypes'
    BY <2>0, <2>1 DEF LifeTypes, AppPlaces, Alone, winVars
  <2>3. EngineInv'
    BY <2>0, <2>1 DEF EngineInv, Alone
  <2> QED BY <2>0, <2>2, <2>3, AppMoves
<1>3. CASE Exit
  <2>0. /\ app = "quit-wait" /\ app' = "ended"
        /\ UNCHANGED <<rows, winVars, winOpen, engVars, run, appq, winq, jobs, keeping, dirty>>
    BY <1>3 DEF Exit
  <2>1. LifeTypes'
    BY <2>0 DEF LifeTypes, AppPlaces, Alone, winVars, engVars
  <2>2. EngineInv'
    BY <2>0 DEF EngineInv, Alone, engVars
  <2> QED BY <2>0, <2>1, <2>2, AppMoves
<1> QED BY <1>1, <1>2, <1>3

\* the old engine has no worker and no run left when its successor is made
LEMMA EngineActions ==
  ASSUME LifeInv, ReplaceEngine \/ SwapEngine, app # "ended" PROVE LifeInv'
<1> USE DEF LifeInv
<1>1. CASE ReplaceEngine
  <2>0. /\ app = "wait" /\ app' = "swap" /\ eng' = eng + 1 /\ alive' = alive \cup {eng + 1}
        /\ \A s \in Chats : run[s].on # eng
        /\ UNCHANGED <<rows, winVars, winOpen, winEng, closing, run, appq, winq, jobs, keeping, dirty>>
    BY <1>1 DEF ReplaceEngine, Replaced
  <2>1. /\ winEng = eng /\ alive = {eng} /\ eng \in Nat \ {0}
        /\ jobs = {} /\ keeping.at = "none" /\ keeping.on = 0 /\ winEng \in closing
        /\ \A s \in Chats : run[s].on = 0
    BY <2>0 DEF EngineInv, LifeTypes, Alone
  <2>2. LifeTypes'
    BY <2>0, <2>1 DEF LifeTypes, AppPlaces, Alone, winVars
  <2>3. EngineInv'
    BY <2>0, <2>1 DEF EngineInv
  <2> QED BY <2>0, <2>2, <2>3, AppMoves
<1>2. CASE SwapEngine
  <2>0. /\ app = "swap" /\ app' = "idle" /\ winEng' = eng /\ alive' = {eng}
        /\ UNCHANGED <<rows, winVars, winOpen, eng, closing, run, appq, winq, jobs, keeping, dirty>>
    BY <1>2 DEF SwapEngine
  <2>1. /\ jobs = {} /\ keeping.on = 0 /\ \A s \in Chats : run[s].on = 0
    BY <2>0 DEF EngineInv, Alone
  <2>2. LifeTypes'
    BY <2>0 DEF LifeTypes, AppPlaces, winVars
  <2>3. EngineInv'
    BY <2>0, <2>1 DEF EngineInv, Alone
  <2> QED BY <2>0, <2>2, <2>3, AppMoves
<1> QED BY <1>1, <1>2

(***************************************************************************)
(* Workers.                                                                *)
(***************************************************************************)
LEMMA KeeperActions ==
  ASSUME LifeInv, Pulse \/ KeeperEnters \/ KeeperWorks PROVE LifeInv'
<1> USE DEF LifeInv
<1>0. /\ UNCHANGED <<rows, listed, sel, composer, drafts, typed, winOpen, winEng, eng, alive,
                     closing, run, app, winq, jobs>>
      /\ keeping \in KeeperRec /\ appq \in Seq(NoteRec) /\ eng \in Nat
  BY DEF Pulse, KeeperEnters, KeeperWorks, winVars, engVars, LifeTypes
<1>1. /\ keeping' \in KeeperRec /\ appq' \in Seq(NoteRec) /\ KeeperInv'
      /\ UNCHANGED appq \/ \E n \in NoteRec : Tell(n)
      /\ \/ UNCHANGED dirty /\ (keeping'.at # "none" \/ \E i \in DOMAIN appq' :
                                                          appq'[i].what = "kept" /\ ~appq'[i].ok)
         \/ dirty' = FALSE
      /\ keeping'.on # 0 => keeping'.on = eng /\ keeping'.at = "work"
      /\ app \in Alone => keeping'.at = "none" /\ keeping'.on = 0
  <2>1. CASE Pulse
    <3>1. /\ app = "idle" /\ ~keeping.running /\ UNCHANGED <<appq, dirty>>
          /\ keeping' = [pending |-> FALSE, running |-> TRUE, at |-> "start", on |-> 0]
      BY <2>1 DEF Pulse
    <3>2. /\ keeping' \in KeeperRec /\ keeping'.at = "start" /\ keeping'.on = 0 /\ keeping'.running
      BY <3>1 DEF KeeperRec
    <3>3. \A i \in DOMAIN appq : appq[i].what # "kept"
      BY <3>1 DEF KeeperInv
    <3>4. KeeperInv'
      BY <3>1, <3>2, <3>3 DEF KeeperInv
    <3> QED BY <1>0, <3>1, <3>2, <3>4 DEF Alone
  <2>2. CASE KeeperEnters
    <3>1. /\ keeping.at = "start" /\ keeping' = [keeping EXCEPT !.at = "work", !.on = eng]
          /\ UNCHANGED <<appq, dirty>>
      BY <2>2 DEF KeeperEnters
    <3>2. /\ keeping' \in KeeperRec /\ keeping'.at = "work" /\ keeping'.on = eng
          /\ keeping'.running = keeping.running
      BY <1>0, <3>1 DEF KeeperRec
    <3>3. KeeperInv'
      BY <3>1, <3>2 DEF KeeperInv
    <3>4. app \notin Alone
      BY <3>1 DEF EngineInv
    <3> QED BY <1>0, <3>1, <3>2, <3>3, <3>4
  <2>3. CASE KeeperWorks
    <3>1. /\ keeping.at = "work" /\ keeping' = [keeping EXCEPT !.at = "none", !.on = 0]
          /\ \E ok \in BOOLEAN : /\ Tell(Note("kept", {}, ok))
                                 /\ IF ok THEN dirty' = FALSE ELSE UNCHANGED dirty
      BY <2>3 DEF KeeperWorks
    <3>2. /\ keeping' \in KeeperRec /\ keeping'.at = "none" /\ keeping'.on = 0
          /\ keeping'.running = keeping.running
      BY <1>0, <3>1 DEF KeeperRec
    <3>3. PICK ok \in BOOLEAN : /\ appq' = Append(appq, Note("kept", {}, ok))
                                /\ IF ok THEN dirty' = FALSE ELSE UNCHANGED dirty
      BY <3>1 DEF Tell
    <3>4. PICK n \in NoteRec : n = Note("kept", {}, ok) /\ n.what = "kept" /\ n.ok = ok
      <4>1. Note("kept", {}, ok) \in NoteRec
        BY DEF Note, NoteRec, Whats
      <4>2. Note("kept", {}, ok).what = "kept" /\ Note("kept", {}, ok).ok = ok
        BY ZenonT(30) DEF Note
      <4> QED BY <4>1, <4>2
    <3>5. keeping.running /\ \A i \in DOMAIN appq : appq[i].what # "kept"
      BY <3>1 DEF KeeperInv
    <3>6. /\ appq' \in Seq(NoteRec) /\ Len(appq) + 1 \in DOMAIN appq'
          /\ appq'[Len(appq) + 1] = n
          /\ \A i \in DOMAIN appq' : (i \in DOMAIN appq /\ appq'[i] = appq[i]) \/ i = Len(appq) + 1
      BY <1>0, <3>3, <3>4, AppendNote
    <3>7. KeeperInv'
      BY <3>2, <3>5, <3>6 DEF KeeperInv
    <3>8. dirty' = FALSE \/ (UNCHANGED dirty /\ ~n.ok)
      BY <3>3, <3>4
    <3>9. \E m \in NoteRec : Tell(m)
      BY <3>3, <3>4 DEF Tell
    <3> QED BY <3>2, <3>4, <3>6, <3>7, <3>8, <3>9
  <2> QED BY <2>1, <2>2, <2>3
<1>2. LifeTypes'
  <2>1. dirty' \in BOOLEAN
    BY <1>1 DEF LifeTypes
  <2> QED BY <1>0, <1>1, <2>1 DEF LifeTypes
<1>3. EngineInv'
  BY <1>0, <1>1 DEF EngineInv
<1>4. TextInv'
  BY <1>0 DEF TextInv
<1>5. ShownInv'
  <2>1. \A s \in Chats : Reported(s) => Reported(s)'
    BY <1>0, <1>1, ReportedKept
  <2> QED BY <1>0, <2>1, ShownKept
<1>6. OwedInv'
  BY <1>1 DEF OwedInv
<1> QED BY <1>1, <1>2, <1>3, <1>4, <1>5, <1>6

\* a worker that goes on keeps what it has deleted
LEMMA WorkerMoves ==
  ASSUME LifeInv, NEW j \in jobs, NEW k \in WorkerRec, jobs' = (jobs \ {j}) \cup {k},
         j.done \subseteq k.done, k.on \in {0, eng},
         run' \in [Chats -> RunRec], \A s \in Chats : run'[s].on = run[s].on,
         UNCHANGED <<winVars, winOpen, engVars, app, appq, winq, keeping>>,
         rows' \subseteq rows, \A s \in rows : s \in rows' \/ s \in k.done,
         dirty' \in BOOLEAN, dirty' => dirty \/ k.done # {}
  PROVE  LifeInv'
<1> USE DEF LifeInv, winVars, engVars
<1>0. /\ UNCHANGED <<listed, sel, composer, drafts, typed, winOpen, winEng, eng, alive,
                     closing, app, appq, winq, keeping>>
      /\ k \in jobs' /\ app \notin Alone
  BY DEF EngineInv
<1>1. LifeTypes'
  <2>1. jobs' \in SUBSET WorkerRec /\ rows' \in SUBSET Chats
    BY DEF LifeTypes
  <2> QED BY <1>0, <2>1 DEF LifeTypes
<1>2. EngineInv'
  <2>1. \A i \in jobs' : i.on \in {0, eng}
    BY DEF EngineInv
  <2>2. app # "swap" /\ app \notin {"wait", "swap"}
    BY <1>0 DEF Alone
  <2> QED BY <1>0, <2>1, <2>2 DEF EngineInv
<1>3. KeeperInv'
  BY <1>0, KeeperKept
<1>4. TextInv'
  BY <1>0 DEF TextInv
<1>5. \A i \in jobs : i \in jobs' \/ i.done \subseteq k.done
  OBVIOUS
<1>6. ShownInv'
  <2>1. \A s \in Chats : Reported(s) \/ s \in k.done => Reported(s)'
    BY <1>0, <1>5 DEF Reported
  <2> QED BY <1>0, <2>1 DEF ShownInv
<1>7. OwedInv'
  BY <1>0, <1>5 DEF OwedInv
<1> QED BY <1>1, <1>2, <1>3, <1>4, <1>6, <1>7

LEMMA WorkerDone ==
  ASSUME LifeInv, NEW j \in jobs, NEW s \in j.ids, NEW deleted \in SUBSET {s}
  PROVE  \E k \in WorkerRec : /\ k.done = j.done \cup deleted /\ k.on = 0
                             /\ JobDone(j, s, deleted) = (jobs \ {j}) \cup {k}
<1>0. PICK k : k = [j EXCEPT !.ids = @ \ {s}, !.done = @ \cup deleted, !.sess = NoChat, !.on = 0]
  OBVIOUS
<1>1. j \in WorkerRec
  BY DEF LifeInv, LifeTypes
<1>2. s \in Chats /\ deleted \subseteq Chats
  BY <1>1 DEF WorkerRec
<1>3. k \in WorkerRec /\ k.done = j.done \cup deleted /\ k.on = 0
  BY <1>0, <1>1, <1>2 DEF WorkerRec
<1>4. JobDone(j, s, deleted) = (jobs \ {j}) \cup {k}
  BY <1>0 DEF JobDone
<1> QED BY <1>3, <1>4

LEMMA JobTakesKeeps == ASSUME LifeInv, NEW j \in jobs, JobTakes(j) PROVE LifeInv'
<1>0. /\ run \in [Chats -> RunRec] /\ rows \in SUBSET Chats /\ j \in WorkerRec /\ eng \in Nat
      /\ dirty \in BOOLEAN
  BY DEF LifeInv, LifeTypes
<1>1. UNCHANGED <<rows, winVars, winOpen, engVars, app, appq, winq, keeping, dirty>>
  BY DEF JobTakes
<1>2. PICK s \in j.ids :
        IF eng \in closing \/ (s \in retiring /\ s \notin rows)
        THEN /\ jobs' = JobDone(j, s, IF eng \in closing THEN {} ELSE {s})
             /\ UNCHANGED run
        ELSE /\ jobs' = (jobs \ {j}) \cup
                        {[j EXCEPT !.sess = s, !.on = eng, !.joins = s \notin retiring]}
             /\ run' = [run EXCEPT ![s] = IF @.on = 0 THEN @ ELSE Stopped(@)]
  BY DEF JobTakes
<1>3. s \in Chats
  BY <1>0 DEF WorkerRec
<1>4. CASE eng \in closing \/ (s \in retiring /\ s \notin rows)
  <2>1. PICK deleted \in SUBSET {s} : jobs' = JobDone(j, s, deleted)
    BY <1>2, <1>4
  <2>3. PICK k \in WorkerRec : j.done \subseteq k.done /\ k.on = 0 /\ jobs' = (jobs \ {j}) \cup {k}
    BY <2>1, WorkerDone
  <2>4. UNCHANGED run
    BY <1>2, <1>4
  <2> QED BY <1>0, <1>1, <2>3, <2>4, WorkerMoves
<1>5. CASE ~(eng \in closing \/ (s \in retiring /\ s \notin rows))
  <2>1. PICK joins \in BOOLEAN :
          jobs' = (jobs \ {j}) \cup {[j EXCEPT !.sess = s, !.on = eng, !.joins = joins]}
    BY <1>2, <1>5
  <2>2. PICK k : k = [j EXCEPT !.sess = s, !.on = eng, !.joins = joins]
    OBVIOUS
  <2>3. k \in WorkerRec /\ j.done = k.done /\ k.on = eng
    BY <1>0, <1>3, <2>2 DEF WorkerRec
  <2>4. run' \in [Chats -> RunRec] /\ \A t \in Chats : run'[t].on = run[t].on
    <3>1. run' = [run EXCEPT ![s] = IF run[s].on = 0 THEN run[s] ELSE Stopped(run[s])]
      BY <1>2, <1>5
    <3> QED BY <1>0, <1>3, <3>1, StopsRun
  <2> QED BY <1>0, <1>1, <2>1, <2>2, <2>3, <2>4, WorkerMoves
<1> QED BY <1>4, <1>5

LEMMA JobDeletesKeeps == ASSUME LifeInv, NEW j \in jobs, JobDeletes(j) PROVE LifeInv'
<1>0. /\ run \in [Chats -> RunRec] /\ rows \in SUBSET Chats /\ j \in WorkerRec /\ dirty \in BOOLEAN
  BY DEF LifeInv, LifeTypes
<1>1. /\ UNCHANGED <<winVars, winOpen, engVars, run, app, appq, winq, keeping>>
      /\ j.sess # NoChat
  BY DEF JobDeletes
<1>2. j.sess \in j.ids
  BY <1>0, <1>1 DEF WorkerRec
<1>3. PICK deleted \in SUBSET {j.sess} :
        /\ jobs' = JobDone(j, j.sess, deleted)
        /\ \/ deleted = {j.sess} /\ rows' = rows \ {j.sess} /\ dirty' = (dirty \/ j.sess \in rows)
           \/ UNCHANGED <<rows, dirty>>
  <2>1. CASE rows' = rows \ {j.sess} /\ dirty' = (dirty \/ j.sess \in rows)
               /\ jobs' = JobDone(j, j.sess, {j.sess})
    BY <2>1
  <2>2. CASE jobs' = JobDone(j, j.sess, {}) /\ UNCHANGED <<rows, dirty>>
    BY <2>2
  <2> QED BY <2>1, <2>2 DEF JobDeletes
<1>5. PICK k \in WorkerRec : /\ k.done = j.done \cup deleted /\ k.on = 0
                             /\ jobs' = (jobs \ {j}) \cup {k}
  BY <1>2, <1>3, WorkerDone
<1>6. /\ rows' \subseteq rows /\ \A s \in rows : s \in rows' \/ s \in k.done
      /\ dirty' \in BOOLEAN /\ (dirty' => dirty \/ k.done # {})
  <2>1. CASE deleted = {j.sess} /\ rows' = rows \ {j.sess} /\ dirty' = (dirty \/ j.sess \in rows)
    <3>1. k.done # {} /\ j.sess \in k.done
      BY <1>5, <2>1
    <3>2. dirty' \in BOOLEAN
      BY ZenonT(30), <1>0, <2>1
    <3> QED BY <2>1, <3>1, <3>2
  <2>2. CASE UNCHANGED <<rows, dirty>>
    BY <1>0, <2>2
  <2> QED BY <1>3, <2>1, <2>2
<1> QED BY <1>0, <1>1, <1>5, <1>6, WorkerMoves

LEMMA JobReportsKeeps == ASSUME LifeInv, NEW j \in jobs, JobReports(j) PROVE LifeInv'
<1> USE DEF LifeInv, winVars, engVars
<1>0. /\ UNCHANGED <<rows, listed, sel, composer, drafts, typed, winOpen, winEng, eng, alive,
                     closing, run, app, winq, keeping, dirty>>
      /\ jobs' = jobs \ {j} /\ Tell(Note("deleted", j.done, j.done # {}))
      /\ appq \in Seq(NoteRec) /\ j \in WorkerRec
  BY DEF JobReports, LifeTypes
<1>1. PICK n \in NoteRec : /\ n = Note("deleted", j.done, j.done # {})
                           /\ n.what = "deleted" /\ n.ids = j.done
  <2>1. j.done \in SUBSET Chats /\ (j.done # {}) \in BOOLEAN
    BY <1>0 DEF WorkerRec
  <2>2. PICK ok \in BOOLEAN : ok = (j.done # {})
    BY <2>1
  <2>3. Note("deleted", j.done, ok) \in NoteRec
    BY <2>1, <2>2 DEF Note, NoteRec, Whats
  <2> QED BY <2>2, <2>3 DEF Note
<1>2. Tell(n) /\ n.what # "kept"
  BY <1>0, <1>1
<1>3. /\ appq' \in Seq(NoteRec) /\ Len(appq) + 1 \in DOMAIN appq'
      /\ appq'[Len(appq) + 1] = n /\ \A i \in DOMAIN appq : i \in DOMAIN appq' /\ appq'[i] = appq[i]
  BY <1>0, <1>2, AppendNote DEF Tell
<1>4. LifeTypes'
  <2>1. jobs' \in SUBSET WorkerRec
    BY <1>0 DEF LifeTypes
  <2> QED BY <1>0, <1>3, <2>1 DEF LifeTypes
<1>5. EngineInv'
  BY <1>0 DEF EngineInv
<1>6. KeeperInv'
  BY <1>0, <1>2, KeeperKept
<1>7. TextInv'
  BY <1>0 DEF TextInv
<1>8. \A i \in jobs : i \in jobs' \/ i = j
  BY <1>0
<1>9. ShownInv'
  <2>1. \A s \in Chats : Reported(s) => Reported(s)'
    BY <1>0, <1>1, <1>3, <1>8 DEF Reported
  <2> QED BY <1>0, <2>1, ShownKept
<1>10. OwedInv'
  BY <1>0, <1>1, <1>3, <1>8 DEF OwedInv
<1> QED BY <1>4, <1>5, <1>6, <1>7, <1>9, <1>10

\* a call of the Permissions center changes nothing the others look at
LEMMA CenterKeeps == ASSUME LifeInv, CenterAsks \/ CenterAnswered PROVE LifeInv'
<1>1. /\ UNCHANGED <<rows, winVars, winOpen, winEng, eng, alive, closing, run, app, appq, winq,
                     jobs, keeping, dirty>>
  BY DEF CenterAsks, CenterAnswered
<1> QED BY <1>1 DEF winVars, LifeInv, LifeTypes, EngineInv, KeeperInv, TextInv, ShownInv,
                    Reported, OwedInv, Kept

LEMMA LifeStep == LifeInv /\ [LifeNext]_lifeVars => LifeInv'
<1> SUFFICES ASSUME LifeInv, [LifeNext]_lifeVars PROVE LifeInv'
  OBVIOUS
<1>1. CASE UNCHANGED lifeVars
  BY <1>1 DEF lifeVars, winVars, engVars, LifeInv, LifeTypes, EngineInv, KeeperInv, TextInv,
              ShownInv, Reported, OwedInv
<1>2. CASE LifeNext
  <2>1. CASE \E s \in Chats : RunAsks(s) \/ RunEnds(s) \/ ClickSession(s) \/ Answers(s)
    BY <2>1, RunActions, SelectActions, ClickActions
  <2>2. CASE ClickNew \/ SubmitFirst
    BY <2>2, SelectActions
  <2>3. CASE Type \/ Submit
    BY <2>3, TypeKeeps, SubmitKeeps
  <2>4. CASE ClickInterrupt
    <3>1. sel \in Chats
      BY <2>4 DEF ClickInterrupt, LifeInv, LifeTypes
    <3> QED BY <2>4, <3>1, RunActions
  <2>5. CASE ClickDelete \/ ClickChange
    BY <2>5, ClickActions
  <2>6. CASE ClickQuit \/ WindowTakes \/ AppTakesNote
    BY <2>6, QuitKeeps, WindowTakesKeeps, TakesNoteKeeps
  <2>7. CASE AppConfirms \/ JoinWorkers \/ StopEngine \/ Exit
    BY <1>2, <2>7, ConfirmsKeeps, StopActions DEF LifeNext
  <2>8. CASE ReplaceEngine \/ SwapEngine
    BY <1>2, <2>8, EngineActions DEF LifeNext
  <2>9. CASE Pulse \/ KeeperEnters \/ KeeperWorks
    BY <2>9, KeeperActions
  <2>10. CASE \E j \in jobs : JobTakes(j) \/ JobDeletes(j) \/ JobReports(j)
    BY <2>10, JobTakesKeeps, JobDeletesKeeps, JobReportsKeeps
  <2>11. CASE CenterAsks \/ CenterAnswered
    BY <2>11, CenterKeeps
  <2> QED BY <1>2, <2>1, <2>2, <2>3, <2>4, <2>5, <2>6, <2>7, <2>8, <2>9, <2>10, <2>11
          DEF LifeNext
<1> QED BY <1>1, <1>2

(***************************************************************************)
(* Theorems.                                                               *)
(***************************************************************************)
\* The invariant the theorems below rest on: be_app's engine and the window's
\* differ only during the swap, when no worker and no run is left; deletions
\* are told to be_app before the window, and a window's text has one place.
THEOREM LifeInvariant == LifeSpec => []LifeInv
<1> QED BY LifeStart, LifeStep, PTL DEF LifeSpec

\* HaiCodeApp and MainWindow keep their types.
THEOREM LifeTypesHold == LifeSpec => []LifeTypeOK
<1>1. LifeInv => LifeTypeOK
  <2> SUFFICES ASSUME LifeInv PROVE LifeTypeOK
    OBVIOUS
  <2> USE DEF LifeInv
  <2>1. Cardinality(composer) <= 1
    <3>1. CASE composer = {}
      BY <3>1, FS_EmptySet
    <3>2. CASE \E s \in Chats \cup {NoChat} : composer = {s}
      <4>1. PICK s : composer = {s}
        BY <3>2
      <4>2. Cardinality({s}) = 1
        BY FS_Singleton
      <4> QED BY <4>1, <4>2
    <3> QED BY <3>1, <3>2 DEF TextInv
  <2>2. \A s \in Chats : run[s].at \in {"none", "work", "approval"}
    BY DEF LifeTypes, RunRec
  <2>3. \A j \in jobs : j.sess # NoChat => j.sess \in j.ids
    BY DEF LifeTypes, WorkerRec
  <2> QED BY <2>1, <2>2, <2>3 DEF LifeTypes, KeeperInv, LifeTypeOK
<1> QED BY <1>1, LifeInvariant, PTL

\* HaiCodeApp::_RecreateEngine and the threads it joins, waits for or gives the
\* next engine to: an engine is destroyed after the window's calls, the deleting
\* threads, the housekeeping thread and the runs have left it, whatever is
\* clicked, sent and answered in between.  Nothing is said of the Permissions
\* center, whose calls it may cut short (EngineOutlivesCenter).
THEOREM EngineOutlivesJoinedHolds == LifeSpec => []EngineOutlivesJoined
<1>1. LifeInv => EngineOutlivesJoined
  BY DEF LifeInv, LifeTypes, EngineInv, EngineOutlivesJoined
<1> QED BY <1>1, LifeInvariant, PTL

\* MainWindow's list, drafts and composer, and the housekeeping be_app owes:
\* the session in view exists or its deletion is reported, typed text stays
\* with its session, and rows that went are followed by a housekeeping pass.
THEOREM SessionsFollowedHolds == LifeSpec => []SessionsFollowed
<1>1. LifeInv => SessionsFollowed
  <2> SUFFICES ASSUME LifeInv PROVE SessionsFollowed
    OBVIOUS
  <2> USE DEF LifeInv
  <2>1. winOpen => /\ sel # NoChat => (sel \in rows \/ Reported(sel)) /\ composer \subseteq {sel}
                   /\ \A s \in typed \ {NoChat} :
                        IF s = sel THEN composer = {s} ELSE drafts[s] = {s}
    BY DEF LifeTypes, ShownInv, TextInv
  <2>2. dirty /\ app # "ended" =>
          \/ keeping.pending \/ keeping.at # "none"
          \/ \E s \in Chats : Reported(s)
          \/ \E i \in DOMAIN appq : appq[i].what = "kept" /\ ~appq[i].ok
    <3>1. \A j \in jobs : j.done \subseteq Chats
      BY DEF LifeTypes, WorkerRec
    <3>2. \A i \in DOMAIN appq : appq[i].ids \subseteq Chats
      BY DEF LifeTypes, NoteRec
    <3> QED BY <3>1, <3>2 DEF OwedInv, Reported
  <2> QED BY <2>1, <2>2 DEF SessionsFollowed
<1> QED BY <1>1, LifeInvariant, PTL

(***************************************************************************)
(* The permission broker: its invariants, that a request resolves once,    *)
(* and that every step is a step of ApprovalContract.                      *)
(***************************************************************************)
\* what the broker's members can hold, place by place
Typed ==
  /\ call \in [Requests -> CallRec]
  /\ pending \in SUBSET Requests
  /\ resolved \in [Requests -> BOOLEAN]
  /\ outcome \in [Requests -> Verdicts \cup {NoOutcome}]
  /\ blocked \in SUBSET Sessions /\ down \in BOOLEAN
  /\ answered \in [Requests -> Verdicts \cup {NoOutcome}]

\* a verdict that allows was the user's
UserAllowed(out) == out.effect = "allow" => out.by \in {"once", "session"}

Inside == {"deliver", "wait", "failmark", "failerase"}

\* what ties a request's entry to the place of its submit()
EntryInv(r) ==
  /\ r \in pending <=> call[r].pc \in Inside
  /\ call[r].pc # "new" => call[r].sess \in Sessions
  /\ resolved[r] <=> outcome[r] # NoOutcome
  /\ call[r].pc = "new" => ~resolved[r] /\ answered[r] = NoOutcome
  /\ call[r].pc = "failerase" => resolved[r]
  /\ call[r].pc = "done" => answered[r] \in Verdicts
  /\ UserAllowed(outcome[r]) /\ UserAllowed(answered[r])
  /\ (r \in pending /\ (down \/ call[r].sess \in blocked)) => resolved[r]

BrokerInv == Typed /\ \A r \in Requests : EntryInv(r)

LEMMA VerdictFacts ==
  /\ Denied \in Verdicts /\ Denied # NoOutcome /\ UserAllowed(Denied)
  /\ UserAllowed(NoOutcome) /\ NoOutcome \notin Verdicts
  /\ \A decision \in Decisions :
       LET out == [effect |-> IF decision = "deny" THEN "deny" ELSE "allow",
                   by |-> decision]
       IN  out \in Verdicts /\ UserAllowed(out)
  BY DEF Denied, NoOutcome, Verdicts, UserAllowed, Decisions

LEMMA BrokerInvInit == Init => BrokerInv
<1> SUFFICES ASSUME Init PROVE BrokerInv
  OBVIOUS
<1>1. Typed
  BY DEF Init, Typed, CallRec
<1>2. ASSUME NEW r \in Requests PROVE EntryInv(r)
  BY VerdictFacts DEF Init, EntryInv, Inside
<1> QED BY <1>1, <1>2 DEF BrokerInv

\* a step of submit() that only moves its own call
LEMMA Moves ==
  ASSUME Typed, NEW r \in Requests, NEW place \in Inside \cup {"done"}, Goto(r, place)
  PROVE  /\ call' \in [Requests -> CallRec]
         /\ call'[r] = [pc |-> place, sess |-> call[r].sess]
         /\ \A x \in Requests \ {r} : call'[x] = call[x]
  BY DEF Typed, Goto, CallRec, Inside

LEMMA BrokerInvNext == BrokerInv /\ [Next]_vars => BrokerInv'
<1> SUFFICES ASSUME BrokerInv, [Next]_vars PROVE BrokerInv'
  OBVIOUS
<1>0. Typed /\ \A x \in Requests : EntryInv(x)
  BY DEF BrokerInv
<1>1. ASSUME NEW r \in Requests, NEW s \in Sessions, SubmitDenied(r, s)
      PROVE  BrokerInv'
  <2>1. Typed'
    BY <1>0, <1>1, VerdictFacts DEF SubmitDenied, Typed, CallRec
  <2>2. ASSUME NEW x \in Requests PROVE EntryInv(x)'
    BY <1>0, <1>1, VerdictFacts DEF SubmitDenied, Typed, EntryInv, At, Inside, UserAllowed
  <2> QED BY <2>1, <2>2 DEF BrokerInv
<1>2. ASSUME NEW r \in Requests, NEW s \in Sessions, SubmitOpens(r, s)
      PROVE  BrokerInv'
  <2>1. Typed'
    BY <1>0, <1>2 DEF SubmitOpens, Typed, CallRec
  <2>2. ASSUME NEW x \in Requests PROVE EntryInv(x)'
    BY <1>0, <1>2 DEF SubmitOpens, Refused, Typed, EntryInv, At, Inside, UserAllowed
  <2> QED BY <2>1, <2>2 DEF BrokerInv
<1>3. ASSUME NEW r \in Requests, Deliver(r) PROVE BrokerInv'
  <2>1. PICK place \in {"wait", "failmark"} : Goto(r, place)
    BY <1>3 DEF Deliver
  <2>2. At(r, "deliver") /\ UNCHANGED <<pending, resolved, outcome, blocked, down, answered>>
    BY <1>3 DEF Deliver
  <2>3. /\ call' \in [Requests -> CallRec]
        /\ call'[r] = [pc |-> place, sess |-> call[r].sess]
        /\ \A x \in Requests \ {r} : call'[x] = call[x]
    BY <1>0, <2>1, Moves DEF Inside
  <2>4. Typed'
    BY <1>0, <2>2, <2>3 DEF Typed
  <2>5. ASSUME NEW x \in Requests PROVE EntryInv(x)'
    BY <1>0, <2>2, <2>3 DEF EntryInv, At, Inside, UserAllowed
  <2> QED BY <2>4, <2>5 DEF BrokerInv
<1>4. ASSUME NEW r \in Requests, FailMark(r) PROVE BrokerInv'
  <2>1. /\ call' \in [Requests -> CallRec]
        /\ call'[r] = [pc |-> "failerase", sess |-> call[r].sess]
        /\ \A x \in Requests \ {r} : call'[x] = call[x]
    BY <1>0, <1>4, Moves DEF FailMark, Inside
  <2>2. Typed'
    BY <1>0, <1>4, <2>1, VerdictFacts DEF FailMark, Typed
  <2>3. ASSUME NEW x \in Requests PROVE EntryInv(x)'
    BY <1>0, <1>4, <2>1, VerdictFacts DEF FailMark, Typed, EntryInv, At, Inside, UserAllowed
  <2> QED BY <2>2, <2>3 DEF BrokerInv
<1>5. ASSUME NEW r \in Requests, FailErase(r) PROVE BrokerInv'
  <2>1. /\ call' \in [Requests -> CallRec]
        /\ call'[r] = [pc |-> "done", sess |-> call[r].sess]
        /\ \A x \in Requests \ {r} : call'[x] = call[x]
    BY <1>0, <1>5, Moves DEF FailErase, Return
  <2>2. Typed'
    BY <1>0, <1>5, <2>1, VerdictFacts DEF FailErase, Return, Typed
  <2>3. ASSUME NEW x \in Requests PROVE EntryInv(x)'
    BY <1>0, <1>5, <2>1, VerdictFacts DEF FailErase, Return, Typed, EntryInv, At, Inside,
       UserAllowed
  <2> QED BY <2>2, <2>3 DEF BrokerInv
<1>6. ASSUME NEW r \in Requests, Wake(r) PROVE BrokerInv'
  <2>1. r \in pending /\ At(r, "wait")
    BY <1>0, <1>6 DEF Wake, At, EntryInv, Inside
  <2>2. /\ resolved[r] /\ Return(r, outcome[r]) /\ pending' = pending \ {r}
        /\ UNCHANGED <<resolved, outcome, blocked, down>>
    BY <1>6, <2>1 DEF Wake, Woken
  <2>3. /\ call' \in [Requests -> CallRec]
        /\ call'[r] = [pc |-> "done", sess |-> call[r].sess]
        /\ \A x \in Requests \ {r} : call'[x] = call[x]
    BY <1>0, <2>2, Moves DEF Return
  <2>4. outcome[r] \in Verdicts
    BY <1>0, <2>2 DEF EntryInv, Typed
  <2>5. Typed'
    BY <1>0, <2>2, <2>3, <2>4 DEF Return, Typed
  <2>6. ASSUME NEW x \in Requests PROVE EntryInv(x)'
    BY <1>0, <2>1, <2>2, <2>3, <2>4 DEF Return, Typed, EntryInv, At, Inside, UserAllowed
  <2> QED BY <2>5, <2>6 DEF BrokerInv
<1>7. ASSUME NEW r \in Requests, NEW decision \in Decisions, Resolve(r, decision)
      PROVE  BrokerInv'
  <2> DEFINE out == [effect |-> IF decision = "deny" THEN "deny" ELSE "allow",
                     by |-> decision]
  <2>1. out \in Verdicts /\ UserAllowed(out) /\ out # NoOutcome
    BY VerdictFacts
  <2>2. /\ r \in pending /\ ~resolved[r]
        /\ resolved' = [resolved EXCEPT ![r] = TRUE]
        /\ outcome' = [outcome EXCEPT ![r] = out]
        /\ UNCHANGED <<call, pending, blocked, down, answered>>
    BY <1>7 DEF Resolve, Open, Decide
  <2> HIDE DEF out
  <2>3. Typed'
    BY <1>0, <2>1, <2>2 DEF Typed
  <2>4. ASSUME NEW x \in Requests PROVE EntryInv(x)'
    <3>1. CASE x # r
      <4>1. resolved'[x] = resolved[x] /\ outcome'[x] = outcome[x]
        BY <1>0, <2>2, <3>1 DEF Typed
      <4> QED BY <1>0, <2>2, <4>1 DEF EntryInv, UserAllowed
    <3>2. CASE x = r
      <4>1. resolved'[x] = TRUE /\ outcome'[x] = out
        BY <1>0, <2>2, <3>2 DEF Typed
      <4>2. call[x].pc \in Inside
        BY <1>0, <2>2, <3>2 DEF EntryInv
      <4>3. UserAllowed(outcome[x])'
        BY <2>1, <4>1 DEF UserAllowed
      <4>4. UserAllowed(answered[x])'
        BY <1>0, <2>2 DEF EntryInv, UserAllowed
      <4>5. call[x].pc # "new" /\ (call[x].pc = "failerase" => resolved'[x])
        BY <4>1, <4>2 DEF Inside
      <4>6. resolved'[x] <=> outcome'[x] # NoOutcome
        BY <2>1, <4>1
      <4>7. /\ x \in pending <=> call[x].pc \in Inside
            /\ call[x].pc # "new" => call[x].sess \in Sessions
            /\ call[x].pc = "done" => answered[x] \in Verdicts
        BY <1>0 DEF EntryInv
      <4>8. call' = call /\ pending' = pending /\ blocked' = blocked /\ down' = down
            /\ answered' = answered
        BY <2>2
      <4> QED BY <4>1, <4>3, <4>4, <4>5, <4>6, <4>7, <4>8 DEF EntryInv
    <3> QED BY <3>1, <3>2
  <2> QED BY <2>3, <2>4 DEF BrokerInv
<1>8. ASSUME NEW S \in SUBSET Sessions, DenyAll(S), UNCHANGED <<call, pending, answered>>,
             \/ UNCHANGED down /\ blocked' = blocked \cup S
             \/ down' = TRUE /\ S = Sessions /\ UNCHANGED blocked
      PROVE  BrokerInv'
  <2> DEFINE hit == {r \in pending : call[r].sess \in S /\ ~resolved[r]}
  <2>1. /\ resolved' = [r \in Requests |-> resolved[r] \/ r \in hit]
        /\ outcome' = [r \in Requests |-> IF r \in hit THEN Denied ELSE outcome[r]]
    BY <1>8 DEF DenyAll, DenyEach
  <2>2. Typed'
    BY <1>0, <1>8, <2>1, VerdictFacts DEF Typed
  <2>3. ASSUME NEW x \in Requests PROVE EntryInv(x)'
    <3>1. CASE x \in hit
      <4>1. resolved'[x] = TRUE /\ outcome'[x] = Denied
        BY <2>1, <3>1
      <4>2. x \in pending /\ call[x].pc \in Inside
        BY <1>0, <3>1 DEF EntryInv
      <4>3. call[x].pc # "new" /\ (call[x].pc = "failerase" => resolved'[x])
        BY <4>1, <4>2 DEF Inside
      <4>4. resolved'[x] <=> outcome'[x] # NoOutcome
        BY <4>1, VerdictFacts
      <4>5. UserAllowed(outcome[x])'
        BY <4>1, VerdictFacts DEF UserAllowed
      <4>6. UserAllowed(answered[x])'
        BY <1>0, <1>8 DEF EntryInv, UserAllowed
      <4>7. /\ call[x].sess \in Sessions
            /\ call[x].pc = "done" => answered[x] \in Verdicts
        BY <1>0, <4>3 DEF EntryInv
      <4> QED BY <1>8, <4>1, <4>2, <4>3, <4>4, <4>5, <4>6, <4>7 DEF EntryInv
    <3>2. CASE x \notin hit
      <4>1. resolved'[x] = resolved[x] /\ outcome'[x] = outcome[x]
        BY <1>0, <2>1, <3>2 DEF Typed
      <4>2. x \in pending => call[x].sess \in Sessions
        BY <1>0 DEF EntryInv, Inside
      <4>3. (x \in pending /\ (down' \/ call[x].sess \in blocked')) => resolved[x]
        BY <1>0, <1>8, <3>2, <4>2 DEF EntryInv
      <4>4. UserAllowed(outcome[x])' /\ UserAllowed(answered[x])'
        BY <1>0, <1>8, <4>1 DEF EntryInv, UserAllowed
      <4> QED BY <1>0, <1>8, <4>1, <4>3, <4>4 DEF EntryInv
    <3> QED BY <3>1, <3>2
  <2> QED BY <2>2, <2>3 DEF BrokerInv
<1>9. ASSUME UNCHANGED <<call, pending, resolved, outcome, answered>>,
             blocked' \subseteq blocked, down' \in BOOLEAN, down' => down
      PROVE  BrokerInv'
  <2>1. Typed'
    BY <1>0, <1>9 DEF Typed
  <2>2. ASSUME NEW x \in Requests PROVE EntryInv(x)'
    BY <1>0, <1>9 DEF EntryInv, Inside, UserAllowed
  <2> QED BY <2>1, <2>2 DEF BrokerInv
<1>10. ASSUME NEW s \in Sessions, CancelSession(s) PROVE BrokerInv'
  BY <1>8, <1>10 DEF CancelSession
<1>11. CASE CancelAll
  BY <1>8, <1>11 DEF CancelAll
<1>12. ASSUME NEW s \in Sessions, AllowSubmissions(s) PROVE BrokerInv'
  BY <1>0, <1>9, <1>12 DEF AllowSubmissions, Typed
<1>13. CASE Reopen
  BY <1>0, <1>9, <1>13 DEF Reopen, Typed
<1>14. CASE UNCHANGED vars
  BY <1>0, <1>9, <1>14 DEF vars, Typed
<1> QED BY <1>1, <1>2, <1>3, <1>4, <1>5, <1>6, <1>7, <1>10, <1>11, <1>12, <1>13, <1>14
        DEF Next, SubmitStep

\* The broker's members stay in their ranges and submit() never returns
\* undecided.
THEOREM BrokerTypeCorrect == Spec => []TypeOK
<1>1. BrokerInv => TypeOK
  BY DEF BrokerInv, Typed, EntryInv, TypeOK, At
<1> QED BY <1>1, BrokerInvInit, BrokerInvNext, PTL DEF Spec

\* submit() returns Allow only for a decision the user made.
THEOREM AllowOnlyByUserHolds == Spec => []AllowOnlyByUser
<1>1. BrokerInv => AllowOnlyByUser
  BY DEF BrokerInv, EntryInv, UserAllowed, AllowOnlyByUser
<1> QED BY <1>1, BrokerInvInit, BrokerInvNext, PTL DEF Spec

\* No open request of a cancelled session.
THEOREM StoppedHasNoneOpenHolds == Spec => []StoppedHasNoneOpen
<1>1. BrokerInv => StoppedHasNoneOpen
  BY DEF BrokerInv, Typed, EntryInv, StoppedHasNoneOpen
<1> QED BY <1>1, BrokerInvInit, BrokerInvNext, PTL DEF Spec

\* An entry is in pending_ exactly while its submit() is inside.
THEOREM EntryOutlivesWaitHolds == Spec => []EntryOutlivesWait
<1>1. BrokerInv => EntryOutlivesWait
  BY DEF BrokerInv, EntryInv, Inside, EntryOutlivesWait
<1> QED BY <1>1, BrokerInvInit, BrokerInvNext, PTL DEF Spec
(***************************************************************************)
(* A request resolves once.                                                *)
(***************************************************************************)
KeepsResolved == \A r \in Requests : resolved[r] => resolved'[r] /\ outcome'[r] = outcome[r]

LEMMA KeepsResolvedNext == BrokerInv /\ [Next]_vars => KeepsResolved
<1> SUFFICES ASSUME BrokerInv, [Next]_vars, NEW x \in Requests, resolved[x]
             PROVE  resolved'[x] /\ outcome'[x] = outcome[x]
  BY DEF KeepsResolved
<1>0. Typed
  BY DEF BrokerInv
<1>1. CASE UNCHANGED <<resolved, outcome>>
  BY <1>1
<1>2. ASSUME NEW r \in Requests, FailMark(r)
      PROVE  resolved'[x] /\ outcome'[x] = outcome[x]
  <2>1. CASE resolved[r]
    BY <1>2, <2>1 DEF FailMark
  <2>2. CASE ~resolved[r]
    BY <1>0, <1>2, <2>2 DEF FailMark, Typed
  <2> QED BY <2>1, <2>2
<1>3. ASSUME NEW r \in Requests, NEW decision \in Decisions, Resolve(r, decision)
      PROVE  resolved'[x] /\ outcome'[x] = outcome[x]
  BY <1>0, <1>3 DEF Resolve, Open, Decide, Typed
<1>4. ASSUME NEW S, DenyAll(S)
      PROVE  resolved'[x] /\ outcome'[x] = outcome[x]
  BY <1>4 DEF DenyAll, DenyEach
<1>5. ASSUME NEW r \in Requests, NEW s \in Sessions, SubmitDenied(r, s) \/ SubmitOpens(r, s)
      PROVE  UNCHANGED <<resolved, outcome>>
  BY <1>5 DEF SubmitDenied, SubmitOpens
<1>6. ASSUME NEW r \in Requests, Deliver(r) \/ FailErase(r) \/ Wake(r)
      PROVE  UNCHANGED <<resolved, outcome>>
  BY <1>6 DEF Deliver, FailErase, Wake
<1>7. ASSUME NEW s \in Sessions, CancelSession(s) PROVE DenyAll({s})
  BY <1>7 DEF CancelSession
<1>8. CancelAll => DenyAll(Sessions)
  BY DEF CancelAll
<1>9. ASSUME \/ \E s \in Sessions : AllowSubmissions(s)
             \/ Reopen \/ UNCHANGED vars
      PROVE  UNCHANGED <<resolved, outcome>>
  BY <1>9 DEF AllowSubmissions, Reopen, vars
<1> QED BY <1>1, <1>2, <1>3, <1>4, <1>5, <1>6, <1>7, <1>8, <1>9 DEF Next, SubmitStep

\* The first of resolve, a cancel and a failed delivery decides a request
\* for good.
THEOREM ResolvesOnceHolds == Spec => ResolvesOnce
<1>1. BrokerInv /\ [Next]_vars => [KeepsResolved]_vars
  BY KeepsResolvedNext
<1>2. Spec => []BrokerInv
  BY BrokerInvInit, BrokerInvNext, PTL DEF Spec
<1>3. Spec => [][KeepsResolved]_vars
  BY <1>1, <1>2, PTL DEF Spec
<1> QED BY <1>3 DEF ResolvesOnce, KeepsResolved

(***************************************************************************)
(* The broker implements ApprovalContract.                                 *)
(***************************************************************************)
Owner == [r \in Requests |-> call[r].sess]
Verdict == [r \in Requests |-> VerdictOf(r)]
StoppedSessions == IF down THEN Sessions ELSE blocked

\* what a request's place and entry say about its verdict
LEMMA VerdictIs ==
  ASSUME BrokerInv, NEW r \in Requests
  PROVE  /\ Verdict[r] = "unasked" <=> At(r, "new")
         /\ Verdict[r] = "open" <=> r \in pending /\ ~resolved[r]
         /\ resolved[r] => Verdict[r] = outcome[r].effect
<1>1. Typed /\ EntryInv(r)
  BY DEF BrokerInv
<1>2. resolved[r] => outcome[r] \in Verdicts /\ ~At(r, "new")
  BY <1>1 DEF EntryInv, Typed, At
<1>3. (r \notin pending /\ ~At(r, "new")) => answered[r] \in Verdicts
  BY <1>1 DEF EntryInv, Typed, At, CallRec, Inside
<1>4. \A v \in Verdicts : v.effect # "open" /\ v.effect # "unasked"
  BY DEF Verdicts
<1>5. At(r, "new") => r \notin pending
  BY <1>1 DEF EntryInv, At, Inside
<1> QED BY <1>2, <1>3, <1>4, <1>5 DEF Verdict, VerdictOf

LEMMA ContractInit == Init => Contract!Init
  BY DEF Init, Contract!Init, VerdictOf, At

LEMMA ContractNext ==
  BrokerInv /\ [Next]_vars => [Contract!Next]_Contract!vars
<1> SUFFICES ASSUME BrokerInv, [Next]_vars PROVE [Contract!Next]_Contract!vars
  OBVIOUS
<1>0. Typed /\ (\A x \in Requests : EntryInv(x)) /\ BrokerInv'
  BY BrokerInvNext DEF BrokerInv
<1>a. UNCHANGED <<Owner, Verdict, StoppedSessions>> => UNCHANGED Contract!vars
  BY DEF Owner, Verdict, StoppedSessions, Contract!vars
<1>1. ASSUME NEW r \in Requests, NEW s \in Sessions, SubmitDenied(r, s) \/ SubmitOpens(r, s)
      PROVE  Contract!Ask(r, s)
  <2>1. Verdict[r] = "unasked" /\ ~resolved[r] /\ r \notin pending
    BY <1>0, <1>1, VerdictIs DEF SubmitDenied, SubmitOpens, EntryInv, At, Inside
  <2>2. /\ call'[r].sess = s /\ call'[r].pc \in {"done", "deliver"}
        /\ \A x \in Requests \ {r} : call'[x] = call[x]
    BY <1>0, <1>1 DEF SubmitDenied, SubmitOpens, Typed
  <2>3. Owner' = [Owner EXCEPT ![r] = s]
    BY <2>2 DEF Owner
  <2>4. StoppedSessions' = StoppedSessions
    BY <1>1 DEF SubmitDenied, SubmitOpens, StoppedSessions
  <2>5. Verdict'[r] = IF s \in StoppedSessions THEN "deny" ELSE "open"
    <3>1. CASE SubmitDenied(r, s)
      <4>1. s \in StoppedSessions
        BY <3>1 DEF SubmitDenied, Refused, StoppedSessions
      <4>2. answered'[r] = Denied /\ resolved'[r] = resolved[r] /\ pending' = pending
        BY <1>0, <3>1 DEF SubmitDenied, Typed
      <4> QED BY <2>1, <2>2, <4>1, <4>2 DEF Verdict, VerdictOf, At, Denied
    <3>2. CASE SubmitOpens(r, s)
      <4>1. s \notin StoppedSessions
        BY <3>2 DEF SubmitOpens, Refused, StoppedSessions
      <4>2. r \in pending' /\ resolved'[r] = resolved[r]
        BY <3>2 DEF SubmitOpens
      <4> QED BY <2>1, <2>2, <4>1, <4>2 DEF Verdict, VerdictOf, At
    <3> QED BY <1>1, <3>1, <3>2
  <2>6. ASSUME NEW x \in Requests, x # r PROVE Verdict'[x] = Verdict[x]
    BY <1>0, <1>1, <2>2, <2>6 DEF SubmitDenied, SubmitOpens, Verdict, VerdictOf, At, Typed
  <2>7. Verdict' = [Verdict EXCEPT ![r] = IF s \in StoppedSessions THEN "deny" ELSE "open"]
    <3> HIDE DEF VerdictOf
    <3> QED BY <2>5, <2>6 DEF Verdict
  <2> QED BY <2>1, <2>3, <2>4, <2>7 DEF Contract!Ask, Owner, Verdict, StoppedSessions
<1>2. ASSUME UNCHANGED <<Owner, StoppedSessions>>, NEW r \in Requests, NEW v \in {"allow", "deny"},
             Verdict[r] = "open", Verdict' = [Verdict EXCEPT ![r] = v]
      PROVE  Contract!Answer(r, v)
  BY <1>2 DEF Contract!Answer, Owner, Verdict, StoppedSessions
<1>3. ASSUME NEW r \in Requests, Deliver(r) PROVE UNCHANGED <<Owner, Verdict, StoppedSessions>>
  <2>1. PICK place \in {"wait", "failmark"} : Goto(r, place)
    BY <1>3 DEF Deliver
  <2>2. At(r, "deliver") /\ UNCHANGED <<pending, resolved, outcome, blocked, down, answered>>
    BY <1>3 DEF Deliver
  <2>3. /\ call'[r] = [pc |-> place, sess |-> call[r].sess]
        /\ \A x \in Requests \ {r} : call'[x] = call[x]
    BY <1>0, <2>1, Moves DEF Inside
  <2>4. Owner' = Owner /\ StoppedSessions' = StoppedSessions
    BY <2>2, <2>3 DEF Owner, StoppedSessions
  <2>5. ASSUME NEW x \in Requests PROVE VerdictOf(x)' = VerdictOf(x)
    BY <2>2, <2>3 DEF VerdictOf, At
  <2> QED BY <2>4, <2>5 DEF Verdict
<1>4. ASSUME NEW r \in Requests, FailMark(r)
      PROVE  UNCHANGED <<Owner, Verdict, StoppedSessions>> \/ Contract!Answer(r, "deny")
  <2>1. /\ call'[r] = [pc |-> "failerase", sess |-> call[r].sess]
        /\ \A x \in Requests \ {r} : call'[x] = call[x]
    BY <1>0, <1>4, Moves DEF FailMark, Inside
  <2>2. Owner' = Owner /\ StoppedSessions' = StoppedSessions
    BY <1>4, <2>1 DEF FailMark, Owner, StoppedSessions
  <2>3. At(r, "failmark") /\ r \in pending
    BY <1>0, <1>4 DEF FailMark, EntryInv, At, Inside
  <2>4. CASE resolved[r]
    <3>1. UNCHANGED <<pending, resolved, outcome, answered>>
      BY <1>4, <2>4 DEF FailMark
    <3>2. ASSUME NEW x \in Requests PROVE VerdictOf(x)' = VerdictOf(x)
      BY <2>1, <2>3, <3>1 DEF VerdictOf, At
    <3> QED BY <2>2, <3>2 DEF Verdict
  <2>5. CASE ~resolved[r]
    <3>1. /\ resolved'[r] = TRUE /\ outcome'[r] = Denied
          /\ \A x \in Requests \ {r} : resolved'[x] = resolved[x] /\ outcome'[x] = outcome[x]
          /\ UNCHANGED <<pending, answered>>
      BY <1>0, <1>4, <2>5 DEF FailMark, Typed
    <3>2. VerdictOf(r)' = "deny"
      BY <2>1, <3>1 DEF VerdictOf, At, Denied
    <3>3. ASSUME NEW x \in Requests, x # r PROVE VerdictOf(x)' = VerdictOf(x)
      BY <2>1, <3>1, <3>3 DEF VerdictOf, At
    <3>4. Verdict' = [Verdict EXCEPT ![r] = "deny"]
      BY <3>2, <3>3 DEF Verdict
    <3>5. Verdict[r] = "open"
      BY <2>3, <2>5, VerdictIs
    <3> QED BY <1>2, <2>2, <3>4, <3>5
  <2> QED BY <2>4, <2>5
<1>5. ASSUME NEW r \in Requests, FailErase(r) \/ Wake(r)
      PROVE  UNCHANGED <<Owner, Verdict, StoppedSessions>>
  <2>1. PICK out : /\ ~At(r, "new") /\ resolved[r] /\ Return(r, out)
                   /\ UNCHANGED <<resolved, outcome, blocked, down>>
                   /\ pending' = pending \ {r}
    BY <1>0, <1>5 DEF FailErase, Wake, Woken, EntryInv, At, Inside
  <2>2. /\ call'[r] = [pc |-> "done", sess |-> call[r].sess]
        /\ \A x \in Requests \ {r} : call'[x] = call[x]
    BY <1>0, <2>1, Moves DEF Return
  <2>3. \A x \in Requests \ {r} : answered'[x] = answered[x]
    BY <1>0, <2>1 DEF Return, Typed
  <2>4. Owner' = Owner /\ StoppedSessions' = StoppedSessions
    BY <2>1, <2>2 DEF Owner, StoppedSessions
  <2>5. VerdictOf(r)' = VerdictOf(r)
    BY <2>1, <2>2 DEF VerdictOf, At
  <2>6. ASSUME NEW x \in Requests, x # r PROVE VerdictOf(x)' = VerdictOf(x)
    BY <2>1, <2>2, <2>3, <2>6 DEF VerdictOf, At
  <2> QED BY <2>4, <2>5, <2>6 DEF Verdict
<1>6. ASSUME NEW r \in Requests, NEW decision \in Decisions, Resolve(r, decision)
      PROVE  \E v \in {"allow", "deny"} : Contract!Answer(r, v)
  <2> DEFINE v == IF decision = "deny" THEN "deny" ELSE "allow"
  <2>1. /\ r \in pending /\ ~resolved[r] /\ UNCHANGED <<call, pending, blocked, down, answered>>
        /\ resolved'[r] = TRUE /\ outcome'[r].effect = v
        /\ \A x \in Requests \ {r} : resolved'[x] = resolved[x] /\ outcome'[x] = outcome[x]
    BY <1>0, <1>6 DEF Resolve, Open, Decide, Typed
  <2>2. v \in {"allow", "deny"}
    OBVIOUS
  <2> HIDE DEF v
  <2>3. ~At(r, "new")
    BY <1>0, <2>1 DEF EntryInv, At, Inside
  <2>4. VerdictOf(r)' = v
    BY <2>1, <2>3 DEF VerdictOf, At
  <2>5. ASSUME NEW x \in Requests, x # r PROVE VerdictOf(x)' = VerdictOf(x)
    BY <2>1, <2>5 DEF VerdictOf, At
  <2>6. Verdict' = [Verdict EXCEPT ![r] = v]
    BY <2>4, <2>5 DEF Verdict
  <2>7. Verdict[r] = "open"
    BY <2>1, VerdictIs
  <2>8. Owner' = Owner /\ StoppedSessions' = StoppedSessions
    BY <2>1 DEF Owner, StoppedSessions
  <2> QED BY <1>2, <2>2, <2>6, <2>7, <2>8
<1>7. ASSUME NEW S \in SUBSET Sessions, DenyAll(S), UNCHANGED <<call, pending, answered>>,
             StoppedSessions' = StoppedSessions \cup S
      PROVE  Contract!Stop(S)
  <2>1. ASSUME NEW x \in Requests
        PROVE  VerdictOf(x)' = IF Owner[x] \in S /\ Verdict[x] = "open" THEN "deny" ELSE Verdict[x]
    <3>1. CASE x \in pending /\ call[x].sess \in S /\ ~resolved[x]
      <4>1. resolved'[x] = TRUE /\ outcome'[x] = Denied /\ call'[x] = call[x]
        BY <1>7, <3>1 DEF DenyAll, DenyEach
      <4>2. ~At(x, "new")
        BY <1>0, <3>1 DEF EntryInv, At, Inside
      <4>3. VerdictOf(x)' = "deny"
        BY <4>1, <4>2 DEF VerdictOf, At, Denied
      <4>4. Owner[x] \in S /\ Verdict[x] = "open"
        BY <3>1, VerdictIs DEF Owner
      <4> QED BY <4>3, <4>4
    <3>2. CASE ~(x \in pending /\ call[x].sess \in S /\ ~resolved[x])
      <4>1. resolved'[x] = resolved[x] /\ outcome'[x] = outcome[x]
        BY <1>0, <1>7, <3>2 DEF DenyAll, DenyEach, Typed
      <4>2. VerdictOf(x)' = VerdictOf(x)
        BY <1>7, <4>1 DEF VerdictOf, At
      <4>3. ~(Owner[x] \in S /\ Verdict[x] = "open")
        BY <3>2, VerdictIs DEF Owner
      <4>4. Verdict[x] = VerdictOf(x)
        BY DEF Verdict
      <4> QED BY <4>2, <4>3, <4>4
    <3> QED BY <3>1, <3>2
  <2>2. Verdict' = [x \in Requests |->
          IF Owner[x] \in S /\ Verdict[x] = "open" THEN "deny" ELSE Verdict[x]]
    BY <2>1 DEF Verdict
  <2>3. Owner' = Owner
    BY <1>7 DEF Owner
  <2> QED BY <1>7, <2>2, <2>3 DEF Contract!Stop, Owner, Verdict, StoppedSessions
<1>8. ASSUME NEW s \in Sessions, CancelSession(s) PROVE Contract!Stop({s})
  <2>1. StoppedSessions' = StoppedSessions \cup {s}
    BY <1>8 DEF CancelSession, StoppedSessions
  <2> QED BY <1>7, <1>8, <2>1 DEF CancelSession
<1>9. CASE CancelAll
  <2>1. StoppedSessions' = StoppedSessions \cup Sessions
    BY <1>0, <1>9 DEF CancelAll, StoppedSessions, Typed
  <2> QED BY <1>7, <1>9, <2>1 DEF CancelAll, Contract!Next
<1>10. ASSUME NEW S \in SUBSET Sessions, UNCHANGED <<call, pending, resolved, outcome, answered>>,
              StoppedSessions' = StoppedSessions \ S
       PROVE  Contract!Rearm(S)
  <2>1. Owner' = Owner /\ Verdict' = Verdict
    BY <1>10 DEF Owner, Verdict, VerdictOf, At
  <2> QED BY <1>10, <2>1 DEF Contract!Rearm, Owner, Verdict, StoppedSessions
<1>11. ASSUME NEW s \in Sessions, AllowSubmissions(s)
       PROVE  UNCHANGED <<Owner, Verdict, StoppedSessions>> \/ Contract!Rearm({s})
  <2>1. CASE down
    BY <1>11, <2>1 DEF AllowSubmissions, Owner, Verdict, VerdictOf, At, StoppedSessions
  <2>2. CASE ~down
    <3>1. StoppedSessions' = StoppedSessions \ {s}
      BY <1>11, <2>2 DEF AllowSubmissions, StoppedSessions
    <3> QED BY <1>10, <1>11, <3>1 DEF AllowSubmissions
  <2> QED BY <2>1, <2>2
<1>12. CASE Reopen
  <2>1. StoppedSessions' = StoppedSessions \ Sessions
    BY <1>0, <1>12 DEF Reopen, StoppedSessions, Typed
  <2> QED BY <1>10, <1>12, <2>1 DEF Reopen, Contract!Next
<1>13. CASE UNCHANGED vars
  BY <1>a, <1>13 DEF vars, Owner, Verdict, VerdictOf, At, StoppedSessions
<1> QED BY <1>a, <1>1, <1>3, <1>4, <1>5, <1>6, <1>8, <1>9, <1>11, <1>12, <1>13
        DEF Next, SubmitStep, Contract!Next

\* The broker's members and submit() calls implement what the engine relies
\* on: one verdict per request and none open for a stopped session.
THEOREM ImplementsContractHolds == Spec => ImplementsContract
<1>1. Spec => []BrokerInv
  BY BrokerInvInit, BrokerInvNext, PTL DEF Spec
<1>2. Spec => Contract!Init /\ [][Contract!Next]_Contract!vars
  BY <1>1, ContractInit, ContractNext, PTL DEF Spec
<1> QED BY <1>2 DEF ImplementsContract, Contract!Spec
=============================================================================
