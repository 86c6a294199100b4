--------------------------- MODULE ContextProofs ---------------------------
(***************************************************************************)
(* Proofs about what a session's model is shown, for every budget, every   *)
(* batch of calls and every length of a session: Compaction.               *)
(***************************************************************************)
EXTENDS Compaction, SequenceTheorems, WellFoundedInduction, TLAPS

(***************************************************************************)
(* The inductive invariant.                                                *)
(***************************************************************************)
Statuses == {"pending", "complete", "failed"}
Updates == {NoStatus, "calm", "tight"}
\* NoCall is a string too: no prover here knows a literal for one
CallIds == STRING \cup {NoCall}
RowRec == [id: Nat, kind: {"prompt", "assistant", "result"}, calls: Seq(CallIds), call: CallIds,
           said: Nat, status: Updates, pic: BOOLEAN]
CpRec == [id: Nat, through: Nat, covers: SUBSET Nat, aged: SUBSET Nat, lost: SUBSET Nat,
          status: Statuses]
JobRec == [cp: Nat, basis: SUBSET Nat, older: Seq(RowRec), told: SUBSET Nat,
           reads: SUBSET Nat, lost: SUBSET Nat,
           how: {"none", "inline", "standalone"}, pass: {"whole", "first", "second"},
           drafts: Nat, manual: BOOLEAN]

ContextTypes ==
  /\ hist \in Seq(RowRec) /\ cps \in SUBSET CpRec /\ clock \in Nat
  /\ stage \in {"idle", "step", "summary", "sent", "batch"}
  /\ want \in Seq(CallIds) /\ tell \in Updates
  /\ job \in JobRec /\ compacting \in BOOLEAN

\* the bounds of the model
Bounded == Len(hist) <= HistoryBound /\ clock <= ClockBound

\* rows are stored one after the other
Ordered(q, now) ==
  /\ \A i \in DOMAIN q : q[i].id \in 1..now
  /\ \A i, j \in DOMAIN q : i < j => q[i].id < q[j].id

\* ids of stored rows, all from before the moment n
Known(q, S, n) == \A x \in S : x < n /\ \E i \in DOMAIN q : q[i].id = x

\* the ids of the first n rows
Covers(q, n, S) == \A i \in DOMAIN q : i <= n => q[i].id \in S

\* a checkpoint splits no exchange, and was made behind the row it stops at
CheckpointOK(q, c) ==
  /\ c.through \in 1..Len(q) /\ c.through + 1 \in DOMAIN q
  /\ q[c.through + 1].kind # "result" /\ q[c.through + 1].id < c.id
  /\ Known(q, c.aged, c.id)
  /\ c.status = "complete" =>
       Known(q, c.covers, c.id) /\ Covers(q, c.through, c.covers \cup c.lost)

Done(C) == {c \in C : c.status = "complete"}

CheckpointsOK(q, C, now) ==
  /\ \A c \in C : CheckpointOK(q, c) /\ c.id <= now
  /\ \A c, d \in C : c.id = d.id => c = d
  /\ \A c, d \in Done(C) : d.id < c.id => d.through < c.through

\* what a standalone pass starts from, what it and the pass behind it carry, and
\* what had no room
Unread(j) ==
  IF j.pass = "first" THEN Ids(SubSeq(j.older, Middle(j.older) + 1, Len(j.older))) ELSE {}
Carried(j) == j.basis \cup j.reads \cup j.lost \cup Unread(j)

\* what the compaction at work carries or lists as lost is enough for its boundary
JobOK(q, C, j, now) ==
  /\ j.cp = now
  /\ \A i \in DOMAIN q : q[i].id < now
  /\ Known(q, j.told, now) /\ Known(q, j.basis, now) /\ Known(q, j.reads, now)
  /\ Known(q, Ids(j.older), now) /\ j.older # <<>>
  /\ j.pass = "whole" => j.reads = Ids(j.older)
  /\ j.how \in {"inline", "standalone"} /\ (j.how = "inline" => j.pass = "whole")
  /\ \E p \in C :
       /\ p.id = j.cp /\ p.status = "pending"
       /\ \A d \in Done(C) : d.through < p.through
       /\ Covers(q, p.through, j.told \cup j.lost)
       /\ Covers(q, p.through, Carried(j))

CheckpointInv == Ordered(hist, clock) /\ CheckpointsOK(hist, cps, clock)
JobInv == stage = "summary" => compacting /\ JobOK(hist, cps, job, clock)

\* an open question is the one of the call whose turn it is
AskInv == stage = "batch" /\ Asking => want # <<>> /\ hist # <<>> /\ Last(hist).call = Head(want)

ContextInv == ContextTypes /\ Bounded /\ CheckpointInv /\ JobInv /\ AskInv

(***************************************************************************)
(* Rows, ids and the greatest of some numbers.                             *)
(***************************************************************************)
LEMMA Assumed ==
  /\ HistoryBound \in Nat /\ ClockBound \in Nat
  /\ Pictures \subseteq BOOLEAN /\ Batches \subseteq Seq(CallIds)
<1>1. ASSUME NEW b \in Batches PROVE b \in Seq(CallIds)
  <2>1. b \in Seq(STRING)
    BY CompactionAssumption DEF CompactionAssumption
  <2>2. Len(b) \in Nat /\ b = [i \in 1..Len(b) |-> b[i]] /\ \A i \in 1..Len(b) : b[i] \in STRING
    BY <2>1
  <2>3. \A i \in 1..Len(b) : b[i] \in CallIds
    BY <2>2 DEF CallIds
  <2> QED BY <2>2, <2>3
<1> QED BY <1>1, CompactionAssumption DEF CompactionAssumption

LEMMA IdsFacts ==
  ASSUME NEW q
  PROVE  \A x : x \in Ids(q) <=> \E i \in DOMAIN q : q[i].id = x
BY DEF Ids, Range

LEMMA RowFacts ==
  ASSUME NEW q \in Seq(RowRec)
  PROVE  /\ Len(q) \in Nat /\ DOMAIN q = 1..Len(q)
         /\ \A i \in DOMAIN q : q[i] \in RowRec /\ q[i].id \in Nat
<1>1. Len(q) \in Nat /\ DOMAIN q = 1..Len(q) /\ \A i \in DOMAIN q : q[i] \in RowRec
  OBVIOUS
<1>2. \A x \in RowRec : x.id \in Nat
  BY DEF RowRec
<1> QED BY <1>1, <1>2

LEMMA LeastNat ==
  ASSUME NEW T, T \subseteq Nat, T # {}
  PROVE  \E m \in T : \A k \in T : m <= k
<1> DEFINE R == OpToRel(<, Nat)
<1>1. IsWellFoundedOn(R, Nat)
  BY NatLessThanWellFounded
<1>2. \A x, y \in Nat : x < y => <<x, y>> \in R
  BY DEF OpToRel
<1> HIDE DEF R
<1>3. PICK m \in T : \A k \in T : ~(<<k, m>> \in R)
  BY <1>1, WFMin
<1>4. ASSUME NEW k \in T PROVE m <= k
  <2>1. m \in Nat /\ k \in Nat
    OBVIOUS
  <2>2. ~(k < m)
    BY <1>2, <1>3, <2>1
  <2> QED BY <2>1, <2>2
<1> QED BY <1>4

LEMMA GreatestNat ==
  ASSUME NEW n \in Nat, NEW T, T \subseteq 0..n, T # {}
  PROVE  \E m \in T : \A k \in T : k <= m
<1> DEFINE D == {n - i : i \in T}
<1>1. D \subseteq Nat /\ D # {}
  <2>1. \A i \in T : i \in Nat /\ n - i \in Nat /\ n - i \in D
    OBVIOUS
  <2> QED BY <2>1
<1>2. PICK d \in D : \A e \in D : d <= e
  BY <1>1, LeastNat
<1>3. PICK m \in T : d = n - m
  OBVIOUS
<1>4. ASSUME NEW k \in T PROVE k <= m
  <2>1. n - k \in D /\ k \in Nat /\ m \in Nat
    OBVIOUS
  <2>2. n - m <= n - k
    BY <1>2, <1>3, <2>1
  <2> QED BY <2>1, <2>2
<1> QED BY <1>4

\* a new row leaves every checkpoint and every known id what they were
LEMMA KnownGrows ==
  ASSUME NEW q \in Seq(RowRec), NEW r \in Seq(RowRec), Len(q) <= Len(r),
         \A i \in DOMAIN q : r[i].id = q[i].id,
         NEW S, NEW n, Known(q, S, n)
  PROVE  Known(r, S, n)
<1>1. DOMAIN q \subseteq DOMAIN r
  BY RowFacts
<1> QED BY <1>1 DEF Known

LEMMA CheckpointGrows ==
  ASSUME NEW q \in Seq(RowRec), NEW r \in Seq(RowRec), Len(q) <= Len(r),
         \A i \in DOMAIN q : r[i].id = q[i].id /\ r[i].kind = q[i].kind,
         NEW c \in CpRec, CheckpointOK(q, c)
  PROVE  CheckpointOK(r, c)
<1>1. /\ DOMAIN q = 1..Len(q) /\ DOMAIN r = 1..Len(r) /\ Len(q) \in Nat /\ Len(r) \in Nat
      /\ c.through \in Nat
  BY RowFacts DEF CpRec
<1>2. c.through \in 1..Len(r) /\ c.through + 1 \in DOMAIN r /\ c.through + 1 \in DOMAIN q
  BY <1>1 DEF CheckpointOK
<1>3. r[c.through + 1].kind # "result" /\ r[c.through + 1].id < c.id
  BY <1>2 DEF CheckpointOK
<1>4. Known(r, c.aged, c.id)
  BY KnownGrows DEF CheckpointOK
<1>5. ASSUME c.status = "complete"
      PROVE  Known(r, c.covers, c.id) /\ Covers(r, c.through, c.covers \cup c.lost)
  <2>1. Known(q, c.covers, c.id) /\ Covers(q, c.through, c.covers \cup c.lost)
    BY <1>5 DEF CheckpointOK
  <2>2. Covers(r, c.through, c.covers \cup c.lost)
    <3>1. ASSUME NEW i \in DOMAIN r, i <= c.through PROVE r[i].id \in c.covers \cup c.lost
      <4>1. i \in DOMAIN q
        BY <1>1, <1>2, <3>1
      <4> QED BY <2>1, <3>1, <4>1 DEF Covers
    <3> QED BY <3>1 DEF Covers
  <2> QED BY <2>1, <2>2, KnownGrows
<1> QED BY <1>2, <1>3, <1>4, <1>5 DEF CheckpointOK

LEMMA AppendedRow ==
  ASSUME NEW q \in Seq(RowRec), NEW x \in RowRec
  PROVE  /\ Append(q, x) \in Seq(RowRec) /\ Len(Append(q, x)) = Len(q) + 1
         /\ DOMAIN Append(q, x) = 1..(Len(q) + 1)
         /\ \A i \in DOMAIN q : Append(q, x)[i] = q[i]
         /\ Append(q, x)[Len(q) + 1] = x
  BY AppendProperties, LenProperties

\* what delete_messages_after leaves: the first rows, and what was made before the last of them
LEMMA CutRows ==
  ASSUME NEW q \in Seq(RowRec), NEW n \in 1..Len(q)
  PROVE  /\ SubSeq(q, 1, n) \in Seq(RowRec) /\ Len(SubSeq(q, 1, n)) = n
         /\ DOMAIN SubSeq(q, 1, n) = 1..n
         /\ \A i \in 1..n : i \in DOMAIN q /\ SubSeq(q, 1, n)[i] = q[i]
  BY SubSeqProperties, LenProperties

LEMMA KnownCut ==
  ASSUME NEW q \in Seq(RowRec), NEW n \in 1..Len(q), NEW now, Ordered(q, now),
         NEW S, NEW k \in Nat, k < q[n].id, Known(q, S, k)
  PROVE  Known(SubSeq(q, 1, n), S, k)
<1> DEFINE r == SubSeq(q, 1, n)
<1>1. /\ DOMAIN r = 1..n /\ DOMAIN q = 1..Len(q) /\ Len(q) \in Nat
      /\ \A i \in 1..n : i \in DOMAIN q /\ r[i] = q[i]
  BY CutRows, RowFacts
<1> HIDE DEF r
<1>2. ASSUME NEW x \in S PROVE x < k /\ \E i \in DOMAIN r : r[i].id = x
  <2>1. PICK i \in DOMAIN q : q[i].id = x
    BY DEF Known
  <2>2. x < k
    BY DEF Known
  <2>3. q[i].id \in Nat /\ q[n].id \in Nat /\ i \in Nat /\ n \in DOMAIN q
    BY <1>1, RowFacts
  <2>4. ~(n < i)
    BY <2>1, <2>2, <2>3 DEF Ordered
  <2>5. i \in 1..n
    BY <1>1, <2>3, <2>4
  <2> QED BY <1>1, <2>1, <2>2, <2>5
<1> QED BY <1>2 DEF Known, r

LEMMA CheckpointCut ==
  ASSUME NEW q \in Seq(RowRec), NEW n \in 1..Len(q), NEW now, Ordered(q, now),
         NEW c \in CpRec, CheckpointOK(q, c), c.through <= n, c.id < q[n].id
  PROVE  CheckpointOK(SubSeq(q, 1, n), c)
<1> DEFINE r == SubSeq(q, 1, n)
<1>1. /\ DOMAIN r = 1..n /\ DOMAIN q = 1..Len(q) /\ Len(q) \in Nat /\ Len(r) = n
      /\ \A i \in 1..n : i \in DOMAIN q /\ r[i] = q[i]
  BY CutRows, RowFacts
<1>2. c.through \in Nat /\ c.id \in Nat
  BY DEF CpRec
<1>3. /\ c.through \in 1..Len(q) /\ c.through + 1 \in DOMAIN q
      /\ q[c.through + 1].kind # "result" /\ q[c.through + 1].id < c.id
  BY DEF CheckpointOK
<1>4. c.through < n
  <2>1. SUFFICES ASSUME c.through = n PROVE FALSE
    BY <1>2
  <2>2. n \in DOMAIN q /\ n + 1 \in DOMAIN q /\ n < n + 1
    BY <1>1, <1>3, <2>1
  <2>3. q[n].id < q[n + 1].id /\ q[n].id \in Nat /\ q[n + 1].id \in Nat
    BY <2>2, RowFacts DEF Ordered
  <2> QED BY <1>2, <1>3, <2>1, <2>3
<1> HIDE DEF r
<1>5. c.through \in 1..Len(r) /\ c.through + 1 \in DOMAIN r
  BY <1>1, <1>3, <1>4
<1>6. r[c.through + 1].kind # "result" /\ r[c.through + 1].id < c.id
  BY <1>1, <1>3, <1>5
<1>7. \A S : Known(q, S, c.id) => Known(r, S, c.id)
  BY <1>2, KnownCut DEF r
<1>8. \A S : Covers(q, c.through, S) => Covers(r, c.through, S)
  BY <1>1 DEF Covers
<1> QED BY <1>5, <1>6, <1>7, <1>8 DEF CheckpointOK, r

(***************************************************************************)
(* The checkpoint in use, the split of the history, the half of a batch.   *)
(***************************************************************************)
LEMMA LatestFacts ==
  ASSUME ContextTypes, CheckpointInv
  PROVE  /\ Latest.covers \in SUBSET Nat /\ Latest.aged \in SUBSET Nat
         /\ Latest.lost \in SUBSET Nat
         /\ Latest.through \in 0..Len(hist)
         /\ \A d \in Complete : d.through <= Latest.through
         /\ Known(hist, Latest.covers, clock + 1) /\ Known(hist, Latest.aged, clock + 1)
         /\ Covers(hist, Latest.through, Latest.covers \cup Latest.lost)
         /\ Complete # {} => Latest \in Complete
<1>1. hist \in Seq(RowRec) /\ cps \in SUBSET CpRec /\ clock \in Nat
  BY DEF ContextTypes
<1>2. Len(hist) \in Nat /\ DOMAIN hist = 1..Len(hist)
  BY <1>1, RowFacts
<1>3. CASE Complete = {}
  <2>1. Latest = NoCheckpoint
    BY <1>3 DEF Latest
  <2> QED BY <1>2, <1>3, <2>1 DEF NoCheckpoint, Known, Covers
<1>4. CASE Complete # {}
  <2> DEFINE T == {c.through : c \in Complete}
  <2>1. \A c \in Complete : c \in cps /\ c.status = "complete"
    BY DEF Complete
  <2>2. \A c \in Complete : c.through \in 0..Len(hist)
    <3>1. \A c \in cps : CheckpointOK(hist, c)
      BY DEF CheckpointInv, CheckpointsOK
    <3>2. \A c \in cps : c.through \in 1..Len(hist)
      BY <3>1 DEF CheckpointOK
    <3> QED BY <2>1, <1>2, <3>2
  <2>12. T \subseteq 0..Len(hist) /\ T # {}
    BY <1>4, <2>2
  <2>3. PICK m \in T : \A k \in T : k <= m
    BY <1>2, <2>12, GreatestNat
  <2>4. PICK c \in Complete : c.through = m
    OBVIOUS
  <2>5. \A d \in Complete : d.through <= c.through
    BY <2>3, <2>4
  <2>6. Latest \in Complete /\ \A d \in Complete : d.through <= Latest.through
    BY <1>4, <2>5 DEF Latest
  <2> DEFINE L == Latest
  <2>7. L \in CpRec /\ L \in cps /\ L.status = "complete" /\ L.through \in 0..Len(hist)
    BY <2>1, <2>2, <2>6, <1>1
  <2>8. CheckpointOK(hist, L) /\ L.id <= clock /\ L.id \in Nat
    BY <2>7 DEF CheckpointInv, CheckpointsOK, CpRec
  <2>9. L.covers \in SUBSET Nat /\ L.aged \in SUBSET Nat /\ L.lost \in SUBSET Nat
    BY <2>7 DEF CpRec
  <2> HIDE DEF L
  <2>10. \A S \in SUBSET Nat : Known(hist, S, L.id) => Known(hist, S, clock + 1)
    BY <2>8, <1>1 DEF Known
  <2>11. /\ Known(hist, L.covers, L.id) /\ Known(hist, L.aged, L.id)
         /\ Covers(hist, L.through, L.covers \cup L.lost)
    BY <2>7, <2>8 DEF CheckpointOK
  <2> QED BY <2>6, <2>7, <2>9, <2>10, <2>11 DEF L
<1> QED BY <1>3, <1>4

LEMMA SplitFacts ==
  ASSUME hist \in Seq(RowRec), NEW recent, NEW prev \in Nat,
         SplitHistory(recent, prev) > 0
  PROVE  /\ SplitHistory(recent, prev) \in (prev + 1)..(Len(hist) - 1)
         /\ hist[SplitHistory(recent, prev) + 1].kind # "result"
<1> DEFINE cuts == Cuts(prev + 1)
           fits == {k \in cuts : CostFrom(k) <= recent \/ \A j \in cuts : j <= k}
           tail == CHOOSE k \in fits : \A j \in fits : k <= j
           later == cuts \ {prev + 1}
           next == CHOOSE k \in later : \A j \in later : k <= j
<1>1. Len(hist) \in Nat
  BY RowFacts
<1>2. /\ cuts \subseteq (prev + 1)..Len(hist) /\ cuts \subseteq 0..Len(hist) /\ cuts \subseteq Nat
      /\ \A k \in cuts : hist[k].kind # "result"
  BY <1>1 DEF Cuts
<1>3. SplitHistory(recent, prev) = IF cuts = {} THEN 0
                                   ELSE IF tail > prev + 1 THEN tail - 1
                                   ELSE IF later = {} THEN 0 ELSE next - 1
  BY DEF SplitHistory
<1> HIDE DEF cuts
<1>4. cuts # {}
  BY <1>3
<1>5. tail \in cuts
  <2>1. PICK m \in cuts : \A k \in cuts : k <= m
    BY <1>1, <1>2, <1>4, GreatestNat
  <2>2. m \in fits /\ fits \subseteq Nat
    BY <1>2, <2>1
  <2>3. \E k \in fits : \A j \in fits : k <= j
    BY <2>2, LeastNat
  <2> QED BY <2>3
<1>6. later # {} => next \in later
  <2>1. later \subseteq Nat
    BY <1>2
  <2>2. ASSUME later # {} PROVE \E k \in later : \A j \in later : k <= j
    BY <2>1, <2>2, LeastNat
  <2> QED BY <2>2
<1> HIDE DEF tail, next, fits
<1>7. ASSUME NEW k \in cuts, k # prev + 1
      PROVE  k - 1 \in (prev + 1)..(Len(hist) - 1) /\ hist[(k - 1) + 1].kind # "result"
  <2>1. k \in Nat /\ k \in (prev + 1)..Len(hist) /\ (k - 1) + 1 = k
    BY <1>1, <1>2
  <2> QED BY <1>1, <1>2, <1>7, <2>1
<1>8. CASE tail > prev + 1
  <2>1. tail \in Nat /\ tail # prev + 1
    BY <1>2, <1>5, <1>8
  <2> QED BY <1>3, <1>4, <1>5, <1>7, <1>8, <2>1
<1>9. CASE ~(tail > prev + 1)
  <2>1. later # {} /\ SplitHistory(recent, prev) = next - 1
    BY <1>3, <1>4, <1>9
  <2> QED BY <1>6, <1>7, <2>1
<1> QED BY <1>8, <1>9

LEMMA MiddleFacts ==
  ASSUME NEW older \in Seq(RowRec), Len(older) >= 1
  PROVE  Middle(older) \in 0..(Len(older) - 1)
<1> DEFINE h == Len(older) \div 2
           T == {m \in h..(Len(older) - 1) : m = Len(older) - 1 \/ older[m + 1].kind # "result"}
<1>1. Len(older) \in Nat /\ h \in Nat /\ h <= Len(older) - 1
  BY RowFacts
<1> HIDE DEF h
<1>2. Len(older) - 1 \in T /\ T \subseteq Nat
  BY <1>1
<1>3. PICK m \in T : \A k \in T : m <= k
  BY <1>2, LeastNat
<1>4. \A k \in h..(m - 1) : older[k + 1].kind = "result"
  BY <1>1, <1>3
<1>5. Middle(older) \in h..(Len(older) - 1)
  BY <1>3, <1>4 DEF Middle, h
<1> QED BY <1>1, <1>5

(***************************************************************************)
(* The invariant step by step: rows stored, rewritten and deleted.         *)
(***************************************************************************)
LEMMA InitContext == ContextInit => ContextInv
<1> SUFFICES ASSUME ContextInit PROVE ContextInv
  OBVIOUS
<1>1. NoJob \in JobRec /\ NoStatus \in Updates
  BY DEF NoJob, JobRec, Updates
<1>2. ContextTypes
  <2>1. <<>> \in Seq(RowRec) /\ <<>> \in Seq(CallIds)
    BY EmptySeq
  <2> QED BY <1>1, <2>1 DEF ContextTypes, ContextInit
<1>3. Bounded
  BY Assumed DEF Bounded, ContextInit
<1>4. CheckpointInv
  BY DEF CheckpointInv, Ordered, CheckpointsOK, Done, ContextInit
<1>5. JobInv
  BY DEF JobInv, ContextInit
<1>6. AskInv
  BY DEF AskInv, ContextInit
<1> QED BY <1>2, <1>3, <1>4, <1>5, <1>6 DEF ContextInv

LEMMA CheckpointsGrow ==
  ASSUME NEW q \in Seq(RowRec), NEW r \in Seq(RowRec), Len(q) <= Len(r),
         \A i \in DOMAIN q : r[i].id = q[i].id /\ r[i].kind = q[i].kind,
         NEW C \in SUBSET CpRec, NEW now \in Nat, NEW later \in Nat, now <= later,
         CheckpointsOK(q, C, now)
  PROVE  CheckpointsOK(r, C, later)
<1>1. ASSUME NEW c \in C PROVE CheckpointOK(r, c) /\ c.id <= later
  <2>1. c \in CpRec /\ CheckpointOK(q, c) /\ c.id <= now
    BY DEF CheckpointsOK
  <2>2. c.id \in Nat
    BY <2>1 DEF CpRec
  <2> QED BY <2>1, <2>2, CheckpointGrows
<1> QED BY <1>1 DEF CheckpointsOK

LEMMA NewRow ==
  ASSUME NEW x \in RowRec, NEW n \in Nat
  PROVE  /\ [x EXCEPT !.id = n] \in RowRec /\ [x EXCEPT !.id = n].id = n
         /\ [x EXCEPT !.id = n].kind = x.kind /\ [x EXCEPT !.id = n].said = x.said
         /\ [x EXCEPT !.id = n].call = x.call
  BY DEF RowRec

\* a row is stored outside a compaction
LEMMA StoreKeeps ==
  ASSUME ContextInv, NEW x \in RowRec, Append1(x), UNCHANGED compVars,
         stage' \in {"idle", "step", "sent", "batch"},
         want' \in Seq(CallIds), tell' \in Updates,
         x.kind = "result" /\ x.said = 0 => want' # <<>> /\ x.call = Head(want')
  PROVE  ContextInv'
<1> DEFINE y == [x EXCEPT !.id = clock + 1]
<1>1. hist \in Seq(RowRec) /\ cps \in SUBSET CpRec /\ clock \in Nat
  BY DEF ContextInv, ContextTypes
<1>2. y \in RowRec /\ y.id = clock + 1 /\ y.kind = x.kind /\ y.said = x.said /\ y.call = x.call
  <2>1. clock + 1 \in Nat
    BY <1>1
  <2> QED BY <2>1, NewRow, Zenon
<1>3. /\ hist' = Append(hist, y) /\ clock' = clock + 1 /\ cps' = cps
      /\ Len(hist) < HistoryBound /\ clock < ClockBound
  BY DEF Append1, Stored, MayStore
<1> HIDE DEF y
<1>4. /\ hist' \in Seq(RowRec) /\ Len(hist') = Len(hist) + 1 /\ DOMAIN hist' = 1..(Len(hist) + 1)
      /\ \A i \in DOMAIN hist : hist'[i] = hist[i]
      /\ hist'[Len(hist) + 1] = y
  BY <1>1, <1>2, <1>3, AppendedRow
<1>5. Len(hist) \in Nat /\ DOMAIN hist = 1..Len(hist) /\ \A i \in DOMAIN hist : hist[i].id \in Nat
  BY <1>1, RowFacts
<1>6. ContextTypes'
  BY <1>1, <1>3, <1>4 DEF ContextInv, ContextTypes, compVars
<1>7. Bounded'
  BY <1>1, <1>3, <1>4, <1>5, Assumed DEF Bounded
<1>8. CheckpointsOK(hist', cps', clock')
  <2>1. Len(hist) <= Len(hist') /\ clock <= clock + 1 /\ clock + 1 \in Nat
    BY <1>1, <1>4, <1>5
  <2>2. CheckpointsOK(hist, cps, clock)
    BY DEF ContextInv, CheckpointInv
  <2> QED BY <1>1, <1>3, <1>4, <2>1, <2>2, CheckpointsGrow
<1>9. Ordered(hist', clock')
  <2>1. Ordered(hist, clock)
    BY DEF ContextInv, CheckpointInv
  <2>2. \A i \in DOMAIN hist' : (i \in DOMAIN hist /\ hist'[i].id = hist[i].id)
                                \/ (i = Len(hist) + 1 /\ hist'[i].id = clock + 1)
    <3>1. \A i \in DOMAIN hist' : i \in DOMAIN hist \/ i = Len(hist) + 1
      BY <1>4, <1>5
    <3> QED BY <3>1, <1>2, <1>4
  <2> QED BY <2>1, <2>2, <1>1, <1>3, <1>4, <1>5 DEF Ordered
<1>10. JobInv'
  BY DEF JobInv
<1>11. AskInv'
  <2>1. Last(hist') = y /\ hist' # <<>>
    BY <1>4, <1>5 DEF Last
  <2> QED BY <2>1, <1>2 DEF AskInv, Asking
<1> QED BY <1>6, <1>7, <1>8, <1>9, <1>10, <1>11 DEF ContextInv, CheckpointInv

LEMMA RewrittenRow ==
  ASSUME NEW q \in Seq(RowRec), NEW k, NEW n \in Nat
  PROVE  LET r == [q EXCEPT ![k].said = n] IN
         /\ r \in Seq(RowRec) /\ Len(r) = Len(q) /\ DOMAIN r = DOMAIN q
         /\ \A i \in DOMAIN q : r[i].id = q[i].id /\ r[i].kind = q[i].kind
<1> DEFINE r == [q EXCEPT ![k].said = n]
<1>1. Len(q) \in Nat /\ DOMAIN q = 1..Len(q) /\ \A i \in DOMAIN q : q[i] \in RowRec
  BY RowFacts
<1>2. ASSUME NEW x \in RowRec
      PROVE  /\ [x EXCEPT !.said = n] \in RowRec /\ [x EXCEPT !.said = n].id = x.id
             /\ [x EXCEPT !.said = n].kind = x.kind
  BY DEF RowRec
<1>3. DOMAIN r = DOMAIN q /\ \A i \in DOMAIN q : r[i] = IF i = k THEN [q[i] EXCEPT !.said = n] ELSE q[i]
  <2>1. r = [q EXCEPT ![k] = [q[k] EXCEPT !.said = n]]
    OBVIOUS
  <2> QED BY <1>1, <2>1
<1>4. \A i \in DOMAIN q : r[i] \in RowRec /\ r[i].id = q[i].id /\ r[i].kind = q[i].kind
  BY <1>1, <1>2, <1>3
<1>5. r = [i \in 1..Len(q) |-> r[i]]
  BY <1>1, <1>3
<1> HIDE DEF r
<1>6. r \in Seq(RowRec) /\ Len(r) = Len(q)
  BY <1>1, <1>3, <1>4, <1>5, IsASeq, LenProperties
<1> QED BY <1>3, <1>4, <1>6 DEF r

LEMMA RewriteKeeps ==
  ASSUME ContextInv, ReplyStored
  PROVE  ContextInv'
<1>1. /\ hist \in Seq(RowRec) /\ cps \in SUBSET CpRec /\ clock \in Nat /\ want \in Seq(CallIds)
      /\ Ordered(hist, clock) /\ CheckpointsOK(hist, cps, clock)
  BY DEF ContextInv, ContextTypes, CheckpointInv
<1>2. /\ stage = "batch" /\ want' = Tail(want) /\ Asking
      /\ UNCHANGED <<cps, clock, stage, tell, job, compacting>>
  BY DEF ReplyStored, compVars
<1>3. Len(hist) \in Nat /\ DOMAIN hist = 1..Len(hist) /\ \A i \in DOMAIN hist : hist[i].id \in Nat
  BY <1>1, RowFacts
<1> DEFINE n == Len(hist)
           mine == {i \in Rows("result") : hist[i].call = Head(want)}
           k == CHOOSE i \in mine : \A j \in mine : j <= i
<1>4. want # <<>> /\ n \in DOMAIN hist /\ n > 0 /\ hist[n].call = Head(want) /\ hist[n].kind = "result"
  BY <1>2, <1>3 DEF ContextInv, AskInv, Asking, Last
<1>5. k = n
  <2>1. n \in mine /\ \A j \in mine : j <= n
    BY <1>3, <1>4 DEF Rows
  <2>2. k \in mine /\ \A j \in mine : j <= k
    BY <2>1
  <2>3. k \in 1..n
    BY <2>2, <1>3 DEF Rows
  <2> QED BY <2>1, <2>2, <2>3, <1>3
<1>6. hist' = [hist EXCEPT ![n].said = clock]
  BY <1>5 DEF ReplyStored, RewriteResult
<1> HIDE DEF n, mine, k
<1>7. /\ hist' \in Seq(RowRec) /\ Len(hist') = Len(hist) /\ DOMAIN hist' = DOMAIN hist
      /\ \A i \in DOMAIN hist : hist'[i].id = hist[i].id /\ hist'[i].kind = hist[i].kind
  BY <1>1, <1>6, RewrittenRow
<1>8. want' \in Seq(CallIds)
  BY <1>1, <1>2, <1>4
<1>9. ContextTypes'
  BY <1>1, <1>2, <1>7, <1>8 DEF ContextInv, ContextTypes
<1>10. Bounded'
  BY <1>2, <1>7 DEF ContextInv, Bounded
<1>11. Ordered(hist', clock')
  BY <1>1, <1>2, <1>7 DEF Ordered
<1>12. CheckpointsOK(hist', cps', clock')
  <2>1. Len(hist) <= Len(hist') /\ clock <= clock
    BY <1>1, <1>3, <1>7
  <2> QED BY <1>1, <1>2, <1>7, <2>1, CheckpointsGrow
<1>13. JobInv'
  BY <1>2 DEF JobInv
<1>14. AskInv'
  <2>1. hist'[n].said = clock
    <3>1. hist[n] \in RowRec
      BY <1>1, <1>3, <1>4, RowFacts
    <3>2. hist'[n] = [hist[n] EXCEPT !.said = clock]
      BY <1>1, <1>4, <1>6
    <3> QED BY <3>1, <3>2 DEF RowRec
  <2>2. clock # 0
    BY <1>1, <1>4 DEF Ordered
  <2>3. ~Asking'
    BY <2>1, <2>2, <1>7 DEF Asking, Last, n
  <2> QED BY <2>3 DEF AskInv
<1> QED BY <1>9, <1>10, <1>11, <1>12, <1>13, <1>14 DEF ContextInv, CheckpointInv

LEMMA RetryKeeps ==
  ASSUME ContextInv, RetryLastTurn
  PROVE  ContextInv'
<1> DEFINE n == CHOOSE i \in Rows("prompt") : \A k \in Rows("prompt") : k <= i
<1>1. /\ hist \in Seq(RowRec) /\ cps \in SUBSET CpRec /\ clock \in Nat
      /\ Ordered(hist, clock) /\ CheckpointsOK(hist, cps, clock)
  BY DEF ContextInv, ContextTypes, CheckpointInv
<1>2. Len(hist) \in Nat /\ DOMAIN hist = 1..Len(hist) /\ \A i \in DOMAIN hist : hist[i].id \in Nat
  BY <1>1, RowFacts
<1>3. n \in 1..Len(hist)
  <2>1. /\ Rows("prompt") \subseteq 0..Len(hist) /\ Rows("prompt") \subseteq 1..Len(hist)
        /\ Rows("prompt") # {}
    BY <1>2 DEF Rows, RetryLastTurn
  <2>2. \E i \in Rows("prompt") : \A k \in Rows("prompt") : k <= i
    BY <1>2, <2>1, GreatestNat
  <2> QED BY <2>1, <2>2
<1>4. /\ hist' = SubSeq(hist, 1, n) /\ cps' = {c \in cps : c.through <= n /\ c.id < hist[n].id}
      /\ clock' = clock /\ stage' = "step" /\ UNCHANGED <<want, tell, job, compacting>>
  BY DEF RetryLastTurn, DeleteAfter, compVars
<1> HIDE DEF n
<1>5. /\ hist' \in Seq(RowRec) /\ Len(hist') = n /\ DOMAIN hist' = 1..n
      /\ \A i \in 1..n : i \in DOMAIN hist /\ hist'[i] = hist[i]
  BY <1>1, <1>3, <1>4, CutRows
<1>6. ContextTypes'
  BY <1>1, <1>4, <1>5 DEF ContextInv, ContextTypes
<1>7. Bounded'
  BY <1>2, <1>3, <1>4, <1>5, Assumed DEF ContextInv, Bounded
<1>8. Ordered(hist', clock')
  BY <1>1, <1>4, <1>5 DEF Ordered
<1>9. CheckpointsOK(hist', cps', clock')
  <2>1. ASSUME NEW c \in cps' PROVE CheckpointOK(hist', c) /\ c.id <= clock' /\ c \in cps
    <3>1. c \in cps /\ c \in CpRec /\ c.through <= n /\ c.id < hist[n].id
      BY <1>1, <1>4
    <3>2. CheckpointOK(hist, c) /\ c.id <= clock
      BY <1>1, <3>1 DEF CheckpointsOK
    <3> QED BY <1>1, <1>3, <1>4, <3>1, <3>2, CheckpointCut
  <2> QED BY <1>1, <2>1 DEF CheckpointsOK, Done
<1>10. JobInv' /\ AskInv'
  BY <1>4 DEF JobInv, AskInv
<1> QED BY <1>6, <1>7, <1>8, <1>9, <1>10 DEF ContextInv, CheckpointInv

(***************************************************************************)
(* The compaction.                                                         *)
(***************************************************************************)
\* the ids of a part of the rows
LEMMA PartIds ==
  ASSUME NEW q \in Seq(RowRec), NEW i \in 1..(Len(q) + 1), NEW k \in 0..Len(q)
  PROVE  \A x : x \in Ids(SubSeq(q, i, k)) <=>
                  \E m \in DOMAIN q : i <= m /\ m <= k /\ q[m].id = x
<1> DEFINE r == SubSeq(q, i, k)
<1>1. Len(q) \in Nat /\ DOMAIN q = 1..Len(q) /\ i \in Nat /\ k \in Nat
  BY RowFacts
<1>2. CASE i <= k
  <2>1. i \in 1..Len(q) /\ k \in 1..Len(q)
    BY <1>1, <1>2
  <2>2. Len(r) = k - i + 1 /\ \A m \in 1..(k - i + 1) : r[m] = q[i + m - 1]
    BY <1>1, <1>2, <2>1
  <2>3. DOMAIN r = 1..(k - i + 1)
    <3>1. r \in Seq(RowRec)
      BY <1>1, <1>2, <2>1
    <3> HIDE DEF r
    <3> QED BY <2>2, <3>1, RowFacts
  <2> HIDE DEF r
  <2>4. ASSUME NEW x \in Ids(r) PROVE \E m \in DOMAIN q : i <= m /\ m <= k /\ q[m].id = x
    <3>1. PICK m \in DOMAIN r : r[m].id = x
      BY IdsFacts
    <3>2. i + m - 1 \in DOMAIN q /\ i <= i + m - 1 /\ i + m - 1 <= k /\ r[m] = q[i + m - 1]
      BY <1>1, <1>2, <2>1, <2>2, <2>3
    <3> QED BY <3>1, <3>2
  <2>5. ASSUME NEW m \in DOMAIN q, i <= m, m <= k PROVE q[m].id \in Ids(r)
    <3>1. m - i + 1 \in DOMAIN r /\ i + (m - i + 1) - 1 = m
      BY <1>1, <1>2, <2>3, <2>5
    <3>2. r[m - i + 1] = q[m]
      BY <2>2, <2>3, <3>1
    <3> QED BY <3>1, <3>2, IdsFacts
  <2> QED BY <2>4, <2>5 DEF r
<1>3. CASE ~(i <= k)
  <2>1. r = <<>>
    BY <1>1, <1>3
  <2> HIDE DEF r
  <2>2. DOMAIN r = {}
    BY <2>1
  <2>3. \A x : ~(x \in Ids(r))
    BY <2>2, IdsFacts
  <2>4. \A m \in DOMAIN q : ~(i <= m /\ m <= k)
    BY <1>1, <1>3
  <2> QED BY <2>3, <2>4 DEF r
<1> QED BY <1>2, <1>3

\* what covers the rows up to one seq and the rows from there on covers them all
LEMMA CoversJoin ==
  ASSUME NEW q \in Seq(RowRec), NEW S, NEW m \in 0..Len(q), NEW n \in 0..Len(q),
         Covers(q, m, S)
  PROVE  Covers(q, n, S \cup Ids(SubSeq(q, m + 1, n)))
<1>1. Len(q) \in Nat /\ DOMAIN q = 1..Len(q) /\ m + 1 \in 1..(Len(q) + 1)
  BY RowFacts
<1>2. ASSUME NEW i \in DOMAIN q, i <= n, ~(i <= m) PROVE q[i].id \in Ids(SubSeq(q, m + 1, n))
  <2>1. i \in Nat /\ m + 1 <= i
    BY <1>1, <1>2
  <2> QED BY <1>1, <1>2, <2>1, PartIds
<1> QED BY <1>2 DEF Covers

\* the rows of a part of the transcript are rows of the transcript
LEMMA PartKnown ==
  ASSUME NEW q \in Seq(RowRec), NEW i \in 1..(Len(q) + 1), NEW k \in 0..Len(q), NEW now,
         \A m \in DOMAIN q : q[m].id < now
  PROVE  /\ SubSeq(q, i, k) \in Seq(RowRec)
         /\ i <= k => SubSeq(q, i, k) # <<>>
         /\ Known(q, Ids(SubSeq(q, i, k)), now)
         /\ Ids(SubSeq(q, i, k)) \subseteq Nat
<1>1. \A m \in DOMAIN q : q[m].id \in Nat
  BY RowFacts
<1>2. Len(q) \in Nat /\ i \in Nat /\ k \in Nat
  BY RowFacts
<1>3. SubSeq(q, i, k) \in Seq(RowRec) /\ (i <= k => SubSeq(q, i, k) # <<>>)
  <2>1. CASE i <= k
    <3>1. i \in 1..Len(q) /\ k \in 1..Len(q)
      BY <1>2, <2>1
    <3>2. SubSeq(q, i, k) \in Seq(RowRec) /\ Len(SubSeq(q, i, k)) = k - i + 1 /\ k - i + 1 # 0
      BY <1>2, <2>1, <3>1
    <3> QED BY <3>2
  <2>2. CASE ~(i <= k)
    <3>1. SubSeq(q, i, k) = <<>>
      BY <1>2, <2>2
    <3> QED BY <2>2, <3>1, EmptySeq
  <2> QED BY <2>1, <2>2
<1>4. ASSUME NEW x \in Ids(SubSeq(q, i, k)) PROVE \E m \in DOMAIN q : q[m].id = x
  BY PartIds
<1> QED BY <1>1, <1>3, <1>4 DEF Known

LEMMA BeginKeeps ==
  ASSUME ContextInv, NEW how \in {"inline", "standalone"}, NEW manual \in BOOLEAN,
         Begin(how, manual)
  PROVE  ContextInv'
<1> DEFINE L == Latest
           t == SplitHistory(IF how = "inline" THEN RecentBudget \div 2 ELSE RecentBudget, L.through)
           p == [id |-> clock + 1, through |-> t, covers |-> {},
                 aged |-> Ids(SubSeq(hist, t + 1, Len(hist))), lost |-> {},
                 status |-> "pending"]
           older == SubSeq(hist, L.through + 1, t)
           told == L.covers \cup Ids(SubSeq(hist, L.through + 1, Len(hist)))
           basis == L.covers \cup L.aged
           j == [cp |-> clock + 1, basis |-> basis, how |-> how, pass |-> "whole",
                 older |-> older, drafts |-> 0, reads |-> Ids(older), lost |-> L.lost,
                 told |-> told, manual |-> manual]
<1>1. /\ hist \in Seq(RowRec) /\ cps \in SUBSET CpRec /\ clock \in Nat
      /\ Ordered(hist, clock) /\ CheckpointsOK(hist, cps, clock)
  BY DEF ContextInv, ContextTypes, CheckpointInv
<1>2. /\ Len(hist) \in Nat /\ DOMAIN hist = 1..Len(hist)
      /\ \A i \in DOMAIN hist : hist[i].id \in Nat /\ hist[i].id < clock + 1
  BY <1>1, RowFacts DEF Ordered
<1>3. /\ t > 0 /\ clock < ClockBound /\ compacting' = TRUE /\ clock' = clock + 1
      /\ cps' = cps \cup {p} /\ job' = j /\ stage' = "summary" /\ tell' = NoStatus
      /\ UNCHANGED <<hist, want>>
  BY DEF Begin, Previous
<1>4. /\ L.covers \in SUBSET Nat /\ L.aged \in SUBSET Nat /\ L.through \in 0..Len(hist)
      /\ L.lost \in SUBSET Nat
      /\ \A d \in Complete : d.through <= L.through
      /\ Known(hist, L.covers, clock + 1) /\ Known(hist, L.aged, clock + 1)
      /\ Covers(hist, L.through, L.covers \cup L.lost)
  BY LatestFacts DEF ContextInv
<1> HIDE DEF L
<1>5. t \in (L.through + 1)..(Len(hist) - 1) /\ hist[t + 1].kind # "result"
  BY <1>1, <1>2, <1>3, <1>4, SplitFacts
<1> HIDE DEF t
<1>6. t \in Nat /\ t \in 1..Len(hist) /\ t + 1 \in DOMAIN hist /\ L.through \in Nat /\ t > L.through
  BY <1>2, <1>4, <1>5
<1>0. ASSUME NEW i \in 1..(Len(hist) + 1), NEW k \in 0..Len(hist)
      PROVE  /\ SubSeq(hist, i, k) \in Seq(RowRec)
             /\ i <= k => SubSeq(hist, i, k) # <<>>
             /\ Known(hist, Ids(SubSeq(hist, i, k)), clock + 1)
             /\ Ids(SubSeq(hist, i, k)) \subseteq Nat
  <2> DEFINE now == clock + 1
  <2>1. \A m \in DOMAIN hist : hist[m].id < now
    BY <1>2
  <2> HIDE DEF now
  <2>2. /\ SubSeq(hist, i, k) \in Seq(RowRec) /\ (i <= k => SubSeq(hist, i, k) # <<>>)
        /\ Known(hist, Ids(SubSeq(hist, i, k)), now)
        /\ Ids(SubSeq(hist, i, k)) \subseteq Nat
    BY <1>1, <2>1, PartKnown
  <2> QED BY <2>2 DEF now
<1>7. /\ Known(hist, Ids(SubSeq(hist, t + 1, Len(hist))), clock + 1)
      /\ Ids(SubSeq(hist, t + 1, Len(hist))) \subseteq Nat
  <2>1. t + 1 \in 1..(Len(hist) + 1) /\ Len(hist) \in 0..Len(hist)
    BY <1>2, <1>6
  <2> QED BY <1>0, <2>1
<1>8. /\ Known(hist, Ids(SubSeq(hist, L.through + 1, Len(hist))), clock + 1)
      /\ Ids(SubSeq(hist, L.through + 1, Len(hist))) \subseteq Nat
  <2>1. L.through + 1 \in 1..(Len(hist) + 1) /\ Len(hist) \in 0..Len(hist)
    BY <1>2, <1>4, <1>6
  <2> QED BY <1>0, <2>1
<1>9. /\ older \in Seq(RowRec) /\ Known(hist, Ids(older), clock + 1) /\ older # <<>>
      /\ Ids(older) \in SUBSET Nat
  <2>1. L.through + 1 \in 1..(Len(hist) + 1) /\ t \in 0..Len(hist) /\ L.through + 1 <= t
    BY <1>2, <1>4, <1>6
  <2> QED BY <1>0, <2>1
<1>10. Known(hist, told, clock + 1) /\ Known(hist, basis, clock + 1)
  BY <1>4, <1>8 DEF Known
<1>11. told \in SUBSET Nat /\ basis \in SUBSET Nat
  BY <1>4, <1>8
<1>12. Covers(hist, t, told \cup L.lost)
  <2> DEFINE S == L.covers \cup L.lost
             late == Ids(SubSeq(hist, L.through + 1, Len(hist)))
  <2>1. Len(hist) \in 0..Len(hist) /\ Covers(hist, L.through, S)
    BY <1>2, <1>4
  <2> HIDE DEF S
  <2>2. Covers(hist, Len(hist), S \cup late)
    BY <1>1, <1>4, <2>1, CoversJoin
  <2> HIDE DEF late
  <2>3. S \cup late = told \cup L.lost
    BY DEF S, late
  <2> QED BY <1>2, <1>6, <2>2, <2>3 DEF Covers
<1>13. Covers(hist, t, basis \cup Ids(older) \cup L.lost)
  <2> DEFINE S == L.covers \cup L.lost
  <2>1. t \in 0..Len(hist) /\ Covers(hist, L.through, S)
    BY <1>2, <1>4, <1>6
  <2> HIDE DEF S
  <2>2. Covers(hist, t, S \cup Ids(older))
    BY <1>1, <1>4, <2>1, CoversJoin
  <2> HIDE DEF older
  <2> QED BY <2>2 DEF Covers, S
<1> HIDE DEF older, told, basis
<1>14. /\ p \in CpRec /\ p.id = clock + 1 /\ p.status = "pending" /\ p.through = t
       /\ p.aged = Ids(SubSeq(hist, t + 1, Len(hist)))
  BY <1>1, <1>6, <1>7 DEF CpRec, Statuses
<1>15. /\ j \in JobRec /\ j.cp = clock + 1 /\ j.told = told /\ j.basis = basis /\ j.older = older
       /\ j.how = how /\ j.pass = "whole" /\ j.reads = Ids(older) /\ j.lost = L.lost
  BY <1>1, <1>4, <1>9, <1>11 DEF JobRec
<1> HIDE DEF p, j
<1>16. ContextTypes'
  BY <1>1, <1>3, <1>14, <1>15 DEF ContextInv, ContextTypes, Updates
<1>17. Bounded'
  BY <1>1, <1>3, Assumed DEF ContextInv, Bounded
<1>18. Ordered(hist', clock')
  BY <1>1, <1>3 DEF Ordered
<1>19. CheckpointOK(hist, p)
  BY <1>5, <1>6, <1>7, <1>2, <1>14 DEF CheckpointOK
<1>20. CheckpointsOK(hist', cps', clock')
  <2>1. CheckpointsOK(hist, cps, clock + 1)
    BY <1>1, CheckpointsGrow
  <2>2. \A c \in cps : c.id # p.id
    <3>1. \A c \in cps : c.id \in Nat /\ c.id <= clock
      BY <1>1 DEF CheckpointsOK, CpRec
    <3> QED BY <3>1, <1>1, <1>14
  <2>3. Done(cps') = Done(cps)
    BY <1>3, <1>14 DEF Done
  <2>4. \A c \in cps' : CheckpointOK(hist', c) /\ c.id <= clock'
    <3>1. p.id <= clock + 1
      BY <1>1, <1>14
    <3> QED BY <1>3, <1>19, <2>1, <3>1 DEF CheckpointsOK
  <2>5. \A c, d \in cps' : c.id = d.id => c = d
    BY <1>1, <1>3, <2>2 DEF CheckpointsOK
  <2> QED BY <1>1, <2>3, <2>4, <2>5 DEF CheckpointsOK
<1>21. JobInv'
  <2>1. \A d \in Done(cps') : d.through < p.through
    <3>1. Done(cps') = Complete
      BY <1>3, <1>14 DEF Done, Complete
    <3>2. \A d \in Complete : d.through \in Nat
      BY <1>1 DEF Complete, CpRec
    <3> QED BY <3>1, <3>2, <1>4, <1>6, <1>14
  <2>2. Covers(hist, p.through, j.told \cup j.lost)
    BY <1>12, <1>14, <1>15
  <2>3. Covers(hist, p.through, Carried(j))
    <3>1. Carried(j) = basis \cup Ids(older) \cup L.lost
      BY <1>15 DEF Carried, Unread
    <3> QED BY <1>13, <1>14, <3>1
  <2>4. \A i \in DOMAIN hist : hist[i].id < clock + 1
    BY <1>2
  <2>5. JobOK(hist, cps', j, clock + 1)
    BY <2>1, <2>2, <2>3, <2>4, <1>3, <1>9, <1>10, <1>14, <1>15 DEF JobOK
  <2> QED BY <1>3, <2>5 DEF JobInv
<1>22. AskInv'
  BY <1>3 DEF AskInv
<1> QED BY <1>16, <1>17, <1>18, <1>20, <1>21, <1>22 DEF ContextInv, CheckpointInv

\* the compaction at work, and what its summary tells of
LEMMA JobFacts ==
  ASSUME ContextInv, stage = "summary"
  PROVE  /\ job \in JobRec /\ JobOK(hist, cps, job, clock) /\ compacting
         /\ hist \in Seq(RowRec) /\ cps \in SUBSET CpRec /\ clock \in Nat
         /\ Ordered(hist, clock) /\ CheckpointsOK(hist, cps, clock)
  BY DEF ContextInv, ContextTypes, JobInv, CheckpointInv

LEMMA OlderFacts ==
  ASSUME NEW j \in JobRec
  PROVE  j.older \in Seq(RowRec) /\ j.basis \in SUBSET Nat /\ j.told \in SUBSET Nat
         /\ j.reads \in SUBSET Nat /\ j.lost \in SUBSET Nat
         /\ j.how \in {"none", "inline", "standalone"} /\ j.pass \in {"whole", "first", "second"}
  BY DEF JobRec

LEMMA ToldFacts ==
  ASSUME ContextInv, stage = "summary"
  PROVE  /\ Told \in SUBSET Nat /\ Known(hist, Told, clock)
         /\ job.pass # "first" \/ job.how = "inline" =>
              \A p \in cps : p.id = job.cp => Covers(hist, p.through, Told \cup job.lost)
<1>1. /\ job.basis \in SUBSET Nat /\ job.told \in SUBSET Nat /\ job.reads \in SUBSET Nat
      /\ JobOK(hist, cps, job, clock)
  BY JobFacts, OlderFacts
<1>2. /\ Known(hist, job.told, clock) /\ Known(hist, job.basis, clock)
      /\ Known(hist, job.reads, clock)
  BY <1>1 DEF JobOK
<1>3. PICK p \in cps : /\ p.id = job.cp /\ Covers(hist, p.through, job.told \cup job.lost)
                       /\ Covers(hist, p.through, Carried(job))
  BY <1>1 DEF JobOK
<1>4. Told \in SUBSET Nat /\ Known(hist, Told, clock)
  BY <1>1, <1>2 DEF Told, Known
<1>5. \A d \in cps : d.id = job.cp => d = p
  BY <1>3, JobFacts DEF CheckpointsOK
<1>6. job.pass # "first" => Carried(job) = job.basis \cup job.reads \cup job.lost
  BY DEF Carried, Unread
<1>7. job.pass # "first" \/ job.how = "inline" => Covers(hist, p.through, Told \cup job.lost)
  <2>1. CASE job.how = "inline"
    BY <1>3, <2>1 DEF Told
  <2>2. CASE job.how # "inline" /\ job.pass # "first"
    <3>1. Told \cup job.lost = Carried(job)
      BY <1>6, <2>2 DEF Told
    <3> QED BY <1>3, <3>1
  <2> QED BY <2>1, <2>2
<1> QED BY <1>4, <1>5, <1>7

\* the job moves on, the store is as it was
LEMMA JobKeeps ==
  ASSUME ContextInv, stage = "summary", UNCHANGED <<rowVars, runVars, compacting>>,
         NEW j \in JobRec, job' = j, JobOK(hist, cps, j, clock)
  PROVE  ContextInv'
<1>1. UNCHANGED <<hist, cps, clock, stage, want, tell, compacting>>
  BY DEF rowVars, runVars
<1>2. ContextTypes'
  BY <1>1 DEF ContextInv, ContextTypes
<1>3. Bounded' /\ CheckpointInv' /\ AskInv'
  BY <1>1 DEF ContextInv, Bounded, CheckpointInv, AskInv
<1>4. JobInv'
  BY <1>1, JobFacts DEF JobInv
<1> QED BY <1>2, <1>3, <1>4 DEF ContextInv

\* a pass that carries the first rows of its part, and calls the rest of them lost
LEMMA FittedFacts ==
  ASSUME ContextInv, stage = "summary", NEW n \in 0..Len(job.older),
         NEW i \in 1..(Len(job.older) + 1), NEW k \in 0..Len(job.older)
  PROVE  /\ Fitted(n, i, k) \in JobRec
         /\ Fitted(n, i, k).reads = Ids(SubSeq(job.older, i, n))
         /\ Fitted(n, i, k).lost = job.lost \cup Ids(SubSeq(job.older, n + 1, k))
         /\ \A f \in {"cp", "basis", "older", "told", "how", "pass"} : Fitted(n, i, k)[f] = job[f]
         /\ Known(hist, Ids(SubSeq(job.older, i, n)), clock)
<1> DEFINE o == job.older
<1>1. /\ job \in JobRec /\ o \in Seq(RowRec) /\ job.lost \in SUBSET Nat
      /\ Known(hist, Ids(o), clock)
  BY JobFacts, OlderFacts DEF JobOK
<1>2. n \in 0..Len(o) /\ i \in 1..(Len(o) + 1) /\ k \in 0..Len(o) /\ Len(o) \in Nat
  BY <1>1, RowFacts
<1> DEFINE a == SubSeq(o, i, n)
           b == SubSeq(o, n + 1, k)
<1> HIDE DEF o
<1>3. n + 1 \in 1..(Len(o) + 1)
  BY <1>2
<1>4. \A m \in DOMAIN o : o[m].id \in Nat
  BY <1>1, RowFacts
<1>5. Ids(a) \subseteq Ids(o) /\ Ids(a) \in SUBSET Nat
  <2>1. \A x \in Ids(a) : \E m \in DOMAIN o : o[m].id = x
    BY <1>1, <1>2, PartIds
  <2> HIDE DEF a
  <2> QED BY <1>4, <2>1, IdsFacts
<1>6. Ids(b) \in SUBSET Nat
  <2>1. \A x \in Ids(b) : \E m \in DOMAIN o : o[m].id = x
    BY <1>1, <1>2, <1>3, PartIds
  <2> HIDE DEF b
  <2> QED BY <1>4, <2>1
<1> HIDE DEF a, b
<1>7. Fitted(n, i, k) = [job EXCEPT !.reads = Ids(a), !.lost = job.lost \cup Ids(b)]
  BY DEF Fitted, a, b, o
<1>8. Known(hist, Ids(a), clock)
  BY <1>1, <1>5 DEF Known
<1> QED BY <1>1, <1>5, <1>6, <1>7, <1>8 DEF JobRec, a, b, o

LEMMA TwoPassesKeeps ==
  ASSUME ContextInv, TwoPasses
  PROVE  ContextInv'
<1> DEFINE o == job.older
           M == Middle(o)
<1>1. /\ stage = "summary" /\ job.how = "standalone" /\ job.pass = "whole"
      /\ UNCHANGED <<rowVars, runVars, compacting>>
  BY DEF TwoPasses
<1>2. PICK n \in 0..M : job' = [Fitted(n, 1, M) EXCEPT !.pass = "first"]
  BY DEF TwoPasses
<1>3. job \in JobRec /\ JobOK(hist, cps, job, clock) /\ o \in Seq(RowRec)
  BY <1>1, JobFacts, OlderFacts
<1>4. /\ Len(o) \in Nat /\ DOMAIN o = 1..Len(o) /\ Len(o) >= 1 /\ M \in 0..(Len(o) - 1)
  <2>1. o # <<>> /\ Len(o) \in Nat /\ DOMAIN o = 1..Len(o)
    BY <1>3, RowFacts DEF JobOK
  <2>2. Len(o) >= 1
    BY <1>3, <2>1
  <2> QED BY <1>3, <2>1, <2>2, MiddleFacts
<1> HIDE DEF M, o
<1>5. /\ n \in 0..Len(o) /\ 1 \in 1..(Len(o) + 1) /\ M \in 0..Len(o) /\ n + 1 \in 1..(Len(o) + 1)
      /\ M + 1 \in 1..(Len(o) + 1) /\ Len(o) \in 0..Len(o)
  BY <1>4
<1> DEFINE f == Fitted(n, 1, M)
           j == [f EXCEPT !.pass = "first"]
<1>6. /\ f \in JobRec /\ f.reads = Ids(SubSeq(o, 1, n))
      /\ f.lost = job.lost \cup Ids(SubSeq(o, n + 1, M))
      /\ f.cp = job.cp /\ f.basis = job.basis /\ f.older = o /\ f.told = job.told
      /\ f.how = job.how
      /\ Known(hist, Ids(SubSeq(o, 1, n)), clock)
  BY <1>1, <1>5, FittedFacts DEF o
<1> HIDE DEF f
<1>7. /\ j \in JobRec /\ j.cp = job.cp /\ j.told = job.told /\ j.basis = job.basis
      /\ j.older = o /\ j.how = job.how /\ j.pass = "first"
      /\ j.reads = f.reads /\ j.lost = f.lost
  BY <1>6 DEF JobRec
<1>8. job' = j
  BY <1>2 DEF f
<1> HIDE DEF j
<1>9. Carried(job) \subseteq Carried(j) /\ job.told \cup job.lost \subseteq j.told \cup j.lost
  <2>1. job.reads = Ids(o) /\ Carried(job) = job.basis \cup Ids(o) \cup job.lost
    BY <1>1, <1>3 DEF JobOK, Carried, Unread, o
  <2>2. Carried(j) = job.basis \cup Ids(SubSeq(o, 1, n)) \cup job.lost
                       \cup Ids(SubSeq(o, n + 1, M)) \cup Ids(SubSeq(o, M + 1, Len(o)))
    BY <1>6, <1>7 DEF Carried, Unread, M
  <2>3. ASSUME NEW x \in Ids(o)
        PROVE  \/ x \in Ids(SubSeq(o, 1, n)) \/ x \in Ids(SubSeq(o, n + 1, M))
               \/ x \in Ids(SubSeq(o, M + 1, Len(o)))
    <3>1. PICK m \in DOMAIN o : o[m].id = x
      BY IdsFacts
    <3>2. m \in Nat /\ 1 <= m /\ m <= Len(o) /\ n \in Nat /\ M \in Nat
      BY <1>4, <1>5
    <3>3. CASE m <= n
      BY <1>3, <1>5, <3>1, <3>2, <3>3, PartIds
    <3>4. CASE n + 1 <= m /\ m <= M
      BY <1>3, <1>5, <3>1, <3>4, PartIds
    <3>5. CASE M + 1 <= m
      BY <1>3, <1>5, <3>1, <3>2, <3>5, PartIds
    <3> QED BY <3>2, <3>3, <3>4, <3>5
  <2> QED BY <1>6, <1>7, <2>1, <2>2, <2>3
<1>10. JobOK(hist, cps, j, clock)
  BY <1>1, <1>3, <1>6, <1>7, <1>9 DEF JobOK, Covers, o
<1> QED BY <1>1, <1>7, <1>8, <1>10, JobKeeps

LEMMA FirstPassKeeps ==
  ASSUME ContextInv, FirstPassDone
  PROVE  ContextInv'
<1> DEFINE o == job.older
           M == Middle(o)
           L == Len(o)
<1>1. /\ stage = "summary" /\ job.pass = "first" /\ job.how = "standalone"
      /\ UNCHANGED <<rowVars, runVars, compacting>>
  BY DEF FirstPassDone
<1>2. PICK n \in M..L :
        job' = [Fitted(n, M + 1, L) EXCEPT !.pass = "second", !.basis = Told, !.drafts = 0]
  BY DEF FirstPassDone
<1>3. job \in JobRec /\ JobOK(hist, cps, job, clock) /\ o \in Seq(RowRec)
  BY <1>1, JobFacts, OlderFacts
<1>4. /\ L \in Nat /\ DOMAIN o = 1..L /\ L >= 1 /\ M \in 0..(L - 1)
  <2>1. o # <<>> /\ L \in Nat /\ DOMAIN o = 1..L
    BY <1>3, RowFacts DEF JobOK
  <2>2. L >= 1
    BY <1>3, <2>1
  <2> QED BY <1>3, <2>1, <2>2, MiddleFacts
<1> HIDE DEF M, o
<1>5. /\ n \in 0..Len(o) /\ L \in 0..Len(o) /\ n + 1 \in 1..(Len(o) + 1)
      /\ M + 1 \in 1..(Len(o) + 1)
  BY <1>4
<1> DEFINE f == Fitted(n, M + 1, L)
           j == [f EXCEPT !.pass = "second", !.basis = Told, !.drafts = 0]
<1>6. /\ f \in JobRec /\ f.reads = Ids(SubSeq(o, M + 1, n))
      /\ f.lost = job.lost \cup Ids(SubSeq(o, n + 1, L))
      /\ f.cp = job.cp /\ f.older = o /\ f.told = job.told /\ f.how = job.how
      /\ Known(hist, Ids(SubSeq(o, M + 1, n)), clock)
  BY <1>1, <1>5, FittedFacts DEF o
<1>7. Told \in SUBSET Nat /\ Known(hist, Told, clock) /\ Told = job.basis \cup job.reads
  <2>1. Told = job.basis \cup job.reads
    BY <1>1 DEF Told
  <2> QED BY <1>1, <2>1, ToldFacts
<1> HIDE DEF f, L
<1>8. /\ j \in JobRec /\ j.cp = job.cp /\ j.told = job.told /\ j.basis = Told
      /\ j.older = o /\ j.how = job.how /\ j.pass = "second"
      /\ j.reads = f.reads /\ j.lost = f.lost
  BY <1>6, <1>7 DEF JobRec
<1>9. job' = j
  BY <1>2 DEF f
<1> HIDE DEF j
<1>10. Carried(job) \subseteq Carried(j) /\ job.told \cup job.lost \subseteq j.told \cup j.lost
  <2>1. Carried(job) = job.basis \cup job.reads \cup job.lost \cup Ids(SubSeq(o, M + 1, L))
    BY <1>1 DEF Carried, Unread, M, L, o
  <2>2. Carried(j) = job.basis \cup job.reads \cup Ids(SubSeq(o, M + 1, n)) \cup job.lost
                       \cup Ids(SubSeq(o, n + 1, L))
    BY <1>6, <1>7, <1>8 DEF Carried, Unread
  <2>3. ASSUME NEW x \in Ids(SubSeq(o, M + 1, L))
        PROVE  x \in Ids(SubSeq(o, M + 1, n)) \/ x \in Ids(SubSeq(o, n + 1, L))
    <3>1. PICK m \in DOMAIN o : M + 1 <= m /\ m <= L /\ o[m].id = x
      BY <1>3, <1>5, PartIds
    <3>2. m \in Nat /\ n \in Nat
      BY <1>4, <1>5
    <3>3. CASE m <= n
      BY <1>3, <1>5, <3>1, <3>3, PartIds
    <3>4. CASE n + 1 <= m
      BY <1>3, <1>5, <3>1, <3>4, PartIds
    <3> QED BY <3>2, <3>3, <3>4
  <2> QED BY <1>6, <1>8, <2>1, <2>2, <2>3
<1>11. JobOK(hist, cps, j, clock)
  BY <1>1, <1>3, <1>6, <1>7, <1>8, <1>10 DEF JobOK, Covers, o
<1> QED BY <1>1, <1>8, <1>9, <1>11, JobKeeps

LEMMA DraftKeeps ==
  ASSUME ContextInv, Correct \/ FallBack
  PROVE  ContextInv'
<1>1. stage = "summary" /\ UNCHANGED <<rowVars, runVars, compacting>>
  BY DEF Correct, FallBack
<1>2. job \in JobRec /\ JobOK(hist, cps, job, clock)
  BY <1>1, JobFacts
<1>3. CASE Correct
  <2> DEFINE j == [job EXCEPT !.drafts = 1]
  <2>1. /\ j \in JobRec /\ j.cp = job.cp /\ j.told = job.told /\ j.basis = job.basis
        /\ j.older = job.older /\ j.how = job.how /\ j.pass = job.pass /\ job' = j
        /\ j.reads = job.reads /\ j.lost = job.lost
    BY <1>2, <1>3 DEF JobRec, Correct
  <2> HIDE DEF j
  <2>2. JobOK(hist, cps, j, clock)
    BY <1>2, <2>1 DEF JobOK, Carried, Unread
  <2> QED BY <1>1, <2>1, <2>2, JobKeeps
<1>4. CASE FallBack
  <2> DEFINE j == [job EXCEPT !.how = "standalone", !.drafts = 0]
  <2>1. /\ j \in JobRec /\ j.cp = job.cp /\ j.told = job.told /\ j.basis = job.basis
        /\ j.older = job.older /\ j.how = "standalone" /\ j.pass = job.pass /\ job' = j
        /\ j.reads = job.reads /\ j.lost = job.lost
    BY <1>2, <1>4 DEF JobRec, FallBack
  <2> HIDE DEF j
  <2>2. JobOK(hist, cps, j, clock)
    BY <1>2, <2>1 DEF JobOK, Carried, Unread
  <2> QED BY <1>1, <2>1, <2>2, JobKeeps
<1> QED BY <1>3, <1>4

\* the compaction ends and marks its checkpoint
LEMMA MarkKeeps ==
  ASSUME ContextInv, stage = "summary", NEW status \in {"complete", "failed"},
         NEW S \in SUBSET Nat, NEW gone \in SUBSET Nat, cps' = Mark(job.cp, status, S, gone),
         UNCHANGED <<hist, clock, want, tell>>,
         stage' \in {"idle", "step"}, compacting' = FALSE, job' = NoJob,
         status = "complete" =>
           /\ Known(hist, S, clock)
           /\ \A p \in cps : p.id = job.cp => Covers(hist, p.through, S \cup gone)
  PROVE  ContextInv'
<1>1. /\ job \in JobRec /\ JobOK(hist, cps, job, clock) /\ hist \in Seq(RowRec)
      /\ cps \in SUBSET CpRec /\ clock \in Nat
      /\ Ordered(hist, clock) /\ CheckpointsOK(hist, cps, clock)
  BY JobFacts
<1>2. PICK p \in cps : p.id = job.cp /\ \A d \in Done(cps) : d.through < p.through
  BY <1>1 DEF JobOK
<1>3. p.id = clock /\ p \in CpRec /\ CheckpointOK(hist, p)
  BY <1>1, <1>2 DEF JobOK, CheckpointsOK
<1> DEFINE z == [p EXCEPT !.status = status, !.covers = S, !.lost = gone]
<1>4. /\ z \in CpRec /\ z.id = p.id /\ z.through = p.through /\ z.aged = p.aged
      /\ z.status = status /\ z.covers = S /\ z.lost = gone
  BY <1>3 DEF CpRec, Statuses
<1>5. cps' = (cps \ {p}) \cup {z}
  <2>1. \A c \in cps : c.id = job.cp <=> c = p
    BY <1>1, <1>2 DEF CheckpointsOK
  <2> QED BY <1>2, <2>1 DEF Mark
<1> HIDE DEF z
<1>6. CheckpointOK(hist, z)
  BY <1>2, <1>3, <1>4 DEF CheckpointOK
<1>7. ContextTypes'
  <2>1. NoJob \in JobRec
    BY DEF NoJob, JobRec
  <2> QED BY <2>1, <1>1, <1>4, <1>5 DEF ContextInv, ContextTypes
<1>8. Bounded' /\ Ordered(hist', clock')
  BY <1>1 DEF ContextInv, Bounded
<1>9. CheckpointsOK(hist', cps', clock')
  <2>1. \A c \in cps' : CheckpointOK(hist, c) /\ c.id <= clock
    BY <1>1, <1>3, <1>4, <1>5, <1>6 DEF CheckpointsOK
  <2>2. \A c, d \in cps' : c.id = d.id => c = d
    BY <1>1, <1>2, <1>4, <1>5 DEF CheckpointsOK
  <2>3. ASSUME NEW c \in Done(cps'), NEW d \in Done(cps'), d.id < c.id
        PROVE  d.through < c.through
    <3>1. c.id \in Nat /\ d.id \in Nat /\ c.id <= clock /\ d.id <= clock
      BY <2>1, <2>3, <1>1, <1>4, <1>5 DEF Done, CpRec
    <3>2. d # z
      BY <2>3, <3>1, <1>1, <1>3, <1>4
    <3>3. d \in Done(cps)
      BY <2>3, <3>2, <1>5 DEF Done
    <3>4. CASE c = z
      BY <3>3, <3>4, <1>2, <1>4
    <3>5. CASE c # z
      <4>1. c \in Done(cps)
        BY <2>3, <3>5, <1>5 DEF Done
      <4> QED BY <2>3, <3>3, <4>1, <1>1 DEF CheckpointsOK
    <3> QED BY <3>4, <3>5
  <2> QED BY <2>1, <2>2, <2>3 DEF CheckpointsOK
<1>10. JobInv' /\ AskInv'
  BY DEF JobInv, AskInv
<1> QED BY <1>7, <1>8, <1>9, <1>10 DEF ContextInv, CheckpointInv

LEMMA CommitKeeps ==
  ASSUME ContextInv, Commit
  PROVE  ContextInv'
<1>1. /\ stage = "summary" /\ (job.pass # "first" \/ job.how = "inline")
      /\ cps' = Mark(job.cp, "complete", Told, job.lost) /\ stage' = Leave(job.manual)
      /\ compacting' = FALSE /\ job' = NoJob /\ UNCHANGED <<hist, clock, want, tell>>
  BY DEF Commit
<1>2. stage' \in {"idle", "step"}
  BY <1>1 DEF Leave
<1>3. /\ Told \in SUBSET Nat /\ Known(hist, Told, clock)
      /\ \A p \in cps : p.id = job.cp => Covers(hist, p.through, Told \cup job.lost)
      /\ job.lost \in SUBSET Nat
  BY <1>1, ToldFacts, JobFacts, OlderFacts
<1> QED BY <1>1, <1>2, <1>3, MarkKeeps

LEMMA AbandonKeeps ==
  ASSUME ContextInv, Abandon
  PROVE  ContextInv'
<1>1. /\ stage = "summary" /\ cps' = Mark(job.cp, "failed", {}, {})
      /\ compacting' = FALSE /\ job' = NoJob /\ UNCHANGED <<hist, clock, want, tell>>
  BY DEF Abandon
<1>2. stage' \in {"idle", "step"}
  BY DEF Abandon, Leave
<1>3. {} \in SUBSET Nat
  OBVIOUS
<1> QED BY <1>1, <1>2, <1>3, MarkKeeps

\* what is left of the checkpoints after a crash and the sweeps
LEMMA CrashKeeps ==
  ASSUME ContextInv, Crash
  PROVE  ContextInv'
<1>1. /\ hist \in Seq(RowRec) /\ cps \in SUBSET CpRec /\ clock \in Nat
      /\ Ordered(hist, clock) /\ CheckpointsOK(hist, cps, clock)
  BY DEF ContextInv, ContextTypes, CheckpointInv
<1>2. /\ stage' = "idle" /\ want' = <<>> /\ compacting' = FALSE /\ job' = NoJob
      /\ tell' = NoStatus /\ hist' = hist /\ clock' = clock
  BY DEF Crash
<1> DEFINE Swept(c) == IF c.status = "complete" /\ c # Latest THEN [c EXCEPT !.aged = {}] ELSE c
<1>3. PICK swept \in SUBSET cps : cps' = {Swept(c) : c \in cps \ swept}
  BY DEF Crash
<1>4. ASSUME NEW c \in CpRec
      PROVE  /\ Swept(c) \in CpRec /\ Swept(c).id = c.id /\ Swept(c).through = c.through
             /\ Swept(c).status = c.status /\ Swept(c).covers = c.covers
             /\ Swept(c).lost = c.lost
             /\ Swept(c).aged = c.aged \/ Swept(c).aged = {}
  BY DEF CpRec
<1> HIDE DEF Swept
<1>5. ASSUME NEW d \in cps'
      PROVE  \E c \in cps : /\ d = Swept(c) /\ c \in CpRec /\ d \in CpRec
                            /\ d.id = c.id /\ d.through = c.through /\ d.status = c.status
                            /\ CheckpointOK(hist, d) /\ d.id <= clock
  <2>1. PICK c \in cps : d = Swept(c)
    BY <1>3
  <2>2. c \in CpRec /\ CheckpointOK(hist, c) /\ c.id <= clock
    BY <1>1 DEF CheckpointsOK
  <2>3. CheckpointOK(hist, d)
    <3>1. /\ d.id = c.id /\ d.through = c.through /\ d.status = c.status
          /\ d.covers = c.covers /\ d.lost = c.lost /\ (d.aged = c.aged \/ d.aged = {})
      BY <2>1, <2>2, <1>4
    <3>2. Known(hist, {}, d.id)
      BY DEF Known
    <3>3. Known(hist, d.aged, d.id)
      <4>1. Known(hist, c.aged, d.id)
        BY <2>2, <3>1 DEF CheckpointOK
      <4> QED BY <3>1, <3>2, <4>1
    <3> QED BY <2>2, <3>1, <3>3 DEF CheckpointOK
  <2> QED BY <2>1, <2>2, <2>3, <1>4
<1>6. CheckpointsOK(hist, cps', clock)
  <2>1. ASSUME NEW d \in cps', NEW e \in cps' PROVE d.id = e.id => d = e
    BY <1>1, <1>5 DEF CheckpointsOK
  <2>2. ASSUME NEW d \in Done(cps'), NEW e \in Done(cps') PROVE e.id < d.id => e.through < d.through
    <3>1. d \in cps' /\ e \in cps' /\ d.status = "complete" /\ e.status = "complete"
      BY DEF Done
    <3>2. PICK c \in cps : d.id = c.id /\ d.through = c.through /\ d.status = c.status
      BY <3>1, <1>5
    <3>3. PICK b \in cps : e.id = b.id /\ e.through = b.through /\ e.status = b.status
      BY <3>1, <1>5
    <3> QED BY <3>1, <3>2, <3>3, <1>1 DEF CheckpointsOK, Done
  <2> QED BY <2>1, <2>2, <1>5 DEF CheckpointsOK
<1>7. ContextTypes'
  <2>1. NoJob \in JobRec /\ <<>> \in Seq(CallIds) /\ NoStatus \in Updates
    BY EmptySeq DEF NoJob, JobRec, Updates
  <2> QED BY <2>1, <1>1, <1>2, <1>5 DEF ContextTypes
<1>8. Bounded' /\ JobInv' /\ AskInv'
  BY <1>2 DEF ContextInv, Bounded, JobInv, AskInv
<1> QED BY <1>1, <1>2, <1>6, <1>7, <1>8 DEF ContextInv, CheckpointInv

\* steps that leave the store alone and no compaction at work
LEMMA QuietKeeps ==
  ASSUME ContextInv, UNCHANGED rowVars, want' \in Seq(CallIds), tell' \in Updates,
         job' \in JobRec, compacting' \in BOOLEAN, stage' \in {"idle", "step", "sent"}
  PROVE  ContextInv'
<1>1. UNCHANGED <<hist, cps, clock>>
  BY DEF rowVars
<1> QED BY <1>1 DEF ContextInv, ContextTypes, Bounded, CheckpointInv, JobInv, AskInv

LEMMA SilentKeeps ==
  ASSUME ContextInv, Send \/ NoAnswer \/ BatchDone \/ StoreThrows
  PROVE  ContextInv'
<1>1. want \in Seq(CallIds) /\ tell \in Updates /\ job \in JobRec /\ compacting \in BOOLEAN
  BY DEF ContextInv, ContextTypes
<1>2. CASE Send
  <2>1. tell' \in Updates
    <3>1. PICK now \in {"calm", "tight"} : tell' = StatusUpdate(ContextRows, now)
      BY <1>2 DEF Send
    <3> QED BY <3>1 DEF StatusUpdate, Updates
  <2>2. stage' = "sent" /\ UNCHANGED <<rowVars, want, job, compacting>>
    BY <1>2 DEF Send, compVars
  <2> QED BY <1>1, <2>1, <2>2, QuietKeeps
<1>3. CASE NoAnswer
  <2>1. tell' \in Updates /\ stage' = "idle" /\ UNCHANGED <<rowVars, want, job, compacting>>
    BY <1>3 DEF NoAnswer, Settled, compVars, Updates
  <2> QED BY <1>1, <2>1, QuietKeeps
<1>4. CASE BatchDone
  <2>1. stage' \in {"step", "idle"} /\ UNCHANGED <<rowVars, want, tell, job, compacting>>
    BY <1>4 DEF BatchDone, compVars
  <2> QED BY <1>1, <2>1, QuietKeeps
<1>5. CASE StoreThrows
  <2>1. NoJob \in JobRec
    BY DEF NoJob, JobRec
  <2>2. stage' = "idle" /\ job' = NoJob /\ UNCHANGED <<rowVars, want, tell, compacting>>
    BY <1>5 DEF StoreThrows
  <2> QED BY <1>1, <2>1, <2>2, QuietKeeps
<1> QED BY <1>2, <1>3, <1>4, <1>5

\* the four places where a row is stored
LEMMA NoCallIsCall == NoCall \in CallIds
BY DEF CallIds

LEMMA RowsStored ==
  ASSUME ContextInv,
         SubmitPrompt \/ (\E calls \in Batches : Answer(calls)) \/ ToolResult \/ Placeholder
  PROVE  ContextInv'
<1>1. want \in Seq(CallIds) /\ tell \in Updates /\ clock \in Nat /\ NoCall \in CallIds
      /\ NoStatus \in Updates
  BY NoCallIsCall DEF ContextInv, ContextTypes, Updates
<1>2. Row \in RowRec
  <2>1. <<>> \in Seq(CallIds)
    BY EmptySeq
  <2> QED BY <2>1, <1>1 DEF Row, RowRec
<1>3. CASE SubmitPrompt
  <2>1. PICK pic \in Pictures : Append1([Row EXCEPT !.pic = pic])
    BY <1>3 DEF SubmitPrompt
  <2>2. [Row EXCEPT !.pic = pic] \in RowRec /\ [Row EXCEPT !.pic = pic].kind = "prompt"
    <3>1. pic \in BOOLEAN
      BY Assumed
    <3> QED BY <3>1, <1>2 DEF RowRec, Row
  <2>3. stage' = "step" /\ UNCHANGED <<want, tell, compVars>>
    BY <1>3 DEF SubmitPrompt
  <2> QED BY <1>1, <2>1, <2>2, <2>3, StoreKeeps
<1>4. CASE \E calls \in Batches : Answer(calls)
  <2>1. PICK calls \in Batches : Answer(calls)
    BY <1>4
  <2> DEFINE x == [Row EXCEPT !.kind = "assistant", !.calls = calls, !.status = tell]
  <2>2. calls \in Seq(CallIds)
    BY Assumed
  <2>3. x \in RowRec /\ x.kind = "assistant"
    BY <1>1, <1>2, <2>2 DEF RowRec, Row
  <2>4. /\ Append1(x) /\ (want' = calls \/ want' = <<>>) /\ stage' \in {"idle", "batch"}
        /\ tell' = NoStatus /\ UNCHANGED compVars
    BY <2>1 DEF Answer, Settled
  <2>5. want' \in Seq(CallIds)
    BY <2>2, <2>4, EmptySeq
  <2> QED BY <1>1, <2>3, <2>4, <2>5, StoreKeeps
<1>5. CASE ToolResult
  <2> DEFINE x == [Row EXCEPT !.kind = "result", !.call = Head(want), !.said = clock + 1]
  <2>1. /\ want # <<>> /\ Append1(x) /\ want' = Tail(want) /\ stage' = "batch"
        /\ UNCHANGED <<tell, compVars>>
    BY <1>5 DEF ToolResult
  <2>2. Head(want) \in CallIds /\ want' \in Seq(CallIds) /\ clock + 1 \in Nat /\ clock + 1 # 0
    BY <1>1, <2>1, HeadTailProperties
  <2>3. x \in RowRec /\ x.said = clock + 1
    BY <1>2, <2>2 DEF RowRec, Row
  <2> QED BY <1>1, <2>1, <2>2, <2>3, StoreKeeps
<1>6. CASE Placeholder
  <2> DEFINE x == [Row EXCEPT !.kind = "result", !.call = Head(want)]
  <2>1. /\ want # <<>> /\ Append1(x) /\ stage' = "batch" /\ UNCHANGED <<want, tell, compVars>>
    BY <1>6 DEF Placeholder, runVars
  <2>2. Head(want) \in CallIds
    BY <1>1, <2>1, HeadTailProperties
  <2>3. x \in RowRec /\ x.call = Head(want)
    BY <1>2, <2>2 DEF RowRec, Row
  <2> QED BY <1>1, <2>1, <2>2, <2>3, StoreKeeps
<1> QED BY <1>3, <1>4, <1>5, <1>6

LEMMA ContextStep == ContextInv /\ [ContextNext]_contextVars => ContextInv'
<1> SUFFICES ASSUME ContextInv, [ContextNext]_contextVars PROVE ContextInv'
  OBVIOUS
<1>1. CASE SubmitPrompt \/ (\E calls \in Batches : Answer(calls)) \/ ToolResult \/ Placeholder
  BY <1>1, RowsStored
<1>2. CASE RetryLastTurn
  BY <1>2, RetryKeeps
<1>3. CASE ReplyStored
  BY <1>3, RewriteKeeps
<1>4. CASE Send \/ NoAnswer \/ BatchDone \/ StoreThrows
  BY <1>4, SilentKeeps
<1>5. CASE AutoCompact \/ CompactNow \/ RecoverOverflow
  <2>1. \E how \in {"inline", "standalone"}, manual \in BOOLEAN : Begin(how, manual)
    BY <1>5 DEF AutoCompact, CompactNow, RecoverOverflow
  <2> QED BY <2>1, BeginKeeps
<1>6. CASE TwoPasses \/ FirstPassDone \/ Correct \/ FallBack
  BY <1>6, TwoPassesKeeps, FirstPassKeeps, DraftKeeps
<1>7. CASE Commit \/ Abandon \/ Crash
  BY <1>7, CommitKeeps, AbandonKeeps, CrashKeeps
<1>8. CASE UNCHANGED contextVars
  BY <1>8 DEF contextVars, rowVars, runVars, compVars, ContextInv, ContextTypes, Bounded,
              CheckpointInv, JobInv, AskInv, Asking
<1> QED BY <1>1, <1>2, <1>3, <1>4, <1>5, <1>6, <1>7, <1>8 DEF ContextNext

\* The inductive invariant of a session's context: rows are in the order they
\* were stored, a checkpoint stops before a row that was there when it was made,
\* completed checkpoints cover what is below them, and the compaction at work
\* carries all the rows up to its boundary but those it lists as cut off by
\* fit_serialized, through both passes, retries, failures and crashes.
THEOREM ContextInvariant == ContextSpec => []ContextInv
BY InitContext, ContextStep, PTL DEF ContextSpec

\* What the store, the runner and the compaction of a session hold stays in its
\* range: a checkpoint's boundary is a row, and a summary is asked for only by
\* the compaction that set compaction_in_progress_.
THEOREM ContextTypesHold == ContextSpec => []ContextTypeOK
<1>1. ContextInv => ContextTypeOK
  <2> SUFFICES ASSUME ContextInv PROVE ContextTypeOK
    OBVIOUS
  <2>1. \A c \in cps : c.through \in 1..Len(hist) /\ c.status \in {"pending", "complete", "failed"}
    <3>1. ASSUME NEW c \in cps
          PROVE  c.through \in 1..Len(hist) /\ c.status \in {"pending", "complete", "failed"}
      <4>1. c \in CpRec /\ CheckpointOK(hist, c)
        BY DEF ContextInv, ContextTypes, CheckpointInv, CheckpointsOK
      <4> QED BY <4>1 DEF CheckpointOK, CpRec, Statuses
    <3> QED BY <3>1
  <2>2. stage = "summary" => compacting /\ job.cp > 0
    <3> SUFFICES ASSUME stage = "summary" PROVE compacting /\ job.cp > 0
      OBVIOUS
    <3>1. compacting /\ JobOK(hist, cps, job, clock) /\ clock \in Nat /\ job.cp = clock
      BY JobFacts DEF JobOK
    <3>2. PICK p \in cps : p.id = clock
      BY <3>1 DEF JobOK
    <3>3. CheckpointOK(hist, p) /\ p.through + 1 \in DOMAIN hist /\ hist[p.through + 1].id \in 1..clock
      BY JobFacts DEF CheckpointsOK, CheckpointOK, Ordered
    <3> QED BY <3>1, <3>3
  <2>3. Len(hist) <= HistoryBound /\ clock \in 0..ClockBound
    BY Assumed DEF ContextInv, Bounded, ContextTypes
  <2> QED BY <2>1, <2>2, <2>3 DEF ContextInv, ContextTypes, ContextTypeOK, Updates
<1> QED BY <1>1, ContextInvariant, PTL

\* The summary in use tells of every stored row up to its boundary, those excepted
\* that fit_serialized cut out of a two-pass prompt, and of no row that is gone; a
\* boundary splits no exchange and leaves one in context, and of two completed
\* checkpoints the later one reaches further, whatever was interrupted, failed,
\* retried or crashed (compact_history, delete_messages_after,
\* latest_complete_checkpoint), for every budget and every length of a session.
THEOREM SummaryTrueHolds == ContextSpec => []SummaryTrue
<1>1. ContextInv => SummaryTrue
  <2> SUFFICES ASSUME ContextInv PROVE SummaryTrue
    OBVIOUS
  <2>1. /\ hist \in Seq(RowRec) /\ cps \in SUBSET CpRec /\ clock \in Nat
        /\ CheckpointsOK(hist, cps, clock)
    BY DEF ContextInv, ContextTypes, CheckpointInv
  <2>2. Len(hist) \in Nat /\ DOMAIN hist = 1..Len(hist)
    BY <2>1, RowFacts
  <2>3. Ids(SubSeq(hist, 1, Latest.through)) \subseteq Latest.covers \cup Latest.lost
    <3> DEFINE t == Latest.through
               C == Latest.covers \cup Latest.lost
    <3>1. t \in 0..Len(hist) /\ Covers(hist, t, C)
      BY LatestFacts DEF ContextInv
    <3> HIDE DEF t, C
    <3>2. CASE t = 0
      <4>1. SubSeq(hist, 1, t) = <<>>
        BY <2>1, <3>2
      <4> DEFINE r == SubSeq(hist, 1, t)
      <4> HIDE DEF r
      <4>2. r = <<>>
        BY <4>1 DEF r
      <4>3. Ids(r) = {}
        BY <4>2, IdsFacts
      <4> QED BY <4>3 DEF r, t, C
    <3>3. CASE t # 0
      <4> DEFINE r == SubSeq(hist, 1, t)
      <4>1. t \in 1..Len(hist)
        BY <2>2, <3>1, <3>3
      <4>2. DOMAIN r = 1..t /\ \A i \in 1..t : i \in DOMAIN hist /\ r[i] = hist[i]
        BY <2>1, <4>1, CutRows
      <4> HIDE DEF r
      <4>3. \A i \in DOMAIN r : r[i].id \in C
        BY <2>2, <3>1, <4>1, <4>2 DEF Covers
      <4>4. Ids(r) \subseteq C
        BY <4>3, IdsFacts
      <4> QED BY <4>4 DEF r, t, C
    <3> QED BY <3>2, <3>3
  <2>4. ASSUME NEW c \in Complete
        PROVE  /\ c.covers \subseteq Ids(hist) /\ c.through < Len(hist)
               /\ hist[c.through + 1].kind # "result"
               /\ \A d \in Complete : d.id < c.id => d.through < c.through
    <3>1. c \in cps /\ c.status = "complete" /\ c \in Done(cps) /\ Complete = Done(cps)
      BY DEF Complete, Done
    <3>2. CheckpointOK(hist, c)
      BY <2>1, <3>1 DEF CheckpointsOK
    <3>3. Known(hist, c.covers, c.id) /\ c.through + 1 \in DOMAIN hist /\ c.through \in 1..Len(hist)
          /\ hist[c.through + 1].kind # "result"
      BY <3>1, <3>2 DEF CheckpointOK
    <3>4. c.covers \subseteq Ids(hist)
      BY <3>3, IdsFacts DEF Known
    <3>5. c.through < Len(hist)
      BY <2>2, <3>3
    <3>6. \A d \in Complete : d.id < c.id => d.through < c.through
      BY <2>1, <3>1 DEF CheckpointsOK
    <3> QED BY <3>3, <3>4, <3>5, <3>6
  <2> QED BY <2>3, <2>4 DEF SummaryTrue
<1> QED BY <1>1, ContextInvariant, PTL
=============================================================================
