---------------------------- MODULE ToolsProofs ----------------------------
(***************************************************************************)
(* Proofs about what the tools do to the machine, for every project, every *)
(* number of workers and every text: ProjectFiles (the files) and          *)
(* Subprocess (the commands).                                              *)
(***************************************************************************)
EXTENDS ProjectFiles, Subprocess, SequenceTheorems, WellFoundedInduction, TLAPS

(***************************************************************************)
(* Flattening a sequence of sequences, by the least place where a claim    *)
(* about it would fail.                                                    *)
(***************************************************************************)
LEMMA LeastNat ==
  ASSUME NEW T, T \subseteq Nat, T # {}
  PROVE  \E m \in T : \A k \in T : m <= k
<1> DEFINE R == OpToRel(<, Nat)
<1>1. IsWellFoundedOn(R, Nat)
  BY NatLessThanWellFounded
<1>2. \A x, y \in Nat : x < y => <<x, y>> \in R
  BY DEF OpToRel
<1> HIDE DEF R
<1>3. PICK m \in T : \A k \in T : ~(<<k, m>> \in R)
  BY <1>1, WFMin
<1>4. ASSUME NEW k \in T PROVE m <= k
  <2>1. m \in Nat /\ k \in Nat
    OBVIOUS
  <2>2. ~(k < m)
    BY <1>2, <1>3, <2>1
  <2> QED BY <2>1, <2>2
<1> QED BY <1>4

LEMMA GreatestIn ==
  ASSUME NEW n \in Nat, NEW T, T \subseteq 0..n, T # {} PROVE Max(T) \in T
<1> DEFINE D == {n - i : i \in T}
<1>0. \A i \in T : n - i \in D
  OBVIOUS
<1>1. D \subseteq Nat /\ D # {}
  <2>1. \A i \in T : i \in Nat /\ n - i \in Nat
    OBVIOUS
  <2>2. D # {}
    <3> HIDE DEF D
    <3> QED BY <1>0
  <2> QED BY <2>1, <2>2
<1>a. \A d \in D : \E m \in T : d = n - m
  OBVIOUS
<1> HIDE DEF D
<1>2. PICK d \in D : \A k \in D : d <= k
  BY <1>1, LeastNat
<1>3. PICK m \in T : d = n - m
  BY <1>a
<1>4. ASSUME NEW i \in T PROVE m >= i
  <2>1. n - i \in D
    BY <1>0
  <2>2. n - m <= n - i
    BY <1>2, <1>3, <2>1
  <2>3. m \in Nat /\ i \in Nat
    OBVIOUS
  <2> QED BY <2>2, <2>3
<1> QED BY <1>4 DEF Max

LEMMA JoinTwo == ASSUME NEW a, NEW b PROVE <<a>> \o <<b>> = <<a, b>>
<1>1. <<a>> \in Seq({a, b}) /\ <<b>> \in Seq({a, b}) /\ <<a, b>> \in Seq({a, b})
  OBVIOUS
<1>2. Len(<<a>> \o <<b>>) = 2 /\ (<<a>> \o <<b>>)[1] = a /\ (<<a>> \o <<b>>)[2] = b
  BY <1>1
<1>3. <<a>> \o <<b>> \in Seq({a, b}) /\ Len(<<a, b>>) = 2
  BY <1>1
<1>4. \A i \in 1..2 : (<<a>> \o <<b>>)[i] = <<a, b>>[i]
  BY <1>2
<1> QED BY <1>1, <1>2, <1>3, <1>4, SeqEqual

\* flatten as a function of the number of sequences
Flattens(f, s, n) == f = [i \in 1..n |-> IF i = 1 THEN s[i] ELSE f[i-1] \o s[i]]

LEMMA FlattenExists ==
  ASSUME NEW S, NEW s \in Seq(Seq(S)), NEW n \in 1..Len(s)
  PROVE  \E f \in [1..n -> Seq(S)] : Flattens(f, s, n)
<1> DEFINE Bad == {k \in 1..Len(s) : ~\E f \in [1..k -> Seq(S)] : Flattens(f, s, k)}
<1>0. Len(s) \in Nat /\ \A i \in 1..Len(s) : s[i] \in Seq(S)
  OBVIOUS
<1>1. SUFFICES ASSUME Bad # {} PROVE FALSE
  OBVIOUS
<1>2. Bad \subseteq Nat
  OBVIOUS
<1>3. PICK m \in Bad : \A k \in Bad : m <= k
  <2> HIDE DEF Bad
  <2> QED BY <1>1, <1>2, LeastNat
<1>4. m \in 1..Len(s) /\ m \in Nat /\ ~\E f \in [1..m -> Seq(S)] : Flattens(f, s, m)
  OBVIOUS
<1>5. CASE m = 1
  <2>1. PICK f : f = [i \in 1..1 |-> s[i]]
    OBVIOUS
  <2>2. f \in [1..1 -> Seq(S)] /\ Flattens(f, s, 1)
    BY <1>0, <1>4, <2>1 DEF Flattens
  <2> QED BY <1>4, <1>5, <2>2
<1>6. CASE m # 1
  <2>0. m - 1 \in 1..Len(s) /\ ~(m <= m - 1)
    BY <1>0, <1>4, <1>6
  <2>1. m - 1 \notin Bad
    BY <1>3, <2>0
  <2>2. PICK g \in [1..(m-1) -> Seq(S)] : Flattens(g, s, m - 1)
    BY <2>0, <2>1
  <2>3. PICK f : f = [i \in 1..m |-> IF i = m THEN g[m-1] \o s[m] ELSE g[i]]
    OBVIOUS
  <2>a. m - 1 \in 1..(m-1) /\ s[m] \in Seq(S) /\ m \in 1..m
    BY <1>0, <1>4, <1>6, <2>0
  <2>b. \A i \in 1..m : i # m => i \in 1..(m-1) /\ f[i] = g[i]
    BY <1>4, <2>3
  <2>c. f[m] = g[m-1] \o s[m]
    BY <2>3, <2>a
  <2>d. g[m-1] \in Seq(S)
    BY <2>2, <2>a
  <2>4. /\ m - 1 \in 1..(m-1) /\ g[m-1] \in Seq(S) /\ s[m] \in Seq(S)
        /\ \A i \in 1..m : i # m => i \in 1..(m-1) /\ f[i] = g[i]
        /\ f[m] = g[m-1] \o s[m] /\ m \in 1..m
    BY <2>a, <2>b, <2>c, <2>d
  <2>5. f \in [1..m -> Seq(S)]
    <3>1. g[m-1] \o s[m] \in Seq(S)
      BY <2>4
    <3> QED BY <2>2, <2>3, <2>4, <3>1
  <2>6. ASSUME NEW i \in 1..m PROVE f[i] = IF i = 1 THEN s[i] ELSE f[i-1] \o s[i]
    <3>1. CASE i = m
      <4>0. m - 1 \in 1..m /\ m - 1 # m
        BY <1>4, <1>6
      <4>1. f[i] = g[m-1] \o s[m] /\ m - 1 \in 1..m /\ m - 1 # m
        BY <2>4, <3>1, <4>0
      <4>2. f[m-1] = g[m-1]
        BY <2>4, <4>1
      <4> QED BY <1>6, <3>1, <4>1, <4>2
    <3>2. CASE i # m
      <4>1. i \in 1..(m-1) /\ f[i] = g[i] /\ (i # 1 => i - 1 \in 1..(m-1) /\ f[i-1] = g[i-1])
        BY <1>4, <2>4, <3>2
      <4>2. g[i] = IF i = 1 THEN s[i] ELSE g[i-1] \o s[i]
        BY <2>2, <4>1 DEF Flattens
      <4> QED BY <4>1, <4>2
    <3> QED BY <3>1, <3>2
  <2>7. f = [i \in 1..m |-> IF i = 1 THEN s[i] ELSE f[i-1] \o s[i]]
    BY <2>5, <2>6
  <2> QED BY <1>4, <2>5, <2>7 DEF Flattens
<1> QED BY <1>5, <1>6

\* a function that satisfies the recursion gives sequences
LEMMA FlattenTyped ==
  ASSUME NEW S, NEW s \in Seq(Seq(S)), NEW n \in 1..Len(s), NEW f, Flattens(f, s, n)
  PROVE  \A i \in 1..n : /\ f[i] \in Seq(S)
                         /\ f[i] = IF i = 1 THEN s[i] ELSE f[i-1] \o s[i]
<1> DEFINE Bad == {i \in 1..n : f[i] \notin Seq(S)}
<1>0. n \in Nat /\ \A i \in 1..n : s[i] \in Seq(S)
  OBVIOUS
<1>1. \A i \in 1..n : f[i] = IF i = 1 THEN s[i] ELSE f[i-1] \o s[i]
  BY DEF Flattens
<1>2. ASSUME Bad # {} PROVE FALSE
  <2>1. Bad \subseteq Nat
    OBVIOUS
  <2>2. PICK m \in Bad : \A k \in Bad : m <= k
    <3> HIDE DEF Bad
    <3> QED BY <1>2, <2>1, LeastNat
  <2>3. m \in 1..n /\ m \in Nat /\ f[m] \notin Seq(S)
    OBVIOUS
  <2>4. m # 1
    BY <1>0, <1>1, <2>3
  <2>5. m - 1 \in 1..n /\ ~(m <= m - 1)
    BY <1>0, <2>3, <2>4
  <2>6. f[m-1] \in Seq(S)
    BY <2>2, <2>5
  <2>7. f[m] = f[m-1] \o s[m] /\ s[m] \in Seq(S)
    BY <1>0, <1>1, <2>3, <2>4
  <2> QED BY <2>3, <2>6, <2>7
<1> QED BY <1>1, <1>2

LEMMA FlattenIs ==
  ASSUME NEW S, NEW s \in Seq(Seq(S)), Len(s) > 0
  PROVE  \E f : Flattens(f, s, Len(s)) /\ FlattenSeq(s) = f[Len(s)]
<1> DEFINE F == CHOOSE f : f = [i \in 1..Len(s) |-> IF i = 1 THEN s[i] ELSE f[i-1] \o s[i]]
<1>1. Len(s) \in 1..Len(s)
  OBVIOUS
<1>2. \E f : Flattens(f, s, Len(s))
  BY <1>1, FlattenExists
<1>3. F = [i \in 1..Len(s) |-> IF i = 1 THEN s[i] ELSE F[i-1] \o s[i]]
  BY <1>2 DEF Flattens
<1>4. FlattenSeq(s) = F[Len(s)]
  BY DEF FlattenSeq
<1> QED BY <1>3, <1>4 DEF Flattens

LEMMA FlattenType ==
  ASSUME NEW S, NEW s \in Seq(Seq(S)) PROVE FlattenSeq(s) \in Seq(S)
<1>1. CASE Len(s) = 0
  BY <1>1 DEF FlattenSeq
<1>2. CASE Len(s) > 0
  <2>1. PICK f : Flattens(f, s, Len(s)) /\ FlattenSeq(s) = f[Len(s)]
    BY <1>2, FlattenIs
  <2>2. Len(s) \in 1..Len(s)
    BY <1>2
  <2> QED BY <2>1, <2>2, FlattenTyped
<1> QED BY <1>1, <1>2

LEMMA FlattenTwo ==
  ASSUME NEW S, NEW a \in Seq(S), NEW b \in Seq(S)
  PROVE  FlattenSeq(<<a, b>>) = a \o b
<1>1. PICK s : s = <<a, b>>
  OBVIOUS
<1>2. s \in Seq(Seq(S)) /\ Len(s) = 2 /\ s[1] = a /\ s[2] = b
  BY <1>1
<1>3. PICK f : Flattens(f, s, Len(s)) /\ FlattenSeq(s) = f[Len(s)]
  <2>1. Len(s) > 0
    BY <1>2
  <2> QED BY <1>2, <2>1, FlattenIs
<1>4. \A i \in 1..Len(s) : f[i] = IF i = 1 THEN s[i] ELSE f[i-1] \o s[i]
  BY <1>3 DEF Flattens
<1>5. f[1] = s[1] /\ f[2] = f[1] \o s[2]
  <2>1. 1 \in 1..Len(s) /\ 2 \in 1..Len(s) /\ 2 - 1 = 1 /\ 2 # 1
    BY <1>2
  <2>2. f[2] = f[2-1] \o s[2]
    BY <1>4, <2>1
  <2> QED BY <1>4, <2>1, <2>2
<1> QED BY <1>1, <1>2, <1>3, <1>5

(***************************************************************************)
(* The files.  A file holds a text that some call brought, and a plan is   *)
(* written as active by the one call that proposes it, before the file is  *)
(* there.                                                                  *)
(***************************************************************************)
Paths == DOMAIN Start \cup ToSet(Plans)
WriterRec == [phase: {"rest", "found", "asked", "temp", "filled", "flushed"},
              path: Paths \cup {""}, text: WholeTexts, bits: Nat,
              how: {"", "discarded", "implemented"}]
PlanTexts(p) == {<<st, p>> : st \in Statuses}

HasLink(p) == p \in DOMAIN Start /\ Start[p].kind = "link"
KeptBits(p) == IF p \in DOMAIN Start /\ Start[p].kind = "file" THEN Start[p].bits ELSE NewFile
Temps == {"temp", "filled", "flushed"}
\* a call that will write p
Storing(r, p) == r.phase \in {"asked"} \cup Temps /\ r.path = p
Proposing(r, p) == Storing(r, p) /\ Head(r.text) = "active"
Shadowed == Start["claude.md"].kind = "file" /\ Start["agents.md"].kind = "none"

FileTypes ==
  /\ node \in [Paths -> Nodes] /\ writer \in [Workers -> WriterRec]
  /\ plansMade \in 0..Len(Plans) /\ crashes \in 0..CrashBound
  /\ strays > 0 => crashes > 0

PathInv ==
  /\ \A p \in Paths : HasLink(p) <=> node[p].kind = "link"
  /\ \A p \in DOMAIN Start : Start[p].kind = "link" => node[p] = Start[p]
  /\ \A p \in DOMAIN Start : Start[p].kind = "file" => IsFile(p)
  /\ \A p \in Paths \ Secrets : IsFile(p) => node[p].bits = KeptBits(p)
  /\ \A p \in Secrets : IsFile(p) => node[p] = Start[p] \/ node[p].bits = OwnerOnly
  /\ Shadowed => node["agents.md"].kind = "none"

\* what a call knows of the path it will write
CallInv(r) ==
  /\ r.phase # "rest" => r.path \in Paths
  /\ r.phase = "found" => r.path \in ToSet(Plans) /\ IsFile(r.path) /\ r.how # ""
  /\ r.phase = "asked" => r.bits = IF r.path \in Secrets THEN OwnerOnly ELSE 0
  /\ r.phase \in Temps =>
       /\ r.bits = IF r.path \in Secrets THEN OwnerOnly ELSE KeptBits(r.path)
       /\ ~HasLink(r.path)
  /\ \A p \in ToSet(Plans) : Storing(r, p) =>
       r.text \in PlanTexts(p) /\ (Head(r.text) # "active" => IsFile(p))
  /\ r.phase # "rest" /\ Shadowed => r.path # "agents.md"

PlanInv ==
  /\ \A p \in ToSet(Plans) : IsFile(p) => node[p].text \in PlanTexts(p)
  /\ \A p \in retired : p \in ToSet(Plans) /\ IsFile(p) /\ Head(node[p].text) # "active"
  /\ \A i \in DOMAIN Plans : i > plansMade =>
       ~IsFile(Plans[i]) /\ \A w \in Workers : ~Storing(writer[w], Plans[i])
  /\ \A p \in ToSet(Plans), w \in Workers : Proposing(writer[w], p) =>
       ~IsFile(p) /\ \A v \in Workers : Proposing(writer[v], p) => v = w

FilesInv == FileTypes /\ PathInv /\ PlanInv /\ \A w \in Workers : CallInv(writer[w])

LEMMA PlanNames ==
  ASSUME NEW p \in ToSet(Plans)
  PROVE  /\ p \in Phrases /\ p # "active" /\ p \notin DOMAIN Start /\ p \notin Secrets
         /\ p \in Paths /\ ~HasLink(p) /\ KeptBits(p) = NewFile
         /\ \E i \in DOMAIN Plans : Plans[i] = p
<1>1. PICK i \in DOMAIN Plans : p = Plans[i]
  BY DEF ToSet
<1>2. Plans \in Seq(Phrases)
  BY FilesAssumption DEF WholeTexts
<1>3. p \in Phrases
  BY <1>1, <1>2
<1>4. p \notin DOMAIN Start /\ p # "active" /\ p \notin Secrets
  BY <1>1, FilesAssumption
<1> QED BY <1>1, <1>3, <1>4 DEF Paths, HasLink, KeptBits

LEMMA ReplacedWhole ==
  ASSUME NEW text \in WholeTexts, NEW new \in WholeTexts, NEW old
  PROVE  ReplacedIn(text, old, new) \in WholeTexts
<1> DEFINE S == Phrases
<1>1. text \in Seq(S) /\ new \in Seq(S)
  BY DEF WholeTexts
<1> HIDE DEF S
<1>2. PICK s : s = [i \in DOMAIN text |-> IF text[i] = old THEN new ELSE <<text[i]>>]
  OBVIOUS
<1>3. \A i \in 1..Len(text) : (IF text[i] = old THEN new ELSE <<text[i]>>) \in Seq(S)
  BY <1>1
<1>4. DOMAIN text = 1..Len(text) /\ Len(text) \in Nat
  BY <1>1
<1>5. s \in Seq(Seq(S))
  BY <1>2, <1>3, <1>4
<1>6. FlattenSeq(s) \in Seq(S)
  BY <1>5, FlattenType
<1> QED BY <1>2, <1>6 DEF ReplacedIn, WholeTexts, S

LEMMA PlanTextFacts ==
  ASSUME NEW p \in ToSet(Plans), NEW st \in Statuses
  PROVE  <<st, p>> \in WholeTexts /\ Head(<<st, p>>) = st /\ Last(<<st, p>>) = p
<1>0. st \in Phrases
  BY DEF Phrases
<1>1. st \in Phrases /\ p \in Phrases
  BY <1>0, PlanNames
<1>2. <<st, p>> \in Seq(Phrases)
  BY <1>1
<1>3. Last(<<st, p>>) = p
  BY DEF Last
<1> QED BY <1>2, <1>3 DEF WholeTexts

LEMMA PlanRetired ==
  ASSUME NEW p \in ToSet(Plans), NEW text \in PlanTexts(p), NEW how \in Statuses \ {"active"}
  PROVE  /\ StatusOnly(text, how) \in PlanTexts(p) /\ StatusOnly(text, how) \in WholeTexts
         /\ Head(StatusOnly(text, how)) # "active"
<1>1. PICK st \in Statuses : text = <<st, p>>
  BY DEF PlanTexts
<1>2. p # "active"
  BY PlanNames
<1>3. PICK new \in Statuses : new = (IF st = "active" THEN how ELSE st) /\ new # "active"
  OBVIOUS
<1>4. PICK s : s = [i \in DOMAIN text |-> IF text[i] = "active" THEN <<how>> ELSE <<text[i]>>]
  OBVIOUS
<1>5. s = << <<new>>, <<p>> >>
  <2>1. DOMAIN text = 1..2 /\ text[1] = st /\ text[2] = p
    BY <1>1
  <2>2. s = [i \in 1..2 |-> IF i = 1 THEN <<new>> ELSE <<p>>]
    BY <1>2, <1>3, <1>4, <2>1
  <2> QED BY <2>2
<1>6. FlattenSeq(s) = <<new, p>>
  <2>1. <<new>> \in Seq({new, p}) /\ <<p>> \in Seq({new, p})
    OBVIOUS
  <2> QED BY <1>5, <2>1, FlattenTwo, JoinTwo
<1>8. StatusOnly(text, how) = <<new, p>>
  BY <1>4, <1>6 DEF StatusOnly, ReplacedIn
<1> QED BY <1>3, <1>8, PlanTextFacts DEF PlanTexts

LEMMA LatestIsActive ==
  ASSUME LatestActive # 0
  PROVE  Plans[LatestActive] \in ToSet(Plans) /\ Active(Plans[LatestActive])
<1> DEFINE I == {i \in 1..Len(Plans) : Active(Plans[i])}
<1>0. LatestActive = IF I # {} THEN Max(I) ELSE 0
  BY DEF LatestActive, SelectLastInSeq
<1>1. Plans \in Seq(Phrases)
  BY FilesAssumption DEF WholeTexts
<1>2. Len(Plans) \in Nat /\ DOMAIN Plans = 1..Len(Plans)
  BY <1>1
<1>3. LatestActive \in I
  <2>1. I # {} /\ I \subseteq 0..Len(Plans)
    BY <1>0
  <2> QED BY <1>0, <1>2, <2>1, GreatestIn
<1> QED BY <1>2, <1>3 DEF ToSet

LEMMA TargetIsInstructions ==
  ASSUME PathInv
  PROVE  InstructionsTarget \in Instructions /\ (Shadowed => InstructionsTarget # "agents.md")
<1>1. Shadowed => ~IsFile("agents.md") /\ IsFile("claude.md")
  BY FilesAssumption DEF PathInv, Shadowed, IsFile, Instructions
<1>2. InstructionsTarget \in Instructions
  BY DEF InstructionsTarget, Instructions
<1>3. Shadowed => InstructionsTarget # "agents.md"
  BY <1>1 DEF InstructionsTarget, HasText
<1> QED BY <1>2, <1>3

LEMMA FilesStart == FilesInit => FilesInv
<1> SUFFICES ASSUME FilesInit PROVE FilesInv
  OBVIOUS
<1> USE FilesAssumption DEF FilesInit
<1>1. NoNode \in Nodes
  <2>1. <<>> \in WholeTexts
    BY DEF WholeTexts
  <2> QED BY <2>1 DEF NoNode, Nodes
<1>2. AtRest \in WriterRec
  <2>1. <<>> \in WholeTexts
    BY DEF WholeTexts
  <2> QED BY <2>1 DEF AtRest, WriterRec
<1>3. \A p \in DOMAIN Start : p \in Paths /\ node[p] = Start[p]
  BY DEF Paths
<1>4. \A p \in ToSet(Plans) : p \in Paths /\ p \notin DOMAIN Start /\ node[p] = NoNode
  BY PlanNames DEF Paths
<1>5. FileTypes
  <2>1. node \in [Paths -> Nodes]
    BY <1>1 DEF Paths
  <2>2. Len(Plans) \in Nat
    BY DEF WholeTexts
  <2> QED BY <1>2, <2>1, <2>2 DEF FileTypes
<1>6. PathInv
  <2>1. \A p \in Paths : p \in DOMAIN Start \/ p \in ToSet(Plans)
    BY DEF Paths
  <2>2. \A p \in Paths : HasLink(p) <=> node[p].kind = "link"
    BY <1>3, <1>4, <2>1 DEF HasLink, NoNode
  <2>3. \A p \in Paths : IsFile(p) => p \in DOMAIN Start /\ Start[p].kind = "file"
    BY <1>3, <1>4, <2>1 DEF IsFile, NoNode
  <2>4. \A p \in Paths \ Secrets : IsFile(p) => node[p].bits = KeptBits(p)
    BY <1>3, <2>3 DEF KeptBits
  <2>5. Shadowed => node["agents.md"].kind = "none"
    BY <1>3 DEF Shadowed, Instructions
  <2> QED BY <1>3, <2>2, <2>4, <2>5 DEF PathInv, IsFile
<1>7. \A w \in Workers : writer[w] = AtRest
  OBVIOUS
<1>8. PlanInv
  <2>1. \A p \in ToSet(Plans) : ~IsFile(p)
    BY <1>4 DEF IsFile, NoNode
  <2>2. \A w \in Workers, p \in Paths : ~Storing(writer[w], p)
    BY <1>7 DEF Storing, AtRest, Temps
  <2> QED BY <2>1, <2>2, <1>4 DEF PlanInv, Proposing, ToSet
<1>9. \A w \in Workers : CallInv(writer[w])
  BY <1>7 DEF CallInv, AtRest, Storing, Temps
<1> QED BY <1>5, <1>6, <1>8, <1>9 DEF FilesInv

\* one call takes its next step and the disk stays
LEMMA CallStep ==
  ASSUME FilesInv, NEW w \in Workers, NEW r \in WriterRec, CallInv(r),
         writer' = [writer EXCEPT ![w] = r],
         UNCHANGED <<node, strays, plansMade, crashes, retired>>,
         \A p \in ToSet(Plans) : Storing(r, p) => Storing(writer[w], p) \/ IsFile(p),
         \A p \in ToSet(Plans) : Proposing(r, p) => Proposing(writer[w], p)
  PROVE  FilesInv'
<1> USE DEF FilesInv
<1>0. /\ writer \in [Workers -> WriterRec] /\ writer' \in [Workers -> WriterRec]
      /\ writer'[w] = r /\ \A v \in Workers : v # w => writer'[v] = writer[v]
  BY DEF FileTypes
<1>1. FileTypes'
  BY <1>0 DEF FileTypes
<1>2. \A p : IsFile(p)' = IsFile(p)
  BY DEF IsFile
<1>3. PathInv'
  BY <1>2 DEF PathInv
<1>4. \A v \in Workers : CallInv(writer[v])'
  <2>1. ASSUME NEW c, CallInv(c) PROVE CallInv(c)'
    BY <1>2, <2>1 DEF CallInv
  <2>2. ASSUME NEW v \in Workers PROVE CallInv(writer[v])'
    <3>1. PICK c : c = writer'[v] /\ CallInv(c)
      BY <1>0
    <3>2. CallInv(c)'
      BY <2>1, <3>1
    <3> QED BY <3>1, <3>2
  <2> QED BY <2>2
<1>5. PlanInv'
  <2>1. \A p \in ToSet(Plans) : IsFile(p)' => node'[p].text \in PlanTexts(p)
    BY <1>2 DEF PlanInv
  <2>2. \A p \in retired' : p \in ToSet(Plans) /\ IsFile(p)' /\ Head(node'[p].text) # "active"
    BY <1>2 DEF PlanInv
  <2>3. \A p \in ToSet(Plans), v \in Workers : Storing(writer'[v], p) =>
          Storing(writer[v], p) \/ IsFile(p)
    BY <1>0
  <2>4. \A p \in ToSet(Plans), v \in Workers : Proposing(writer'[v], p) => Proposing(writer[v], p)
    BY <1>0
  <2>5. ASSUME NEW i \in DOMAIN Plans, i > plansMade
        PROVE  ~IsFile(Plans[i])' /\ \A v \in Workers : ~Storing(writer'[v], Plans[i])
    <3>1. Plans[i] \in ToSet(Plans)
      BY DEF ToSet
    <3> QED BY <1>2, <2>3, <2>5, <3>1 DEF PlanInv
  <2>6. ASSUME NEW p \in ToSet(Plans), NEW v \in Workers, Proposing(writer'[v], p)
        PROVE  ~IsFile(p)' /\ \A u \in Workers : Proposing(writer'[u], p) => u = v
    BY <1>2, <2>4, <2>6 DEF PlanInv
  <2> QED BY <2>1, <2>2, <2>5, <2>6 DEF PlanInv
<1> QED BY <1>1, <1>3, <1>4, <1>5

LEMMA AskedRecord ==
  ASSUME FilesInv, NEW w \in Workers, NEW p \in Paths, NEW text \in WholeTexts, NEW bits \in Nat,
         AsksToStore(w, p, text, bits)
  PROVE  \E r \in WriterRec : /\ writer' = [writer EXCEPT ![w] = r]
                              /\ r.phase = "asked" /\ r.path = p /\ r.text = text /\ r.bits = bits
<1>1. writer[w] \in WriterRec
  BY DEF FilesInv, FileTypes
<1>2. PICK r : r = [writer[w] EXCEPT !.phase = "asked", !.path = p, !.text = text, !.bits = bits]
  OBVIOUS
<1>3. r \in WriterRec /\ r.phase = "asked" /\ r.path = p /\ r.text = text /\ r.bits = bits
  BY <1>1, <1>2 DEF WriterRec
<1>4. writer' = [writer EXCEPT ![w] = r]
  BY <1>2 DEF AsksToStore
<1> QED BY <1>3, <1>4

LEMMA GivenPaths ==
  \A p \in Given \cup Instructions \cup Secrets :
    p \in DOMAIN Start /\ p \in Paths /\ p \notin ToSet(Plans)
<1>1. Given \cup Instructions \cup Secrets \subseteq DOMAIN Start
  BY FilesAssumption DEF Given
<1>2. \A p \in ToSet(Plans) : p \notin DOMAIN Start
  BY PlanNames
<1> QED BY <1>1, <1>2 DEF Paths

\* a call that asks to write a path that is no plan's
LEMMA AsksKeeps ==
  ASSUME FilesInv, NEW w \in Workers, NEW p \in Given \cup Instructions \cup Secrets,
         Shadowed => p # "agents.md", NEW text \in WholeTexts,
         AsksToStore(w, p, text, IF p \in Secrets THEN OwnerOnly ELSE 0),
         UNCHANGED <<node, strays, plansMade, crashes, retired>>
  PROVE  FilesInv'
<1>1. p \in Paths /\ p \notin ToSet(Plans)
  BY GivenPaths
<1>2. (IF p \in Secrets THEN OwnerOnly ELSE 0) \in Nat
  BY DEF OwnerOnly
<1>3. PICK r \in WriterRec :
        /\ writer' = [writer EXCEPT ![w] = r]
        /\ r.phase = "asked" /\ r.path = p /\ r.text = text
        /\ r.bits = IF p \in Secrets THEN OwnerOnly ELSE 0
  BY <1>1, <1>2, AskedRecord
<1>4. \A q \in ToSet(Plans) : ~Storing(r, q)
  BY <1>1, <1>3 DEF Storing
<1>5. CallInv(r)
  BY <1>1, <1>3, <1>4 DEF CallInv, Temps
<1> QED BY <1>3, <1>4, <1>5, CallStep DEF Proposing

LEMMA WriteActions ==
  ASSUME FilesInv, NEW w \in Workers,
         WritesFile(w) \/ EditsFile(w) \/ WritesInstructions(w) \/ SavesDocument(w)
  PROVE  FilesInv'
<1> USE FilesAssumption
<1>0. \A p \in Given : p \notin Secrets /\ p # "agents.md"
  BY DEF Given, Instructions
<1>1. CASE WritesFile(w)
  <2>1. PICK p \in Given, text \in Drafts : AsksToStore(w, p, text, 0)
    BY <1>1 DEF WritesFile
  <2>2. UNCHANGED <<node, strays, plansMade, crashes, retired>>
    BY <1>1 DEF WritesFile
  <2> QED BY <1>0, <2>1, <2>2, AsksKeeps
<1>2. CASE EditsFile(w)
  <2>0. PICK p \in Given : \E old, new :
          new \in Drafts \cup {<<>>} /\ AsksToStore(w, p, ReplacedIn(node[Real(p)].text, old, new), 0)
    BY <1>2 DEF EditsFile
  <2>1. PICK old, new :
          new \in Drafts \cup {<<>>} /\ AsksToStore(w, p, ReplacedIn(node[Real(p)].text, old, new), 0)
    BY <2>0
  <2>2. UNCHANGED <<node, strays, plansMade, crashes, retired>>
    BY <1>2 DEF EditsFile
  <2>3. Real(p) \in Paths
    <3>1. p \in Paths /\ p \in DOMAIN Start
      BY GivenPaths
    <3>2. CASE node[p].kind = "link"
      <4>1. node[p] = Start[p] /\ Start[p].to \in DOMAIN Start
        BY <3>1, <3>2 DEF FilesInv, PathInv, HasLink
      <4> QED BY <3>2, <4>1 DEF Real, Paths
    <3>3. CASE node[p].kind # "link"
      BY <3>1, <3>3 DEF Real
    <3> QED BY <3>2, <3>3
  <2>4. node[Real(p)].text \in WholeTexts
    BY <2>3 DEF FilesInv, FileTypes, Nodes
  <2>5. new \in WholeTexts
    <3>1. <<>> \in WholeTexts
      BY DEF WholeTexts
    <3>2. Drafts \subseteq WholeTexts
      OBVIOUS
    <3> QED BY <2>1, <3>1, <3>2
  <2>6. ReplacedIn(node[Real(p)].text, old, new) \in WholeTexts
    BY <2>4, <2>5, ReplacedWhole
  <2> QED BY <1>0, <2>1, <2>2, <2>6, AsksKeeps
<1>3. CASE WritesInstructions(w)
  <2>1. PICK text \in Drafts : AsksToStore(w, InstructionsTarget, text, 0)
    BY <1>3 DEF WritesInstructions
  <2>2. UNCHANGED <<node, strays, plansMade, crashes, retired>>
    BY <1>3 DEF WritesInstructions
  <2>3. /\ InstructionsTarget \in Instructions /\ InstructionsTarget \notin Secrets
        /\ Shadowed => InstructionsTarget # "agents.md"
    BY TargetIsInstructions DEF FilesInv
  <2> QED BY <2>1, <2>2, <2>3, AsksKeeps
<1>4. CASE SavesDocument(w)
  <2>1. PICK p \in Secrets, text \in Drafts : AsksToStore(w, p, text, OwnerOnly)
    BY <1>4 DEF SavesDocument
  <2>2. UNCHANGED <<node, strays, plansMade, crashes, retired>>
    BY <1>4 DEF SavesDocument
  <2>3. p # "agents.md"
    BY DEF Instructions
  <2> QED BY <2>1, <2>2, <2>3, AsksKeeps
<1> QED BY <1>1, <1>2, <1>3, <1>4

LEMMA FindKeeps == ASSUME FilesInv, NEW w \in Workers, FindsPlan(w) PROVE FilesInv'
<1>0. /\ LatestActive # 0 /\ UNCHANGED <<node, strays, plansMade, crashes, retired>>
      /\ writer[w] \in WriterRec /\ writer[w].phase = "rest"
  BY DEF FindsPlan, FilesInv, FileTypes
<1>1. PICK p \in ToSet(Plans) : p = Plans[LatestActive] /\ IsFile(p) /\ p \in Paths /\ p \notin DOMAIN Start
  BY <1>0, LatestIsActive, PlanNames DEF Active
<1>2. PICK how \in {"discarded", "implemented"} : writer' = [writer EXCEPT ![w] =
        [writer[w] EXCEPT !.phase = "found", !.path = p, !.how = how]]
  BY <1>1 DEF FindsPlan
<1>3. PICK r : r = [writer[w] EXCEPT !.phase = "found", !.path = p, !.how = how]
  OBVIOUS
<1>4. r \in WriterRec /\ r.phase = "found" /\ r.path = p /\ r.how = how
  BY <1>0, <1>1, <1>3 DEF WriterRec
<1>5. \A q : ~Storing(r, q)
  BY <1>4 DEF Storing, Temps
<1>6. p # "agents.md"
  BY <1>1, FilesAssumption DEF Instructions
<1>7. CallInv(r)
  BY <1>1, <1>4, <1>5, <1>6 DEF CallInv, Temps
<1> QED BY <1>0, <1>2, <1>3, <1>4, <1>5, <1>7, CallStep DEF Proposing

LEMMA RetireKeeps == ASSUME FilesInv, NEW w \in Workers, RetiresPlan(w) PROVE FilesInv'
<1>0. /\ writer[w] \in WriterRec /\ writer[w].phase = "found" /\ CallInv(writer[w])
      /\ UNCHANGED <<node, strays, plansMade, crashes, retired>>
  BY DEF RetiresPlan, FilesInv, FileTypes
<1>1. PICK p \in ToSet(Plans) : p = writer[w].path
  BY <1>0 DEF CallInv
<1>2. /\ IsFile(p) /\ p \in Paths /\ p \notin Secrets /\ p \notin DOMAIN Start
      /\ node[p].text \in PlanTexts(p) /\ writer[w].how \in Statuses \ {"active"}
  <2>1. writer[w].how \in {"discarded", "implemented"}
    BY <1>0 DEF CallInv, WriterRec
  <2> QED BY <1>0, <1>1, <2>1, PlanNames DEF CallInv, FilesInv, PlanInv, Statuses
<1>3. PICK text : text = StatusOnly(node[p].text, writer[w].how)
  OBVIOUS
<1>4. text \in PlanTexts(p) /\ text \in WholeTexts /\ Head(text) # "active"
  BY <1>2, <1>3, PlanRetired
<1>5. AsksToStore(w, p, text, 0)
  BY <1>1, <1>3 DEF RetiresPlan
<1>6. PICK r \in WriterRec : /\ writer' = [writer EXCEPT ![w] = r]
                             /\ r.phase = "asked" /\ r.path = p /\ r.text = text /\ r.bits = 0
  BY <1>2, <1>4, <1>5, AskedRecord
<1>7. CallInv(r)
  <2>1. p # "agents.md"
    BY <1>2, FilesAssumption DEF Instructions
  <2> QED BY <1>2, <1>4, <1>6, <2>1 DEF CallInv, Storing, Temps
<1>8. \A q \in ToSet(Plans) : ~Proposing(r, q) /\ (Storing(r, q) => IsFile(q))
  BY <1>2, <1>4, <1>6 DEF Proposing, Storing
<1> QED BY <1>0, <1>6, <1>7, <1>8, CallStep

\* nothing is at the name of a plan that has not been proposed yet
LEMMA ProposeKeeps == ASSUME FilesInv, NEW w \in Workers, Proposes(w) PROVE FilesInv'
<1> USE DEF FilesInv
<1> DEFINE n == plansMade + 1
<1>0. /\ writer[w].phase = "rest" /\ plansMade < Len(Plans) /\ plansMade' = n
      /\ UNCHANGED <<node, strays, crashes, retired>>
      /\ writer \in [Workers -> WriterRec]
      /\ AsksToStore(w, Plans[n], <<"active", Plans[n]>>, 0)
  BY DEF Proposes, FileTypes
<1>1. Plans \in Seq(Phrases) /\ plansMade \in Nat /\ \A i, k \in DOMAIN Plans : Plans[i] = Plans[k] => i = k
  BY FilesAssumption DEF FileTypes, WholeTexts
<1>2. n \in DOMAIN Plans /\ n \in Nat /\ n > plansMade
  BY <1>0, <1>1
<1>3. PICK p \in ToSet(Plans) : p = Plans[n]
  BY <1>2 DEF ToSet
<1>4. /\ p \in Paths /\ p \notin Secrets /\ p \notin DOMAIN Start /\ ~HasLink(p)
  BY PlanNames
<1>5. ~IsFile(p) /\ \A v \in Workers : ~Storing(writer[v], p)
  BY <1>2, <1>3 DEF PlanInv
<1>6. PICK text \in WholeTexts : /\ text = <<"active", p>> /\ Head(text) = "active"
                                 /\ text \in PlanTexts(p)
  <2>1. "active" \in Statuses
    BY DEF Statuses
  <2> QED BY <2>1, PlanTextFacts DEF PlanTexts
<1>7. PICK r \in WriterRec : /\ writer' = [writer EXCEPT ![w] = r]
                             /\ r.phase = "asked" /\ r.path = p /\ r.text = text /\ r.bits = 0
  <2>1. AsksToStore(w, p, text, 0)
    BY <1>0, <1>3, <1>6
  <2> QED BY <1>4, <2>1, AskedRecord
<1>8. CallInv(r)
  <2>1. p # "agents.md"
    BY <1>4, FilesAssumption DEF Instructions
  <2> QED BY <1>4, <1>6, <1>7, <2>1 DEF CallInv, Storing, Temps
<1> HIDE DEF n
<1>9. /\ writer' \in [Workers -> WriterRec] /\ writer'[w] = r
      /\ \A v \in Workers : v # w => writer'[v] = writer[v]
  BY <1>0, <1>7
<1>10. FileTypes'
  BY <1>0, <1>1, <1>2, <1>9 DEF FileTypes, n
<1>11. \A q : IsFile(q)' = IsFile(q)
  BY <1>0 DEF IsFile
<1>12. PathInv'
  BY <1>0, <1>11 DEF PathInv
<1>13. \A v \in Workers : CallInv(writer[v])'
  <2>1. ASSUME NEW c, CallInv(c) PROVE CallInv(c)'
    BY <1>11, <2>1 DEF CallInv
  <2>2. ASSUME NEW v \in Workers PROVE CallInv(writer[v])'
    <3>1. PICK c : c = writer'[v] /\ CallInv(c)
      BY <1>8, <1>9
    <3>2. CallInv(c)'
      BY <2>1, <3>1
    <3> QED BY <3>1, <3>2
  <2> QED BY <2>2
<1>14. PlanInv'
  <2>1. \A q \in ToSet(Plans) : IsFile(q)' => node'[q].text \in PlanTexts(q)
    BY <1>0, <1>11 DEF PlanInv
  <2>2. \A q \in retired' : q \in ToSet(Plans) /\ IsFile(q)' /\ Head(node'[q].text) # "active"
    BY <1>0, <1>11 DEF PlanInv
  <2>3. \A q : Storing(r, q) => q = p
    BY <1>7 DEF Storing
  <2>4. ASSUME NEW i \in DOMAIN Plans, i > plansMade'
        PROVE  ~IsFile(Plans[i])' /\ \A v \in Workers : ~Storing(writer'[v], Plans[i])
    <3>1. i > plansMade /\ Plans[i] # p
      BY <1>0, <1>1, <1>2, <1>3, <2>4 DEF n
    <3> QED BY <1>9, <1>11, <2>3, <3>1 DEF PlanInv
  <2>5. ASSUME NEW q \in ToSet(Plans), NEW v \in Workers, Proposing(writer'[v], q)
        PROVE  ~IsFile(q)' /\ \A u \in Workers : Proposing(writer'[u], q) => u = v
    <3>1. CASE q = p
      BY <1>5, <1>9, <1>11, <2>5, <3>1 DEF Proposing
    <3>2. CASE q # p
      BY <1>9, <1>11, <2>3, <2>5, <3>2 DEF Proposing, PlanInv
    <3> QED BY <3>1, <3>2
  <2> QED BY <2>1, <2>2, <2>4, <2>5 DEF PlanInv
<1> QED BY <1>10, <1>12, <1>13, <1>14

LEMMA RestRecord == /\ AtRest \in WriterRec /\ CallInv(AtRest)
                    /\ \A p : ~Storing(AtRest, p) /\ ~Proposing(AtRest, p)
<1>1. AtRest \in WriterRec
  <2>1. <<>> \in WholeTexts
    BY DEF WholeTexts
  <2> QED BY <2>1 DEF AtRest, WriterRec
<1>2. \A p : ~Storing(AtRest, p)
  BY DEF AtRest, Storing, Temps
<1>3. CallInv(AtRest)
  BY <1>2 DEF AtRest, CallInv, Temps
<1> QED BY <1>1, <1>2, <1>3 DEF Proposing

LEMMA RestKeeps ==
  ASSUME FilesInv, NEW w \in Workers, writer' = [writer EXCEPT ![w] = AtRest],
         UNCHANGED <<node, strays, plansMade, crashes, retired>>
  PROVE  FilesInv'
BY RestRecord, CallStep

LEMMA BeginKeeps == ASSUME FilesInv, NEW w \in Workers, Begins(w) PROVE FilesInv'
<1> DEFINE asks == writer[w].path
<1> DEFINE p == Real(asks)
<1>0. /\ writer[w] \in WriterRec /\ writer[w].phase = "asked" /\ CallInv(writer[w])
      /\ UNCHANGED <<node, strays, plansMade, crashes, retired>>
  BY DEF Begins, FilesInv, FileTypes
<1>1. asks \in Paths /\ writer[w].bits = IF asks \in Secrets THEN OwnerOnly ELSE 0
  BY <1>0 DEF CallInv
<1>2. CASE writer' = [writer EXCEPT ![w] = AtRest]
  BY <1>0, <1>2, RestKeeps
<1>3. CASE /\ ~(node[asks].kind = "link" /\ ~IsFile(p))
           /\ writer' = [writer EXCEPT ![w] = [writer[w] EXCEPT
                !.phase = "temp", !.path = p, !.bits = Effective(writer[w].bits, p)]]
  <2>1. /\ p \in Paths /\ ~HasLink(p) /\ (p # asks => IsFile(p) /\ p \in DOMAIN Start)
        /\ p \in Secrets <=> asks \in Secrets
    <3>1. CASE node[asks].kind = "link"
      <4>1. HasLink(asks) /\ asks \in DOMAIN Start /\ Start[asks].kind = "link"
        BY <1>1, <3>1 DEF FilesInv, PathInv, HasLink
      <4>2. node[asks] = Start[asks] /\ asks \notin Secrets /\ Start[asks].to \in DOMAIN Start \ Secrets
        BY <4>1, FilesAssumption DEF FilesInv, PathInv
      <4>3. p \in DOMAIN Start /\ p \notin Secrets /\ p \in Paths /\ IsFile(p)
        BY <1>3, <3>1, <4>2 DEF Real, Paths
      <4>4. ~HasLink(p)
        BY <4>3 DEF FilesInv, PathInv, IsFile
      <4> QED BY <4>2, <4>3, <4>4
    <3>2. CASE node[asks].kind # "link"
      BY <1>1, <3>2 DEF Real, FilesInv, PathInv
    <3> QED BY <3>1, <3>2
  <2>2. PICK r : r = [writer[w] EXCEPT
          !.phase = "temp", !.path = p, !.bits = Effective(writer[w].bits, p)]
    OBVIOUS
  <2>3. Effective(writer[w].bits, p) = IF p \in Secrets THEN OwnerOnly ELSE KeptBits(p)
    <3>1. CASE asks \in Secrets
      BY <1>1, <2>1, <3>1 DEF Effective, OwnerOnly
    <3>2. CASE asks \notin Secrets
      <4>1. IsFile(p) => node[p].bits = KeptBits(p)
        BY <2>1, <3>2 DEF FilesInv, PathInv
      <4>2. ~IsFile(p) => KeptBits(p) = NewFile
        BY DEF FilesInv, PathInv, KeptBits
      <4>3. Effective(0, p) = IF IsFile(p) THEN node[p].bits ELSE NewFile
        BY DEF Effective
      <4> QED BY <1>1, <2>1, <3>2, <4>1, <4>2, <4>3
    <3> QED BY <3>1, <3>2
  <2>4. (IF p \in Secrets THEN OwnerOnly ELSE KeptBits(p)) \in Nat
    <3>1. p \in DOMAIN Start => Start[p].bits \in Nat
      BY FilesAssumption DEF Nodes
    <3> QED BY <3>1 DEF KeptBits, NewFile, OwnerOnly
  <2>5. /\ r \in WriterRec /\ r.phase = "temp" /\ r.path = p /\ r.text = writer[w].text
        /\ r.bits = IF p \in Secrets THEN OwnerOnly ELSE KeptBits(p)
    BY <1>0, <2>1, <2>2, <2>3, <2>4 DEF WriterRec
  <2>6. \A q \in ToSet(Plans) : Storing(r, q) => p = asks /\ q = p /\ Storing(writer[w], q)
    <3>1. \A q \in ToSet(Plans) : q \notin DOMAIN Start
      BY PlanNames
    <3> QED BY <1>0, <2>1, <2>5, <3>1 DEF Storing
  <2>7. Shadowed => p # "agents.md"
    <3>1. Shadowed => asks # "agents.md" /\ ~IsFile("agents.md")
      BY <1>0 DEF CallInv, FilesInv, PathInv, IsFile
    <3> QED BY <2>1, <3>1
  <2>8. CallInv(r)
    <3>1. \A q \in ToSet(Plans) : Storing(r, q) =>
            r.text \in PlanTexts(q) /\ (Head(r.text) # "active" => IsFile(q))
      BY <1>0, <2>5, <2>6 DEF CallInv
    <3> QED BY <2>1, <2>5, <2>7, <3>1 DEF CallInv, Temps
  <2>9. \A q \in ToSet(Plans) : Proposing(r, q) => Proposing(writer[w], q)
    BY <2>5, <2>6 DEF Proposing
  <2>10. writer' = [writer EXCEPT ![w] = r]
    BY <1>3, <2>2
  <2>11. \A q \in ToSet(Plans) : Storing(r, q) => Storing(writer[w], q)
    BY <2>6
  <2> HIDE DEF p, asks
  <2> QED BY <1>0, <2>5, <2>8, <2>9, <2>10, <2>11, CallStep
<1>4. \/ writer' = [writer EXCEPT ![w] = AtRest]
      \/ /\ ~(node[asks].kind = "link" /\ ~IsFile(p))
         /\ writer' = [writer EXCEPT ![w] = [writer[w] EXCEPT
              !.phase = "temp", !.path = p, !.bits = Effective(writer[w].bits, p)]]
  BY DEF Begins
<1> HIDE DEF p, asks
<1> QED BY <1>2, <1>3, <1>4

\* the steps on the temporary file
LEMMA TempSteps ==
  ASSUME FilesInv, NEW w \in Workers, Fills(w) \/ Flushes(w) \/ GivesUp(w)
  PROVE  FilesInv'
<1>0. /\ writer[w] \in WriterRec /\ CallInv(writer[w])
      /\ UNCHANGED <<node, strays, plansMade, crashes, retired>>
  BY DEF FilesInv, FileTypes, Fills, Flushes, GivesUp
<1>1. ASSUME NEW ph \in {"filled", "flushed"}, writer[w].phase \in Temps,
             writer' = [writer EXCEPT ![w].phase = ph]
      PROVE  FilesInv'
  <2>1. PICK r : r = [writer[w] EXCEPT !.phase = ph]
    OBVIOUS
  <2>2. /\ r \in WriterRec /\ r.phase = ph /\ r.path = writer[w].path
        /\ r.text = writer[w].text /\ r.bits = writer[w].bits
    BY <1>0, <2>1 DEF WriterRec
  <2>3. writer' = [writer EXCEPT ![w] = r]
    BY <1>1, <2>1 DEF FilesInv, FileTypes
  <2>4. \A p : Storing(r, p) <=> Storing(writer[w], p)
    BY <1>1, <2>2 DEF Storing, Temps
  <2>5. CallInv(r)
    BY <1>0, <1>1, <2>2, <2>4 DEF CallInv, Temps
  <2> QED BY <1>0, <2>2, <2>3, <2>4, <2>5, CallStep DEF Proposing
<1>2. CASE Fills(w)
  BY <1>1, <1>2 DEF Fills, Temps
<1>3. CASE Flushes(w)
  BY <1>1, <1>3 DEF Flushes, Temps
<1>4. CASE GivesUp(w)
  BY <1>0, <1>4, RestKeeps DEF GivesUp
<1> QED BY <1>2, <1>3, <1>4

LEMMA SoundFile ==
  ASSUME NEW text \in WholeTexts, NEW bits \in Nat, NEW s, s = TRUE
  PROVE  [FileNode(text, bits) EXCEPT !.sound = s] = FileNode(text, bits)
<1>1. PICK file : file = FileNode(text, bits)
  OBVIOUS
<1>2. file \in [kind: {"file"}, text: WholeTexts, bits: Nat, to: {""}, sound: {s}]
  BY <1>1 DEF FileNode
<1>3. [file EXCEPT !.sound = s] = file
  BY <1>2
<1> QED BY <1>1, <1>3

LEMMA RenameKeeps == ASSUME FilesInv, NEW w \in Workers, Renames(w) PROVE FilesInv'
<1> USE DEF FilesInv
<1> DEFINE p == writer[w].path
<1> DEFINE text == writer[w].text
<1>0. /\ writer[w] \in WriterRec /\ writer[w].phase = "flushed" /\ CallInv(writer[w])
      /\ writer \in [Workers -> WriterRec] /\ node \in [Paths -> Nodes]
      /\ writer' = [writer EXCEPT ![w] = AtRest] /\ UNCHANGED <<strays, plansMade, crashes>>
      /\ retired' = IF p \in ToSet(Plans) /\ Head(text) # "active" THEN retired \cup {p} ELSE retired
  BY DEF Renames, Ready, FileTypes
<1>1. /\ p \in Paths /\ ~HasLink(p) /\ Storing(writer[w], p)
      /\ text \in WholeTexts /\ writer[w].bits \in Nat
      /\ writer[w].bits = IF p \in Secrets THEN OwnerOnly ELSE KeptBits(p)
      /\ Shadowed => p # "agents.md"
      /\ p \in ToSet(Plans) => text \in PlanTexts(p) /\ (Head(text) # "active" => IsFile(p))
  BY <1>0 DEF CallInv, Temps, Storing, WriterRec
<1>2. PICK file : file = FileNode(text, writer[w].bits)
  OBVIOUS
<1>3. file \in Nodes /\ file.kind = "file" /\ file.text = text /\ file.bits = writer[w].bits
  BY <1>1, <1>2 DEF FileNode, Nodes
<1>4. node' = [node EXCEPT ![p] = file]
  <2>1. Held(w) = text
    BY <1>0 DEF Held
  <2>2. [FileNode(text, writer[w].bits) EXCEPT !.sound = writer[w].phase = "flushed"] = file
    <3>1. PICK s : s = (writer[w].phase = "flushed")
      OBVIOUS
    <3>2. s = TRUE
      BY <1>0, <3>1
    <3>3. writer[w].text \in WholeTexts /\ writer[w].bits \in Nat
      BY <1>1
    <3>4. [FileNode(text, writer[w].bits) EXCEPT !.sound = s] = FileNode(text, writer[w].bits)
      BY <3>2, <3>3, SoundFile
    <3> QED BY <1>2, <3>1, <3>4
  <2> QED BY <2>1, <2>2 DEF Renames
<1>5. /\ node' \in [Paths -> Nodes] /\ node'[p] = file
      /\ \A q \in Paths : q # p => node'[q] = node[q]
  BY <1>0, <1>1, <1>3, <1>4
<1>6. /\ writer' \in [Workers -> WriterRec] /\ writer'[w] = AtRest
      /\ \A v \in Workers : v # w => writer'[v] = writer[v]
  BY <1>0, RestRecord
<1> HIDE DEF p, text
<1>7. FileTypes'
  BY <1>0, <1>5, <1>6 DEF FileTypes
<1>8. \A q \in Paths : IsFile(q)' <=> (IsFile(q) \/ q = p)
  BY <1>3, <1>5 DEF IsFile
<1>9. PathInv'
  <2>1. \A q \in Paths : HasLink(q) <=> node'[q].kind = "link"
    BY <1>1, <1>3, <1>5 DEF PathInv
  <2>2. \A q \in DOMAIN Start : q \in Paths
    BY DEF Paths
  <2>3. \A q \in DOMAIN Start : Start[q].kind = "link" => q # p /\ node'[q] = Start[q]
    BY <1>1, <1>5, <2>2 DEF PathInv, HasLink
  <2>4. \A q \in DOMAIN Start : Start[q].kind = "file" => IsFile(q)'
    BY <1>8, <2>2 DEF PathInv
  <2>5. \A q \in Paths \ Secrets : IsFile(q)' => node'[q].bits = KeptBits(q)
    BY <1>1, <1>3, <1>5, <1>8 DEF PathInv
  <2>6. \A q \in Secrets : IsFile(q)' => node'[q] = Start[q] \/ node'[q].bits = OwnerOnly
    BY <1>1, <1>3, <1>5, <1>8, <2>2, FilesAssumption DEF PathInv
  <2>7. Shadowed => node'["agents.md"].kind = "none"
    BY <1>1, <1>5, <2>2, FilesAssumption DEF PathInv, Instructions
  <2> QED BY <2>1, <2>3, <2>4, <2>5, <2>6, <2>7 DEF PathInv
<1>10. \A q \in ToSet(Plans) : q \in Paths
  BY PlanNames
<1>11. \A v \in Workers : CallInv(writer[v])'
  <2>1. ASSUME NEW c, CallInv(c) PROVE CallInv(c)'
    <3>1. c.phase = "found" => c.path \in Paths /\ IsFile(c.path)'
      BY <1>8, <2>1 DEF CallInv
    <3>2. \A q \in ToSet(Plans) : Storing(c, q) =>
            c.text \in PlanTexts(q) /\ (Head(c.text) # "active" => IsFile(q)')
      BY <1>8, <1>10, <2>1 DEF CallInv
    <3> QED BY <2>1, <3>1, <3>2 DEF CallInv
  <2>2. ASSUME NEW v \in Workers PROVE CallInv(writer[v])'
    <3>1. PICK c : c = writer'[v] /\ CallInv(c)
      BY <1>6, RestRecord
    <3>2. CallInv(c)'
      BY <2>1, <3>1
    <3> QED BY <3>1, <3>2
  <2> QED BY <2>2
<1>12. p \in ToSet(Plans) /\ IsFile(p) => Head(text) # "active"
  BY <1>1 DEF PlanInv, Proposing, text
<1>13. PlanInv'
  <2>1. \A q \in ToSet(Plans) : IsFile(q)' => node'[q].text \in PlanTexts(q)
    BY <1>1, <1>3, <1>5, <1>8, <1>10 DEF PlanInv
  <2>2. \A q \in retired' : q \in ToSet(Plans) /\ IsFile(q)' /\ Head(node'[q].text) # "active"
    <3>1. ASSUME NEW q \in retired
          PROVE  q \in ToSet(Plans) /\ IsFile(q)' /\ Head(node'[q].text) # "active"
      BY <1>3, <1>5, <1>8, <1>10, <1>12, <3>1 DEF PlanInv
    <3>2. ASSUME NEW q \in ToSet(Plans), q = p, Head(text) # "active"
          PROVE  IsFile(q)' /\ Head(node'[q].text) # "active"
      BY <1>3, <1>5, <1>8, <1>10, <3>2
    <3> QED BY <1>0, <3>1, <3>2
  <2>3. \A v \in Workers : \A q : Storing(writer'[v], q) => v # w /\ Storing(writer[v], q)
    BY <1>6, RestRecord
  <2>4. \A v \in Workers : \A q : Proposing(writer'[v], q) => v # w /\ Proposing(writer[v], q)
    BY <1>6, RestRecord
  <2>5. ASSUME NEW i \in DOMAIN Plans, i > plansMade'
        PROVE  ~IsFile(Plans[i])' /\ \A v \in Workers : ~Storing(writer'[v], Plans[i])
    <3>1. i > plansMade /\ Plans[i] \in ToSet(Plans)
      BY <1>0, <2>5 DEF ToSet
    <3>2. ~IsFile(Plans[i]) /\ \A v \in Workers : ~Storing(writer[v], Plans[i])
      BY <3>1 DEF PlanInv
    <3>3. Plans[i] # p
      BY <1>1, <3>2
    <3> QED BY <1>8, <1>10, <2>3, <3>1, <3>2, <3>3
  <2>6. ASSUME NEW q \in ToSet(Plans), NEW v \in Workers, Proposing(writer'[v], q)
        PROVE  ~IsFile(q)' /\ \A u \in Workers : Proposing(writer'[u], q) => u = v
    <3>1. v # w /\ Proposing(writer[v], q)
      BY <2>4, <2>6
    <3>2. ~IsFile(q) /\ \A u \in Workers : Proposing(writer[u], q) => u = v
      BY <3>1 DEF PlanInv
    <3>3. q # p
      <4>1. SUFFICES ASSUME q = p PROVE FALSE
        OBVIOUS
      <4>2. Head(text) = "active"
        BY <1>1, <3>2, <4>1
      <4>3. Proposing(writer[w], q)
        BY <1>1, <4>1, <4>2 DEF Proposing, text
      <4> QED BY <3>1, <3>2, <4>3
    <3> QED BY <1>8, <1>10, <2>4, <3>2, <3>3
  <2> QED BY <2>1, <2>2, <2>5, <2>6 DEF PlanInv
<1> QED BY <1>7, <1>9, <1>11, <1>13

\* what is on the disk was flushed before it got its name
LEMMA CrashKeeps == ASSUME FilesInv, ProcessKilled \/ PowerLoss PROVE FilesInv'
<1> USE DEF FilesInv
<1>0. /\ crashes < CrashBound /\ crashes' = crashes + 1
      /\ writer' = [w \in Workers |-> AtRest] /\ UNCHANGED <<plansMade, retired>>
  BY DEF ProcessKilled, PowerLoss
<1>1. node' = node
  <2>1. CASE ProcessKilled
    BY <2>1 DEF ProcessKilled
  <2>2. CASE PowerLoss
    <3>1. \A p \in DOMAIN node : node[p].sound
      BY DEF FileTypes, Nodes
    <3>2. node' = [p \in DOMAIN node |-> node[p]]
      BY <2>2, <3>1 DEF PowerLoss
    <3> QED BY <3>2 DEF FileTypes
  <2> QED BY <2>1, <2>2
<1>2. \A p : IsFile(p)' = IsFile(p)
  BY <1>1 DEF IsFile
<1>3. \A w \in Workers : writer'[w] = AtRest
  BY <1>0
<1>4. FileTypes'
  <2>1. writer' \in [Workers -> WriterRec]
    BY <1>0, RestRecord
  <2>2. crashes' \in 0..CrashBound /\ crashes' > 0
    BY <1>0, FilesAssumption DEF FileTypes
  <2> QED BY <1>0, <1>1, <2>1, <2>2 DEF FileTypes
<1>5. PathInv'
  BY <1>1, <1>2 DEF PathInv
<1>6. \A w \in Workers : CallInv(writer[w])'
  <2>1. CallInv(AtRest)'
    BY DEF AtRest, CallInv, Storing, Temps
  <2> QED BY <1>3, <2>1
<1>7. PlanInv'
  BY <1>0, <1>1, <1>2, <1>3, RestRecord DEF PlanInv
<1> QED BY <1>4, <1>5, <1>6, <1>7

LEMMA FilesStep == FilesInv /\ [FilesNext]_filesVars => FilesInv'
<1> SUFFICES ASSUME FilesInv, [FilesNext]_filesVars PROVE FilesInv'
  OBVIOUS
<1>1. ASSUME NEW w \in Workers,
        \/ WritesFile(w) \/ EditsFile(w) \/ WritesInstructions(w) \/ SavesDocument(w)
      PROVE FilesInv'
  BY <1>1, WriteActions
<1>2. ASSUME NEW w \in Workers, Proposes(w) \/ FindsPlan(w) \/ RetiresPlan(w) PROVE FilesInv'
  BY <1>2, ProposeKeeps, FindKeeps, RetireKeeps
<1>3. ASSUME NEW w \in Workers,
        Begins(w) \/ Fills(w) \/ Flushes(w) \/ GivesUp(w) \/ Renames(w)
      PROVE FilesInv'
  BY <1>3, BeginKeeps, TempSteps, RenameKeeps
<1>4. CASE UNCHANGED filesVars
  <2> USE <1>4 DEF filesVars
  <2>1. FileTypes' /\ PathInv'
    BY DEF FilesInv, FileTypes, PathInv, IsFile
  <2>2. PlanInv'
    BY DEF FilesInv, PlanInv, IsFile
  <2>3. \A w \in Workers : CallInv(writer[w])'
    BY DEF FilesInv, CallInv, IsFile
  <2> QED BY <2>1, <2>2, <2>3 DEF FilesInv
<1> QED BY <1>1, <1>2, <1>3, <1>4, CrashKeeps DEF FilesNext

\* Every path stays what the project had there, a call writes a whole text
\* with the mode its path must have, and a plan is proposed by one call only
THEOREM FilesInvariant == FilesSpec => []FilesInv
<1>1. FilesInit => FilesInv
  BY FilesStart
<1>2. FilesInv /\ [FilesNext]_filesVars => FilesInv'
  BY FilesStep
<1> QED BY <1>1, <1>2, PTL DEF FilesSpec

\* Every path is a node and every writer is at a step of a call of the file tools
THEOREM FilesTypesHold == FilesSpec => []FilesTypeOK
<1>1. FilesInv => FilesTypeOK
  BY DEF FilesInv, FileTypes, FilesTypeOK, Nodes, WriterRec
<1> QED BY <1>1, FilesInvariant, PTL

LEMMA WholeIsNotTorn == \A text \in WholeTexts : text # Torn
<1>1. SUFFICES ASSUME NEW text \in WholeTexts, text = Torn PROVE FALSE
  OBVIOUS
<1>2. text \in Seq(Phrases) /\ Len(text) = 1 /\ text[1] = "torn"
  BY <1>1 DEF WholeTexts, Torn
<1> QED BY <1>2, FilesAssumption

\* Whatever fails, is killed or loses power: files are whole, keep their mode
\* and what they are, and a retired plan never becomes active again
THEOREM FilesSafeHolds == FilesSpec => []FilesSafe
<1>1. ASSUME FilesInv PROVE FilesSafe
  <2> USE <1>1, FilesAssumption DEF FilesInv
  <2>0. DOMAIN node = Paths /\ \A p \in Paths : node[p] \in Nodes
    BY DEF FileTypes
  <2>1. \A p \in DOMAIN node : IsFile(p) => node[p].text # Torn
    BY <2>0, WholeIsNotTorn DEF Nodes
  <2>2. \A p \in DOMAIN Start : Start[p].kind = "link" => node[p] = Start[p]
    BY DEF PathInv
  <2>3. \A p \in DOMAIN node \ Secrets : IsFile(p) => node[p].bits = KeptBits(p)
    BY <2>0 DEF PathInv
  <2>4. \A p \in Secrets : IsFile(p) /\ node[p] # Start[p] => node[p].bits = OwnerOnly
    BY DEF PathInv
  <2>5. \A w \in Workers : HasTemp(w) /\ writer[w].path \in Secrets => writer[w].bits = OwnerOnly
    BY DEF CallInv, HasTemp, Temps
  <2>6. strays > 0 => crashes > 0
    BY DEF FileTypes
  <2>7. ASSUME NEW i \in DOMAIN Plans, IsFile(Plans[i])
        PROVE  /\ Last(node[Plans[i]].text) = Plans[i]
               /\ Plans[i] \in retired => ~Active(Plans[i])
    <3>1. PICK p \in ToSet(Plans) : p = Plans[i]
      BY DEF ToSet
    <3>2. node[p].text \in PlanTexts(p)
      BY <2>7, <3>1 DEF PlanInv
    <3>3. Last(node[p].text) = p
      BY <3>2, PlanTextFacts DEF PlanTexts
    <3>4. p \in retired => ~Active(p)
      BY DEF PlanInv, Active
    <3> QED BY <3>1, <3>3, <3>4
  <2>8. Start["claude.md"].kind = "file" /\ Start["agents.md"].kind = "none"
          => node["agents.md"].kind = "none"
    BY DEF PathInv, Shadowed
  <2> QED BY <2>1, <2>2, <2>3, <2>4, <2>5, <2>6, <2>7, <2>8 DEF FilesSafe, KeptBits
<1> QED BY <1>1, FilesInvariant, PTL

(***************************************************************************)
(* The commands.  Where the caller stands says what the child can be, what *)
(* is kept is the beginning of what was written, and a caller that has     *)
(* reaped the child and left the pipe has read its last byte.              *)
(***************************************************************************)
Bytes == {"sh", "bad", "bg"}
ShellRec == [state: {"none", "forked", "running", "exited", "reaped"}, status: Int, grouped: BOOLEAN]
BackgroundRec == [state: {"none", "running", "gone"}, away: BOOLEAN]
ParentRec == [at: {"spawn", "close", "group", "test", "wait", "look", "kill", "reap", "poll",
                   "drain", "glance", "answer", "returned"},
              open: BOOLEAN, done: BOOLEAN, grace: BOOLEAN, output: Seq(Bytes), cut: BOOLEAN,
              why: {"", "interrupted", "timed out", "failed"}, back: {"", "test", "again", "answer"}]

CommandTypes ==
  /\ sh \in ShellRec /\ bg \in BackgroundRec /\ ends \subseteq {"caller", "sh", "bg"}
  /\ spoken \in Seq(Bytes) /\ Len(spoken) <= SpeechBound /\ taken \in 0..Len(spoken)
  /\ parent \in ParentRec /\ flag \in BOOLEAN /\ late \in BOOLEAN

WasCut == parent.why \in {"interrupted", "timed out"}
Early == {"spawn", "close", "group"}
ChildInv ==
  /\ parent.at = "spawn" => sh.state = "none"
  /\ parent.at \notin {"spawn", "returned"} => sh.state # "none"
  /\ parent.at = "returned" /\ parent.why = "failed" => sh.state = "none"
  /\ sh.state \in {"running", "exited", "reaped"} => sh.grouped
  /\ parent.at \notin Early \cup {"returned"} => sh.grouped
  /\ parent.done <=> sh.state = "reaped"
  /\ ~WasCut => sh.status # Slain
  /\ WasCut /\ parent.at # "kill" =>
       sh.state \in {"exited", "reaped"} /\ (bg.state = "running" => bg.away)

PlaceInv ==
  /\ parent.at \in Early \cup {"wait", "look", "kill", "reap"} => ~parent.done
  /\ parent.at \in {"glance", "answer"} \/ Ran => parent.done
  /\ parent.at \in {"kill", "reap", "glance"} => WasCut
  /\ parent.at \in Early \cup {"test", "wait", "look", "poll"} => parent.why = ""
  /\ parent.why = "failed" => parent.at = "returned"
  /\ parent.at = "reap" => sh.state = "exited"
  /\ parent.at = "drain" => (parent.back = "test" <=> parent.why = "")
  /\ parent.at = "drain" /\ WasCut => parent.done
  /\ parent.at = "glance" => parent.back = "answer"

KeptInv == LET n == Len(parent.output) IN
  /\ parent.output = SubSeq(spoken, 1, n) /\ n <= taken /\ n <= OutputCap
  /\ IF parent.cut THEN n = OutputCap ELSE n = taken

\* the child's bytes are behind the caller
ShellRead == \A i \in 1..Len(spoken) : spoken[i] # "bg" => i <= taken
ReadInv == parent.done /\ parent.open /\ parent.at \notin {"poll", "drain"} => ShellRead

ReplyInv ==
  Ran => reply = [exit |-> ExitOf(sh.status),
                  interrupted |-> parent.why = "interrupted", timed_out |-> parent.why = "timed out",
                  truncated |-> parent.cut, output |-> CutTo(Sanitized(parent.output), OutputCap)]

CommandInv == CommandTypes /\ ChildInv /\ PlaceInv /\ KeptInv /\ ReadInv /\ ReplyInv

LEMMA NoBytes == <<>> \in Seq(Bytes) /\ Len(<<>>) = 0 /\ SubSeq(<<>>, 1, 0) = <<>>
<1>1. <<>> \in Seq(Bytes) /\ Len(<<>>) = 0
  OBVIOUS
<1>2. SubSeq(<<>>, 1, 0) = <<>>
  BY <1>1, SubSeqEmpty
<1> QED BY <1>1, <1>2

LEMMA CommandStart == CommandInit => CommandInv
<1> SUFFICES ASSUME CommandInit PROVE CommandInv
  OBVIOUS
<1>1. PICK zero \in Int : zero = 0
  OBVIOUS
<1>2. /\ sh = [state |-> "none", status |-> zero, grouped |-> FALSE]
      /\ bg = [state |-> "none", away |-> FALSE] /\ ends = {} /\ flag = FALSE /\ late = FALSE
      /\ parent = [at |-> "spawn", open |-> TRUE, done |-> FALSE, grace |-> TRUE,
                   output |-> <<>>, cut |-> FALSE, why |-> "", back |-> ""]
  BY <1>1 DEF CommandInit
<1>3. spoken = <<>> /\ taken = 0
  BY DEF CommandInit
<1>4. sh \in ShellRec
  BY <1>2 DEF ShellRec
<1>5. bg \in BackgroundRec
  BY <1>2 DEF BackgroundRec
<1>6. parent \in ParentRec
  BY <1>2, NoBytes DEF ParentRec
<1>7. CommandTypes
  <2>1. spoken \in Seq(Bytes) /\ Len(spoken) = 0
    BY <1>3, NoBytes
  <2>2. 0 <= SpeechBound
    BY CommandAssumption
  <2>3. ends \subseteq {"caller", "sh", "bg"} /\ flag \in BOOLEAN /\ late \in BOOLEAN
    BY <1>2
  <2> QED BY <1>3, <1>4, <1>5, <1>6, <2>1, <2>2, <2>3 DEF CommandTypes
<1>8. /\ parent.at = "spawn" /\ parent.why = "" /\ ~parent.done /\ parent.output = <<>> /\ ~parent.cut
      /\ sh.state = "none" /\ sh.status = 0
  BY <1>1, <1>2
<1>9. PlaceInv
  BY <1>8 DEF PlaceInv, WasCut, Early, Ran
<1>a. ChildInv
  <2>1. sh.status # Slain
    <3>1. sh.status = zero
      BY <1>2
    <3> QED BY <1>1, <3>1 DEF Slain
  <2> QED BY <1>8, <2>1 DEF ChildInv, WasCut, Early
<1>10. KeptInv
  <2>1. 0 <= OutputCap
    BY CommandAssumption
  <2>2. PICK n : n = Len(parent.output)
    OBVIOUS
  <2>3. n = 0 /\ parent.output = SubSeq(spoken, 1, n)
    BY <1>3, <1>8, <2>2, NoBytes
  <2>4. n <= taken /\ n <= OutputCap /\ n = taken
    BY <1>3, <2>1, <2>3
  <2>5. ~parent.cut
    BY <1>8
  <2> QED BY <2>2, <2>3, <2>4, <2>5 DEF KeptInv
<1>11. ReadInv /\ ReplyInv
  BY <1>8 DEF ReadInv, ReplyInv, Ran
<1> QED BY <1>7, <1>9, <1>a, <1>10, <1>11 DEF CommandInv

\* nothing the caller reads or says changes
LEMMA CallerStays ==
  ASSUME CommandInv, UNCHANGED <<parent, spoken, taken>>, Ran => UNCHANGED <<sh, reply>>
  PROVE  KeptInv' /\ ReadInv' /\ ReplyInv'
<1>1. KeptInv'
  BY DEF CommandInv, KeptInv
<1>2. ReadInv'
  BY DEF CommandInv, ReadInv, ShellRead
<1>3. ReplyInv'
  <2>1. Ran' = Ran
    BY DEF Ran
  <2> QED BY <2>1 DEF CommandInv, ReplyInv, ExitOf
<1> QED BY <1>1, <1>2, <1>3

\* what the child does when it is not stopped yet
LEMMA ShellSteps ==
  ASSUME CommandInv, ChildExecs \/ ChildGivesUp \/ ShellExits
  PROVE  CommandInv'
<1> USE CommandAssumption
<1>0. sh \in ShellRec /\ parent \in ParentRec /\ UNCHANGED <<bg, spoken, taken, parent, flag, late, reply>>
  BY DEF CommandInv, CommandTypes, ChildExecs, ChildGivesUp, ShellExits
<1>1. sh.state \in {"forked", "running"} /\ ends' \subseteq ends
  BY DEF ChildExecs, ChildGivesUp, ShellExits
<1>2. /\ sh' \in ShellRec /\ sh'.state \in {"running", "exited"} /\ sh'.grouped
      /\ sh.status # Slain => sh'.status # Slain
  <2>1. CASE ChildExecs
    BY <1>0, <2>1 DEF ChildExecs, ShellRec
  <2>2. CASE ChildGivesUp
    <3>1. PICK code \in Int : code = 127
      OBVIOUS
    <3>2. sh' = [sh EXCEPT !.state = "exited", !.status = code, !.grouped = TRUE]
      BY <2>2, <3>1 DEF ChildGivesUp
    <3>3. sh'.state = "exited" /\ sh'.status = code /\ sh'.grouped /\ sh' \in ShellRec
      BY <1>0, <3>2 DEF ShellRec
    <3> QED BY <3>1, <3>3 DEF Slain
  <2>3. CASE ShellExits
    <3>a. PICK code \in ExitCodes \cup {Signalled} : sh' = [sh EXCEPT !.state = "exited", !.status = code]
      BY <2>3 DEF ShellExits
    <3>1. code \in Int /\ code # Slain
      BY DEF Signalled, Slain
    <3>2. sh'.state = "exited" /\ sh'.status = code /\ sh'.grouped = sh.grouped /\ sh' \in ShellRec
      BY <1>0, <3>a, <3>1 DEF ShellRec
    <3> QED BY <2>3, <3>1, <3>2 DEF CommandInv, ChildInv, ShellExits
  <2> QED BY <2>1, <2>2, <2>3
<1>3. ~parent.done /\ ~Ran
  BY <1>1 DEF CommandInv, ChildInv, PlaceInv
<1>4. CommandTypes'
  BY <1>0, <1>1, <1>2 DEF CommandInv, CommandTypes
<1>5. ChildInv'
  BY <1>0, <1>1, <1>2 DEF CommandInv, ChildInv, WasCut
<1>6. PlaceInv'
  BY <1>0, <1>1, <1>3 DEF CommandInv, ChildInv, PlaceInv, WasCut, Ran
<1>7. KeptInv' /\ ReadInv' /\ ReplyInv'
  BY <1>0, <1>3, CallerStays
<1> QED BY <1>4, <1>5, <1>6, <1>7 DEF CommandInv

\* the descendant, the pipe, the flag and the clock
LEMMA AroundSteps ==
  ASSUME CommandInv,
         \/ LeavesBackground \/ BackgroundLeaves \/ BackgroundExits \/ ShellClosesOutput
         \/ Interrupted \/ DeadlinePasses
  PROVE  CommandInv'
<1>0. bg \in BackgroundRec /\ UNCHANGED <<sh, spoken, taken, parent, reply>>
  BY DEF CommandInv, CommandTypes, LeavesBackground, BackgroundLeaves, BackgroundExits,
         ShellClosesOutput, Interrupted, DeadlinePasses
<1>1. /\ bg' \in BackgroundRec
      /\ bg'.state = "running" => sh.state = "running" \/ (bg.state = "running" /\ (bg.away => bg'.away))
  <2>1. CASE LeavesBackground
    BY <1>0, <2>1 DEF LeavesBackground, BackgroundRec
  <2>2. CASE BackgroundLeaves
    BY <1>0, <2>2 DEF BackgroundLeaves, BackgroundRec
  <2>3. CASE BackgroundExits
    BY <1>0, <2>3 DEF BackgroundExits, BackgroundRec
  <2>4. CASE bg' = bg
    BY <1>0, <2>4
  <2> QED BY <2>1, <2>2, <2>3, <2>4 DEF ShellClosesOutput, Interrupted, DeadlinePasses
<1>2. ends' \subseteq {"caller", "sh", "bg"} /\ flag' \in BOOLEAN /\ late' \in BOOLEAN
  BY DEF CommandInv, CommandTypes, LeavesBackground, BackgroundLeaves, BackgroundExits,
         ShellClosesOutput, Interrupted, DeadlinePasses
<1>3. CommandTypes'
  BY <1>0, <1>1, <1>2 DEF CommandInv, CommandTypes
<1>4. ChildInv'
  BY <1>0, <1>1 DEF CommandInv, ChildInv, WasCut
<1>5. PlaceInv'
  BY <1>0 DEF CommandInv, PlaceInv, WasCut, Ran
<1>6. KeptInv' /\ ReadInv' /\ ReplyInv'
  BY <1>0, CallerStays
<1> QED BY <1>3, <1>4, <1>5, <1>6 DEF CommandInv

LEMMA StartFacts ==
  ASSUME NEW S, NEW s \in Seq(S), NEW n \in 0..Len(s)
  PROVE  /\ SubSeq(s, 1, n) \in Seq(S) /\ Len(SubSeq(s, 1, n)) = n
         /\ \A i \in 1..n : SubSeq(s, 1, n)[i] = s[i]
<1>1. 1 \in Int /\ n \in Int /\ \A i \in 1..n : s[i] \in S
  OBVIOUS
<1>2. /\ SubSeq(s, 1, n) \in Seq(S)
      /\ Len(SubSeq(s, 1, n)) = IF 1 <= n THEN n - 1 + 1 ELSE 0
      /\ \A i \in 1..(n - 1 + 1) : SubSeq(s, 1, n)[i] = s[1 + i - 1]
  BY <1>1, SubSeqProperties
<1> QED BY <1>1, <1>2

LEMMA StartExists ==
  ASSUME NEW S, NEW s \in Seq(S), NEW n \in 0..Len(s)
  PROVE  \E t \in Seq(S) : t = SubSeq(s, 1, n) /\ Len(t) = n /\ \A i \in 1..n : t[i] = s[i]
<1>1. PICK t : t = SubSeq(s, 1, n)
  OBVIOUS
<1>2. t \in Seq(S) /\ Len(t) = n /\ \A i \in 1..n : t[i] = s[i]
  BY <1>1, StartFacts
<1> QED BY <1>1, <1>2

LEMMA AppendKeepsStart ==
  ASSUME NEW S, NEW s \in Seq(S), NEW b \in S, NEW n \in 0..Len(s)
  PROVE  SubSeq(Append(s, b), 1, n) = SubSeq(s, 1, n)
<1>1. Append(s, b) \in Seq(S) /\ Len(Append(s, b)) = Len(s) + 1
  OBVIOUS
<1>2. \A i \in 1..Len(s) : Append(s, b)[i] = s[i]
  OBVIOUS
<1>3. PICK t \in Seq(S) : t = SubSeq(Append(s, b), 1, n) /\ Len(t) = n /\ \A i \in 1..n : t[i] = Append(s, b)[i]
  <2>1. PICK c \in Seq(S) : c = Append(s, b) /\ Len(c) = Len(s) + 1
    BY <1>1
  <2>2. n \in 0..Len(c)
    BY <2>1
  <2>3. \E t \in Seq(S) : t = SubSeq(c, 1, n) /\ Len(t) = n /\ \A i \in 1..n : t[i] = c[i]
    BY <2>2, StartExists
  <2> QED BY <2>1, <2>3
<1>4. PICK u \in Seq(S) : u = SubSeq(s, 1, n) /\ Len(u) = n /\ \A i \in 1..n : u[i] = s[i]
  BY StartExists
<1>5. t = u
  BY <1>2, <1>3, <1>4, SeqEqual
<1> QED BY <1>3, <1>4, <1>5

\* a byte is written: by the shell while it lives, by the descendant at any time
LEMMA SpeaksKeeps == ASSUME CommandInv, Speaks PROVE CommandInv'
<1>0. /\ spoken \in Seq(Bytes) /\ taken \in 0..Len(spoken) /\ parent.output \in Seq(Bytes)
      /\ parent \in ParentRec
      /\ UNCHANGED <<sh, bg, ends, taken, parent, flag, late, reply>>
      /\ parent.at # "returned" /\ Len(spoken) < SpeechBound
  BY DEF CommandInv, CommandTypes, ParentRec, Speaks, Watched
<1>1. PICK b \in Bytes : spoken' = Append(spoken, b) /\ (b # "bg" => sh.state = "running")
  BY DEF Speaks, Bytes
<1>2. /\ spoken' \in Seq(Bytes) /\ Len(spoken') = Len(spoken) + 1 /\ spoken'[Len(spoken) + 1] = b
      /\ \A i \in 1..Len(spoken) : spoken'[i] = spoken[i]
  BY <1>0, <1>1
<1>3. CommandTypes'
  <2>1. Len(spoken') <= SpeechBound
    BY <1>0, <1>2, CommandAssumption
  <2>2. taken' \in 0..Len(spoken')
    BY <1>0, <1>2
  <2> QED BY <1>0, <1>2, <2>1, <2>2 DEF CommandInv, CommandTypes
<1>4. ChildInv'
  BY <1>0 DEF CommandInv, ChildInv, WasCut
<1>5. PlaceInv'
  BY <1>0 DEF CommandInv, PlaceInv, WasCut, Ran
<1>6. KeptInv'
  <2>1. PICK n : n = Len(parent.output)
    OBVIOUS
  <2>2. /\ parent.output = SubSeq(spoken, 1, n) /\ n <= taken /\ n <= OutputCap /\ n \in Nat
        /\ IF parent.cut THEN n = OutputCap ELSE n = taken
    BY <1>0, <2>1 DEF CommandInv, KeptInv
  <2>3. SubSeq(spoken', 1, n) = SubSeq(spoken, 1, n)
    BY <1>0, <1>1, <2>2, AppendKeepsStart
  <2> QED BY <1>0, <2>1, <2>2, <2>3 DEF KeptInv
<1>7. ReadInv'
  <2>1. SUFFICES ASSUME parent.done, parent.open, parent.at \notin {"poll", "drain"} PROVE ShellRead'
    BY <1>0 DEF ReadInv
  <2>2. ShellRead /\ b = "bg"
    BY <1>1, <2>1 DEF CommandInv, ReadInv, ChildInv
  <2> QED BY <1>0, <1>2, <2>2 DEF ShellRead
<1>8. ReplyInv'
  BY <1>0 DEF ReplyInv, Ran
<1> QED BY <1>3, <1>4, <1>5, <1>6, <1>7, <1>8 DEF CommandInv

\* the caller moves on with the pipe as it was
LEMMA CallerMoves ==
  ASSUME CommandInv, parent' \in ParentRec, sh' \in ShellRec, bg' \in BackgroundRec,
         ends' \subseteq {"caller", "sh", "bg"}, UNCHANGED <<spoken, taken, flag, late>>,
         parent'.output = parent.output, parent'.cut = parent.cut,
         ChildInv', PlaceInv', ~Ran',
         parent'.done /\ parent'.open /\ parent'.at \notin {"poll", "drain"} => ShellRead
  PROVE  CommandInv'
<1>1. CommandTypes'
  BY DEF CommandInv, CommandTypes
<1>2. KeptInv'
  BY DEF CommandInv, KeptInv
<1>3. ReadInv'
  BY DEF ReadInv, ShellRead
<1>4. ReplyInv'
  BY DEF ReplyInv
<1> QED BY <1>1, <1>2, <1>3, <1>4 DEF CommandInv

Places == {"spawn", "close", "group", "test", "wait", "look", "kill", "reap", "poll",
           "drain", "glance", "answer", "returned"}
\* only the caller's place changes
Only(at) == /\ parent' \in ParentRec /\ parent'.at = at
            /\ parent'.open = parent.open /\ parent'.done = parent.done
            /\ parent'.output = parent.output /\ parent'.cut = parent.cut
            /\ parent'.why = parent.why /\ parent'.back = parent.back

LEMMA GoesOnly == ASSUME CommandInv, NEW at \in Places, Goes(at) PROVE Only(at)
<1>1. parent \in ParentRec /\ parent' = [parent EXCEPT !.at = at]
  BY DEF CommandInv, CommandTypes, Goes
<1>2. parent' \in ParentRec
  BY <1>1, ZenonT(30) DEF ParentRec, Places
<1>3. /\ parent'.at = at
      /\ parent'.open = parent.open /\ parent'.done = parent.done
      /\ parent'.output = parent.output /\ parent'.cut = parent.cut
      /\ parent'.why = parent.why /\ parent'.back = parent.back
  BY <1>1 DEF ParentRec
<1> QED BY <1>2, <1>3 DEF Only

LEMMA SpawnSteps ==
  ASSUME CommandInv, Forks \/ SpawnFails \/ ClosesEnd \/ ParentGroups PROVE CommandInv'
<1>0. /\ sh \in ShellRec /\ bg \in BackgroundRec /\ ends \subseteq {"caller", "sh", "bg"}
      /\ parent \in ParentRec /\ UNCHANGED <<bg, spoken, taken, flag, late>>
      /\ parent.at \in Early
  BY DEF CommandInv, CommandTypes, Forks, SpawnFails, ClosesEnd, ParentGroups, Early
<1>1. ~parent.done /\ parent.why = "" /\ ~WasCut /\ sh.status # Slain
  BY <1>0 DEF CommandInv, PlaceInv, ChildInv, WasCut
<1>2. CASE Forks
  <2>1. Only("close")
    BY <1>2, GoesOnly DEF Forks, Goes, Places
  <2>2. /\ sh' \in ShellRec /\ sh'.state = "forked" /\ sh'.status = sh.status
        /\ ends' \subseteq {"caller", "sh", "bg"}
    BY <1>0, <1>2 DEF Forks, ShellRec
  <2>3. ChildInv'
    BY <1>0, <1>1, <2>1, <2>2 DEF ChildInv, WasCut, Only, Early
  <2>4. PlaceInv'
    BY <1>1, <2>1 DEF PlaceInv, WasCut, Only, Early, Ran
  <2>5. ~Ran' /\ ~parent'.done
    BY <1>1, <2>1 DEF Ran, Only
  <2> QED BY <1>0, <2>1, <2>2, <2>3, <2>4, <2>5, CallerMoves DEF Only
<1>3. CASE SpawnFails
  <2>1. parent' = [parent EXCEPT !.at = "returned", !.why = "failed"] /\ parent.at = "spawn"
    BY <1>3 DEF SpawnFails
  <2>2. parent' \in ParentRec
    BY <1>0, <2>1, ZenonT(30) DEF ParentRec
  <2>3. /\ parent'.at = "returned" /\ parent'.why = "failed" /\ parent'.done = parent.done
        /\ parent'.output = parent.output /\ parent'.cut = parent.cut
    BY <1>0, <2>1 DEF ParentRec
  <2>4. sh' = sh /\ ends' = ends /\ sh.state = "none"
    BY <1>3, <2>1 DEF SpawnFails, CommandInv, ChildInv
  <2>5. ChildInv'
    BY <1>1, <2>3, <2>4 DEF ChildInv, WasCut, Early
  <2>6. PlaceInv'
    BY <1>1, <2>3 DEF PlaceInv, WasCut, Early, Ran
  <2>7. ~Ran' /\ ~parent'.done
    BY <1>1, <2>3 DEF Ran
  <2> QED BY <1>0, <2>2, <2>3, <2>4, <2>5, <2>6, <2>7, CallerMoves
<1>4. CASE ClosesEnd
  <2>1. Only("group") /\ sh' = sh /\ ends' \subseteq ends
    BY <1>4, GoesOnly DEF ClosesEnd, Goes, Places
  <2>2. sh.state # "none"
    BY <1>4 DEF CommandInv, ChildInv, ClosesEnd
  <2>3. ChildInv'
    BY <1>0, <1>1, <2>1, <2>2 DEF CommandInv, ChildInv, WasCut, Only, Early
  <2>4. PlaceInv'
    BY <1>1, <2>1 DEF PlaceInv, WasCut, Only, Early, Ran
  <2>5. ~Ran' /\ ~parent'.done
    BY <1>1, <2>1 DEF Ran, Only
  <2> QED BY <1>0, <2>1, <2>3, <2>4, <2>5, CallerMoves DEF Only
<1>5. CASE ParentGroups
  <2>1. Only("test") /\ ends' = ends
    BY <1>5, GoesOnly DEF ParentGroups, Goes, Places
  <2>2. sh.state # "none"
    BY <1>5 DEF CommandInv, ChildInv, ParentGroups
  <2>3. PICK g \in BOOLEAN : g = (sh.grouped \/ sh.state = "forked")
    OBVIOUS
  <2>4. sh' = [sh EXCEPT !.grouped = g]
    BY <1>5, <2>3 DEF ParentGroups
  <2>5. sh' \in ShellRec
    BY <1>0, <2>4, ZenonT(30) DEF ShellRec
  <2>6. sh'.state = sh.state /\ sh'.status = sh.status /\ sh'.grouped
    <3>1. sh.state = "forked" \/ sh.grouped
      BY <1>0, <2>2 DEF CommandInv, ChildInv, ShellRec
    <3>2. sh'.state = sh.state /\ sh'.status = sh.status /\ sh'.grouped = g
      BY <1>0, <2>4 DEF ShellRec
    <3> QED BY <2>3, <3>1, <3>2
  <2>7. ChildInv'
    BY <1>0, <1>1, <2>1, <2>2, <2>6 DEF CommandInv, ChildInv, WasCut, Only, Early
  <2>8. PlaceInv'
    BY <1>1, <2>1 DEF PlaceInv, WasCut, Only, Early, Ran
  <2>9. ~Ran' /\ ~parent'.done
    BY <1>1, <2>1 DEF Ran, Only
  <2> QED BY <1>0, <2>1, <2>5, <2>7, <2>8, <2>9, CallerMoves DEF Only
<1> QED BY <1>2, <1>3, <1>4, <1>5

\* the last byte of the child is read once the pipe of a reaped child is empty
LEMMA EmptyIsRead == ASSUME CommandInv, Unread = 0 PROVE ShellRead
<1>1. spoken \in Seq(Bytes) /\ taken \in 0..Len(spoken) /\ Len(spoken) - taken = 0
  BY DEF CommandInv, CommandTypes, Unread
<1>2. taken = Len(spoken)
  BY <1>1
<1> QED BY <1>1, <1>2 DEF ShellRead

LEMMA LoopSteps ==
  ASSUME CommandInv, GracePasses \/ LoopTest \/ Reaps \/ LooksAtStop PROVE CommandInv'
<1>0. /\ sh \in ShellRec /\ bg \in BackgroundRec /\ ends \subseteq {"caller", "sh", "bg"}
      /\ parent \in ParentRec /\ UNCHANGED <<bg, ends, spoken, taken, flag, late>>
  BY DEF CommandInv, CommandTypes, GracePasses, LoopTest, Reaps, LooksAtStop
<1>2. CASE GracePasses
  <2>1. parent' = [parent EXCEPT !.grace = FALSE] /\ sh' = sh /\ parent.at \in {"test", "poll", "drain"}
    BY <1>2 DEF GracePasses
  <2>2. parent' \in ParentRec
    BY <1>0, <2>1, ZenonT(30) DEF ParentRec
  <2>3. Only(parent.at)
    BY <1>0, <2>1, <2>2 DEF ParentRec, Only
  <2>4. ChildInv'
    BY <1>0, <2>1, <2>3 DEF CommandInv, ChildInv, WasCut, Only, Early
  <2>5. PlaceInv'
    BY <1>0, <2>1, <2>3 DEF CommandInv, PlaceInv, WasCut, Only, Early, Ran
  <2>6. ~Ran'
    BY <2>1, <2>3 DEF Ran, Only
  <2>7. parent'.done /\ parent'.open /\ parent'.at \notin {"poll", "drain"} => ShellRead
    BY <2>3 DEF CommandInv, ReadInv, Only
  <2> QED BY <1>0, <2>1, <2>2, <2>3, <2>4, <2>5, <2>6, <2>7, CallerMoves DEF Only
<1>3. CASE LoopTest
  <2>0. parent.at = "test" /\ sh' = sh /\ parent.why = "" /\ ~WasCut
    BY <1>3 DEF LoopTest, CommandInv, PlaceInv, WasCut
  <2>1. PICK at \in {"answer", "poll", "wait"} :
          Only(at) /\ (at = "answer" => parent.done) /\ (at = "poll" => parent.done)
                   /\ (at = "wait" => ~parent.done)
    <3>1. PICK at : /\ at = (IF ~GoesOn THEN "answer" ELSE IF parent.done THEN "poll" ELSE "wait")
                    /\ Goes(at)
      BY <1>3 DEF LoopTest
    <3>2. /\ at \in {"answer", "poll", "wait"} /\ at = "answer" => parent.done
          /\ (at = "poll" => parent.done) /\ (at = "wait" => ~parent.done)
      BY <3>1 DEF GoesOn
    <3> QED BY <3>1, <3>2, GoesOnly DEF Places
  <2>2. ChildInv'
    BY <1>0, <2>0, <2>1 DEF CommandInv, ChildInv, WasCut, Only, Early
  <2>3. PlaceInv'
    BY <1>0, <2>0, <2>1 DEF CommandInv, PlaceInv, WasCut, Only, Early, Ran
  <2>4. ~Ran'
    BY <2>1 DEF Ran, Only
  <2>5. parent'.done /\ parent'.open /\ parent'.at \notin {"poll", "drain"} => ShellRead
    BY <2>0, <2>1 DEF CommandInv, ReadInv, Only
  <2> QED BY <1>0, <2>0, <2>1, <2>2, <2>3, <2>4, <2>5, CallerMoves DEF Only
<1>4. CASE Reaps
  <2>0. parent.at = "wait" /\ parent.why = "" /\ ~parent.done /\ ~WasCut
    BY <1>4 DEF Reaps, CommandInv, PlaceInv, WasCut
  <2>1. CASE sh.state = "exited"
    <3>1. /\ sh' = [sh EXCEPT !.state = "reaped"]
          /\ parent' = [parent EXCEPT !.done = TRUE, !.at = "poll"]
      BY <1>4, <2>1 DEF Reaps
    <3>2. parent' \in ParentRec
      BY <1>0, <3>1, ZenonT(30) DEF ParentRec
    <3>3. /\ parent'.at = "poll" /\ parent'.done /\ parent'.open = parent.open
          /\ parent'.output = parent.output /\ parent'.cut = parent.cut
          /\ parent'.why = parent.why /\ parent'.back = parent.back
      BY <1>0, <3>1 DEF ParentRec
    <3>4. /\ sh' \in ShellRec /\ sh'.state = "reaped" /\ sh'.grouped = sh.grouped
          /\ sh'.status = sh.status
      BY <1>0, <3>1 DEF ShellRec
    <3>5. ChildInv'
      BY <1>0, <2>0, <2>1, <3>3, <3>4 DEF CommandInv, ChildInv, WasCut, Early
    <3>6. PlaceInv'
      BY <1>0, <2>0, <3>3 DEF CommandInv, PlaceInv, WasCut, Early, Ran
    <3>7. ~Ran'
      BY <3>3 DEF Ran
    <3> QED BY <1>0, <3>2, <3>3, <3>4, <3>5, <3>6, <3>7, CallerMoves
  <2>2. CASE sh.state # "exited"
    <3>1. sh' = sh /\ Only("look")
      BY <1>4, <2>2, GoesOnly DEF Reaps, Places
    <3>2. ChildInv'
      BY <1>0, <2>0, <3>1 DEF CommandInv, ChildInv, WasCut, Only, Early
    <3>3. PlaceInv'
      BY <1>0, <2>0, <3>1 DEF CommandInv, PlaceInv, WasCut, Only, Early, Ran
    <3>4. ~Ran' /\ ~parent'.done
      BY <2>0, <3>1 DEF Ran, Only
    <3> QED BY <1>0, <3>1, <3>2, <3>3, <3>4, CallerMoves DEF Only
  <2> QED BY <2>1, <2>2
<1>5. CASE LooksAtStop
  <2>0. parent.at = "look" /\ parent.why = "" /\ ~parent.done /\ ~WasCut /\ sh' = sh
    BY <1>5 DEF LooksAtStop, CommandInv, PlaceInv, WasCut
  <2>1. PICK at, why :
          /\ (at = "kill" /\ why \in {"interrupted", "timed out"}) \/ (at = "poll" /\ why = "")
          /\ parent' = [parent EXCEPT !.at = at, !.why = why]
    <3>1. PICK at, why : /\ at = (IF flag \/ late THEN "kill" ELSE "poll")
                         /\ why = (IF flag THEN "interrupted" ELSE IF late THEN "timed out" ELSE "")
                         /\ parent' = [parent EXCEPT !.at = at, !.why = why]
      BY <1>5 DEF LooksAtStop
    <3>2. (at = "kill" /\ why \in {"interrupted", "timed out"}) \/ (at = "poll" /\ why = "")
      BY <3>1
    <3> QED BY <3>1, <3>2
  <2>2. parent' \in ParentRec
    BY <1>0, <2>1, ZenonT(30) DEF ParentRec
  <2>3. /\ parent'.at = at /\ parent'.why = why /\ parent'.done = parent.done
        /\ parent'.open = parent.open /\ parent'.output = parent.output
        /\ parent'.cut = parent.cut /\ parent'.back = parent.back
    BY <1>0, <2>1 DEF ParentRec
  <2>4. ChildInv'
    BY <1>0, <2>0, <2>1, <2>3 DEF CommandInv, ChildInv, WasCut, Early
  <2>5. PlaceInv'
    BY <1>0, <2>0, <2>1, <2>3 DEF PlaceInv, WasCut, Early, Ran
  <2>6. ~Ran' /\ ~parent'.done
    BY <2>0, <2>1, <2>3 DEF Ran
  <2> QED BY <1>0, <2>0, <2>2, <2>3, <2>4, <2>5, <2>6, CallerMoves
<1> QED BY <1>2, <1>3, <1>4, <1>5

LEMMA StopSteps == ASSUME CommandInv, Kills \/ BlockingReap PROVE CommandInv'
<1>0. /\ sh \in ShellRec /\ bg \in BackgroundRec /\ ends \subseteq {"caller", "sh", "bg"}
      /\ parent \in ParentRec /\ UNCHANGED <<spoken, taken, flag, late>>
      /\ parent.at \in {"kill", "reap"} /\ ~parent.done /\ WasCut
      /\ parent.why # "" /\ parent.why # "failed"
  BY DEF CommandInv, CommandTypes, PlaceInv, WasCut, Kills, BlockingReap
<1>2. CASE Kills
  <2>0. parent.at = "kill" /\ sh.grouped /\ ends' \subseteq ends
    BY <1>2 DEF Kills, CommandInv, ChildInv, Early
  <2>1. PICK code \in Int : sh' = [sh EXCEPT !.state = "exited", !.status = code]
    <3>1. PICK code : /\ code = (IF Lives THEN Slain ELSE sh.status)
                      /\ sh' = [sh EXCEPT !.state = "exited", !.status = code]
      BY <1>2 DEF Kills
    <3>2. sh.status \in Int
      BY <1>0 DEF ShellRec
    <3>3. Slain \in Int
      BY DEF Slain
    <3>4. code = Slain \/ code = sh.status
      BY <3>1
    <3> QED BY <3>1, <3>2, <3>3, <3>4
  <2>2. sh' \in ShellRec /\ sh'.state = "exited" /\ sh'.grouped = sh.grouped
    BY <1>0, <2>1 DEF ShellRec
  <2>3. PICK state : /\ bg' = [bg EXCEPT !.state = state]
                     /\ state = IF "bg" \in KilledTogether /\ bg.state = "running" THEN "gone" ELSE bg.state
    BY <1>2 DEF Kills
  <2>4. /\ bg' \in BackgroundRec /\ bg'.away = bg.away /\ bg'.state = state
    BY <1>0, <2>3 DEF BackgroundRec
  <2>5. bg'.state = "running" => bg'.away
    BY <2>0, <2>3, <2>4 DEF KilledTogether
  <2>6. Only("reap")
    BY <1>2, GoesOnly DEF Kills, Places
  <2>7. ChildInv'
    BY <1>0, <2>0, <2>2, <2>5, <2>6 DEF CommandInv, ChildInv, WasCut, Only, Early
  <2>8. PlaceInv'
    BY <1>0, <2>2, <2>6 DEF PlaceInv, WasCut, Only, Early, Ran
  <2>9. ~Ran' /\ ~parent'.done
    BY <1>0, <2>6 DEF Ran, Only
  <2> QED BY <1>0, <2>0, <2>2, <2>4, <2>6, <2>7, <2>8, <2>9, CallerMoves DEF Only
<1>3. CASE BlockingReap
  <2>0. parent.at = "reap" /\ sh.state = "exited" /\ bg' = bg /\ ends' = ends
    BY <1>3 DEF BlockingReap
  <2>1. sh' = [sh EXCEPT !.state = "reaped"]
    BY <1>3 DEF BlockingReap
  <2>2. sh' \in ShellRec /\ sh'.state = "reaped" /\ sh'.grouped = sh.grouped /\ sh'.status = sh.status
    BY <1>0, <2>1 DEF ShellRec
  <2>3. PICK at : /\ at = IF parent.open THEN "drain" ELSE "answer"
                  /\ parent' = [parent EXCEPT !.done = TRUE, !.at = at, !.back = "again"]
    BY <1>3 DEF BlockingReap
  <2>a. at \in {"drain", "answer"}
    BY <2>3
  <2>4. parent' \in ParentRec
    BY <1>0, <2>3, <2>a, ZenonT(30) DEF ParentRec
  <2>5. /\ parent'.at = at /\ parent'.done /\ parent'.open = parent.open /\ parent'.back = "again"
        /\ parent'.output = parent.output /\ parent'.cut = parent.cut /\ parent'.why = parent.why
    BY <1>0, <2>3 DEF ParentRec
  <2>6. ChildInv'
    BY <1>0, <2>0, <2>2, <2>5, <2>a DEF CommandInv, ChildInv, WasCut, Early
  <2>7. PlaceInv'
    BY <1>0, <2>5, <2>a DEF PlaceInv, WasCut, Early, Ran
  <2>8. ~Ran' /\ (parent'.open => parent'.at = "drain")
    BY <2>3, <2>5, <2>a DEF Ran
  <2> QED BY <1>0, <2>0, <2>2, <2>4, <2>5, <2>6, <2>7, <2>8, CallerMoves
<1> QED BY <1>2, <1>3

LEMMA PipeSteps == ASSUME CommandInv, Polls \/ DrainEnds \/ Glances PROVE CommandInv'
<1>0. /\ sh \in ShellRec /\ bg \in BackgroundRec /\ ends \subseteq {"caller", "sh", "bg"}
      /\ parent \in ParentRec /\ UNCHANGED <<sh, bg, ends, spoken, taken, flag, late>>
  BY DEF CommandInv, CommandTypes, Polls, DrainEnds, Glances
<1>2. CASE Polls
  <2>0. parent.at = "poll" /\ parent.why = "" /\ ~WasCut
    BY <1>2 DEF Polls, CommandInv, PlaceInv, WasCut
  <2>1. CASE parent' = [parent EXCEPT !.at = "drain", !.back = "test"]
    <3>1. parent' \in ParentRec
      BY <1>0, <2>1, ZenonT(30) DEF ParentRec
    <3>2. /\ parent'.at = "drain" /\ parent'.done = parent.done /\ parent'.open = parent.open
          /\ parent'.output = parent.output /\ parent'.cut = parent.cut
          /\ parent'.why = parent.why /\ parent'.back = "test"
      BY <1>0, <2>1 DEF ParentRec
    <3>3. ChildInv' /\ PlaceInv' /\ ~Ran'
      BY <1>0, <2>0, <3>2 DEF CommandInv, ChildInv, PlaceInv, WasCut, Early, Ran
    <3> QED BY <1>0, <3>1, <3>2, <3>3, CallerMoves
  <2>2. CASE (~parent.open \/ Unread = 0) /\ Goes("test")
    <3>1. Only("test")
      BY <2>2, GoesOnly DEF Places
    <3>2. ChildInv' /\ PlaceInv' /\ ~Ran'
      BY <1>0, <2>0, <3>1 DEF CommandInv, ChildInv, PlaceInv, WasCut, Only, Early, Ran
    <3>3. parent'.open => ShellRead
      BY <2>2, <3>1, EmptyIsRead DEF Only
    <3> QED BY <1>0, <3>1, <3>2, <3>3, CallerMoves DEF Only
  <2>3. CASE parent' = [parent EXCEPT !.open = FALSE, !.at = "test"]
    <3>1. parent' \in ParentRec
      BY <1>0, <2>3, ZenonT(30) DEF ParentRec
    <3>2. /\ parent'.at = "test" /\ parent'.done = parent.done /\ ~parent'.open
          /\ parent'.output = parent.output /\ parent'.cut = parent.cut
          /\ parent'.why = parent.why /\ parent'.back = parent.back
      BY <1>0, <2>3 DEF ParentRec
    <3>3. ChildInv' /\ PlaceInv' /\ ~Ran'
      BY <1>0, <2>0, <3>2 DEF CommandInv, ChildInv, PlaceInv, WasCut, Early, Ran
    <3> QED BY <1>0, <3>1, <3>2, <3>3, CallerMoves
  <2> QED BY <1>2, <2>1, <2>2, <2>3 DEF Polls
<1>3. CASE DrainEnds
  <2>0. parent.at = "drain" /\ ShellRead /\ parent' = AfterDrain(ends # {})
    BY <1>3, EmptyIsRead DEF DrainEnds
  <2>1. CASE parent.back = "test"
    <3>0. parent.why = "" /\ ~WasCut
      BY <2>0, <2>1 DEF CommandInv, PlaceInv, WasCut
    <3>1. PICK open \in BOOLEAN : parent' = [parent EXCEPT !.at = "test", !.open = open]
      <4>1. PICK open : open = (parent.open /\ ends # {})
        OBVIOUS
      <4> QED BY <2>0, <2>1, <4>1 DEF AfterDrain
    <3>2. parent' \in ParentRec
      BY <1>0, <3>1, ZenonT(30) DEF ParentRec
    <3>3. /\ parent'.at = "test" /\ parent'.done = parent.done
          /\ parent'.output = parent.output /\ parent'.cut = parent.cut
          /\ parent'.why = parent.why /\ parent'.back = parent.back
      BY <1>0, <3>1 DEF ParentRec
    <3>4. ChildInv' /\ PlaceInv' /\ ~Ran'
      BY <1>0, <2>0, <3>0, <3>3 DEF CommandInv, ChildInv, PlaceInv, WasCut, Early, Ran
    <3> QED BY <1>0, <2>0, <3>2, <3>3, <3>4, CallerMoves
  <2>2. CASE parent.back # "test"
    <3>0. parent.why # "" /\ parent.why # "failed" /\ WasCut /\ parent.done
      BY <1>0, <2>0, <2>2 DEF CommandInv, PlaceInv, WasCut, ParentRec
    <3>1. PICK at \in {"glance", "answer"}, back \in {"answer", parent.back} :
            /\ parent' = [parent EXCEPT !.at = at, !.back = back]
            /\ at = "glance" => back = "answer"
      <4>1. CASE parent.back = "again" /\ ends # {}
        BY <2>0, <4>1 DEF AfterDrain
      <4>2. CASE ~(parent.back = "again" /\ ends # {})
        <5>1. parent' = [parent EXCEPT !.at = "answer"]
          BY <2>0, <2>2, <4>2 DEF AfterDrain
        <5>2. parent' = [parent EXCEPT !.at = "answer", !.back = parent.back]
          BY <1>0, <5>1, ZenonT(30) DEF ParentRec
        <5> QED BY <5>2
      <4> QED BY <4>1, <4>2
    <3>2. parent' \in ParentRec
      BY <1>0, <3>1, ZenonT(30) DEF ParentRec
    <3>3. /\ parent'.at = at /\ parent'.done = parent.done /\ parent'.open = parent.open
          /\ parent'.output = parent.output /\ parent'.cut = parent.cut
          /\ parent'.why = parent.why /\ parent'.back = back
      BY <1>0, <3>1 DEF ParentRec
    <3>4. ChildInv' /\ PlaceInv' /\ ~Ran'
      BY <1>0, <2>0, <3>0, <3>1, <3>3 DEF CommandInv, ChildInv, PlaceInv, WasCut, Early, Ran
    <3> QED BY <1>0, <2>0, <3>2, <3>3, <3>4, CallerMoves
  <2> QED BY <2>1, <2>2
<1>4. CASE Glances
  <2>0. parent.at = "glance" /\ WasCut /\ parent.done
    BY <1>4 DEF Glances, CommandInv, PlaceInv
  <2>1. PICK at \in {"drain", "answer"} : Only(at)
    <3>1. PICK at : at = (IF Unread > 0 \/ ends = {} THEN "drain" ELSE "answer") /\ Goes(at)
      BY <1>4 DEF Glances
    <3> QED BY <3>1, GoesOnly DEF Places
  <2>2. ChildInv' /\ ~Ran'
    BY <1>0, <2>0, <2>1 DEF CommandInv, ChildInv, WasCut, Only, Early, Ran
  <2>3. parent'.done /\ parent'.open /\ parent'.at \notin {"poll", "drain"} => ShellRead
    BY <2>0, <2>1 DEF CommandInv, ReadInv, Only
  <2>4. PlaceInv'
    BY <1>0, <2>0, <2>1 DEF CommandInv, PlaceInv, WasCut, Only, Early, Ran
  <2> QED BY <1>0, <2>1, <2>2, <2>3, <2>4, CallerMoves DEF Only
<1> QED BY <1>2, <1>3, <1>4

\* past the cap bytes are taken and dropped
LEMMA ReadKeeps == ASSUME CommandInv, DrainReads PROVE CommandInv'
<1>0. /\ sh \in ShellRec /\ parent \in ParentRec /\ UNCHANGED <<sh, bg, ends, spoken, flag, late, reply>>
      /\ spoken \in Seq(Bytes) /\ taken \in 0..Len(spoken) /\ parent.output \in Seq(Bytes)
      /\ parent.at = "drain" /\ OutputCap \in Nat /\ ReadSize \in Nat \ {0}
  BY CommandAssumption DEF CommandInv, CommandTypes, ParentRec, DrainReads
<1>1. PICK n \in Nat : n = Len(parent.output)
  BY <1>0
<1>2. /\ parent.output = SubSeq(spoken, 1, n) /\ n <= taken /\ n <= OutputCap
      /\ IF parent.cut THEN n = OutputCap ELSE n = taken
  BY <1>1 DEF CommandInv, KeptInv
<1>3. PICK count \in Nat, fits \in Nat :
        /\ count = ReadCount /\ fits = Fits /\ taken + count <= Len(spoken)
        /\ fits <= count /\ n + fits <= OutputCap
        /\ (fits < count => n + fits = OutputCap) /\ (n = OutputCap => fits = 0)
  <2>1. PICK count \in Nat : count = ReadCount /\ taken + count <= Len(spoken)
    <3>1. ReadCount \in Nat /\ taken + ReadCount <= Len(spoken)
      BY <1>0 DEF ReadCount, Unread
    <3> QED BY <3>1
  <2>a. n <= OutputCap /\ OutputCap \in Nat
    BY <1>0, <1>2
  <2>b. Room = OutputCap - n
    BY <1>1 DEF Room
  <2>c. OutputCap - n \in Nat
    BY <2>a
  <2>2. PICK room \in Nat : room = Room /\ room = OutputCap - n
    BY <2>b, <2>c
  <2>3. PICK fits : fits = Fits /\ fits = IF count < room THEN count ELSE room
    BY <2>1, <2>2 DEF Fits
  <2>4. fits \in Nat /\ fits <= count /\ n + fits <= OutputCap /\ (fits < count => n + fits = OutputCap)
        /\ (n = OutputCap => fits = 0)
    BY <2>a, <2>2, <2>3
  <2> QED BY <2>1, <2>3, <2>4
<1>4. PICK cut \in BOOLEAN : cut = (parent.cut \/ fits < count)
  OBVIOUS
<1>5. PICK output : output = parent.output \o SubSeq(spoken, taken + 1, taken + fits)
  OBVIOUS
<1>6. taken' = taken + count /\ parent' = [parent EXCEPT !.output = output, !.cut = cut]
  BY <1>3, <1>4, <1>5 DEF DrainReads
<1>7. output = SubSeq(spoken, 1, n + fits) /\ output \in Seq(Bytes) /\ Len(output) = n + fits
  <2>1. CASE parent.cut
    <3>1. fits = 0 /\ SubSeq(spoken, taken + 1, taken + fits) = <<>>
      BY <1>0, <1>2, <1>3, <2>1, SubSeqEmpty
    <3>2. output = parent.output
      BY <1>0, <1>5, <3>1
    <3> QED BY <1>0, <1>1, <1>2, <3>1, <3>2
  <2>2. CASE ~parent.cut
    <3>1. n = taken
      BY <1>2, <2>2
    <3>2. /\ 1 \in 1..(Len(spoken) + 1) /\ n \in (1 - 1)..Len(spoken)
          /\ n + fits \in n..Len(spoken) /\ n + fits \in 0..Len(spoken)
      BY <1>0, <1>3, <3>1
    <3>3. SubSeq(spoken, 1, n) \o SubSeq(spoken, n + 1, n + fits) = SubSeq(spoken, 1, n + fits)
      BY <1>0, <3>2, ConcatAdjacentSubSeq
    <3>4. output = SubSeq(spoken, 1, n + fits)
      BY <1>2, <1>5, <3>1, <3>3
    <3> QED BY <1>0, <3>2, <3>4, StartFacts
  <2> QED BY <2>1, <2>2
<1>8. parent' \in ParentRec
  BY <1>0, <1>6, <1>7, ZenonT(30) DEF ParentRec
<1>9. /\ parent'.at = "drain" /\ parent'.done = parent.done /\ parent'.open = parent.open
      /\ parent'.output = output /\ parent'.cut = cut
      /\ parent'.why = parent.why /\ parent'.back = parent.back
  BY <1>0, <1>6 DEF ParentRec
<1>10. CommandTypes'
  <2>1. taken' \in 0..Len(spoken)
    BY <1>0, <1>3, <1>6
  <2> QED BY <1>0, <1>8, <2>1 DEF CommandInv, CommandTypes
<1>11. ChildInv'
  BY <1>0, <1>9 DEF CommandInv, ChildInv, WasCut, Early
<1>12. PlaceInv'
  BY <1>0, <1>9 DEF CommandInv, PlaceInv, WasCut, Early, Ran
<1>13. KeptInv'
  <2>1. PICK k \in Nat : k = n + fits
    BY <1>1, <1>3
  <2>2. k <= taken' /\ k <= OutputCap /\ IF cut THEN k = OutputCap ELSE k = taken'
    <3>1. taken \in Nat /\ taken' = taken + count /\ n <= taken
      BY <1>0, <1>2, <1>6
    <3>2. k <= taken' /\ k <= OutputCap
      BY <1>3, <2>1, <3>1
    <3>3. CASE parent.cut
      <4>1. cut /\ n = OutputCap /\ fits = 0
        BY <1>2, <1>3, <1>4, <3>3
      <4> QED BY <2>1, <3>2, <4>1
    <3>4. CASE ~parent.cut
      <4>1. n = taken /\ (cut <=> fits < count)
        BY <1>2, <1>4, <3>4
      <4>2. cut => k = OutputCap
        BY <1>3, <2>1, <4>1
      <4>3. ~cut => k = taken'
        BY <1>3, <2>1, <3>1, <4>1
      <4> QED BY <3>2, <4>2, <4>3
    <3> QED BY <3>3, <3>4
  <2>3. parent'.output = SubSeq(spoken', 1, k) /\ Len(parent'.output) = k
    BY <1>0, <1>7, <1>9, <2>1
  <2> QED BY <1>9, <2>2, <2>3 DEF KeptInv
<1>14. ReadInv' /\ ReplyInv'
  BY <1>9 DEF ReadInv, ReplyInv, Ran
<1> QED BY <1>10, <1>11, <1>12, <1>13, <1>14 DEF CommandInv

LEMMA AnswerKeeps == ASSUME CommandInv, AnswerCall PROVE CommandInv'
<1>0. /\ parent.at = "answer" /\ UNCHANGED <<sh, bg, ends, spoken, taken, flag, late>>
      /\ Only("returned") /\ parent.done
  BY GoesOnly DEF AnswerCall, Places, CommandInv, PlaceInv
<1>1. CommandTypes'
  BY <1>0 DEF CommandInv, CommandTypes, Only
<1>2. ChildInv'
  BY <1>0 DEF CommandInv, ChildInv, PlaceInv, WasCut, Early, Only
<1>3. PlaceInv'
  BY <1>0 DEF CommandInv, PlaceInv, WasCut, Early, Only, Ran
<1>4. KeptInv'
  BY <1>0 DEF CommandInv, KeptInv, Only
<1>5. ReadInv'
  BY <1>0 DEF CommandInv, ReadInv, ShellRead, Only
<1>6. ReplyInv'
  BY <1>0 DEF ReplyInv, AnswerCall, Only, ExitOf
<1> QED BY <1>1, <1>2, <1>3, <1>4, <1>5, <1>6 DEF CommandInv

LEMMA CommandStep == CommandInv /\ [CommandNext]_commandVars => CommandInv'
<1> SUFFICES ASSUME CommandInv, [CommandNext]_commandVars PROVE CommandInv'
  OBVIOUS
<1>1. CASE UNCHANGED commandVars
  <2>1. UNCHANGED <<sh, bg, ends, spoken, taken, parent, flag, late, reply>>
    BY <1>1 DEF commandVars
  <2>2. CommandTypes' /\ ChildInv'
    BY <2>1 DEF CommandInv, CommandTypes, ChildInv, WasCut
  <2>3. PlaceInv'
    BY <2>1 DEF CommandInv, PlaceInv, WasCut, Ran
  <2>4. KeptInv' /\ ReadInv' /\ ReplyInv'
    BY <2>1, CallerStays
  <2> QED BY <2>2, <2>3, <2>4 DEF CommandInv
<1> QED
  BY <1>1, ShellSteps, AroundSteps, SpeaksKeeps, SpawnSteps, LoopSteps, StopSteps, PipeSteps,
     ReadKeeps, AnswerKeeps DEF CommandNext

\* Where the caller of a command stands says what its child can be, what it keeps
\* is the beginning of what was written, and it has read the last byte of a child it reaped
THEOREM CommandInvariant == CommandSpec => []CommandInv
<1>1. CommandInit => CommandInv
  BY CommandStart
<1>2. CommandInv /\ [CommandNext]_commandVars => CommandInv'
  BY CommandStep
<1> QED BY <1>1, <1>2, PTL DEF CommandSpec

\* The caller is at a step of its loop and never keeps more than the cap
THEOREM CommandTypesHold == CommandSpec => []CommandTypeOK
<1>1. CommandInv => CommandTypeOK
  BY DEF CommandInv, CommandTypes, KeptInv, ShellRec, BackgroundRec, CommandTypeOK
<1> QED BY <1>1, CommandInvariant, PTL

\* a prefix, element by element
LEMMA PrefixIs ==
  ASSUME NEW S, NEW a \in Seq(S), NEW b \in Seq(S)
  PROVE  IsPrefix(a, b) <=> Len(a) <= Len(b) /\ \A i \in 1..Len(a) : a[i] = b[i]
<1>1. SubSeq(a, 1, Len(a)) = a
  BY SubSeqFull
<1>2. ASSUME Len(a) <= Len(b)
      PROVE  a = SubSeq(b, 1, Len(a)) <=> \A i \in 1..Len(a) : a[i] = b[i]
  <2>1. PICK n \in 0..Len(b) : n = Len(a)
    BY <1>2
  <2>a. \E t \in Seq(S) : t = SubSeq(b, 1, n) /\ Len(t) = n /\ \A i \in 1..n : t[i] = b[i]
    <3>1. PICK t : t = SubSeq(b, 1, n)
      OBVIOUS
    <3>2. t \in Seq(S) /\ Len(t) = n /\ \A i \in 1..n : t[i] = b[i]
      BY <3>1, StartFacts
    <3> QED BY <3>1, <3>2
  <2>2. PICK t \in Seq(S) : t = SubSeq(b, 1, Len(a)) /\ Len(t) = Len(a) /\ \A i \in 1..Len(a) : t[i] = b[i]
    BY <2>1, <2>a
  <2>3. a = t <=> \A i \in 1..Len(a) : a[i] = t[i]
    BY <2>2, SeqEqual
  <2> QED BY <2>2, <2>3
<1> QED BY <1>1, <1>2 DEF IsPrefix

LEMMA PrefixTransitive ==
  ASSUME NEW S, NEW a \in Seq(S), NEW b \in Seq(S), NEW c \in Seq(S), IsPrefix(a, b), IsPrefix(b, c)
  PROVE  IsPrefix(a, c)
<1>1. Len(a) <= Len(b) /\ \A i \in 1..Len(a) : a[i] = b[i]
  BY PrefixIs
<1>2. Len(b) <= Len(c) /\ \A i \in 1..Len(b) : b[i] = c[i]
  BY PrefixIs
<1>3. Len(a) <= Len(c) /\ \A i \in 1..Len(a) : a[i] = c[i]
  BY <1>1, <1>2
<1> QED BY <1>3, PrefixIs

LEMMA PrefixOfJoin ==
  ASSUME NEW S, NEW a \in Seq(S), NEW b \in Seq(S), NEW c \in Seq(S), IsPrefix(a, b)
  PROVE  IsPrefix(a, b \o c)
<1>1. Len(a) <= Len(b) /\ \A i \in 1..Len(a) : a[i] = b[i]
  BY PrefixIs
<1>2. b \o c \in Seq(S) /\ Len(b \o c) = Len(b) + Len(c) /\ \A i \in 1..Len(b) : (b \o c)[i] = b[i]
  BY ConcatProperties
<1>3. Len(a) <= Len(b \o c) /\ \A i \in 1..Len(a) : a[i] = (b \o c)[i]
  BY <1>1, <1>2
<1> QED BY <1>2, <1>3, PrefixIs

\* what flattening the first sequences gives begins what flattening them all gives
LEMMA FlattenGrows ==
  ASSUME NEW S, NEW s \in Seq(Seq(S)), NEW n \in 1..Len(s), NEW f, Flattens(f, s, Len(s))
  PROVE  IsPrefix(f[n], f[Len(s)])
<1> DEFINE Bad == {m \in n..Len(s) : ~IsPrefix(f[n], f[m])}
<1>0. /\ n \in Nat /\ Len(s) \in Nat /\ Len(s) \in 1..Len(s) /\ \A i \in 1..Len(s) : s[i] \in Seq(S)
  OBVIOUS
<1> DEFINE last == Len(s)
<1> HIDE DEF Bad
<1>1. \A i \in 1..last : f[i] \in Seq(S) /\ f[i] = IF i = 1 THEN s[i] ELSE f[i-1] \o s[i]
  <2>1. last \in 1..Len(s) /\ Flattens(f, s, last)
    BY <1>0
  <2> HIDE DEF last
  <2> QED BY <2>1, FlattenTyped
<1> USE DEF Bad
<1>2. ASSUME Bad # {} PROVE FALSE
  <2>1. Bad \subseteq Nat
    OBVIOUS
  <2>2. PICK m \in Bad : \A k \in Bad : m <= k
    <3> HIDE DEF Bad
    <3> QED BY <1>2, <2>1, LeastNat
  <2>3. m \in n..Len(s) /\ m \in Nat /\ m \in 1..Len(s) /\ ~IsPrefix(f[n], f[m])
    BY <1>0
  <2>4. m # n
    BY <1>1, <2>3, PrefixIs
  <2>5. m - 1 \in n..Len(s) /\ m - 1 \in 1..Len(s) /\ m # 1 /\ ~(m <= m - 1)
    BY <1>0, <2>3, <2>4
  <2>6. IsPrefix(f[n], f[m-1])
    BY <2>2, <2>5
  <2>7. f[m] = f[m-1] \o s[m] /\ s[m] \in Seq(S) /\ f[m-1] \in Seq(S) /\ f[n] \in Seq(S)
    BY <1>0, <1>1, <2>3, <2>5
  <2> QED BY <2>3, <2>6, <2>7, PrefixOfJoin
<1>3. Len(s) \in n..Len(s)
  BY <1>0
<1> QED BY <1>2, <1>3

LEMMA FlattenPrefix ==
  ASSUME NEW S, NEW s \in Seq(Seq(S)), NEW n \in 0..Len(s)
  PROVE  IsPrefix(FlattenSeq(SubSeq(s, 1, n)), FlattenSeq(s))
<1>0. FlattenSeq(s) \in Seq(S) /\ <<>> \in Seq(S) /\ Len(<<>>) = 0 /\ Len(s) \in Nat /\ n \in Nat
  BY FlattenType
<1>1. PICK t \in Seq(Seq(S)) : t = SubSeq(s, 1, n) /\ Len(t) = n /\ \A i \in 1..n : t[i] = s[i]
  BY StartExists
<1>2. CASE n = 0
  <2>1. FlattenSeq(t) = <<>>
    BY <1>1, <1>2 DEF FlattenSeq
  <2>2. Len(FlattenSeq(s)) \in Nat
    BY <1>0
  <2>3. IsPrefix(<<>>, FlattenSeq(s))
    <3>1. PICK a \in Seq(S), b \in Seq(S) : a = <<>> /\ b = FlattenSeq(s) /\ Len(a) = 0
      BY <1>0
    <3>2. Len(a) <= Len(b) /\ \A i \in 1..Len(a) : a[i] = b[i]
      BY <2>2, <3>1
    <3>3. IsPrefix(a, b)
      BY <3>2, PrefixIs
    <3> QED BY <3>1, <3>3
  <2> QED BY <1>1, <2>1, <2>3
<1>3. CASE n # 0
  <2>1. Len(t) > 0 /\ Len(s) > 0 /\ n \in 1..Len(s)
    BY <1>0, <1>1, <1>3
  <2>a. Len(t) > 0
    BY <2>1
  <2>2. PICK g : Flattens(g, t, Len(t)) /\ FlattenSeq(t) = g[Len(t)]
    BY <2>a, FlattenIs
  <2>3. PICK f : Flattens(f, s, Len(s)) /\ FlattenSeq(s) = f[Len(s)]
    BY <2>1, FlattenIs
  <2>4. \A i \in 1..n : g[i] = IF i = 1 THEN s[i] ELSE g[i-1] \o s[i]
    BY <1>1, <2>2 DEF Flattens
  <2>5. \A i \in 1..Len(s) : f[i] = IF i = 1 THEN s[i] ELSE f[i-1] \o s[i]
    BY <2>3 DEF Flattens
  <2> DEFINE Bad == {i \in 1..n : g[i] # f[i]}
  <2>6. ASSUME Bad # {} PROVE FALSE
    <3>1. Bad \subseteq Nat
      OBVIOUS
    <3>2. PICK m \in Bad : \A k \in Bad : m <= k
      <4> HIDE DEF Bad
      <4> QED BY <2>6, <3>1, LeastNat
    <3>3. m \in 1..n /\ m \in Nat /\ m \in 1..Len(s) /\ g[m] # f[m]
      BY <1>0
    <3>4. m # 1
      BY <2>4, <2>5, <3>3
    <3>5. m - 1 \in 1..n /\ ~(m <= m - 1)
      BY <1>0, <3>3, <3>4
    <3>6. g[m-1] = f[m-1]
      BY <3>2, <3>5
    <3> QED BY <2>4, <2>5, <3>3, <3>4, <3>6
  <2>7. g[n] = f[n]
    <3>1. n \in 1..n
      BY <1>0, <1>3
    <3> QED BY <2>6, <3>1
  <2>8. IsPrefix(f[n], f[Len(s)])
    BY <2>1, <2>3, FlattenGrows
  <2> QED BY <1>1, <2>2, <2>3, <2>7, <2>8
<1> QED BY <1>2, <1>3

LEMMA FlattenSingles ==
  ASSUME NEW S, NEW s \in Seq(Seq(S)), \A i \in 1..Len(s) : Len(s[i]) = 1
  PROVE  Len(FlattenSeq(s)) = Len(s)
<1>1. CASE Len(s) = 0
  BY <1>1 DEF FlattenSeq
<1>2. CASE Len(s) > 0
  <2>1. PICK f : Flattens(f, s, Len(s)) /\ FlattenSeq(s) = f[Len(s)]
    BY <1>2, FlattenIs
  <2>0. Len(s) \in Nat /\ Len(s) \in 1..Len(s) /\ \A i \in 1..Len(s) : s[i] \in Seq(S)
    BY <1>2
  <2>2. \A i \in 1..Len(s) : f[i] \in Seq(S) /\ f[i] = IF i = 1 THEN s[i] ELSE f[i-1] \o s[i]
    BY <2>0, <2>1, FlattenTyped
  <2> DEFINE Bad == {i \in 1..Len(s) : Len(f[i]) # i}
  <2>3. ASSUME Bad # {} PROVE FALSE
    <3>1. Bad \subseteq Nat
      OBVIOUS
    <3>2. PICK m \in Bad : \A k \in Bad : m <= k
      <4> HIDE DEF Bad
      <4> QED BY <2>3, <3>1, LeastNat
    <3>3. m \in 1..Len(s) /\ m \in Nat /\ Len(f[m]) # m
      BY <2>0
    <3>4. m # 1
      BY <2>2, <3>3
    <3>5. m - 1 \in 1..Len(s) /\ ~(m <= m - 1)
      BY <2>0, <3>3, <3>4
    <3>6. Len(f[m-1]) = m - 1
      BY <3>2, <3>5
    <3>7. f[m] = f[m-1] \o s[m] /\ f[m-1] \in Seq(S) /\ s[m] \in Seq(S) /\ Len(s[m]) = 1
      BY <2>0, <2>2, <3>3, <3>4, <3>5
    <3>8. Len(f[m]) = Len(f[m-1]) + Len(s[m])
      <4>1. PICK a \in Seq(S), b \in Seq(S) : a = f[m-1] /\ b = s[m] /\ f[m] = a \o b
        BY <3>7
      <4>2. Len(a \o b) = Len(a) + Len(b)
        BY ConcatProperties
      <4> QED BY <4>1, <4>2
    <3> QED BY <3>3, <3>6, <3>7, <3>8
  <2>4. Len(f[Len(s)]) = Len(s)
    BY <2>0, <2>3
  <2> QED BY <2>1, <2>4
<1> QED BY <1>1, <1>2

(***************************************************************************)
(* What the answer says of the output.                                     *)
(***************************************************************************)
Chars == Bytes \cup {"?"}
Piece(b) == IF b = "bad" THEN <<"?", "?">> ELSE <<b>>
Pieces(bytes) == [i \in DOMAIN bytes |-> Piece(bytes[i])]

LEMMA PiecesType ==
  ASSUME NEW bytes \in Seq(Bytes)
  PROVE  /\ Pieces(bytes) \in Seq(Seq(Chars)) /\ Len(Pieces(bytes)) = Len(bytes)
         /\ \A i \in 1..Len(bytes) : Pieces(bytes)[i] = Piece(bytes[i])
         /\ Sanitized(bytes) = FlattenSeq(Pieces(bytes)) /\ Sanitized(bytes) \in Seq(Chars)
<1>1. \A b \in Bytes : Piece(b) \in Seq(Chars)
  <2>1. "?" \in Chars /\ \A b \in Bytes : b \in Chars
    BY DEF Chars
  <2> QED BY <2>1 DEF Piece
<1>2. DOMAIN bytes = 1..Len(bytes) /\ Len(bytes) \in Nat /\ \A i \in 1..Len(bytes) : bytes[i] \in Bytes
  OBVIOUS
<1>3. Pieces(bytes) \in Seq(Seq(Chars)) /\ Len(Pieces(bytes)) = Len(bytes)
  BY <1>1, <1>2 DEF Pieces
<1>4. \A i \in 1..Len(bytes) : Pieces(bytes)[i] = Piece(bytes[i])
  BY <1>2 DEF Pieces
<1>5. Sanitized(bytes) = FlattenSeq(Pieces(bytes))
  BY DEF Sanitized, Pieces, Piece
<1> QED BY <1>3, <1>4, <1>5, FlattenType

LEMMA SanitizedStart ==
  ASSUME NEW bytes \in Seq(Bytes), NEW n \in 0..Len(bytes)
  PROVE  IsPrefix(Sanitized(SubSeq(bytes, 1, n)), Sanitized(bytes))
<1>1. PICK start \in Seq(Bytes) :
        start = SubSeq(bytes, 1, n) /\ Len(start) = n /\ \A i \in 1..n : start[i] = bytes[i]
  BY StartExists
<1>2. PICK s \in Seq(Seq(Chars)) :
        /\ s = Pieces(bytes) /\ Len(s) = Len(bytes) /\ Sanitized(bytes) = FlattenSeq(s)
        /\ \A i \in 1..Len(bytes) : s[i] = Piece(bytes[i])
  BY PiecesType
<1>3. PICK t \in Seq(Seq(Chars)) :
        /\ t = Pieces(start) /\ Len(t) = n /\ Sanitized(start) = FlattenSeq(t)
        /\ \A i \in 1..n : t[i] = Piece(start[i])
  <2>1. /\ Pieces(start) \in Seq(Seq(Chars)) /\ Len(Pieces(start)) = Len(start)
        /\ \A i \in 1..Len(start) : Pieces(start)[i] = Piece(start[i])
        /\ Sanitized(start) = FlattenSeq(Pieces(start))
    BY PiecesType
  <2>2. \A i \in 1..n : Pieces(start)[i] = Piece(start[i])
    BY <1>1, <2>1
  <2> QED BY <1>1, <2>1, <2>2
<1>4. n \in 0..Len(s)
  BY <1>2
<1>5. PICK u \in Seq(Seq(Chars)) : u = SubSeq(s, 1, n) /\ Len(u) = n /\ \A i \in 1..n : u[i] = s[i]
  <2>1. PICK u : u = SubSeq(s, 1, n)
    OBVIOUS
  <2>2. u \in Seq(Seq(Chars)) /\ Len(u) = n /\ \A i \in 1..n : u[i] = s[i]
    BY <1>4, <2>1, StartFacts
  <2> QED BY <2>1, <2>2
<1>6. t = u
  <2>1. \A i \in 1..n : i \in 1..Len(bytes) /\ t[i] = u[i]
    BY <1>1, <1>2, <1>3, <1>5
  <2> QED BY <1>3, <1>5, <2>1, SeqEqual
<1>7. IsPrefix(FlattenSeq(SubSeq(s, 1, n)), FlattenSeq(s))
  BY <1>4, FlattenPrefix
<1> QED BY <1>1, <1>2, <1>3, <1>5, <1>6, <1>7

LEMMA SanitizedGood ==
  ASSUME NEW bytes \in Seq(Bytes), \A i \in 1..Len(bytes) : bytes[i] # "bad"
  PROVE  Len(Sanitized(bytes)) = Len(bytes)
<1>1. PICK s \in Seq(Seq(Chars)) :
        /\ Len(s) = Len(bytes) /\ Sanitized(bytes) = FlattenSeq(s)
        /\ \A i \in 1..Len(bytes) : s[i] = Piece(bytes[i])
  BY PiecesType
<1>2. ASSUME NEW i \in 1..Len(s) PROVE Len(s[i]) = 1
  <2>1. s[i] = <<bytes[i]>>
    BY <1>1 DEF Piece
  <2> QED BY <2>1
<1> QED BY <1>1, <1>2, FlattenSingles

LEMMA CutIs ==
  ASSUME NEW text \in Seq(Chars), NEW n \in Nat
  PROVE  /\ CutTo(text, n) \in Seq(Chars) /\ IsPrefix(CutTo(text, n), text)
         /\ Len(text) <= n => Len(CutTo(text, n)) = Len(text)
<1>1. PICK k \in 0..Len(text) : k = (IF Len(text) < n THEN Len(text) ELSE n)
  OBVIOUS
<1>2. CutTo(text, n) = SubSeq(text, 1, k)
  BY <1>1 DEF CutTo
<1>3. PICK cut \in Seq(Chars) :
        cut = SubSeq(text, 1, k) /\ Len(cut) = k /\ \A i \in 1..k : cut[i] = text[i]
  BY StartExists
<1>4. IsPrefix(cut, text)
  <2>1. Len(cut) <= Len(text)
    BY <1>3
  <2> QED BY <1>3, <2>1, PrefixIs
<1>5. Len(text) <= n => k = Len(text)
  BY <1>1
<1> QED BY <1>2, <1>3, <1>4, <1>5

\* However the exit, the stop, the output and a descendant are timed: no zombie
\* and nothing of the group is left, the status is the child's own, the output is
\* what was written up to the last byte, and no tool hides a stop or a cut
THEOREM CommandHonestHolds == CommandSpec => []CommandHonest
<1>1. ASSUME CommandInv PROVE CommandHonest
  <2> USE <1>1 DEF CommandInv
  <2>1. parent.at = "reap" => ~Lives
    BY DEF PlaceInv, Lives
  <2>2. ASSUME Ran PROVE sh.state = "reaped" /\ parent.why # "failed" /\ parent.done
    BY <2>2 DEF ChildInv, PlaceInv, Ran
  <2>3. ASSUME Ran
        PROVE  /\ reply.exit = ExitOf(sh.status) /\ reply.truncated = parent.cut
               /\ reply.interrupted = (parent.why = "interrupted")
               /\ reply.timed_out = (parent.why = "timed out")
               /\ reply.output = CutTo(Sanitized(parent.output), OutputCap)
    <3>1. PICK stopped, timed, text :
            /\ stopped = (parent.why = "interrupted") /\ timed = (parent.why = "timed out")
            /\ text = CutTo(Sanitized(parent.output), OutputCap)
      OBVIOUS
    <3>2. reply = [exit |-> ExitOf(sh.status), interrupted |-> stopped, timed_out |-> timed,
                   truncated |-> parent.cut, output |-> text]
      BY <2>3, <3>1 DEF ReplyInv
    <3>3. /\ reply.exit = ExitOf(sh.status) /\ reply.truncated = parent.cut
          /\ reply.interrupted = stopped /\ reply.timed_out = timed /\ reply.output = text
      BY <3>2
    <3> QED BY <3>1, <3>3
  <2>4. ASSUME Ran, parent.why # "" PROVE reply.exit = -1 /\ (bg.state = "running" => bg.away)
    <3>1. WasCut /\ parent.at = "returned"
      BY <2>4 DEF CommandTypes, ParentRec, WasCut, Ran
    <3> QED BY <2>3, <2>4, <3>1 DEF ExitOf, ChildInv
  <2>5. ASSUME Ran, parent.why = "" PROVE reply.exit = sh.status /\ sh.status # Slain
    <3>1. ~WasCut
      BY <2>5 DEF WasCut
    <3> QED BY <2>3, <2>5, <3>1 DEF ExitOf, ChildInv
  <2>0. parent \in ParentRec /\ spoken \in Seq(Bytes) /\ taken \in 0..Len(spoken)
    BY DEF CommandTypes
  <2>a. parent.output \in Seq(Bytes) /\ parent.cut \in BOOLEAN
    BY <2>0 DEF ParentRec
  <2>6. PICK n \in Nat : /\ n = Len(parent.output) /\ parent.output = SubSeq(spoken, 1, n)
                         /\ n <= taken /\ n <= OutputCap /\ (~parent.cut => n = taken)
    <3>1. Len(parent.output) \in Nat
      BY <2>a
    <3> QED BY <3>1 DEF KeptInv
  <2>7. /\ spoken \in Seq(Bytes) /\ taken \in 0..Len(spoken) /\ parent.output \in Seq(Bytes)
        /\ n \in 0..Len(spoken) /\ OutputCap \in Nat
    BY <2>0, <2>a, <2>6, CommandAssumption
  <2>8. ASSUME Ran PROVE IsPrefix(reply.output, Sanitized(spoken))
    <3>1. PICK text \in Seq(Chars) : text = Sanitized(parent.output)
      BY <2>7, PiecesType
    <3>2. PICK all \in Seq(Chars) : all = Sanitized(spoken)
      BY <2>7, PiecesType
    <3>3. IsPrefix(text, all)
      BY <2>6, <2>7, <3>1, <3>2, SanitizedStart
    <3>4. reply.output \in Seq(Chars) /\ IsPrefix(reply.output, text)
      BY <2>3, <2>7, <2>8, <3>1, CutIs
    <3> QED BY <3>2, <3>3, <3>4, PrefixTransitive
  <2>9. ASSUME Ran, PipeHeld PROVE taken >= LastOfShell
    <3>1. ShellRead
      <4>1. CASE parent.open
        BY <2>2, <2>9, <4>1 DEF ReadInv, Ran
      <4>2. CASE AtEnd
        BY <4>2, EmptyIsRead DEF AtEnd
      <4> QED BY <2>9, <4>1, <4>2 DEF PipeHeld
    <3> DEFINE I == {i \in 1..Len(spoken) : spoken[i] # "bg"}
    <3>2. LastOfShell = IF I # {} THEN Max(I) ELSE 0
      BY DEF LastOfShell, SelectLastInSeq
    <3>3. \A i \in I : i <= taken
      BY <3>1 DEF ShellRead
    <3>4. Len(spoken) \in Nat /\ I \subseteq 0..Len(spoken) /\ taken \in Nat
      BY <2>7
    <3> HIDE DEF I
    <3>5. CASE I = {}
      BY <3>2, <3>4, <3>5
    <3>6. CASE I # {}
      <4>1. Max(I) \in I
        BY <3>4, <3>6, GreatestIn
      <4>2. PICK m \in I : m = Max(I)
        BY <4>1
      <4>3. m <= taken /\ m \in Nat
        BY <3>3, <3>4
      <4> QED BY <3>2, <3>4, <3>6, <4>2, <4>3
    <3> QED BY <3>5, <3>6
  <2>10. ASSUME Ran, "bad" \notin ToSet(spoken), ~reply.truncated PROVE Len(reply.output) = taken
    <3>1. ~parent.cut /\ n = taken
      BY <2>3, <2>6, <2>10
    <3>2. \A i \in 1..Len(parent.output) : parent.output[i] # "bad"
      <4>1. \A i \in 1..Len(spoken) : spoken[i] # "bad"
        BY <2>7, <2>10 DEF ToSet
      <4>2. \A i \in 1..n : parent.output[i] = spoken[i] /\ i \in 1..Len(spoken)
        BY <2>6, <2>7, StartFacts
      <4> QED BY <2>6, <4>1, <4>2
    <3>3. Len(Sanitized(parent.output)) = n /\ Sanitized(parent.output) \in Seq(Chars)
      BY <2>6, <2>7, <3>2, SanitizedGood, PiecesType
    <3>4. Len(CutTo(Sanitized(parent.output), OutputCap)) = n
      BY <2>6, <2>7, <3>3, CutIs
    <3> QED BY <2>3, <2>10, <3>1, <3>4
  <2>11. ASSUME Ran, NEW a \in ToolAnswers, a.success PROVE parent.why = ""
    <3>1. parent.why \in {"", "interrupted", "timed out"}
      BY <2>0, <2>2, <2>11 DEF ParentRec
    <3>2. \A r : Finished0(r) \/ NotError2(r) => ~WasStopped(r)
      BY DEF Finished0, NotError2
    <3>3. a.success => ~WasStopped(reply) \/ HookCode(reply) = 0
      <4>1. PICK ok, mark : a = ToolAnswer(ok, mark) /\ (ok => ~WasStopped(reply) \/ HookCode(reply) = 0)
        <5>1. CASE a \in {ProcessAnswer(reply, FALSE), ProcessAnswer(reply, TRUE)}
          BY <5>1 DEF ProcessAnswer
        <5>2. CASE a = HookAnswer(reply)
          BY <5>2 DEF HookAnswer
        <5>3. CASE a \in {BashAnswer(reply), GitAnswer(reply), FindAnswer(reply),
                          GrepAnswer(reply), DiffAnswer(reply)}
          BY <3>2, <5>3 DEF BashAnswer, GitAnswer, FindAnswer, GrepAnswer, DiffAnswer
        <5> QED BY <2>11, <5>1, <5>2, <5>3 DEF ToolAnswers, WholeAnswers
      <4> QED BY <4>1 DEF ToolAnswer
    <3>4. ~WasStopped(reply) \/ HookCode(reply) = 0 => ~reply.interrupted /\ ~reply.timed_out
      BY DEF WasStopped, HookCode
    <3>5. ~reply.interrupted /\ ~reply.timed_out
      BY <2>11, <3>3, <3>4
    <3> QED BY <2>3, <2>11, <3>1, <3>5
  <2>12. ASSUME Ran, NEW a \in WholeAnswers, a.success PROVE a.marked = reply.truncated
    <3>1. ~WasStopped(reply)
      <4>1. parent.why = ""
        BY <2>11, <2>12 DEF ToolAnswers
      <4> QED BY <2>3, <2>12, <4>1 DEF WasStopped
    <3>2. reply.truncated \in BOOLEAN
      BY <2>3, <2>12, <2>a
    <3>3. PICK ok, mark : a = ToolAnswer(ok, mark) /\ mark \in BOOLEAN /\ (ok => (mark <=> reply.truncated))
      <4>1. \A r : Finished0(r) \/ NotError2(r) => ~WasStopped(r)
        BY DEF Finished0, NotError2
      <4> QED BY <2>12, <3>1, <4>1 DEF WholeAnswers, BashAnswer, GitAnswer, FindAnswer, GrepAnswer, DiffAnswer,
           ProcessAnswer, HookAnswer
    <3>4. a.success = ok /\ a.marked = mark
      BY <3>3 DEF ToolAnswer
    <3> QED BY <2>12, <3>2, <3>3, <3>4
  <2> QED BY <2>1, <2>2, <2>4, <2>5, <2>8, <2>9, <2>10, <2>11, <2>12 DEF CommandHonest
<1> QED BY <1>1, CommandInvariant, PTL
=============================================================================
