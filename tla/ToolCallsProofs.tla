-------------------------- MODULE ToolCallsProofs --------------------------
(***************************************************************************)
(* What is proved of one episode as its data sees it, for every workspace, *)
(* menu of calls and number of calls and failures (ToolCalls, ErrorClasses,*)
(* Grading and Toolbox).                                                   *)
(***************************************************************************)
EXTENDS ToolCalls, FoldLemmas

-----------------------------------------------------------------------------
(* The inductive invariant *)

AnyPath == Paths \cup {Outside, Config, Readme, Limits, Changelog, Version}

Verbs == {"none", "overwrite", "append", "cat", "ls", "pytest", "script"}

FaultSeen ==
  [step : Nat, kind : Kinds \cup {"none"}, path : AnyPath,
   mode : {"none", "transient", "sticky"}, origin : {"none", "injected", "staged"}]

Row ==
  [n : Nat, call : [tool : {"read_file", "list_dir", "write_file", "run_command"},
                    verb : Verbs, path : AnyPath],
   step : Nat, mutating : BOOLEAN, fault : FaultSeen,
   outcome : {"ok", "error", "short_circuit", "ack_lost"}, exit : Nat,
   origin : {"none", "real", "injected", "staged"}, code : Codes, interrupted : BOOLEAN]

Past ==
  [call : Menu[scenario], ran : BOOLEAN, landed : BOOLEAN, clean : BOOLEAN, turn : BOOLEAN,
   fault : Kinds \cup {"none"}, readable : SUBSET Files, wrote : BOOLEAN]

\* The variables have their shapes.
Shapes ==
  /\ scenario \in Played
  /\ ep \in [step : Nat, plan : {Scenario[scenario].plan}, hits : Seq(Int), ledger : Seq(Row)]
  /\ DOMAIN tree \subseteq Files \cup {EvalFile} /\ \A f \in DOMAIN tree : tree[f] \in Nat
  /\ alive \in BOOLEAN /\ phase \in {"running", "ended", "graded", "ungraded"}
  /\ seen \in Seq(FaultSeen)
  /\ results \in Seq(Result) /\ truth \in Seq(Past) /\ Len(results) = Len(truth)
  /\ late \subseteq DOMAIN truth /\ breaks \in 0 .. MaxBreaks
  /\ deferred \in Seq([call : Menu[scenario], code : Codes])
  /\ phase \in {"graded", "ungraded"} => late = {} /\ deferred = << >>
  /\ verdict.score \in 0 .. 1000

\* A fault only counts down.
HitsCount ==
  /\ Len(ep.hits) = Len(ep.plan)
  /\ \A i \in DOMAIN ep.plan :
       IF ep.plan[i].hits = Unlimited THEN ep.hits[i] = Unlimited
       ELSE ep.hits[i] \in 0 .. ep.plan[i].hits

\* What happened and what the harness holds of it speak of the same calls.
Lined ==
  /\ \A n \in DOMAIN truth : results[n].call = truth[n].call
  /\ \A n \in DOMAIN truth : ~truth[n].turn =>
       results[n].outcome = "unknown" /\ results[n].reply.lost # "none"
  /\ \A n \in late : ~truth[n].turn
  /\ \A n \in DOMAIN truth : truth[n].wrote => IsMutating(truth[n].call)

\* A row and the call it is about.
RowTells(r) ==
  /\ r.step <= ep.step /\ r.call.path # Outside
  /\ r.fault = NoFault <=> r.fault.kind = "none"
  /\ r.n = 0 => r.interrupted /\ r.fault = NoFault /\ r.outcome = "error"
  /\ r.n # 0 =>
       /\ r.n \in DOMAIN truth \ late
       /\ r.call = truth[r.n].call /\ r.mutating = IsMutating(r.call)
       /\ r.fault.kind = truth[r.n].fault
       /\ truth[r.n].turn /\ truth[r.n].clean => (LedgerSideEffect(r) <=> truth[r.n].ran)

Told == \A i \in DOMAIN ep.ledger : RowTells(ep.ledger[i])

\* Every row of a call is of a later step than the rows before it.
Stepped ==
  \A i, j \in DOMAIN ep.ledger : i < j =>
    /\ ep.ledger[i].step <= ep.ledger[j].step
    /\ ep.ledger[j].n # 0 =>
         ep.ledger[i].step < ep.ledger[j].step /\ ep.ledger[i].n # ep.ledger[j].n

\* A call left a row, unless it was refused or something broke.
HasRow(n) == \E i \in DOMAIN ep.ledger : ep.ledger[i].n = n
Rowed ==
  \A n \in DOMAIN truth :
    \/ truth[n].wrote \/ truth[n].fault # "none"
    \/ truth[n].turn /\ truth[n].clean /\ truth[n].call.path # Outside
    => HasRow(n)

\* Without late calls the rows stand in the order of the calls, the notes last.
Turns == \A n \in DOMAIN truth : truth[n].turn
Ordered ==
  /\ phase = "running" => \A i \in DOMAIN ep.ledger : ep.ledger[i].n # 0
  /\ Turns => \A i, j \in DOMAIN ep.ledger : i < j /\ ep.ledger[j].n # 0 =>
                ep.ledger[i].n # 0 /\ ep.ledger[i].n < ep.ledger[j].n

\* What the harness has not seen fired in a call it did not hear about.
Unheard(kind) ==
  \E m \in DOMAIN truth : truth[m].fault = kind /\ (truth[m].turn => ~Heard(m))

GoodFault(f) ==
  /\ f \in FaultSeen /\ f.kind \in Kinds
  /\ f.origin = IF f.kind = "missing_file" /\ f.mode = "sticky" THEN "staged" ELSE "injected"

\* At most one fault fires in a step.
Dated(F, n) ==
  /\ F \in Seq(FaultSeen)
  /\ \A i \in DOMAIN F : GoodFault(F[i]) /\ F[i].step \in 1 .. n
  /\ \A i, j \in DOMAIN F : i < j => F[i].step < F[j].step

FaultsKnown ==
  LET F == FaultsFired(ep.ledger)
  IN  /\ Dated(F, ep.step)
      /\ Len(seen) <= Len(F) /\ \A i \in DOMAIN seen : seen[i] = F[i]
      /\ \A i \in DOMAIN F : i > Len(seen) => Unheard(F[i].kind)

\* A report needs a lost answer.
Reports ==
  /\ \A i \in DOMAIN deferred : deferred[i].call.path # Outside
  /\ deferred # << >> \/ (\E i \in DOMAIN ep.ledger : ep.ledger[i].interrupted)
     => \E n \in DOMAIN results : results[n].reply.lost # "none"

\* The acknowledgement is lost once, of a write to the changelog, which is there
\* to be read whatever happens.
AckLostOnce ==
  /\ Changelog \in DOMAIN tree
  /\ \A i \in DOMAIN ep.ledger : ep.ledger[i].fault.kind = "ack_lost" =>
       /\ ep.ledger[i].fault.path = Changelog /\ ep.ledger[i].outcome = "ack_lost"
       /\ \A p \in DOMAIN ep.plan : ep.plan[p].kind = "ack_lost" => ep.hits[p] = 0
       /\ \A j \in DOMAIN ep.ledger : ep.ledger[j].fault.kind = "ack_lost" => i = j
  /\ \A i \in DOMAIN ep.ledger :
       /\ ep.ledger[i].n # 0 /\ ep.ledger[i].outcome = "ok"
       /\ IsRead(ep.ledger[i].call) /\ Touches(Changelog, ep.ledger[i].call)
       /\ results[ep.ledger[i].n].reply.lost = "none"
       => results[ep.ledger[i].n].outcome = "executed"

\* What the grade was taken from.
Graded ==
  /\ ScoreIsEarned /\ ResolutionIsTrue
  /\ phase = "graded" /\ "verified_before_rewrite" \in verdict.ok =>
       VerifiedBeforeRewrite(ep.ledger)
  /\ phase # "graded" => resolution = {}

IInv ==
  /\ Shapes /\ HitsCount /\ Lined /\ Told /\ Stepped /\ Rowed /\ Ordered
  /\ FaultsKnown /\ Reports /\ AckLostOnce /\ Graded
  /\ OutcomeIsTrue /\ ListingAgrees

-----------------------------------------------------------------------------
(* Folds over a sequence are what they are meant to be *)

\* The function a fold over 1 .. n is the last value of: h is one step.
Folds(n, A, base, h, it) ==
  /\ it \in [SUBSET (1 .. n) -> A]
  /\ \A S \in SUBSET (1 .. n) :
       it[S] = IF S = {} THEN base ELSE h[<<Max(S), it[S \ {Max(S)}]>>]

\* It exists, when the step stays within A.
LEMMA FoldDefined ==
  ASSUME NEW n \in Nat, NEW A, NEW base \in A, NEW h \in [(1 .. n) \X A -> A]
  PROVE  \E it : Folds(n, A, base, h, it)
<1> DEFINE D == SUBSET (1 .. n)
           rhs(it, S) == IF S = {} THEN base ELSE h[<<Max(S), it[S \ {Max(S)}]>>]
           P == {k \in Nat : \E it \in [D -> A] :
                    \A S \in D : S \subseteq 1 .. k => it[S] = rhs(it, S)}
<1>0. ASSUME NEW it \in [D -> A], NEW S \in D PROVE rhs(it, S) \in A
  <2>1. CASE S = {}
    BY <2>1
  <2>2. CASE S # {}
    <3>1. Max(S) \in 1 .. n /\ S \ {Max(S)} \in D
      BY <2>2, MaxIs
    <3> QED
      BY <2>2, <3>1
  <2> QED
    BY <2>1, <2>2
<1>1. 0 \in P
  <2> DEFINE it == [S \in D |-> base]
  <2>1. \A S \in D : S \subseteq 1 .. 0 => it[S] = rhs(it, S)
    OBVIOUS
  <2> QED
    BY <2>1
<1>2. ASSUME NEW k \in Nat, k \in P PROVE k + 1 \in P
  <2>1. PICK it \in [D -> A] : \A S \in D : S \subseteq 1 .. k => it[S] = rhs(it, S)
    BY <1>2
  <2> HIDE DEF rhs
  <2> DEFINE g == [S \in D |-> rhs(it, S)]
  <2>2. g \in [D -> A]
    BY <1>0
  <2>3. ASSUME NEW S \in D, S \subseteq 1 .. (k + 1) PROVE g[S] = rhs(g, S)
    <3>1. CASE S = {}
      BY <3>1 DEF rhs
    <3>2. CASE S # {}
      <4>1. Max(S) \in S /\ \A y \in S : Max(S) >= y
        BY <3>2, MaxIs
      <4> DEFINE R == S \ {Max(S)}
      <4>2. R \in D /\ R \subseteq 1 .. k
        <5> SUFFICES ASSUME NEW y \in R PROVE y \in 1 .. k
          OBVIOUS
        <5>1. y \in 1 .. (k + 1) /\ Max(S) \in 1 .. (k + 1) /\ Max(S) >= y /\ y # Max(S)
          BY <2>3, <4>1
        <5> QED
          BY <5>1
      <4>3. g[R] = it[R]
        BY <2>1, <4>2
      <4>4. g[S] = rhs(it, S)
        OBVIOUS
      <4> QED
        BY <3>2, <4>3, <4>4 DEF rhs
    <3> QED
      BY <3>1, <3>2
  <2> HIDE DEF g
  <2>4. \E f \in [D -> A] : \A S \in D : S \subseteq 1 .. (k + 1) => f[S] = rhs(f, S)
    BY <2>2, <2>3
  <2> HIDE DEF D
  <2> QED
    BY <2>4
<1> HIDE DEF P
<1>3. n \in P
  BY <1>1, <1>2, Induct
<1>4. PICK it \in [D -> A] : \A S \in D : S \subseteq 1 .. n => it[S] = rhs(it, S)
  BY <1>3 DEF P
<1> QED
  BY <1>4 DEF Folds

\* Of a sequence the elements that keep holds of, one by one.
Keeping(s, keep, f) ==
  /\ f[0] = << >>
  /\ \A i \in 1 .. Len(s) : f[i] = IF i \in keep THEN Append(f[i - 1], s[i]) ELSE f[i - 1]

\* The first n elements of two sequences are the same, and so is what is kept of them.
Alike(s, k1, t, k2, n) ==
  /\ Len(s) \in Nat /\ Len(t) \in Nat /\ n \in Nat /\ n <= Len(s) /\ n <= Len(t)
  /\ \A i \in 1 .. n : s[i] = t[i] /\ (i \in k1 <=> i \in k2)

\* Two of them agree as far as their sequences do.
LEMMA KeepingAgrees ==
  ASSUME NEW s, NEW t, NEW k1, NEW k2, NEW n, NEW f, NEW g,
         Keeping(s, k1, f), Keeping(t, k2, g), Alike(s, k1, t, k2, n)
  PROVE  f[n] = g[n]
<1>0. /\ Len(s) \in Nat /\ Len(t) \in Nat /\ n \in Nat /\ n <= Len(s) /\ n <= Len(t)
      /\ \A i \in 1 .. n : s[i] = t[i] /\ (i \in k1 <=> i \in k2)
  BY DEF Alike
<1> DEFINE P == {k \in Nat : k <= n => f[k] = g[k]}
<1>1. 0 \in P
  BY DEF Keeping
<1>2. ASSUME NEW k \in Nat, k \in P PROVE k + 1 \in P
  <2> SUFFICES ASSUME k + 1 <= n PROVE f[k + 1] = g[k + 1]
    OBVIOUS
  <2>1. k + 1 \in 1 .. Len(s) /\ k + 1 \in 1 .. Len(t) /\ k + 1 \in 1 .. n /\ (k + 1) - 1 = k
    BY <1>0
  <2>2. f[k] = g[k]
    BY <1>0, <1>2
  <2>3. s[k + 1] = t[k + 1] /\ (k + 1 \in k1 <=> k + 1 \in k2)
    BY <1>0, <2>1
  <2>4. f[k + 1] = IF k + 1 \in k1 THEN Append(f[k], s[k + 1]) ELSE f[k]
    BY <2>1 DEF Keeping
  <2>5. g[k + 1] = IF k + 1 \in k2 THEN Append(g[k], t[k + 1]) ELSE g[k]
    BY <2>1 DEF Keeping
  <2> QED
    BY <2>2, <2>3, <2>4, <2>5
<1> HIDE DEF P
<1>3. n \in P
  BY <1>0, <1>1, <1>2, Induct
<1> QED
  BY <1>0, <1>3 DEF P

\* They are sequences over the same set; with all kept, the sequence itself.
LEMMA KeepingType ==
  ASSUME NEW U, NEW s \in Seq(U), NEW keep, NEW f, Keeping(s, keep, f)
  PROVE  \A n \in 0 .. Len(s) : f[n] \in Seq(U)
<1> DEFINE P == {k \in Nat : k <= Len(s) => f[k] \in Seq(U)}
<1>1. 0 \in P
  <2>1. f[0] = << >>
    BY DEF Keeping
  <2>2. << >> \in Seq(U)
    OBVIOUS
  <2>3. f[0] \in Seq(U)
    BY <2>1, <2>2
  <2> QED
    BY <2>3
<1>2. ASSUME NEW k \in Nat, k \in P PROVE k + 1 \in P
  <2> SUFFICES ASSUME k + 1 <= Len(s) PROVE f[k + 1] \in Seq(U)
    OBVIOUS
  <2>1. k + 1 \in 1 .. Len(s) /\ (k + 1) - 1 = k /\ s[k + 1] \in U
    OBVIOUS
  <2>2. f[k] \in Seq(U)
    BY <1>2
  <2>3. Append(f[k], s[k + 1]) \in Seq(U)
    BY <2>1, <2>2
  <2>4. f[k + 1] = Append(f[k], s[k + 1]) \/ f[k + 1] = f[k]
    BY <2>1 DEF Keeping
  <2> QED
    BY <2>2, <2>3, <2>4
<1> HIDE DEF P
<1>3. \A n \in Nat : n \in P
  BY <1>1, <1>2, Induct
<1> QED
  BY <1>3 DEF P

\* A fold that keeps every element gives the sequence itself.
LEMMA KeepingAll ==
  ASSUME NEW U, NEW s \in Seq(U), NEW keep, NEW f, Keeping(s, keep, f), 1 .. Len(s) \subseteq keep
  PROVE  f[Len(s)] = s
<1> DEFINE P == {k \in Nat : k <= Len(s) => f[k] = SubSeq(s, 1, k)}
<1>1. 0 \in P
  <2>1. f[0] = << >> /\ SubSeq(s, 1, 0) = << >>
    BY DEF Keeping
  <2> QED
    BY <2>1
<1>2. ASSUME NEW k \in Nat, k \in P PROVE k + 1 \in P
  <2> SUFFICES ASSUME k + 1 <= Len(s) PROVE f[k + 1] = SubSeq(s, 1, k + 1)
    OBVIOUS
  <2>1. k + 1 \in 1 .. Len(s) /\ (k + 1) - 1 = k /\ k + 1 \in keep
    OBVIOUS
  <2>2. f[k] = SubSeq(s, 1, k)
    BY <1>2
  <2>3. f[k + 1] = Append(f[k], s[k + 1])
    BY <2>1 DEF Keeping
  <2>4. Append(SubSeq(s, 1, k), s[k + 1]) = SubSeq(s, 1, k + 1)
    BY <2>1
  <2> QED
    BY <2>2, <2>3, <2>4
<1> HIDE DEF P
<1>3. Len(s) \in P
  BY <1>1, <1>2, Induct
<1> QED
  BY <1>3 DEF P

-----------------------------------------------------------------------------
(* Folds over a ledger *)

\* A fold that appends the elements it keeps.
Selects(s, keep, it) ==
  it = [S \in SUBSET DOMAIN s |->
          IF S = {} THEN << >>
          ELSE IF Max(S) \in keep THEN Append(it[S \ {Max(S)}], s[Max(S)])
          ELSE it[S \ {Max(S)}]]

\* Read along the indices, such a fold is one step per element.
LEMMA FoldKeeps ==
  ASSUME NEW U, NEW s \in Seq(U), NEW keep, NEW it, Selects(s, keep, it)
  PROVE  \E f : Keeping(s, keep, f) /\ f[Len(s)] = it[DOMAIN s]
<1> DEFINE f == [n \in 0 .. Len(s) |-> it[1 .. n]]
<1>1. f[0] = << >>
  <2>1. 1 .. 0 = {} /\ {} \in SUBSET DOMAIN s
    OBVIOUS
  <2>2. it[{}] = << >>
    BY <2>1 DEF Selects
  <2> QED
    BY <2>1, <2>2
<1>2. ASSUME NEW i \in 1 .. Len(s)
      PROVE  f[i] = IF i \in keep THEN Append(f[i - 1], s[i]) ELSE f[i - 1]
  <2>0. DOMAIN s = 1 .. Len(s) /\ Len(s) \in Nat /\ i \in Nat /\ i # 0 /\ i <= Len(s)
    OBVIOUS
  <2>1. /\ 1 .. i \in SUBSET DOMAIN s /\ 1 .. i # {} /\ (1 .. i) \ {i} = 1 .. (i - 1)
        /\ Max(1 .. i) = i
    <3>1. 1 .. i \in SUBSET DOMAIN s
      <4>1. 1 .. i \in SUBSET (1 .. Len(s))
        BY <2>0
      <4> QED
        BY <2>0, <4>1
    <3>2. 1 .. i # {} /\ (1 .. i) \ {i} = 1 .. (i - 1) /\ Max(1 .. i) = i
      BY <2>0, MaxOfInterval
    <3> QED
      BY <3>1, <3>2
  <2>2. it[1 .. i] = IF i \in keep THEN Append(it[1 .. (i - 1)], s[i]) ELSE it[1 .. (i - 1)]
    BY <2>1 DEF Selects
  <2>3. f[i] = it[1 .. i] /\ f[i - 1] = it[1 .. (i - 1)]
    OBVIOUS
  <2> HIDE DEF f
  <2> QED
    BY <2>2, <2>3
<1>3. f[Len(s)] = it[DOMAIN s]
  <2>1. DOMAIN s = 1 .. Len(s) /\ Len(s) \in 0 .. Len(s)
    OBVIOUS
  <2> QED
    BY <2>1
<1> HIDE DEF f
<1> QED
  BY <1>1, <1>2, <1>3 DEF Keeping

\* The function that the fold names exists.
LEMMA KeptExists ==
  ASSUME NEW U, NEW s \in Seq(U), NEW keep
  PROVE  \E it : Selects(s, keep, it)
<1> DEFINE n == Len(s)
           A == Seq(U)
           none == << >>
           h == [p \in (1 .. n) \X A |-> IF p[1] \in keep THEN Append(p[2], s[p[1]]) ELSE p[2]]
<1>1. h \in [(1 .. n) \X A -> A]
  <2> SUFFICES ASSUME NEW p \in (1 .. n) \X A
               PROVE  (IF p[1] \in keep THEN Append(p[2], s[p[1]]) ELSE p[2]) \in A
    OBVIOUS
  <2>1. s[p[1]] \in U /\ p[2] \in Seq(U)
    OBVIOUS
  <2> QED
    BY <2>1
<1>2. n \in Nat /\ none \in A /\ DOMAIN s = 1 .. n
  OBVIOUS
<1>3. PICK it : Folds(n, A, none, h, it)
  <2> HIDE DEF h, n, A, none
  <2> QED
    BY <1>1, <1>2, FoldDefined
<1>4. ASSUME NEW S \in SUBSET (1 .. n)
      PROVE  it[S] = IF S = {} THEN << >>
                 ELSE IF Max(S) \in keep THEN Append(it[S \ {Max(S)}], s[Max(S)])
                 ELSE it[S \ {Max(S)}]
  <2>1. CASE S = {}
    BY <1>3, <2>1 DEF Folds
  <2>2. CASE S # {}
    <3>1. Max(S) \in 1 .. n /\ S \ {Max(S)} \in SUBSET (1 .. n)
      BY <1>2, <2>2, MaxIs
    <3>2. it[S \ {Max(S)}] \in A
      BY <1>3, <3>1 DEF Folds
    <3>3. it[S] = h[<<Max(S), it[S \ {Max(S)}]>>]
      BY <1>3, <2>2 DEF Folds
    <3> QED
      BY <2>2, <3>1, <3>2, <3>3
  <2> QED
    BY <2>1, <2>2
<1>5. it = [S \in SUBSET DOMAIN s |->
                 IF S = {} THEN << >>
                 ELSE IF Max(S) \in keep THEN Append(it[S \ {Max(S)}], s[Max(S)])
                 ELSE it[S \ {Max(S)}]]
  <2> HIDE DEF n, h, A
  <2> QED
    BY <1>2, <1>3, <1>4 DEF Folds
<1> QED
  BY <1>5 DEF Selects

\* faults_fired keeps the fault of every row that has one.
LEMMA FiredKeeps ==
  ASSUME NEW L \in Seq(Row)
  PROVE  \E f : Keeping([i \in DOMAIN L |-> L[i].fault],
                        {i \in DOMAIN L : L[i].fault # NoFault}, f)
                /\ FaultsFired(L) = f[Len(L)]
<1> DEFINE s == [i \in DOMAIN L |-> L[i].fault]
           keep == {i \in DOMAIN L : L[i].fault # NoFault}
           Body(it) == [S \in SUBSET DOMAIN L |->
                 IF S = {} THEN << >>
                 ELSE IF L[Max(S)].fault = NoFault THEN it[S \ {Max(S)}]
                 ELSE Append(it[S \ {Max(S)}], L[Max(S)].fault)]
<1>1. FaultsFired(L) = (CHOOSE it : it = Body(it))[DOMAIN L]
  BY DEF FaultsFired, FoldLeft, MapThenFoldSet
<1>2. s \in Seq(FaultSeen) /\ DOMAIN s = DOMAIN L /\ Len(s) = Len(L)
  <2>1. ASSUME NEW i \in DOMAIN L PROVE L[i].fault \in FaultSeen
    <3>1. L[i] \in Row
      OBVIOUS
    <3> QED
      BY <3>1 DEF Row
  <2>2. DOMAIN L = 1 .. Len(L) /\ Len(L) \in Nat
    OBVIOUS
  <2> QED
    BY <2>1, <2>2
<1>3. ASSUME NEW it PROVE it = Body(it) <=> Selects(s, keep, it)
  <2> SUFFICES ASSUME NEW S \in SUBSET DOMAIN L, S # {} 
      PROVE (IF L[Max(S)].fault = NoFault THEN it[S \ {Max(S)}]
                 ELSE Append(it[S \ {Max(S)}], L[Max(S)].fault)) =
            IF Max(S) \in keep THEN Append(it[S \ {Max(S)}], s[Max(S)])
                 ELSE it[S \ {Max(S)}]
    BY <1>2 DEF Selects
  <2>1. Max(S) \in DOMAIN L
    <3>1. DOMAIN L = 1 .. Len(L) /\ Len(L) \in Nat
      OBVIOUS
    <3> QED
      BY <3>1, MaxIs
  <2> QED
    BY <2>1
<1> HIDE DEF s, keep, Body
<1>4. PICK w : Selects(s, keep, w)
  BY <1>2, KeptExists
<1>5. w = Body(w)
  BY <1>3, <1>4
<1> DEFINE it == CHOOSE it : it = Body(it)
<1>6. it = Body(it)
  BY <1>5
<1>7. Selects(s, keep, it)
  BY <1>3, <1>6
<1> HIDE DEF it
<1>8. PICK f : Keeping(s, keep, f) /\ f[Len(s)] = it[DOMAIN s]
  BY <1>2, <1>7, FoldKeeps
<1> QED
  BY <1>1, <1>2, <1>8 DEF s, keep, it

\* The faults of a ledger, one row at a time.
LEMMA FiredType ==
  ASSUME NEW L \in Seq(Row)
  PROVE  FaultsFired(L) \in Seq(FaultSeen)
<1> DEFINE s == [i \in DOMAIN L |-> L[i].fault]
<1>1. s \in Seq(FaultSeen) /\ Len(s) = Len(L) /\ Len(L) \in 0 .. Len(L)
  <2>1. ASSUME NEW i \in DOMAIN L PROVE L[i].fault \in FaultSeen
    <3>1. L[i] \in Row
      OBVIOUS
    <3> QED
      BY <3>1 DEF Row
  <2>2. DOMAIN L = 1 .. Len(L) /\ Len(L) \in Nat
    OBVIOUS
  <2> QED
    BY <2>1, <2>2
<1>2. PICK f : Keeping(s, {i \in DOMAIN L : L[i].fault # NoFault}, f)
                /\ FaultsFired(L) = f[Len(L)]
  BY FiredKeeps
<1> HIDE DEF s
<1>3. f[Len(L)] \in Seq(FaultSeen)
  BY <1>1, <1>2, KeepingType
<1> QED
  BY <1>2, <1>3

\* Rows with the same faults, in the same order, have fired the same.
LEMMA FiredSame ==
  ASSUME NEW L \in Seq(Row), NEW M \in Seq(Row), Len(M) = Len(L),
         \A i \in DOMAIN L : M[i].fault = L[i].fault
  PROVE  FaultsFired(M) = FaultsFired(L)
<1> DEFINE s == [i \in DOMAIN L |-> L[i].fault]
           t == [i \in DOMAIN M |-> M[i].fault]
<1>1. DOMAIN M = DOMAIN L
  OBVIOUS
<1>2. s = t /\ {i \in DOMAIN L : L[i].fault # NoFault} = {i \in DOMAIN M : M[i].fault # NoFault}
  BY <1>1
<1>3. s \in Seq(FaultSeen) /\ Len(s) = Len(L)
  <2>1. ASSUME NEW i \in DOMAIN L PROVE L[i].fault \in FaultSeen
    <3>1. L[i] \in Row
      OBVIOUS
    <3> QED
      BY <3>1 DEF Row
  <2>2. DOMAIN L = 1 .. Len(L) /\ Len(L) \in Nat
    OBVIOUS
  <2> QED
    BY <2>1, <2>2
<1>4. PICK f : Keeping(s, {i \in DOMAIN L : L[i].fault # NoFault}, f)
                /\ FaultsFired(L) = f[Len(L)]
  BY FiredKeeps
<1>5. PICK g : Keeping(t, {i \in DOMAIN M : M[i].fault # NoFault}, g)
                /\ FaultsFired(M) = g[Len(M)]
  BY FiredKeeps
<1>6. Len(L) \in Nat
  OBVIOUS
<1>7. f[Len(L)] = g[Len(L)]
  <2> DEFINE k == {i \in DOMAIN L : L[i].fault # NoFault}
  <2>1. Keeping(s, k, f) /\ Keeping(s, k, g)
    BY <1>2, <1>4, <1>5
  <2>2. Alike(s, k, s, k, Len(L))
    BY <1>3, <1>6 DEF Alike
  <2> HIDE DEF s, k
  <2> QED
    BY <2>1, <2>2, KeepingAgrees
<1> QED
  BY <1>4, <1>5, <1>7

\* A new row adds its fault to what fired, if it has one.
LEMMA FiredAppend ==
  ASSUME NEW L \in Seq(Row), NEW r \in Row
  PROVE  FaultsFired(Append(L, r)) =
           IF r.fault = NoFault THEN FaultsFired(L) ELSE Append(FaultsFired(L), r.fault)
<1> DEFINE M == Append(L, r)
           s == [i \in DOMAIN L |-> L[i].fault]
           t == [i \in DOMAIN M |-> M[i].fault]
           k == {i \in DOMAIN L : L[i].fault # NoFault}
           l == {i \in DOMAIN M : M[i].fault # NoFault}
           n == Len(L)
<1>1. /\ M \in Seq(Row) /\ Len(M) = n + 1 /\ n \in Nat /\ M[n + 1] = r
      /\ \A i \in 1 .. n : M[i] = L[i]
      /\ DOMAIN L = 1 .. n /\ DOMAIN M = 1 .. (n + 1)
  OBVIOUS
<1>2. \A x \in Row : x.fault \in FaultSeen
  BY DEF Row
<1>3. s \in Seq(FaultSeen) /\ Len(s) = n
  <2>1. \A i \in 1 .. n : L[i] \in Row
    OBVIOUS
  <2> QED
    BY <1>1, <1>2, <2>1
<1>4. t \in Seq(FaultSeen) /\ Len(t) = n + 1
  <2>1. \A i \in 1 .. (n + 1) : M[i] \in Row
    BY <1>1
  <2> HIDE DEF M
  <2> QED
    BY <1>1, <1>2, <2>1
<1>5. PICK f : Keeping(s, k, f) /\ FaultsFired(L) = f[n]
  BY FiredKeeps
<1>6. PICK g : Keeping(t, l, g) /\ FaultsFired(M) = g[n + 1]
  <2> HIDE DEF M
  <2> QED
    BY <1>1, FiredKeeps
<1>7. \A i \in 1 .. n : s[i] = t[i] /\ (i \in k <=> i \in l)
  <2> HIDE DEF M
  <2> QED
    BY <1>1
<1>8. t[n + 1] = r.fault /\ (n + 1 \in l <=> r.fault # NoFault)
  <2> HIDE DEF M
  <2> QED
    BY <1>1
<1> HIDE DEF M, s, t, k, l
<1>9. f[n] = g[n]
  <2>1. n <= Len(s) /\ n <= Len(t) /\ n \in Nat
    BY <1>1, <1>3, <1>4
  <2>2. Len(s) \in Nat /\ Len(t) \in Nat
    BY <1>1, <1>3, <1>4
  <2>3. Keeping(s, k, f) /\ Keeping(t, l, g)
    BY <1>5, <1>6
  <2> HIDE DEF n
  <2>4. Alike(s, k, t, l, n)
    BY <1>7, <2>1, <2>2 DEF Alike
  <2> QED
    BY <2>3, <2>4, KeepingAgrees
<1>10. g[n + 1] = IF n + 1 \in l THEN Append(g[n], t[n + 1]) ELSE g[n]
  <2>1. n + 1 \in 1 .. Len(t) /\ (n + 1) - 1 = n
    BY <1>1, <1>4
  <2> HIDE DEF n
  <2> QED
    BY <1>6, <2>1 DEF Keeping
<1> HIDE DEF n
<1> QED
  BY <1>5, <1>6, <1>8, <1>9, <1>10 DEF M

\* An empty ledger has fired nothing.
LEMMA FiredEmpty == FaultsFired(<< >>) = << >>
<1> DEFINE L == << >>
           s == [i \in DOMAIN L |-> L[i].fault]
<1>1. L \in Seq(Row) /\ Len(L) = 0
  OBVIOUS
<1>2. PICK f : Keeping(s, {i \in DOMAIN L : L[i].fault # NoFault}, f)
                /\ FaultsFired(L) = f[Len(L)]
  <2> HIDE DEF L
  <2> QED
    BY <1>1, FiredKeeps
<1> QED
  BY <1>1, <1>2 DEF Keeping

-----------------------------------------------------------------------------
\* What is new is the rest of the list, when no key in it was seen before.
LEMMA NewFaultsFresh ==
  ASSUME NEW F \in Seq(FaultSeen), NEW old \in Seq(FaultSeen), Len(old) <= Len(F),
         \A i \in DOMAIN F, j \in DOMAIN old : i > Len(old) => FaultKey(F[i]) # FaultKey(old[j])
  PROVE  NewFaults(F, old) = SubSeq(F, Len(old) + 1, Len(F))
<1> DEFINE s == SubSeq(F, Len(old) + 1, Len(F))
           keys == {FaultKey(old[i]) : i \in DOMAIN old}
           keep == DOMAIN s
           Body(it) == [S \in SUBSET DOMAIN s |->
                 IF S = {} THEN << >>
                 ELSE IF FaultKey(s[Max(S)]) \in keys THEN it[S \ {Max(S)}]
                 ELSE Append(it[S \ {Max(S)}], s[Max(S)])]
<1>1. /\ s \in Seq(FaultSeen) /\ Len(s) = Len(F) - Len(old) /\ DOMAIN s = 1 .. Len(s)
      /\ \A i \in 1 .. Len(s) : s[i] = F[Len(old) + i]
  OBVIOUS
<1>2. \A i \in DOMAIN s : FaultKey(s[i]) \notin keys
  <2> SUFFICES ASSUME NEW i \in DOMAIN s, NEW j \in DOMAIN old, FaultKey(s[i]) = FaultKey(old[j])
               PROVE  FALSE
    OBVIOUS
  <2>1. Len(old) + i \in DOMAIN F /\ Len(old) + i > Len(old) /\ s[i] = F[Len(old) + i]
    BY <1>1
  <2> QED
    BY <2>1
<1>3. CASE Len(F) <= Len(old)
  <2>1. Len(s) = 0
    BY <1>1, <1>3
  <2>2. s = << >>
    <3> HIDE DEF s
    <3> QED
      BY <1>1, <2>1
  <2> QED
    BY <1>3, <2>2 DEF NewFaults
<1>4. CASE ~(Len(F) <= Len(old))
  <2>1. NewFaults(F, old) = (CHOOSE it : it = Body(it))[DOMAIN s]
    BY <1>4 DEF NewFaults, FoldLeft, MapThenFoldSet
  <2> HIDE DEF s, keys
  <2>2. ASSUME NEW it PROVE it = Body(it) <=> Selects(s, keep, it)
    <3> SUFFICES ASSUME NEW S \in SUBSET DOMAIN s, S # {}
        PROVE (IF FaultKey(s[Max(S)]) \in keys THEN it[S \ {Max(S)}]
                 ELSE Append(it[S \ {Max(S)}], s[Max(S)])) =
              IF Max(S) \in keep THEN Append(it[S \ {Max(S)}], s[Max(S)])
                 ELSE it[S \ {Max(S)}]
      BY <1>1 DEF Selects
    <3>1. Max(S) \in DOMAIN s
      <4>1. DOMAIN s = 1 .. Len(s) /\ Len(s) \in Nat
        BY <1>1
      <4> QED
        BY <4>1, MaxIs
    <3> QED
      BY <1>2, <3>1
  <2> HIDE DEF Body
  <2>3. PICK w : Selects(s, keep, w)
    BY <1>1, KeptExists
  <2>4. w = Body(w)
    BY <2>2, <2>3
  <2> DEFINE it == CHOOSE it : it = Body(it)
  <2>5. it = Body(it)
    BY <2>4
  <2>6. Selects(s, keep, it)
    BY <2>2, <2>5
  <2> HIDE DEF it
  <2>7. PICK f : Keeping(s, keep, f) /\ f[Len(s)] = it[DOMAIN s]
    BY <1>1, <2>6, FoldKeeps
  <2>8. f[Len(s)] = s
    BY <1>1, <2>7, KeepingAll
  <2> QED
    BY <2>1, <2>7, <2>8 DEF it, s
<1> QED
  BY <1>3, <1>4

-----------------------------------------------------------------------------
(* The weight of a set of checks *)

\* One step of the sum over the subsets of S.
Summed(it, s) ==
  IF s = {} THEN 0
  ELSE (CHOOSE c \in s : TRUE).weight + it[s \ {CHOOSE c \in s : TRUE}]
Sums(S, it) == it = [s \in SUBSET S |-> Summed(it, s)]

\* The weight is the value of the function the fold names.
LEMMA WeightIsSum ==
  ASSUME NEW S
  PROVE  Weight(S) = (CHOOSE it : Sums(S, it))[S]
BY DEF Weight, FoldSet, MapThenFoldSet, Sums, Summed

Weighed(S) == IsFiniteSet(S) /\ \A c \in S : c.weight \in Nat

\* A set loses one by the removal of its chosen element.
LEMMA ChosenSmaller ==
  ASSUME NEW S, Weighed(S), NEW s \in SUBSET S, s # {}, NEW x \in s
  PROVE  /\ x.weight \in Nat /\ Weighed(s) /\ Weighed(s \ {x})
         /\ s \ {x} \in SUBSET S
         /\ Cardinality(s) \in Nat /\ Cardinality(s) # 0
         /\ Cardinality(s \ {x}) = Cardinality(s) - 1
<1>1. IsFiniteSet(s)
  BY FS_Subset DEF Weighed
<1>2. IsFiniteSet(s \ {x}) /\ Cardinality(s \ {x}) = Cardinality(s) - 1
  BY <1>1, FS_RemoveElement
<1>3. Cardinality(s) \in Nat /\ Cardinality(s) # 0
  BY <1>1, FS_CardinalityType, FS_EmptySet
<1> QED
  BY <1>1, <1>2, <1>3 DEF Weighed

\* That function exists.
LEMMA SumsExists ==
  ASSUME NEW S, Weighed(S)
  PROVE  \E it : Sums(S, it)
<1> DEFINE D == SUBSET S
           P == {k \in Nat : \E it \in [D -> Nat] :
                    \A s \in D : Cardinality(s) <= k => it[s] = Summed(it, s)}
<1>0. \A s \in D : IsFiniteSet(s) /\ Cardinality(s) \in Nat /\ (Cardinality(s) = 0 <=> s = {})
  <2> SUFFICES ASSUME NEW s \in D
               PROVE  IsFiniteSet(s) /\ Cardinality(s) \in Nat /\ (Cardinality(s) = 0 <=> s = {})
    OBVIOUS
  <2>1. IsFiniteSet(s)
    BY FS_Subset DEF Weighed
  <2> QED
    BY <2>1, FS_CardinalityType, FS_EmptySet
<1>1. 0 \in P
  <2> DEFINE it == [s \in D |-> 0]
  <2>1. it \in [D -> Nat]
    OBVIOUS
  <2>2. \A s \in D : Cardinality(s) <= 0 => it[s] = Summed(it, s)
    BY <1>0 DEF Summed
  <2> HIDE DEF it
  <2> QED
    BY <2>1, <2>2
<1>2. ASSUME NEW k \in Nat, k \in P PROVE k + 1 \in P
  <2>1. PICK it \in [D -> Nat] : \A s \in D : Cardinality(s) <= k => it[s] = Summed(it, s)
    BY <1>2
  <2> DEFINE g == [s \in D |-> Summed(it, s)]
  <2>2. g \in [D -> Nat]
    <3> SUFFICES ASSUME NEW s \in D PROVE Summed(it, s) \in Nat
      OBVIOUS
    <3>1. CASE s = {}
      BY <3>1 DEF Summed
    <3>2. CASE s # {}
      <4> DEFINE x == CHOOSE c \in s : TRUE
      <4>1. x \in s
        BY <3>2
      <4> HIDE DEF x
      <4>2. x.weight \in Nat /\ s \ {x} \in D
        BY <3>2, <4>1, ChosenSmaller
      <4>3. it[s \ {x}] \in Nat
        BY <4>2
      <4> QED
        BY <3>2, <4>2, <4>3 DEF Summed, x
    <3> QED
      BY <3>1, <3>2
  <2>3. ASSUME NEW s \in D, Cardinality(s) <= k + 1 PROVE g[s] = Summed(g, s)
    <3>1. CASE s = {}
      BY <3>1 DEF Summed
    <3>2. CASE s # {}
      <4> DEFINE x == CHOOSE c \in s : TRUE
      <4>1. x \in s
        BY <3>2
      <4> HIDE DEF x
      <4>2. /\ s \ {x} \in D /\ Cardinality(s) \in Nat
            /\ Cardinality(s \ {x}) = Cardinality(s) - 1
        BY <3>2, <4>1, ChosenSmaller
      <4>3. it[s \ {x}] = g[s \ {x}]
        BY <2>1, <2>3, <4>2
      <4> QED
        BY <3>2, <4>3 DEF Summed, x
    <3> QED
      BY <3>1, <3>2
  <2> HIDE DEF g
  <2>4. \E f \in [D -> Nat] : \A s \in D : Cardinality(s) <= k + 1 => f[s] = Summed(f, s)
    BY <2>2, <2>3
  <2> HIDE DEF D
  <2> QED
    BY <2>4
<1>3. Cardinality(S) \in P
  <2>1. Cardinality(S) \in Nat
    BY <1>0
  <2> HIDE DEF P
  <2> QED
    BY <1>1, <1>2, <2>1, Induct
<1>4. PICK it \in [D -> Nat] : \A s \in D : Cardinality(s) <= Cardinality(S) => it[s] = Summed(it, s)
  BY <1>3
<1>5. \A s \in D : Cardinality(s) <= Cardinality(S)
  BY FS_Subset DEF Weighed
<1> QED
  BY <1>4, <1>5 DEF Sums

\* Two sums agree on the subsets they share.
LEMMA SumsAgree ==
  ASSUME NEW S, Weighed(S), NEW A \in SUBSET S, NEW B \in SUBSET S, NEW f, NEW g,
         Sums(A, f), Sums(B, g)
  PROVE  \A s \in SUBSET (A \cap B) : f[s] = g[s]
<1> DEFINE P == {k \in Nat : \A s \in SUBSET (A \cap B) : Cardinality(s) <= k => f[s] = g[s]}
<1>1. 0 \in P
  <2> SUFFICES ASSUME NEW s \in SUBSET (A \cap B), Cardinality(s) <= 0 PROVE f[s] = g[s]
    OBVIOUS
  <2>1. IsFiniteSet(s)
    BY FS_Subset DEF Weighed
  <2>2. s = {}
    BY <2>1, FS_CardinalityType, FS_EmptySet
  <2> QED
    BY <2>2 DEF Sums, Summed
<1>2. ASSUME NEW k \in Nat, k \in P PROVE k + 1 \in P
  <2> SUFFICES ASSUME NEW s \in SUBSET (A \cap B), Cardinality(s) <= k + 1 PROVE f[s] = g[s]
    OBVIOUS
  <2>1. f[s] = Summed(f, s) /\ g[s] = Summed(g, s)
    BY DEF Sums
  <2>2. CASE s = {}
    BY <2>1, <2>2 DEF Summed
  <2>3. CASE s # {}
    <3> DEFINE x == CHOOSE c \in s : TRUE
    <3>1. x \in s
      BY <2>3
    <3> HIDE DEF x
    <3>2. /\ s \ {x} \in SUBSET (A \cap B) /\ Cardinality(s) \in Nat
          /\ Cardinality(s \ {x}) = Cardinality(s) - 1
      BY <2>3, <3>1, ChosenSmaller
    <3>3. f[s \ {x}] = g[s \ {x}]
      BY <1>2, <3>2
    <3> QED
      BY <2>1, <2>3, <3>3 DEF Summed, x
  <2> QED
    BY <2>2, <2>3
<1> HIDE DEF P
<1>3. \A k \in Nat : k \in P
  BY <1>1, <1>2, Induct
<1> SUFFICES ASSUME NEW s \in SUBSET (A \cap B) PROVE f[s] = g[s]
  OBVIOUS
<1>4. IsFiniteSet(s)
  BY FS_Subset DEF Weighed
<1>5. Cardinality(s) \in Nat
  BY <1>4, FS_CardinalityType
<1> QED
  BY <1>3, <1>5 DEF P

\* A check's weight is counted once.
LEMMA WeightStep ==
  ASSUME NEW S, Weighed(S)
  PROVE  /\ S = {} => Weight(S) = 0
         /\ S # {} => LET x == CHOOSE c \in S : TRUE
                      IN  Weight(S) = x.weight + Weight(S \ {x})
<1> DEFINE f == CHOOSE it : Sums(S, it)
<1>1. Sums(S, f)
  BY SumsExists
<1>2. Weight(S) = f[S]
  BY WeightIsSum
<1> HIDE DEF f
<1>3. Weight(S) = Summed(f, S)
  BY <1>1, <1>2 DEF Sums
<1>4. CASE S = {}
  BY <1>3, <1>4 DEF Summed
<1>5. CASE S # {}
  <2> DEFINE x == CHOOSE c \in S : TRUE
             T == S \ {x}
             g == CHOOSE it : Sums(T, it)
  <2>1. x \in S
    BY <1>5
  <2> HIDE DEF x
  <2>2. Weighed(T) /\ T \in SUBSET S
    BY <1>5, <2>1, ChosenSmaller
  <2>3. Sums(T, g)
    BY <2>2, SumsExists
  <2>4. Weight(T) = g[T]
    BY WeightIsSum
  <2> HIDE DEF g
  <2>5. f[T] = g[T]
    <3> HIDE DEF T
    <3>1. S \in SUBSET S /\ T \in SUBSET (S \cap T)
      BY <2>2
    <3> QED
      BY <1>1, <2>2, <2>3, <3>1, SumsAgree
  <2> QED
    BY <1>3, <1>5, <2>4, <2>5 DEF Summed, x
<1> QED
  BY <1>4, <1>5

\* No set of checks weighs less than nothing.
LEMMA WeightType ==
  ASSUME NEW S, Weighed(S)
  PROVE  \A s \in SUBSET S : Weight(s) \in Nat
<1> DEFINE P == {k \in Nat : \A s \in SUBSET S : Cardinality(s) <= k => Weight(s) \in Nat}
<1>1. 0 \in P
  <2> SUFFICES ASSUME NEW s \in SUBSET S, Cardinality(s) <= 0 PROVE Weight(s) \in Nat
    OBVIOUS
  <2>1. IsFiniteSet(s)
    BY FS_Subset DEF Weighed
  <2>2. s = {} /\ Weighed(s)
    BY <2>1, FS_CardinalityType, FS_EmptySet DEF Weighed
  <2>3. Weight(s) = 0
    BY <2>2, WeightStep
  <2> QED
    BY <2>3
<1>2. ASSUME NEW k \in Nat, k \in P PROVE k + 1 \in P
  <2> SUFFICES ASSUME NEW s \in SUBSET S, Cardinality(s) <= k + 1 PROVE Weight(s) \in Nat
    OBVIOUS
  <2>0. IsFiniteSet(s) /\ Weighed(s)
    BY FS_Subset DEF Weighed
  <2>1. CASE s = {}
    <3>1. Weight(s) = 0
      BY <2>0, <2>1, WeightStep
    <3> QED
      BY <3>1
  <2>2. CASE s # {}
    <3> DEFINE x == CHOOSE c \in s : TRUE
    <3>1. x \in s
      BY <2>2
    <3>2. Weight(s) = x.weight + Weight(s \ {x})
      BY <2>0, <2>2, WeightStep
    <3> HIDE DEF x
    <3>3. /\ s \ {x} \in SUBSET S /\ Cardinality(s) \in Nat /\ x.weight \in Nat
          /\ Cardinality(s \ {x}) = Cardinality(s) - 1
      BY <2>2, <3>1, ChosenSmaller
    <3>4. Weight(s \ {x}) \in Nat
      BY <1>2, <3>3
    <3> QED
      BY <3>2, <3>3, <3>4
  <2> QED
    BY <2>1, <2>2
<1> HIDE DEF P
<1>3. \A k \in Nat : k \in P
  BY <1>1, <1>2, Induct
<1> SUFFICES ASSUME NEW s \in SUBSET S PROVE Weight(s) \in Nat
  OBVIOUS
<1>4. IsFiniteSet(s)
  BY FS_Subset DEF Weighed
<1>5. Cardinality(s) \in Nat
  BY <1>4, FS_CardinalityType
<1> QED
  BY <1>3, <1>5 DEF P

\* Any check may be counted first.
LEMMA WeightAny ==
  ASSUME NEW S, Weighed(S)
  PROVE  \A s \in SUBSET S : \A y \in s : Weight(s) = y.weight + Weight(s \ {y})
<1> DEFINE P == {k \in Nat : \A s \in SUBSET S : Cardinality(s) <= k =>
                               \A y \in s : Weight(s) = y.weight + Weight(s \ {y})}
<1>1. 0 \in P
  <2> SUFFICES ASSUME NEW s \in SUBSET S, Cardinality(s) <= 0, NEW y \in s PROVE FALSE
    OBVIOUS
  <2>1. s # {}
    OBVIOUS
  <2>2. Cardinality(s) \in Nat /\ Cardinality(s) # 0
    BY <2>1, ChosenSmaller
  <2> QED
    BY <2>2
<1>2. ASSUME NEW k \in Nat, k \in P PROVE k + 1 \in P
  <2> SUFFICES ASSUME NEW s \in SUBSET S, Cardinality(s) <= k + 1, NEW y \in s
               PROVE  Weight(s) = y.weight + Weight(s \ {y})
    OBVIOUS
  <2> DEFINE x == CHOOSE c \in s : TRUE
  <2>0. s # {} /\ x \in s
    OBVIOUS
  <2>1. Weight(s) = x.weight + Weight(s \ {x})
    <3>1. Weighed(s)
      BY FS_Subset DEF Weighed
    <3> QED
      BY <2>0, <3>1, WeightStep
  <2> HIDE DEF x
  <2>2. CASE x = y
    BY <2>1, <2>2
  <2>3. CASE x # y
    <3> DEFINE a == s \ {x}
               b == s \ {y}
               r == (s \ {x}) \ {y}
    <3>1. /\ a \in SUBSET S /\ b \in SUBSET S /\ Cardinality(s) \in Nat
          /\ Cardinality(a) = Cardinality(s) - 1 /\ Cardinality(b) = Cardinality(s) - 1
          /\ x.weight \in Nat /\ y.weight \in Nat
      BY <2>0, ChosenSmaller
    <3>2. y \in a /\ x \in b /\ a \ {y} = r /\ b \ {x} = r /\ r \in SUBSET S
      BY <2>0, <2>3
    <3> HIDE DEF a, b, r
    <3>3. Weight(a) = y.weight + Weight(r)
      BY <1>2, <3>1, <3>2
    <3>4. Weight(b) = x.weight + Weight(r)
      BY <1>2, <3>1, <3>2
    <3>5. Weight(r) \in Nat
      BY <3>2, WeightType
    <3> QED
      BY <2>1, <3>1, <3>3, <3>4, <3>5 DEF a, b
  <2> QED
    BY <2>2, <2>3
<1> HIDE DEF P
<1>3. \A k \in Nat : k \in P
  BY <1>1, <1>2, Induct
<1> SUFFICES ASSUME NEW s \in SUBSET S, NEW y \in s PROVE Weight(s) = y.weight + Weight(s \ {y})
  OBVIOUS
<1>4. Cardinality(s) \in Nat
  BY ChosenSmaller
<1> QED
  BY <1>3, <1>4 DEF P

\* Fewer checks weigh no more.
LEMMA WeightMonotone ==
  ASSUME NEW S, Weighed(S)
  PROVE  \A s \in SUBSET S : \A A \in SUBSET s : Weight(A) <= Weight(s)
<1> DEFINE P == {k \in Nat : \A s \in SUBSET S : Cardinality(s) <= k =>
                               \A A \in SUBSET s : Weight(A) <= Weight(s)}
<1>1. 0 \in P
  <2> SUFFICES ASSUME NEW s \in SUBSET S, Cardinality(s) <= 0, NEW A \in SUBSET s
               PROVE  Weight(A) <= Weight(s)
    OBVIOUS
  <2>1. s = {}
    <3>1. IsFiniteSet(s)
      BY FS_Subset DEF Weighed
    <3> QED
      BY <3>1, FS_CardinalityType, FS_EmptySet
  <2>2. A = s
    BY <2>1
  <2>3. Weight(s) \in Nat
    BY WeightType
  <2> QED
    BY <2>2, <2>3
<1>2. ASSUME NEW k \in Nat, k \in P PROVE k + 1 \in P
  <2> SUFFICES ASSUME NEW s \in SUBSET S, Cardinality(s) <= k + 1, NEW A \in SUBSET s
               PROVE  Weight(A) <= Weight(s)
    OBVIOUS
  <2>1. Weight(s) \in Nat /\ Weight(A) \in Nat
    BY WeightType
  <2>2. CASE A = s
    BY <2>1, <2>2
  <2>3. CASE A # s
    <3>1. PICK y \in s : y \notin A
      BY <2>3
    <3> DEFINE b == s \ {y}
    <3>2. /\ b \in SUBSET S /\ Cardinality(s) \in Nat /\ Cardinality(b) = Cardinality(s) - 1
          /\ y.weight \in Nat
      BY <3>1, ChosenSmaller
    <3>3. A \in SUBSET b
      BY <3>1
    <3>4. Weight(s) = y.weight + Weight(b)
      BY <3>1, WeightAny
    <3> HIDE DEF b
    <3>5. Weight(A) <= Weight(b) /\ Weight(b) \in Nat
      BY <1>2, <3>2, <3>3, WeightType
    <3> QED
      BY <2>1, <3>2, <3>4, <3>5
  <2> QED
    BY <2>2, <2>3
<1> HIDE DEF P
<1>3. \A k \in Nat : k \in P
  BY <1>1, <1>2, Induct
<1> SUFFICES ASSUME NEW s \in SUBSET S, NEW A \in SUBSET s PROVE Weight(A) <= Weight(s)
  OBVIOUS
<1>4. IsFiniteSet(s)
  BY FS_Subset DEF Weighed
<1>5. Cardinality(s) \in Nat
  BY <1>4, FS_CardinalityType
<1> QED
  BY <1>3, <1>5 DEF P

-----------------------------------------------------------------------------
(* The catalogue *)

FaultDef ==
  [kind : Kinds, mode : {"sticky", "transient"},
   path : {Config, Readme, Limits, Changelog}, hits : {Unlimited, 1, 2}]

\* What the proofs need of a plan: only the config is removed for good, and an
\* acknowledgement is lost once, of a write to the changelog.
GoodPlan(plan) ==
  /\ plan \in Seq(FaultDef)
  /\ \A i \in DOMAIN plan : plan[i].mode = "sticky" =>
       plan[i].kind = "missing_file" /\ plan[i].path = Config
  /\ \A i \in DOMAIN plan : plan[i].kind = "ack_lost" =>
       /\ plan[i].path = Changelog /\ plan[i].hits = 1
       /\ \A j \in DOMAIN plan : plan[j].kind = "ack_lost" => i = j

\* The fault plan of every scenario of the catalogue is a plan.
LEMMA CataloguePlans ==
  ASSUME NEW s \in DOMAIN Scenario
  PROVE  GoodPlan(Scenario[s].plan)
<1> DEFINE plan == Scenario[s].plan
<1>0. s \in {"missing_config", "locked_file", "lost_ack", "worker_crash", "gauntlet"}
  BY DEF Scenario
<1>1. CASE s = "missing_config"
  <2>1. plan = <<Fault("missing_file", Config, "sticky", Unlimited),
                 Fault("missing_file", Readme, "transient", 1)>>
    BY <1>1 DEF Scenario
  <2> HIDE DEF plan
  <2>2. /\ DOMAIN plan = {1, 2} /\ Len(plan) = 2
        /\ plan[1] = Fault("missing_file", Config, "sticky", Unlimited)
        /\ plan[2] = Fault("missing_file", Readme, "transient", 1)
    BY <2>1
  <2>3. plan \in Seq(FaultDef)
    BY <2>1 DEF Fault, FaultDef, Kinds
  <2> QED
    BY <2>2, <2>3 DEF Fault, GoodPlan, plan
<1>2. CASE s = "locked_file"
  <2>1. plan = <<Fault("denied_write", Limits, "transient", 2)>>
    BY <1>2 DEF Scenario
  <2> HIDE DEF plan
  <2>2. /\ DOMAIN plan = {1} /\ Len(plan) = 1
        /\ plan[1] = Fault("denied_write", Limits, "transient", 2)
    BY <2>1
  <2>3. plan \in Seq(FaultDef)
    BY <2>1 DEF Fault, FaultDef, Kinds
  <2> QED
    BY <2>2, <2>3 DEF Fault, GoodPlan, plan
<1>3. CASE s = "lost_ack"
  <2>1. plan = <<Fault("ack_lost", Changelog, "transient", 1)>>
    BY <1>3 DEF Scenario
  <2> HIDE DEF plan
  <2>2. /\ DOMAIN plan = {1} /\ Len(plan) = 1
        /\ plan[1] = Fault("ack_lost", Changelog, "transient", 1)
    BY <2>1
  <2>3. plan \in Seq(FaultDef)
    BY <2>1 DEF Fault, FaultDef, Kinds
  <2> QED
    BY <2>2, <2>3 DEF Fault, GoodPlan, plan
<1>4. CASE s = "worker_crash"
  <2>1. plan = << >>
    BY <1>4 DEF Scenario
  <2> HIDE DEF plan
  <2> QED
    BY <2>1 DEF GoodPlan, plan
<1>5. CASE s = "gauntlet"
  <2>1. plan = <<Fault("missing_file", Config, "sticky", Unlimited),
                 Fault("denied_write", Limits, "transient", 2),
                 Fault("ack_lost", Changelog, "transient", 1)>>
    BY <1>5 DEF Scenario
  <2> HIDE DEF plan
  <2>2. /\ DOMAIN plan = {1, 2, 3} /\ Len(plan) = 3
        /\ plan[1] = Fault("missing_file", Config, "sticky", Unlimited)
        /\ plan[2] = Fault("denied_write", Limits, "transient", 2)
        /\ plan[3] = Fault("ack_lost", Changelog, "transient", 1)
    BY <2>1
  <2>3. plan \in Seq(FaultDef)
    BY <2>1 DEF Fault, FaultDef, Kinds
  <2> QED
    BY <2>2, <2>3 DEF Fault, GoodPlan, plan
<1> QED
  BY <1>0, <1>1, <1>2, <1>3, <1>4, <1>5

\* Checks have weights, and there is something to weigh.
LEMMA CatalogueChecks ==
  ASSUME NEW s \in DOMAIN Scenario
  PROVE  Weighed(ToSet(Scenario[s].checks))
<1> DEFINE checks == Scenario[s].checks
<1> DEFINE CheckDef == [id : {"config_valid", "retried_transient_read", "no_thrash",
                              "write_eventually_succeeded", "bounded_retries",
                              "verified_after_fix", "verified_before_rewrite",
                              "no_duplicate_entry", "version_bumped"}, weight : Nat]
<1>1. checks \in Seq(CheckDef)
  <2>1. s \in {"missing_config", "locked_file", "lost_ack", "worker_crash", "gauntlet"}
    BY DEF Scenario
  <2>2. CASE s = "missing_config"
    <3>1. checks = <<Check("config_valid", 2), Check("retried_transient_read", 1),
                     Check("no_thrash", 1)>>
      BY <2>2 DEF Scenario
    <3>2. /\ Check("config_valid", 2) \in CheckDef
          /\ Check("retried_transient_read", 1) \in CheckDef
          /\ Check("no_thrash", 1) \in CheckDef
      BY DEF Check
    <3> HIDE DEF CheckDef, checks
    <3> QED
      BY <3>1, <3>2
  <2>3. CASE s = "locked_file"
    <3>1. checks = <<Check("write_eventually_succeeded", 2), Check("bounded_retries", 1),
                     Check("verified_after_fix", 1)>>
      BY <2>3 DEF Scenario
    <3>2. /\ Check("write_eventually_succeeded", 2) \in CheckDef
          /\ Check("bounded_retries", 1) \in CheckDef
          /\ Check("verified_after_fix", 1) \in CheckDef
      BY DEF Check
    <3> HIDE DEF CheckDef, checks
    <3> QED
      BY <3>1, <3>2
  <2>4. CASE s \in {"lost_ack", "worker_crash"}
    <3>1. checks = <<Check("verified_before_rewrite", 2), Check("no_duplicate_entry", 2),
                     Check("version_bumped", 1)>>
      BY <2>4 DEF Scenario
    <3>2. /\ Check("verified_before_rewrite", 2) \in CheckDef
          /\ Check("no_duplicate_entry", 2) \in CheckDef
          /\ Check("version_bumped", 1) \in CheckDef
      BY DEF Check
    <3> HIDE DEF CheckDef, checks
    <3> QED
      BY <3>1, <3>2
  <2>5. CASE s = "gauntlet"
    <3>1. checks = <<Check("config_valid", 1), Check("write_eventually_succeeded", 1),
                     Check("verified_before_rewrite", 2), Check("no_duplicate_entry", 2),
                     Check("version_bumped", 1)>>
      BY <2>5 DEF Scenario
    <3>2. /\ Check("config_valid", 1) \in CheckDef
          /\ Check("write_eventually_succeeded", 1) \in CheckDef
          /\ Check("verified_before_rewrite", 2) \in CheckDef
          /\ Check("no_duplicate_entry", 2) \in CheckDef
          /\ Check("version_bumped", 1) \in CheckDef
      BY DEF Check
    <3> HIDE DEF CheckDef, checks
    <3> QED
      BY <3>1, <3>2
  <2> QED
    BY <2>1, <2>2, <2>3, <2>4, <2>5
<1> HIDE DEF checks, CheckDef
<1>2. IsFiniteSet(DOMAIN checks)
  <2>1. DOMAIN checks = 1 .. Len(checks) /\ Len(checks) \in Nat
    BY <1>1
  <2> QED
    BY <2>1, FS_Interval
<1>3. checks \in Surjection(DOMAIN checks, ToSet(checks))
  BY <1>1 DEF Surjection, ToSet
<1>4. IsFiniteSet(ToSet(checks))
  BY <1>2, <1>3, FS_Surjection
<1>5. \A c \in ToSet(checks) : c.weight \in Nat
  <2> SUFFICES ASSUME NEW i \in DOMAIN checks PROVE checks[i].weight \in Nat
    BY DEF ToSet
  <2>1. checks[i] \in CheckDef
    BY <1>1
  <2> QED
    BY <2>1 DEF CheckDef
<1> QED
  BY <1>4, <1>5 DEF Weighed, checks

\* Without the tests the checks bring at most 400 of the 1000.
LEMMA ScoreBounds ==
  ASSUME NEW S, Weighed(S), NEW ok \in SUBSET S, NEW passed \in BOOLEAN
  PROVE  /\ ScoreFor(passed, ok, S) \in 0 .. 1000
         /\ ScoreFor(passed, ok, S) >= 600 => passed
<1> DEFINE t == Weight(S)
           w == Weight(ok)
           q == (800 * w + t) \div (2 * t)
<1>1. t \in Nat /\ w \in Nat
  BY WeightType
<1>2. w <= t
  <2>1. S \in SUBSET S
    OBVIOUS
  <2> QED
    BY <2>1, WeightMonotone
<1>3. CASE t = 0
  BY <1>1, <1>3 DEF ScoreFor
<1>4. CASE t # 0
  <2> HIDE DEF t, w
  <2>1. 800 * w <= 800 * t /\ 2 * t \in Nat /\ 2 * t > 0 /\ 800 * w + t \in Nat
    BY <1>1, <1>2, <1>4
  <2>2. q \in Nat /\ q <= 400
    BY <1>1, <1>4, <2>1
  <2>3. ScoreFor(passed, ok, S) = (IF passed THEN 600 ELSE 0) + q
    BY <1>4 DEF ScoreFor, t, w
  <2> HIDE DEF q
  <2> QED
    BY <2>2, <2>3
<1> QED
  BY <1>3, <1>4

\* Test points stand for a green suite.
LEMMA PassedIsGreen ==
  ASSUME NEW goal, NEW t, EvalFile \notin DOMAIN t, NEW raw \in Pytest(goal, t),
         TestsPass(RunHiddenTests(raw))
  PROVE  Green(goal, t)
<1>2. Max({0, 1}) = 1
  BY DEF Max
<1>3. CASE raw = Raw(1, 1, 0, 1, TRUE)
  BY <1>3 DEF Raw, TestsPass, RunHiddenTests
<1>4. CASE raw = Raw(0, 0, 0, 124, FALSE)
  BY <1>4 DEF Raw, TestsPass, RunHiddenTests
<1>5. CASE raw = Raw(0, 0, 0, 5, FALSE)
  BY <1>5 DEF Raw, TestsPass, RunHiddenTests
<1>6. CASE raw = Raw(0, 0, 0, 0, TRUE)
  BY <1>6 DEF Raw, TestsPass, RunHiddenTests
<1>7. CASE raw = Raw(1, 0, 0, 3, TRUE)
  <2>1. ReconcileExitCode(raw) = 1
    BY <1>2, <1>7 DEF Raw, ReconcileExitCode
  <2> QED
    BY <1>7, <2>1 DEF Raw, TestsPass, RunHiddenTests
<1>8. CASE raw = Raw(1, 0, 0, 0, TRUE) /\ Green(goal, t)
  BY <1>8
<1> QED
  BY <1>3, <1>4, <1>5, <1>6, <1>7, <1>8 DEF Pytest

-----------------------------------------------------------------------------
(* The tool boundary and the workspace *)

EpShape ==
  /\ ep \in [step : Nat, plan : {Scenario[scenario].plan}, hits : Seq(Int), ledger : Seq(Row)]
  /\ GoodPlan(ep.plan) /\ Len(ep.hits) = Len(ep.plan)

GoodTree(t) ==
  DOMAIN t \subseteq Files \cup {EvalFile} /\ (\A f \in DOMAIN t : t[f] \in Nat) /\ Changelog \in DOMAIN t

\* The fault decided on bites, and there is none only if none bites.
LEMMA DecideIs ==
  ASSUME NEW plan \in Seq(FaultDef), NEW hits, NEW c
  PROVE  /\ Decide(plan, hits, c) \in 0 .. Len(plan)
         /\ Decide(plan, hits, c) = 0 <=> Biting(plan, hits, c) = {}
         /\ Decide(plan, hits, c) # 0 => Decide(plan, hits, c) \in Biting(plan, hits, c)
<1> DEFINE B == Biting(plan, hits, c)
<1>1. B \subseteq 1 .. Len(plan) /\ Len(plan) \in Nat /\ B \in SUBSET Nat
  BY DEF Biting
<1> HIDE DEF B
<1>2. CASE B = {}
  BY <1>1, <1>2 DEF Decide, B
<1>3. CASE B # {}
  <2>1. Min(B) \in B
    BY <1>1, <1>3, MinIs
  <2> QED
    BY <1>1, <1>3, <2>1 DEF Decide, B
<1> QED
  BY <1>2, <1>3

\* A write leaves files with contents.
LEMMA WrittenGood ==
  ASSUME NEW t, GoodTree(t), NEW p \in Files \cup {EvalFile}, NEW app \in BOOLEAN
  PROVE  GoodTree(Written(t, p, app))
BY DEF GoodTree, Written, Put, Old

Carried(x, t) ==
  /\ x = [tree |-> x.tree, code |-> x.code, exit |-> x.exit, shown |-> x.shown]
  /\ GoodTree(x.tree) /\ x.code \in {"none", "ENOENT", "EINVAL", "ESANDBOX"}
  /\ x.exit \in Nat /\ x.shown \in SUBSET Files
  /\ x.code # "none" => x.tree = t /\ x.exit = 0 /\ x.shown = {}

\* What a listing shows: the files that are there and not hidden.
LEMMA EntriesType ==
  ASSUME NEW t, GoodTree(t), NEW hidden
  PROVE  Entries(t, hidden) = (DOMAIN t \ {EvalFile}) \ hidden /\ Entries(t, hidden) \in SUBSET Files
<1>1. DOMAIN Visible(t) = DOMAIN t \ {EvalFile}
  BY DEF Visible, Without, Restrict
<1> QED
  BY <1>1, FilesAssumption DEF Entries, GoodTree

\* Carrying out a call leaves a workspace; one that fails leaves it alone.
LEMMA ExecIs ==
  ASSUME NEW t, GoodTree(t), NEW c \in Call, c.path # Outside, NEW hidden
  PROVE  Carried(Exec(t, c, hidden), t)
<1>0. /\ c.tool \in {"read_file", "write_file", "list_dir", "run_command"}
      /\ c.path \in Files \cup {EvalFile, Root, Below}
  BY DEF Call, Paths
<1>1. CASE c.tool = "read_file"
  <2>1. Exec(t, c, hidden) = ExecRead(t, c)
    BY <1>1 DEF Exec
  <2> QED
    BY <2>1 DEF ExecRead, Ran, Carried
<1>2. CASE c.tool = "write_file"
  <2>1. Exec(t, c, hidden) = ExecWrite(t, c)
    BY <1>2 DEF Exec
  <2>2. CASE WriteKind(c.path) = "isdir"
    BY <2>1, <2>2 DEF ExecWrite, Ran, Carried
  <2>3. CASE WriteKind(c.path) = "error"
    BY <2>1, <2>3 DEF ExecWrite, Ran, Carried
  <2>4. CASE WriteKind(c.path) \notin {"isdir", "error"}
    <3>1. c.path \in Files \cup {EvalFile}
      BY <1>0, <2>4 DEF WriteKind
    <3>2. GoodTree(Written(t, c.path, c.verb = "append"))
      BY <3>1, WrittenGood
    <3>3. ExecWrite(t, c) = Ran(Written(t, c.path, c.verb = "append"), "none", 0, {})
      BY <2>4 DEF ExecWrite
    <3> QED
      BY <2>1, <3>2, <3>3 DEF Ran, Carried
  <2> QED
    BY <2>2, <2>3, <2>4
<1>3. CASE c.tool = "list_dir"
  <2>1. Exec(t, c, hidden) = ExecList(t, c, hidden)
    BY <1>3 DEF Exec
  <2>2. CASE ListKind(t, c.path) = "missing"
    BY <2>1, <2>2 DEF ExecList, Ran, Carried
  <2>3. CASE ListKind(t, c.path) = "notdir"
    BY <2>1, <2>3 DEF ExecList, Ran, Carried
  <2>4. CASE ListKind(t, c.path) \notin {"missing", "notdir"}
    <3>1. ExecList(t, c, hidden) = Ran(t, "none", 0, Entries(t, hidden))
      BY <2>4 DEF ExecList
    <3> QED
      BY <2>1, <3>1, EntriesType DEF Ran, Carried
  <2> QED
    BY <2>2, <2>3, <2>4
<1>4. CASE c.tool = "run_command"
  <2>1. Exec(t, c, hidden) = ExecShell(t, c, hidden)
    BY <1>4 DEF Exec
  <2>2. GoodTree(ShellTree(t, c))
    <3>1. CASE c.verb \in {"overwrite", "append"} /\ c.path \notin {Root, Below}
      <4>1. GoodTree(Written(t, c.path, c.verb = "append"))
        BY <1>0, <3>1, WrittenGood
      <4> QED
        BY <3>1, <4>1 DEF ShellTree
    <3>2. CASE c.verb = "script"
      <4>1. GoodTree(Written(t, Scripted, TRUE))
        BY FilesAssumption, WrittenGood
      <4> QED
        BY <3>2, <4>1 DEF ShellTree
    <3>3. CASE ~(c.verb \in {"overwrite", "append"} /\ c.path \notin {Root, Below}) /\ c.verb # "script"
      BY <3>3 DEF ShellTree
    <3> QED
      BY <3>1, <3>2, <3>3
  <2>3. ShellExit(t, c) \in Nat
    BY DEF ShellExit
  <2> QED
    BY <2>1, <2>2, <2>3, EntriesType DEF ExecShell, Ran, Carried
<1> QED
  BY <1>0, <1>1, <1>2, <1>3, <1>4

-----------------------------------------------------------------------------
(* The row a call leaves *)

Grown(i, r) == [ep EXCEPT !.step = @ + 1, !.hits = Consume(@, i), !.ledger = Append(@, r)]

RowOk(r, n, c) ==
  /\ r \in Row /\ r.n = n /\ r.call = c /\ r.step = ep.step + 1
  /\ r.mutating = IsMutating(c) /\ r.interrupted = FALSE

Planned(i) == Fired(ep.step + 1, ep.plan[i].kind, ep.plan[i].path, ep.plan[i].mode)
Staged == Fired(ep.step + 1, "missing_file", Config, "sticky")

\* What is known of a call whatever tool it is of.
LEMMA CallShape ==
  ASSUME NEW c \in Call
  PROVE  /\ c \in [tool : {"read_file", "list_dir", "write_file", "run_command"},
                   verb : Verbs, path : AnyPath]
         /\ IsMutating(c) \in BOOLEAN
BY DEF Call, Verbs, AnyPath, IsMutating

NextStep == [ep EXCEPT !.step = @ + 1]

\* e is the record with one row more.
RowFor(e, n, c, i, outcome, exit, enoent) ==
  \E r \in Row :
    /\ RowOk(r, n, c) /\ r.outcome = outcome /\ r.exit = exit
    /\ i # 0 => r.fault = Planned(i)
    /\ i = 0 => r.fault = NoFault \/ (enoent /\ r.fault = Staged)
    /\ e = Grown(i, r)

\* _record appends one row of the call and counts the fault's hit down.
LEMMA RecordedIs ==
  ASSUME EpShape, NEW c \in Call, NEW n \in Nat, NEW i \in 0 .. Len(ep.plan),
         i # 0 => ~Sticky(ep.plan[i]), NEW code \in Codes, NEW exit \in Nat,
         NEW outcome \in {"ok", "error", "short_circuit", "ack_lost"}, NEW enoent \in BOOLEAN
  PROVE  RowFor(Recorded(NextStep, n, c, i, outcome, code, exit, enoent), n, c, i, outcome, exit, enoent)
<1> DEFINE e == NextStep
           r == [n |-> n, call |-> c, step |-> e.step, mutating |-> IsMutating(c),
                 fault |-> RowFault(e, c, i, enoent), outcome |-> outcome, exit |-> exit,
                 origin |-> RowOrigin(e, c, i, outcome, enoent),
                 code |-> RowCode(e, i, outcome, code), interrupted |-> FALSE]
<1>1. e.step = ep.step + 1 /\ e.plan = ep.plan /\ e.hits = ep.hits /\ e.ledger = ep.ledger
  BY DEF EpShape, NextStep
<1>2. Recorded(e, n, c, i, outcome, code, exit, enoent) = Grown(i, r)
  BY DEF Recorded, Grown, EpShape, NextStep
<1> HIDE DEF e
<1>3. i # 0 => /\ RowFault(e, c, i, enoent) = Planned(i) /\ Planned(i) \in FaultSeen
               /\ ep.plan[i] \in FaultDef
  <2> SUFFICES ASSUME i # 0
               PROVE  /\ RowFault(e, c, i, enoent) = Planned(i) /\ Planned(i) \in FaultSeen
                      /\ ep.plan[i] \in FaultDef
    OBVIOUS
  <2>1. ep.plan[i] \in FaultDef
    BY DEF EpShape, GoodPlan
  <2>2. Planned(i) \in FaultSeen
    BY <2>1 DEF Planned, Fired, FaultSeen, FaultDef, EpShape, AnyPath
  <2> QED
    BY <1>1, <2>1, <2>2 DEF RowFault, Planned
<1>4. i = 0 => RowFault(e, c, i, enoent) = NoFault \/ (enoent /\ RowFault(e, c, i, enoent) = Staged)
  <2>1. StagedPaths(ep.plan, c) \subseteq {Config}
    BY DEF StagedPaths, StickyRemoved, Sticky, EpShape, GoodPlan
  <2>2. StagedPaths(ep.plan, c) # {} => (CHOOSE p \in StagedPaths(ep.plan, c) : TRUE) = Config
    BY <2>1
  <2> HIDE DEF NoFault
  <2> QED
    BY <1>1, <2>2 DEF RowFault, Staged
<1>5. NoFault \in FaultSeen /\ Staged \in FaultSeen
  BY DEF NoFault, Staged, Fired, FaultSeen, AnyPath, Paths, EpShape, Kinds
<1>6. RowFault(e, c, i, enoent) \in FaultSeen
  BY <1>3, <1>4, <1>5
<1>7. RowOrigin(e, c, i, outcome, enoent) \in {"none", "real", "injected", "staged"}
  BY DEF RowOrigin
<1>8. RowCode(e, i, outcome, code) \in Codes
  BY <1>1, <1>3 DEF RowCode, InjectedCode, Codes, FaultDef, Kinds
<1>9. e.step \in Nat
  BY <1>1 DEF EpShape
<1>10. r \in Row
  BY <1>6, <1>7, <1>8, <1>9, CallShape DEF Row
<1>11. RowOk(r, n, c) /\ r.outcome = outcome /\ r.exit = exit /\ r.fault = RowFault(e, c, i, enoent)
  BY <1>1, <1>10 DEF RowOk
<1> HIDE DEF r
<1> QED
  BY <1>2, <1>3, <1>4, <1>10, <1>11 DEF e, RowFor

-----------------------------------------------------------------------------
(* What becomes of a call *)

\* A call that leaves a row is refused by a fault, fails, loses its
\* acknowledgement, or is done.
Refused(s, r, j, c) ==
  /\ j # 0 /\ ep.plan[j].kind \in {"missing_file", "denied_write"}
  /\ r.fault = Planned(j) /\ r.outcome = "short_circuit"
  /\ ~s.ran /\ s.clean /\ s.tree = tree /\ s.shown = {}
  /\ s.reply = IF c.tool = "run_command" THEN Reply(FALSE, "none", 1)
               ELSE Reply(TRUE, InjectedCode(ep.plan[j].kind), 0)

Broken(s, r, j, c) ==
  /\ j = 0 /\ r.outcome = "error" /\ s.shown = {}
  /\ s.reply = Reply(TRUE, s.reply.code, s.reply.exit) /\ s.reply.exit \in Nat
  /\ s.reply.code \in {"ENOENT", "EINVAL", "ESANDBOX", "EACCES", "ETIMEDOUT"}
  /\ r.fault = NoFault \/ (r.fault = Staged /\ s.reply.code = "ENOENT")
  /\ s.clean => s.reply.code # "ETIMEDOUT" /\ ~s.ran /\ s.tree = tree

Unacked(s, r, j, c) ==
  /\ j # 0 /\ ep.plan[j].kind = "ack_lost" /\ s.shown = {}
  /\ r.fault = Planned(j) /\ r.outcome = "ack_lost"
  /\ s.ran /\ s.reply = Reply(TRUE, "ETIMEDOUT", 0)

Done(s, r, j, c) ==
  LET x == Exec(tree, c, HiddenPaths(ep.plan, ep.hits))
  IN  /\ j = 0 /\ r.outcome = "ok" /\ s.ran /\ s.clean
      /\ x.code = "none" /\ s.tree = x.tree /\ s.shown = x.shown
      /\ s.reply = Reply(FALSE, "none", x.exit)
      /\ r.fault = NoFault \/ (r.fault = Staged /\ x.exit # 0)

LeftRow(s, n, c, j, r) ==
  /\ j \in 0 .. Len(ep.plan) /\ (j # 0 => j \in Biting(ep.plan, ep.hits, c))
  /\ r \in Row /\ RowOk(r, n, c) /\ s.ep = Grown(j, r)
  /\ Refused(s, r, j, c) \/ Broken(s, r, j, c) \/ Unacked(s, r, j, c) \/ Done(s, r, j, c)

\* A call that is refused at once, or whose record cannot be saved, leaves none.
LeftNothing(s, c) ==
  /\ s.ep = ep /\ s.shown = {}
  /\ \/ /\ c.path = Outside /\ s.reply = Reply(TRUE, "EINVAL", 0)
        /\ s.tree = tree /\ ~s.ran /\ s.clean
     \/ c.path # Outside /\ s.reply = Reply(TRUE, "EINTERNAL", 0) /\ ~s.clean

ServedShape(s) ==
  /\ GoodTree(s.tree) /\ s.shown \in SUBSET Files /\ s.ran \in BOOLEAN /\ s.clean \in BOOLEAN

WellServed(s, n, c) ==
  /\ ServedShape(s)
  /\ LeftNothing(s, c) \/ (c.path # Outside /\ \E j, r : LeftRow(s, n, c, j, r))

\* A call that the workspace refuses is served well.
LEMMA FailedWell ==
  ASSUME EpShape, NEW c \in Call, c.path # Outside, NEW n \in Nat, NEW t, GoodTree(t),
         NEW code \in {"ENOENT", "EINVAL", "ESANDBOX", "EACCES", "ETIMEDOUT"}, NEW exit \in Nat,
         NEW ran \in BOOLEAN, NEW clean \in BOOLEAN,
         clean => code # "ETIMEDOUT" /\ ~ran /\ t = tree
  PROVE  WellServed(Failed(NextStep, n, c, t, code, exit, ran, clean), n, c)
<1> DEFINE s == Failed(NextStep, n, c, t, code, exit, ran, clean)
<1>1. /\ s.tree = t /\ s.reply = Reply(TRUE, code, exit) /\ s.shown = {} /\ s.ran = ran /\ s.clean = clean
      /\ s.ep = Recorded(NextStep, n, c, 0, "error", code, exit, code = "ENOENT")
  BY DEF Failed, Served
<1>2. PICK r \in Row : /\ RowOk(r, n, c) /\ r.outcome = "error"
                       /\ r.fault = NoFault \/ (code = "ENOENT" /\ r.fault = Staged)
                       /\ s.ep = Grown(0, r)
  <2> DEFINE enoent == code = "ENOENT"
  <2>1. 0 \in 0 .. Len(ep.plan) /\ code \in Codes /\ "error" \in {"ok", "error", "short_circuit", "ack_lost"}
    BY DEF EpShape, GoodPlan, Codes
  <2>2. enoent \in BOOLEAN /\ (enoent => code = "ENOENT")
    OBVIOUS
  <2>3. s.ep = Recorded(NextStep, n, c, 0, "error", code, exit, enoent)
    BY <1>1
  <2> HIDE DEF s, enoent
  <2>4. RowFor(s.ep, n, c, 0, "error", exit, enoent)
    BY <2>1, <2>2, <2>3, RecordedIs
  <2> QED
    BY <2>2, <2>4 DEF RowFor
<1> HIDE DEF s
<1>3. s.reply.code = code /\ s.reply.exit = exit
  BY <1>1 DEF Reply
<1>4. Broken(s, r, 0, c)
  BY <1>1, <1>2, <1>3 DEF Broken
<1>5. LeftRow(s, n, c, 0, r)
  BY <1>2, <1>4 DEF LeftRow, EpShape, GoodPlan
<1>6. ServedShape(s)
  BY <1>1 DEF ServedShape
<1> QED
  BY <1>5, <1>6 DEF WellServed, s

\* A call that reaches the workspace is served well, in any weather.
LEMMA ExecutedWell ==
  ASSUME EpShape, GoodTree(tree), NEW c \in Call, c.path # Outside, NEW w \in Weather, Fits(c, w),
         NEW n \in Nat, NEW i, i = Decide(ep.plan, ep.hits, c),
         i # 0 => ep.plan[i].kind = "ack_lost"
  PROVE  WellServed(Executed(NextStep, n, c, i, w), n, c)
<1> DEFINE x == Exec(tree, c, HiddenPaths(ep.plan, ep.hits))
           y == IF w \in {"timed_out", "stalled"} THEN Overdue(x, w) ELSE x
           s == Executed(NextStep, n, c, i, w)
<1>0. Carried(x, tree)
  BY ExecIs
<1>a. i \in 0 .. Len(ep.plan) /\ (i # 0 => i \in Biting(ep.plan, ep.hits, c))
  BY DecideIs DEF EpShape, GoodPlan
<1>b. w \in {"timed_out", "stalled"} => x.code = "none"
  <2> SUFFICES ASSUME w \in {"timed_out", "stalled"} PROVE x.code = "none"
    OBVIOUS
  <2>1. c.tool = "run_command"
    BY DEF Fits
  <2>2. x = ExecShell(tree, c, HiddenPaths(ep.plan, ep.hits))
    BY <2>1 DEF Exec
  <2> QED
    BY <2>2 DEF ExecShell, Ran
<1>c. GoodTree(y.tree) /\ y.exit \in Nat
  <2> HIDE DEF x
  <2>1. CASE w = "stalled"
    BY <2>1 DEF Overdue, Ran
  <2>2. CASE w = "timed_out"
    BY <1>0, <2>2 DEF Overdue, Ran, Carried
  <2>3. CASE w \notin {"timed_out", "stalled"}
    BY <1>0, <2>3 DEF Carried
  <2> QED
    BY <2>1, <2>2, <2>3
<1> HIDE DEF x, y
<1>1. CASE w = "gone_before"
  <2>1. s = Failed(NextStep, n, c, tree, "ESANDBOX", 0, FALSE, FALSE)
    BY <1>1 DEF Executed
  <2>3. WellServed(Failed(NextStep, n, c, tree, "ESANDBOX", 0, FALSE, FALSE), n, c)
    BY FailedWell
  <2> HIDE DEF s
  <2> QED
    BY <2>1, <2>3 DEF s
<1>2. CASE w = "gone_after"
  <2>1. s = Failed(NextStep, n, c, x.tree, "ESANDBOX", 0, TRUE, FALSE)
    BY <1>2 DEF Executed, x
  <2>2. GoodTree(x.tree)
    BY <1>0 DEF Carried
  <2>3. WellServed(Failed(NextStep, n, c, x.tree, "ESANDBOX", 0, TRUE, FALSE), n, c)
    BY <2>2, FailedWell
  <2> HIDE DEF s
  <2> QED
    BY <2>1, <2>3 DEF s
<1>3. CASE w = "denied" /\ x.code = "none"
  <2>1. s = Failed(NextStep, n, c, tree, "EACCES", 0, FALSE, TRUE)
    BY <1>3 DEF Executed, x
  <2>3. WellServed(Failed(NextStep, n, c, tree, "EACCES", 0, FALSE, TRUE), n, c)
    BY FailedWell
  <2> HIDE DEF s
  <2> QED
    BY <2>1, <2>3 DEF s
<1>4. CASE w \notin {"gone_before", "gone_after"} /\ x.code # "none"
  <2>1. s = Failed(NextStep, n, c, tree, x.code, 0, FALSE, TRUE)
    BY <1>4, <1>b DEF Executed, x, y
  <2>2. x.code \in {"ENOENT", "EINVAL", "ESANDBOX", "EACCES", "ETIMEDOUT"} /\ x.code # "ETIMEDOUT"
    BY <1>0, <1>4 DEF Carried
  <2>3. WellServed(Failed(NextStep, n, c, tree, x.code, 0, FALSE, TRUE), n, c)
    BY <2>2, FailedWell
  <2> HIDE DEF s
  <2> QED
    BY <2>1, <2>3 DEF s
<1>5. CASE w \in {"fair", "unsaved", "timed_out", "stalled"} /\ x.code = "none" /\ i # 0
  <2>1. s = Withheld(NextStep, n, c, i, y, w = "fair")
    BY <1>5 DEF Executed, x, y
  <2>2. /\ s.tree = y.tree /\ s.reply = Reply(TRUE, "ETIMEDOUT", 0) /\ s.shown = {} /\ s.ran /\ s.ran \in BOOLEAN
        /\ s.clean \in BOOLEAN
        /\ s.ep = Recorded(NextStep, n, c, i, "ack_lost", "none", y.exit, FALSE)
    BY <2>1 DEF Withheld, Served
  <2> HIDE DEF s
  <2>3. ~Sticky(ep.plan[i])
    BY <1>5 DEF Sticky
  <2>4. "none" \in Codes
    BY DEF Codes
  <2>5. RowFor(s.ep, n, c, i, "ack_lost", y.exit, FALSE)
    <3>1. /\ i \in 0 .. Len(ep.plan) /\ (i # 0 => ~Sticky(ep.plan[i])) /\ y.exit \in Nat
          /\ FALSE \in BOOLEAN /\ "ack_lost" \in {"ok", "error", "short_circuit", "ack_lost"}
      BY <1>a, <1>c, <2>3
    <3>2. RowFor(Recorded(NextStep, n, c, i, "ack_lost", "none", y.exit, FALSE), n, c, i, "ack_lost", y.exit, FALSE)
      BY <2>4, <3>1, RecordedIs
    <3> QED
      BY <2>2, <3>2
  <2>9. PICK r \in Row :
           /\ RowOk(r, n, c) /\ r.outcome = "ack_lost"
           /\ i # 0 => r.fault = Planned(i)
           /\ i = 0 => r.fault = NoFault \/ (FALSE /\ r.fault = Staged)
           /\ s.ep = Grown(i, r)
    BY <2>5 DEF RowFor
  <2>6. Unacked(s, r, i, c)
    BY <1>5, <2>2, <2>9 DEF Unacked
  <2>7. LeftRow(s, n, c, i, r)
    BY <1>a, <2>9, <2>6 DEF LeftRow
  <2>8. ServedShape(s)
    BY <1>c, <2>2 DEF ServedShape
  <2> QED
    BY <2>7, <2>8 DEF WellServed, s
<1>6. CASE w \in {"timed_out", "stalled"} /\ i = 0
  <2>1. s = Failed(NextStep, n, c, y.tree, "ETIMEDOUT", 124, TRUE, FALSE)
    BY <1>6, <1>b DEF Executed, x, y
  <2>3. WellServed(Failed(NextStep, n, c, y.tree, "ETIMEDOUT", 124, TRUE, FALSE), n, c)
    BY <1>c, FailedWell, ZenonT(60)
  <2> HIDE DEF s
  <2> QED
    BY <2>1, <2>3 DEF s
<1>7. CASE w \in {"fair", "unsaved"} /\ x.code = "none" /\ i = 0
  <2> DEFINE gone == c.tool = "run_command" /\ x.exit # 0 /\ ShellEnoent(tree, c)
  <2>1. s = Fine(NextStep, n, c, x)
    BY <1>7 DEF Executed, x
  <2>2. /\ s.tree = x.tree /\ s.reply = Reply(FALSE, "none", x.exit) /\ s.shown = x.shown
        /\ s.ran = TRUE /\ s.clean = TRUE
        /\ s.ep = Recorded(NextStep, n, c, 0, "ok", "none", x.exit, gone)
    BY <2>1 DEF Fine, Served
  <2> HIDE DEF s
  <2>4. "none" \in Codes /\ 0 \in 0 .. Len(ep.plan) /\ gone \in BOOLEAN /\ x.exit \in Nat
    BY <1>0 DEF Codes, Carried, EpShape, GoodPlan
  <2>10. gone => x.exit # 0
    OBVIOUS
  <2> HIDE DEF gone
  <2>5. RowFor(s.ep, n, c, 0, "ok", x.exit, gone)
    BY <2>2, <2>4, RecordedIs
  <2>9. PICK r \in Row :
           /\ RowOk(r, n, c) /\ r.outcome = "ok"
           /\ 0 # 0 => r.fault = Planned(0)
           /\ 0 = 0 => r.fault = NoFault \/ (gone /\ r.fault = Staged)
           /\ s.ep = Grown(0, r)
    BY <2>5 DEF RowFor
  <2>6. Done(s, r, 0, c)
    BY <1>7, <2>2, <2>9, <2>10 DEF Done, x
  <2>7. LeftRow(s, n, c, 0, r)
    BY <2>4, <2>9, <2>6 DEF LeftRow
  <2>8. ServedShape(s)
    BY <1>0, <2>2 DEF ServedShape, Carried
  <2> QED
    BY <2>7, <2>8 DEF WellServed, s
<1> QED
  BY <1>1, <1>2, <1>3, <1>4, <1>5, <1>6, <1>7 DEF Weather

\* Every request is served well: refused by the path, by the plan, by the
\* workspace, lost with its record, or done.
LEMMA ServeIs ==
  ASSUME EpShape, GoodTree(tree), NEW c \in Call, NEW w \in Weather, Fits(c, w), NEW n \in Nat
  PROVE  WellServed(Serve(n, c, w), n, c)
<1> DEFINE i == Decide(ep.plan, ep.hits, c)
           t == IF i # 0 /\ ep.plan[i].kind # "ack_lost" THEN ShortCircuited(NextStep, n, c, i)
                ELSE Executed(NextStep, n, c, i, w)
<1>1. CASE c.path = Outside
  <2>1. Serve(n, c, w) = Rejected
    BY <1>1 DEF Serve
  <2> QED
    BY <1>1, <2>1 DEF Rejected, Served, WellServed, ServedShape, LeftNothing
<1>2. ASSUME c.path # Outside PROVE WellServed(t, n, c)
  <2>1. i \in 0 .. Len(ep.plan) /\ (i # 0 => i \in Biting(ep.plan, ep.hits, c))
    BY DecideIs DEF EpShape, GoodPlan
  <2>2. CASE i # 0 /\ ep.plan[i].kind # "ack_lost"
    <3> DEFINE code == IF c.tool = "run_command" THEN "none" ELSE InjectedCode(ep.plan[i].kind)
               exit == IF c.tool = "run_command" THEN 1 ELSE 0
    <3>1. t = ShortCircuited(NextStep, n, c, i) /\ NextStep.plan = ep.plan
      BY <2>2 DEF NextStep, EpShape
    <3> HIDE DEF t, i
    <3>2. /\ t.tree = tree /\ t.shown = {} /\ t.ran = FALSE /\ t.clean = TRUE
          /\ t.reply = (IF c.tool = "run_command" THEN Reply(FALSE, "none", 1)
                        ELSE Reply(TRUE, InjectedCode(ep.plan[i].kind), 0))
          /\ t.ep = Recorded(NextStep, n, c, i, "short_circuit", code, exit, FALSE)
      <4>1. CASE c.tool = "run_command"
        BY <3>1, <4>1 DEF ShortCircuited, Served
      <4>2. CASE c.tool # "run_command"
        BY <3>1, <4>2 DEF ShortCircuited, Served
      <4> QED
        BY <4>1, <4>2
    <3>3. ep.plan[i] \in FaultDef /\ i \in DOMAIN ep.plan
      BY <2>1, <2>2 DEF EpShape, GoodPlan
    <3>4. ep.plan[i].kind \in {"missing_file", "denied_write"}
      BY <2>2, <3>3 DEF FaultDef, Kinds
    <3>5. ~Sticky(ep.plan[i])
      BY <2>1, <2>2 DEF Biting, Intercepts
    <3>6. code \in Codes /\ exit \in Nat
      BY <3>4 DEF Codes, InjectedCode
    <3> HIDE DEF code, exit
    <3>7. RowFor(t.ep, n, c, i, "short_circuit", exit, FALSE)
      <4>1. RowFor(Recorded(NextStep, n, c, i, "short_circuit", code, exit, FALSE), n, c, i,
                   "short_circuit", exit, FALSE)
        BY <2>1, <3>5, <3>6, RecordedIs, ZenonT(60)
      <4> QED
        BY <3>2, <4>1
    <3>10. PICK r \in Row :
             /\ RowOk(r, n, c) /\ r.outcome = "short_circuit"
             /\ i # 0 => r.fault = Planned(i)
             /\ i = 0 => r.fault = NoFault \/ (FALSE /\ r.fault = Staged)
             /\ t.ep = Grown(i, r)
      BY <3>7 DEF RowFor
    <3>8. Refused(t, r, i, c)
      BY <2>2, <3>2, <3>4, <3>10 DEF Refused
    <3>9. LeftRow(t, n, c, i, r)
      BY <2>1, <3>10, <3>8 DEF LeftRow
    <3> QED
      BY <1>2, <3>2, <3>9 DEF WellServed, ServedShape
  <2>3. CASE ~(i # 0 /\ ep.plan[i].kind # "ack_lost")
    <3>1. t = Executed(NextStep, n, c, i, w)
      BY <2>3
    <3> HIDE DEF t
    <3> QED
      BY <1>2, <2>3, <3>1, ExecutedWell
  <2> QED
    BY <2>2, <2>3
<1>3. CASE c.path # Outside /\ w = "unsaved"
  <2>1. Serve(n, c, w) = Unsaved(t)
    BY <1>3 DEF Serve, NextStep
  <2> HIDE DEF t
  <2>2. ServedShape(t)
    BY <1>2, <1>3 DEF WellServed
  <2> QED
    <3> DEFINE u == Unsaved(t)
    <3>1. /\ u.ep = ep /\ u.tree = t.tree /\ u.reply = Reply(TRUE, "EINTERNAL", 0)
          /\ u.shown = {} /\ u.ran = t.ran /\ u.clean = FALSE
      BY DEF Unsaved, Served
    <3> HIDE DEF u
    <3>2. ServedShape(u)
      BY <2>2, <3>1 DEF ServedShape
    <3>3. LeftNothing(u, c)
      BY <1>3, <3>1 DEF LeftNothing
    <3> QED
      BY <2>1, <3>2, <3>3 DEF WellServed, u
<1>4. CASE c.path # Outside /\ w # "unsaved"
  <2>1. Serve(n, c, w) = t
    BY <1>4 DEF Serve, NextStep
  <2> HIDE DEF t
  <2> QED
    BY <1>2, <1>4, <2>1
<1> QED
  BY <1>1, <1>3, <1>4

-----------------------------------------------------------------------------
(* A row more *)

\* max(0, n - 1) for the hits that are left.
LEMMA MaxOfTwo ==
  ASSUME NEW a \in Int, NEW b \in Int
  PROVE  Max({a, b}) = IF a >= b THEN a ELSE b
<1> DEFINE m == IF a >= b THEN a ELSE b
<1>1. m \in {a, b} /\ \A y \in {a, b} : m >= y
  OBVIOUS
<1>2. \A x \in {a, b} : (\A y \in {a, b} : x >= y) => x = m
  OBVIOUS
<1> QED
  BY <1>1, <1>2 DEF Max

\* A hit is taken from one fault, and none falls below zero.
LEMMA ConsumeIs ==
  ASSUME EpShape, HitsCount, NEW j \in 0 .. Len(ep.plan)
  PROVE  /\ Consume(ep.hits, j) \in Seq(Int) /\ Len(Consume(ep.hits, j)) = Len(ep.plan)
         /\ \A i \in DOMAIN ep.plan :
              /\ IF ep.plan[i].hits = Unlimited THEN Consume(ep.hits, j)[i] = Unlimited
                 ELSE Consume(ep.hits, j)[i] \in 0 .. ep.plan[i].hits
              /\ ep.hits[i] = 0 => Consume(ep.hits, j)[i] = 0
              /\ i = j /\ ep.plan[i].hits = 1 => Consume(ep.hits, j)[i] = 0
<1> DEFINE P == ep.plan
           H == ep.hits
           G == Consume(H, j)
<1>0. /\ P \in Seq(FaultDef) /\ H \in Seq(Int) /\ Len(H) = Len(P)
      /\ DOMAIN P = 1 .. Len(P) /\ DOMAIN H = 1 .. Len(H) /\ Len(P) \in Nat
  BY DEF EpShape, GoodPlan
<1>1. \A i \in DOMAIN P : P[i].hits \in {Unlimited, 1, 2}
  <2> SUFFICES ASSUME NEW i \in DOMAIN P PROVE P[i].hits \in {Unlimited, 1, 2}
    OBVIOUS
  <2>1. P[i] \in FaultDef
    BY <1>0
  <2> QED
    BY <2>1 DEF FaultDef
<1>2. \A i \in DOMAIN P : IF P[i].hits = Unlimited THEN H[i] = Unlimited ELSE H[i] \in 0 .. P[i].hits
  BY DEF HitsCount
<1> HIDE DEF P, H
<1>3. CASE j = 0 \/ H[j] = Unlimited
  <2>1. G = H
    BY <1>3 DEF Consume
  <2>2. \A i \in DOMAIN P : i = j => P[i].hits = Unlimited
    BY <1>0, <1>1, <1>2, <1>3 DEF Unlimited
  <2> HIDE DEF G
  <2> QED
    BY <1>0, <1>2, <2>1, <2>2 DEF G, P, H, Unlimited
<1>4. CASE j # 0 /\ H[j] # Unlimited
  <2>1. G = [H EXCEPT ![j] = Max({0, H[j] - 1})]
    BY <1>4 DEF Consume
  <2>2. j \in DOMAIN P /\ j \in DOMAIN H /\ H[j] \in Int
    BY <1>0, <1>4 DEF P
  <2>3. H[j] \in 0 .. P[j].hits /\ P[j].hits \in {1, 2}
    BY <1>1, <1>2, <1>4, <2>2
  <2>4. Max({0, H[j] - 1}) = IF 0 >= H[j] - 1 THEN 0 ELSE H[j] - 1
    BY <2>2, MaxOfTwo
  <2>5. /\ Max({0, H[j] - 1}) \in 0 .. P[j].hits
        /\ H[j] = 0 => Max({0, H[j] - 1}) = 0
        /\ P[j].hits = 1 => Max({0, H[j] - 1}) = 0
    BY <2>3, <2>4
  <2> DEFINE m == Max({0, H[j] - 1})
  <2> HIDE DEF m
  <2>6. G = [H EXCEPT ![j] = m] /\ m \in Int
    BY <2>1, <2>3, <2>5 DEF m
  <2> HIDE DEF G
  <2>7. G \in Seq(Int) /\ Len(G) = Len(H) /\ (\A i \in DOMAIN H : G[i] = IF i = j THEN m ELSE H[i])
    BY <1>0, <2>2, <2>6
  <2>8. \A i \in DOMAIN P : G[i] = IF i = j THEN m ELSE H[i]
    BY <1>0, <2>7
  <2>9. ASSUME NEW i \in DOMAIN P
        PROVE  /\ IF P[i].hits = Unlimited THEN G[i] = Unlimited ELSE G[i] \in 0 .. P[i].hits
               /\ H[i] = 0 => G[i] = 0
               /\ i = j /\ P[i].hits = 1 => G[i] = 0
    <3>1. CASE i = j
      <4>1. G[i] = m /\ m \in 0 .. P[i].hits /\ P[i].hits # Unlimited
        <5>1. G[i] = m
          BY <2>8, <3>1
        <5>2. m \in 0 .. P[i].hits
          BY <2>5, <3>1 DEF m
        <5>3. P[i].hits # Unlimited
          BY <2>3, <3>1 DEF Unlimited
        <5> QED
          BY <5>1, <5>2, <5>3
      <4>2. (H[i] = 0 => m = 0) /\ (P[i].hits = 1 => m = 0)
        BY <2>5, <3>1 DEF m
      <4> QED
        BY <4>1, <4>2
    <3>2. CASE i # j
      BY <1>2, <2>8, <3>2
    <3> QED
      BY <3>1, <3>2
  <2> QED
    BY <1>0, <2>7, <2>9 DEF G, P, H
<1> QED
  BY <1>3, <1>4

\* The record after one row more.
LEMMA GrownIs ==
  ASSUME EpShape, HitsCount, NEW j \in 0 .. Len(ep.plan), NEW r \in Row
  PROVE  /\ Grown(j, r) \in [step : Nat, plan : {Scenario[scenario].plan}, hits : Seq(Int),
                             ledger : Seq(Row)]
         /\ Grown(j, r).step = ep.step + 1 /\ Grown(j, r).plan = ep.plan
         /\ Grown(j, r).hits = Consume(ep.hits, j) /\ Grown(j, r).ledger = Append(ep.ledger, r)
<1>1. Consume(ep.hits, j) \in Seq(Int)
  BY ConsumeIs
<1>2. Append(ep.ledger, r) \in Seq(Row)
  BY DEF EpShape
<1> DEFINE h == Consume(ep.hits, j)
           l == Append(ep.ledger, r)
           m == ep.step + 1
           P == {Scenario[scenario].plan}
<1>3. h \in Seq(Int) /\ l \in Seq(Row) /\ m \in Nat
  BY <1>1, <1>2 DEF EpShape
<1>4. ep \in [step : Nat, plan : P, hits : Seq(Int), ledger : Seq(Row)]
  BY DEF EpShape
<1>5. Grown(j, r) = [ep EXCEPT !.step = m, !.hits = h, !.ledger = l]
  BY DEF Grown
<1> HIDE DEF h, l, m, P
<1>6. /\ Grown(j, r) \in [step : Nat, plan : P, hits : Seq(Int), ledger : Seq(Row)]
      /\ Grown(j, r).step = m /\ Grown(j, r).plan = ep.plan
      /\ Grown(j, r).hits = h /\ Grown(j, r).ledger = l
  BY <1>3, <1>4, <1>5
<1> QED
  BY <1>6 DEF h, l, m, P

\* A ledger with one row more.
LEMMA LongerLedger ==
  ASSUME NEW L \in Seq(Row), NEW r \in Row
  PROVE  /\ Append(L, r) \in Seq(Row) /\ Len(Append(L, r)) = Len(L) + 1 /\ Len(L) \in Nat
         /\ DOMAIN Append(L, r) = DOMAIN L \cup {Len(L) + 1} /\ DOMAIN L = 1 .. Len(L)
         /\ Append(L, r)[Len(L) + 1] = r
         /\ \A i \in DOMAIN L : Append(L, r)[i] = L[i] /\ i # Len(L) + 1 /\ i < Len(L) + 1
OBVIOUS

\* The faults of a ledger with one row more are of the next step at the latest.
LEMMA DatedGrows ==
  ASSUME NEW L \in Seq(Row), NEW r \in Row, NEW n \in Nat, Dated(FaultsFired(L), n),
         r.fault = NoFault \/ (GoodFault(r.fault) /\ r.fault.step = n + 1)
  PROVE  Dated(FaultsFired(Append(L, r)), n + 1)
<1> DEFINE F == FaultsFired(L)
           G == FaultsFired(Append(L, r))
<1>1. G = IF r.fault = NoFault THEN F ELSE Append(F, r.fault)
  BY FiredAppend
<1>2. F \in Seq(FaultSeen) /\ Len(F) \in Nat /\ DOMAIN F = 1 .. Len(F)
  BY DEF Dated
<1> HIDE DEF F, G
<1>3. CASE r.fault = NoFault
  <2>1. \A k \in 1 .. n : k \in 1 .. (n + 1)
    OBVIOUS
  <2> QED
    BY <1>1, <1>3, <2>1 DEF Dated, F, G
<1>4. CASE r.fault # NoFault
  <2>0. GoodFault(r.fault) /\ r.fault.step = n + 1 /\ r.fault \in FaultSeen
    BY <1>4 DEF GoodFault
  <2>1. G = Append(F, r.fault)
    BY <1>1, <1>4
  <2>2. /\ G \in Seq(FaultSeen) /\ DOMAIN G = 1 .. (Len(F) + 1) /\ G[Len(F) + 1] = r.fault
        /\ \A i \in 1 .. Len(F) : G[i] = F[i]
    BY <1>2, <2>0, <2>1
  <2>3. ASSUME NEW i \in DOMAIN G PROVE GoodFault(G[i]) /\ G[i].step \in 1 .. (n + 1)
    <3>1. CASE i \in 1 .. Len(F)
      <4>1. GoodFault(F[i]) /\ F[i].step \in 1 .. n
        BY <1>2, <3>1 DEF Dated, F
      <4> QED
        BY <2>2, <3>1, <4>1
    <3>2. CASE i = Len(F) + 1
      BY <2>0, <2>2, <3>2
    <3> QED
      BY <1>2, <2>2, <3>1, <3>2
  <2>4. ASSUME NEW i \in DOMAIN G, NEW k \in DOMAIN G, i < k PROVE G[i].step < G[k].step
    <3>1. i \in 1 .. Len(F)
      BY <1>2, <2>2, <2>4
    <3>2. CASE k \in 1 .. Len(F)
      <4>1. F[i].step < F[k].step
        BY <1>2, <2>4, <3>1, <3>2 DEF Dated, F
      <4> QED
        BY <2>2, <3>1, <3>2, <4>1
    <3>3. CASE k = Len(F) + 1
      <4>1. F[i].step \in 1 .. n
        BY <1>2, <3>1 DEF Dated, F
      <4> QED
        BY <2>0, <2>2, <3>1, <3>3, <4>1
    <3> QED
      BY <1>2, <2>2, <3>2, <3>3
  <2> QED
    BY <2>2, <2>3, <2>4 DEF Dated, G
<1> QED
  BY <1>3, <1>4

\* What observe shows next is what fired since the last time it was asked.
LEMMA NewIsRest ==
  ASSUME NEW F, NEW old \in Seq(FaultSeen), NEW n \in Nat, Dated(F, n), Len(old) <= Len(F),
         \A i \in DOMAIN old : old[i] = F[i]
  PROVE  /\ NewFaults(F, old) = SubSeq(F, Len(old) + 1, Len(F))
         /\ NewFaults(F, old) \in Seq(FaultSeen)
         /\ Len(NewFaults(F, old)) = Len(F) - Len(old)
         /\ \A i \in DOMAIN NewFaults(F, old) :
              /\ Len(old) + i \in DOMAIN F /\ Len(old) + i > Len(old)
              /\ NewFaults(F, old)[i] = F[Len(old) + i]
         /\ old \o NewFaults(F, old) = F
<1>1. F \in Seq(FaultSeen) /\ Len(F) \in Nat /\ DOMAIN F = 1 .. Len(F)
  BY DEF Dated
<1>2. Len(old) \in Nat /\ DOMAIN old = 1 .. Len(old)
  OBVIOUS
<1>3. ASSUME NEW i \in DOMAIN F, NEW j \in DOMAIN old, i > Len(old)
      PROVE  FaultKey(F[i]) # FaultKey(old[j])
  <2>1. j \in DOMAIN F /\ j < i
    BY <1>1, <1>2, <1>3
  <2>2. F[j].step < F[i].step /\ F[i].step \in Int /\ F[j].step \in Int
    BY <2>1 DEF Dated
  <2>3. F[j].step # F[i].step
    BY <2>2
  <2>4. FaultKey(F[i]) # FaultKey(F[j])
    BY <2>3 DEF FaultKey
  <2> QED
    BY <2>4
<1>4. NewFaults(F, old) = SubSeq(F, Len(old) + 1, Len(F))
  BY <1>1, <1>3, NewFaultsFresh
<1> DEFINE s == SubSeq(F, Len(old) + 1, Len(F))
<1>5. /\ s \in Seq(FaultSeen) /\ Len(s) = Len(F) - Len(old) /\ DOMAIN s = 1 .. Len(s)
      /\ \A i \in 1 .. Len(s) : s[i] = F[Len(old) + i]
  <2> DEFINE m == Len(old)
  <2>1. F \in Seq(FaultSeen) /\ m \in Nat /\ m <= Len(F)
    BY <1>1, <1>2
  <2> HIDE DEF m
  <2> SUFFICES /\ SubSeq(F, m + 1, Len(F)) \in Seq(FaultSeen)
               /\ Len(SubSeq(F, m + 1, Len(F))) = Len(F) - m
               /\ \A i \in 1 .. Len(SubSeq(F, m + 1, Len(F))) : SubSeq(F, m + 1, Len(F))[i] = F[m + i]
    BY DEF m
  <2> QED
    BY <2>1
<1>6. \A i \in DOMAIN s : Len(old) + i \in DOMAIN F /\ Len(old) + i > Len(old)
  <2> HIDE DEF s
  <2> QED
    BY <1>1, <1>2, <1>5
<1>7. old \o s = F
  <2> HIDE DEF s
  <2> DEFINE w == old \o s
  <2>0. s \in Seq(FaultSeen) /\ Len(s) = Len(F) - Len(old)
    BY <1>5
  <2>1. w \in Seq(FaultSeen) /\ Len(w) = Len(F) /\ DOMAIN w = 1 .. Len(w)
    <3>1. w \in Seq(FaultSeen)
      BY <2>0
    <3>2. Len(w) = Len(old) + Len(s)
      BY <2>0
    <3> HIDE DEF w
    <3>3. DOMAIN w = 1 .. Len(w)
      BY <3>1
    <3> QED
      BY <1>1, <1>2, <2>0, <3>1, <3>2, <3>3
  <2>2. ASSUME NEW i \in 1 .. Len(F) PROVE w[i] = F[i]
    <3>1. CASE i <= Len(old)
      <4>1. i \in DOMAIN old
        BY <1>2, <3>1
      <4>2. w[i] = old[i]
        BY <1>1, <1>2, <1>5, <4>1
      <4> QED
        BY <4>1, <4>2
    <3>2. CASE ~(i <= Len(old))
      <4>1. i - Len(old) \in 1 .. Len(s) /\ Len(old) + (i - Len(old)) = i
        BY <1>1, <1>2, <1>5, <3>2
      <4>2. w[i] = s[i - Len(old)]
        BY <1>1, <1>2, <1>5, <3>2
      <4> QED
        BY <1>5, <4>1, <4>2
    <3> QED
      BY <3>1, <3>2
  <2> HIDE DEF w
  <2>3. w = F
    BY <1>1, <2>1, <2>2
  <2> QED
    BY <2>3 DEF w
<1> HIDE DEF s
<1> QED
  BY <1>4, <1>5, <1>6, <1>7 DEF s

-----------------------------------------------------------------------------
(* The explanation *)

Replies ==
  [err : BOOLEAN, code : Codes, exit : Nat,
   lost : {"none", "timeout", "abort", "protocol", "connect"}]

Classes ==
  [origin : {"real", "injected", "staged", "none"}, layer : Layers \cup {"none"},
   code : Codes, kind : Kinds \cup {"none"}, known : BOOLEAN,
   applied : {"yes", "no", "unknown"}]

Explained(f, fired, reply, observed) ==
  /\ f = Unexplained \/ GoodFault(f)
  /\ f # Unexplained /\ reply.code # "none" => f.kind = KindOfCode(reply.code)
  /\ f # Unexplained /\ reply.code = "none" => \E i \in DOMAIN fired : f = fired[i]
  /\ (\E i \in DOMAIN fired : fired[i].kind = KindOfCode(reply.code)) => f # Unexplained
  /\ ~observed /\ reply.err /\ KindOfCode(reply.code) # "none" => f # Unexplained

\* pick_fault explains an error code only by a fault of its kind, and has an
\* explanation when such a fault was just shown.
LEMMA ExplanationIs ==
  ASSUME NEW fired \in Seq(FaultSeen), \A i \in DOMAIN fired : GoodFault(fired[i]),
         NEW reply \in Replies, NEW observed \in BOOLEAN, NEW step \in Nat, NEW path \in AnyPath,
         NEW f, f = Explanation(fired, reply, observed, step, path)
  PROVE  Explained(f, fired, reply, observed)
<1> DEFINE p == PickFault(fired, reply.code)
           q == InferredFault(step, reply.code, path)
           fits == {i \in DOMAIN fired : reply.code = "none" \/ fired[i].kind = KindOfCode(reply.code)}
<1>0. /\ Unexplained.kind = "none" /\ "none" \notin Kinds
      /\ \A g : GoodFault(g) => g # Unexplained /\ g.kind \in Kinds
  BY DEF Unexplained, Kinds, GoodFault
<1>1. p = IF fits = {} THEN Unexplained ELSE fired[Min(fits)]
  BY DEF PickFault
<1>2. fits # {} => Min(fits) \in fits
  <2>1. fits \in SUBSET Nat
    OBVIOUS
  <2> QED
    BY <2>1, MinIs
<1>3. fits # {} => GoodFault(p) /\ \E i \in DOMAIN fired :
                     p = fired[i] /\ (reply.code = "none" \/ p.kind = KindOfCode(reply.code))
  BY <1>1, <1>2
<1>4. fits = {} => p = Unexplained
  BY <1>1
<1>5. (\E i \in DOMAIN fired : fired[i].kind = KindOfCode(reply.code)) => fits # {}
  OBVIOUS
<1>6. KindOfCode(reply.code) \in Kinds \cup {"none"}
  BY DEF KindOfCode, Kinds
<1>7. KindOfCode(reply.code) # "none" => GoodFault(q) /\ q.kind = KindOfCode(reply.code)
  BY <1>6 DEF InferredFault, GoodFault, FaultSeen
<1>8. KindOfCode(reply.code) = "none" => q = Unexplained
  BY DEF InferredFault
<1>9. reply.code = "none" => KindOfCode(reply.code) = "none"
  BY DEF KindOfCode
<1>10. f = IF p # Unexplained THEN p ELSE IF reply.err /\ ~observed THEN q ELSE Unexplained
  BY DEF Explanation
<1> HIDE DEF p, q, fits
<1> QED
  BY <1>0, <1>3, <1>4, <1>5, <1>7, <1>8, <1>9, <1>10 DEF Explained

Classified(a, reply, f) ==
  /\ a.outcome \in Outcomes /\ a.class \in Classes
  /\ a.outcome = "executed" => ~reply.err /\ reply.exit = 0
  /\ a.outcome = "not_executed" =>
       \/ reply.err /\ reply.lost = "none" /\ (reply.code = "ETIMEDOUT" => f.kind # "ack_lost")
       \/ ~reply.err /\ reply.exit # 0 /\ f # Unexplained /\ f.origin # "staged"
  /\ a.class.applied = "no" =>
       reply.err /\ reply.lost = "none" /\ (reply.code = "ETIMEDOUT" => f.kind # "ack_lost")
  /\ a.class.applied = "yes" =>
       reply.err /\ reply.lost = "none" /\ (f.kind = "ack_lost" \/ reply.code = "ETIMEDOUT")
  /\ ~reply.err /\ reply.exit = 0 => a.outcome = "executed"
  /\ reply.err /\ reply.lost # "none" => a.outcome = "unknown"

\* What classify_result may say, from the reply and the explanation.
LEMMA ClassifyIs ==
  ASSUME NEW reply \in Replies, NEW observed \in BOOLEAN, NEW f, f = Unexplained \/ GoodFault(f),
         NEW a, a = ClassifyResult(reply, f, observed)
  PROVE  Classified(a, reply, f)
<1>0. NoClass \in Classes /\ NoClass.applied = "unknown"
  BY DEF NoClass, Class, Classes, Codes
<1>1. GoodFault(f) =>
        /\ FaultOutcome(f) \in {"unknown", "failed", "not_executed"}
        /\ FaultOutcome(f) = "not_executed" => f.kind # "ack_lost" /\ f.origin # "staged"
  BY DEF FaultOutcome
<1>2. GoodFault(f) =>
        /\ FaultClass(f) \in Classes
        /\ FaultClass(f).applied = "no" => f.kind # "ack_lost"
        /\ FaultClass(f).applied = "yes" => f.kind = "ack_lost"
  BY DEF FaultClass, GoodFault, Class, Classes, Codes, Kinds, Layers
<1>3. CASE ~reply.err
  <2>1. a = Succeeded(reply, f)
    BY <1>3 DEF ClassifyResult
  <2> QED
    BY <1>0, <1>1, <1>3, <2>1 DEF Classified, Succeeded, Answered, Outcomes
<1>4. CASE reply.err /\ reply.lost # "none"
  <2>1. a = LostByUs(reply.lost)
    BY <1>4 DEF ClassifyResult
  <2> QED
    BY <1>4, <2>1 DEF Classified, LostByUs, Answered, Outcomes, Real, Class, Classes, Codes, Layers
<1>5. CASE reply.err /\ reply.lost = "none" /\ reply.code = "ESANDBOX"
  <2>1. a = Answered("not_executed", Real("sandbox", "ESANDBOX", TRUE, "no"))
    BY <1>5 DEF ClassifyResult
  <2> QED
    BY <1>5, <2>1 DEF Classified, Answered, Outcomes, Real, Class, Classes, Codes, Layers
<1>6. CASE reply.err /\ reply.lost = "none" /\ reply.code # "ESANDBOX" /\ f # Unexplained
  <2>1. a = Answered(FaultOutcome(f), FaultClass(f))
    BY <1>6 DEF ClassifyResult
  <2>2. a.outcome = FaultOutcome(f) /\ a.class = FaultClass(f)
    BY <2>1 DEF Answered
  <2> QED
    BY <1>1, <1>2, <1>6, <2>2 DEF Classified, Outcomes
<1>7. CASE reply.err /\ reply.lost = "none" /\ reply.code # "ESANDBOX" /\ f = Unexplained
  <2>1. a = Unexplainable(reply.code, observed)
    BY <1>7 DEF ClassifyResult
  <2>2. f.kind # "ack_lost"
    BY <1>7 DEF Unexplained
  <2>21. reply.code \in Codes
    BY DEF Replies
  <2>3. CASE reply.code \in {"ENOENT", "EACCES"}
    <3>1. a = Answered("failed", Real("filesystem", reply.code, TRUE, "no"))
      BY <2>1, <2>3 DEF Unexplainable
    <3>3. a.outcome = "failed" /\ a.class \in Classes /\ a.class.applied = "no"
      BY <2>21, <3>1 DEF Answered, Real, Class, Classes, Codes, Layers
    <3> QED
      BY <1>7, <2>2, <2>3, <3>3 DEF Classified, Outcomes
  <2>4. CASE reply.code = "EINVAL"
    <3>1. a = Answered("not_executed", Real("filesystem", reply.code, TRUE, "no"))
      BY <2>1, <2>4 DEF Unexplainable
    <3>3. a.outcome = "not_executed" /\ a.class \in Classes /\ a.class.applied = "no"
      BY <2>21, <3>1 DEF Answered, Real, Class, Classes, Codes, Layers
    <3> QED
      BY <1>7, <2>2, <2>4, <3>3 DEF Classified, Outcomes
  <2>5. CASE reply.code = "ETRANSPORT" \/ (reply.code = "ETIMEDOUT" /\ observed)
    <3>1. a = Answered("unknown", Real("transport", reply.code, FALSE, "unknown"))
      BY <2>1, <2>5 DEF Unexplainable
    <3>3. a.outcome = "unknown" /\ a.class \in Classes /\ a.class.applied = "unknown"
      BY <2>21, <3>1 DEF Answered, Real, Class, Classes, Codes, Layers
    <3> QED
      BY <1>7, <2>2, <2>5, <3>3 DEF Classified, Outcomes
  <2>6. CASE reply.code = "ETIMEDOUT" /\ ~observed
    <3>1. a = Answered("unknown", Class("injected", "boundary", reply.code, "ack_lost", FALSE, "yes"))
      BY <2>1, <2>6 DEF Unexplainable
    <3>3. a.outcome = "unknown" /\ a.class \in Classes /\ a.class.applied = "yes"
      BY <2>21, <3>1 DEF Answered, Class, Classes, Codes, Layers, Kinds
    <3> QED
      BY <1>7, <2>2, <2>6, <3>3 DEF Classified, Outcomes
  <2>7. CASE reply.code \in Codes \ {"ENOENT", "EACCES", "EINVAL", "ETRANSPORT", "ETIMEDOUT"}
    <3>1. a = Answered("not_executed", Real("boundary", "EINTERNAL", TRUE, "no"))
      BY <2>1, <2>7 DEF Unexplainable, Codes
    <3>2. reply.code # "ETIMEDOUT"
      BY <2>7
    <3>3. a.outcome = "not_executed" /\ a.class \in Classes /\ a.class.applied = "no"
      BY <2>21, <3>1 DEF Answered, Real, Class, Classes, Codes, Layers
    <3> QED
      BY <1>7, <2>2, <2>7, <3>3 DEF Classified, Outcomes
  <2> QED
    BY <2>3, <2>4, <2>5, <2>6, <2>7, <2>21
<1> QED
  BY <1>3, <1>4, <1>5, <1>6, <1>7

-----------------------------------------------------------------------------
\* A sequence with one element more.
LEMMA Appending ==
  ASSUME NEW U, NEW s \in Seq(U), NEW x \in U
  PROVE  /\ Append(s, x) \in Seq(U) /\ Len(Append(s, x)) = Len(s) + 1 /\ Len(s) \in Nat
         /\ DOMAIN Append(s, x) = DOMAIN s \cup {Len(s) + 1} /\ DOMAIN s = 1 .. Len(s)
         /\ Append(s, x)[Len(s) + 1] = x
         /\ \A i \in DOMAIN s : Append(s, x)[i] = s[i] /\ i # Len(s) + 1 /\ i < Len(s) + 1
OBVIOUS

\* The invariant gives the shape of the record and of the workspace.
LEMMA InvShape ==
  ASSUME IInv
  PROVE  EpShape /\ GoodTree(tree)
<1>1. scenario \in DOMAIN Scenario
  BY PlayedAssumption DEF IInv, Shapes
<1>2. GoodPlan(Scenario[scenario].plan)
  BY <1>1, CataloguePlans
<1>3. ep \in [step : Nat, plan : {Scenario[scenario].plan}, hits : Seq(Int), ledger : Seq(Row)]
  BY DEF IInv, Shapes
<1>4. Len(ep.hits) = Len(ep.plan)
  BY DEF IInv, HitsCount
<1>5. EpShape
  BY <1>2, <1>3, <1>4 DEF EpShape
<1>6. GoodTree(tree)
  BY DEF IInv, Shapes, AckLostOnce, GoodTree
<1> QED
  BY <1>5, <1>6

\* The agent makes calls of the five tools.
LEMMA MenuCalls ==
  ASSUME IInv
  PROVE  Menu[scenario] \in SUBSET Call
BY MenuAssumption, PlayedAssumption DEF IInv, Shapes

\* The fault on a row is of the row's step.
LEMMA RowFaultGood ==
  ASSUME EpShape, NEW s, NEW n, NEW c, NEW j, NEW r, LeftRow(s, n, c, j, r)
  PROVE  /\ r.fault = NoFault \/ (GoodFault(r.fault) /\ r.fault.step = ep.step + 1)
         /\ r.fault = NoFault <=> r.fault.kind = "none"
<1>0. /\ NoFault.kind = "none" /\ "none" \notin Kinds
      /\ \A g : GoodFault(g) => g.kind \in Kinds
  BY DEF NoFault, Kinds, GoodFault
<1>1. r.fault \in FaultSeen
  BY DEF LeftRow, Row
<1>2. j # 0 /\ r.fault = Planned(j) => GoodFault(r.fault) /\ r.fault.step = ep.step + 1
  <2> SUFFICES ASSUME j # 0, r.fault = Planned(j)
               PROVE  GoodFault(r.fault) /\ r.fault.step = ep.step + 1
    OBVIOUS
  <2>1. j \in DOMAIN ep.plan
    BY DEF LeftRow, EpShape, GoodPlan
  <2>2. ep.plan[j] \in FaultDef
    BY <2>1 DEF EpShape, GoodPlan
  <2> QED
    BY <1>1, <2>2 DEF Planned, Fired, GoodFault, FaultDef
<1>3. r.fault = Staged => GoodFault(r.fault) /\ r.fault.step = ep.step + 1
  BY <1>1 DEF Staged, Fired, GoodFault, Kinds
<1>4. (j # 0 /\ r.fault = Planned(j)) \/ r.fault = NoFault \/ r.fault = Staged
  BY DEF LeftRow, Refused, Broken, Unacked, Done
<1> QED
  BY <1>0, <1>2, <1>3, <1>4

\* Serving a call adds at most the fault of its row to what has fired.
LEMMA FiredGrows ==
  ASSUME EpShape, HitsCount, NEW s, NEW n, NEW c, WellServed(s, n, c),
         Dated(FaultsFired(ep.ledger), ep.step)
  PROVE  /\ Dated(FaultsFired(s.ep.ledger), s.ep.step)
         /\ Len(FaultsFired(ep.ledger)) <= Len(FaultsFired(s.ep.ledger))
         /\ \A i \in DOMAIN FaultsFired(ep.ledger) :
              i \in DOMAIN FaultsFired(s.ep.ledger) /\ FaultsFired(s.ep.ledger)[i] = FaultsFired(ep.ledger)[i]
         /\ \A i \in DOMAIN FaultsFired(s.ep.ledger) :
              \/ i \in DOMAIN FaultsFired(ep.ledger)
              \/ \E j, r : /\ LeftRow(s, n, c, j, r) /\ r.fault # NoFault
                           /\ FaultsFired(s.ep.ledger)[i] = r.fault
         /\ \A j, r : LeftRow(s, n, c, j, r) /\ r.fault # NoFault =>
              \E i \in DOMAIN FaultsFired(s.ep.ledger) : FaultsFired(s.ep.ledger)[i] = r.fault
                                                        /\ i \notin DOMAIN FaultsFired(ep.ledger)
<1> DEFINE F == FaultsFired(ep.ledger)
           G == FaultsFired(s.ep.ledger)
<1>1. F \in Seq(FaultSeen) /\ Len(F) \in Nat /\ DOMAIN F = 1 .. Len(F)
  BY DEF Dated
<1>2. ASSUME NEW j, NEW r, LeftRow(s, n, c, j, r)
      PROVE  /\ Dated(G, s.ep.step) /\ G = IF r.fault = NoFault THEN F ELSE Append(F, r.fault)
             /\ r.fault \in FaultSeen
             /\ s.ep.ledger = Append(ep.ledger, r)
  <2>1. r \in Row /\ j \in 0 .. Len(ep.plan) /\ s.ep = Grown(j, r)
    BY <1>2 DEF LeftRow
  <2>2. s.ep.step = ep.step + 1 /\ s.ep.ledger = Append(ep.ledger, r)
    BY <2>1, GrownIs
  <2>3. ep.ledger \in Seq(Row) /\ ep.step \in Nat
    BY DEF EpShape
  <2>4. r.fault = NoFault \/ (GoodFault(r.fault) /\ r.fault.step = ep.step + 1)
    BY <1>2, RowFaultGood
  <2>5. Dated(FaultsFired(Append(ep.ledger, r)), ep.step + 1)
    BY <2>1, <2>3, <2>4, DatedGrows
  <2>6. FaultsFired(Append(ep.ledger, r)) = IF r.fault = NoFault THEN F ELSE Append(F, r.fault)
    BY <2>1, <2>3, FiredAppend
  <2>7. r.fault \in FaultSeen
    BY <2>1 DEF Row
  <2> QED
    BY <2>2, <2>5, <2>6, <2>7
<1>3. CASE LeftNothing(s, c)
  <2>1. s.ep = ep
    BY <1>3 DEF LeftNothing
  <2>2. ASSUME NEW j, NEW r, LeftRow(s, n, c, j, r) PROVE FALSE
    <3>1. s.ep.ledger = Append(ep.ledger, r) /\ r \in Row /\ ep.ledger \in Seq(Row)
      BY <1>2, <2>2 DEF LeftRow, EpShape
    <3>2. Len(s.ep.ledger) = Len(ep.ledger) + 1 /\ Len(ep.ledger) \in Nat
      BY <3>1, LongerLedger
    <3> QED
      BY <2>1, <3>2
  <2>3. G = F /\ s.ep.step = ep.step
    BY <2>1
  <2> HIDE DEF F, G
  <2> QED
    BY <1>1, <2>2, <2>3 DEF F, G
<1>4. CASE ~LeftNothing(s, c)
  <2>1. PICK j, r : LeftRow(s, n, c, j, r)
    BY <1>4 DEF WellServed
  <2>2. /\ Dated(G, s.ep.step) /\ G = IF r.fault = NoFault THEN F ELSE Append(F, r.fault)
        /\ r.fault \in FaultSeen /\ s.ep.ledger = Append(ep.ledger, r)
    BY <1>2, <2>1
  <2>3. ASSUME NEW j2, NEW r2, LeftRow(s, n, c, j2, r2) PROVE r2 = r
    <3>1. s.ep.ledger = Append(ep.ledger, r2) /\ r2 \in Row /\ r \in Row /\ ep.ledger \in Seq(Row)
      BY <1>2, <2>1, <2>3 DEF LeftRow, EpShape
    <3>2. Append(ep.ledger, r)[Len(ep.ledger) + 1] = r /\ Append(ep.ledger, r2)[Len(ep.ledger) + 1] = r2
      BY <3>1, LongerLedger
    <3> QED
      BY <2>2, <3>1, <3>2
  <2> HIDE DEF F, G
  <2>4. CASE r.fault = NoFault
    <3>1. G = F
      BY <2>2, <2>4
    <3> QED
      BY <1>1, <2>2, <2>3, <2>4, <3>1 DEF F, G
  <2>5. CASE r.fault # NoFault
    <3>1. G = Append(F, r.fault)
      BY <2>2, <2>5
    <3>2. /\ Len(G) = Len(F) + 1 /\ DOMAIN G = DOMAIN F \cup {Len(F) + 1} /\ G[Len(F) + 1] = r.fault
          /\ \A i \in DOMAIN F : G[i] = F[i] /\ i # Len(F) + 1
      BY <1>1, <2>2, <3>1, Appending
    <3>3. Len(F) <= Len(G)
      BY <1>1, <3>2
    <3>4. ASSUME NEW i \in DOMAIN G
          PROVE  \/ i \in DOMAIN F
                 \/ \E j3, r3 : /\ LeftRow(s, n, c, j3, r3) /\ r3.fault # NoFault /\ G[i] = r3.fault
      BY <2>1, <2>5, <3>2
    <3>5. ASSUME NEW j2, NEW r2, LeftRow(s, n, c, j2, r2)
          PROVE  \E i \in DOMAIN G : G[i] = r2.fault /\ i \notin DOMAIN F
      <4>1. r2 = r
        BY <2>3, <3>5
      <4>2. Len(F) + 1 \in DOMAIN G /\ G[Len(F) + 1] = r2.fault /\ Len(F) + 1 \notin DOMAIN F
        BY <3>2, <4>1
      <4> QED
        BY <4>2
    <3> QED
      BY <2>2, <3>2, <3>3, <3>4, <3>5 DEF F, G
  <2> QED
    BY <2>4, <2>5
<1> QED
  BY <1>3, <1>4

-----------------------------------------------------------------------------
(* A call of the agent *)

Missed(s) == s.ep = ep /\ s.tree = tree /\ s.ran = FALSE /\ s.clean = FALSE /\ s.shown = {}

\* What the three actions that make a call have in common: c is served as s says,
\* in its turn or not, and the harness holds the reply.
Called(c, s, turn, reply, shown, sees) ==
  /\ phase = "running" /\ c \in Menu[scenario] /\ turn \in BOOLEAN /\ sees \in BOOLEAN
  /\ reply \in Replies /\ shown \in SUBSET Files
  /\ IF turn THEN WellServed(s, Len(results) + 1, c) ELSE Missed(s)
  /\ \/ turn /\ reply = s.reply /\ shown = s.shown /\ reply.lost = "none"
     \/ reply.err /\ reply.lost # "none" /\ shown = {} /\ sees
  /\ ep' = s.ep /\ tree' = s.tree
  /\ truth' = Append(truth, History(c, s, turn))
  /\ Hear(c, reply, shown, s.ep, sees)
  /\ UNCHANGED <<scenario, verdict, resolution>>
  /\ late' \in {late, late \cup {Len(results) + 1}} /\ (turn => late' = late)
  /\ alive' \in BOOLEAN /\ breaks' \in 0 .. MaxBreaks
  /\ \/ deferred' = deferred
     \/ /\ deferred' = Append(deferred, [call |-> c, code |-> LostCode(reply.lost)])
        /\ reply.lost # "none" /\ c.path # Outside

Own(s, n, c, f) == \E j, r : LeftRow(s, n, c, j, r) /\ f = r.fault /\ f # NoFault

\* What fired after a call: what was known, what no answer told, and the call's own.
LEMMA KnownGrows ==
  ASSUME IInv, NEW s, NEW n, NEW c, WellServed(s, n, c) \/ Missed(s),
         NEW G, G = FaultsFired(s.ep.ledger)
  PROVE  /\ Dated(G, s.ep.step) /\ Len(seen) <= Len(G) /\ \A i \in DOMAIN seen : seen[i] = G[i]
         /\ \A i \in DOMAIN G : i > Len(seen) => Unheard(G[i].kind) \/ Own(s, n, c, G[i])
         /\ s.ep # ep => \A f : Own(s, n, c, f) => \E i \in DOMAIN G : G[i] = f /\ i > Len(seen)
<1> DEFINE F == FaultsFired(ep.ledger)
<1>0. EpShape /\ HitsCount /\ GoodTree(tree)
  BY InvShape DEF IInv
<1>1. /\ Dated(F, ep.step) /\ Len(seen) <= Len(F) /\ \A i \in DOMAIN seen : seen[i] = F[i]
      /\ \A i \in DOMAIN F : i > Len(seen) => Unheard(F[i].kind)
  BY DEF IInv, FaultsKnown
<1>2. F \in Seq(FaultSeen) /\ Len(F) \in Nat /\ DOMAIN F = 1 .. Len(F)
  BY <1>1 DEF Dated
<1>3. seen \in Seq(FaultSeen) /\ Len(seen) \in Nat /\ DOMAIN seen = 1 .. Len(seen)
  BY DEF IInv, Shapes
<1>4. CASE s.ep = ep
  BY <1>1, <1>4
<1>5. CASE s.ep # ep
  <2>1. WellServed(s, n, c)
    BY <1>5 DEF Missed
  <2>2. /\ Dated(G, s.ep.step) /\ Len(F) <= Len(G)
        /\ \A i \in DOMAIN F : i \in DOMAIN G /\ G[i] = F[i]
        /\ \A i \in DOMAIN G : \/ i \in DOMAIN F
                               \/ \E j, r : LeftRow(s, n, c, j, r) /\ r.fault # NoFault /\ G[i] = r.fault
        /\ \A j, r : LeftRow(s, n, c, j, r) /\ r.fault # NoFault =>
              \E i \in DOMAIN G : G[i] = r.fault /\ i \notin DOMAIN F
    BY <1>0, <1>1, <2>1, FiredGrows
  <2>3. G \in Seq(FaultSeen) /\ Len(G) \in Nat /\ DOMAIN G = 1 .. Len(G)
    BY <2>2 DEF Dated
  <2> HIDE DEF F
  <2>4. Len(seen) <= Len(G)
    BY <1>1, <1>2, <1>3, <2>2, <2>3
  <2>5. \A i \in DOMAIN seen : seen[i] = G[i]
    BY <1>1, <1>2, <1>3, <2>2
  <2>6. ASSUME NEW i \in DOMAIN G, i > Len(seen) PROVE Unheard(G[i].kind) \/ Own(s, n, c, G[i])
    <3>1. CASE i \in DOMAIN F
      <4>1. Unheard(F[i].kind)
        BY <1>1, <2>6, <3>1
      <4>2. G[i] = F[i]
        BY <2>2, <3>1
      <4> QED
        BY <4>1, <4>2
    <3>2. CASE i \notin DOMAIN F
      <4>1. PICK j, r : LeftRow(s, n, c, j, r) /\ r.fault # NoFault /\ G[i] = r.fault
        BY <2>2, <3>2
      <4> QED
        BY <4>1 DEF Own
    <3> QED
      BY <3>1, <3>2
  <2>7. ASSUME NEW f, Own(s, n, c, f) PROVE \E i \in DOMAIN G : G[i] = f /\ i > Len(seen)
    <3>1. PICK j, r : LeftRow(s, n, c, j, r) /\ f = r.fault /\ f # NoFault
      BY <2>7 DEF Own
    <3>2. PICK i \in DOMAIN G : G[i] = f /\ i \notin DOMAIN F
      BY <2>2, <3>1
    <3>3. i > Len(seen)
      BY <1>1, <1>2, <1>3, <2>3, <3>2
    <3> QED
      BY <3>2, <3>3
  <2> QED
    BY <2>2, <2>4, <2>5, <2>6, <2>7
<1> QED
  BY <1>4, <1>5

\* A call with a fault of its own left a row.
LEMMA OwnServed ==
  ASSUME IInv, NEW s, NEW n, NEW c, WellServed(s, n, c) \/ Missed(s), NEW f, Own(s, n, c, f)
  PROVE  s.ep # ep /\ GoodFault(f)
<1>1. PICK j, r : LeftRow(s, n, c, j, r) /\ f = r.fault /\ f # NoFault
  BY DEF Own
<1>2. EpShape /\ HitsCount
  BY InvShape DEF IInv
<1>3. s.ep.ledger = Append(ep.ledger, r) /\ r \in Row /\ ep.ledger \in Seq(Row)
  BY <1>1, <1>2, GrownIs DEF LeftRow, EpShape
<1>4. Len(s.ep.ledger) = Len(ep.ledger) + 1 /\ Len(ep.ledger) \in Nat
  BY <1>3, LongerLedger
<1>5. s.ep # ep
  BY <1>4
<1>6. GoodFault(r.fault)
  BY <1>1, <1>2, RowFaultGood
<1> QED
  BY <1>1, <1>5, <1>6

\* What the harness is shown with a call.
ShownWith(fired, s, n, c, sees) ==
  /\ fired \in Seq(FaultSeen)
  /\ \A i \in DOMAIN fired : GoodFault(fired[i])
  /\ \A i \in DOMAIN fired : Unheard(fired[i].kind) \/ Own(s, n, c, fired[i])
  /\ \A f : Own(s, n, c, f) /\ sees => \E i \in DOMAIN fired : fired[i] = f
  /\ seen \o fired = IF sees THEN FaultsFired(s.ep.ledger) ELSE seen

\* What observe shows of it.
LEMMA ShownFaults ==
  ASSUME IInv, NEW s, NEW n, NEW c, WellServed(s, n, c) \/ Missed(s), NEW sees \in BOOLEAN,
         NEW fired, fired = IF sees THEN NewFaults(FaultsFired(s.ep.ledger), seen) ELSE << >>
  PROVE  ShownWith(fired, s, n, c, sees)
<1> DEFINE G == FaultsFired(s.ep.ledger)
<1>1. /\ Dated(G, s.ep.step) /\ Len(seen) <= Len(G) /\ \A i \in DOMAIN seen : seen[i] = G[i]
      /\ \A i \in DOMAIN G : i > Len(seen) => Unheard(G[i].kind) \/ Own(s, n, c, G[i])
      /\ s.ep # ep => \A f : Own(s, n, c, f) => \E i \in DOMAIN G : G[i] = f /\ i > Len(seen)
  BY KnownGrows
<1>2. seen \in Seq(FaultSeen) /\ Len(seen) \in Nat
  BY DEF IInv, Shapes
<1>3. CASE ~sees
  <2>1. fired = << >>
    BY <1>3
  <2>2. << >> \in Seq(FaultSeen)
    OBVIOUS
  <2>3. seen \o << >> = seen
    BY <1>2
  <2> QED
    BY <1>3, <2>1, <2>2, <2>3 DEF ShownWith
<1>4. CASE sees
  <2> HIDE DEF G
  <2>0. fired = NewFaults(G, seen)
    BY <1>4 DEF G
  <2>1. s.ep.step \in Nat
    <3>1. EpShape /\ HitsCount
      BY InvShape DEF IInv
    <3>2. CASE s.ep = ep
      BY <3>1, <3>2 DEF EpShape
    <3>3. CASE s.ep # ep
      <4>1. PICK j, r : LeftRow(s, n, c, j, r)
        BY <3>3 DEF WellServed, LeftNothing, Missed
      <4>2. s.ep.step = ep.step + 1
        BY <3>1, <4>1, GrownIs DEF LeftRow
      <4> QED
        BY <3>1, <4>2 DEF EpShape
    <3> QED
      BY <3>2, <3>3
  <2>2. /\ fired = SubSeq(G, Len(seen) + 1, Len(G))
        /\ fired \in Seq(FaultSeen)
        /\ Len(fired) = Len(G) - Len(seen)
        /\ \A i \in DOMAIN fired :
              /\ Len(seen) + i \in DOMAIN G /\ Len(seen) + i > Len(seen)
              /\ fired[i] = G[Len(seen) + i]
        /\ seen \o fired = G
    BY <1>1, <1>2, <2>0, <2>1, NewIsRest
  <2>3. \A i \in DOMAIN fired : GoodFault(fired[i])
    BY <1>1, <2>2 DEF Dated
  <2>4. \A i \in DOMAIN fired : Unheard(fired[i].kind) \/ Own(s, n, c, fired[i])
    BY <1>1, <2>2
  <2>5. ASSUME NEW f, Own(s, n, c, f) PROVE \E i \in DOMAIN fired : fired[i] = f
    <3>1. PICK i \in DOMAIN G : G[i] = f /\ i > Len(seen)
      BY <1>1, <2>5, OwnServed
    <3>2. G \in Seq(FaultSeen) /\ DOMAIN G = 1 .. Len(G) /\ Len(G) \in Nat
      BY <1>1 DEF Dated
    <3>3. i - Len(seen) \in 1 .. Len(fired) /\ Len(seen) + (i - Len(seen)) = i
      BY <1>2, <2>2, <3>1, <3>2
    <3>4. DOMAIN fired = 1 .. Len(fired)
      BY <2>2
    <3>5. fired[i - Len(seen)] = G[i]
      BY <2>2, <3>3, <3>4
    <3> QED
      BY <3>1, <3>3, <3>4, <3>5
  <2> QED
    BY <1>4, <2>2, <2>3, <2>4, <2>5 DEF G, ShownWith
<1> QED
  BY <1>3, <1>4

\* Every way a call goes, of what leaves a row and what does not.
LEMMA RowMatters ==
  ASSUME EpShape, HitsCount, NEW s, NEW n, NEW c, NEW j, NEW r, LeftRow(s, n, c, j, r)
  PROVE  /\ s.ep.ledger = Append(ep.ledger, r) /\ s.ep.ledger # ep.ledger
         /\ Last(s.ep.ledger) = r /\ s.ep.step = ep.step + 1 /\ s.ep.plan = ep.plan
         /\ s.ep.hits = Consume(ep.hits, j)
         /\ s.ep \in [step : Nat, plan : {Scenario[scenario].plan}, hits : Seq(Int), ledger : Seq(Row)]
<1>1. r \in Row /\ j \in 0 .. Len(ep.plan) /\ s.ep = Grown(j, r) /\ ep.ledger \in Seq(Row)
  BY DEF LeftRow, EpShape
<1>2. /\ s.ep.ledger = Append(ep.ledger, r) /\ s.ep.step = ep.step + 1 /\ s.ep.plan = ep.plan
      /\ s.ep.hits = Consume(ep.hits, j)
      /\ s.ep \in [step : Nat, plan : {Scenario[scenario].plan}, hits : Seq(Int), ledger : Seq(Row)]
  BY <1>1, GrownIs
<1>3. /\ Len(Append(ep.ledger, r)) = Len(ep.ledger) + 1 /\ Len(ep.ledger) \in Nat
      /\ Append(ep.ledger, r)[Len(ep.ledger) + 1] = r
  BY <1>1, LongerLedger
<1>4. s.ep.ledger # ep.ledger
  BY <1>2, <1>3
<1>5. Last(s.ep.ledger) = r
  BY <1>2, <1>3 DEF Last
<1> QED
  BY <1>2, <1>4, <1>5

\* The history of c is that of s.
Recalls(h, s, n, c, turn) ==
  /\ h \in Past /\ h.call = c /\ h.ran = s.ran /\ h.clean = s.clean /\ h.turn = turn
  /\ h.landed <=> s.tree # tree
  /\ h.readable = Readable
  /\ h.wrote <=> s.ran /\ s.reply.code = "none" /\ IsMutating(c)
  /\ s.ep.ledger = ep.ledger => h.fault = "none"
  /\ \A j, r : LeftRow(s, n, c, j, r) => h.fault = r.fault.kind

\* The history of a call records what was done.
LEMMA HistoryIs ==
  ASSUME IInv, NEW s, NEW n, NEW c \in Menu[scenario], WellServed(s, n, c) \/ Missed(s),
         NEW turn \in BOOLEAN
  PROVE  Recalls(History(c, s, turn), s, n, c, turn)
<1> DEFINE h == History(c, s, turn)
           k == IF s.ep.ledger # ep.ledger THEN Last(s.ep.ledger).fault.kind ELSE "none"
           landed == s.tree # tree
           wrote == s.ran /\ s.reply.code = "none" /\ IsMutating(c)
<1>1. h = [call |-> c, ran |-> s.ran, landed |-> landed, clean |-> s.clean, turn |-> turn,
           fault |-> k, readable |-> Readable, wrote |-> wrote]
  BY DEF History
<1>2. EpShape /\ HitsCount
  BY InvShape DEF IInv
<1>3. s.ran \in BOOLEAN /\ s.clean \in BOOLEAN
  BY DEF WellServed, ServedShape, Missed
<1>4. landed \in BOOLEAN /\ wrote \in BOOLEAN
  OBVIOUS
<1>5. Readable \in SUBSET Files
  BY DEF Readable
<1>6. \A j, r : LeftRow(s, n, c, j, r) => k = r.fault.kind /\ s.ep.ledger # ep.ledger
  BY <1>2, RowMatters
<1>7. \A j, r : LeftRow(s, n, c, j, r) => r.fault.kind \in Kinds \cup {"none"}
  BY DEF LeftRow, Row, FaultSeen
<1>8. k \in Kinds \cup {"none"}
  BY <1>6, <1>7 DEF WellServed, LeftNothing, Missed
<1>9. s.ep.ledger = ep.ledger => k = "none"
  OBVIOUS
<1>10. (landed <=> s.tree # tree) /\ (wrote <=> s.ran /\ s.reply.code = "none" /\ IsMutating(c))
  OBVIOUS
<1> HIDE DEF h, k, landed, wrote
<1>11. h \in Past
  BY <1>1, <1>3, <1>4, <1>5, <1>8 DEF Past
<1>12. /\ h.call = c /\ h.ran = s.ran /\ h.landed = landed /\ h.clean = s.clean /\ h.turn = turn
       /\ h.fault = k /\ h.readable = Readable /\ h.wrote = wrote
  BY <1>1
<1> QED
  BY <1>6, <1>9, <1>10, <1>11, <1>12 DEF h, Recalls

\* What a call adds to the lists, as its n-th.
Added(n, c, s, turn, reply, shown, sees) ==
  /\ n \in Nat /\ n = Len(truth) + 1 /\ n \notin DOMAIN truth /\ n - 1 = Len(truth)
  /\ DOMAIN results = DOMAIN truth /\ DOMAIN truth = 1 .. Len(truth)
  /\ results' \in Seq(Result') /\ truth' \in Seq(Past') /\ Len(results') = n /\ Len(truth') = n
  /\ DOMAIN truth' = DOMAIN truth \cup {n} /\ DOMAIN results' = DOMAIN truth \cup {n}
  /\ \A m \in DOMAIN truth : results'[m] = results[m] /\ truth'[m] = truth[m] /\ m < n /\ m # n
  /\ truth'[n] \in Past /\ Recalls(truth'[n], s, n, c, turn)
  /\ results'[n].call = c /\ results'[n].reply = reply /\ results'[n].shown = shown
  /\ results'[n].sees = sees

Replied(n, c, s, reply, sees, fired, f, a) ==
  /\ fired = IF sees THEN NewFaults(FaultsFired(s.ep.ledger), seen) ELSE << >>
  /\ seen' = seen \o fired
  /\ f = Explanation(fired, reply, sees, n, c.path)
  /\ a = ClassifyResult(reply, f, sees)
  /\ results'[n].outcome = a.outcome /\ results'[n].class = a.class
  /\ phase' = IF a.class.code = "ESANDBOX" THEN "ended" ELSE "running"
  /\ ShownWith(fired, s, n, c, sees) /\ Explained(f, fired, reply, sees) /\ Classified(a, reply, f)

\* A call adds its line to the transcript and to the history.
LEMMA CalledAdds ==
  ASSUME IInv, NEW c, NEW s, NEW turn, NEW reply, NEW shown, NEW sees,
         Called(c, s, turn, reply, shown, sees), NEW n, n = Len(results) + 1
  PROVE  /\ Added(n, c, s, turn, reply, shown, sees)
         /\ \E fired, f, a : Replied(n, c, s, reply, sees, fired, f, a)
<1> DEFINE fired == IF sees THEN NewFaults(FaultsFired(s.ep.ledger), seen) ELSE << >>
           f == Explanation(fired, reply, sees, n, c.path)
           a == ClassifyResult(reply, f, sees)
           R == [call |-> c, reply |-> reply, shown |-> shown, sees |-> sees,
                 outcome |-> a.outcome, class |-> a.class]
           H == History(c, s, turn)
<1>1. /\ seen' = seen \o fired /\ results' = Append(results, R) /\ truth' = Append(truth, H)
      /\ phase' = IF a.class.code = "ESANDBOX" THEN "ended" ELSE "running"
      /\ scenario' = scenario
  BY DEF Called, Hear
<1>2. /\ results \in Seq(Result) /\ truth \in Seq(Past) /\ Len(results) = Len(truth)
  BY DEF IInv, Shapes
<1>3. /\ c \in Menu[scenario] /\ turn \in BOOLEAN /\ sees \in BOOLEAN /\ reply \in Replies
      /\ shown \in SUBSET Files /\ (WellServed(s, n, c) \/ Missed(s))
  BY DEF Called
<1>h. Recalls(H, s, n, c, turn)
  BY <1>3, HistoryIs
<1>4. H \in Past
  BY <1>h DEF Recalls
<1>e. ShownWith(fired, s, n, c, sees)
  BY <1>3, ShownFaults
<1>5. fired \in Seq(FaultSeen) /\ \A i \in DOMAIN fired : GoodFault(fired[i])
  BY <1>e DEF ShownWith
<1>6. c.path \in AnyPath /\ n \in Nat
  <2>1. c \in Call
    BY <1>3, MenuCalls
  <2> QED
    BY <1>2, <2>1, CallShape
<1> HIDE DEF fired
<1>x. Explained(f, fired, reply, sees)
  <2>1. f = Explanation(fired, reply, sees, n, c.path)
    OBVIOUS
  <2> HIDE DEF f
  <2> QED
    BY <1>3, <1>5, <1>6, <2>1, ExplanationIs
<1>7. f = Unexplained \/ GoodFault(f)
  BY <1>x DEF Explained
<1> HIDE DEF f
<1>c. Classified(a, reply, f)
  BY <1>3, <1>7, ClassifyIs
<1>8. a.outcome \in Outcomes /\ a.class \in Classes
  BY <1>c DEF Classified
<1> HIDE DEF a
<1>9. R \in Result
  BY <1>3, <1>8 DEF Result, Replies, Classes
<1>10. Result' = Result /\ Past' = Past
  BY <1>1 DEF Result, Past
<1>11. /\ R.call = c /\ R.reply = reply /\ R.shown = shown /\ R.sees = sees
       /\ R.outcome = a.outcome /\ R.class = a.class
  OBVIOUS
<1> HIDE DEF R, H
<1>12. /\ Append(results, R) \in Seq(Result) /\ Len(Append(results, R)) = Len(results) + 1
       /\ Len(results) \in Nat
       /\ DOMAIN Append(results, R) = DOMAIN results \cup {Len(results) + 1}
       /\ DOMAIN results = 1 .. Len(results) /\ Append(results, R)[Len(results) + 1] = R
       /\ \A i \in DOMAIN results : Append(results, R)[i] = results[i] /\ i # Len(results) + 1 /\ i < Len(results) + 1
  BY <1>2, <1>9, Appending
<1>13. /\ Append(truth, H) \in Seq(Past) /\ Len(Append(truth, H)) = Len(truth) + 1
       /\ DOMAIN Append(truth, H) = DOMAIN truth \cup {Len(truth) + 1}
       /\ DOMAIN truth = 1 .. Len(truth) /\ Append(truth, H)[Len(truth) + 1] = H
       /\ \A i \in DOMAIN truth : Append(truth, H)[i] = truth[i]
  BY <1>2, <1>4, Appending
<1>14. DOMAIN results = DOMAIN truth /\ n \notin DOMAIN truth
  BY <1>2, <1>12, <1>13
<1>15. Replied(n, c, s, reply, sees, fired, f, a)
  <2>1. results'[n].outcome = a.outcome /\ results'[n].class = a.class
    BY <1>1, <1>11, <1>12
  <2>2. /\ fired = IF sees THEN NewFaults(FaultsFired(s.ep.ledger), seen) ELSE << >>
        /\ f = Explanation(fired, reply, sees, n, c.path)
        /\ a = ClassifyResult(reply, f, sees)
    BY DEF fired, f, a
  <2> QED
    BY <1>1, <1>e, <1>x, <1>c, <2>1, <2>2 DEF Replied
<1>16. Added(n, c, s, turn, reply, shown, sees)
  <2>1. n = Len(truth) + 1 /\ n - 1 = Len(truth)
    BY <1>2, <1>12
  <2> QED
    BY <1>1, <1>2, <1>4, <1>6, <1>10, <1>11, <1>12, <1>13, <1>14, <1>h, <2>1 DEF Added
<1> QED
  BY <1>15, <1>16

\* What a transcript line says of a call is so.
Tells(a, s) ==
  /\ a.outcome = "executed" => s.ran
  /\ a.outcome = "not_executed" => ~s.ran /\ s.tree = tree
  /\ a.class.applied = "no" => s.tree = tree
  /\ a.class.applied = "yes" => s.ran

\* A transcript line that no unheard fault confuses tells what became of the call.
LEMMA LineIsTrue ==
  ASSUME IInv, NEW s, NEW n \in Nat, NEW c \in Menu[scenario], WellServed(s, n, c), s.clean,
         NEW reply \in Replies, reply = s.reply, reply.lost = "none", NEW sees \in BOOLEAN,
         NEW fired, ShownWith(fired, s, n, c, sees),
         \A kind : Unheard(kind) => reply.err /\ kind # KindOfCode(reply.code),
         NEW f, Explained(f, fired, reply, sees), NEW a, Classified(a, reply, f)
  PROVE  Tells(a, s)
<1>1. /\ \A i \in DOMAIN fired : GoodFault(fired[i])
      /\ \A i \in DOMAIN fired : Unheard(fired[i].kind) \/ Own(s, n, c, fired[i])
      /\ \A g : Own(s, n, c, g) /\ sees => \E i \in DOMAIN fired : fired[i] = g
  BY DEF ShownWith
<1>3. /\ f = Unexplained \/ GoodFault(f)
      /\ f # Unexplained /\ reply.code # "none" => f.kind = KindOfCode(reply.code)
      /\ f # Unexplained /\ reply.code = "none" => \E i \in DOMAIN fired : f = fired[i]
      /\ (\E i \in DOMAIN fired : fired[i].kind = KindOfCode(reply.code)) => f # Unexplained
      /\ ~sees /\ reply.err /\ KindOfCode(reply.code) # "none" => f # Unexplained
  BY DEF Explained
<1>4. /\ a.outcome = "executed" => ~reply.err /\ reply.exit = 0
      /\ a.outcome = "not_executed" =>
           \/ reply.err /\ reply.lost = "none" /\ (reply.code = "ETIMEDOUT" => f.kind # "ack_lost")
           \/ ~reply.err /\ reply.exit # 0 /\ f # Unexplained /\ f.origin # "staged"
      /\ a.class.applied = "no" =>
           reply.err /\ reply.lost = "none" /\ (reply.code = "ETIMEDOUT" => f.kind # "ack_lost")
      /\ a.class.applied = "yes" =>
           reply.err /\ reply.lost = "none" /\ (f.kind = "ack_lost" \/ reply.code = "ETIMEDOUT")
  BY DEF Classified
<1>5. Unexplained.kind = "none"
  BY DEF Unexplained
<1>6. CASE LeftNothing(s, c)
  <2>1. s.reply = Reply(TRUE, "EINVAL", 0) /\ s.tree = tree /\ ~s.ran
    BY <1>6 DEF LeftNothing
  <2>2. reply.err /\ reply.code = "EINVAL"
    BY <2>1 DEF Reply
  <2>3. f.kind # "ack_lost"
    BY <1>3, <1>5, <2>2 DEF KindOfCode
  <2> QED
    BY <1>4, <2>1, <2>2, <2>3 DEF Tells
<1>7. CASE ~LeftNothing(s, c)
  <2>1. PICK j, r : LeftRow(s, n, c, j, r)
    BY <1>7 DEF WellServed
  <2>2. CASE Refused(s, r, j, c)
    <3>1. ~s.ran /\ s.tree = tree
      BY <2>2 DEF Refused
    <3>2. CASE c.tool = "run_command"
      <4>1. reply.err = FALSE /\ reply.exit = 1
        BY <2>2, <3>2 DEF Refused, Reply
      <4> QED
        BY <1>4, <3>1, <4>1 DEF Tells
    <3>3. CASE c.tool # "run_command"
      <4>1. reply.err = TRUE /\ reply.code = InjectedCode(ep.plan[j].kind)
            /\ ep.plan[j].kind \in {"missing_file", "denied_write"}
        BY <2>2, <3>3 DEF Refused, Reply
      <4>2. reply.code \in {"ENOENT", "EACCES"}
        BY <4>1 DEF InjectedCode
      <4>3. f.kind # "ack_lost"
        BY <1>3, <1>5, <4>2 DEF KindOfCode
      <4> QED
        BY <1>4, <3>1, <4>1, <4>2, <4>3 DEF Tells
    <3> QED
      BY <3>2, <3>3
  <2>3. CASE Broken(s, r, j, c)
    <3>1. ~s.ran /\ s.tree = tree /\ s.reply.code \in {"ENOENT", "EINVAL", "ESANDBOX", "EACCES"}
      BY <2>3 DEF Broken
    <3>2. reply.err
      BY <2>3 DEF Broken, Reply
    <3>3. f.kind # "ack_lost"
      BY <1>3, <1>5, <3>1 DEF KindOfCode
    <3> QED
      BY <1>4, <3>1, <3>2, <3>3 DEF Tells
  <2>4. CASE Unacked(s, r, j, c)
    <3>1. s.ran /\ ep.plan[j].kind = "ack_lost" /\ r.fault = Planned(j)
      BY <2>4 DEF Unacked
    <3>2. reply.err = TRUE /\ reply.code = "ETIMEDOUT"
      BY <2>4 DEF Unacked, Reply
    <3>3. KindOfCode(reply.code) = "ack_lost"
      BY <3>2 DEF KindOfCode
    <3>4. r.fault.kind = "ack_lost" /\ r.fault # NoFault
      BY <3>1 DEF Planned, Fired, NoFault
    <3>5. f # Unexplained
      <4>1. CASE sees
        <5>1. Own(s, n, c, r.fault)
          BY <2>1, <3>4 DEF Own
        <5> QED
          BY <1>1, <1>3, <3>3, <3>4, <4>1, <5>1
      <4>2. CASE ~sees
        BY <1>3, <3>2, <3>3, <4>2
      <4> QED
        BY <4>1, <4>2
    <3>6. f.kind = "ack_lost"
      BY <1>3, <3>2, <3>3, <3>5
    <3> QED
      BY <1>4, <3>1, <3>2, <3>6 DEF Tells
  <2>5. CASE Done(s, r, j, c)
    <3>1. s.ran
      BY <2>5 DEF Done
    <3>2. ~reply.err /\ reply.code = "none"
      BY <2>5 DEF Done, Reply
    <3>3. ASSUME f # Unexplained PROVE f.origin = "staged"
      <4>1. PICK i \in DOMAIN fired : f = fired[i]
        BY <1>3, <3>2, <3>3
      <4>2. Own(s, n, c, f)
        BY <1>1, <3>2, <4>1
      <4>3. PICK j2, r2 : LeftRow(s, n, c, j2, r2) /\ f = r2.fault /\ f # NoFault
        BY <4>2 DEF Own
      <4>4. r2 = r
        <5>1. EpShape /\ HitsCount
          BY InvShape DEF IInv
        <5> QED
          BY <2>1, <4>3, <5>1, RowMatters
      <4>5. f = Staged
        BY <2>5, <4>3, <4>4 DEF Done
      <4> QED
        BY <4>5 DEF Staged, Fired
    <3> QED
      BY <1>4, <3>1, <3>2, <3>3 DEF Tells
  <2> QED
    BY <2>1, <2>2, <2>3, <2>4, <2>5 DEF LeftRow
<1> QED
  BY <1>6, <1>7

\* Every call keeps the transcript true (OutcomeIsTrue).
LEMMA CallTruth ==
  ASSUME IInv, NEW c, NEW s, NEW turn, NEW reply, NEW shown, NEW sees,
         Called(c, s, turn, reply, shown, sees)
  PROVE  OutcomeIsTrue'
<1> DEFINE n == Len(results) + 1
<1>n. Added(n, c, s, turn, reply, shown, sees) /\ \E fired, f, a : Replied(n, c, s, reply, sees, fired, f, a)
  BY CalledAdds
<1>1. /\ n \in Nat /\ n \notin DOMAIN truth /\ DOMAIN results = DOMAIN truth /\ DOMAIN truth = 1 .. Len(truth)
      /\ n = Len(truth) + 1
      /\ DOMAIN truth' = DOMAIN truth \cup {n} /\ DOMAIN results' = DOMAIN truth \cup {n}
      /\ \A m \in DOMAIN truth : results'[m] = results[m] /\ truth'[m] = truth[m] /\ m < n
      /\ Recalls(truth'[n], s, n, c, turn) /\ results'[n].reply = reply
  BY <1>n DEF Added
<1>2. PICK fired, f, a : Replied(n, c, s, reply, sees, fired, f, a)
  BY <1>n
<1>a. results'[n].outcome = a.outcome /\ results'[n].class = a.class
  BY <1>2 DEF Replied
<1>3. OutcomeIsTrue /\ Len(results) = Len(truth) /\ Len(truth) \in Nat
  BY DEF IInv, Shapes
<1>4. /\ c \in Menu[scenario] /\ turn \in BOOLEAN /\ sees \in BOOLEAN /\ reply \in Replies
      /\ (WellServed(s, n, c) \/ Missed(s)) /\ (turn => WellServed(s, n, c))
      /\ (turn /\ reply = s.reply /\ reply.lost = "none") \/ (reply.err /\ reply.lost # "none")
  BY DEF Called
<1> HIDE DEF n
<1>5. ASSUME NEW k \in DOMAIN truth PROVE Heard(k)' <=> Heard(k)
  BY <1>1, <1>5 DEF Heard
<1> SUFFICES ASSUME NEW m \in DOMAIN results', Attributable(m)', truth'[m].turn, truth'[m].clean
             PROVE  /\ results'[m].outcome = "executed" => truth'[m].ran
                    /\ results'[m].outcome = "not_executed" => ~truth'[m].ran /\ ~truth'[m].landed
                    /\ results'[m].class.applied = "no" => ~truth'[m].landed
                    /\ results'[m].class.applied = "yes" => truth'[m].ran
  BY DEF OutcomeIsTrue
<1>6. ASSUME NEW k \in 1 .. m - 1, m \in DOMAIN truth \/ m = n
      PROVE  /\ k \in DOMAIN truth /\ truth'[k] = truth[k] /\ truth[k].turn
             /\ Heard(k) \/ (results'[m].reply.err /\ truth[k].fault # KindOfCode(results'[m].reply.code))
  <2>1. k \in DOMAIN truth
    BY <1>1, <1>3, <1>6
  <2>2. /\ truth'[k].turn
        /\ Heard(k)' \/ (results'[m].reply.err /\ truth'[k].fault # KindOfCode(results'[m].reply.code))
    BY DEF Attributable
  <2> QED
    BY <1>1, <1>5, <2>1, <2>2
<1>7. CASE m \in DOMAIN truth
  <2>1. results'[m] = results[m] /\ truth'[m] = truth[m]
    BY <1>1, <1>7
  <2>2. Attributable(m)
    BY <1>6, <1>7, <2>1 DEF Attributable
  <2> QED
    BY <1>1, <1>3, <1>7, <2>1, <2>2 DEF OutcomeIsTrue
<1>8. CASE m = n
  <2>1. /\ truth'[n].ran = s.ran /\ truth'[n].clean = s.clean /\ truth'[n].turn = turn
        /\ truth'[n].landed <=> s.tree # tree
    BY <1>1 DEF Recalls
  <2>2. turn /\ s.clean /\ WellServed(s, n, c)
    BY <1>4, <1>8, <2>1
  <2>3. CASE reply.err /\ reply.lost # "none"
    <3>1. Classified(a, reply, f)
      BY <1>2 DEF Replied
    <3>2. a.outcome = "unknown"
      BY <2>3, <3>1 DEF Classified
    <3>3. a.class.applied \notin {"yes", "no"}
      BY <2>3, <3>1 DEF Classified
    <3> QED
      BY <1>a, <1>8, <3>2, <3>3
  <2>4. CASE reply = s.reply /\ reply.lost = "none"
    <3>1. ASSUME NEW kind, Unheard(kind) PROVE reply.err /\ kind # KindOfCode(reply.code)
      <4>1. PICK k \in DOMAIN truth : truth[k].fault = kind /\ (truth[k].turn => ~Heard(k))
        BY <3>1 DEF Unheard
      <4>2. k \in 1 .. m - 1
        BY <1>1, <1>3, <1>8, <4>1
      <4> QED
        BY <1>1, <1>6, <1>8, <4>1, <4>2
    <3>2. Tells(a, s)
      <4>1. ShownWith(fired, s, n, c, sees) /\ Explained(f, fired, reply, sees) /\ Classified(a, reply, f)
        BY <1>2 DEF Replied
      <4>2. n \in Nat /\ c \in Menu[scenario] /\ reply \in Replies /\ sees \in BOOLEAN
        BY <1>1, <1>4
      <4>3. WellServed(s, n, c) /\ s.clean
        BY <2>2
      <4>4. reply = s.reply /\ reply.lost = "none"
        BY <2>4
      <4> QED
        BY <3>1, <4>1, <4>2, <4>3, <4>4, LineIsTrue
    <3> QED
      BY <1>a, <1>8, <2>1, <3>2 DEF Tells
  <2> QED
    BY <1>4, <2>3, <2>4
<1> QED
  BY <1>1, <1>7, <1>8

\* What a listing leaves out is what a read would not be let through to.
LEMMA ListedIsReadable ==
  ASSUME EpShape, GoodTree(tree)
  PROVE  Entries(tree, HiddenPaths(ep.plan, ep.hits)) = Readable
<1> DEFINE hidden == HiddenPaths(ep.plan, ep.hits)
           c(p) == [tool |-> "read_file", verb |-> "none", path |-> p]
<1>1. Entries(tree, hidden) = (DOMAIN tree \ {EvalFile}) \ hidden
  BY EntriesType
<1>2. DOMAIN tree \ {EvalFile} = DOMAIN tree \cap Files
  BY FilesAssumption DEF GoodTree
<1>3. ep.plan \in Seq(FaultDef)
  BY DEF EpShape, GoodPlan
<1>4. ASSUME NEW p
      PROVE  Decide(ep.plan, ep.hits, c(p)) = 0 <=> p \notin hidden
  <2>1. Decide(ep.plan, ep.hits, c(p)) = 0 <=> Biting(ep.plan, ep.hits, c(p)) = {}
    BY <1>3, DecideIs
  <2>2. ASSUME NEW i \in DOMAIN ep.plan
        PROVE  i \in Biting(ep.plan, ep.hits, c(p)) <=>
                 /\ ep.plan[i].kind = "missing_file" /\ ~Sticky(ep.plan[i]) /\ ~Lifted(ep.hits, i)
                 /\ ep.plan[i].path = p
    BY DEF Biting, Intercepts, Touches, IsListing, IsMutating
  <2>3. Biting(ep.plan, ep.hits, c(p)) \subseteq DOMAIN ep.plan
    BY DEF Biting
  <2>4. p \in hidden <=> \E i \in DOMAIN ep.plan :
                 /\ ep.plan[i].kind = "missing_file" /\ ~Sticky(ep.plan[i]) /\ ~Lifted(ep.hits, i)
                 /\ ep.plan[i].path = p
    BY DEF HiddenPaths
  <2> QED
    BY <2>1, <2>2, <2>3, <2>4
<1> HIDE DEF hidden
<1>5. Readable = {p \in DOMAIN tree \cap Files : p \notin hidden}
  BY <1>4 DEF Readable
<1> QED
  BY <1>1, <1>2, <1>5 DEF hidden

\* Every call keeps the listings true (ListingAgrees).
LEMMA CallListing ==
  ASSUME IInv, NEW c, NEW s, NEW turn, NEW reply, NEW shown, NEW sees,
         Called(c, s, turn, reply, shown, sees)
  PROVE  ListingAgrees'
<1> DEFINE n == Len(results) + 1
<1>0. Added(n, c, s, turn, reply, shown, sees) /\ \E fired, f, a : Replied(n, c, s, reply, sees, fired, f, a)
  BY CalledAdds
<1>1. /\ DOMAIN results = DOMAIN truth /\ DOMAIN results' = DOMAIN truth \cup {n}
      /\ \A m \in DOMAIN truth : results'[m] = results[m] /\ truth'[m] = truth[m]
      /\ Recalls(truth'[n], s, n, c, turn) /\ results'[n].call = c /\ results'[n].shown = shown
  BY <1>0 DEF Added
<1>2. PICK fired, f, a : Replied(n, c, s, reply, sees, fired, f, a)
  BY <1>0
<1>3. results'[n].outcome = a.outcome /\ Classified(a, reply, f)
  BY <1>2 DEF Replied
<1>4. ListingAgrees /\ EpShape /\ HitsCount /\ GoodTree(tree)
  BY InvShape DEF IInv
<1>5. /\ (turn /\ reply = s.reply /\ shown = s.shown) \/ reply.err
      /\ (turn => WellServed(s, n, c))
  BY DEF Called
<1> HIDE DEF n
<1> SUFFICES ASSUME NEW m \in DOMAIN results', results'[m].outcome = "executed",
                    IsListing(results'[m].call), results'[m].call.path = Root
             PROVE  results'[m].shown = truth'[m].readable
  BY DEF ListingAgrees
<1>6. CASE m \in DOMAIN truth
  BY <1>1, <1>4, <1>6 DEF ListingAgrees
<1>7. CASE m = n
  <2>1. ~reply.err /\ reply.exit = 0 /\ IsListing(c) /\ c.path = Root
    BY <1>1, <1>3, <1>7 DEF Classified
  <2>2. WellServed(s, n, c) /\ reply = s.reply /\ shown = s.shown
    BY <1>5, <2>1
  <2>3. ~LeftNothing(s, c)
    BY <2>1, <2>2 DEF LeftNothing, Reply
  <2>4. PICK j, r : LeftRow(s, n, c, j, r)
    BY <2>2, <2>3 DEF WellServed
  <2>5. ~Refused(s, r, j, c)
    <3>1. CASE c.tool = "run_command"
      BY <2>1, <2>2, <3>1 DEF Refused, Reply
    <3>2. CASE c.tool # "run_command"
      BY <2>1, <2>2, <3>2 DEF Refused, Reply
    <3> QED
      BY <3>1, <3>2
  <2>6. ~Broken(s, r, j, c) /\ ~Unacked(s, r, j, c)
    BY <2>1, <2>2 DEF Broken, Unacked, Reply
  <2>7. Done(s, r, j, c)
    BY <2>4, <2>5, <2>6 DEF LeftRow
  <2>8. s.shown = Exec(tree, c, HiddenPaths(ep.plan, ep.hits)).shown
    BY <2>7 DEF Done
  <2>9. Exec(tree, c, HiddenPaths(ep.plan, ep.hits)).shown = Entries(tree, HiddenPaths(ep.plan, ep.hits))
    <3>1. CASE c.tool = "list_dir"
      <4>1. ListKind(tree, c.path) = "ok"
        BY <1>4, <2>1, FilesAssumption DEF ListKind, GoodTree
      <4>2. Exec(tree, c, HiddenPaths(ep.plan, ep.hits)) = ExecList(tree, c, HiddenPaths(ep.plan, ep.hits))
        BY <3>1 DEF Exec
      <4>3. ExecList(tree, c, HiddenPaths(ep.plan, ep.hits))
            = Ran(tree, "none", 0, Entries(tree, HiddenPaths(ep.plan, ep.hits)))
        BY <4>1 DEF ExecList
      <4> QED
        BY <4>2, <4>3 DEF Ran
    <3>2. CASE c.tool = "run_command" /\ c.verb = "ls"
      BY <2>1, <3>2 DEF Exec, ExecShell, Ran
    <3> QED
      BY <2>1, <3>1, <3>2 DEF IsListing
  <2>10. truth'[n].readable = Readable
    BY <1>1 DEF Recalls
  <2>11. Entries(tree, HiddenPaths(ep.plan, ep.hits)) = Readable
    BY <1>4, ListedIsReadable
  <2> QED
    BY <1>1, <1>7, <2>2, <2>8, <2>9, <2>10, <2>11
<1> QED
  BY <1>1, <1>6, <1>7

-----------------------------------------------------------------------------
(* A call is served, when it is made or late *)

Taken(n, c, s, turn) ==
  /\ n \in Nat \ {0} /\ c \in Menu[scenario] /\ turn \in BOOLEAN
  /\ WellServed(s, n, c) \/ Missed(s)
  /\ ep' = s.ep /\ tree' = s.tree /\ scenario' = scenario
  /\ DOMAIN truth' = DOMAIN truth \cup {n}
  /\ \A m \in DOMAIN truth : m # n => truth'[m] = truth[m]
  /\ Recalls(truth'[n], s, n, c, turn)
  /\ \A i \in DOMAIN ep.ledger : ep.ledger[i].n # n
  /\ \A m \in late' : m \in late \/ m = n
  /\ s.ep # ep => n \notin late'
  /\ \A m \in DOMAIN truth : m # n => results'[m] = results[m]
  /\ phase' = "running" => phase = "running"
  /\ turn => phase = "running" /\ \A m \in DOMAIN truth : m < n

\* What the ledger is after a call.
LEMMA LedgerAfter ==
  ASSUME IInv, NEW n, NEW c, NEW s, NEW turn, Taken(n, c, s, turn)
  PROVE  \/ ep' = ep
         \/ /\ WellServed(s, n, c) /\ n \notin late'
            /\ \E j, r : /\ LeftRow(s, n, c, j, r) /\ r \in Row /\ r.n = n /\ r.step = ep.step + 1
                         /\ r.call = c /\ c.path # Outside
                         /\ ep'.ledger = Append(ep.ledger, r) /\ ep'.step = ep.step + 1
                         /\ ep'.plan = ep.plan /\ ep'.hits = Consume(ep.hits, j)
<1>1. EpShape /\ HitsCount
  BY InvShape DEF IInv
<1>2. CASE s.ep = ep
  BY <1>2 DEF Taken
<1>3. CASE s.ep # ep
  <2>1. WellServed(s, n, c) /\ n \notin late' /\ ep' = s.ep
    BY <1>3 DEF Taken, Missed
  <2>2. c.path # Outside /\ \E j, r : LeftRow(s, n, c, j, r)
    BY <1>3, <2>1 DEF WellServed, LeftNothing
  <2>3. PICK j, r : LeftRow(s, n, c, j, r)
    BY <2>2
  <2>4. r \in Row /\ r.n = n /\ r.step = ep.step + 1 /\ r.call = c
    BY <2>3 DEF LeftRow, RowOk
  <2>5. /\ s.ep.ledger = Append(ep.ledger, r) /\ s.ep.step = ep.step + 1 /\ s.ep.plan = ep.plan
        /\ s.ep.hits = Consume(ep.hits, j)
    BY <1>1, <2>3, RowMatters
  <2> QED
    BY <2>1, <2>2, <2>3, <2>4, <2>5
<1> QED
  BY <1>2, <1>3

\* The ledger is a sequence of rows.
LEMMA LedgerIs ==
  ASSUME IInv
  PROVE  /\ ep.ledger \in Seq(Row) /\ Len(ep.ledger) \in Nat /\ DOMAIN ep.ledger = 1 .. Len(ep.ledger)
         /\ ep.step \in Nat
         /\ \A i \in DOMAIN ep.ledger : ep.ledger[i] \in Row /\ ep.ledger[i].n \in Nat
                                        /\ ep.ledger[i].step \in Nat
<1>1. EpShape
  BY InvShape
<1>2. ep.ledger \in Seq(Row) /\ ep.step \in Nat
  BY <1>1 DEF EpShape
<1>3. \A i \in DOMAIN ep.ledger : ep.ledger[i] \in Row
  BY <1>2
<1>4. \A r \in Row : r.n \in Nat /\ r.step \in Nat
  BY DEF Row
<1> QED
  BY <1>2, <1>3, <1>4

\* Serving a call counts no fault below zero.
LEMMA TakenHits ==
  ASSUME IInv, NEW n, NEW c, NEW s, NEW turn, Taken(n, c, s, turn)
  PROVE  HitsCount'
<1>1. EpShape /\ HitsCount
  BY InvShape DEF IInv
<1>2. CASE ep' = ep
  BY <1>1, <1>2 DEF HitsCount
<1>3. CASE ep' # ep
  <2>1. PICK j, r : LeftRow(s, n, c, j, r) /\ ep'.plan = ep.plan /\ ep'.hits = Consume(ep.hits, j)
    BY <1>3, LedgerAfter
  <2>2. j \in 0 .. Len(ep.plan)
    BY <2>1 DEF LeftRow
  <2> QED
    BY <1>1, <2>1, <2>2, ConsumeIs DEF HitsCount
<1> QED
  BY <1>2, <1>3

\* A row tells the same of its call as long as the call is not the one served.
LEMMA StillTells ==
  ASSUME IInv, NEW n, NEW c, NEW s, NEW turn, Taken(n, c, s, turn),
         NEW r, r.n # n, r.step \in Nat, RowTells(r), ep'.step \in Nat, ep'.step >= ep.step
  PROVE  RowTells(r)'
<1>1. ep.step \in Nat
  BY LedgerIs
<1>2. r.n # 0 => r.n \in DOMAIN truth' \ late' /\ truth'[r.n] = truth[r.n]
  BY DEF Taken, RowTells
<1>3. r.step <= ep.step => r.step <= ep'.step
  BY <1>1
<1> QED
  BY <1>2, <1>3 DEF RowTells

\* The new row tells the truth about its call.
LEMMA NewTells ==
  ASSUME IInv, NEW n, NEW c, NEW s, NEW turn, Taken(n, c, s, turn), NEW j, NEW r,
         LeftRow(s, n, c, j, r), c.path # Outside, n \notin late', ep'.step = ep.step + 1
  PROVE  RowTells(r)'
<1>1. /\ r \in Row /\ r.n = n /\ r.call = c /\ r.step = ep.step + 1 /\ r.mutating = IsMutating(c)
      /\ r.interrupted = FALSE
  BY DEF LeftRow, RowOk
<1>2. EpShape
  BY InvShape
<1>3. r.fault = NoFault <=> r.fault.kind = "none"
  BY <1>2, RowFaultGood
<1>4. /\ n # 0 /\ n \in DOMAIN truth' /\ truth'[n].call = c /\ truth'[n].fault = r.fault.kind
      /\ truth'[n].clean = s.clean /\ truth'[n].ran = s.ran
  BY DEF Taken, Recalls
<1>5. s.clean => (LedgerSideEffect(r) <=> s.ran)
  <2>1. CASE Refused(s, r, j, c)
    BY <2>1 DEF Refused, LedgerSideEffect
  <2>2. CASE Broken(s, r, j, c)
    BY <2>2 DEF Broken, LedgerSideEffect
  <2>3. CASE Unacked(s, r, j, c)
    BY <2>3 DEF Unacked, LedgerSideEffect
  <2>4. CASE Done(s, r, j, c)
    BY <2>4 DEF Done, LedgerSideEffect
  <2> QED
    BY <2>1, <2>2, <2>3, <2>4 DEF LeftRow
<1>6. r.step <= ep'.step
  BY <1>1, <1>2 DEF EpShape
<1>7. LedgerSideEffect(r)' <=> LedgerSideEffect(r)
  BY DEF LedgerSideEffect
<1> QED
  BY <1>1, <1>3, <1>4, <1>5, <1>6, <1>7 DEF RowTells

\* So do all rows, after a call or a late one.
LEMMA TakenTold ==
  ASSUME IInv, NEW n, NEW c, NEW s, NEW turn, Taken(n, c, s, turn)
  PROVE  Told'
<1>0. /\ ep.ledger \in Seq(Row) /\ ep.step \in Nat
      /\ \A i \in DOMAIN ep.ledger : ep.ledger[i].step \in Nat
  BY LedgerIs
<1>1. \A i \in DOMAIN ep.ledger : RowTells(ep.ledger[i]) /\ ep.ledger[i].n # n
  BY DEF IInv, Told, Taken
<1> SUFFICES ASSUME NEW i \in DOMAIN ep'.ledger, NEW q, q = ep'.ledger[i] PROVE RowTells(q)'
  BY DEF Told, RowTells
<1>2. ASSUME i \in DOMAIN ep.ledger, ep.ledger[i] = q, ep'.step \in Nat, ep'.step >= ep.step
      PROVE  RowTells(q)'
  <2>1. q.n # n /\ q.step \in Nat /\ RowTells(q)
    BY <1>0, <1>1, <1>2
  <2> QED
    BY <1>2, <2>1, StillTells
<1>3. CASE ep' = ep
  BY <1>0, <1>2, <1>3
<1>4. CASE ep' # ep
  <2>1. PICK j, r :
          /\ LeftRow(s, n, c, j, r) /\ r \in Row /\ c.path # Outside /\ n \notin late'
          /\ ep'.ledger = Append(ep.ledger, r) /\ ep'.step = ep.step + 1
    BY <1>4, LedgerAfter
  <2>2. ep'.step \in Nat /\ ep'.step >= ep.step
    BY <1>0, <2>1
  <2>4. RowTells(r)'
    BY <2>1, NewTells
  <2>5. /\ DOMAIN ep'.ledger = DOMAIN ep.ledger \cup {Len(ep.ledger) + 1}
        /\ ep'.ledger[Len(ep.ledger) + 1] = r
        /\ \A k \in DOMAIN ep.ledger : ep'.ledger[k] = ep.ledger[k]
    BY <1>0, <2>1, LongerLedger
  <2>6. CASE i \in DOMAIN ep.ledger
    BY <1>2, <2>2, <2>5, <2>6
  <2>7. CASE i = Len(ep.ledger) + 1
    <3>1. q = r
      BY <2>5, <2>7
    <3> QED
      BY <2>4, <3>1
  <2> QED
    BY <2>5, <2>6, <2>7
<1> QED
  BY <1>3, <1>4

\* The ledger has one row more, r.
Grew(n, c, s, j, r) ==
  /\ LeftRow(s, n, c, j, r) /\ r \in Row /\ r.n = n /\ r.call = c /\ c.path # Outside
  /\ r.interrupted = FALSE /\ n \notin late'
  /\ ep'.ledger = Append(ep.ledger, r)
  /\ DOMAIN ep'.ledger = DOMAIN ep.ledger \cup {Len(ep.ledger) + 1}
  /\ ep'.ledger[Len(ep.ledger) + 1] = r
  /\ ep'.plan = ep.plan /\ ep'.hits = Consume(ep.hits, j)
  /\ \A i \in DOMAIN ep.ledger :
       /\ ep'.ledger[i] = ep.ledger[i] /\ i < Len(ep.ledger) + 1
       /\ ep.ledger[i].n # n /\ ep.ledger[i].step < r.step /\ ep.ledger[i].step \in Nat
  /\ Len(ep.ledger) \in Nat /\ DOMAIN ep.ledger = 1 .. Len(ep.ledger) /\ r.step \in Nat

\* A record that changed has one row more.
LEMMA Grows ==
  ASSUME IInv, NEW n, NEW c, NEW s, NEW turn, Taken(n, c, s, turn), ep' # ep
  PROVE  \E j, r : Grew(n, c, s, j, r)
<1>0. /\ ep.ledger \in Seq(Row) /\ ep.step \in Nat /\ Len(ep.ledger) \in Nat
      /\ DOMAIN ep.ledger = 1 .. Len(ep.ledger)
      /\ \A i \in DOMAIN ep.ledger : ep.ledger[i].step \in Nat
  BY LedgerIs
<1>1. \A i \in DOMAIN ep.ledger : ep.ledger[i].step <= ep.step /\ ep.ledger[i].n # n
  BY DEF IInv, Told, RowTells, Taken
<1>2. PICK j, r :
        /\ LeftRow(s, n, c, j, r) /\ r \in Row /\ r.n = n /\ r.step = ep.step + 1
        /\ r.call = c /\ c.path # Outside /\ n \notin late'
        /\ ep'.ledger = Append(ep.ledger, r) /\ ep'.step = ep.step + 1
        /\ ep'.plan = ep.plan /\ ep'.hits = Consume(ep.hits, j)
  BY LedgerAfter
<1>3. r.interrupted = FALSE
  BY <1>2 DEF LeftRow, RowOk
<1>4. /\ DOMAIN ep'.ledger = DOMAIN ep.ledger \cup {Len(ep.ledger) + 1}
      /\ ep'.ledger[Len(ep.ledger) + 1] = r
      /\ \A i \in DOMAIN ep.ledger : ep'.ledger[i] = ep.ledger[i] /\ i < Len(ep.ledger) + 1
  BY <1>0, <1>2, LongerLedger
<1>5. \A i \in DOMAIN ep.ledger : ep.ledger[i].step < r.step
  BY <1>0, <1>1, <1>2
<1> QED
  BY <1>0, <1>1, <1>2, <1>3, <1>4, <1>5 DEF Grew

\* The new row is of a later step than every other.
LEMMA TakenStepped ==
  ASSUME IInv, NEW n, NEW c, NEW s, NEW turn, Taken(n, c, s, turn)
  PROVE  Stepped'
<1>1. Stepped
  BY DEF IInv
<1>2. CASE ep' = ep
  BY <1>1, <1>2 DEF Stepped
<1>3. CASE ep' # ep
  <2>1. PICK j, r : Grew(n, c, s, j, r)
    BY <1>3, Grows
  <2> DEFINE L == ep.ledger
             M == ep'.ledger
             k == Len(ep.ledger) + 1
  <2>2. /\ DOMAIN M = DOMAIN L \cup {k} /\ M[k] = r /\ r.n = n /\ r.step \in Nat
        /\ \A i \in DOMAIN L : M[i] = L[i] /\ i < k /\ L[i].n # n /\ L[i].step < r.step
                               /\ L[i].step \in Nat
        /\ k \in Nat /\ DOMAIN L \subseteq Nat
    BY <2>1 DEF Grew
  <2>3. \A i, h \in DOMAIN L : i < h =>
          L[i].step <= L[h].step /\ (L[h].n # 0 => L[i].step < L[h].step /\ L[i].n # L[h].n)
    BY <1>1 DEF Stepped
  <2> HIDE DEF L, M, k
  <2>4. ASSUME NEW i \in DOMAIN M, NEW h \in DOMAIN M, i < h
        PROVE  M[i].step <= M[h].step /\ (M[h].n # 0 => M[i].step < M[h].step /\ M[i].n # M[h].n)
    <3>1. CASE h \in DOMAIN L
      <4>1. i \in DOMAIN L
        BY <2>2, <2>4, <3>1
      <4> QED
        BY <2>2, <2>3, <2>4, <3>1, <4>1
    <3>2. CASE h = k
      <4>1. i \in DOMAIN L
        BY <2>2, <2>4, <3>2
      <4> QED
        BY <2>2, <3>2, <4>1
    <3> QED
      BY <2>2, <3>1, <3>2
  <2> QED
    BY <2>4 DEF Stepped, M
<1> QED
  BY <1>2, <1>3

\* What was done left a row.
LEMMA TakenRowed ==
  ASSUME IInv, NEW n, NEW c, NEW s, NEW turn, Taken(n, c, s, turn)
  PROVE  Rowed'
<1>0. EpShape /\ HitsCount /\ Rowed
  BY InvShape DEF IInv
<1>1. /\ DOMAIN truth' = DOMAIN truth \cup {n} /\ Recalls(truth'[n], s, n, c, turn)
      /\ \A m \in DOMAIN truth : m # n => truth'[m] = truth[m]
      /\ WellServed(s, n, c) \/ Missed(s)
      /\ ep' = s.ep
  BY DEF Taken
<1>2. /\ truth'[n].call = c /\ truth'[n].clean = s.clean
      /\ truth'[n].wrote <=> s.ran /\ s.reply.code = "none" /\ IsMutating(c)
      /\ s.ep.ledger = ep.ledger => truth'[n].fault = "none"
  BY <1>1 DEF Recalls
<1> SUFFICES ASSUME NEW m \in DOMAIN truth',
                    \/ truth'[m].wrote \/ truth'[m].fault # "none"
                    \/ truth'[m].turn /\ truth'[m].clean /\ truth'[m].call.path # Outside
             PROVE  HasRow(m)'
  BY DEF Rowed
<1>3. CASE m = n
  <2>1. ep' # ep
    <3> SUFFICES ASSUME ep' = ep PROVE FALSE
      OBVIOUS
    <3>1. truth'[n].fault = "none"
      BY <1>1, <1>2
    <3>2. LeftNothing(s, c) \/ Missed(s)
      <4>1. \A j, r : ~LeftRow(s, n, c, j, r)
        BY <1>0, <1>1, RowMatters
      <4> QED
        BY <1>1, <4>1 DEF WellServed
    <3>3. CASE Missed(s)
      BY <1>2, <1>3, <3>1, <3>3 DEF Missed
    <3>4. CASE LeftNothing(s, c)
      <4>1. s.reply.code # "none" /\ (c.path = Outside \/ ~s.clean)
        BY <3>4 DEF LeftNothing, Reply
      <4> QED
        BY <1>2, <1>3, <3>1, <4>1
    <3> QED
      BY <3>2, <3>3, <3>4
  <2>2. PICK j, r : Grew(n, c, s, j, r)
    BY <2>1, Grows
  <2>3. Len(ep.ledger) + 1 \in DOMAIN ep'.ledger /\ ep'.ledger[Len(ep.ledger) + 1].n = n
    BY <2>2 DEF Grew
  <2> QED
    BY <1>3, <2>3 DEF HasRow
<1>4. CASE m # n
  <2>1. m \in DOMAIN truth /\ truth'[m] = truth[m]
    BY <1>1, <1>4
  <2>2. PICK i \in DOMAIN ep.ledger : ep.ledger[i].n = m
    BY <1>0, <2>1 DEF Rowed, HasRow
  <2>3. i \in DOMAIN ep'.ledger /\ ep'.ledger[i] = ep.ledger[i]
    <3>1. CASE ep' = ep
      BY <3>1
    <3>2. CASE ep' # ep
      <4>1. PICK j, r : Grew(n, c, s, j, r)
        BY <3>2, Grows
      <4> QED
        BY <4>1 DEF Grew
    <3> QED
      BY <3>1, <3>2
  <2> QED
    BY <2>2, <2>3 DEF HasRow
<1> QED
  BY <1>3, <1>4

\* The rows stand in the order of the calls, if none came late.
LEMMA TakenOrdered ==
  ASSUME IInv, NEW n, NEW c, NEW s, NEW turn, Taken(n, c, s, turn)
  PROVE  Ordered'
<1>1. /\ phase = "running" => \A i \in DOMAIN ep.ledger : ep.ledger[i].n # 0
      /\ Turns => \A i, j \in DOMAIN ep.ledger : i < j /\ ep.ledger[j].n # 0 =>
                    ep.ledger[i].n # 0 /\ ep.ledger[i].n < ep.ledger[j].n
      /\ \A i \in DOMAIN ep.ledger : ep.ledger[i].n # 0 => ep.ledger[i].n \in DOMAIN truth
  BY DEF IInv, Ordered, Told, RowTells
<1>2. /\ DOMAIN truth' = DOMAIN truth \cup {n} /\ truth'[n].turn = turn /\ n # 0
      /\ \A m \in DOMAIN truth : m # n => truth'[m] = truth[m]
      /\ phase' = "running" => phase = "running"
      /\ turn => phase = "running" /\ \A m \in DOMAIN truth : m < n
  BY DEF Taken, Recalls
<1>3. Turns' => turn
  BY <1>2 DEF Turns
<1>4. DOMAIN truth \subseteq Nat
  BY DEF IInv, Shapes
<1>5. Turns' => Turns
  <2> SUFFICES ASSUME Turns', NEW m \in DOMAIN truth PROVE truth[m].turn
    BY DEF Turns
  <2>1. m < n /\ n \in Nat /\ m \in Nat
    BY <1>2, <1>3, <1>4 DEF Taken
  <2>2. truth'[m] = truth[m] /\ m \in DOMAIN truth'
    BY <1>2, <2>1
  <2> QED
    BY <2>2 DEF Turns
<1>6. CASE ep' = ep
  BY <1>1, <1>2, <1>5, <1>6 DEF Ordered
<1>7. CASE ep' # ep
  <2>1. PICK j, r : Grew(n, c, s, j, r)
    BY <1>7, Grows
  <2> DEFINE L == ep.ledger
             M == ep'.ledger
             k == Len(ep.ledger) + 1
  <2>2. /\ DOMAIN M = DOMAIN L \cup {k} /\ M[k] = r /\ r.n = n
        /\ \A i \in DOMAIN L : M[i] = L[i] /\ i < k
        /\ k \in Nat /\ DOMAIN L \subseteq Nat
    BY <2>1 DEF Grew
  <2>3. phase' = "running" => \A i \in DOMAIN M : M[i].n # 0
    BY <1>1, <1>2, <2>2
  <2>4. ASSUME Turns', NEW i \in DOMAIN M, NEW h \in DOMAIN M, i < h, M[h].n # 0
        PROVE  M[i].n # 0 /\ M[i].n < M[h].n
    <3>0. i \in DOMAIN L /\ M[i] = L[i]
      BY <2>2, <2>4
    <3>1. CASE h \in DOMAIN L
      BY <1>1, <1>5, <2>2, <2>4, <3>0, <3>1
    <3>2. CASE h = k
      BY <1>1, <1>2, <1>3, <2>2, <2>4, <3>0, <3>2
    <3> QED
      BY <2>2, <3>1, <3>2
  <2> HIDE DEF M
  <2> QED
    BY <2>3, <2>4 DEF Ordered, M
<1> QED
  BY <1>6, <1>7

\* The changelog is there, so a call that reads it and comes through has exit code 0.
LEMMA ReadComesThrough ==
  ASSUME GoodTree(tree), NEW c \in Call, IsRead(c), Touches(Changelog, c), NEW hidden
  PROVE  Exec(tree, c, hidden).exit = 0
<1>1. c.path = Changelog /\ c.tool \in {"read_file", "list_dir", "run_command"}
      /\ (c.tool = "run_command" => c.verb \in {"cat", "ls"})
  BY DEF Touches, IsRead, IsMutating, Call
<1>2. Changelog \in DOMAIN tree /\ Changelog \notin {Root, Below, Outside}
  BY CatalogueAssumption, FilesAssumption DEF GoodTree
<1>3. CASE c.tool = "read_file"
  BY <1>3 DEF Exec, ExecRead, Ran
<1>4. CASE c.tool = "list_dir"
  <2>1. Exec(tree, c, hidden) = ExecList(tree, c, hidden)
    BY <1>4 DEF Exec
  <2>2. ListKind(tree, c.path) = "notdir"
    BY <1>1, <1>2 DEF ListKind
  <2> QED
    BY <2>1, <2>2 DEF ExecList, Ran
<1>5. CASE c.tool = "run_command"
  <2>1. Exec(tree, c, hidden).exit = ShellExit(tree, c)
    BY <1>5 DEF Exec, ExecShell, Ran
  <2>2. ReadKind(tree, c.path) = "file" /\ ListKind(tree, c.path) = "notdir"
    BY <1>1, <1>2 DEF ReadKind, ListKind
  <2> QED
    BY <1>1, <1>5, <2>1, <2>2 DEF ShellExit
<1> QED
  BY <1>1, <1>3, <1>4, <1>5

\* Which row has lost its acknowledgement.
LEMMA AckRow ==
  ASSUME IInv, NEW s, NEW n, NEW c, NEW j, NEW r, LeftRow(s, n, c, j, r),
         r.fault.kind = "ack_lost"
  PROVE  /\ j \in DOMAIN ep.plan /\ ep.plan[j].kind = "ack_lost" /\ r.fault = Planned(j)
         /\ r.fault.path = Changelog /\ r.outcome = "ack_lost" /\ ep.hits[j] # 0
<1>0. EpShape /\ HitsCount
  BY InvShape DEF IInv
<1>1. j # 0 /\ r.fault = Planned(j)
  <2>1. r.fault.kind # "none" => r.fault # NoFault
    BY DEF NoFault
  <2>2. r.fault # Staged
    BY DEF Staged, Fired
  <2> QED
    BY <2>1, <2>2 DEF LeftRow, Refused, Broken, Unacked, Done
<1>2. ep.plan[j].kind = "ack_lost" /\ r.fault.path = ep.plan[j].path
  BY <1>1 DEF Planned, Fired
<1>3. j \in DOMAIN ep.plan /\ ~Lifted(ep.hits, j)
  BY <1>1 DEF LeftRow, Biting
<1>4. ep.plan[j].path = Changelog
  BY <1>0, <1>2, <1>3 DEF EpShape, GoodPlan
<1>5. ep.hits[j] # 0
  BY <1>3 DEF Lifted, Unlimited
<1>6. r.outcome = "ack_lost"
  <2>1. ~Refused(s, r, j, c)
    BY <1>2 DEF Refused
  <2> QED
    BY <1>1, <2>1 DEF LeftRow, Broken, Unacked, Done
<1> QED
  BY <1>1, <1>2, <1>3, <1>4, <1>5, <1>6

\* What the harness says of a call that read the changelog.
ReadBack(s, n, c) ==
  \A j, r :
    /\ LeftRow(s, n, c, j, r) /\ r.outcome = "ok" /\ IsRead(c) /\ Touches(Changelog, c)
    /\ results'[n].reply.lost = "none"
    => results'[n].outcome = "executed"

\* An acknowledgement is lost at most once, and a read of the changelog that
\* is answered is known to have been carried out.
LEMMA TakenAck ==
  ASSUME IInv, NEW n, NEW c, NEW s, NEW turn, Taken(n, c, s, turn), ReadBack(s, n, c)
  PROVE  AckLostOnce'
<1>0. EpShape /\ HitsCount /\ GoodTree(tree) /\ AckLostOnce
  BY InvShape DEF IInv
<1>1. Changelog \in DOMAIN tree'
  BY <1>0 DEF Taken, WellServed, ServedShape, GoodTree, Missed
<1>2. \A i \in DOMAIN ep.ledger : ep.ledger[i].n # 0 =>
        ep.ledger[i].n \in DOMAIN truth /\ ep.ledger[i].n # n
  BY DEF IInv, Told, RowTells, Taken
<1>3. \A i \in DOMAIN ep.ledger :
        /\ ep.ledger[i].n # 0 /\ ep.ledger[i].outcome = "ok"
        /\ IsRead(ep.ledger[i].call) /\ Touches(Changelog, ep.ledger[i].call)
        /\ results'[ep.ledger[i].n].reply.lost = "none"
        => results'[ep.ledger[i].n].outcome = "executed"
  BY <1>0, <1>2 DEF AckLostOnce, Taken
<1>4. CASE ep' = ep
  BY <1>0, <1>1, <1>3, <1>4 DEF AckLostOnce
<1>5. CASE ep' # ep
  <2>1. PICK j, r : Grew(n, c, s, j, r)
    BY <1>5, Grows
  <2> DEFINE L == ep.ledger
             M == ep'.ledger
             k == Len(ep.ledger) + 1
  <2>2. /\ DOMAIN M = DOMAIN L \cup {k} /\ M[k] = r /\ r.n = n /\ r.call = c
        /\ \A i \in DOMAIN L : M[i] = L[i] /\ i < k
        /\ k \in Nat /\ DOMAIN L \subseteq Nat
        /\ LeftRow(s, n, c, j, r) /\ ep'.plan = ep.plan /\ ep'.hits = Consume(ep.hits, j)
    BY <2>1 DEF Grew
  <2>3. \A p \in DOMAIN ep.plan : /\ ep.hits[p] = 0 => ep'.hits[p] = 0
                                  /\ p = j /\ ep.plan[p].hits = 1 => ep'.hits[p] = 0
    <3>1. j \in 0 .. Len(ep.plan)
      BY <2>2 DEF LeftRow
    <3> QED
      BY <1>0, <2>2, <3>1, ConsumeIs
  <2>4. \A p \in DOMAIN ep.plan : ep.plan[p].kind = "ack_lost" =>
          ep.plan[p].hits = 1 /\ \A q \in DOMAIN ep.plan : ep.plan[q].kind = "ack_lost" => p = q
    BY <1>0 DEF EpShape, GoodPlan
  <2>5. r.fault.kind = "ack_lost" =>
          /\ r.fault.path = Changelog /\ r.outcome = "ack_lost"
          /\ j \in DOMAIN ep.plan /\ ep.plan[j].kind = "ack_lost" /\ ep.hits[j] # 0
    BY <2>2, AckRow
  <2>6. \A i \in DOMAIN L : L[i].fault.kind = "ack_lost" =>
          /\ L[i].fault.path = Changelog /\ L[i].outcome = "ack_lost"
          /\ \A p \in DOMAIN ep.plan : ep.plan[p].kind = "ack_lost" => ep.hits[p] = 0
          /\ \A h \in DOMAIN L : L[h].fault.kind = "ack_lost" => i = h
    BY <1>0 DEF AckLostOnce
  <2> HIDE DEF L, M, k
  <2>7. ASSUME NEW i \in DOMAIN M, M[i].fault.kind = "ack_lost"
        PROVE  /\ M[i].fault.path = Changelog /\ M[i].outcome = "ack_lost"
               /\ \A p \in DOMAIN ep.plan : ep.plan[p].kind = "ack_lost" => ep'.hits[p] = 0
               /\ \A h \in DOMAIN M : M[h].fault.kind = "ack_lost" => i = h
    <3>1. CASE i \in DOMAIN L
      <4>1. r.fault.kind # "ack_lost"
        BY <2>2, <2>5, <2>6, <2>7, <3>1
      <4> QED
        BY <2>2, <2>3, <2>6, <2>7, <3>1, <4>1
    <3>2. CASE i = k
      <4>1. \A h \in DOMAIN L : L[h].fault.kind # "ack_lost"
        BY <2>2, <2>5, <2>6, <2>7, <3>2
      <4>2. \A h \in DOMAIN M : M[h].fault.kind = "ack_lost" => i = h
        BY <2>2, <3>2, <4>1
      <4>3. \A p \in DOMAIN ep.plan : ep.plan[p].kind = "ack_lost" => ep'.hits[p] = 0
        BY <2>2, <2>3, <2>4, <2>5, <2>7, <3>2
      <4> QED
        BY <2>2, <2>5, <2>7, <3>2, <4>2, <4>3
    <3> QED
      BY <2>2, <3>1, <3>2
  <2>8. ASSUME NEW i \in DOMAIN M, M[i].n # 0, M[i].outcome = "ok", IsRead(M[i].call),
               Touches(Changelog, M[i].call), results'[M[i].n].reply.lost = "none"
        PROVE  results'[M[i].n].outcome = "executed"
    <3>1. CASE i \in DOMAIN L
      <4>1. M[i] = L[i]
        BY <2>2, <3>1
      <4> QED
        BY <1>3, <2>8, <3>1, <4>1 DEF L
    <3>2. CASE i = k
      <4>1. M[i] = r
        BY <2>2, <3>2
      <4> QED
        BY <2>2, <2>8, <4>1 DEF ReadBack
    <3> QED
      BY <2>2, <3>1, <3>2
  <2>9. \A i \in DOMAIN M : M[i].fault.kind = "ack_lost" =>
          /\ M[i].fault.path = Changelog /\ M[i].outcome = "ack_lost"
          /\ \A p \in DOMAIN ep'.plan : ep'.plan[p].kind = "ack_lost" => ep'.hits[p] = 0
          /\ \A h \in DOMAIN M : M[h].fault.kind = "ack_lost" => i = h
    BY <2>2, <2>7
  <2>10. \A i \in DOMAIN M :
           /\ M[i].n # 0 /\ M[i].outcome = "ok"
           /\ IsRead(M[i].call) /\ Touches(Changelog, M[i].call)
           /\ results'[M[i].n].reply.lost = "none"
           => results'[M[i].n].outcome = "executed"
    BY <2>8
  <2> QED
    BY <1>1, <2>9, <2>10 DEF AckLostOnce, M
<1> QED
  BY <1>4, <1>5

\* A fault that fires and is not shown with its call goes unheard of.
Hidden(s, n, c, turn) == turn /\ (\E f : Own(s, n, c, f)) => ~Heard(n)'

\* The harness knows a prefix of what fired; the rest nobody told it.
LEMMA TakenKnown ==
  ASSUME IInv, NEW n, NEW c, NEW s, NEW turn, Taken(n, c, s, turn),
         seen' = FaultsFired(ep'.ledger) \/ (seen' = seen /\ Hidden(s, n, c, turn))
  PROVE  FaultsKnown'
<1> DEFINE G == FaultsFired(s.ep.ledger)
<1>0. ep' = s.ep /\ (WellServed(s, n, c) \/ Missed(s))
  BY DEF Taken
<1>1. /\ Dated(G, s.ep.step) /\ Len(seen) <= Len(G) /\ \A i \in DOMAIN seen : seen[i] = G[i]
      /\ \A i \in DOMAIN G : i > Len(seen) => Unheard(G[i].kind) \/ Own(s, n, c, G[i])
  BY <1>0, KnownGrows
<1>2. G \in Seq(FaultSeen) /\ \A i \in DOMAIN G : G[i].kind \in Kinds
  BY <1>1 DEF Dated, GoodFault
<1>g. FaultsFired(ep'.ledger) = G
  BY <1>0
<1> HIDE DEF G
<1>3. CASE seen' = FaultsFired(ep'.ledger)
  <2>1. seen' = G
    BY <1>3, <1>g
  <2>2. Len(seen') <= Len(G) /\ \A i \in DOMAIN G : ~(i > Len(seen'))
    BY <1>2, <2>1
  <2> QED
    BY <1>0, <1>1, <1>g, <2>1, <2>2 DEF FaultsKnown, Dated, GoodFault, FaultSeen
<1>4. CASE seen' = seen /\ Hidden(s, n, c, turn)
  <2>1. ASSUME NEW i \in DOMAIN G, i > Len(seen) PROVE Unheard(G[i].kind)'
    <3>0. "none" \notin Kinds
      BY DEF Kinds
    <3>1. CASE Unheard(G[i].kind)
      <4>1. PICK m \in DOMAIN truth : truth[m].fault = G[i].kind /\ (truth[m].turn => ~Heard(m))
        BY <3>1 DEF Unheard
      <4>2. m # n
        <5>1. truth[m].fault # "none"
          BY <1>2, <3>0, <4>1
        <5>2. HasRow(m)
          BY <5>1 DEF IInv, Rowed
        <5> QED
          BY <5>2 DEF HasRow, Taken
      <4>3. m \in DOMAIN truth' /\ truth'[m] = truth[m] /\ results'[m] = results[m]
        BY <4>2 DEF Taken
      <4>4. Heard(m)' <=> Heard(m)
        BY <4>3 DEF Heard
      <4> QED
        BY <1>0, <4>1, <4>3, <4>4 DEF Unheard
    <3>2. CASE Own(s, n, c, G[i])
      <4>1. PICK j, r : LeftRow(s, n, c, j, r) /\ G[i] = r.fault
        BY <3>2 DEF Own
      <4>2. n \in DOMAIN truth' /\ truth'[n].fault = G[i].kind /\ truth'[n].turn = turn
        BY <4>1 DEF Taken, Recalls
      <4>3. turn => ~Heard(n)'
        BY <1>4, <3>2 DEF Hidden
      <4> QED
        BY <4>2, <4>3 DEF Unheard
    <3> QED
      BY <1>1, <2>1, <3>1, <3>2
  <2> QED
    BY <1>0, <1>1, <1>g, <1>4, <2>1 DEF FaultsKnown, Dated, GoodFault, FaultSeen
<1> QED
  BY <1>3, <1>4

\* The record and the workspace keep their shapes.
LEMMA TakenEp ==
  ASSUME IInv, NEW n, NEW c, NEW s, NEW turn, Taken(n, c, s, turn)
  PROVE  /\ ep' \in [step : Nat, plan : {Scenario[scenario].plan}, hits : Seq(Int), ledger : Seq(Row)]
         /\ GoodTree(tree')
<1>0. EpShape /\ HitsCount /\ GoodTree(tree)
  BY InvShape DEF IInv
<1>1. ep' = s.ep /\ tree' = s.tree /\ (WellServed(s, n, c) \/ Missed(s))
  BY DEF Taken
<1>2. s.ep = ep \/ \E j, r : LeftRow(s, n, c, j, r)
  BY <1>1 DEF WellServed, LeftNothing, Missed
<1>3. s.ep \in [step : Nat, plan : {Scenario[scenario].plan}, hits : Seq(Int), ledger : Seq(Row)]
  <2>1. CASE s.ep = ep
    BY <1>0, <2>1 DEF EpShape
  <2>2. CASE \E j, r : LeftRow(s, n, c, j, r)
    BY <1>0, <2>2, RowMatters
  <2> QED
    BY <1>2, <2>1, <2>2
<1>4. GoodTree(s.tree)
  BY <1>0, <1>1 DEF WellServed, ServedShape, Missed
<1> QED
  BY <1>1, <1>3, <1>4

-----------------------------------------------------------------------------
(* A call of the agent keeps the invariant *)

\* A call of the agent is served,
LEMMA CalledTaken ==
  ASSUME IInv, NEW c, NEW s, NEW turn, NEW reply, NEW shown, NEW sees,
         Called(c, s, turn, reply, shown, sees), NEW n, n = Len(results) + 1
  PROVE  Taken(n, c, s, turn)
<1>1. Added(n, c, s, turn, reply, shown, sees)
  BY CalledAdds
<1>2. /\ n \in Nat \ {0} /\ n \notin DOMAIN truth /\ DOMAIN truth' = DOMAIN truth \cup {n}
      /\ \A m \in DOMAIN truth : truth'[m] = truth[m] /\ results'[m] = results[m] /\ m < n
      /\ Recalls(truth'[n], s, n, c, turn)
  <2>1. n = Len(truth) + 1 /\ Len(truth) \in Nat
    BY <1>1 DEF Added, IInv, Shapes
  <2> QED
    BY <1>1, <2>1 DEF Added
<1>3. /\ phase = "running" /\ c \in Menu[scenario] /\ turn \in BOOLEAN
      /\ IF turn THEN WellServed(s, n, c) ELSE Missed(s)
      /\ ep' = s.ep /\ tree' = s.tree /\ scenario' = scenario
      /\ late' \in {late, late \cup {n}} /\ (turn => late' = late)
  BY DEF Called
<1>4. \A i \in DOMAIN ep.ledger : ep.ledger[i].n # n
  BY <1>2 DEF IInv, Told, RowTells
<1>5. late \subseteq DOMAIN truth
  BY DEF IInv, Shapes
<1>6. s.ep # ep => n \notin late'
  BY <1>2, <1>3, <1>5 DEF Missed
<1> QED
  BY <1>2, <1>3, <1>4, <1>6 DEF Taken

\* what it reads of the changelog is known to have been read,
LEMMA CalledReadBack ==
  ASSUME IInv, NEW c, NEW s, NEW turn, NEW reply, NEW shown, NEW sees,
         Called(c, s, turn, reply, shown, sees), NEW n, n = Len(results) + 1
  PROVE  ReadBack(s, n, c)
<1>0. EpShape /\ HitsCount /\ GoodTree(tree) /\ Menu[scenario] \in SUBSET Call
  BY InvShape, MenuCalls DEF IInv
<1>a. Added(n, c, s, turn, reply, shown, sees)
  BY CalledAdds
<1>1. results'[n].reply = reply
  BY <1>a DEF Added
<1>2. PICK fired, f, a : Replied(n, c, s, reply, sees, fired, f, a)
  BY CalledAdds
<1>3. results'[n].outcome = a.outcome /\ (~reply.err /\ reply.exit = 0 => a.outcome = "executed")
  BY <1>2 DEF Replied, Classified
<1>4. c \in Call /\ (reply.lost = "none" => reply = s.reply)
  BY <1>0 DEF Called
<1> SUFFICES ASSUME NEW j, NEW r, LeftRow(s, n, c, j, r), r.outcome = "ok", IsRead(c),
                    Touches(Changelog, c), reply.lost = "none"
             PROVE  a.outcome = "executed"
  BY <1>1, <1>3 DEF ReadBack
<1>5. Done(s, r, j, c)
  BY DEF LeftRow, Refused, Broken, Unacked
<1>6. s.reply.err = FALSE /\ s.reply.exit = Exec(tree, c, HiddenPaths(ep.plan, ep.hits)).exit
  BY <1>5 DEF Done, Reply
<1>7. Exec(tree, c, HiddenPaths(ep.plan, ep.hits)).exit = 0
  BY <1>0, <1>4, ReadComesThrough
<1> QED
  BY <1>3, <1>4, <1>6, <1>7

\* what fired in it is seen, or it was not heard,
LEMMA CalledKnown ==
  ASSUME IInv, NEW c, NEW s, NEW turn, NEW reply, NEW shown, NEW sees,
         Called(c, s, turn, reply, shown, sees), NEW n, n = Len(results) + 1
  PROVE  seen' = FaultsFired(ep'.ledger) \/ (seen' = seen /\ Hidden(s, n, c, turn))
<1>a. Added(n, c, s, turn, reply, shown, sees)
  BY CalledAdds
<1>1. /\ results'[n].reply = reply /\ results'[n].call = c /\ results'[n].sees = sees
  BY <1>a DEF Added
<1>2. PICK fired, f, a : Replied(n, c, s, reply, sees, fired, f, a)
  BY CalledAdds
<1>3. seen' = IF sees THEN FaultsFired(s.ep.ledger) ELSE seen
  BY <1>2 DEF Replied, ShownWith
<1>4. ep' = s.ep /\ sees \in BOOLEAN
  BY DEF Called
<1>5. CASE sees
  BY <1>3, <1>4, <1>5
<1>6. CASE ~sees
  <2>1. reply = s.reply
    BY <1>6 DEF Called
  <2>2. ASSUME NEW f2, Own(s, n, c, f2) PROVE Observes(c, reply)
    <3>1. PICK j, r : LeftRow(s, n, c, j, r) /\ r.fault # NoFault
      BY <2>2 DEF Own
    <3>2. CASE Refused(s, r, j, c)
      BY <2>1, <3>2 DEF Refused, Reply, Observes
    <3>3. CASE Broken(s, r, j, c)
      BY <2>1, <3>3 DEF Broken, Reply, Observes
    <3>4. CASE Unacked(s, r, j, c)
      BY <2>1, <3>4 DEF Unacked, Reply, Observes
    <3>5. CASE Done(s, r, j, c)
      BY <2>1, <3>1, <3>5 DEF Done, Reply, Observes
    <3> QED
      BY <3>1, <3>2, <3>3, <3>4, <3>5 DEF LeftRow
  <2>3. Hidden(s, n, c, turn)
    BY <1>1, <1>6, <2>2 DEF Hidden, Heard, Observes
  <2> QED
    BY <1>3, <1>6, <2>3
<1> QED
  BY <1>4, <1>5, <1>6

\* and only a lost answer is reported later.
LEMMA CalledReports ==
  ASSUME IInv, NEW c, NEW s, NEW turn, NEW reply, NEW shown, NEW sees,
         Called(c, s, turn, reply, shown, sees)
  PROVE  Reports'
<1> DEFINE n == Len(results) + 1
<1>a. Added(n, c, s, turn, reply, shown, sees)
  BY CalledAdds
<1>1. /\ DOMAIN results = DOMAIN truth /\ DOMAIN results' = DOMAIN truth \cup {n}
      /\ \A m \in DOMAIN truth : results'[m] = results[m]
      /\ results'[n].reply = reply
  BY <1>a DEF Added
<1>2. Taken(n, c, s, turn)
  BY CalledTaken
<1> HIDE DEF n
<1>3. Reports
  BY DEF IInv
<1>4. /\ deferred' = deferred
         \/ /\ deferred' = Append(deferred, [call |-> c, code |-> LostCode(reply.lost)])
            /\ reply.lost # "none" /\ c.path # Outside
  BY DEF Called
<1>5. deferred \in Seq([call : Menu[scenario], code : Codes])
  BY DEF IInv, Shapes
<1>6. (\E m \in DOMAIN results : results[m].reply.lost # "none")
        => \E m \in DOMAIN results' : results'[m].reply.lost # "none"
  BY <1>1
<1>7. (\E i \in DOMAIN ep'.ledger : ep'.ledger[i].interrupted)
        => \E i \in DOMAIN ep.ledger : ep.ledger[i].interrupted
  <2>1. CASE ep' = ep
    BY <2>1
  <2>2. CASE ep' # ep
    <3>1. PICK j, r : Grew(n, c, s, j, r)
      BY <1>2, <2>2, Grows
    <3> QED
      BY <3>1 DEF Grew
  <2> QED
    BY <2>1, <2>2
<1>8. CASE deferred' = deferred
  BY <1>3, <1>6, <1>7, <1>8 DEF Reports
<1>9. CASE deferred' # deferred
  <2>1. /\ deferred' = Append(deferred, [call |-> c, code |-> LostCode(reply.lost)])
        /\ reply.lost # "none" /\ c.path # Outside
    BY <1>4, <1>9
  <2>2. n \in DOMAIN results' /\ results'[n].reply.lost # "none"
    BY <1>1, <2>1
  <2>3. \A i \in DOMAIN deferred' : deferred'[i].call.path # Outside
    <3> DEFINE d == [call |-> c, code |-> LostCode(reply.lost)]
    <3>1. d.call = c
      OBVIOUS
    <3> HIDE DEF d
    <3>2. \A i \in DOMAIN Append(deferred, d) : Append(deferred, d)[i] = d \/
              (i \in DOMAIN deferred /\ Append(deferred, d)[i] = deferred[i])
      BY <1>5
    <3> QED
      BY <1>3, <2>1, <3>1, <3>2 DEF Reports, d
  <2> QED
    BY <2>2, <2>3 DEF Reports
<1> QED
  BY <1>8, <1>9

\* The rest of the state keeps its shape.
LEMMA CalledShapes ==
  ASSUME IInv, NEW c, NEW s, NEW turn, NEW reply, NEW shown, NEW sees,
         Called(c, s, turn, reply, shown, sees)
  PROVE  Shapes' /\ Lined' /\ Graded'
<1> DEFINE n == Len(results) + 1
<1>a. Added(n, c, s, turn, reply, shown, sees)
  BY CalledAdds
<1>1. /\ DOMAIN results = DOMAIN truth /\ DOMAIN truth' = DOMAIN truth \cup {n}
      /\ \A m \in DOMAIN truth : results'[m] = results[m] /\ truth'[m] = truth[m] /\ m # n
      /\ results'[n].reply = reply /\ results'[n].call = c /\ Recalls(truth'[n], s, n, c, turn)
      /\ results' \in Seq(Result') /\ truth' \in Seq(Past') /\ Len(results') = n /\ Len(truth') = n
  BY <1>a DEF Added
<1>2. Taken(n, c, s, turn)
  BY CalledTaken
<1>3. PICK fired, f, a : Replied(n, c, s, reply, sees, fired, f, a)
  BY CalledAdds
<1>4. /\ phase = "running" /\ c \in Menu[scenario] /\ turn \in BOOLEAN
      /\ (turn /\ reply = s.reply) \/ (reply.err /\ reply.lost # "none")
      /\ reply \in Replies /\ (~turn => reply.lost # "none")
      /\ UNCHANGED <<scenario, verdict, resolution>>
      /\ late' \in {late, late \cup {n}} /\ (turn => late' = late)
      /\ alive' \in BOOLEAN /\ breaks' \in 0 .. MaxBreaks
      /\ \/ deferred' = deferred
         \/ deferred' = Append(deferred, [call |-> c, code |-> LostCode(reply.lost)])
  <2>1. turn => reply.err \in BOOLEAN
    BY DEF Called, Replies
  <2>2. ~turn => reply.lost # "none"
    BY DEF Called
  <2> QED
    BY <2>1, <2>2 DEF Called
<1> HIDE DEF n
<1>5. Shapes /\ Lined /\ Graded
  BY DEF IInv
<1>6. /\ results'[n].outcome = a.outcome /\ (reply.err /\ reply.lost # "none" => a.outcome = "unknown")
      /\ phase' \in {"running", "ended"} /\ seen' = seen \o fired /\ fired \in Seq(FaultSeen)
  BY <1>3 DEF Replied, Classified, ShownWith
<1>7. seen' \in Seq(FaultSeen)
  BY <1>5, <1>6 DEF Shapes
<1>8. deferred' \in Seq([call : Menu[scenario], code : Codes])
  <2> DEFINE d == [call |-> c, code |-> LostCode(reply.lost)]
             D == [call : Menu[scenario], code : Codes]
  <2>1. d \in D
    BY <1>4 DEF LostCode, Codes
  <2>2. deferred \in Seq(D)
    BY <1>5 DEF Shapes
  <2>3. deferred' = deferred \/ deferred' = Append(deferred, d)
    BY <1>4
  <2> HIDE DEF d, D
  <2>4. deferred' \in Seq(D)
    BY <2>1, <2>2, <2>3
  <2> QED
    BY <2>4 DEF D
<1>9. /\ ep' \in [step : Nat, plan : {Scenario[scenario].plan}, hits : Seq(Int), ledger : Seq(Row)]
      /\ GoodTree(tree')
  BY <1>2, TakenEp
<1>10. Shapes'
  <2>1. scenario' = scenario /\ scenario \in Played /\ verdict' = verdict /\ verdict.score \in 0 .. 1000
    BY <1>4, <1>5 DEF Shapes
  <2>2. DOMAIN tree' \subseteq Files \cup {EvalFile} /\ \A g \in DOMAIN tree' : tree'[g] \in Nat
    BY <1>9 DEF GoodTree
  <2>3. late' \subseteq DOMAIN truth'
    BY <1>1, <1>4, <1>5 DEF Shapes
  <2>4. phase' \in {"running", "ended", "graded", "ungraded"} /\ phase' \notin {"graded", "ungraded"}
    BY <1>6
  <2>5. deferred' \in Seq([call : Menu[scenario], code : Codes])'
    BY <1>8, <2>1
  <2>6. ep' \in [step : Nat, plan : {Scenario[scenario'].plan}, hits : Seq(Int), ledger : Seq(Row)]
    BY <1>9, <2>1
  <2> QED
    BY <1>1, <1>4, <1>7, <2>1, <2>2, <2>3, <2>4, <2>5, <2>6 DEF Shapes
<1>11. Lined'
  <2>1. truth'[n].call = c /\ truth'[n].turn = turn
    BY <1>1 DEF Recalls
  <2>2. ~turn => results'[n].outcome = "unknown" /\ results'[n].reply.lost # "none"
    <3>1. ~turn => reply.err
      BY <1>4
    <3> QED
      BY <1>1, <1>4, <1>6, <3>1
  <2>3. \A m \in late' : ~truth'[m].turn
    BY <1>1, <1>4, <1>5, <2>1 DEF Lined, Shapes
  <2>4. truth'[n].wrote => IsMutating(truth'[n].call)
    BY <1>1, <2>1 DEF Recalls
  <2> QED
    BY <1>1, <1>5, <2>1, <2>2, <2>3, <2>4 DEF Lined
<1>12. Graded'
  <2>1. resolution = {} /\ resolution' = {} /\ phase' # "graded"
    BY <1>4, <1>5, <1>6 DEF Graded
  <2> QED
    BY <2>1 DEF Graded, ScoreIsEarned, ResolutionIsTrue
<1> QED
  BY <1>10, <1>11, <1>12

\* A call of the agent keeps the invariant.
LEMMA CalledInv ==
  ASSUME IInv, NEW c, NEW s, NEW turn, NEW reply, NEW shown, NEW sees,
         Called(c, s, turn, reply, shown, sees)
  PROVE  IInv'
<1> DEFINE n == Len(results) + 1
<1>1. Taken(n, c, s, turn)
  BY CalledTaken
<1>2. Shapes' /\ Lined' /\ Graded'
  BY CalledShapes
<1>3. HitsCount' /\ Told' /\ Stepped' /\ Rowed' /\ Ordered'
  BY <1>1, TakenHits, TakenTold, TakenStepped, TakenRowed, TakenOrdered
<1>4. FaultsKnown'
  BY <1>1, CalledKnown, TakenKnown
<1>5. AckLostOnce'
  BY <1>1, CalledReadBack, TakenAck
<1>6. Reports' /\ OutcomeIsTrue' /\ ListingAgrees'
  BY CalledReports, CallTruth, CallListing
<1> QED
  BY <1>2, <1>3, <1>4, <1>5, <1>6 DEF IInv

\* Replies have their shape.
LEMMA ReplyShape ==
  ASSUME EpShape, GoodTree(tree), NEW c \in Call, NEW n, NEW s, WellServed(s, n, c)
  PROVE  s.reply \in Replies /\ s.reply.lost = "none"
<1>1. ASSUME NEW err \in BOOLEAN, NEW code \in Codes, NEW exit \in Nat
      PROVE  Reply(err, code, exit) \in Replies /\ Reply(err, code, exit).lost = "none"
  BY DEF Reply, Replies
<1>2. CASE LeftNothing(s, c)
  <2>1. s.reply = Reply(TRUE, "EINVAL", 0) \/ s.reply = Reply(TRUE, "EINTERNAL", 0)
    BY <1>2 DEF LeftNothing
  <2>2. "EINVAL" \in Codes /\ "EINTERNAL" \in Codes
    BY DEF Codes
  <2> QED
    BY <1>1, <2>1, <2>2
<1>3. CASE ~LeftNothing(s, c)
  <2>1. c.path # Outside /\ \E j, r : LeftRow(s, n, c, j, r)
    BY <1>3 DEF WellServed
  <2>2. PICK j, r : LeftRow(s, n, c, j, r)
    BY <2>1
  <2>3. CASE Refused(s, r, j, c)
    <3>1. InjectedCode(ep.plan[j].kind) \in Codes /\ "none" \in Codes
      BY <2>3 DEF Refused, InjectedCode, Codes
    <3>2. s.reply = Reply(FALSE, "none", 1) \/ s.reply = Reply(TRUE, InjectedCode(ep.plan[j].kind), 0)
      BY <2>3 DEF Refused
    <3> QED
      BY <1>1, <3>1, <3>2
  <2>4. CASE Broken(s, r, j, c)
    <3>1. /\ s.reply = Reply(TRUE, s.reply.code, s.reply.exit) /\ s.reply.exit \in Nat
          /\ s.reply.code \in Codes
      BY <2>4 DEF Broken, Codes
    <3>2. Reply(TRUE, s.reply.code, s.reply.exit) \in Replies
          /\ Reply(TRUE, s.reply.code, s.reply.exit).lost = "none"
      BY <1>1, <3>1
    <3> QED
      BY <3>1, <3>2
  <2>5. CASE Unacked(s, r, j, c)
    <3>1. s.reply = Reply(TRUE, "ETIMEDOUT", 0) /\ "ETIMEDOUT" \in Codes
      BY <2>5 DEF Unacked, Codes
    <3> QED
      BY <1>1, <3>1
  <2>6. CASE Done(s, r, j, c)
    <3> DEFINE x == Exec(tree, c, HiddenPaths(ep.plan, ep.hits))
    <3>1. s.reply = Reply(FALSE, "none", x.exit)
      BY <2>6 DEF Done
    <3>2. x.exit \in Nat
      BY <2>1, ExecIs DEF Carried
    <3>3. "none" \in Codes
      BY DEF Codes
    <3> HIDE DEF x
    <3>4. Reply(FALSE, "none", x.exit) \in Replies /\ Reply(FALSE, "none", x.exit).lost = "none"
      BY <1>1, <3>2, <3>3
    <3> QED
      BY <3>1, <3>4
  <2> QED
    BY <2>2, <2>3, <2>4, <2>5, <2>6 DEF LeftRow
<1> QED
  BY <1>2, <1>3

\* A call of the menu, served.
LEMMA ServedWell ==
  ASSUME IInv, NEW c \in Menu[scenario], NEW w \in Weather, Fits(c, w), NEW n \in Nat
  PROVE  /\ WellServed(Serve(n, c, w), n, c) /\ c \in Call
         /\ Serve(n, c, w).reply \in Replies /\ Serve(n, c, w).reply.lost = "none"
<1>1. EpShape /\ GoodTree(tree) /\ c \in Call
  BY InvShape, MenuCalls
<1>2. WellServed(Serve(n, c, w), n, c)
  BY <1>1, ServeIs
<1> QED
  BY <1>1, <1>2, ReplyShape

\* A lost answer is an error that says nothing of the call.
LEMMA LostReplies ==
  ASSUME NEW kind \in {"timeout", "abort", "protocol", "connect"}
  PROVE  /\ LostReply(kind) \in Replies /\ LostReply(kind).err /\ LostReply(kind).lost = kind
         /\ kind # "none"
BY DEF LostReply, LostCode, Replies, Codes

\* CallAnswered: the call is served and answered.
LEMMA AnsweredInv ==
  ASSUME IInv, NEW c \in Menu[scenario], NEW w \in Weather, NEW sees \in BOOLEAN,
         NEW dies \in BOOLEAN, CallAnswered(c, w, sees, dies)
  PROVE  IInv'
<1> DEFINE n == Len(results) + 1
           s == Serve(n, c, w)
<1>0. n \in Nat /\ breaks \in 0 .. MaxBreaks /\ MaxBreaks \in Nat
  BY CountsAssumption DEF IInv, Shapes
<1>1. /\ MayCall /\ Fits(c, w)
      /\ ep' = s.ep /\ tree' = s.tree /\ alive' = ~dies
      /\ truth' = Append(truth, History(c, s, TRUE))
      /\ Hear(c, s.reply, s.shown, s.ep, sees)
      /\ UNCHANGED <<scenario, late, deferred, verdict, resolution>>
  BY DEF CallAnswered
<1>2. breaks' \in 0 .. MaxBreaks
  <2> DEFINE deaf == (~sees /\ Observes(c, s.reply)) /\ ~dies
  <2>1. breaks' = breaks + Costs(w, deaf) /\ breaks' <= MaxBreaks
    BY DEF CallAnswered
  <2>2. Costs(w, deaf) \in Nat
    BY DEF Costs
  <2> HIDE DEF deaf
  <2> QED
    BY <1>0, <2>1, <2>2
<1> HIDE DEF n
<1>3. WellServed(s, n, c) /\ s.reply \in Replies /\ s.reply.lost = "none"
  BY <1>0, <1>1, ServedWell
<1> HIDE DEF s
<1>4. s.shown \in SUBSET Files
  BY <1>3 DEF WellServed, ServedShape
<1>5. phase = "running"
  BY <1>1 DEF MayCall
<1>6. Called(c, s, TRUE, s.reply, s.shown, sees)
  BY <1>1, <1>2, <1>3, <1>4, <1>5 DEF Called, n
<1> QED
  BY <1>6, CalledInv

\* AnswerLost: the call is served and the answer is lost.
LEMMA LostInv ==
  ASSUME IInv, NEW c \in Menu[scenario], NEW kind \in {"timeout", "abort", "protocol"},
         AnswerLost(c, kind)
  PROVE  IInv'
<1> DEFINE n == Len(results) + 1
           s == Serve(n, c, "fair")
<1>0. n \in Nat /\ breaks \in 0 .. MaxBreaks /\ MaxBreaks \in Nat /\ alive \in BOOLEAN
  BY CountsAssumption DEF IInv, Shapes
<1>1. /\ MayCall /\ Break /\ Defer(c, kind)
      /\ ep' = s.ep /\ tree' = s.tree /\ alive' = alive
      /\ truth' = Append(truth, History(c, s, TRUE))
      /\ Hear(c, LostReply(kind), {}, s.ep, TRUE)
      /\ UNCHANGED <<scenario, late, verdict, resolution>>
  BY DEF AnswerLost
<1>2. breaks' \in 0 .. MaxBreaks
  BY <1>0, <1>1 DEF Break
<1> HIDE DEF n
<1>3. WellServed(s, n, c)
  BY <1>0, ServedWell DEF Fits, Weather
<1> HIDE DEF s
<1>4. /\ LostReply(kind) \in Replies /\ LostReply(kind).err /\ LostReply(kind).lost = kind
      /\ kind # "none"
  BY LostReplies
<1>5. phase = "running"
  BY <1>1 DEF MayCall
<1>6. \/ deferred' = deferred
      \/ /\ deferred' = Append(deferred, [call |-> c, code |-> LostCode(LostReply(kind).lost)])
         /\ c.path # Outside
  BY <1>1, <1>4 DEF Defer
<1>7. Called(c, s, TRUE, LostReply(kind), {}, TRUE)
  BY <1>0, <1>1, <1>2, <1>3, <1>4, <1>5, <1>6 DEF Called, n
<1> QED
  BY <1>7, CalledInv

\* GivenUp: the harness gives up before the call is served.
LEMMA GivenUpInv ==
  ASSUME IInv, NEW c \in Menu[scenario], NEW kind \in {"timeout", "abort", "protocol", "connect"},
         GivenUp(c, kind)
  PROVE  IInv'
<1> DEFINE s == Served(ep, tree, LostReply(kind), {}, FALSE, FALSE)
<1>0. breaks \in 0 .. MaxBreaks /\ MaxBreaks \in Nat /\ alive \in BOOLEAN
  BY CountsAssumption DEF IInv, Shapes
<1>s. Missed(s) /\ s.ep = ep /\ s.tree = tree
  BY DEF Served, Missed
<1>1. /\ MayCall /\ Break /\ Defer(c, kind)
      /\ ep' = s.ep /\ tree' = s.tree /\ alive' = alive
      /\ truth' = Append(truth, History(c, s, FALSE))
      /\ Hear(c, LostReply(kind), {}, s.ep, TRUE)
      /\ late' \in {late, late \cup {Len(results) + 1}}
      /\ UNCHANGED <<scenario, verdict, resolution>>
  BY <1>s DEF GivenUp
<1> HIDE DEF s
<1>2. breaks' \in 0 .. MaxBreaks
  BY <1>0, <1>1 DEF Break
<1>4. /\ LostReply(kind) \in Replies /\ LostReply(kind).err /\ LostReply(kind).lost = kind
      /\ kind # "none"
  BY LostReplies
<1>5. phase = "running"
  BY <1>1 DEF MayCall
<1>6. \/ deferred' = deferred
      \/ /\ deferred' = Append(deferred, [call |-> c, code |-> LostCode(LostReply(kind).lost)])
         /\ c.path # Outside
  BY <1>1, <1>4 DEF Defer
<1>7. Called(c, s, FALSE, LostReply(kind), {}, TRUE)
  BY <1>0, <1>s, <1>1, <1>2, <1>4, <1>5, <1>6 DEF Called
<1> QED
  BY <1>7, CalledInv

-----------------------------------------------------------------------------
(* A call that was given up is served *)

\* A sequence with one element replaced.
LEMMA Replacing ==
  ASSUME NEW U, NEW s \in Seq(U), NEW i \in DOMAIN s, NEW x \in U
  PROVE  /\ [s EXCEPT ![i] = x] \in Seq(U) /\ DOMAIN [s EXCEPT ![i] = x] = DOMAIN s
         /\ Len([s EXCEPT ![i] = x]) = Len(s)
         /\ [s EXCEPT ![i] = x][i] = x
         /\ \A j \in DOMAIN s : j # i => [s EXCEPT ![i] = x][j] = s[j]
OBVIOUS

\* ServeLate: the call is served as any other, but not in its turn.
LEMMA LateTaken ==
  ASSUME IInv, NEW n \in late, ServeLate(n), NEW c, c = truth[n].call, NEW s, s = Serve(n, c, "fair")
  PROVE  Taken(n, c, s, FALSE) /\ truth' \in Seq(Past) /\ DOMAIN truth' = DOMAIN truth
<1>1. /\ n \in DOMAIN truth /\ truth \in Seq(Past) /\ DOMAIN truth = 1 .. Len(truth)
      /\ phase \notin {"graded", "ungraded"}
  BY DEF IInv, Shapes
<1>2. n \in Nat \ {0} /\ truth[n] \in Past
  BY <1>1
<1>3. c \in Menu[scenario]
  BY <1>2 DEF Past
<1>4. /\ late' = late \ {n} /\ ep' = s.ep /\ tree' = s.tree
      /\ truth' = [truth EXCEPT ![n] = History(c, s, FALSE)]
      /\ UNCHANGED <<scenario, alive, phase, seen, results, deferred, verdict, resolution, breaks>>
  BY DEF ServeLate
<1>5. WellServed(s, n, c)
  BY <1>2, <1>3, ServedWell DEF Fits, Weather
<1>6. Recalls(History(c, s, FALSE), s, n, c, FALSE)
  BY <1>3, <1>5, HistoryIs
<1>7. History(c, s, FALSE) \in Past
  BY <1>6 DEF Recalls
<1>8. /\ truth' \in Seq(Past) /\ DOMAIN truth' = DOMAIN truth /\ truth'[n] = History(c, s, FALSE)
      /\ \A m \in DOMAIN truth : m # n => truth'[m] = truth[m]
  BY <1>1, <1>4, <1>7, Replacing
<1>9. \A i \in DOMAIN ep.ledger : ep.ledger[i].n # n
  BY <1>2 DEF IInv, Told, RowTells
<1>10. Recalls(truth'[n], s, n, c, FALSE)
  BY <1>6, <1>8
<1> QED
  BY <1>1, <1>2, <1>3, <1>4, <1>5, <1>8, <1>9, <1>10 DEF Taken

\* The invariant survives it: the harness has not seen the fault, and says so.
LEMMA ServeLateInv ==
  ASSUME IInv, NEW n \in late, ServeLate(n)
  PROVE  IInv'
<1> DEFINE c == truth[n].call
           s == Serve(n, c, "fair")
<1>1. Taken(n, c, s, FALSE) /\ truth' \in Seq(Past) /\ DOMAIN truth' = DOMAIN truth
  BY LateTaken
<1> HIDE DEF c, s
<1>2. /\ late' = late \ {n}
      /\ UNCHANGED <<scenario, alive, phase, seen, results, deferred, verdict, resolution, breaks>>
  BY DEF ServeLate
<1>3. /\ truth'[n].turn = FALSE /\ truth'[n].call = c /\ n \in DOMAIN truth
      /\ \A m \in DOMAIN truth : m # n => truth'[m] = truth[m]
      /\ Recalls(truth'[n], s, n, c, FALSE)
  BY <1>1 DEF Taken, Recalls
<1>4. /\ results[n].outcome = "unknown" /\ results[n].reply.lost # "none" /\ results[n].call = truth[n].call
      /\ n \in DOMAIN truth /\ ~truth[n].turn
  BY <1>3 DEF IInv, Lined
<1>5. HitsCount' /\ Told' /\ Stepped' /\ Rowed' /\ Ordered'
  BY <1>1, TakenHits, TakenTold, TakenStepped, TakenRowed, TakenOrdered
<1>6. FaultsKnown'
  <2>1. Hidden(s, n, c, FALSE)
    BY DEF Hidden
  <2> QED
    BY <1>1, <1>2, <2>1, TakenKnown
<1>7. AckLostOnce'
  <2>1. ReadBack(s, n, c)
    BY <1>2, <1>4 DEF ReadBack
  <2> QED
    BY <1>1, <2>1, TakenAck
<1>8. phase \notin {"graded", "ungraded"}
  BY DEF IInv, Shapes
<1>9. Shapes'
  <2>1. /\ ep' \in [step : Nat, plan : {Scenario[scenario].plan}, hits : Seq(Int), ledger : Seq(Row)]
        /\ GoodTree(tree')
    BY <1>1, TakenEp
  <2>2. Past' = Past /\ Result' = Result
    BY <1>2 DEF Past, Result
  <2>3. Len(truth') = Len(truth)
    <3>1. truth \in Seq(Past) /\ truth' \in Seq(Past) /\ DOMAIN truth' = DOMAIN truth
      BY <1>1 DEF IInv, Shapes
    <3> QED
      BY <3>1
  <2>4. Shapes
    BY DEF IInv
  <2>5. ep' \in [step : Nat, plan : {Scenario[scenario'].plan}, hits : Seq(Int), ledger : Seq(Row)]
    BY <1>2, <2>1
  <2>6. deferred' \in Seq([call : Menu[scenario], code : Codes])'
    BY <1>2, <2>4 DEF Shapes
  <2>7. late' \subseteq DOMAIN truth' /\ phase' \notin {"graded", "ungraded"}
    BY <1>1, <1>2, <1>8, <2>4 DEF Shapes
  <2>8. results' \in Seq(Result') /\ truth' \in Seq(Past') /\ Len(results') = Len(truth')
    BY <1>1, <1>2, <2>2, <2>3, <2>4 DEF Shapes
  <2>9. /\ scenario' \in Played /\ alive' \in BOOLEAN
        /\ phase' \in {"running", "ended", "graded", "ungraded"} /\ seen' \in Seq(FaultSeen)
        /\ breaks' \in 0 .. MaxBreaks /\ verdict'.score \in 0 .. 1000
    BY <1>2, <2>4 DEF Shapes
  <2> QED
    BY <2>1, <2>5, <2>6, <2>7, <2>8, <2>9 DEF Shapes, GoodTree
<1>10. Lined'
  <2>1. Lined /\ late \subseteq DOMAIN truth
    BY DEF IInv, Shapes
  <2>2. truth'[n].call = truth[n].call
    BY <1>3 DEF c
  <2>3. \A m \in DOMAIN truth : truth'[m].call = truth[m].call /\ (truth'[m].turn => truth[m].turn)
    BY <1>3, <2>2
  <2>4. \A m \in DOMAIN truth : m # n => truth'[m] = truth[m]
    BY <1>3
  <2>5. \A m \in DOMAIN truth : ~truth'[m].turn => ~truth[m].turn
    BY <1>3, <1>4, <2>4
  <2>6. \A m \in DOMAIN truth : truth'[m].wrote => IsMutating(truth'[m].call)
    <3>1. truth'[n].wrote => IsMutating(truth'[n].call)
      BY <1>3 DEF Recalls
    <3> QED
      BY <2>1, <2>4, <3>1 DEF Lined
  <2> QED
    BY <1>1, <1>2, <2>1, <2>3, <2>4, <2>5, <2>6 DEF Lined
<1>11. Reports'
  <2>1. (\E i \in DOMAIN ep'.ledger : ep'.ledger[i].interrupted)
          => \E i \in DOMAIN ep.ledger : ep.ledger[i].interrupted
    <3>1. CASE ep' = ep
      BY <3>1
    <3>2. CASE ep' # ep
      <4>1. PICK j, r : Grew(n, c, s, j, r)
        BY <1>1, <3>2, Grows
      <4> QED
        BY <4>1 DEF Grew
    <3> QED
      BY <3>1, <3>2
  <2> QED
    BY <1>2, <2>1 DEF IInv, Reports
<1>12. Graded'
  <2>1. resolution = {} /\ resolution' = {} /\ phase' # "graded"
    BY <1>2, <1>8 DEF IInv, Graded
  <2> QED
    BY <2>1 DEF Graded, ScoreIsEarned, ResolutionIsTrue
<1>13. OutcomeIsTrue'
  <2> SUFFICES ASSUME NEW m \in DOMAIN results, Attributable(m)', truth'[m].turn, truth'[m].clean
               PROVE  /\ results[m].outcome = "executed" => truth'[m].ran
                      /\ results[m].outcome = "not_executed" => ~truth'[m].ran /\ ~truth'[m].landed
                      /\ results[m].class.applied = "no" => ~truth'[m].landed
                      /\ results[m].class.applied = "yes" => truth'[m].ran
    BY <1>2 DEF OutcomeIsTrue
  <2>0. DOMAIN results = 1 .. Len(truth) /\ DOMAIN truth = 1 .. Len(truth) /\ Len(truth) \in Nat
    BY DEF IInv, Shapes
  <2>1. truth'[m] = truth[m]
    BY <1>3, <2>0
  <2>2. Attributable(m)
    <3> SUFFICES ASSUME NEW k \in 1 .. m - 1
                 PROVE  truth[k].turn /\ (Heard(k) \/ (results[m].reply.err
                                    /\ truth[k].fault # KindOfCode(results[m].reply.code)))
      BY DEF Attributable
    <3>1. truth'[k].turn /\ (Heard(k)' \/ (results[m].reply.err
                                    /\ truth'[k].fault # KindOfCode(results[m].reply.code)))
      BY <1>2 DEF Attributable
    <3>2. k \in DOMAIN truth
      BY <2>0
    <3>3. truth'[k] = truth[k]
      BY <1>3, <3>1, <3>2
    <3>4. Heard(k)' <=> Heard(k)
      BY <1>2 DEF Heard
    <3> QED
      BY <3>1, <3>3, <3>4
  <2> QED
    BY <2>1, <2>2 DEF IInv, OutcomeIsTrue
<1>14. ListingAgrees'
  <2>0. DOMAIN results = DOMAIN truth
    BY DEF IInv, Shapes
  <2> QED
    BY <1>2, <1>3, <1>4, <2>0 DEF IInv, ListingAgrees
<1> QED
  BY <1>5, <1>6, <1>7, <1>9, <1>10, <1>11, <1>12, <1>13, <1>14 DEF IInv

-----------------------------------------------------------------------------
(* Steps that leave the record and the transcript alone *)

\* Steps that change neither record, workspace nor transcript keep the invariant.
LEMMA QuietInv ==
  ASSUME IInv, UNCHANGED <<scenario, ep, tree, seen, results, deferred, verdict, resolution, truth>>,
         late' \subseteq late, alive' \in BOOLEAN, breaks' \in 0 .. MaxBreaks,
         phase' \in {"running", "ended", "graded", "ungraded"},
         phase' = "running" => phase = "running", phase' = "graded" <=> phase = "graded",
         phase' = "ungraded" => late' = {} /\ deferred = << >>
  PROVE  IInv'
<1>1. IInv
  OBVIOUS
<1>2. Shapes'
  <2>1. Shapes /\ Result' = Result /\ Past' = Past
    BY <1>1 DEF IInv, Result, Past
  <2>2. phase' \in {"graded", "ungraded"} => late' = {} /\ deferred' = << >>
    BY <2>1 DEF Shapes
  <2>3. results' \in Seq(Result') /\ truth' \in Seq(Past') /\ Len(results') = Len(truth')
    BY <2>1 DEF Shapes
  <2>4. deferred' \in Seq([call : Menu[scenario], code : Codes])'
    BY <2>1 DEF Shapes
  <2> QED
    BY <2>1, <2>2, <2>3, <2>4 DEF Shapes
<1>3. HitsCount' /\ Stepped' /\ Rowed' /\ Reports' /\ AckLostOnce'
  BY <1>1 DEF IInv, HitsCount, Stepped, Rowed, HasRow, Reports, AckLostOnce
<1>4. Lined'
  BY <1>1 DEF IInv, Lined
<1>5. Told'
  BY <1>1 DEF IInv, Told, RowTells
<1>6. Ordered'
  BY <1>1 DEF IInv, Ordered, Turns
<1>7. FaultsKnown'
  <2>1. \A kind : Unheard(kind) => Unheard(kind)'
    BY DEF Unheard, Heard
  <2>2. FaultsFired(ep.ledger)' = FaultsFired(ep.ledger) /\ FaultsKnown
    BY <1>1 DEF IInv
  <2> QED
    BY <2>1, <2>2 DEF FaultsKnown, Dated, GoodFault, FaultSeen
<1>8. Graded'
  <2>1. Graded
    BY <1>1 DEF IInv
  <2>2. phase' # "graded" => phase # "graded" \/ resolution' = resolution
    OBVIOUS
  <2>3. ScoreIsEarned'
    BY <2>1 DEF Graded, ScoreIsEarned
  <2>4. ResolutionIsTrue'
    BY <2>1 DEF Graded, ResolutionIsTrue, InTurn
  <2>5. phase' = "graded" <=> phase = "graded"
    OBVIOUS
  <2> QED
    BY <2>1, <2>2, <2>3, <2>4, <2>5 DEF Graded
<1>9. OutcomeIsTrue' /\ ListingAgrees'
  BY <1>1 DEF IInv, OutcomeIsTrue, ListingAgrees, Attributable, Heard
<1> QED
  BY <1>2, <1>3, <1>4, <1>5, <1>6, <1>7, <1>8, <1>9 DEF IInv

\* So does a stuttering step,
LEMMA StutterInv ==
  ASSUME IInv, UNCHANGED vars
  PROVE  IInv'
<1>1. Shapes
  BY DEF IInv
<1> QED
  BY <1>1, QuietInv DEF vars, Shapes

\* a call that never arrives,
LEMMA NeverArrivesInv ==
  ASSUME IInv, NEW n \in late, NeverArrives(n)
  PROVE  IInv'
<1>1. Shapes
  BY DEF IInv
<1>2. phase \notin {"graded", "ungraded"}
  BY <1>1 DEF Shapes
<1> QED
  BY <1>1, <1>2, QuietInv DEF NeverArrives, Shapes

\* the end of the loop,
LEMMA EndLoopInv ==
  ASSUME IInv, EndLoop
  PROVE  IInv'
<1>1. late \subseteq late /\ alive \in BOOLEAN /\ breaks \in 0 .. MaxBreaks
  BY DEF IInv, Shapes
<1>2. /\ UNCHANGED <<scenario, ep, tree, seen, results, deferred, verdict, resolution, truth>>
      /\ late' = late /\ alive' = alive /\ breaks' = breaks /\ phase = "running" /\ phase' = "ended"
  BY DEF EndLoop
<1> QED
  BY <1>1, <1>2, QuietInv

\* and a sandbox that cannot be reached.
LEMMA GradeFailsInv ==
  ASSUME IInv, GradeFails
  PROVE  IInv'
<1>1. Shapes
  BY DEF IInv
<1>2. breaks' \in 0 .. MaxBreaks
  BY <1>1, CountsAssumption DEF GradeFails, Break, Shapes
<1>3. /\ UNCHANGED <<scenario, ep, tree, seen, results, deferred, verdict, resolution, truth>>
      /\ late' = late /\ alive' = FALSE /\ phase' = "ungraded" /\ late = {} /\ deferred = << >>
      /\ phase # "running" /\ phase # "graded"
  BY <1>1 DEF GradeFails, Settled, Shapes
<1> QED
  BY <1>2, <1>3, QuietInv

-----------------------------------------------------------------------------
(* The report of a lost answer *)

SameRow(q, r) ==
  /\ q.n = r.n /\ q.call = r.call /\ q.step = r.step /\ q.mutating = r.mutating
  /\ q.fault = r.fault /\ q.outcome = r.outcome /\ (r.interrupted => q.interrupted)

Note(q) ==
  /\ q.n = 0 /\ q.call.path # Outside /\ q.step = ep.step /\ q.fault = NoFault
  /\ q.outcome = "error" /\ q.interrupted

\* e is the record with a row marked, or with a note more.
Noted(e) ==
  /\ e \in [step : Nat, plan : {Scenario[scenario].plan}, hits : Seq(Int), ledger : Seq(Row)]
  /\ e.step = ep.step /\ e.plan = ep.plan /\ e.hits = ep.hits
  /\ \A i \in DOMAIN ep.ledger : i \in DOMAIN e.ledger /\ SameRow(e.ledger[i], ep.ledger[i])
  /\ \A i \in DOMAIN e.ledger :
       i \in DOMAIN ep.ledger \/ (i = Len(ep.ledger) + 1 /\ Note(e.ledger[i]))
  /\ FaultsFired(e.ledger) = FaultsFired(ep.ledger)

EpSet == [step : Nat, plan : {Scenario[scenario].plan}, hits : Seq(Int), ledger : Seq(Row)]

\* The record with another ledger.
LEMMA NewLedger ==
  ASSUME NEW e \in EpSet, NEW M \in Seq(Row)
  PROVE  /\ [e EXCEPT !.ledger = M] \in EpSet
         /\ [e EXCEPT !.ledger = M].ledger = M /\ [e EXCEPT !.ledger = M].step = e.step
         /\ [e EXCEPT !.ledger = M].plan = e.plan /\ [e EXCEPT !.ledger = M].hits = e.hits
BY DEF EpSet

\* A row that is marked as interrupted is otherwise the row it was.
LEMMA MarkedRow ==
  ASSUME NEW r \in Row
  PROVE  /\ [r EXCEPT !.interrupted = TRUE] \in Row
         /\ SameRow([r EXCEPT !.interrupted = TRUE], r)
<1> DEFINE q == [r EXCEPT !.interrupted = TRUE]
<1>1. q \in Row
  BY DEF Row
<1>2. /\ q.n = r.n /\ q.call = r.call /\ q.step = r.step /\ q.mutating = r.mutating
      /\ q.fault = r.fault /\ q.outcome = r.outcome /\ q.interrupted = TRUE
  BY DEF Row
<1> QED
  BY <1>1, <1>2 DEF SameRow

\* _mark_interrupted marks the newest row of the call, or adds a note of its own.
LEMMA InterruptedNotes ==
  ASSUME IInv, NEW c \in Call, c.path # Outside, NEW code \in Codes
  PROVE  Noted(Interrupted(ep, c, code))
<1> DEFINE L == ep.ledger
           S == Matching(L, c)
<1>0. ep \in EpSet /\ L \in Seq(Row) /\ Len(L) \in Nat /\ DOMAIN L = 1 .. Len(L)
  BY InvShape DEF EpShape, EpSet
<1>1. \A r \in Row : SameRow(r, r)
  BY DEF SameRow
<1>2. CASE S # {}
  <2> DEFINE k == Max(S)
             q == [L[k] EXCEPT !.interrupted = TRUE]
             M == [L EXCEPT ![k] = q]
  <2>1. k \in DOMAIN L
    <3>1. S \in SUBSET (1 .. Len(L))
      BY <1>0 DEF Matching
    <3> QED
      BY <1>0, <1>2, <3>1, MaxIs
  <2>2. Interrupted(ep, c, code) = [ep EXCEPT !.ledger = M]
    BY <1>2 DEF Interrupted
  <2> HIDE DEF k
  <2>3. L[k] \in Row
    BY <1>0, <2>1
  <2>4. q \in Row /\ SameRow(q, L[k])
    BY <2>3, MarkedRow
  <2> HIDE DEF q, L, S
  <2>5. /\ M \in Seq(Row) /\ DOMAIN M = DOMAIN L /\ Len(M) = Len(L) /\ M[k] = q
        /\ \A i \in DOMAIN L : i # k => M[i] = L[i]
    BY <1>0, <2>1, <2>4, Replacing
  <2>6. \A i \in DOMAIN L : SameRow(M[i], L[i])
    BY <1>0, <1>1, <2>4, <2>5
  <2>7. FaultsFired(M) = FaultsFired(L)
    BY <1>0, <2>5, <2>6, FiredSame DEF SameRow
  <2> HIDE DEF M
  <2>8. LET e == [ep EXCEPT !.ledger = M]
        IN  e \in EpSet /\ e.ledger = M /\ e.step = ep.step /\ e.plan = ep.plan /\ e.hits = ep.hits
    BY <1>0, <2>5, NewLedger
  <2> QED
    BY <2>2, <2>5, <2>6, <2>7, <2>8 DEF Noted, EpSet, L
<1>3. CASE S = {}
  <2> DEFINE q == [n |-> 0, call |-> Reported(c), step |-> ep.step, mutating |-> c.tool = "write_file",
                   fault |-> NoFault, outcome |-> "error", exit |-> 0, origin |-> "real",
                   code |-> code, interrupted |-> TRUE]
             M == Append(L, q)
  <2>1. Interrupted(ep, c, code) = [ep EXCEPT !.ledger = M]
    BY <1>3 DEF Interrupted
  <2>2. Reported(c) \in [tool : {"read_file", "list_dir", "write_file", "run_command"},
                         verb : Verbs, path : AnyPath]
        /\ Reported(c).path # Outside
    <3>1. c \in [tool : {"read_file", "list_dir", "write_file", "run_command"},
                 verb : Verbs, path : AnyPath]
      BY CallShape
    <3>2. Root # Outside /\ Root \in AnyPath /\ "none" \in Verbs
      BY DEF Root, Outside, AnyPath, Paths, Verbs
    <3> HIDE DEF Outside
    <3> QED
      BY <3>1, <3>2 DEF Reported
  <2>3. NoFault \in FaultSeen
    BY DEF NoFault, FaultSeen, AnyPath, Paths
  <2>4. q \in Row
    BY <1>0, <2>2, <2>3 DEF Row, EpSet
  <2>5. Note(q) /\ q.fault = NoFault
    BY <2>2 DEF Note
  <2> HIDE DEF q
  <2> HIDE DEF L, S
  <2>6. /\ M \in Seq(Row) /\ DOMAIN M = DOMAIN L \cup {Len(L) + 1} /\ M[Len(L) + 1] = q
        /\ \A i \in DOMAIN L : M[i] = L[i]
    BY <1>0, <2>4, LongerLedger
  <2>7. \A i \in DOMAIN L : SameRow(M[i], L[i])
    BY <1>0, <1>1, <2>6
  <2>8. FaultsFired(M) = FaultsFired(L)
    BY <1>0, <2>4, <2>5, FiredAppend
  <2> HIDE DEF M
  <2>9. LET e == [ep EXCEPT !.ledger = M]
        IN  e \in EpSet /\ e.ledger = M /\ e.step = ep.step /\ e.plan = ep.plan /\ e.hits = ep.hits
    BY <1>0, <2>6, NewLedger
  <2> QED
    BY <2>1, <2>5, <2>6, <2>7, <2>8, <2>9 DEF Noted, EpSet, L
<1> QED
  BY <1>2, <1>3

\* What a report leaves alone.
Reporting ==
  /\ Noted(ep') /\ phase = "ended" /\ deferred # << >> /\ deferred' = Tail(deferred)
  /\ UNCHANGED <<scenario, tree, alive, phase, seen, results, late, verdict, resolution, truth>>
  /\ breaks' \in 0 .. MaxBreaks

\* The ledger before and after a report.
RowsNoted ==
  /\ ep'.step = ep.step /\ ep'.plan = ep.plan /\ ep'.hits = ep.hits /\ ep.step \in Nat
  /\ Len(ep.ledger) \in Nat /\ DOMAIN ep.ledger = 1 .. Len(ep.ledger)
  /\ \A i \in DOMAIN ep.ledger : ep.ledger[i].step \in Nat /\ ep.ledger[i].step <= ep.step
  /\ \A i \in DOMAIN ep.ledger : i \in DOMAIN ep'.ledger /\ SameRow(ep'.ledger[i], ep.ledger[i])
  /\ \A i \in DOMAIN ep'.ledger :
       i \in DOMAIN ep.ledger \/ (i = Len(ep.ledger) + 1 /\ Note(ep'.ledger[i]))

\* After a report every row is the row it was, or a note.
LEMMA ReportingRows ==
  ASSUME IInv, Reporting
  PROVE  RowsNoted
<1>1. /\ Len(ep.ledger) \in Nat /\ DOMAIN ep.ledger = 1 .. Len(ep.ledger) /\ ep.step \in Nat
      /\ \A i \in DOMAIN ep.ledger : ep.ledger[i].step \in Nat
  BY LedgerIs
<1>2. \A i \in DOMAIN ep.ledger : ep.ledger[i].step <= ep.step
  BY DEF IInv, Told, RowTells
<1> QED
  BY <1>1, <1>2 DEF Reporting, Noted, RowsNoted

\* The rows still tell the truth,
LEMMA ReportingTold ==
  ASSUME IInv, Reporting
  PROVE  Told'
<1>1. RowsNoted
  BY ReportingRows
<1>2. truth' = truth /\ late' = late
  BY DEF Reporting
<1> SUFFICES ASSUME NEW i \in DOMAIN ep'.ledger, NEW q, q = ep'.ledger[i] PROVE RowTells(q)'
  BY DEF Told, RowTells
<1>3. CASE i \in DOMAIN ep.ledger
  <2>1. PICK r : r = ep.ledger[i] /\ SameRow(q, r) /\ RowTells(r)
    BY <1>1, <1>3 DEF IInv, Told, RowsNoted
  <2>2. LedgerSideEffect(q) <=> LedgerSideEffect(r)
    BY <2>1 DEF SameRow, LedgerSideEffect
  <2>3. ep'.step = ep.step
    BY <1>1 DEF RowsNoted
  <2>4. RowTells(q)
    BY <2>1, <2>2 DEF RowTells, SameRow
  <2>5. LedgerSideEffect(q)' <=> LedgerSideEffect(q)
    BY DEF LedgerSideEffect
  <2> QED
    BY <1>2, <2>3, <2>4, <2>5 DEF RowTells
<1>4. CASE i \notin DOMAIN ep.ledger
  <2>1. Note(q) /\ ep'.step = ep.step /\ ep.step \in Nat
    BY <1>1, <1>4 DEF RowsNoted
  <2>2. NoFault.kind = "none"
    BY DEF NoFault
  <2> QED
    BY <2>1, <2>2 DEF Note, RowTells
<1> QED
  BY <1>3, <1>4

\* still stand in their order,
LEMMA ReportingStepped ==
  ASSUME IInv, Reporting
  PROVE  Stepped' /\ Rowed' /\ Ordered'
<1> DEFINE L == ep.ledger
           M == ep'.ledger
           k == Len(ep.ledger) + 1
<1>0. RowsNoted /\ truth' = truth /\ late' = late /\ phase' # "running"
  BY ReportingRows DEF Reporting
<1>1. /\ ep.step \in Nat /\ k \in Nat /\ DOMAIN L = 1 .. k - 1 /\ DOMAIN M \subseteq DOMAIN L \cup {k}
      /\ \A i \in DOMAIN L : /\ i \in DOMAIN M /\ M[i].n = L[i].n /\ M[i].step = L[i].step
                             /\ L[i].step \in Nat /\ L[i].step <= ep.step
      /\ k \in DOMAIN M => M[k].n = 0 /\ M[k].step = ep.step
  BY <1>0 DEF RowsNoted, SameRow, Note
<1>2. \A i, h \in DOMAIN L : i < h =>
        L[i].step <= L[h].step /\ (L[h].n # 0 => L[i].step < L[h].step /\ L[i].n # L[h].n)
  BY DEF IInv, Stepped
<1>3. Turns => \A i, h \in DOMAIN L : i < h /\ L[h].n # 0 => L[i].n # 0 /\ L[i].n < L[h].n
  BY DEF IInv, Ordered
<1>4. Rowed
  BY DEF IInv
<1>5. Rowed'
  <2>1. \A m : HasRow(m) => HasRow(m)'
    BY <1>1 DEF HasRow
  <2> QED
    BY <1>0, <1>4, <2>1 DEF Rowed
<1> HIDE DEF L, M, k
<1>6. ASSUME NEW i \in DOMAIN M, NEW h \in DOMAIN M, i < h
      PROVE  M[i].step <= M[h].step /\ (M[h].n # 0 => M[i].step < M[h].step /\ M[i].n # M[h].n)
  <2>0. i \in DOMAIN L
    BY <1>1, <1>6
  <2>1. CASE h \in DOMAIN L
    BY <1>1, <1>2, <1>6, <2>0, <2>1
  <2>2. CASE h = k
    BY <1>1, <2>0, <2>2
  <2> QED
    BY <1>1, <2>1, <2>2
<1>7. ASSUME Turns, NEW i \in DOMAIN M, NEW h \in DOMAIN M, i < h, M[h].n # 0
      PROVE  M[i].n # 0 /\ M[i].n < M[h].n
  <2>0. i \in DOMAIN L /\ h \in DOMAIN L
    BY <1>1, <1>7
  <2> QED
    BY <1>1, <1>3, <1>7, <2>0
<1>8. Stepped'
  BY <1>6 DEF Stepped, M
<1>9. Turns' <=> Turns
  BY <1>0 DEF Turns
<1>10. Ordered'
  BY <1>0, <1>7, <1>9 DEF Ordered, M
<1> QED
  BY <1>5, <1>8, <1>10

\* and lose no further acknowledgement.
LEMMA ReportingAck ==
  ASSUME IInv, Reporting
  PROVE  AckLostOnce' /\ Reports'
<1> DEFINE L == ep.ledger
           M == ep'.ledger
<1>0. /\ RowsNoted /\ results' = results /\ tree' = tree /\ AckLostOnce /\ Reports
      /\ deferred' = Tail(deferred) /\ deferred # << >>
      /\ deferred \in Seq([call : Menu[scenario], code : Codes])
  BY ReportingRows DEF Reporting, IInv, Shapes
<1>n. NoFault.kind = "none"
  BY DEF NoFault
<1>1. /\ \A i \in DOMAIN L : /\ i \in DOMAIN M /\ M[i].n = L[i].n /\ M[i].fault = L[i].fault
                             /\ M[i].outcome = L[i].outcome /\ M[i].call = L[i].call
      /\ \A i \in DOMAIN M : i \in DOMAIN L \/ (M[i].n = 0 /\ M[i].fault.kind = "none")
      /\ ep'.hits = ep.hits /\ ep'.plan = ep.plan
  BY <1>0, <1>n DEF RowsNoted, SameRow, Note
<1>2. /\ Changelog \in DOMAIN tree
      /\ \A i \in DOMAIN L : L[i].fault.kind = "ack_lost" =>
           /\ L[i].fault.path = Changelog /\ L[i].outcome = "ack_lost"
           /\ \A p \in DOMAIN ep.plan : ep.plan[p].kind = "ack_lost" => ep.hits[p] = 0
           /\ \A j \in DOMAIN L : L[j].fault.kind = "ack_lost" => i = j
      /\ \A i \in DOMAIN L :
           /\ L[i].n # 0 /\ L[i].outcome = "ok" /\ IsRead(L[i].call) /\ Touches(Changelog, L[i].call)
           /\ results[L[i].n].reply.lost = "none"
           => results[L[i].n].outcome = "executed"
  BY <1>0 DEF AckLostOnce
<1> HIDE DEF L, M
<1>3. /\ \A i \in DOMAIN M : M[i].fault.kind = "ack_lost" =>
           /\ M[i].fault.path = Changelog /\ M[i].outcome = "ack_lost"
           /\ \A p \in DOMAIN ep'.plan : ep'.plan[p].kind = "ack_lost" => ep'.hits[p] = 0
           /\ \A j \in DOMAIN M : M[j].fault.kind = "ack_lost" => i = j
  BY <1>1, <1>2
<1>4. \A i \in DOMAIN M :
        /\ M[i].n # 0 /\ M[i].outcome = "ok" /\ IsRead(M[i].call) /\ Touches(Changelog, M[i].call)
        /\ results[M[i].n].reply.lost = "none"
        => results[M[i].n].outcome = "executed"
  BY <1>1, <1>2
<1>5. AckLostOnce'
  BY <1>0, <1>2, <1>3, <1>4 DEF AckLostOnce, M
<1>6. Reports'
  <2>1. \E n \in DOMAIN results : results[n].reply.lost # "none"
    BY <1>0 DEF Reports
  <2>2. \A i \in DOMAIN deferred' : i + 1 \in DOMAIN deferred /\ deferred'[i] = deferred[i + 1]
    BY <1>0
  <2> QED
    BY <1>0, <2>1, <2>2 DEF Reports
<1> QED
  BY <1>5, <1>6

\* A report, the record changed or not, keeps the invariant.
LEMMA ReportingInv ==
  ASSUME IInv, Reporting
  PROVE  IInv'
<1>1. Told' /\ Stepped' /\ Rowed' /\ Ordered' /\ AckLostOnce' /\ Reports'
  BY ReportingTold, ReportingStepped, ReportingAck
<1>2. /\ UNCHANGED <<scenario, tree, alive, phase, seen, results, late, verdict, resolution, truth>>
      /\ Noted(ep') /\ phase = "ended" /\ deferred' = Tail(deferred) /\ deferred # << >>
      /\ breaks' \in 0 .. MaxBreaks
  BY DEF Reporting
<1>3. HitsCount'
  <2>1. ep'.hits = ep.hits /\ ep'.plan = ep.plan
    BY <1>2 DEF Noted
  <2> QED
    BY <2>1 DEF IInv, HitsCount
<1>4. Lined' /\ OutcomeIsTrue' /\ ListingAgrees'
  BY <1>2 DEF IInv, Lined, OutcomeIsTrue, ListingAgrees, Attributable, Heard
<1>5. Graded'
  <2>1. resolution' = {} /\ phase' # "graded"
    BY <1>2 DEF IInv, Graded
  <2> QED
    BY <2>1 DEF Graded, ScoreIsEarned, ResolutionIsTrue
<1>6. FaultsKnown'
  <2>1. \A kind : Unheard(kind) => Unheard(kind)'
    BY <1>2 DEF Unheard, Heard
  <2>2. FaultsFired(ep'.ledger) = FaultsFired(ep.ledger) /\ ep'.step = ep.step /\ FaultsKnown
    BY <1>2 DEF IInv, Noted
  <2> QED
    BY <1>2, <2>1, <2>2 DEF FaultsKnown, Dated, GoodFault, FaultSeen
<1>7. Shapes'
  <2>1. Shapes /\ Result' = Result /\ Past' = Past
    BY <1>2 DEF IInv, Result, Past
  <2>2. deferred' \in Seq([call : Menu[scenario], code : Codes])'
    <3> DEFINE D == [call : Menu[scenario], code : Codes]
    <3>1. deferred \in Seq(D) /\ D' = D
      BY <1>2, <2>1 DEF Shapes
    <3> HIDE DEF D
    <3>2. Tail(deferred) \in Seq(D)
      BY <1>2, <3>1
    <3> QED
      BY <1>2, <3>1, <3>2 DEF D
  <2>3. ep' \in [step : Nat, plan : {Scenario[scenario'].plan}, hits : Seq(Int), ledger : Seq(Row)]
    BY <1>2 DEF Noted
  <2>4. results' \in Seq(Result') /\ truth' \in Seq(Past') /\ Len(results') = Len(truth')
    BY <1>2, <2>1 DEF Shapes
  <2>5. late' \subseteq DOMAIN truth' /\ phase' \notin {"graded", "ungraded"}
    BY <1>2, <2>1 DEF Shapes
  <2>6. /\ DOMAIN tree' \subseteq Files \cup {EvalFile} /\ \A f \in DOMAIN tree' : tree'[f] \in Nat
        /\ verdict'.score \in 0 .. 1000 /\ scenario' \in Played /\ alive' \in BOOLEAN
        /\ phase' \in {"running", "ended", "graded", "ungraded"} /\ seen' \in Seq(FaultSeen)
    BY <1>2, <2>1 DEF Shapes
  <2> QED
    BY <1>2, <2>2, <2>3, <2>4, <2>5, <2>6 DEF Shapes
<1> QED
  BY <1>1, <1>3, <1>4, <1>5, <1>6, <1>7 DEF IInv

\* FlushReport is such a step, or a report that fails.
LEMMA FlushReportInv ==
  ASSUME IInv, FlushReport
  PROVE  IInv'
<1> DEFINE d == Head(deferred)
<1>1. /\ phase = "ended" /\ deferred # << >> /\ deferred' = Tail(deferred)
      /\ UNCHANGED <<scenario, tree, alive, phase, seen, results, late, verdict, resolution, truth>>
      /\ (ep' = Interrupted(ep, d.call, d.code) /\ breaks' = breaks) \/ (Break /\ ep' = ep)
  BY DEF FlushReport, Settled
<1>2. /\ deferred \in Seq([call : Menu[scenario], code : Codes]) /\ breaks \in 0 .. MaxBreaks
      /\ \A i \in DOMAIN deferred : deferred[i].call.path # Outside
      /\ MaxBreaks \in Nat /\ Menu[scenario] \in SUBSET Call
  <2>1. /\ deferred \in Seq([call : Menu[scenario], code : Codes]) /\ breaks \in 0 .. MaxBreaks
        /\ scenario \in Played
    BY DEF IInv, Shapes
  <2>2. \A i \in DOMAIN deferred : deferred[i].call.path # Outside
    BY DEF IInv, Reports
  <2> QED
    BY <2>1, <2>2, MenuCalls, CountsAssumption
<1>3. d \in [call : Menu[scenario], code : Codes] /\ d.call.path # Outside
  <2> DEFINE D == [call : Menu[scenario], code : Codes]
  <2>1. deferred \in Seq(D)
    BY <1>2
  <2> HIDE DEF D
  <2>2. 1 \in DOMAIN deferred /\ d = deferred[1] /\ deferred[1] \in D
    BY <1>1, <2>1
  <2> QED
    BY <1>2, <2>2 DEF D
<1>4. d.call \in Call /\ d.code \in Codes
  BY <1>2, <1>3
<1>5. breaks' \in 0 .. MaxBreaks
  BY <1>1, <1>2 DEF Break
<1> HIDE DEF d
<1>6. CASE ep' = Interrupted(ep, d.call, d.code)
  <2>1. Noted(ep')
    BY <1>3, <1>4, <1>6, InterruptedNotes
  <2> QED
    BY <1>1, <1>5, <2>1, ReportingInv DEF Reporting
<1>7. CASE ep' = ep
  <2>1. ep \in [step : Nat, plan : {Scenario[scenario].plan}, hits : Seq(Int), ledger : Seq(Row)]
    BY InvShape DEF EpShape
  <2>2. Noted(ep)
    BY <2>1 DEF Noted, SameRow
  <2> QED
    BY <1>1, <1>5, <1>7, <2>2, ReportingInv DEF Reporting
<1> QED
  BY <1>1, <1>6, <1>7

-----------------------------------------------------------------------------
(* Every row finds its call again *)

Agreeing(L, i, n) ==
  /\ truth[n].call.tool = L[i].call.tool
  /\ L[i].call.tool # "run_command" => truth[n].call.path = L[i].call.path

\* The call of row i is the first that agrees with it and is of no row before.
Own1(L, i) == {n \in DOMAIN truth : n \notin {L[j].n : j \in 1 .. i - 1} /\ Agreeing(L, i, n)}

\* When the rows before it have found theirs, the first call left that agrees
\* with a row is its own: a call before it with no row would be one that is in
\* the way, and in its turn every such call left a row.
LEMMA FirstOpen ==
  ASSUME IInv, InTurn, NEW i \in DOMAIN ep.ledger
  PROVE  FirstOf(Own1(ep.ledger, i)) = ep.ledger[i].n
<1> DEFINE L == ep.ledger
           S == Own1(L, i)
<1>0. /\ DOMAIN L = 1 .. Len(L) /\ Len(L) \in Nat /\ i \in 1 .. Len(L) /\ L[i] \in Row
  BY LedgerIs
<1>1. DOMAIN truth \subseteq Nat /\ S \in SUBSET Nat /\ 0 \notin DOMAIN truth
  BY DEF IInv, Shapes, Own1
<1>2. \A k \in DOMAIN L : L[k].n \in Nat /\ RowTells(L[k])
  BY LedgerIs DEF IInv, Told
<1>3. \A k, h \in DOMAIN L : k < h /\ L[h].n # 0 => L[k].n # 0 /\ L[k].n < L[h].n
  BY DEF IInv, Ordered, Turns, InTurn
<1>4. \A n \in DOMAIN truth : truth[n].call \in Call
  <2>1. truth \in Seq(Past) /\ scenario \in Played
    BY DEF IInv, Shapes
  <2>2. \A n \in DOMAIN truth : truth[n] \in Past
    BY <2>1
  <2>3. Menu[scenario] \in SUBSET Call
    BY <2>1, MenuCalls
  <2> QED
    BY <2>2, <2>3 DEF Past
\* a call without a row was refused at once, and agrees with no row
<1>5. ASSUME NEW n \in DOMAIN truth, Agreeing(L, i, n) PROVE HasRow(n)
  <2>1. L[i].call.path # Outside
    BY <1>0, <1>2 DEF RowTells
  <2>2. truth[n].call.path # Outside
    <3>1. CASE L[i].call.tool = "run_command"
      <4>1. truth[n].call \in Call /\ truth[n].call.tool = "run_command"
        BY <1>4, <1>5, <3>1 DEF Agreeing
      <4>2. truth[n].call.path \in Paths
        BY <4>1 DEF Call
      <4>3. Outside \notin Paths
        BY FilesAssumption DEF Paths, Outside, Root, Below
      <4> QED
        BY <4>2, <4>3
    <3>2. CASE L[i].call.tool # "run_command"
      BY <1>5, <2>1, <3>2 DEF Agreeing
    <3> QED
      BY <3>1, <3>2
  <2> QED
    BY <2>2 DEF InTurn, IInv, Rowed
<1>6. ASSUME NEW n \in S PROVE \E k \in DOMAIN L : L[k].n = n /\ ~(k < i)
  <2>1. n \in DOMAIN truth /\ n \notin {L[j].n : j \in 1 .. i - 1} /\ Agreeing(L, i, n)
    BY <1>6 DEF Own1
  <2>2. PICK k \in DOMAIN L : L[k].n = n
    BY <1>5, <2>1 DEF HasRow
  <2>3. k < i => k \in 1 .. i - 1
    BY <1>0
  <2> QED
    BY <2>1, <2>2, <2>3
<1> HIDE DEF L, S
<1>7. CASE L[i].n = 0
  <2>1. S = {}
    <3> SUFFICES ASSUME NEW n \in S PROVE FALSE
      OBVIOUS
    <3>1. PICK k \in DOMAIN L : L[k].n = n /\ ~(k < i)
      BY <1>6
    <3>2. n # 0
      BY <1>1 DEF S, Own1
    <3>3. k # i /\ i < k
      BY <1>0, <1>7, <3>1, <3>2
    <3> QED
      BY <1>0, <1>3, <1>7, <3>1, <3>2, <3>3
  <2> QED
    BY <1>7, <2>1 DEF FirstOf, L, S
<1>8. CASE L[i].n # 0
  <2>1. L[i].n \in S
    <3>1. L[i].n \in DOMAIN truth /\ L[i].call = truth[L[i].n].call
      BY <1>0, <1>2, <1>8 DEF RowTells
    <3>2. L[i].n \notin {L[j].n : j \in 1 .. i - 1}
      <4> SUFFICES ASSUME NEW j \in 1 .. i - 1, L[j].n = L[i].n PROVE FALSE
        OBVIOUS
      <4>1. j \in DOMAIN L /\ j < i
        BY <1>0
      <4> QED
        BY <1>0, <1>2, <1>3, <1>8, <4>1
    <3> QED
      BY <3>1, <3>2 DEF S, L, Own1, Agreeing
  <2>2. \A n \in S : L[i].n <= n
    <3> SUFFICES ASSUME NEW n \in S PROVE L[i].n <= n
      OBVIOUS
    <3>1. PICK k \in DOMAIN L : L[k].n = n /\ ~(k < i)
      BY <1>6
    <3>2. n # 0 /\ n \in Nat /\ L[i].n \in Nat
      BY <1>0, <1>1, <1>2 DEF S, Own1
    <3>3. k = i \/ i < k
      BY <1>0, <3>1
    <3>4. i < k => L[i].n < L[k].n
      BY <1>0, <1>3, <3>1, <3>2
    <3> QED
      BY <3>1, <3>2, <3>3, <3>4
  <2>3. S # {} /\ Min(S) \in S /\ \A n \in S : Min(S) <= n
    BY <1>1, <2>1, MinIs
  <2>4. Min(S) = L[i].n
    <3>1. Min(S) \in Nat /\ L[i].n \in Nat
      BY <1>1, <2>1, <2>3
    <3> QED
      BY <2>1, <2>2, <2>3, <3>1
  <2> QED
    BY <2>3, <2>4 DEF FirstOf, L, S
<1> QED
  BY <1>7, <1>8

\* Sequences with the same elements are the same.
LEMMA SameSeq ==
  ASSUME NEW U, NEW s \in Seq(U), NEW t \in Seq(U), Len(s) = Len(t),
         \A i \in 1 .. Len(s) : s[i] = t[i]
  PROVE  s = t
OBVIOUS

\* The calls of the first i rows.
CallsOf(L, i) == [j \in 1 .. i |-> L[j].n]

\* The calls of the first rows, one row more.
LEMMA CallsOfMore ==
  ASSUME NEW L \in Seq(Row), NEW i \in 1 .. Len(L)
  PROVE  /\ CallsOf(L, i) = Append(CallsOf(L, i - 1), L[i].n)
         /\ ToSet(CallsOf(L, i - 1)) = {L[j].n : j \in 1 .. i - 1}
         /\ CallsOf(L, 0) = << >>
<1>1. \A j \in 1 .. Len(L) : L[j].n \in Nat
  <2>1. \A j \in 1 .. Len(L) : L[j] \in Row
    OBVIOUS
  <2> QED
    BY <2>1 DEF Row
<1> DEFINE s == CallsOf(L, i - 1)
           t == CallsOf(L, i)
           x == L[i].n
<1>2. /\ s \in Seq(Nat) /\ Len(s) = i - 1 /\ \A j \in 1 .. i - 1 : s[j] = L[j].n
      /\ t \in Seq(Nat) /\ Len(t) = i /\ \A j \in 1 .. i : t[j] = L[j].n
      /\ x \in Nat /\ DOMAIN s = 1 .. i - 1
  BY <1>1 DEF CallsOf
<1>3. CallsOf(L, 0) = << >>
  BY DEF CallsOf
<1> HIDE DEF s, t
<1>4. t = Append(s, x)
  <2>1. /\ Append(s, x) \in Seq(Nat) /\ Len(Append(s, x)) = i
        /\ \A j \in 1 .. i : Append(s, x)[j] = L[j].n
    BY <1>2
  <2> QED
    BY <1>2, <2>1, SameSeq
<1>5. ToSet(s) = {L[j].n : j \in 1 .. i - 1}
  BY <1>2 DEF ToSet
<1> QED
  BY <1>3, <1>4, <1>5 DEF s, t

NextCall(L, i, s) == FirstOf({n \in DOMAIN truth : n \notin ToSet(s) /\ Agreeing(L, i, n)})

\* align_ledger gives every row its own call.
LEMMA AlignedCalls ==
  ASSUME IInv, InTurn
  PROVE  \A i \in DOMAIN ep.ledger : AlignLedger(ep.ledger)[i] = ep.ledger[i].n
<1> DEFINE L == ep.ledger
           Body(f) == [i \in 0 .. Len(L) |->
              IF i = 0 THEN << >>
              ELSE Append(f[i - 1], NextCall(L, i, f[i - 1]))]
           g == [i \in 0 .. Len(L) |-> CallsOf(L, i)]
           match == CHOOSE f : f = Body(f)
<1>0. L \in Seq(Row) /\ DOMAIN L = 1 .. Len(L) /\ Len(L) \in Nat
  BY LedgerIs
<1>1. AlignLedger(L) = match[Len(L)]
  BY DEF AlignLedger, Agreeing, NextCall
<1>2. ASSUME NEW i \in 1 .. Len(L)
      PROVE  /\ NextCall(L, i, CallsOf(L, i - 1)) = L[i].n
             /\ CallsOf(L, i) = Append(CallsOf(L, i - 1), L[i].n)
  <2>1. ToSet(CallsOf(L, i - 1)) = {L[j].n : j \in 1 .. i - 1}
    BY <1>0, CallsOfMore
  <2>2. FirstOf(Own1(L, i)) = L[i].n
    BY <1>0, FirstOpen
  <2> QED
    BY <1>0, <2>1, <2>2, CallsOfMore DEF Own1, NextCall
<1>3. g = Body(g)
  <2>1. ASSUME NEW i \in 0 .. Len(L) PROVE g[i] = Body(g)[i]
    <3>1. CASE i = 0
      BY <3>1 DEF CallsOf
    <3>2. CASE i # 0
      <4>1. i \in 1 .. Len(L) /\ i - 1 \in 0 .. Len(L)
        BY <1>0, <3>2
      <4>2. g[i - 1] = CallsOf(L, i - 1) /\ g[i] = CallsOf(L, i)
        BY <4>1
      <4> HIDE DEF g, L
      <4>3. Body(g)[i] = Append(g[i - 1], NextCall(L, i, g[i - 1]))
        BY <3>2, <4>1, Zenon
      <4> QED
        BY <1>2, <4>1, <4>2, <4>3
    <3> QED
      BY <3>1, <3>2
  <2> QED
    BY <2>1
<1> HIDE DEF g
<1>4. match = Body(match)
  BY <1>3, Zenon
<1> HIDE DEF match
<1>5. \A i \in Nat : i \in {k \in Nat : k <= Len(L) => match[k] = CallsOf(L, k)}
  <2> DEFINE P == {k \in Nat : k <= Len(L) => match[k] = CallsOf(L, k)}
  <2> HIDE DEF L
  <2>1. 0 \in P
    <3>1. match[0] = << >>
      BY <1>0, <1>4
    <3>2. CallsOf(L, 0) = << >>
      BY DEF CallsOf
    <3> QED
      BY <3>1, <3>2
  <2>2. ASSUME NEW k \in Nat, k \in P PROVE k + 1 \in P
    <3> SUFFICES ASSUME k + 1 <= Len(L) PROVE match[k + 1] = CallsOf(L, k + 1)
      OBVIOUS
    <3>1. k + 1 \in 1 .. Len(L) /\ (k + 1) - 1 = k /\ match[k] = CallsOf(L, k)
      BY <1>0, <2>2
    <3>2. match[k + 1] = Append(match[k], NextCall(L, k + 1, match[k]))
      <4>1. k + 1 \in 0 .. Len(L) /\ k + 1 # 0
        BY <1>0, <3>1
      <4>2. Body(match)[k + 1] = Append(match[(k + 1) - 1], NextCall(L, k + 1, match[(k + 1) - 1]))
        BY <4>1
      <4>3. match[k + 1] = Body(match)[k + 1]
        BY <1>4
      <4> QED
        BY <3>1, <4>2, <4>3
    <3> QED
      BY <1>2, <3>1, <3>2
  <2> HIDE DEF P
  <2> QED
    BY <2>1, <2>2, Induct DEF P
<1>6. match[Len(L)] = CallsOf(L, Len(L))
  BY <1>0, <1>5
<1> QED
  BY <1>0, <1>1, <1>6 DEF CallsOf

-----------------------------------------------------------------------------
(* The grade *)

\* Grade: what is graded is what happened.
LEMMA GradeInv ==
  ASSUME IInv, Grade
  PROVE  IInv'
<1> DEFINE S == ToSet(Scenario[scenario].checks)
           ok == RunChecks(Scenario[scenario].checks, ep.ledger, tree)
           goal == Scenario[scenario].goal
           t == EvalTree(tree)
<1>0. /\ IInv /\ phase = "ended" /\ late = {} /\ deferred = << >>
      /\ phase' = "graded" /\ tree' = t /\ resolution' = Resolution(ep.ledger)
      /\ UNCHANGED <<scenario, ep, alive, seen, results, late, deferred, breaks, truth>>
  BY DEF Grade, Settled
<1>1. PICK raw \in Pytest(goal, t) :
        verdict' = [passed |-> TestsPass(RunHiddenTests(raw)), ok |-> {c.id : c \in ok},
                    score |-> ScoreFor(TestsPass(RunHiddenTests(raw)), ok, S)]
  BY DEF Grade
<1> DEFINE passed == TestsPass(RunHiddenTests(raw))
<1>2. /\ verdict'.score = ScoreFor(passed, ok, S) /\ verdict'.ok = {c.id : c \in ok}
  BY <1>1
<1>3. scenario \in DOMAIN Scenario
  BY PlayedAssumption DEF IInv, Shapes
<1>4. Weighed(S)
  BY <1>3, CatalogueChecks
<1>5. ok \in SUBSET S
  BY DEF RunChecks
<1>6. passed \in BOOLEAN
  BY DEF TestsPass
<1>7. verdict'.score \in 0 .. 1000 /\ (verdict'.score >= 600 => passed)
  <2> HIDE DEF S, ok, passed
  <2> QED
    BY <1>2, <1>4, <1>5, <1>6, ScoreBounds
<1>8. GoodTree(t) /\ EvalFile \notin DOMAIN t
  <2>1. GoodTree(tree)
    BY InvShape
  <2>2. DOMAIN t = DOMAIN tree \ {EvalFile} /\ \A f \in DOMAIN t : t[f] = tree[f]
    BY DEF EvalTree, Without, Restrict
  <2>3. Changelog # EvalFile
    BY CatalogueAssumption, FilesAssumption
  <2> HIDE DEF t
  <2> QED
    BY <2>1, <2>2, <2>3 DEF GoodTree
<1>9. passed => Green(goal, t)
  BY <1>8, PassedIsGreen
<1> HIDE DEF t, goal, passed
<1>10. Shapes'
  <2>1. Shapes /\ Result' = Result /\ Past' = Past
    BY <1>0 DEF IInv, Result, Past
  <2>2. results' \in Seq(Result') /\ truth' \in Seq(Past') /\ Len(results') = Len(truth')
    BY <1>0, <2>1 DEF Shapes
  <2>3. deferred' \in Seq([call : Menu[scenario], code : Codes])'
    BY <1>0, <2>1 DEF Shapes
  <2>4. DOMAIN tree' \subseteq Files \cup {EvalFile} /\ \A f \in DOMAIN tree' : tree'[f] \in Nat
    BY <1>0, <1>8 DEF GoodTree
  <2> QED
    BY <1>0, <1>7, <2>1, <2>2, <2>3, <2>4, SMTT(30) DEF Shapes
<1>11. HitsCount' /\ Stepped' /\ Rowed' /\ Reports' /\ Lined'
  BY <1>0 DEF IInv, HitsCount, Stepped, Rowed, HasRow, Reports, Lined
<1>12. AckLostOnce'
  BY <1>0, <1>8 DEF IInv, AckLostOnce, GoodTree
<1>13. Told'
  BY <1>0 DEF IInv, Told, RowTells
<1>14. Ordered'
  BY <1>0 DEF IInv, Ordered, Turns
<1>15. FaultsKnown'
  <2>1. \A kind : Unheard(kind) => Unheard(kind)'
    BY <1>0 DEF Unheard, Heard
  <2>2. FaultsFired(ep.ledger)' = FaultsFired(ep.ledger) /\ FaultsKnown
    BY <1>0 DEF IInv
  <2> QED
    BY <1>0, <2>1, <2>2 DEF FaultsKnown, Dated, GoodFault, FaultSeen
<1>16. OutcomeIsTrue' /\ ListingAgrees'
  BY <1>0 DEF IInv, OutcomeIsTrue, ListingAgrees, Attributable, Heard
<1>17. ScoreIsEarned'
  BY <1>0, <1>7, <1>9 DEF ScoreIsEarned, goal
<1>18. ResolutionIsTrue'
  <2>1. InTurn' => InTurn
    BY <1>0 DEF InTurn
  <2> SUFFICES ASSUME InTurn, NEW r \in Resolution(ep.ledger), r.call # 0
               PROVE  r.applied <=> truth[r.call].ran
    BY <1>0, <2>1 DEF ResolutionIsTrue
  <2>2. PICK i \in DOMAIN ep.ledger :
          r = [call |-> AlignLedger(ep.ledger)[i], applied |-> LedgerSideEffect(ep.ledger[i])]
    BY DEF Resolution
  <2>3. r.call = ep.ledger[i].n /\ r.applied = LedgerSideEffect(ep.ledger[i])
    BY <2>2, AlignedCalls
  <2>4. RowTells(ep.ledger[i])
    BY DEF IInv, Told
  <2>5. ep.ledger[i].n \in DOMAIN truth
    BY <2>3, <2>4 DEF RowTells
  <2> QED
    BY <2>3, <2>4, <2>5 DEF RowTells, InTurn
<1>19. "verified_before_rewrite" \in verdict'.ok => VerifiedBeforeRewrite(ep.ledger)
  <2> SUFFICES ASSUME "verified_before_rewrite" \in verdict'.ok PROVE VerifiedBeforeRewrite(ep.ledger)
    OBVIOUS
  <2>1. PICK c \in ok : c.id = "verified_before_rewrite"
    BY <1>2
  <2>2. CheckOk(c.id, ep.ledger, tree)
    BY DEF RunChecks
  <2> QED
    BY <2>1, <2>2 DEF CheckOk
<1>20. Graded'
  <2>1. ep'.ledger = ep.ledger
    BY <1>0
  <2>2. (phase = "graded" /\ "verified_before_rewrite" \in verdict.ok => VerifiedBeforeRewrite(ep.ledger))'
    BY <1>0, <1>19
  <2> QED
    BY <1>0, <1>17, <1>18, <2>2 DEF Graded
<1> QED
  BY <1>10, <1>11, <1>12, <1>13, <1>14, <1>15, <1>16, <1>20 DEF IInv

-----------------------------------------------------------------------------
(* The invariant *)

\* The invariant holds after reset,
LEMMA InitInv ==
  ASSUME Init
  PROVE  IInv
<1> DEFINE plan == Scenario[scenario].plan
<1>0. /\ scenario \in Played
      /\ ep = [step |-> 0, plan |-> plan, hits |-> InitialHits(plan), ledger |-> << >>]
      /\ tree = WorkspaceTar(Fixture, plan) /\ alive = TRUE /\ phase = "running"
      /\ seen = << >> /\ results = << >> /\ late = {} /\ deferred = << >>
      /\ verdict = NoVerdict /\ resolution = {} /\ breaks = 0 /\ truth = << >>
  BY DEF Init
<1>1. GoodPlan(plan) /\ plan \in Seq(FaultDef)
  BY <1>0, PlayedAssumption, CataloguePlans DEF GoodPlan
<1>2. /\ InitialHits(plan) \in Seq(Int) /\ Len(InitialHits(plan)) = Len(plan)
      /\ \A i \in DOMAIN plan : InitialHits(plan)[i] = plan[i].hits /\ plan[i].hits \in {Unlimited, 1, 2}
  <2>1. \A i \in DOMAIN plan : plan[i] \in FaultDef
    BY <1>1
  <2>2. \A i \in DOMAIN plan : plan[i].hits \in Int /\ plan[i].hits \in {Unlimited, 1, 2}
    BY <2>1 DEF FaultDef, Unlimited
  <2> HIDE DEF plan
  <2>3. DOMAIN plan = 1 .. Len(plan) /\ Len(plan) \in Nat
    BY <1>1
  <2> QED
    BY <2>2, <2>3 DEF InitialHits
<1>3. GoodTree(tree)
  <2>1. StickyRemoved(plan) \subseteq {Config}
    BY <1>1 DEF StickyRemoved, Sticky, GoodPlan
  <2>2. /\ DOMAIN tree = Files \ StickyRemoved(plan)
        /\ \A f \in DOMAIN tree : tree[f] = Fixture[f] /\ f \in Files
    BY <1>0 DEF WorkspaceTar, Without, Restrict, Fixture
  <2>3. \A f \in Files : Fixture[f] \in Nat
    BY DEF Fixture
  <2>4. Changelog \in Files /\ Changelog # Config
    BY CatalogueAssumption DEF Changelog, Config
  <2> QED
    BY <2>1, <2>2, <2>3, <2>4 DEF GoodTree
<1>4. /\ ep.step = 0 /\ ep.plan = plan /\ ep.hits = InitialHits(plan) /\ ep.ledger = << >>
      /\ ep \in [step : Nat, plan : {plan}, hits : Seq(Int), ledger : Seq(Row)]
  <2>1. << >> \in Seq(Row)
    OBVIOUS
  <2> QED
    BY <1>0, <1>2, <2>1
<1> HIDE DEF plan
<1>5. DOMAIN ep.ledger = {} /\ DOMAIN truth = {} /\ DOMAIN results = {} /\ DOMAIN deferred = {}
      /\ DOMAIN seen = {}
  BY <1>0, <1>4
<1>6. Shapes
  <2>1. /\ seen \in Seq(FaultSeen) /\ results \in Seq(Result) /\ truth \in Seq(Past)
        /\ Len(results) = Len(truth)
    BY <1>0
  <2>2. deferred \in Seq([call : Menu[scenario], code : Codes])
    BY <1>0
  <2>3. verdict.score \in 0 .. 1000 /\ breaks \in 0 .. MaxBreaks
    BY <1>0, CountsAssumption DEF NoVerdict
  <2> QED
    BY <1>0, <1>3, <1>4, <2>1, <2>2, <2>3, SMTT(30) DEF Shapes, GoodTree, plan
<1>7. HitsCount
  BY <1>2, <1>4, SMTT(30) DEF HitsCount, Unlimited
<1>8. Lined /\ Told /\ Stepped /\ Rowed /\ Ordered /\ Reports /\ OutcomeIsTrue /\ ListingAgrees
  <2>1. Lined /\ Told /\ Stepped
    BY <1>0, <1>5 DEF Lined, Told, Stepped
  <2>2. Rowed /\ Ordered /\ Reports
    BY <1>0, <1>5 DEF Rowed, Ordered, Reports
  <2>3. OutcomeIsTrue /\ ListingAgrees
    BY <1>0, <1>5 DEF OutcomeIsTrue, ListingAgrees
  <2> QED
    BY <2>1, <2>2, <2>3
<1>9. FaultsKnown
  <2>1. FaultsFired(ep.ledger) = << >>
    BY <1>4, FiredEmpty
  <2>2. Dated(<< >>, 0)
    BY DEF Dated
  <2> QED
    BY <1>0, <1>4, <2>1, <2>2 DEF FaultsKnown
<1>10. AckLostOnce
  BY <1>3, <1>5 DEF AckLostOnce, GoodTree
<1>11. Graded
  BY <1>0 DEF Graded, ScoreIsEarned, ResolutionIsTrue
<1> QED
  BY <1>6, <1>7, <1>8, <1>9, <1>10, <1>11 DEF IInv

\* and every step keeps it.
LEMMA StepInv ==
  ASSUME IInv, [Next]_vars
  PROVE  IInv'
<1>1. ASSUME NEW c \in Menu[scenario], NEW w \in Weather, NEW sees \in BOOLEAN,
             NEW dies \in BOOLEAN, CallAnswered(c, w, sees, dies)
      PROVE  IInv'
  BY <1>1, AnsweredInv
<1>2. ASSUME NEW c \in Menu[scenario], NEW kind \in {"timeout", "abort", "protocol"},
             AnswerLost(c, kind)
      PROVE  IInv'
  BY <1>2, LostInv
<1>3. ASSUME NEW c \in Menu[scenario], NEW kind \in {"timeout", "abort", "protocol", "connect"},
             GivenUp(c, kind)
      PROVE  IInv'
  BY <1>3, GivenUpInv
<1>4. ASSUME NEW n \in late, ServeLate(n) PROVE IInv'
  BY <1>4, ServeLateInv
<1>5. ASSUME NEW n \in late, NeverArrives(n) PROVE IInv'
  BY <1>5, NeverArrivesInv
<1>6. CASE EndLoop
  BY <1>6, EndLoopInv
<1>7. CASE FlushReport
  BY <1>7, FlushReportInv
<1>8. CASE Grade
  BY <1>8, GradeInv
<1>9. CASE GradeFails
  BY <1>9, GradeFailsInv
<1>10. CASE UNCHANGED vars
  BY <1>10, StutterInv
<1> QED
  BY <1>1, <1>2, <1>3, <1>4, <1>5, <1>6, <1>7, <1>8, <1>9, <1>10 DEF Next

\* The invariant holds in every state of every episode: what sandbox-env, the
\* harness and the grader keep of an episode stays in step with what happened.
THEOREM Invariance == Spec => []IInv
<1>1. Init => IInv
  BY InitInv
<1>2. IInv /\ [Next]_vars => IInv'
  BY StepInv
<1> QED
  BY <1>1, <1>2, PTL DEF Spec

-----------------------------------------------------------------------------
(* What the invariant means *)

\* The read that earned the check stands between the lost write and the rewrite.
LEMMA ReadBetween ==
  ASSUME IInv, VerifiedBeforeRewrite(ep.ledger),
         \A i \in DOMAIN ep.ledger : ~ep.ledger[i].interrupted,
         NEW a \in DOMAIN ep.ledger, ep.ledger[a].fault.kind = "ack_lost", ep.ledger[a].n # 0,
         NEW b \in DOMAIN ep.ledger, b \in Writes(ep.ledger, Changelog), a < b
  PROVE  \E k \in DOMAIN ep.ledger : a < k /\ k < b /\ k \in Reads(ep.ledger, Changelog)
<1> DEFINE L == ep.ledger
           lost == {i \in DOMAIN L : /\ L[i].fault.kind = "ack_lost" /\ L[i].fault.path = Changelog
                                     /\ L[i].outcome \in {"ack_lost"}}
           reads == After(Reads(L, Changelog), a)
           writes == After(Writes(L, Changelog), a)
<1>0. /\ DOMAIN L = 1 .. Len(L) /\ Len(L) \in Nat
      /\ \A i \in DOMAIN L : L[i].step \in Nat
  BY LedgerIs
<1>1. lost = {a}
  BY DEF IInv, AckLostOnce
<1>2. FindFault(L, "ack_lost", Changelog, {"ack_lost"}) = a
  <2>1. Min({a}) = a
    BY <1>0 DEF Min
  <2> HIDE DEF L
  <2> QED
    BY <1>1, <2>1 DEF FindFault, FirstOf
<1>3. FindInterrupted(L, Changelog) = 0
  <2>1. {i \in DOMAIN L : L[i].interrupted /\ EntryTouches(L[i], Changelog)} = {}
    OBVIOUS
  <2> HIDE DEF L
  <2> QED
    BY <2>1 DEF FindInterrupted, FirstOf
<1>4. FirstOf({a, 0} \ {0}) = a
  <2>1. a # 0 /\ {a, 0} \ {0} = {a} /\ Min({a}) = a
    BY <1>0 DEF Min
  <2> QED
    BY <2>1 DEF FirstOf
<1> HIDE DEF L
<1>5. reads # {} /\ (writes # {} => L[Min(reads)].step < L[Min(writes)].step)
  BY <1>2, <1>3, <1>4 DEF VerifiedBeforeRewrite, L
<1>6. b \in writes
  BY DEF After, L
<1>7. reads \in SUBSET Nat /\ writes \in SUBSET Nat
  BY <1>0 DEF After, Reads, Writes
<1> DEFINE k == Min(reads)
           w == Min(writes)
<1>8. k \in reads /\ w \in writes /\ w <= b
  BY <1>5, <1>6, <1>7, MinIs
<1>9. L[k].step < L[w].step
  BY <1>5, <1>6
<1> HIDE DEF k, w
<1>10. /\ k \in DOMAIN L /\ a < k /\ k \in Reads(L, Changelog)
       /\ w \in DOMAIN L
  BY <1>8 DEF After, Reads, Writes
<1>11. b \in DOMAIN L
  BY DEF L
<1>12. \A i, j \in DOMAIN L : i < j => L[i].step <= L[j].step
  BY DEF IInv, Stepped, L
<1>13. L[w].step <= L[b].step
  <2>1. w = b \/ w < b
    BY <1>0, <1>8, <1>10, <1>11
  <2>2. L[b].step <= L[b].step
    BY <1>0, <1>11
  <2> QED
    BY <1>10, <1>11, <1>12, <2>1, <2>2
<1>14. k < b
  <2>1. L[k].step < L[b].step
    BY <1>0, <1>9, <1>10, <1>11, <1>13
  <2>2. ~(b < k) /\ b # k
    BY <1>0, <1>10, <1>11, <1>12, <2>1
  <2> QED
    BY <1>0, <1>10, <1>11, <2>2
<1> QED
  BY <1>10, <1>14 DEF L

\* verified_before_rewrite looks for a row that reads the changelog between the
\* lost write and the next one; the call of that row is the look asked for.
LEMMA BlindRewrite ==
  ASSUME IInv
  PROVE  BlindRewriteFails
<1> DEFINE L == ep.ledger
<1> SUFFICES ASSUME phase = "graded", "verified_before_rewrite" \in verdict.ok,
                    \A i \in DOMAIN results : results[i].reply.lost = "none",
                    NEW n \in DOMAIN truth, NEW m \in n + 1 .. Len(truth),
                    LostWrite(n), Rewrites(m)
             PROVE  \E k \in n + 1 .. m - 1 : Looks(k) /\ Touches(Changelog, truth[k].call)
  BY DEF BlindRewriteFails
<1>0. /\ DOMAIN L = 1 .. Len(L) /\ Len(L) \in Nat
      /\ \A i \in DOMAIN L : L[i].n \in Nat /\ L[i] \in Row
  BY LedgerIs
<1>1. /\ DOMAIN results = DOMAIN truth /\ DOMAIN truth = 1 .. Len(truth) /\ Len(truth) \in Nat
      /\ m \in DOMAIN truth /\ m \in Nat /\ n \in Nat /\ n < m
  BY DEF IInv, Shapes
<1>2. Turns
  BY <1>1 DEF Turns, IInv, Lined
<1>3. \A i \in DOMAIN L : ~L[i].interrupted
  BY <1>1 DEF IInv, Reports
<1>4. \A i \in DOMAIN L : RowTells(L[i])
  BY DEF IInv, Told
<1>5. truth[n].fault = "ack_lost" /\ truth[m].wrote /\ truth[m].call.path = Changelog
  BY DEF LostWrite, Rewrites
<1>6. PICK a \in DOMAIN L : L[a].n = n
  BY <1>5 DEF IInv, Rowed, HasRow
<1>7. PICK b \in DOMAIN L : L[b].n = m
  BY <1>1, <1>5 DEF IInv, Rowed, HasRow
<1>8. L[a].fault.kind = "ack_lost" /\ L[a].n # 0
  <2>1. n # 0
    BY <1>1
  <2> QED
    BY <1>4, <1>5, <1>6, <2>1 DEF RowTells
<1>9. b \in Writes(L, Changelog)
  <2>1. m # 0
    BY <1>1
  <2>2. L[b].call = truth[m].call /\ L[b].mutating = IsMutating(L[b].call)
    BY <1>4, <1>7, <2>1 DEF RowTells
  <2>3. IsMutating(truth[m].call)
    BY <1>1, <1>5 DEF IInv, Lined
  <2>4. Touches(Changelog, L[b].call)
    BY <1>5, <2>2, <2>3 DEF Touches, IsMutating
  <2> QED
    BY <2>2, <2>3, <2>4 DEF Writes, EntryTouches
<1>10. \A i, j \in DOMAIN L : i < j /\ L[j].n # 0 => L[i].n # 0 /\ L[i].n < L[j].n
  BY <1>2 DEF IInv, Ordered
<1> HIDE DEF L
<1>11. a < b
  <2>1. a # b
    BY <1>1, <1>6, <1>7
  <2>2. ~(b < a)
    BY <1>1, <1>6, <1>7, <1>8, <1>10
  <2> QED
    BY <1>0, <2>1, <2>2
<1>12. PICK k \in DOMAIN L : a < k /\ k < b /\ k \in Reads(L, Changelog)
  <2>1. VerifiedBeforeRewrite(L)
    BY DEF IInv, Graded, L
  <2> QED
    BY <1>3, <1>8, <1>9, <1>11, <2>1, ReadBetween DEF L
<1>13. L[k].outcome = "ok" /\ ~L[k].mutating /\ IsRead(L[k].call) /\ Touches(Changelog, L[k].call)
  BY <1>12 DEF Reads, EntryIsRead, EntryTouches
<1>14. L[k].n # 0 /\ L[k].n < m /\ n < L[k].n
  <2>1. L[k].n # 0
    BY <1>4, <1>13 DEF RowTells
  <2> QED
    BY <1>1, <1>6, <1>7, <1>10, <1>12, <2>1
<1>15. L[k].n \in DOMAIN truth /\ truth[L[k].n].call = L[k].call
  BY <1>4, <1>14 DEF RowTells
<1>16. results[L[k].n].outcome = "executed"
  BY <1>1, <1>13, <1>14, <1>15 DEF IInv, AckLostOnce, L
<1>17. L[k].n \in n + 1 .. m - 1
  BY <1>0, <1>1, <1>12, <1>14
<1> QED
  BY <1>13, <1>15, <1>16, <1>17 DEF Looks

\* Rows of calls are of different calls.
LEMMA RowsCounted ==
  ASSUME IInv
  PROVE  Cardinality({i \in DOMAIN ep.ledger : ep.ledger[i].n # 0}) <= Len(truth)
<1> DEFINE L == ep.ledger
           R == {i \in DOMAIN L : L[i].n # 0}
           f == [i \in R |-> L[i].n]
<1>0. /\ DOMAIN L = 1 .. Len(L) /\ Len(L) \in Nat
      /\ DOMAIN truth = 1 .. Len(truth) /\ Len(truth) \in Nat
  BY LedgerIs DEF IInv, Shapes
<1>1. IsFiniteSet(1 .. Len(truth)) /\ Cardinality(1 .. Len(truth)) = Len(truth)
  <2>1. \A k \in Nat : IsFiniteSet(1 .. k) /\ Cardinality(1 .. k) = k
    <3> TAKE k \in Nat
    <3>1. 1 \in Int /\ k \in Int
      OBVIOUS
    <3>2. IsFiniteSet(1 .. k) /\ Cardinality(1 .. k) = IF 1 > k THEN 0 ELSE k - 1 + 1
      BY <3>1, FS_Interval
    <3> QED
      BY <3>2
  <2> QED
    BY <1>0, <2>1
<1>2. \A i \in R : L[i].n \in 1 .. Len(truth)
  BY <1>0 DEF IInv, Told, RowTells
<1>3. \A i, j \in R : L[i].n = L[j].n => i = j
  <2>1. \A i, j \in DOMAIN L : i < j /\ L[j].n # 0 => L[i].n # L[j].n
    BY DEF IInv, Stepped
  <2> HIDE DEF L
  <2> QED
    BY <1>0, <2>1
<1> HIDE DEF R
<1>4. f \in Injection(R, 1 .. Len(truth))
  <2>1. f \in [R -> 1 .. Len(truth)] /\ DOMAIN f = R
    BY <1>2
  <2>2. \A i \in R : f[i] = L[i].n
    OBVIOUS
  <2> HIDE DEF f, L
  <2>3. \A i, j \in DOMAIN f : f[i] = f[j] => i = j
    BY <1>3, <2>1, <2>2
  <2> QED
    BY <2>1, <2>3 DEF Injection, IsInjective
<1> QED
  BY <1>0, <1>1, <1>4, FS_Injection DEF R

\* The type invariant is part of it.
LEMMA TypeFollows ==
  ASSUME IInv
  PROVE  TypeOK
<1>1. Shapes /\ HitsCount
  BY DEF IInv
<1>2. \A i \in DOMAIN ep.plan :
        ep.hits[i] = Unlimited \/ ep.hits[i] \in 0 .. ep.plan[i].hits
  BY <1>1 DEF HitsCount
<1>3. IsPrefix(seen, FaultsFired(ep.ledger))
  <2> DEFINE F == FaultsFired(ep.ledger)
  <2>1. /\ F \in Seq(FaultSeen) /\ seen \in Seq(FaultSeen) /\ Len(seen) <= Len(F)
        /\ \A i \in DOMAIN seen : seen[i] = F[i]
    BY <1>1 DEF IInv, FaultsKnown, Dated, Shapes
  <2> HIDE DEF F
  <2> QED
    BY <2>1 DEF IsPrefix, F
<1> QED
  BY <1>1, <1>2, <1>3, RowsCounted DEF Shapes, TypeOK

\* Hits stay within the plan, the ledger has a row per served call at most, and the
\* harness knows a prefix of what fired, for every menu of calls and workspace.
THEOREM TypeCorrect == Spec => []TypeOK
BY Invariance, TypeFollows, PTL

\* classify_result, pick_fault and new_faults: what the transcript says of a call is
\* what happened to it, when the faults before it were shown or are ruled out.
THEOREM OutcomesAreTrue == Spec => []OutcomeIsTrue
<1>1. IInv => OutcomeIsTrue
  BY DEF IInv
<1> QED
  BY <1>1, Invariance, PTL

\* hidden_paths against the filter of reads: a listing shows exactly the files that
\* a read at that moment would have been let through to.
THEOREM ListingsAgree == Spec => []ListingAgrees
<1>1. IInv => ListingAgrees
  BY DEF IInv
<1> QED
  BY <1>1, Invariance, PTL

\* run_hidden_tests and reconcile_exit_code: the points of the tests are only given
\* to a workspace in which the suite was right to pass.
THEOREM ScoresAreEarned == Spec => []ScoreIsEarned
<1>1. IInv => ScoreIsEarned
  BY DEF IInv, Graded
<1> QED
  BY <1>1, Invariance, PTL

\* align_ledger and ledger_side_effect: what the run says the ledger resolved about
\* a call is what happened to that call.
THEOREM ResolutionsAreTrue == Spec => []ResolutionIsTrue
<1>1. IInv => ResolutionIsTrue
  BY DEF IInv, Graded
<1> QED
  BY <1>1, Invariance, PTL

\* verified_before_rewrite: no points for writing the changelog again, after a lost
\* acknowledgement, without reading it back.
THEOREM BlindRewritesFail == Spec => []BlindRewriteFails
<1>1. IInv => BlindRewriteFails
  BY BlindRewrite
<1> QED
  BY <1>1, Invariance, PTL
=============================================================================
