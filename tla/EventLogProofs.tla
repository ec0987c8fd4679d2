--------------------------- MODULE EventLogProofs ---------------------------
(***************************************************************************)
(* What a viewer of a run can rely on, for any number of events,           *)
(* invocations, deaths, failed calls and Store restarts: whatever it asks  *)
(* and whenever it comes back, it never sees an event twice.               *)
(*                                                                         *)
(* And what the record promises while the Store's container stays up:      *)
(* nothing is forgotten, a finished run is not run again, a resend         *)
(* completes the log, and the run is the stream RunStream describes.       *)
(***************************************************************************)
EXTENDS EventLog, FiniteSetTheorems, SequenceTheorems, TLAPS

-----------------------------------------------------------------------------
(* Events in the order of their ids *)

UniqueIds(S) == \A e, f \in S : e.id = f.id => e = f
Ascending(q) == \A i, j \in DOMAIN q : i < j => q[i].id < q[j].id
Before(S, e) == {f \in S : f.id < e.id}

LEMMA RankLess ==
  ASSUME NEW S \in SUBSET Event, IsFiniteSet(S), NEW e \in S, NEW f \in S, e.id < f.id
  PROVE  Cardinality(Before(S, e)) < Cardinality(Before(S, f))
<1>1. e.id \in Nat /\ f.id \in Nat /\ \A x \in S : x.id \in Nat
  BY DEF Event
<1>2. /\ Before(S, e) \subseteq Before(S, f)
      /\ f \notin Before(S, f) /\ e \in Before(S, f) /\ e \notin Before(S, e)
      /\ Before(S, f) \subseteq S
  BY <1>1 DEF Before
<1>3. IsFiniteSet(Before(S, f)) /\ IsFiniteSet(Before(S, e))
  BY <1>2, FS_Subset
<1>4. Cardinality(Before(S, e)) <= Cardinality(Before(S, f))
      /\ Cardinality(Before(S, e)) # Cardinality(Before(S, f))
  BY <1>2, <1>3, FS_Subset
<1>5. Cardinality(Before(S, e)) \in Nat /\ Cardinality(Before(S, f)) \in Nat
  BY <1>3, FS_CardinalityType
<1> QED
  BY <1>4, <1>5

LEMMA RankType ==
  ASSUME NEW S \in SUBSET Event, IsFiniteSet(S), NEW e \in S
  PROVE  Cardinality(Before(S, e)) \in 0 .. Cardinality(S) - 1
<1>1. Before(S, e) \subseteq S /\ Before(S, e) # S
  BY DEF Before, Event
<1>2. IsFiniteSet(Before(S, e)) /\ Cardinality(Before(S, e)) <= Cardinality(S)
      /\ Cardinality(Before(S, e)) # Cardinality(S)
  BY <1>1, FS_Subset
<1>3. Cardinality(Before(S, e)) \in Nat /\ Cardinality(S) \in Nat
  BY <1>2, FS_CardinalityType
<1> QED
  BY <1>2, <1>3

\* Every place has its event, since the ranks of n events are 0 to n - 1.
LEMMA RankFull ==
  ASSUME NEW S \in SUBSET Event, IsFiniteSet(S), UniqueIds(S)
  PROVE  /\ Cardinality(S) \in Nat
         /\ \A e, f \in S : Cardinality(Before(S, e)) = Cardinality(Before(S, f)) => e = f
         /\ \A i \in 1 .. Cardinality(S) : \E e \in S : Cardinality(Before(S, e)) = i - 1
<1> DEFINE n == Cardinality(S)
           T == 0 .. n - 1
           rank == [e \in S |-> Cardinality(Before(S, e))]
<1>1. n \in Nat
  BY FS_CardinalityType
<1>2. \A e, f \in S : rank[e] = rank[f] => e = f
  <2> SUFFICES ASSUME NEW e \in S, NEW f \in S, rank[e] = rank[f] PROVE e = f
    OBVIOUS
  <2>1. e.id \in Nat /\ f.id \in Nat
    BY DEF Event
  <2>2. rank[e] \in Nat
    BY <1>1, RankType
  <2>3. ~(e.id < f.id) /\ ~(f.id < e.id)
    BY <2>2, RankLess
  <2> QED
    BY <2>1, <2>3 DEF UniqueIds
<1>3. rank \in [S -> T]
  BY RankType
<1>4. rank \in Injection(S, T)
  BY <1>2, <1>3 DEF Injection, IsInjective
<1>5. IsFiniteSet(T) /\ Cardinality(T) = n
  BY <1>1, FS_Interval
<1>6. rank \in Surjection(S, T)
  BY <1>4, <1>5, FS_Injection
<1>7. \A t \in T : \E e \in S : rank[e] = t
  BY <1>6 DEF Surjection
<1>8. ASSUME NEW i \in 1 .. n PROVE \E e \in S : Cardinality(Before(S, e)) = i - 1
  <2>1. i - 1 \in T
    BY <1>1
  <2> QED
    BY <1>7, <2>1
<1> QED
  BY <1>1, <1>2, <1>8

\* ORDER BY id, on rows with distinct ids, is what it should be.
LEMMA InOrderSorts ==
  ASSUME NEW S \in SUBSET Event, IsFiniteSet(S), UniqueIds(S)
  PROVE  /\ InOrder(S) \in Seq(Event)
         /\ Len(InOrder(S)) = Cardinality(S)
         /\ Ascending(InOrder(S))
         /\ Range(InOrder(S)) = S
<1> DEFINE n == Cardinality(S)
           q == InOrder(S)
<1>1. n \in Nat
  BY FS_CardinalityType
<1>2. q = [i \in 1 .. n |-> CHOOSE e \in S : Cardinality(Before(S, e)) = i - 1]
  BY DEF InOrder, Before
<1>3. \A i \in 1 .. n : q[i] \in S /\ Cardinality(Before(S, q[i])) = i - 1
  BY <1>2, RankFull
<1>4. DOMAIN q = 1 .. n
  BY <1>2
<1>5. q \in [1 .. n -> Event]
  BY <1>2, <1>3
<1>6. q \in Seq(Event) /\ Len(q) = n
  BY <1>1, <1>5
<1>7. ASSUME NEW i \in 1 .. n, NEW j \in 1 .. n, i < j PROVE q[i].id < q[j].id
  <2>1. q[i].id \in Nat /\ q[j].id \in Nat
    BY <1>3 DEF Event
  <2>2. CASE q[i].id = q[j].id
    BY <1>1, <1>3, <1>7, <2>2 DEF UniqueIds
  <2>3. CASE q[j].id < q[i].id
    BY <1>1, <1>3, <1>7, <2>3, RankLess
  <2> QED
    BY <2>1, <2>2, <2>3
<1>8. ASSUME NEW e \in S PROVE \E i \in 1 .. n : q[i] = e
  <2> DEFINE i == Cardinality(Before(S, e)) + 1
  <2>1. i \in 1 .. n
    BY <1>1, RankType
  <2>2. Cardinality(Before(S, q[i])) = Cardinality(Before(S, e)) /\ q[i] \in S
    BY <1>1, <1>3, <2>1, RankType
  <2> QED
    BY <2>1, <2>2, RankFull
<1>9. Ascending(q)
  BY <1>4, <1>7 DEF Ascending
<1>10. Range(q) = S
  BY <1>3, <1>4, <1>8 DEF Range
<1> QED
  BY <1>6, <1>9, <1>10

\* The other way round: an ascending list is the order of its own elements.
LEMMA InOrderIs ==
  ASSUME NEW q \in Seq(Event), Ascending(q)
  PROVE  /\ IsFiniteSet(Range(q)) /\ UniqueIds(Range(q))
         /\ Cardinality(Range(q)) = Len(q)
         /\ InOrder(Range(q)) = q
<1> DEFINE n == Len(q)
           S == Range(q)
<1>1. n \in Nat /\ DOMAIN q = 1 .. n /\ q \in [1 .. n -> Event]
  OBVIOUS
<1>2. S = {q[i] : i \in 1 .. n} /\ S \subseteq Event
  BY <1>1 DEF Range
<1>3. \A i, j \in 1 .. n : q[i].id \in Nat /\ (q[i].id < q[j].id <=> i < j) /\ (q[i] = q[j] => i = j)
  BY <1>1, SMTT(60) DEF Ascending, Event
<1>4. UniqueIds(S)
  <2> SUFFICES ASSUME NEW i \in 1 .. n, NEW j \in 1 .. n, q[i].id = q[j].id PROVE i = j
    BY <1>2 DEF UniqueIds
  <2> QED
    BY <1>1, <1>3
<1>5. ASSUME NEW m \in 0 .. n
      PROVE  LET T == {q[i] : i \in 1 .. m} IN IsFiniteSet(T) /\ Cardinality(T) = m
  <2> DEFINE T == {q[i] : i \in 1 .. m}
             f == [i \in 1 .. m |-> q[i]]
  <2>1. \A i \in 1 .. m : i \in 1 .. n
    BY <1>1
  <2>2. f \in [1 .. m -> T] /\ \A t \in T : \E i \in 1 .. m : f[i] = t
    OBVIOUS
  <2>3. \A i, j \in 1 .. m : f[i] = f[j] => i = j
    BY <1>3, <2>1
  <2>4. f \in Bijection(1 .. m, T)
    BY <2>2, <2>3 DEF Bijection, Injection, Surjection, IsInjective
  <2>5. ExistsBijection(1 .. m, T)
    BY <2>4 DEF ExistsBijection
  <2>6. m \in Nat /\ IsFiniteSet(1 .. m) /\ Cardinality(1 .. m) = m
    BY <1>1, FS_Interval
  <2> QED
    BY <2>5, <2>6, FS_Bijection
<1>6. IsFiniteSet(S) /\ Cardinality(S) = n
  <2>1. n \in 0 .. n
    BY <1>1
  <2>2. IsFiniteSet({q[i] : i \in 1 .. n}) /\ Cardinality({q[i] : i \in 1 .. n}) = n
    BY <1>5, <2>1
  <2> QED
    BY <1>2, <2>2, Zenon
<1>7. ASSUME NEW i \in 1 .. n PROVE Cardinality(Before(S, q[i])) = i - 1
  <2>1. Before(S, q[i]) = {q[j] : j \in 1 .. i - 1}
    BY <1>1, <1>2, <1>3, SMTT(60) DEF Before
  <2>2. i - 1 \in 0 .. n
    BY <1>1
  <2> QED
    BY <1>5, <2>1, <2>2
<1>8. \A e, f \in S : Cardinality(Before(S, e)) = Cardinality(Before(S, f)) => e = f
  <2> HIDE DEF S
  <2> QED
    BY <1>2, <1>4, <1>6, RankFull, Zenon
<1>9. ASSUME NEW i \in 1 .. n
      PROVE  (CHOOSE e \in S : Cardinality(Before(S, e)) = i - 1) = q[i]
  <2>1. q[i] \in S /\ Cardinality(Before(S, q[i])) = i - 1
    BY <1>2, <1>7
  <2>2. ASSUME NEW e \in S, Cardinality(Before(S, e)) = i - 1 PROVE e = q[i]
    BY <1>8, <2>1, <2>2
  <2> DEFINE c == CHOOSE e \in S : Cardinality(Before(S, e)) = i - 1
  <2>3. c \in S /\ Cardinality(Before(S, c)) = i - 1
    BY <2>1
  <2> HIDE DEF c
  <2>4. c = q[i]
    BY <2>2, <2>3
  <2> QED
    BY <2>4 DEF c
<1>10. InOrder(S) = q
  BY <1>1, <1>6, <1>9 DEF InOrder, Before
<1> QED
  BY <1>4, <1>6, <1>10

-----------------------------------------------------------------------------
(* The Store: rows stay rows, and the ids of a run distinct. *)

RowSound(db) ==
  /\ db \in [status : Statuses \cup {"none"}, events : SUBSET Event]
  /\ IsFiniteSet(db.events) /\ UniqueIds(db.events)
  /\ db.status = "none" => db = NoRow

LEMMA AppendedSound ==
  ASSUME NEW db, RowSound(db), db.status # "none", NEW batch \in Seq(Event)
  PROVE  RowSound(Appended(db, batch)) /\ Appended(db, batch).status # "none"
<1> DEFINE F == Fresh(db, batch)
           T == {batch[i] : i \in F}
           new == Appended(db, batch)
<1>1. F \subseteq DOMAIN batch /\ DOMAIN batch = 1 .. Len(batch) /\ Len(batch) \in Nat
  BY DEF Fresh
<1>2. T \subseteq Event
  <2>1. \A i \in F : batch[i] \in Event
    BY <1>1
  <2> QED
    BY <2>1
<1>3. IsFiniteSet(T)
  <2> DEFINE f == [i \in F |-> batch[i]]
  <2>1. f \in Surjection(F, T)
    BY DEF Surjection
  <2>2. IsFiniteSet(F)
    <3>1. IsFiniteSet(1 .. Len(batch))
      BY <1>1, FS_Interval
    <3> QED
      BY <1>1, <3>1, FS_Subset
  <2> HIDE DEF f, F, T
  <2> QED
    BY <2>1, <2>2, FS_Surjection
<1>4. new.events = db.events \cup T /\ new = [status |-> Projected(db, batch), events |-> db.events \cup T]
  BY DEF Appended
<1>5. IsFiniteSet(db.events \cup T)
  <2> HIDE DEF T
  <2> QED
    BY <1>3, FS_Union DEF RowSound
<1>6. UniqueIds(db.events \cup T)
  <2>1. \A e \in db.events : \A i \in F : e.id # batch[i].id
    BY DEF Fresh, Ids
  <2>2. \A i, j \in F : batch[i].id = batch[j].id => i = j
    BY <1>1 DEF Fresh
  <2> QED
    BY <2>1, <2>2 DEF UniqueIds, RowSound
<1>7. Projected(db, batch) \in Statuses
  BY DEF Projected, RowSound, Statuses
<1> QED
  BY <1>2, <1>4, <1>5, <1>6, <1>7 DEF RowSound, Statuses

\* What any caller can do to the Store.
StoreMoves ==
  \/ UNCHANGED store
  \/ \E batch \in Seq(Event) : AppendEvents(batch)
  \/ \E status \in {"running", "final"} : FinishRun(status)

LEMMA StoreSound ==
  ASSUME RowSound(hot), RowSound(saved), StoreMoves
  PROVE  /\ RowSound(hot)' /\ RowSound(saved)'
         /\ hot.status # "none" => hot'.status # "none"
<1>1. CASE UNCHANGED store
  BY <1>1 DEF store, RowSound
<1>2. CASE \E batch \in Seq(Event) : AppendEvents(batch)
  <2> PICK batch \in Seq(Event) : AppendEvents(batch)
    BY <1>2
  <2>1. hot' = Appended(hot, batch) /\ hot.status # "none" /\ saved' \in {saved, hot'}
    BY DEF AppendEvents, MayHaveSaved
  <2>2. RowSound(Appended(hot, batch)) /\ Appended(hot, batch).status # "none"
    BY <2>1, AppendedSound
  <2> QED
    BY <2>1, <2>2 DEF RowSound
<1>3. CASE \E status \in {"running", "final"} : FinishRun(status)
  <2> PICK status \in {"running", "final"} : FinishRun(status)
    BY <1>3
  <2>1. /\ hot' = [hot EXCEPT !.status = status] /\ hot.status # "none"
        /\ saved' \in {saved, hot'}
    BY DEF FinishRun, MayHaveSaved
  <2>2. /\ hot' \in [status : Statuses \cup {"none"}, events : SUBSET Event]
        /\ hot'.status = status /\ hot'.events = hot.events
    BY <2>1 DEF RowSound, Statuses
  <2> QED
    BY <2>1, <2>2 DEF RowSound
<1> QED
  BY <1>1, <1>2, <1>3 DEF StoreMoves

-----------------------------------------------------------------------------
(* Types, and the viewer *)

VInv ==
  /\ TypeOK
  /\ RowSound(hot) /\ RowSound(saved)
  /\ \A i \in DOMAIN shown : shown[i].id < cursor
  /\ ShownOnce

LEMMA Bounds ==
  Retries \in Nat /\ MaxBlips \in Nat /\ MaxRestarts \in Nat /\ MaxEvents \in Nat
  BY BoundsAssumption

LEMMA BlipCounted ==
  ASSUME blips \in 0 .. MaxBlips, Blip \/ NoBlip
  PROVE  blips' \in 0 .. MaxBlips
  BY Bounds DEF Blip, NoBlip

LEMMA InitView == Init => VInv
<1> SUFFICES ASSUME Init PROVE VInv
  OBVIOUS
<1>1. IsFiniteSet({})
  BY FS_EmptySet
<1>2. TypeOK
  <2>1. hot.status \in Statuses /\ hot.events \subseteq Event /\ saved = NoRow
    BY DEF Init, EmptyRow, Statuses
  <2>2. << >> \in Seq(Event)
    BY EmptySeq
  <2>3. mem \in Seq(Event) /\ pending \in Seq(Event) /\ shown \in Seq(Event)
    BY <2>2 DEF Init
  <2>4. try \in 0 .. Retries + 1 /\ blips \in 0 .. MaxBlips /\ restarts \in 0 .. MaxRestarts
    BY Bounds DEF Init
  <2> QED
    BY <2>1, <2>3, <2>4 DEF Init, TypeOK
<1>3. RowSound(hot) /\ RowSound(saved)
  BY <1>1 DEF Init, RowSound, UniqueIds, EmptyRow, NoRow, Statuses
<1> QED
  BY <1>2, <1>3 DEF Init, VInv, ShownOnce

LEMMA RowTypes ==
  ASSUME RowSound(hot)', RowSound(saved)'
  PROVE  /\ hot' = NoRow \/ (hot'.status \in Statuses /\ hot'.events \subseteq Event)
         /\ saved' = NoRow \/ (saved'.status \in Statuses /\ saved'.events \subseteq Event)
  BY DEF RowSound

LEMMA SendMoves ==
  ASSUME NEW batch \in Seq(Event), Send(batch), blips \in 0 .. MaxBlips
  PROVE  StoreMoves /\ pending' \in Seq(Event) /\ blips' \in 0 .. MaxBlips
<1>1. Blip \/ NoBlip
  BY DEF Send
<1>2. StoreMoves
  <2>1. AppendEvents(batch) \/ UNCHANGED store
    BY DEF Send
  <2> QED
    BY <2>1 DEF StoreMoves
<1>3. pending' \in {batch, << >>}
  BY DEF Send
<1> QED
  BY <1>1, <1>2, <1>3, BlipCounted, EmptySeq

LEMMA EmitMoves ==
  ASSUME NEW kind \in Kinds, Emit(kind), TypeOK
  PROVE  StoreMoves /\ mem' \in Seq(Event) /\ pending' \in Seq(Event) /\ blips' \in 0 .. MaxBlips
<1> DEFINE e == [id |-> Len(mem), type |-> kind, by |-> try]
<1>1. e \in Event
  BY BoundsAssumption DEF TypeOK, Event
<1>2. mem' = Append(mem, e)
  BY DEF Emit
<1>3. Append(pending, e) \in Seq(Event) /\ Append(mem, e) \in Seq(Event)
  BY <1>1 DEF TypeOK
<1>4. \/ Send(Append(pending, e))
      \/ UNCHANGED store /\ NoBlip /\ pending' = Append(pending, e)
  BY DEF Emit
<1> HIDE DEF e
<1> QED
  BY <1>2, <1>3, <1>4, SendMoves DEF StoreMoves, NoBlip, TypeOK

LEMMA UpdateMoves ==
  ASSUME NEW status \in {"running", "final"}, Update(status), blips \in 0 .. MaxBlips
  PROVE  StoreMoves /\ blips' \in 0 .. MaxBlips
  BY Bounds DEF Update, StoreMoves, Blip, NoBlip

\* The worker leaves the viewer alone and moves the Store by its verbs,
\* except that an invocation may make the row.
LEMMA WorkerTypes ==
  ASSUME VInv, Worker
  PROVE  VInv'
<1>1. TypeOK /\ RowSound(hot) /\ RowSound(saved) /\ blips \in 0 .. MaxBlips
  BY DEF VInv, TypeOK
<1>2. UNCHANGED viewer /\ UNCHANGED restarts
  BY DEF Worker, Invoke, SetRunning, Begin, Work, FlushTurn, Finish, Resend, FinalFlush, Settle, Goto, bounds
<1>3. RowSound(hot)' /\ RowSound(saved)' /\ mem' \in Seq(Event) /\ pending' \in Seq(Event)
      /\ blips' \in 0 .. MaxBlips
      /\ pc' \in {"down", "boot", "open", "work", "resend", "flush", "settle", "done"}
      /\ try' \in 0 .. Retries + 1
  <2>1. CASE Invoke
    <3>1. RowSound(EmptyRow)
      BY FS_EmptySet DEF RowSound, EmptyRow, UniqueIds, Statuses
    <3>2. hot' \in {EmptyRow, hot} /\ saved' = saved
      BY <2>1 DEF Invoke
    <3>3. InOrder(hot.events) \in Seq(Event)
      BY <1>1, InOrderSorts DEF RowSound
    <3>4. try' \in 0 .. Retries + 1
      BY <1>1, <2>1, BoundsAssumption DEF Invoke, TypeOK
    <3> QED
      BY <1>1, <2>1, <3>1, <3>2, <3>3, <3>4 DEF Invoke, RowSound, bounds
  <2>2. CASE SetRunning
    BY <1>1, <2>2, UpdateMoves, StoreSound DEF SetRunning, Goto, TypeOK
  <2>3. CASE \E kind \in Kinds : Emit(kind) /\ pc' \in {"work", "resend"} /\ try' = try
    BY <1>1, <2>3, EmitMoves, StoreSound DEF TypeOK
  <2>4. Begin \/ Work \/ Finish => \E kind \in Kinds : Emit(kind) /\ pc' \in {"work", "resend"} /\ try' = try
    BY DEF Begin, Work, Finish, Goto, Kinds
  <2>5. CASE FlushTurn \/ FinalFlush
    <3>1. /\ mem' = mem /\ try' = try /\ pc' \in {"work", "settle"}
          /\ Send(pending) \/ UNCHANGED <<hot, saved, pending, blips>>
      BY <2>5 DEF FlushTurn, FinalFlush, Goto, NoBlip, store
    <3>2. pending \in Seq(Event)
      BY <1>1 DEF TypeOK
    <3>3. CASE Send(pending)
      BY <1>1, <3>1, <3>2, <3>3, SendMoves, StoreSound DEF TypeOK
    <3>4. CASE UNCHANGED <<hot, saved, pending, blips>>
      BY <1>1, <3>1, <3>4 DEF TypeOK, RowSound
    <3> QED
      BY <3>1, <3>3, <3>4
  <2>6. CASE Resend
    <3>1. StoreMoves /\ pending' \in Seq(Event) /\ blips' \in 0 .. MaxBlips
      <4>1. Blip \/ NoBlip
        BY <2>6 DEF Resend
      <4>2. AppendEvents(mem) \/ UNCHANGED store
        BY <2>6 DEF Resend, store
      <4>3. StoreMoves
        BY <1>1, <4>2 DEF StoreMoves, TypeOK
      <4>4. pending' \in {pending, << >>}
        BY <2>6 DEF Resend
      <4> QED
        BY <1>1, <4>1, <4>3, <4>4, BlipCounted, EmptySeq DEF TypeOK
    <3> QED
      BY <1>1, <2>6, <3>1, StoreSound DEF Resend, Goto, TypeOK
  <2>7. CASE Settle
    BY <1>1, <2>7, UpdateMoves, StoreSound DEF Settle, Goto, TypeOK
  <2> QED
    BY <2>1, <2>2, <2>3, <2>4, <2>5, <2>6, <2>7 DEF Worker
<1>4. TypeOK'
  BY <1>1, <1>2, <1>3, RowTypes DEF TypeOK, viewer
<1> QED
  BY <1>2, <1>3, <1>4 DEF VInv, viewer, ShownOnce

LEMMA MinOfTwo ==
  ASSUME NEW a \in Nat, NEW b \in Nat
  PROVE  Min({a, b}) = IF a <= b THEN a ELSE b
<1> DEFINE m == IF a <= b THEN a ELSE b
<1>1. m \in {a, b} /\ \A y \in {a, b} : m =< y
  OBVIOUS
<1>2. ASSUME NEW x \in {a, b}, \A y \in {a, b} : x =< y PROVE x = m
  BY <1>2
<1> DEFINE c == CHOOSE x \in {a, b} : \A y \in {a, b} : x =< y
<1>3. c \in {a, b} /\ \A y \in {a, b} : c =< y
  BY <1>1
<1> HIDE DEF c, m
<1>4. c = m
  BY <1>2, <1>3
<1> QED
  BY <1>4 DEF Min, c, m

LEMMA FirstOf ==
  ASSUME NEW q \in Seq(Event), NEW m \in 0 .. Len(q)
  PROVE  /\ SubSeq(q, 1, m) \in Seq(Event)
         /\ Len(SubSeq(q, 1, m)) = m
         /\ \A i \in 1 .. m : SubSeq(q, 1, m)[i] = q[i]
<1>1. m \in Nat /\ m <= Len(q) /\ Len(q) \in Nat
  OBVIOUS
<1>2. \A i \in 1 .. m : q[i] \in Event
  BY <1>1
<1>3. /\ SubSeq(q, 1, m) \in Seq(Event)
      /\ Len(SubSeq(q, 1, m)) = IF 1 <= m THEN m - 1 + 1 ELSE 0
      /\ \A i \in 1 .. m - 1 + 1 : SubSeq(q, 1, m)[i] = q[1 + i - 1]
  BY <1>1, <1>2, SubSeqProperties
<1> QED
  BY <1>1, <1>3

\* A page holds stored events the viewer has not asked for yet, in order.
LEMMA PageSorted ==
  ASSUME VInv
  PROVE  LET new == InOrder({e \in hot.events : e.id >= cursor}) IN
         /\ Page \in Seq(Event) /\ Ascending(Page)
         /\ \A i \in DOMAIN Page : Page[i].id \in Nat /\ Page[i].id >= cursor
         /\ new \in Seq(Event) /\ Ascending(new)
         /\ Range(new) = {e \in hot.events : e.id >= cursor}
         /\ Len(Page) = IF PageLimit <= Len(new) THEN PageLimit ELSE Len(new)
         /\ \A i \in 1 .. Len(Page) : Page[i] = new[i]
<1> DEFINE T == {e \in hot.events : e.id >= cursor}
           new == InOrder(T)
           m == IF PageLimit <= Len(new) THEN PageLimit ELSE Len(new)
<1>1. T \subseteq hot.events /\ hot.events \subseteq Event /\ IsFiniteSet(hot.events) /\ UniqueIds(hot.events)
  BY DEF VInv, RowSound
<1>2. IsFiniteSet(T) /\ UniqueIds(T)
  BY <1>1, FS_Subset DEF UniqueIds
<1>3. new \in Seq(Event) /\ Ascending(new) /\ Range(new) = T
  <2> HIDE DEF T
  <2> QED
    BY <1>1, <1>2, InOrderSorts
<1>4. Len(new) \in Nat /\ PageLimit \in Nat /\ PageLimit >= 1 /\ DOMAIN new = 1 .. Len(new)
  BY <1>3, BoundsAssumption
<1>5. Min({PageLimit, Len(new)}) = m
  <2> HIDE DEF new
  <2> QED
    BY <1>4, MinOfTwo
<1>6. Page = SubSeq(new, 1, m)
  BY <1>5 DEF Page
<1>7. m \in 0 .. Len(new)
  BY <1>4
<1>8. Page \in Seq(Event) /\ Len(Page) = m /\ \A i \in 1 .. m : Page[i] = new[i]
  <2> HIDE DEF new, m
  <2> QED
    BY <1>3, <1>6, <1>7, FirstOf
<1>9. \A i \in 1 .. m : new[i] \in T
  <2> HIDE DEF T, new, m
  <2>1. \A i \in DOMAIN new : new[i] \in T
    BY <1>3 DEF Range
  <2> QED
    BY <1>4, <1>7, <2>1
<1> HIDE DEF new, m
<1>10. DOMAIN Page = 1 .. m
  BY <1>8
<1>11. \A i \in DOMAIN Page : Page[i].id \in Nat /\ Page[i].id >= cursor
  BY <1>1, <1>8, <1>9, <1>10 DEF Event
<1>12. Ascending(Page)
  BY <1>3, <1>4, <1>7, <1>8, <1>10 DEF Ascending
<1> QED
  BY <1>3, <1>8, <1>11, <1>12 DEF new, m

\* What is shown after the first n events of a page.
LEMMA ShowAdds ==
  ASSUME VInv, NEW n \in 0 .. Len(Page), Show(n)
  PROVE  /\ n \in Nat /\ n <= Len(Page) /\ Len(Page) \in Nat /\ DOMAIN Page = 1 .. Len(Page)
         /\ shown' \in Seq(Event)
         /\ Len(shown') = Len(shown) + n
         /\ Len(shown) \in Nat /\ DOMAIN shown = 1 .. Len(shown) /\ DOMAIN shown' = 1 .. Len(shown')
         /\ \A i \in DOMAIN shown' :
              shown'[i] = IF i <= Len(shown) THEN shown[i] ELSE Page[i - Len(shown)]
<1>1. Page \in Seq(Event) /\ shown \in Seq(Event)
  BY PageSorted DEF VInv, TypeOK
<1>2. /\ SubSeq(Page, 1, n) \in Seq(Event) /\ Len(SubSeq(Page, 1, n)) = n
      /\ \A i \in 1 .. n : SubSeq(Page, 1, n)[i] = Page[i]
      /\ n \in Nat /\ n <= Len(Page) /\ Len(Page) \in Nat /\ DOMAIN Page = 1 .. Len(Page)
  <2>1. Len(Page) \in Nat /\ n \in Int /\ n >= 0 /\ DOMAIN Page = 1 .. Len(Page)
    BY <1>1
  <2> QED
    BY <1>1, <2>1, FirstOf
<1> DEFINE p == SubSeq(Page, 1, n)
<1>3. shown' = shown \o p
  BY DEF Show
<1> HIDE DEF p
<1>4. p \in Seq(Event) /\ Len(p) = n /\ \A i \in 1 .. n : p[i] = Page[i]
  BY <1>2 DEF p
<1>5. /\ shown' \in Seq(Event) /\ Len(shown') = Len(shown) + n
      /\ \A i \in 1 .. Len(shown) + n :
           shown'[i] = IF i <= Len(shown) THEN shown[i] ELSE p[i - Len(shown)]
  <2>1. /\ shown \o p \in Seq(Event) /\ Len(shown \o p) = Len(shown) + Len(p)
        /\ \A i \in 1 .. Len(shown) + Len(p) :
             (shown \o p)[i] = IF i <= Len(shown) THEN shown[i] ELSE p[i - Len(shown)]
    BY <1>1, <1>4, ConcatProperties
  <2> QED
    BY <1>3, <1>4, <2>1
<1>6. Len(shown) \in Nat /\ DOMAIN shown = 1 .. Len(shown) /\ DOMAIN shown' = 1 .. Len(shown')
  BY <1>1, <1>5
<1> QED
  BY <1>2, <1>4, <1>5, <1>6

LEMMA ShowTypes ==
  ASSUME VInv, NEW n \in 0 .. Len(Page), Show(n)
  PROVE  VInv'
<1>1. /\ Page \in Seq(Event) /\ Ascending(Page)
      /\ \A i \in DOMAIN Page : Page[i].id \in Nat /\ Page[i].id >= cursor
  BY PageSorted
<1>2. /\ shown \in Seq(Event) /\ cursor \in Nat /\ TypeOK
      /\ \A i \in DOMAIN shown : shown[i].id < cursor /\ shown[i].id \in Nat
      /\ \A i, j \in DOMAIN shown : i < j => shown[i].id < shown[j].id
  <2>1. shown \in Seq(Event)
    BY DEF VInv, TypeOK
  <2>2. \A i \in DOMAIN shown : shown[i] \in Event
    BY <2>1
  <2> QED
    BY <2>1, <2>2 DEF VInv, TypeOK, ShownOnce, Event
<1>3. n \in Nat /\ n <= Len(Page) /\ Len(Page) \in Nat /\ DOMAIN Page = 1 .. Len(Page)
  BY ShowAdds
<1>4. /\ cursor' = IF n = 0 THEN cursor ELSE Page[n].id + 1
      /\ closed' \in BOOLEAN /\ asked' = "idle"
      /\ UNCHANGED <<worker, store, bounds>>
  BY DEF Show
<1>5. /\ shown' \in Seq(Event)
      /\ Len(shown') = Len(shown) + n
      /\ Len(shown) \in Nat /\ DOMAIN shown = 1 .. Len(shown) /\ DOMAIN shown' = 1 .. Len(shown')
      /\ \A i \in DOMAIN shown' :
           shown'[i] = IF i <= Len(shown) THEN shown[i] ELSE Page[i - Len(shown)]
  BY ShowAdds
<1>6. /\ cursor' \in Nat /\ cursor <= cursor'
      /\ \A i \in 1 .. n : Page[i].id < cursor'
  <2>1. CASE n = 0
    BY <1>2, <1>4, <2>1
  <2>2. CASE n # 0
    <3>1. n \in DOMAIN Page
      BY <1>3, <2>2
    <3>2. cursor' = Page[n].id + 1 /\ Page[n].id \in Nat /\ Page[n].id >= cursor
      BY <1>1, <1>4, <2>2, <3>1
    <3>3. \A i \in 1 .. n : Page[i].id \in Nat /\ (i < n => Page[i].id < Page[n].id)
      BY <1>1, <1>3, <3>1 DEF Ascending
    <3> QED
      BY <1>2, <1>3, <3>2, <3>3
  <2> QED
    BY <2>1, <2>2
<1>7. \A i \in DOMAIN shown' : shown'[i].id < cursor'
  <2> SUFFICES ASSUME NEW i \in DOMAIN shown' PROVE shown'[i].id < cursor'
    OBVIOUS
  <2>1. CASE i <= Len(shown)
    BY <1>2, <1>5, <1>6, <2>1
  <2>2. CASE ~(i <= Len(shown))
    BY <1>3, <1>5, <1>6, <2>2
  <2> QED
    BY <2>1, <2>2
<1>8. \A i, j \in DOMAIN shown' : i < j => shown'[i].id < shown'[j].id
  <2> SUFFICES ASSUME NEW i \in DOMAIN shown', NEW j \in DOMAIN shown', i < j
               PROVE  shown'[i].id < shown'[j].id
    OBVIOUS
  <2>1. CASE j <= Len(shown)
    BY <1>2, <1>5, <2>1
  <2>2. CASE ~(j <= Len(shown)) /\ i <= Len(shown)
    <3>1. j - Len(shown) \in DOMAIN Page
      BY <1>3, <1>5, <2>2
    <3> QED
      BY <1>1, <1>2, <1>5, <2>2, <3>1
  <2>3. CASE ~(i <= Len(shown))
    <3>1. i - Len(shown) \in DOMAIN Page /\ j - Len(shown) \in DOMAIN Page /\ ~(j <= Len(shown))
          /\ i - Len(shown) < j - Len(shown)
      BY <1>3, <1>5, <2>3
    <3> QED
      BY <1>1, <1>5, <2>3, <3>1 DEF Ascending
  <2> QED
    BY <2>1, <2>2, <2>3
<1>9. TypeOK'
  BY <1>2, <1>4, <1>5, <1>6 DEF TypeOK, worker, store, bounds
<1>10. RowSound(hot)' /\ RowSound(saved)'
  BY <1>4 DEF VInv, RowSound, store
<1> QED
  BY <1>7, <1>8, <1>9, <1>10 DEF VInv, ShownOnce

LEMMA StepTypes ==
  ASSUME VInv, [Next]_vars
  PROVE  VInv'
<1>1. CASE UNCHANGED vars
  BY <1>1 DEF vars, VInv, TypeOK, RowSound, ShownOnce
<1>2. CASE Worker
  BY <1>2, WorkerTypes
<1>3. CASE Crash
  <2>1. mem' \in Seq(Event) /\ pending' \in Seq(Event)
    BY <1>3, EmptySeq DEF Crash
  <2> QED
    BY <1>3, <2>1 DEF Crash, VInv, TypeOK, RowSound, ShownOnce, store, viewer, bounds
<1>4. CASE Checkpoint
  BY <1>4 DEF Checkpoint, VInv, TypeOK, RowSound, ShownOnce, worker, viewer, bounds
<1>5. CASE Restart
  <2>1. restarts' \in 0 .. MaxRestarts
    BY <1>5, Bounds DEF Restart, VInv, TypeOK
  <2> QED
    BY <1>5, <2>1 DEF Restart, VInv, TypeOK, RowSound, ShownOnce, worker, viewer
<1>6. CASE AskStatus
  <2>1. asked' \in Statuses \cup {"idle", "none"}
    BY <1>6 DEF AskStatus, VInv, RowSound
  <2> QED
    BY <1>6, <2>1 DEF AskStatus, VInv, TypeOK, RowSound, ShownOnce, worker, store, bounds
<1>7. CASE \E n \in 0 .. Len(Page) : Show(n)
  BY <1>7, ShowTypes
<1>8. CASE Over
  BY <1>1, <1>8 DEF Over
<1> QED
  BY <1>1, <1>2, <1>3, <1>4, <1>5, <1>6, <1>7, <1>8 DEF Next

\* The worker's lists, the Store's rows and what the viewer has keep their
\* types (events.py, sqlite_store.py).
THEOREM EventTypes == Spec => []TypeOK
<1>1. VInv => TypeOK
  BY DEF VInv
<1> QED
  BY <1>1, InitView, StepTypes, PTL DEF Spec

\* No event reaches the viewer twice and none in two versions, whatever the
\* Store forgets and refills and however often the browser comes back
\* (api.py _event_stream; sqlite_store.py events_after).
THEOREM EventsAreShownOnce == Spec => []ShownOnce
<1>1. VInv => ShownOnce
  BY DEF VInv
<1> QED
  BY <1>1, InitView, StepTypes, PTL DEF Spec

-----------------------------------------------------------------------------
(* A batch that reaches the end of the worker's list completes the log. *)

\* The last place of some: by the ranks of events with those ids.
LEMMA MaxOf ==
  ASSUME NEW n \in Nat, NEW S \in SUBSET (1 .. n), S # {}
  PROVE  Max(S) \in S /\ \A y \in S : Max(S) >= y
<1> DEFINE at == [s \in S |-> [id |-> s, type |-> "work", by |-> 0]]
           T == {at[s] : s \in S}
<1>1. \A s \in S : at[s] \in Event /\ at[s].id = s
  BY DEF Event, Kinds
<1> HIDE DEF at
<1>2. T \subseteq Event /\ UniqueIds(T) /\ T # {} /\ \A e \in T : e.id \in S
  <2>1. \A e \in T : \E s \in S : e = at[s] /\ e.id = s /\ e \in Event
    BY <1>1
  <2>2. \A e, f \in T : e.id = f.id => e = f
    BY <2>1
  <2>3. T # {}
    OBVIOUS
  <2> HIDE DEF T
  <2> QED
    BY <2>1, <2>2, <2>3 DEF UniqueIds
<1>3. IsFiniteSet(T)
  <2>1. at \in Surjection(S, T)
    BY DEF Surjection, at
  <2>2. IsFiniteSet(S)
    <3>1. IsFiniteSet(1 .. n)
      BY FS_Interval
    <3> QED
      BY <3>1, FS_Subset
  <2> HIDE DEF T
  <2> QED
    BY <2>1, <2>2, FS_Surjection
<1> HIDE DEF T
<1>4. Cardinality(T) \in Nat /\ Cardinality(T) # 0
  BY <1>2, <1>3, FS_CardinalityType, FS_EmptySet
<1>5. PICK e \in T : Cardinality(Before(T, e)) = Cardinality(T) - 1
  <2>1. Cardinality(T) \in 1 .. Cardinality(T)
    BY <1>4
  <2> QED
    BY <1>2, <1>3, <2>1, RankFull
<1>6. \A f \in T : ~(e.id < f.id)
  <2> SUFFICES ASSUME NEW f \in T, e.id < f.id PROVE FALSE
    OBVIOUS
  <2>1. Cardinality(Before(T, e)) < Cardinality(Before(T, f))
    BY <1>2, <1>3, RankLess
  <2>2. Cardinality(Before(T, f)) \in 0 .. Cardinality(T) - 1
    BY <1>2, <1>3, RankType
  <2> QED
    BY <1>4, <1>5, <2>1, <2>2
<1>7. \A y \in S : at[y] \in T /\ at[y].id = y
  BY <1>1 DEF T
<1>8. e.id \in S /\ \A y \in S : ~(e.id < y)
  BY <1>2, <1>6, <1>7
<1>9. \A y \in S : e.id >= y
  <2> SUFFICES ASSUME NEW y \in S PROVE e.id >= y
    OBVIOUS
  <2>1. \A x \in S : x \in 1 .. n
    OBVIOUS
  <2>2. e.id \in S /\ ~(e.id < y)
    BY <1>8
  <2>3. y \in 1 .. n /\ e.id \in 1 .. n
    BY <2>1, <2>2
  <2> QED
    BY <2>2, <2>3
<1> DEFINE c == CHOOSE x \in S : \A y \in S : x >= y
<1>10. c \in S /\ \A y \in S : c >= y
  BY <1>8, <1>9
<1> HIDE DEF c
<1> QED
  BY <1>10 DEF Max, c

Stored == InOrder(hot.events)
Dense(q) == \A i \in DOMAIN q : q[i].id = i - 1
Starts(p, q) == Len(p) <= Len(q) /\ \A i \in DOMAIN p : p[i] = q[i]

\* The batch is the end of the list q, and nothing before it is missing in p.
Closes(batch, p, q) ==
  /\ Len(batch) <= Len(q)
  /\ Len(q) - Len(batch) <= Len(p)
  /\ \A i \in DOMAIN batch : batch[i] = q[Len(q) - Len(batch) + i]

\* Only its last event may finish a list.
Ends(q) == Len(q) > 0 /\ q[Len(q)].type = "run.finished"
EndsOnce(q) == \A i \in DOMAIN q : q[i].type = "run.finished" => i = Len(q)

LEMMA StoredIs ==
  ASSUME RowSound(hot)
  PROVE  /\ Stored \in Seq(Event) /\ Ascending(Stored) /\ Range(Stored) = hot.events
         /\ Len(Stored) = Cardinality(hot.events)
  BY InOrderSorts DEF RowSound, Stored

LEMMA DenseAscends ==
  ASSUME NEW q \in Seq(Event), Dense(q)
  PROVE  Ascending(q)
  BY DEF Dense, Ascending

LEMMA FreshIsNew ==
  ASSUME RowSound(hot), NEW m \in Seq(Event), NEW batch \in Seq(Event),
         Dense(m), Starts(Stored, m), Closes(batch, Stored, m)
  PROVE  /\ Fresh(hot, batch) = {i \in DOMAIN batch : Len(m) - Len(batch) + i > Len(Stored)}
         /\ hot.events \cup {batch[i] : i \in Fresh(hot, batch)} = Range(m)
<1> DEFINE k == Len(Stored)
           a == Len(m) - Len(batch)
<1>1. /\ Stored \in Seq(Event) /\ Range(Stored) = hot.events
      /\ k \in Nat /\ DOMAIN Stored = 1 .. k
  BY StoredIs
<1>2. /\ Len(m) \in Nat /\ Len(batch) \in Nat /\ a \in 0 .. k /\ k <= Len(m)
      /\ DOMAIN m = 1 .. Len(m) /\ DOMAIN batch = 1 .. Len(batch)
  BY <1>1 DEF Closes, Starts
<1>3. \A i \in 1 .. k : Stored[i] = m[i]
  BY <1>1 DEF Starts
<1>4. \A i \in 1 .. Len(m) : m[i].id = i - 1
  BY <1>2 DEF Dense
<1>5. \A i \in 1 .. Len(batch) : batch[i] = m[a + i] /\ a + i \in 1 .. Len(m) /\ batch[i].id = a + i - 1
  <2> SUFFICES ASSUME NEW i \in 1 .. Len(batch)
               PROVE  batch[i] = m[a + i] /\ a + i \in 1 .. Len(m) /\ batch[i].id = a + i - 1
    OBVIOUS
  <2>1. batch[i] = m[a + i]
    BY <1>2 DEF Closes
  <2>2. a + i \in 1 .. Len(m)
    BY <1>1, <1>2
  <2> HIDE DEF a
  <2>3. m[a + i].id = (a + i) - 1
    BY <1>4, <2>2
  <2>4. (a + i) - 1 = a + i - 1
    BY <1>1, <1>2
  <2> QED
    BY <2>1, <2>2, <2>3, <2>4
<1> HIDE DEF k, a
<1>6. hot.events = {m[i] : i \in 1 .. k}
  <2>1. hot.events = {Stored[i] : i \in 1 .. k}
    BY <1>1 DEF Range
  <2> QED
    BY <1>3, <2>1
<1>7. \A i \in 1 .. Len(batch) : batch[i].id \in Ids(hot) <=> a + i <= k
  <2> SUFFICES ASSUME NEW i \in 1 .. Len(batch) PROVE batch[i].id \in Ids(hot) <=> a + i <= k
    OBVIOUS
  <2>1. batch[i].id \in Ids(hot) <=> \E j \in 1 .. k : m[j].id = a + i - 1
    BY <1>5, <1>6 DEF Ids
  <2>2. \A j \in 1 .. k : m[j].id = j - 1
    BY <1>1, <1>2, <1>4
  <2>3. a + i \in Nat /\ a + i >= 1
    BY <1>1, <1>2
  <2>4. ASSUME NEW j \in 1 .. k, m[j].id = a + i - 1 PROVE a + i <= k
    <3>1. j - 1 = a + i - 1
      BY <2>2, <2>4
    <3> QED
      BY <1>1, <1>2, <2>3, <3>1
  <2>5. ASSUME a + i <= k PROVE \E j \in 1 .. k : m[j].id = a + i - 1
    <3>1. a + i \in 1 .. k
      BY <1>1, <2>3, <2>5
    <3>2. m[a + i].id = (a + i) - 1
      BY <2>2, <3>1
    <3>3. (a + i) - 1 = a + i - 1
      BY <1>1, <1>2
    <3> QED
      BY <3>1, <3>2, <3>3
  <2> QED
    BY <2>1, <2>4, <2>5
<1>8. Fresh(hot, batch) = {i \in 1 .. Len(batch) : a + i > k}
  <2>1. \A i \in 1 .. Len(batch) : \A j \in 1 .. i - 1 : batch[j].id # batch[i].id
    <3> SUFFICES ASSUME NEW i \in 1 .. Len(batch), NEW j \in 1 .. i - 1 PROVE batch[j].id # batch[i].id
      OBVIOUS
    <3>1. j \in 1 .. Len(batch) /\ j # i
      BY <1>2
    <3> QED
      BY <1>1, <1>2, <1>5, <3>1
  <2>2. \A i \in 1 .. Len(batch) : batch[i].id \notin Ids(hot) <=> a + i > k
    BY <1>1, <1>2, <1>7
  <2> QED
    BY <1>2, <2>1, <2>2 DEF Fresh
<1>9. hot.events \cup {batch[i] : i \in Fresh(hot, batch)} = {m[i] : i \in 1 .. Len(m)}
  <2>1. \A i \in Fresh(hot, batch) : batch[i] = m[a + i] /\ a + i \in 1 .. Len(m)
    BY <1>5, <1>8
  <2>2. \A j \in 1 .. Len(m) : j > k => j - a \in Fresh(hot, batch) /\ batch[j - a] = m[j]
    <3> SUFFICES ASSUME NEW j \in 1 .. Len(m), j > k
                 PROVE  j - a \in Fresh(hot, batch) /\ batch[j - a] = m[j]
      OBVIOUS
    <3>1. j - a \in 1 .. Len(batch) /\ a + (j - a) = j
      BY <1>1, <1>2 DEF a
    <3> QED
      BY <1>5, <1>8, <3>1
  <2>3. \A j \in 1 .. Len(m) : j <= k => m[j] \in hot.events
    BY <1>1, <1>2, <1>6
  <2>4. \A j \in 1 .. Len(m) : m[j] \in hot.events \cup {batch[i] : i \in Fresh(hot, batch)}
    <3> SUFFICES ASSUME NEW j \in 1 .. Len(m)
                 PROVE  m[j] \in hot.events \cup {batch[i] : i \in Fresh(hot, batch)}
      OBVIOUS
    <3>1. CASE j <= k
      BY <2>3, <3>1
    <3>2. CASE j > k
      BY <2>2, <3>2
    <3> QED
      BY <1>1, <3>1, <3>2
  <2>5. hot.events \subseteq {m[i] : i \in 1 .. Len(m)}
    BY <1>1, <1>2, <1>6
  <2> QED
    BY <2>1, <2>4, <2>5
<1> QED
  BY <1>2, <1>8, <1>9 DEF Range, k, a

\* The projection of a completed log is final exactly when the list ends.
LEMMA AppendCompletes ==
  ASSUME RowSound(hot), NEW m \in Seq(Event), NEW batch \in Seq(Event),
         Dense(m), Starts(Stored, m), Closes(batch, Stored, m), EndsOnce(m),
         AppendEvents(batch)
  PROVE  /\ Stored' = m
         /\ hot.status # "none" /\ hot'.status # "none"
         /\ Len(Stored) = Len(m) => hot' = hot
         /\ Len(Stored) < Len(m) /\ hot.status # "final" => (hot'.status = "final" <=> Ends(m))
<1> DEFINE F == Fresh(hot, batch)
           turns == {i \in F : batch[i].type \in {"run.started", "run.finished"}}
           a == Len(m) - Len(batch)
<1>1. /\ hot' = Appended(hot, batch) /\ hot.status # "none"
  BY DEF AppendEvents
<1>2. hot'.events = Range(m) /\ hot'.status = Projected(hot, batch)
  BY <1>1, FreshIsNew DEF Appended
<1>3. Stored' = m
  BY <1>2, DenseAscends, InOrderIs DEF Stored
<1>4. F = {i \in DOMAIN batch : a + i > Len(Stored)}
  BY FreshIsNew
<1>5. /\ Len(m) \in Nat /\ Len(batch) \in Nat /\ a \in Nat /\ Len(Stored) \in Nat
      /\ a <= Len(Stored)
      /\ DOMAIN batch = 1 .. Len(batch) /\ DOMAIN m = 1 .. Len(m)
      /\ \A i \in 1 .. Len(batch) : batch[i] = m[a + i]
  BY StoredIs DEF Closes
<1>6. Projected(hot, batch) =
        IF turns = {} THEN hot.status
        ELSE IF batch[Max(turns)].type = "run.started" THEN "running" ELSE "final"
  BY DEF Projected
<1>7. ASSUME Len(Stored) = Len(m) PROVE hot' = hot
  <2>1. F = {}
    BY <1>4, <1>5, <1>7
  <2>2. turns = {} /\ {batch[i] : i \in F} = {}
    BY <2>1
  <2>3. hot' = [status |-> hot.status, events |-> hot.events]
    BY <1>1, <1>6, <2>2 DEF Appended
  <2> QED
    BY <2>3 DEF RowSound
<1>8. ASSUME Len(Stored) < Len(m), hot.status # "final" PROVE hot'.status = "final" <=> Ends(m)
  <2>1. turns \in SUBSET (1 .. Len(batch))
    BY <1>4, <1>5
  <2>2. CASE Ends(m)
    <3>1. Len(batch) \in F /\ Len(batch) \in 1 .. Len(batch)
      BY <1>4, <1>5, <1>8
    <3>2. a + Len(batch) = Len(m)
      BY <1>5
    <3>3. batch[Len(batch)].type = "run.finished"
      BY <1>5, <2>2, <3>1, <3>2 DEF Ends
    <3>4. Len(batch) \in turns
      BY <3>1, <3>3
    <3> HIDE DEF turns
    <3>5. Max(turns) \in turns /\ Max(turns) >= Len(batch)
      BY <1>5, <2>1, <3>4, MaxOf
    <3>6. Max(turns) = Len(batch)
      <4>1. Max(turns) \in 1 .. Len(batch)
        BY <2>1, <3>5
      <4> QED
        BY <1>5, <3>5, <4>1
    <3> QED
      BY <1>2, <1>6, <2>2, <3>3, <3>4, <3>6
  <2>3. CASE ~Ends(m)
    <3>1. \A i \in turns : batch[i].type = "run.started"
      <4> SUFFICES ASSUME NEW i \in turns, batch[i].type = "run.finished" PROVE FALSE
        OBVIOUS
      <4>1. i \in 1 .. Len(batch) /\ a + i \in 1 .. Len(m) /\ batch[i] = m[a + i]
        BY <1>5, <2>1
      <4>2. a + i = Len(m) /\ m[a + i].type = "run.finished"
        BY <1>5, <4>1 DEF EndsOnce
      <4>3. Len(m) > 0
        BY <1>5, <4>1
      <4>4. m[Len(m)].type = "run.finished"
        BY <4>2
      <4> QED
        BY <2>3, <4>3, <4>4 DEF Ends
    <3> HIDE DEF turns
    <3>2. turns # {} => Max(turns) \in turns
      BY <1>5, <2>1, MaxOf
    <3>3. turns # {} => batch[Max(turns)].type = "run.started"
      BY <3>1, <3>2
    <3>4. Projected(hot, batch) # "final"
      BY <1>6, <1>8, <3>3
    <3> QED
      BY <1>2, <2>3, <3>4
  <2> QED
    BY <2>2, <2>3
<1>9. hot'.status # "none"
  BY <1>1, AppendedSound
<1> QED
  BY <1>1, <1>3, <1>7, <1>8, <1>9

-----------------------------------------------------------------------------
(* The worker's list and the stored log *)

Alive == pc \notin {"down", "done"}
Closing == pc \in {"resend", "flush", "settle"}
HasFinish(q) == \E i \in DOMAIN q : q[i].type = "run.finished"

\* Once run.finished is stored the run is final, and a final run's log is
\* complete as long as its worker lives.
FinishIsFinal == HasFinish(Stored) => hot.status = "final"

\* A worker's list goes on from the stored log, and what it has not stored
\* is at the end of the list and waits.
ListGoesOn ==
  Alive => /\ Dense(mem) /\ EndsOnce(mem)
           /\ Starts(Stored, mem) /\ Closes(pending, Stored, mem)
           /\ hot.status = "final" => Len(Stored) = Len(mem)
           /\ IF Closing THEN Ends(mem) ELSE ~HasFinish(mem) /\ hot.status # "final"

LInv == hot.status # "none" /\ Dense(Stored) /\ FinishIsFinal /\ ListGoesOn

\* The budgets bound the lists: a worker adds run.started or run.resumed to
\* what it finds, and run.finished.
SizeInv ==
  /\ Alive => Len(mem) + (IF pc \in {"boot", "open"} THEN 1 ELSE 0)
                 <= MaxEvents + try + (IF Closing THEN 1 ELSE 0)
  /\ Len(Stored) <= MaxEvents + try + (IF hot.status = "final" THEN 1 ELSE 0)

\* The viewer has an initial part of the log, and was told of an end only
\* when there is one.
ViewInv ==
  /\ cursor = Len(shown) /\ Starts(shown, Stored)
  /\ asked = "final" => hot.status = "final"
  /\ closed => asked = "idle"

-----------------------------------------------------------------------------
(* What a step does to the log *)

\* The database is as it was, or now holds the whole list m, and is final if
\* m ends.
Grown(m) ==
  \/ hot' = hot
  \/ /\ hot.status # "final" /\ hot'.status # "none"
     /\ Stored' = m /\ Len(Stored) < Len(m)
     /\ hot'.status = "final" <=> Ends(m)

\* A list that goes on from the stored log.
Continues(m) ==
  /\ m \in Seq(Event) /\ Dense(m) /\ EndsOnce(m) /\ Starts(Stored, m)
  /\ hot.status = "final" => Len(Stored) = Len(m)

LEMMA AppendGrows ==
  ASSUME RowSound(hot), NEW m, Continues(m),
         NEW batch \in Seq(Event), Closes(batch, Stored, m), AppendEvents(batch)
  PROVE  Grown(m) /\ Stored' = m
<1>1. /\ Stored' = m
      /\ hot.status # "none" /\ hot'.status # "none"
      /\ Len(Stored) = Len(m) => hot' = hot
      /\ Len(Stored) < Len(m) /\ hot.status # "final" => (hot'.status = "final" <=> Ends(m))
  BY AppendCompletes DEF Continues
<1>2. Len(Stored) <= Len(m) /\ Len(Stored) \in Nat /\ Len(m) \in Nat
  BY StoredIs DEF Continues, Starts
<1>3. CASE Len(Stored) = Len(m)
  BY <1>1, <1>3 DEF Grown
<1>4. CASE Len(Stored) # Len(m)
  <2>1. Len(Stored) < Len(m) /\ hot.status # "final"
    BY <1>2, <1>4 DEF Continues
  <2> QED
    BY <1>1, <2>1 DEF Grown
<1> QED
  BY <1>1, <1>3, <1>4

LEMMA SameStored ==
  ASSUME hot' = hot
  PROVE  Stored' = Stored
  BY DEF Stored

\* An answered batch is dropped, any other waits; either way the list goes on.
LEMMA SendGrows ==
  ASSUME RowSound(hot), NEW m, Continues(m),
         NEW batch \in Seq(Event), Closes(batch, Stored, m), Send(batch)
  PROVE  Grown(m) /\ Closes(pending', Stored', m)
<1>1. CASE AppendEvents(batch)
  <2>1. Grown(m) /\ Stored' = m
    BY <1>1, AppendGrows
  <2>2. pending' \in {<< >>, batch}
    BY DEF Send
  <2>3. \A b \in {<< >>, batch} : Closes(b, m, m)
    <3>1. Len(m) \in Nat /\ Len(batch) \in Nat /\ Len(<< >>) = 0 /\ DOMAIN << >> = {}
      BY DEF Continues
    <3>2. Closes(<< >>, m, m)
      BY <3>1 DEF Closes
    <3>3. Closes(batch, m, m)
      BY <3>1 DEF Closes
    <3> QED
      BY <3>2, <3>3
  <2> QED
    BY <2>1, <2>2, <2>3
<1>2. CASE hot' = hot /\ pending' = batch
  BY <1>2, SameStored DEF Grown
<1> QED
  BY <1>1, <1>2 DEF Send, store

\* A list that went on before the database grew goes on after.
LEMMA GrownContinues ==
  ASSUME RowSound(hot), RowSound(hot)', NEW m, Continues(m), Grown(m), LInv
  PROVE  /\ hot'.status # "none" /\ Dense(Stored') /\ FinishIsFinal'
         /\ Starts(Stored', m)
         /\ hot'.status = "final" => Len(Stored') = Len(m)
         /\ Stored' = Stored \/ Stored' = m
<1>1. CASE hot' = hot
  <2>1. Stored' = Stored
    BY <1>1, SameStored
  <2> QED
    BY <1>1, <2>1 DEF LInv, FinishIsFinal, Continues, HasFinish
<1>2. CASE Stored' = m /\ hot'.status # "none" /\ (hot'.status = "final" <=> Ends(m))
  <2>1. HasFinish(m) => Ends(m)
    <3> SUFFICES ASSUME NEW i \in DOMAIN m, m[i].type = "run.finished" PROVE Ends(m)
      BY DEF HasFinish
    <3>1. i = Len(m)
      BY DEF Continues, EndsOnce
    <3>2. Len(m) > 0
      BY <3>1 DEF Continues
    <3> QED
      BY <3>1, <3>2 DEF Ends
  <2>2. Starts(m, m)
    BY DEF Starts, Continues
  <2> QED
    BY <1>2, <2>1, <2>2 DEF FinishIsFinal, Continues, HasFinish
<1> QED
  BY <1>1, <1>2 DEF Grown

LEMMA MemContinues ==
  ASSUME VInv, LInv, Alive
  PROVE  Continues(mem) /\ pending \in Seq(Event) /\ Closes(pending, Stored, mem)
  BY DEF VInv, LInv, ListGoesOn, Continues, TypeOK

\* An event more: the list goes on, and the pending batch with it.
LEMMA Extended ==
  ASSUME VInv, LInv, pc \in {"open", "work"}, NEW kind \in Kinds,
         NEW e, e = [id |-> Len(mem), type |-> kind, by |-> try]
  PROVE  /\ Continues(Append(mem, e)) /\ Append(pending, e) \in Seq(Event)
         /\ Closes(Append(pending, e), Stored, Append(mem, e))
         /\ Len(Append(mem, e)) = Len(mem) + 1
         /\ Ends(Append(mem, e)) <=> kind = "run.finished"
         /\ HasFinish(Append(mem, e)) <=> kind = "run.finished"
<1> DEFINE m == Append(mem, e)
           b == Append(pending, e)
<1>1. /\ e \in Event /\ e.id = Len(mem) /\ e.type = kind
  BY BoundsAssumption DEF VInv, TypeOK, Event
<1>2. /\ mem \in Seq(Event) /\ pending \in Seq(Event) /\ Dense(mem)
      /\ Starts(Stored, mem) /\ Closes(pending, Stored, mem)
      /\ ~HasFinish(mem) /\ hot.status # "final"
  BY DEF VInv, TypeOK, LInv, ListGoesOn, Alive, Closing
<1>3. Len(mem) \in Nat /\ Len(pending) \in Nat /\ Len(Stored) \in Nat /\ DOMAIN Stored = 1 .. Len(Stored)
  BY <1>2, StoredIs DEF VInv
<1>4. /\ m \in Seq(Event) /\ Len(m) = Len(mem) + 1 /\ DOMAIN m = 1 .. Len(mem) + 1
      /\ m[Len(mem) + 1] = e /\ \A i \in 1 .. Len(mem) : m[i] = mem[i]
  BY <1>1, <1>2
<1>5. /\ b \in Seq(Event) /\ Len(b) = Len(pending) + 1 /\ DOMAIN b = 1 .. Len(pending) + 1
      /\ b[Len(pending) + 1] = e /\ \A i \in 1 .. Len(pending) : b[i] = pending[i]
  BY <1>1, <1>2
<1>6. \A i \in DOMAIN m : i \in 1 .. Len(mem) \/ i = Len(mem) + 1
  BY <1>3, <1>4
<1>7. Dense(m)
  <2>1. \A i \in 1 .. Len(mem) : m[i].id = i - 1
    BY <1>2, <1>4 DEF Dense
  <2>2. m[Len(mem) + 1].id = (Len(mem) + 1) - 1
    BY <1>1, <1>3, <1>4
  <2> QED
    BY <1>6, <2>1, <2>2 DEF Dense
<1>8. \A i \in DOMAIN m : m[i].type = "run.finished" <=> i = Len(m) /\ kind = "run.finished"
  <2>1. \A i \in 1 .. Len(mem) : m[i].type # "run.finished" /\ i # Len(mem) + 1
    BY <1>2, <1>3, <1>4 DEF HasFinish
  <2> QED
    BY <1>1, <1>4, <1>6, <2>1
<1>9. Len(mem) + 1 \in DOMAIN m /\ Len(m) > 0
  BY <1>3, <1>4
<1>10. EndsOnce(m) /\ (Ends(m) <=> kind = "run.finished") /\ (HasFinish(m) <=> kind = "run.finished")
  <2> HIDE DEF m
  <2> QED
    BY <1>4, <1>8, <1>9 DEF EndsOnce, Ends, HasFinish
<1>11. Starts(Stored, m)
  <2>1. \A i \in DOMAIN Stored : i \in 1 .. Len(mem)
    BY <1>2, <1>3 DEF Starts
  <2> QED
    BY <1>2, <1>3, <1>4, <2>1 DEF Starts
<1>12. Closes(b, Stored, m)
  <2>1. Len(b) <= Len(m) /\ Len(m) - Len(b) = Len(mem) - Len(pending)
    BY <1>2, <1>3, <1>4, <1>5 DEF Closes
  <2>2. \A i \in 1 .. Len(pending) : b[i] = m[Len(mem) - Len(pending) + i]
    <3> SUFFICES ASSUME NEW i \in 1 .. Len(pending)
                 PROVE  b[i] = m[Len(mem) - Len(pending) + i]
      OBVIOUS
    <3>1. pending[i] = mem[Len(mem) - Len(pending) + i]
      BY <1>2, <1>3 DEF Closes
    <3>2. Len(mem) - Len(pending) + i \in 1 .. Len(mem)
      BY <1>2, <1>3 DEF Closes
    <3> QED
      BY <1>4, <1>5, <3>1, <3>2
  <2>3. b[Len(pending) + 1] = m[Len(mem) - Len(pending) + (Len(pending) + 1)]
    <3>1. Len(mem) - Len(pending) + (Len(pending) + 1) = Len(mem) + 1
      BY <1>3
    <3> QED
      BY <1>4, <1>5, <3>1
  <2>4. \A i \in DOMAIN b : i \in 1 .. Len(pending) \/ i = Len(pending) + 1
    BY <1>3, <1>5
  <2>5. Len(mem) - Len(pending) <= Len(Stored)
    BY <1>2 DEF Closes
  <2> HIDE DEF b, m
  <2> QED
    BY <2>1, <2>2, <2>3, <2>4, <2>5 DEF Closes
<1>13. Continues(m)
  BY <1>2, <1>4, <1>7, <1>10, <1>11 DEF Continues
<1> QED
  BY <1>4, <1>5, <1>10, <1>12, <1>13

-----------------------------------------------------------------------------
(* Each step of a run whose Store stays up *)

\* What the log may do: stay, become final, or grow before it is final.
LogStep ==
  \/ Stored' = Stored /\ (hot.status = "final" => hot'.status = "final")
  \/ hot.status # "final" /\ Starts(Stored, Stored') /\ Len(Stored) < Len(Stored')

LEMMA GrownSteps ==
  ASSUME RowSound(hot), NEW m, Continues(m), Grown(m)
  PROVE  LogStep
<1>1. CASE hot' = hot
  BY <1>1, SameStored DEF LogStep
<1>2. CASE hot.status # "final" /\ Stored' = m /\ Len(Stored) < Len(m)
  BY <1>2 DEF LogStep, Continues
<1> QED
  BY <1>1, <1>2 DEF Grown

\* A worker that is not through leaves its list a list that goes on.
LEMMA EmitGoes ==
  ASSUME VInv, VInv', LInv, pc \in {"open", "work"}, NEW kind \in Kinds, Emit(kind),
         pc' = IF kind = "run.finished" THEN "resend" ELSE "work"
  PROVE  /\ LInv' /\ LogStep /\ Len(mem') = Len(mem) + 1
         /\ \/ Stored' = Stored /\ hot'.status = hot.status
            \/ Stored' = mem'
<1> DEFINE e == [id |-> Len(mem), type |-> kind, by |-> try]
           m == Append(mem, e)
           b == Append(pending, e)
<1>1. /\ Continues(m) /\ b \in Seq(Event) /\ Closes(b, Stored, m)
      /\ Len(m) = Len(mem) + 1
      /\ Ends(m) <=> kind = "run.finished"
      /\ HasFinish(m) <=> kind = "run.finished"
  BY Extended
<1>2. mem' = m /\ (Send(b) \/ (UNCHANGED store /\ pending' = b))
  BY DEF Emit
<1> HIDE DEF e, m, b
<1>3. RowSound(hot) /\ RowSound(hot)'
  BY DEF VInv
<1>4. Grown(m) /\ Closes(pending', Stored', m)
  <2>1. CASE Send(b)
    BY <1>1, <1>3, <2>1, SendGrows
  <2>2. CASE UNCHANGED store /\ pending' = b
    <3>1. hot' = hot
      BY <2>2 DEF store
    <3> QED
      BY <1>1, <2>2, <3>1, SameStored DEF Grown
  <2> QED
    BY <1>2, <2>1, <2>2
<1>5. /\ hot'.status # "none" /\ Dense(Stored') /\ FinishIsFinal'
      /\ Starts(Stored', m)
      /\ hot'.status = "final" => Len(Stored') = Len(m)
      /\ Stored' = Stored \/ Stored' = m
  BY <1>1, <1>3, <1>4, GrownContinues
<1>6. Dense(m) /\ EndsOnce(m)
  BY <1>1 DEF Continues
<1>7. hot.status # "final"
  BY DEF LInv, ListGoesOn, Alive, Closing
<1>8. hot'.status = "final" => kind = "run.finished"
  BY <1>1, <1>4, <1>7 DEF Grown
<1>9. ListGoesOn'
  BY <1>1, <1>2, <1>4, <1>5, <1>6, <1>8 DEF ListGoesOn, Alive, Closing
<1>10. \/ Stored' = Stored /\ hot'.status = hot.status
       \/ Stored' = m
  BY <1>4, SameStored DEF Grown
<1> QED
  BY <1>1, <1>2, <1>3, <1>4, <1>5, <1>9, <1>10, GrownSteps DEF LInv

\* A batch of the worker's own list, sent while it stays as it is.
LEMMA BatchGoes ==
  ASSUME VInv, VInv', LInv, Alive, mem' = mem, Grown(mem), Closes(pending', Stored', mem),
         \/ Closing /\ pc' \in {"flush", "settle"}
         \/ pc \in {"boot", "open", "work"} /\ pc' \in {"boot", "open", "work"}
  PROVE  /\ LInv' /\ LogStep
         /\ \/ Stored' = Stored /\ hot'.status = hot.status
            \/ Stored' = mem
<1>1. Continues(mem) /\ RowSound(hot) /\ RowSound(hot)'
  BY MemContinues DEF VInv
<1>2. /\ hot'.status # "none" /\ Dense(Stored') /\ FinishIsFinal'
      /\ Starts(Stored', mem)
      /\ hot'.status = "final" => Len(Stored') = Len(mem)
  BY <1>1, GrownContinues
<1>3. /\ IF Closing THEN Ends(mem) ELSE ~HasFinish(mem) /\ hot.status # "final"
      /\ mem \in Seq(Event)
  BY DEF LInv, ListGoesOn, VInv, TypeOK
<1>4. ~Closing => hot'.status # "final"
  <2>1. Ends(mem) => HasFinish(mem)
    <3>1. Len(mem) > 0 => Len(mem) \in DOMAIN mem
      BY <1>3
    <3> QED
      BY <3>1 DEF Ends, HasFinish
  <2> QED
    BY <1>3, <2>1 DEF Grown
<1>5. ListGoesOn'
  BY <1>1, <1>2, <1>3, <1>4 DEF ListGoesOn, Alive, Closing, Continues
<1>6. \/ Stored' = Stored /\ hot'.status = hot.status
      \/ Stored' = mem
  BY SameStored DEF Grown
<1> QED
  BY <1>1, <1>2, <1>5, <1>6, GrownSteps DEF LInv

LEMMA SizeTypes ==
  ASSUME VInv
  PROVE  /\ MaxEvents \in Nat /\ Retries \in Nat /\ try \in Nat /\ try <= Retries + 1
         /\ Len(mem) \in Nat /\ Len(Stored) \in Nat
  BY Bounds, StoredIs DEF VInv, TypeOK

\* The Store gets a status and no event.
LEMMA StatusGoes ==
  ASSUME VInv, NEW status \in {"running", "final"}, Update(status)
  PROVE  Stored' = Stored /\ hot'.status \in {hot.status, status}
<1>1. CASE FinishRun(status)
  <2>1. hot'.events = hot.events /\ hot'.status = status
    BY <1>1 DEF FinishRun, VInv, RowSound
  <2> QED
    BY <2>1 DEF Stored
<1>2. CASE UNCHANGED store
  BY <1>2 DEF store, Stored
<1> QED
  BY <1>1, <1>2 DEF Update

LEMMA InvokeGoes ==
  ASSUME VInv, VInv', LInv, SizeInv, Invoke
  PROVE  LInv' /\ SizeInv' /\ LogStep
<1>1. /\ hot' = hot /\ mem' = Stored /\ pending' = << >> /\ try' = try + 1
      /\ pc' = IF hot.status = "final" THEN "done" ELSE "boot"
  BY DEF Invoke, LInv, Stored
<1>2. Stored' = Stored
  BY <1>1, SameStored
<1>3. Stored \in Seq(Event)
  BY StoredIs DEF VInv
<1>4. LogStep
  BY <1>1, <1>2 DEF LogStep
<1>5. ListGoesOn'
  <2> SUFFICES ASSUME hot.status # "final"
               PROVE  /\ Dense(Stored) /\ EndsOnce(Stored) /\ ~HasFinish(Stored)
                      /\ Starts(Stored, Stored) /\ Closes(<< >>, Stored, Stored)
    BY <1>1, <1>2 DEF ListGoesOn, Alive, Closing
  <2>1. ~HasFinish(Stored)
    BY DEF LInv, FinishIsFinal
  <2>2. EndsOnce(Stored)
    BY <2>1 DEF HasFinish, EndsOnce
  <2>3. Starts(Stored, Stored) /\ Closes(<< >>, Stored, Stored)
    BY <1>3 DEF Starts, Closes
  <2> QED
    BY <2>1, <2>2, <2>3 DEF LInv
<1>6. LInv'
  BY <1>1, <1>2, <1>5 DEF LInv, FinishIsFinal
<1>7. SizeInv'
  BY <1>1, <1>2, SizeTypes DEF SizeInv, Alive, Closing
<1> QED
  BY <1>4, <1>6, <1>7

LEMMA WorkerGoes ==
  ASSUME VInv, VInv', LInv, SizeInv, Worker
  PROVE  LInv' /\ SizeInv' /\ LogStep
<1>0. /\ MaxEvents \in Nat /\ try \in Nat /\ Len(mem) \in Nat /\ Len(Stored) \in Nat
      /\ RowSound(hot) /\ RowSound(hot)'
  BY SizeTypes DEF VInv
<1>1. CASE Invoke
  BY <1>1, InvokeGoes
<1>2. CASE SetRunning
  <2>1. /\ pc = "boot" /\ pc' = "open" /\ UNCHANGED <<mem, pending, try>> /\ Update("running")
    BY <1>2 DEF SetRunning, Goto
  <2>2. Stored' = Stored /\ hot'.status \in {hot.status, "running"}
    BY <2>1, StatusGoes
  <2>3. hot.status # "final" /\ hot.status # "none"
    BY <2>1 DEF LInv, ListGoesOn, Alive, Closing
  <2>4. ListGoesOn'
    BY <2>1, <2>2, <2>3 DEF LInv, ListGoesOn, Alive, Closing
  <2>5. LInv'
    BY <2>2, <2>3, <2>4 DEF LInv, FinishIsFinal
  <2>6. SizeInv'
    BY <2>1, <2>2, <2>3 DEF SizeInv, Alive, Closing
  <2> QED
    BY <2>2, <2>3, <2>5, <2>6 DEF LogStep
<1>3. ASSUME NEW kind \in Kinds, Emit(kind), pc \in {"open", "work"}, try' = try,
             pc' = IF kind = "run.finished" THEN "resend" ELSE "work",
             pc = "work" /\ kind # "run.finished" => Len(mem) < MaxEvents,
             pc = "open" => kind # "run.finished"
      PROVE  LInv' /\ SizeInv' /\ LogStep
  <2>1. /\ LInv' /\ LogStep /\ Len(mem') = Len(mem) + 1
        /\ \/ Stored' = Stored /\ hot'.status = hot.status
           \/ Stored' = mem'
    BY <1>3, EmitGoes
  <2>2. hot'.status = "final" => kind = "run.finished"
    BY <1>3, <2>1 DEF LInv, ListGoesOn, Alive, Closing
  <2>3. Len(mem) + 1 <= MaxEvents + try + (IF kind = "run.finished" THEN 1 ELSE 0)
    <3>1. CASE pc = "open"
      BY <1>0, <1>3, <3>1 DEF SizeInv, Alive, Closing
    <3>2. CASE pc = "work"
      BY <1>0, <1>3, <3>2 DEF SizeInv, Alive, Closing
    <3> QED
      BY <1>3, <3>1, <3>2
  <2>4. Alive' => Len(mem') + (IF pc' \in {"boot", "open"} THEN 1 ELSE 0)
                    <= MaxEvents + try' + (IF Closing' THEN 1 ELSE 0)
    BY <1>0, <1>3, <2>1, <2>3 DEF Closing
  <2>5. Len(Stored') <= MaxEvents + try' + (IF hot'.status = "final" THEN 1 ELSE 0)
    <3>1. CASE Stored' = Stored /\ hot'.status = hot.status
      BY <1>3, <3>1 DEF SizeInv
    <3>2. CASE Stored' = mem' /\ hot'.status = "final"
      BY <1>0, <1>3, <2>1, <2>2, <2>3, <3>2
    <3>3. CASE Stored' = mem' /\ hot'.status # "final" /\ kind # "run.finished"
      BY <1>0, <1>3, <2>1, <2>3, <3>3
    <3>4. CASE Stored' = mem' /\ hot'.status # "final" /\ kind = "run.finished"
      <4>1. Ends(mem') /\ mem' \in Seq(Event)
        BY <1>3, <2>1, <3>4 DEF LInv, ListGoesOn, Alive, Closing, VInv, TypeOK
      <4>2. HasFinish(mem')
        BY <4>1 DEF Ends, HasFinish
      <4> QED
        BY <2>1, <3>4, <4>2 DEF LInv, FinishIsFinal
    <3> QED
      BY <2>1, <3>1, <3>2, <3>3, <3>4
  <2> QED
    BY <2>1, <2>4, <2>5 DEF SizeInv
<1>4. CASE Begin \/ Work \/ Finish
  <2>1. CASE Begin
    <3>1. \E kind \in {"run.resumed", "run.started"} : Emit(kind)
      BY <2>1 DEF Begin
    <3> QED
      BY <1>3, <2>1, <3>1 DEF Begin, Goto, Kinds
  <2>2. CASE Work
    BY <1>3, <2>2 DEF Work, Goto, Kinds
  <2>3. CASE Finish
    BY <1>3, <2>3 DEF Finish, Goto, Kinds
  <2> QED
    BY <1>4, <2>1, <2>2, <2>3
<1>5. ASSUME Alive, mem' = mem, try' = try, Grown(mem), Closes(pending', Stored', mem),
             \/ Closing /\ pc' \in {"flush", "settle"}
             \/ pc = "work" /\ pc' = "work"
      PROVE  LInv' /\ SizeInv' /\ LogStep
  <2>1. /\ LInv' /\ LogStep
        /\ \/ Stored' = Stored /\ hot'.status = hot.status
           \/ Stored' = mem
    <3>1. \/ Closing /\ pc' \in {"flush", "settle"}
          \/ pc \in {"boot", "open", "work"} /\ pc' \in {"boot", "open", "work"}
      BY <1>5
    <3> QED
      BY <1>5, <3>1, BatchGoes
  <2>2. Len(mem) <= MaxEvents + try + (IF Closing THEN 1 ELSE 0)
    BY <1>0, <1>5 DEF SizeInv, Closing
  <2>3. Closing' <=> Closing
    BY <1>5 DEF Closing
  <2>4. pc' \notin {"boot", "open"}
    BY <1>5
  <2>5. Stored' = mem /\ Closing => hot'.status = "final"
    <3> SUFFICES ASSUME Stored' = mem, Closing PROVE hot'.status = "final"
      OBVIOUS
    <3>1. Ends(mem) /\ mem \in Seq(Event)
      BY <1>5 DEF LInv, ListGoesOn, VInv, TypeOK
    <3>2. HasFinish(mem)
      BY <3>1 DEF Ends, HasFinish
    <3> QED
      BY <2>1, <3>2 DEF LInv, FinishIsFinal
  <2>6. Len(Stored') <= MaxEvents + try' + (IF hot'.status = "final" THEN 1 ELSE 0)
    <3>1. CASE Stored' = Stored /\ hot'.status = hot.status
      BY <1>5, <3>1 DEF SizeInv
    <3>2. CASE Stored' = mem
      BY <1>0, <1>5, <2>2, <2>5, <3>2
    <3> QED
      BY <2>1, <3>1, <3>2
  <2> QED
    BY <1>0, <1>5, <2>1, <2>2, <2>3, <2>4, <2>6 DEF SizeInv
<1>6. CASE FlushTurn \/ FinalFlush \/ Resend
  <2>1. /\ Alive /\ mem' = mem /\ try' = try
        /\ \/ Closing /\ pc' \in {"flush", "settle"}
           \/ pc = "work" /\ pc' = "work"
    BY <1>6 DEF FlushTurn, FinalFlush, Resend, Goto, Alive, Closing
  <2>2. Continues(mem) /\ pending \in Seq(Event) /\ Closes(pending, Stored, mem)
    BY <2>1, MemContinues
  <2>3. Grown(mem) /\ Closes(pending', Stored', mem)
    <3>1. CASE Send(pending)
      BY <1>0, <2>2, <3>1, SendGrows
    <3>2. CASE hot' = hot /\ pending' = pending
      BY <2>2, <3>2, SameStored DEF Grown
    <3>3. CASE AppendEvents(mem) /\ pending' \in {pending, << >>}
      <4>1. mem \in Seq(Event)
        BY <2>2 DEF Continues
      <4>2. Closes(mem, Stored, mem) /\ Closes(<< >>, mem, mem) /\ Closes(pending, mem, mem)
        BY <1>0, <2>2, <4>1 DEF Closes
      <4>3. Grown(mem) /\ Stored' = mem
        BY <1>0, <2>2, <3>3, <4>1, <4>2, AppendGrows
      <4> QED
        BY <3>3, <4>2, <4>3
    <3> QED
      BY <1>6, <3>1, <3>2, <3>3 DEF FlushTurn, FinalFlush, Resend, store
  <2> QED
    BY <1>5, <2>1, <2>3
<1>7. CASE Settle
  <2>1. pc = "settle" /\ pc' = "done" /\ try' = try /\ Update("final")
    BY <1>7 DEF Settle, Goto
  <2>2. Stored' = Stored /\ hot'.status \in {hot.status, "final"}
    BY <2>1, StatusGoes
  <2>3. LInv'
    BY <2>1, <2>2 DEF LInv, ListGoesOn, Alive, FinishIsFinal
  <2>4. SizeInv'
    BY <1>0, <2>1, <2>2 DEF SizeInv, Alive
  <2> QED
    BY <2>2, <2>3, <2>4 DEF LogStep
<1> QED
  BY <1>1, <1>2, <1>4, <1>6, <1>7 DEF Worker

\* The others leave the run alone, but a death forgets the list.
LEMMA OthersGo ==
  ASSUME MaxRestarts = 0, VInv, LInv, SizeInv, [Next]_vars, ~Worker
  PROVE  /\ LInv' /\ SizeInv' /\ hot' = hot
         /\ \/ UNCHANGED <<asked, cursor, shown, closed>>
            \/ AskStatus
            \/ \E n \in 0 .. Len(Page) : Show(n)
<1>1. ~Restart
  BY DEF Restart, VInv, TypeOK
<1>2. CASE UNCHANGED worker /\ hot' = hot
  <2>1. Stored' = Stored
    BY <1>2, SameStored
  <2>2. LInv' /\ SizeInv'
    BY <1>2, <2>1 DEF LInv, SizeInv, FinishIsFinal, ListGoesOn, Alive, Closing, worker
  <2>3. \/ UNCHANGED <<asked, cursor, shown, closed>>
        \/ AskStatus
        \/ \E n \in 0 .. Len(Page) : Show(n)
    BY <1>1, <1>2 DEF Next, Over, Crash, Checkpoint, vars, viewer
  <2> QED
    BY <1>2, <2>2, <2>3
<1>3. CASE Crash
  <2>1. hot' = hot /\ pc' = "down" /\ try' = try /\ UNCHANGED <<asked, cursor, shown, closed>>
    BY <1>3 DEF Crash, store, viewer
  <2>2. Stored' = Stored
    BY <2>1, SameStored
  <2> QED
    BY <2>1, <2>2 DEF LInv, SizeInv, FinishIsFinal, ListGoesOn, Alive, Closing
<1>4. Crash \/ (UNCHANGED worker /\ hot' = hot)
  BY <1>1 DEF Next, Over, Checkpoint, AskStatus, Show, vars, worker, store
<1> QED
  BY <1>2, <1>3, <1>4

\* The invariant of a run whose Store stays up.
IInv == VInv /\ LInv /\ SizeInv

LEMMA StoredBegins == Init => Stored = << >>
<1> SUFFICES ASSUME Init PROVE Stored = << >>
  OBVIOUS
<1>1. hot.events = {} /\ Cardinality({}) = 0
  BY FS_EmptySet DEF Init, EmptyRow
<1> QED
  BY <1>1 DEF Stored, InOrder

LEMMA InitGoes == Init => IInv
<1> SUFFICES ASSUME Init PROVE IInv
  OBVIOUS
<1>1. VInv
  BY InitView
<1>2. Stored = << >> /\ hot.status = "queued" /\ pc = "down" /\ try = 0
  BY StoredBegins DEF Init, EmptyRow
<1>3. LInv
  BY <1>2 DEF LInv, Dense, FinishIsFinal, HasFinish, ListGoesOn, Alive
<1>4. SizeInv
  BY <1>2, Bounds DEF SizeInv, Alive
<1> QED
  BY <1>1, <1>3, <1>4 DEF IInv

LEMMA StepGoes ==
  ASSUME MaxRestarts = 0, IInv, [Next]_vars
  PROVE  IInv' /\ LogStep
<1>1. VInv'
  BY StepTypes DEF IInv
<1>2. CASE Worker
  BY <1>1, <1>2, WorkerGoes DEF IInv
<1>3. CASE ~Worker
  BY <1>1, <1>3, OthersGo, SameStored DEF IInv, LogStep
<1> QED
  BY <1>2, <1>3

-----------------------------------------------------------------------------
(* What follows *)

LEMMA ListIsKept == IInv => NothingForgotten
<1> SUFFICES ASSUME IInv, Alive PROVE NothingForgotten
  BY DEF NothingForgotten, Alive
<1>1. /\ mem \in Seq(Event) /\ pending \in Seq(Event) /\ Dense(mem)
      /\ Starts(Stored, mem) /\ Closes(pending, Stored, mem)
  BY DEF IInv, VInv, TypeOK, LInv, ListGoesOn
<1>2. /\ Stored \in Seq(Event) /\ Range(Stored) = hot.events
      /\ Len(Stored) = Cardinality(hot.events)
  BY StoredIs DEF IInv, VInv
<1>3. Len(Stored) \in 0 .. Len(mem)
  BY <1>1, <1>2 DEF Starts
<1>4. Stored = SubSeq(mem, 1, Len(Stored))
  <2>1. /\ SubSeq(mem, 1, Len(Stored)) \in Seq(Event)
        /\ Len(SubSeq(mem, 1, Len(Stored))) = Len(Stored)
        /\ \A i \in 1 .. Len(Stored) : SubSeq(mem, 1, Len(Stored))[i] = mem[i]
    BY <1>1, <1>3, FirstOf
  <2>2. \A i \in 1 .. Len(Stored) : Stored[i] = mem[i]
    BY <1>1, <1>2 DEF Starts
  <2> HIDE DEF Stored
  <2> QED
    BY <1>2, <2>1, <2>2, SeqEqual
<1>5. Range(mem) \ hot.events \subseteq Range(pending)
  <2> SUFFICES ASSUME NEW i \in DOMAIN mem, mem[i] \notin hot.events
               PROVE  \E j \in DOMAIN pending : pending[j] = mem[i]
    BY DEF Range
  <2>1. i \in 1 .. Len(mem) /\ Len(mem) \in Nat /\ Len(pending) \in Nat /\ Len(Stored) \in Nat
    BY <1>1, <1>2
  <2>2. ~(i <= Len(Stored))
    <3> SUFFICES ASSUME i <= Len(Stored) PROVE FALSE
      OBVIOUS
    <3>1. i \in DOMAIN Stored
      BY <1>2, <2>1
    <3>2. Stored[i] = mem[i] /\ Stored[i] \in hot.events
      BY <1>1, <1>2, <3>1 DEF Starts, Range
    <3> QED
      BY <3>2
  <2> DEFINE j == i - (Len(mem) - Len(pending))
  <2>3. j \in 1 .. Len(pending) /\ Len(mem) - Len(pending) + j = i
    BY <1>1, <2>1, <2>2 DEF Closes
  <2>4. j \in DOMAIN pending
    BY <1>1, <2>3
  <2>5. pending[j] = mem[i]
    BY <1>1, <2>3, <2>4 DEF Closes
  <2> QED
    BY <2>4, <2>5
<1> QED
  BY <1>1, <1>2, <1>4, <1>5 DEF NothingForgotten, Dense, Stored

\* While the Store stays up, the stored log is an initial part of the living
\* worker's list, and every event that is not stored waits in its pending
\* batch, whatever calls failed (events.py flush).
THEOREM NothingIsForgotten ==
  ASSUME MaxRestarts = 0 PROVE Spec => []NothingForgotten
<1>1. IInv /\ [Next]_vars => IInv'
  BY StepGoes
<1> QED
  BY <1>1, InitGoes, ListIsKept, PTL DEF Spec

\* Once the log of a Store that stays up holds run.finished, no invocation of
\* run_episode goes on with the run (modal_app.py run_episode).
THEOREM FinishedStaysFinished ==
  ASSUME MaxRestarts = 0 PROVE Spec => FinishedIsNotRerun
<1> DEFINE Stays == pc = "down" /\ (\E e \in hot.events : e.type = "run.finished")
                      => pc' \in {"down", "done"}
<1>1. IInv /\ [Next]_vars => IInv'
  BY StepGoes
<1>2. IInv /\ [Next]_vars => [Stays]_vars
  <2> SUFFICES ASSUME IInv, Next, pc = "down",
                      NEW e \in hot.events, e.type = "run.finished"
               PROVE  pc' \in {"down", "done"}
    OBVIOUS
  <2>1. Range(Stored) = hot.events
    BY StoredIs DEF IInv, VInv
  <2>2. HasFinish(Stored)
    BY <2>1 DEF HasFinish, Range
  <2>3. hot.status = "final"
    BY <2>2 DEF IInv, LInv, FinishIsFinal
  <2> QED
    BY <2>3 DEF Next, Over, Worker, Invoke, SetRunning, Begin, Work, FlushTurn, Finish, Resend,
                FinalFlush, Settle, Crash, Checkpoint, Restart, AskStatus, Show, worker, vars
<1> QED
  BY <1>1, <1>2, InitGoes, PTL DEF Spec, FinishedIsNotRerun

-----------------------------------------------------------------------------
(* A resend completes the log: without Store restarts, or without deaths. *)

LEMMA FreshFillsUp ==
  ASSUME NEW db, NEW m \in Seq(Event), Dense(m), db.events \subseteq Range(m)
  PROVE  Appended(db, m).events = Range(m)
<1>1. Appended(db, m).events = db.events \cup {m[i] : i \in Fresh(db, m)}
  BY DEF Appended
<1>2. Fresh(db, m) \subseteq DOMAIN m
  BY DEF Fresh
<1>3. ASSUME NEW i \in DOMAIN m
      PROVE  m[i] \in db.events \/ i \in Fresh(db, m)
  <2>1. \A j \in DOMAIN m : m[j].id = m[i].id => j = i
    BY DEF Dense
  <2>2. CASE m[i].id \in Ids(db)
    <3>1. PICK e \in db.events : e.id = m[i].id
      BY <2>2 DEF Ids
    <3>2. PICK j \in DOMAIN m : m[j] = e
      BY DEF Range
    <3> QED
      BY <2>1, <3>1, <3>2
  <2>3. CASE m[i].id \notin Ids(db)
    <3>1. \A j \in 1 .. i - 1 : j \in DOMAIN m /\ j # i
      OBVIOUS
    <3> QED
      BY <2>1, <2>3, <3>1 DEF Fresh
  <2> QED
    BY <2>2, <2>3
<1> QED
  BY <1>1, <1>2, <1>3 DEF Range

\* With no death there is one list, and all that was ever stored is of it.
OneList ==
  /\ pc = "down" => try = 0 /\ hot.events = {} /\ saved.events = {}
  /\ Alive => /\ try >= 1 /\ Dense(mem) /\ Range(pending) \subseteq Range(mem)
              /\ hot.events \cup saved.events \subseteq Range(mem)

LEMMA BatchAdds ==
  ASSUME NEW batch \in Seq(Event),
         AppendEvents(batch) \/ UNCHANGED store
  PROVE  /\ hot'.events \subseteq hot.events \cup Range(batch)
         /\ saved'.events \subseteq hot.events \cup saved.events \cup Range(batch)
<1>1. CASE AppendEvents(batch)
  <2>1. hot' = Appended(hot, batch) /\ saved' \in {saved, hot'}
    BY <1>1 DEF AppendEvents, MayHaveSaved
  <2>2. Fresh(hot, batch) \subseteq DOMAIN batch
    BY DEF Fresh
  <2>3. hot'.events = hot.events \cup {batch[i] : i \in Fresh(hot, batch)}
    BY <2>1 DEF Appended
  <2> QED
    BY <2>1, <2>2, <2>3 DEF Range
<1>2. CASE UNCHANGED store
  BY <1>2 DEF store
<1> QED
  BY <1>1, <1>2

LEMMA OneListStep ==
  ASSUME MaxCrashes = 0, VInv, OneList, [Next]_vars
  PROVE  OneList'
<1>0. mem \in Seq(Event) /\ pending \in Seq(Event) /\ try \in Nat /\ RowSound(hot)
  BY SizeTypes DEF VInv, TypeOK
<1>1. CASE Invoke
  <2>1. hot.events = {} /\ try = 0 /\ saved.events = {}
    BY <1>1 DEF OneList, Invoke
  <2>2. mem' = << >> /\ pending' = << >> /\ try' = 1 /\ hot'.events = {} /\ saved' = saved
        /\ pc' \in {"boot", "done"}
    BY <1>1, <2>1, FS_EmptySet DEF Invoke, InOrder, EmptyRow
  <2> QED
    BY <2>1, <2>2 DEF OneList, Alive, Dense, Range
<1>2. ASSUME Alive, pc' # "down", try' = try, Dense(mem'),
             Range(mem) \cup Range(pending') \subseteq Range(mem'),
             hot'.events \subseteq hot.events \cup Range(mem'),
             saved'.events \subseteq saved.events \cup hot.events \cup Range(mem')
      PROVE  OneList'
  BY <1>2 DEF OneList, Alive
<1>3. CASE SetRunning \/ Settle
  <2>1. \E status \in {"running", "final"} : Update(status)
    BY <1>3 DEF SetRunning, Settle
  <2>2. hot'.events = hot.events /\ saved'.events \in {saved.events, hot.events}
    BY <2>1 DEF Update, FinishRun, MayHaveSaved, store, VInv, RowSound
  <2>3. Alive /\ pc' # "down" /\ try' = try /\ mem' = mem /\ pending' = pending
    BY <1>3 DEF SetRunning, Settle, Goto, Alive
  <2> QED
    BY <1>2, <2>2, <2>3 DEF OneList
<1>4. ASSUME NEW kind \in Kinds, Emit(kind), Alive, pc' # "down", try' = try
      PROVE  OneList'
  <2> DEFINE e == [id |-> Len(mem), type |-> kind, by |-> try]
             b == Append(pending, e)
  <2>1. e \in Event /\ e.id = Len(mem)
    BY <1>0 DEF Event
  <2>2. /\ mem' = Append(mem, e) /\ (Send(b) \/ (UNCHANGED store /\ pending' = b))
    BY <1>4 DEF Emit
  <2> HIDE DEF e
  <2>3. /\ mem' \in Seq(Event) /\ DOMAIN mem' = 1 .. Len(mem) + 1
        /\ mem'[Len(mem) + 1] = e /\ \A i \in 1 .. Len(mem) : mem'[i] = mem[i]
        /\ Len(mem) \in Nat /\ DOMAIN mem = 1 .. Len(mem)
    BY <1>0, <2>1, <2>2
  <2>4. Dense(mem')
    <3>1. \A i \in 1 .. Len(mem) : mem'[i].id = i - 1
      BY <1>4, <2>3 DEF OneList, Dense
    <3>2. \A i \in DOMAIN mem' : i \in 1 .. Len(mem) \/ i = Len(mem) + 1
      BY <2>3
    <3>3. mem'[Len(mem) + 1].id = (Len(mem) + 1) - 1
      BY <2>1, <2>3
    <3> QED
      BY <3>1, <3>2, <3>3 DEF Dense
  <2>5. e \in Range(mem') /\ Range(mem) \subseteq Range(mem')
    <3>1. Len(mem) + 1 \in DOMAIN mem' /\ DOMAIN mem \subseteq DOMAIN mem'
      BY <2>3
    <3> QED
      BY <2>3, <3>1 DEF Range
  <2>6. b \in Seq(Event) /\ Range(b) \subseteq Range(mem')
    <3>1. /\ b \in Seq(Event) /\ DOMAIN b = 1 .. Len(pending) + 1 /\ DOMAIN pending = 1 .. Len(pending)
          /\ b[Len(pending) + 1] = e /\ \A i \in 1 .. Len(pending) : b[i] = pending[i]
          /\ Len(pending) \in Nat
      BY <1>0, <2>1
    <3>2. \A i \in DOMAIN b : i \in 1 .. Len(pending) \/ i = Len(pending) + 1
      BY <3>1
    <3>3. Range(b) \subseteq Range(pending) \cup {e}
      <4> HIDE DEF b
      <4> QED
        BY <3>1, <3>2 DEF Range
    <3> QED
      BY <1>4, <2>5, <3>1, <3>3 DEF OneList
  <2> HIDE DEF b
  <2>7. AppendEvents(b) \/ UNCHANGED store
    BY <2>2 DEF Send
  <2>8. pending' \in {b, << >>} /\ Range(<< >>) = {}
    BY <2>2 DEF Send, Range
  <2> QED
    BY <1>2, <1>4, <2>4, <2>5, <2>6, <2>7, <2>8, BatchAdds
<1>5. CASE Begin \/ Work \/ Finish
  <2>1. \E kind \in Kinds : Emit(kind)
    BY <1>5 DEF Begin, Work, Finish, Kinds
  <2> QED
    BY <1>4, <1>5, <2>1 DEF Begin, Work, Finish, Goto, Alive
<1>6. CASE FlushTurn \/ FinalFlush \/ Resend
  <2>1. Alive /\ pc' # "down" /\ try' = try /\ mem' = mem
    BY <1>6 DEF FlushTurn, FinalFlush, Resend, Goto, Alive
  <2>2. \E batch \in {mem, pending} : AppendEvents(batch) \/ UNCHANGED store
    BY <1>6 DEF FlushTurn, FinalFlush, Resend, Send
  <2>3. pending' \in {pending, << >>} /\ Range(<< >>) = {}
    BY <1>6 DEF FlushTurn, FinalFlush, Resend, Send, Range
  <2>4. Range(pending) \subseteq Range(mem) /\ Dense(mem)
    BY <2>1 DEF OneList
  <2>5. /\ hot'.events \subseteq hot.events \cup Range(mem)
        /\ saved'.events \subseteq hot.events \cup saved.events \cup Range(mem)
    BY <1>0, <2>2, <2>4, BatchAdds
  <2> QED
    BY <1>2, <2>1, <2>3, <2>4, <2>5
<1>7. ~Crash
  BY <1>0 DEF Crash, OneList, Alive
<1>8. CASE UNCHANGED worker /\ hot' \in {hot, saved} /\ saved' \in {hot, saved}
  BY <1>8 DEF OneList, Alive, worker
<1>9. CASE ~Worker
  BY <1>7, <1>8, <1>9 DEF Next, Over, Checkpoint, Restart, AskStatus, Show, vars, worker, store
<1> QED
  BY <1>1, <1>3, <1>5, <1>6, <1>9 DEF Worker

\* What ResendIsComplete says of a step.
Completes ==
  pc = "resend" /\ pc' = "flush" /\ blips' = blips /\ hot.status # "none"
    => hot'.events = Range(mem)

LEMMA AnsweredResend ==
  ASSUME VInv, Next, pc = "resend", pc' = "flush", blips' = blips, hot.status # "none"
  PROVE  AppendEvents(mem)
<1>1. Resend
  BY DEF Next, Over, Worker, Invoke, SetRunning, Begin, Work, FlushTurn, Finish, FinalFlush, Settle,
         Goto, Crash, Checkpoint, Restart, AskStatus, Show, worker, vars
<1>2. ~Blip
  BY DEF Blip, VInv, TypeOK
<1> QED
  BY <1>1, <1>2 DEF Resend

LEMMA ResendStays ==
  ASSUME IInv, [Next]_vars
  PROVE  [Completes]_vars
<1> SUFFICES ASSUME Next, pc = "resend", pc' = "flush", blips' = blips, hot.status # "none"
             PROVE  hot'.events = Range(mem)
  BY DEF Completes
<1>1. AppendEvents(mem) /\ Alive /\ VInv /\ LInv
  BY AnsweredResend DEF IInv, Alive
<1>2. Continues(mem) /\ RowSound(hot)
  BY <1>1, MemContinues DEF VInv
<1>3. mem \in Seq(Event) /\ Starts(Stored, mem) /\ Len(Stored) \in Nat
  BY <1>2, StoredIs DEF Continues
<1>4. Closes(mem, Stored, mem)
  BY <1>3 DEF Closes
<1>5. Fresh(hot, mem) = {i \in DOMAIN mem : Len(mem) - Len(mem) + i > Len(Stored)}
      /\ hot.events \cup {mem[i] : i \in Fresh(hot, mem)} = Range(mem)
  BY <1>2, <1>3, <1>4, FreshIsNew DEF Continues
<1> QED
  BY <1>1, <1>5 DEF AppendEvents, Appended

LEMMA ResendRefills ==
  ASSUME VInv, OneList, [Next]_vars
  PROVE  [Completes]_vars
<1> SUFFICES ASSUME Next, pc = "resend", pc' = "flush", blips' = blips, hot.status # "none"
             PROVE  hot'.events = Range(mem)
  BY DEF Completes
<1>1. AppendEvents(mem) /\ Alive
  BY AnsweredResend DEF Alive
<1>2. mem \in Seq(Event) /\ Dense(mem) /\ hot.events \subseteq Range(mem)
  BY <1>1 DEF OneList, VInv, TypeOK
<1> QED
  BY <1>1, <1>2, FreshFillsUp DEF AppendEvents

\* An answered resend_all leaves exactly the worker's list in the Store, if
\* the Store stays up or no worker dies; with both, EventLogCollision shows
\* it false (events.py resend_all).
THEOREM ResendCompletes ==
  ASSUME MaxRestarts = 0 \/ MaxCrashes = 0 PROVE Spec => ResendIsComplete
<1>1. Spec => [][Completes]_vars
  <2>1. CASE MaxRestarts = 0
    <3>1. IInv /\ [Next]_vars => IInv' /\ [Completes]_vars
      BY <2>1, StepGoes, ResendStays
    <3> QED
      BY <3>1, InitGoes, PTL DEF Spec
  <2>2. CASE MaxCrashes = 0
    <3>1. Init => VInv /\ OneList
      BY InitView DEF Init, OneList, Alive, EmptyRow, NoRow
    <3>2. VInv /\ OneList /\ [Next]_vars => (VInv /\ OneList)' /\ [Completes]_vars
      BY <2>2, StepTypes, OneListStep, ResendRefills
    <3> QED
      BY <3>1, <3>2, PTL DEF Spec
  <2> QED
    BY <2>1, <2>2
<1> QED
  BY <1>1, PTL DEF Completes, ResendIsComplete

-----------------------------------------------------------------------------
(* The run is RunStream, if a page takes all a viewer may have missed. *)

LEMMA StartsIsPrefix ==
  ASSUME NEW p \in Seq(Event), NEW q \in Seq(Event), Starts(p, q)
  PROVE  Abstract!IsPrefix(p, q)
<1>1. Len(p) \in 0 .. Len(q) /\ Len(p) \in 0 .. Len(p)
  BY DEF Starts
<1> DEFINE s == SubSeq(p, 1, Len(p))
           t == SubSeq(q, 1, Len(p))
<1>2. /\ s \in Seq(Event) /\ Len(s) = Len(p) /\ \A i \in 1 .. Len(p) : s[i] = p[i]
      /\ t \in Seq(Event) /\ Len(t) = Len(p) /\ \A i \in 1 .. Len(p) : t[i] = q[i]
  BY <1>1, FirstOf
<1>3. \A i \in 1 .. Len(p) : p[i] = q[i]
  BY DEF Starts
<1> HIDE DEF s, t
<1>4. s = t
  BY <1>2, <1>3, SeqEqual
<1> QED
  BY <1>1, <1>4 DEF Abstract!IsPrefix, s, t

\* A page holds the rest of the log.
LEMMA PageIsRest ==
  ASSUME PageLimit >= MaxEvents + Retries + 2, IInv, ViewInv
  PROVE  /\ Page \in Seq(Event) /\ Len(Page) = Len(Stored) - cursor
         /\ \A i \in 1 .. Len(Page) : Page[i] = Stored[cursor + i]
<1> DEFINE k == Len(Stored)
           T == {e \in hot.events : e.id >= cursor}
           new == InOrder(T)
           q == [i \in 1 .. k - cursor |-> Stored[cursor + i]]
<1>1. /\ Page \in Seq(Event) /\ new \in Seq(Event)
      /\ Len(Page) = IF PageLimit <= Len(new) THEN PageLimit ELSE Len(new)
      /\ \A i \in 1 .. Len(Page) : Page[i] = new[i]
  BY PageSorted DEF IInv
<1>2. /\ Stored \in Seq(Event) /\ Range(Stored) = hot.events /\ k \in Nat
      /\ DOMAIN Stored = 1 .. k
  BY StoredIs DEF IInv, VInv
<1>3. cursor \in 0 .. k
  BY <1>2 DEF ViewInv, Starts, IInv, VInv, TypeOK
<1>4. k <= PageLimit /\ PageLimit \in Nat
  <2>1. k <= MaxEvents + try + 1
    BY SizeTypes DEF IInv, SizeInv
  <2> QED
    BY <2>1, SizeTypes, BoundsAssumption DEF IInv
<1>5. \A j \in 1 .. k : Stored[j].id = j - 1
  BY <1>2 DEF IInv, LInv, Dense
<1> HIDE DEF k
<1>6. \A i \in 1 .. k - cursor : cursor + i \in 1 .. k
  BY <1>2, <1>3
<1>7. q \in Seq(Event) /\ Len(q) = k - cursor /\ DOMAIN q = 1 .. k - cursor
  <2>1. \A i \in 1 .. k - cursor : Stored[cursor + i] \in Event
    BY <1>2, <1>6
  <2>2. k - cursor \in Nat
    BY <1>2, <1>3
  <2> QED
    BY <2>1, <2>2
<1>8. Ascending(q)
  <2> SUFFICES ASSUME NEW i \in 1 .. k - cursor, NEW j \in 1 .. k - cursor, i < j
               PROVE  Stored[cursor + i].id < Stored[cursor + j].id
    BY <1>7 DEF Ascending
  <2>1. Stored[cursor + i].id = (cursor + i) - 1 /\ Stored[cursor + j].id = (cursor + j) - 1
    BY <1>5, <1>6
  <2> QED
    BY <1>2, <1>3, <2>1
<1>9. Range(q) = T
  <2>1. Range(q) = {Stored[cursor + i] : i \in 1 .. k - cursor}
    BY <1>7 DEF Range
  <2>2. hot.events = {Stored[j] : j \in 1 .. k}
    BY <1>2 DEF Range
  <2>3. ASSUME NEW i \in 1 .. k - cursor PROVE Stored[cursor + i] \in T
    <3>1. Stored[cursor + i] \in hot.events /\ Stored[cursor + i].id = (cursor + i) - 1
      BY <1>5, <1>6, <2>2
    <3>2. (cursor + i) - 1 >= cursor
      BY <1>2, <1>3
    <3> QED
      BY <3>1, <3>2
  <2>4. ASSUME NEW j \in 1 .. k, Stored[j].id >= cursor
        PROVE  \E i \in 1 .. k - cursor : Stored[j] = Stored[cursor + i]
    <3>1. j - cursor \in 1 .. k - cursor /\ cursor + (j - cursor) = j
      BY <1>2, <1>3, <1>5, <2>4
    <3> QED
      BY <3>1
  <2> HIDE DEF q
  <2> QED
    BY <2>1, <2>2, <2>3, <2>4
<1>10. new = q
  <2> HIDE DEF q
  <2> QED
    BY <1>7, <1>8, <1>9, InOrderIs
<1>11. Len(Page) = k - cursor
  <2> HIDE DEF q, new
  <2>1. Len(new) = k - cursor
    BY <1>7, <1>10
  <2> QED
    BY <1>1, <1>2, <1>3, <1>4, <2>1
<1>12. \A i \in 1 .. Len(Page) : Page[i] = q[i]
  <2> HIDE DEF q, new
  <2> QED
    BY <1>1, <1>10
<1> QED
  BY <1>1, <1>11, <1>12 DEF k

LEMMA StartsTransitive ==
  ASSUME NEW p \in Seq(Event), NEW q \in Seq(Event), NEW r \in Seq(Event),
         Starts(p, q), Starts(q, r)
  PROVE  Starts(p, r)
<1>1. Len(p) \in Nat /\ Len(q) \in Nat /\ Len(r) \in Nat
      /\ Len(p) <= Len(q) /\ Len(q) <= Len(r)
      /\ DOMAIN p = 1 .. Len(p) /\ DOMAIN q = 1 .. Len(q)
  BY DEF Starts
<1>2. \A i \in DOMAIN p : i \in DOMAIN q
  BY <1>1
<1> QED
  BY <1>1, <1>2 DEF Starts

LEMMA ShowRefines ==
  ASSUME PageLimit >= MaxEvents + Retries + 2, IInv, ViewInv,
         NEW n \in 0 .. Len(Page), Show(n)
  PROVE  ViewInv' /\ Abstract!Show
<1> DEFINE k == Len(Stored)
<1>1. /\ n \in Nat /\ n <= Len(Page) /\ Len(Page) \in Nat /\ DOMAIN Page = 1 .. Len(Page)
      /\ shown' \in Seq(Event)
      /\ Len(shown') = Len(shown) + n
      /\ Len(shown) \in Nat /\ DOMAIN shown = 1 .. Len(shown) /\ DOMAIN shown' = 1 .. Len(shown')
      /\ \A i \in DOMAIN shown' :
           shown'[i] = IF i <= Len(shown) THEN shown[i] ELSE Page[i - Len(shown)]
  BY ShowAdds DEF IInv
<1>2. /\ Page \in Seq(Event) /\ Len(Page) = k - cursor
      /\ \A i \in 1 .. Len(Page) : Page[i] = Stored[cursor + i]
  BY PageIsRest
<1>3. /\ asked # "idle" /\ asked' = "idle" /\ hot' = hot
      /\ cursor' = IF n = 0 THEN cursor ELSE Page[n].id + 1
      /\ closed' = (n = Len(Page) /\ asked = "final")
  BY DEF Show, store
<1>4. Stored' = Stored
  BY <1>3, SameStored
<1>5. /\ Stored \in Seq(Event) /\ k \in Nat /\ DOMAIN Stored = 1 .. k
      /\ shown \in Seq(Event)
      /\ cursor = Len(shown) /\ Starts(shown, Stored) /\ Dense(Stored)
  BY StoredIs DEF IInv, VInv, TypeOK, LInv, ViewInv
<1> HIDE DEF k
<1>6. Starts(shown', Stored)
  <2>1. Len(shown') <= k
    BY <1>1, <1>2, <1>5
  <2>2. ASSUME NEW i \in DOMAIN shown' PROVE shown'[i] = Stored[i]
    <3>1. CASE i <= Len(shown)
      BY <1>1, <1>5, <3>1 DEF Starts
    <3>2. CASE ~(i <= Len(shown))
      <4>1. i - Len(shown) \in 1 .. Len(Page) /\ cursor + (i - Len(shown)) = i
        BY <1>1, <1>5, <3>2
      <4> QED
        BY <1>1, <1>2, <3>2, <4>1
    <3> QED
      BY <3>1, <3>2
  <2> QED
    BY <2>1, <2>2 DEF Starts, k
<1>7. cursor' = Len(shown')
  <2>1. CASE n = 0
    BY <1>1, <1>3, <1>5, <2>1
  <2>2. CASE n # 0
    <3>1. n \in 1 .. Len(Page) /\ cursor + n \in 1 .. k
      BY <1>1, <1>2, <1>5, <2>2
    <3>2. Page[n] = Stored[cursor + n] /\ Stored[cursor + n].id = (cursor + n) - 1
      BY <1>2, <1>5, <3>1 DEF Dense
    <3>3. cursor' = (cursor + n) - 1 + 1
      BY <1>3, <2>2, <3>2
    <3> QED
      BY <1>1, <1>5, <3>3
  <2> QED
    BY <2>1, <2>2
<1>8. closed' => hot.status = "final" /\ shown' = Stored
  <2> SUFFICES ASSUME n = Len(Page), asked = "final" PROVE hot.status = "final" /\ shown' = Stored
    BY <1>3
  <2>1. Len(shown') = k
    BY <1>1, <1>2, <1>5
  <2>2. shown' = Stored
    BY <1>1, <1>5, <1>6, <2>1, SeqEqual DEF Starts, k
  <2> QED
    BY <2>2 DEF ViewInv
<1>9. Starts(shown, shown')
  BY <1>1 DEF Starts
<1>10. ViewInv'
  BY <1>3, <1>4, <1>6, <1>7 DEF ViewInv
<1>11. Abstract!IsPrefix(shown, shown') /\ Abstract!IsPrefix(shown', Stored)
  BY <1>1, <1>5, <1>6, <1>9, StartsIsPrefix
<1>12. ~closed /\ closed' \in BOOLEAN
  BY <1>3 DEF ViewInv
<1>13. (hot.status = "final")' = (hot.status = "final")
  BY <1>3
<1> QED
  BY <1>1, <1>4, <1>8, <1>10, <1>11, <1>12, <1>13 DEF Abstract!Show, Stored

\* StoredIs in the next state.
LEMMA NextStored ==
  ASSUME RowSound(hot)'
  PROVE  Stored' \in Seq(Event)
<1>1. hot'.events \in SUBSET Event /\ IsFiniteSet(hot'.events) /\ UniqueIds(hot'.events)
  BY DEF RowSound
<1> QED
  BY <1>1, InOrderSorts DEF Stored

LEMMA StepStreams ==
  ASSUME MaxRestarts = 0, PageLimit >= MaxEvents + Retries + 2,
         IInv, IInv', ViewInv, [Next]_vars
  PROVE  ViewInv' /\ (Abstract!Next \/ UNCHANGED Abstract!vars)
<1>1. LogStep
  BY StepGoes
<1>2. Stored \in Seq(Event) /\ Stored' \in Seq(Event) /\ shown \in Seq(Event)
      /\ Len(Stored) \in Nat
  <2>1. Stored \in Seq(Event) /\ Stored' \in Seq(Event)
    BY StoredIs, NextStored DEF IInv, VInv
  <2> QED
    BY <2>1 DEF IInv, VInv, TypeOK
<1>3. ASSUME UNCHANGED viewer PROVE ViewInv' /\ (Abstract!Next \/ UNCHANGED Abstract!vars)
  <2>1. UNCHANGED <<asked, cursor, shown, closed>>
    BY <1>3 DEF viewer
  <2>2. CASE Stored' = Stored /\ (hot.status = "final" => hot'.status = "final")
    <3>1. ViewInv'
      BY <2>1, <2>2 DEF ViewInv
    <3>2. CASE hot.status = "final" <=> hot'.status = "final"
      <4>1. (hot.status = "final")' = (hot.status = "final")
        BY <3>2
      <4> QED
        BY <2>1, <2>2, <3>1, <4>1 DEF Abstract!vars, Stored
    <3>3. CASE hot.status # "final" /\ hot'.status = "final"
      <4>1. (hot.status = "final")' = TRUE
        BY <3>3
      <4> QED
        BY <2>1, <2>2, <3>1, <3>3, <4>1 DEF Abstract!Next, Abstract!Finish, Stored
    <3> QED
      BY <2>2, <3>2, <3>3
  <2>3. CASE hot.status # "final" /\ Starts(Stored, Stored') /\ Len(Stored) < Len(Stored')
    <3>1. Starts(shown, Stored')
      BY <1>2, <2>3, StartsTransitive DEF ViewInv
    <3>2. ViewInv'
      BY <2>1, <2>3, <3>1 DEF ViewInv
    <3>3. Abstract!IsStrictPrefix(Stored, Stored')
      BY <1>2, <2>3, StartsIsPrefix DEF Abstract!IsStrictPrefix
    <3>4. (hot.status = "final")' \in BOOLEAN
      OBVIOUS
    <3>5. Abstract!Extend
      BY <1>2, <2>1, <2>3, <3>3, <3>4 DEF Abstract!Extend, Stored
    <3> QED
      BY <3>2, <3>5 DEF Abstract!Next
  <2> QED
    BY <1>1, <2>2, <2>3 DEF LogStep
<1>4. CASE Worker
  <2>1. UNCHANGED viewer
    BY <1>4 DEF Worker, Invoke, SetRunning, Begin, Work, FlushTurn, Finish, Resend, FinalFlush, Settle, Goto
  <2> QED
    BY <1>3, <2>1
<1>5. CASE ~Worker
  <2>1. /\ hot' = hot
        /\ \/ UNCHANGED viewer
           \/ AskStatus
           \/ \E n \in 0 .. Len(Page) : Show(n)
    BY <1>5, OthersGo DEF IInv, viewer
  <2>2. Stored' = Stored
    BY <2>1, SameStored
  <2>3. CASE AskStatus
    <3>1. asked' = hot.status /\ ~closed /\ UNCHANGED <<cursor, shown, closed>>
      BY <2>3 DEF AskStatus
    <3> QED
      BY <2>1, <2>2, <3>1 DEF ViewInv, Abstract!vars, Stored
  <2>4. CASE \E n \in 0 .. Len(Page) : Show(n)
    BY <2>4, ShowRefines DEF Abstract!Next
  <2> QED
    BY <1>3, <2>1, <2>3, <2>4
<1> QED
  BY <1>4, <1>5

\* Under a Store that stays up and pages that hold all a run may have, the
\* run is one growing log that stops at the final status, and the viewer is
\* told of the end only after every event (api.py _event_stream).
THEOREM EventLogImplementsRunStream ==
  ASSUME MaxRestarts = 0, PageLimit >= MaxEvents + Retries + 2
  PROVE  Spec => ImplementsRunStream
<1>1. Init => ViewInv /\ Abstract!Init
  <2> SUFFICES ASSUME Init PROVE ViewInv /\ Abstract!Init
    OBVIOUS
  <2>1. Stored = << >> /\ hot.status = "queued"
    BY StoredBegins DEF Init, EmptyRow
  <2> QED
    BY <2>1 DEF Init, ViewInv, Starts, Abstract!Init, Stored
<1>2. IInv /\ [Next]_vars => IInv'
  BY StepGoes
<1>3. IInv /\ IInv' /\ ViewInv /\ [Next]_vars
        => ViewInv' /\ [Abstract!Next]_(Abstract!vars)
  BY StepStreams
<1> QED
  BY <1>1, <1>2, <1>3, InitGoes, PTL DEF Spec, Abstract!Spec, ImplementsRunStream
=============================================================================
