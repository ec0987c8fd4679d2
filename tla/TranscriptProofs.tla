-------------------------- MODULE TranscriptProofs --------------------------
(***************************************************************************)
(* The transcript is what the stored events say, whatever batches, chunks  *)
(* and logs come again and whatever a back-fill marks: for any runs and    *)
(* logs, any number of requests, workers' deaths and jobs.                 *)
(***************************************************************************)
EXTENDS StoreClientsProofs

-----------------------------------------------------------------------------
(* What a run's messages and its events have to do with one another, beyond *)
(* what TranscriptMatchesLog says of them                                   *)

Words == UNION {{Block(Log[r][i]) : i \in DOMAIN Log[r]} : r \in Runs}
Message == [run : Runs, role : {"user", "assistant"}, step : Nat, blocks : Seq(Words)]

\* Every event is that of the log with its id, or a marker, which takes the place of
\* none that makes a block.
FromLog(r, E) ==
  \A k \in DOMAIN E :
    \/ k + 1 \in DOMAIN Log[r] /\ E[k] = Log[r][k + 1]
    \/ /\ E[k].type = "log"
       /\ k + 1 \in DOMAIN Log[r] => Log[r][k + 1].type \notin BlockTypes

Complete(r, E) == 0 .. Len(Log[r]) - 1 \subseteq DOMAIN E

Heard(m, r, E) == \A i \in Places(m, r) : \E k \in Told(E) : Speaks(m[i], E[k])
Ordered(m, r) == \A i, j \in Places(m, r) : i <= j => m[i].step <= m[j].step
Answers(m, r) ==
  \A i \in Places(m, r) : m[i].role = "user" /\ m[i].step # NoStep =>
    \E j \in Places(m, r) :
      Follows(m, r, j, i) /\ m[j].role = "assistant" /\ m[j].step = m[i].step

\* Messages without an event that makes a block in them, and the order of a run's
\* messages, are what lets one more event find its place.
Written(m, r, E) ==
  /\ m \in Seq(Message) /\ FromLog(r, E)
  /\ ToldOnce(m, r, E) /\ BlocksInOrder(m, r, E)
  /\ Heard(m, r, E) /\ Ordered(m, r) /\ Answers(m, r)

\* The order of f's values is that of the blocks, and every event of K has its block.
Tells(blocks, E, K, f) ==
  /\ f \in [DOMAIN blocks -> K]
  /\ \A k \in K : \E b \in DOMAIN blocks : f[b] = k
  /\ \A a, b \in DOMAIN blocks : a < b => f[a] < f[b]
  /\ \A b \in DOMAIN blocks : blocks[b] = Block(E[f[b]])

HeardBy(x, E) == {k \in Told(E) : Speaks(x, E[k])}

LEMMA InOrder ==
  ASSUME NEW m, NEW r, NEW E
  PROVE  BlocksInOrder(m, r, E) <=>
           \A i \in Places(m, r) : \E f : Tells(m[i].blocks, E, HeardBy(m[i], E), f)
  BY DEF BlocksInOrder, Tells, HeardBy

\* Steps of the log, in its order.
LEMMA Telling ==
  ASSUME NEW r \in Runs
  PROVE  /\ \A i \in DOMAIN Log[r] : Log[r][i].type = "run.finished" => i = Len(Log[r])
         /\ r \in LegacyRuns /\ Log[r] # << >> => Log[r][1].type = "run.started"
         /\ \A i \in DOMAIN Log[r] : Log[r][i].type \in BlockTypes =>
              /\ Role(Log[r][i]) \in {"user", "assistant"} /\ StepOf(Log[r][i]) \in Nat
              /\ Log[r][i].type # "episode.reset" =>
                   StepOf(Log[r][i]) = Log[r][i].step /\ Log[r][i].step # NoStep
         /\ \A i, j \in DOMAIN Log[r] :
              Log[r][i].type \in BlockTypes /\ Log[r][j].type \in BlockTypes /\ i <= j =>
                StepOf(Log[r][i]) <= StepOf(Log[r][j])
         /\ \A i \in DOMAIN Log[r] : Log[r][i].type = "tool.result" =>
              \E j \in DOMAIN Log[r] :
                j < i /\ Log[r][j].type = "tool.call" /\ Log[r][j].step = Log[r][i].step
                /\ Log[r][j].use = Log[r][i].use
<1> DEFINE L == Log[r]
           told == {i \in DOMAIN L : L[i].type \in BlockTypes}
<1>1. /\ \A i \in DOMAIN L : L[i].type = "run.finished" => i = Len(L)
      /\ r \in LegacyRuns /\ L # << >> => L[1].type = "run.started"
      /\ \A i \in told : L[i].type # "episode.reset" => L[i].step \in Nat \ {NoStep}
      /\ \A i, j \in told : i <= j => StepOf(L[i]) <= StepOf(L[j])
      /\ \A i \in told : L[i].type = "tool.result" =>
           \E j \in 1 .. i - 1 :
             L[j].type = "tool.call" /\ L[j].step = L[i].step /\ L[j].use = L[i].use
  BY TellingAssumption
<1>2. DOMAIN L = 1 .. Len(L) /\ Len(L) \in Nat
  BY LogShape
<1> HIDE DEF L
<1>3. \A i \in DOMAIN L : L[i].type \in BlockTypes =>
        /\ Role(L[i]) \in {"user", "assistant"} /\ StepOf(L[i]) \in Nat
        /\ L[i].type # "episode.reset" => StepOf(L[i]) = L[i].step /\ L[i].step # NoStep
  BY <1>1 DEF Role, StepOf, NoStep
<1>4. \A i \in DOMAIN L : L[i].type = "tool.result" =>
        \E j \in DOMAIN L :
          j < i /\ L[j].type = "tool.call" /\ L[j].step = L[i].step /\ L[j].use = L[i].use
  <2> SUFFICES ASSUME NEW i \in DOMAIN L, L[i].type = "tool.result"
               PROVE  \E j \in DOMAIN L :
                        /\ j < i /\ L[j].type = "tool.call"
                        /\ L[j].step = L[i].step /\ L[j].use = L[i].use
    OBVIOUS
  <2>1. i \in told
    BY DEF BlockTypes
  <2>2. PICK j \in 1 .. i - 1 :
          L[j].type = "tool.call" /\ L[j].step = L[i].step /\ L[j].use = L[i].use
    BY <1>1, <2>1
  <2>3. j \in DOMAIN L /\ j < i
    BY <1>2
  <2> QED
    BY <2>2, <2>3
<1> QED
  BY <1>1, <1>3, <1>4 DEF L

\* The log's events that make a block are stored as they are.
LEMMA ToldFromLog ==
  ASSUME NEW r, NEW E, FromLog(r, E)
  PROVE  /\ \A k \in Told(E) : k + 1 \in DOMAIN Log[r] /\ E[k] = Log[r][k + 1]
         /\ \A k \in DOMAIN E : k + 1 \in DOMAIN Log[r] /\ Log[r][k + 1].type \in BlockTypes =>
              k \in Told(E) /\ E[k] = Log[r][k + 1]
<1>1. "log" \notin BlockTypes
  BY DEF BlockTypes
<1> QED
  BY <1>1 DEF FromLog, Told

\* Messages of other runs, and events that make no block, are nothing to it.
LEMMA WrittenSame ==
  ASSUME NEW m, NEW r, NEW E, Written(m, r, E),
         NEW n \in Seq(Message), NEW F, FromLog(r, F),
         Places(n, r) = Places(m, r), \A i \in Places(m, r) : n[i] = m[i],
         Told(F) = Told(E), \A k \in Told(E) : F[k] = E[k]
  PROVE  Written(n, r, F)
<1>1. ToldOnce(n, r, F)
  BY DEF Written, ToldOnce
<1>2. BlocksInOrder(n, r, F)
  <2> SUFFICES ASSUME NEW i \in Places(m, r) PROVE \E f : Tells(n[i].blocks, F, HeardBy(n[i], F), f)
    BY InOrder
  <2>1. PICK f : Tells(m[i].blocks, E, HeardBy(m[i], E), f)
    BY InOrder DEF Written
  <2>2. HeardBy(n[i], F) = HeardBy(m[i], E) /\ HeardBy(m[i], E) \subseteq Told(E)
    BY DEF HeardBy
  <2>3. Tells(n[i].blocks, F, HeardBy(n[i], F), f)
    BY <2>1, <2>2 DEF Tells
  <2> QED
    BY <2>3
<1>3. Heard(n, r, F)
  BY DEF Written, Heard
<1>4. Ordered(n, r)
  BY DEF Written, Ordered
<1>5. Answers(n, r)
  BY DEF Written, Answers, Follows
<1> QED
  BY <1>1, <1>2, <1>3, <1>4, <1>5 DEF Written

-----------------------------------------------------------------------------
(* One more event of the log, which makes a block *)

\* F has one event more than E, the next one of the log.
OneTold(r, E, n, e, F) ==
  /\ n \in Nat /\ DOMAIN E = 0 .. n - 1 /\ F = With(E, n, e)
  /\ n + 1 \in DOMAIN Log[r] /\ e = Log[r][n + 1] /\ e.type \in BlockTypes

LEMMA TellMore ==
  ASSUME NEW r \in Runs, NEW E, FromLog(r, E), NEW n, NEW e, NEW F, OneTold(r, E, n, e, F)
  PROVE  /\ FromLog(r, F) /\ F[n] = e /\ n \notin Told(E) /\ Told(F) = Told(E) \cup {n}
         /\ \A k \in Told(E) : /\ k \in Nat /\ k < n /\ F[k] = E[k]
                               /\ StepOf(E[k]) \in Nat /\ StepOf(E[k]) <= StepOf(e)
         /\ StepOf(e) \in Nat /\ Role(e) \in {"user", "assistant"} /\ Block(e) \in Words
<1>1. /\ n \in Nat /\ DOMAIN E = 0 .. n - 1 /\ n + 1 \in DOMAIN Log[r] /\ e = Log[r][n + 1]
      /\ e.type \in BlockTypes
  BY DEF OneTold
<1>2. /\ DOMAIN F = DOMAIN E \cup {n} /\ F[n] = e /\ \A k \in DOMAIN E : F[k] = E[k]
  BY DEF OneTold, With
<1>3. Told(E) \subseteq DOMAIN E /\ n \notin DOMAIN E
  BY <1>1 DEF Told
<1>4. Told(F) = Told(E) \cup {n}
  BY <1>1, <1>2 DEF Told
<1>5. FromLog(r, F)
  BY <1>1, <1>2 DEF FromLog
<1>6. \A k \in Told(E) : /\ k \in Nat /\ k < n /\ F[k] = E[k]
                         /\ StepOf(E[k]) \in Nat /\ StepOf(E[k]) <= StepOf(e)
  <2> SUFFICES ASSUME NEW k \in Told(E)
               PROVE  /\ k \in Nat /\ k < n /\ F[k] = E[k]
                      /\ StepOf(E[k]) \in Nat /\ StepOf(E[k]) <= StepOf(e)
    OBVIOUS
  <2>1. k \in Nat /\ k < n /\ F[k] = E[k] /\ E[k].type \in BlockTypes
    BY <1>1, <1>2, <1>3 DEF Told
  <2>2. k + 1 \in DOMAIN Log[r] /\ E[k] = Log[r][k + 1] /\ k + 1 <= n + 1
    BY <1>1, <2>1, ToldFromLog
  <2>3. StepOf(Log[r][k + 1]) \in Nat /\ StepOf(Log[r][k + 1]) <= StepOf(Log[r][n + 1])
    BY <1>1, <2>1, <2>2, Telling
  <2> QED
    BY <1>1, <2>1, <2>2, <2>3
<1>7. StepOf(e) \in Nat /\ Role(e) \in {"user", "assistant"} /\ Block(e) \in Words
  BY <1>1, Telling DEF Words
<1> QED
  BY <1>2, <1>3, <1>4, <1>5, <1>6, <1>7

\* A message has its events, so one that speaks for another event of the same role
\* and step is the same message.
LEMMA OneSpeaks ==
  ASSUME NEW m, NEW r, NEW E, ToldOnce(m, r, E), Heard(m, r, E), NEW e,
         NEW i \in Places(m, r), NEW j \in Places(m, r), Speaks(m[i], e), Speaks(m[j], e)
  PROVE  i = j
<1>1. PICK k \in Told(E) : Speaks(m[i], E[k])
  BY DEF Heard
<1>2. Speaks(m[j], E[k])
  BY <1>1 DEF Speaks
<1> QED
  BY <1>1, <1>2 DEF ToldOnce

\* The block of the last event goes to the end.
LEMMA TellsOneMore ==
  ASSUME NEW blocks \in Seq(Words), NEW E, NEW K, NEW f, Tells(blocks, E, K, f),
         NEW n \in Nat, NEW F, \A k \in K : k \in Nat /\ k < n /\ F[k] = E[k],
         Block(F[n]) \in Words
  PROVE  \E g : Tells(Append(blocks, Block(F[n])), F, K \cup {n}, g)
<1> DEFINE x == Block(F[n])
           more == Append(blocks, x)
           p == Len(blocks)
           g == [b \in 1 .. p + 1 |-> IF b = p + 1 THEN n ELSE f[b]]
<1>1. p \in Nat /\ DOMAIN blocks = 1 .. p
  BY LenProperties
<1>2. /\ DOMAIN more = 1 .. p + 1 /\ more[p + 1] = x
      /\ \A b \in 1 .. p : more[b] = blocks[b]
  <2>1. /\ more \in Seq(Words) /\ Len(more) = p + 1 /\ more[p + 1] = x
        /\ \A b \in 1 .. p : more[b] = blocks[b]
    BY AppendProperties
  <2>2. DOMAIN more = 1 .. p + 1
    BY <2>1, LenProperties
  <2> QED
    BY <2>1, <2>2
<1> HIDE DEF more, p
<1>3. /\ g[p + 1] = n /\ \A b \in 1 .. p : g[b] = f[b]
      /\ \A b \in 1 .. p + 1 : b = p + 1 \/ b \in 1 .. p
      /\ DOMAIN g = 1 .. p + 1 /\ p + 1 \in 1 .. p + 1 /\ 1 .. p \subseteq 1 .. p + 1
  BY <1>1
<1>4. /\ f \in [1 .. p -> K] /\ \A k \in K : \E b \in 1 .. p : f[b] = k
      /\ \A a, b \in 1 .. p : a < b => f[a] < f[b]
      /\ \A b \in 1 .. p : blocks[b] = Block(E[f[b]])
  BY <1>1 DEF Tells
<1>5. g \in [1 .. p + 1 -> K \cup {n}]
  BY <1>3, <1>4
<1> HIDE DEF g
<1>6. \A k \in K \cup {n} : \E b \in 1 .. p + 1 : g[b] = k
  BY <1>3, <1>4
<1>7. \A a, b \in 1 .. p + 1 : a < b => g[a] < g[b]
  <2> SUFFICES ASSUME NEW a \in 1 .. p + 1, NEW b \in 1 .. p + 1, a < b PROVE g[a] < g[b]
    OBVIOUS
  <2>1. a \in 1 .. p
    BY <1>1
  <2>2. g[a] = f[a] /\ f[a] \in K
    BY <1>3, <1>4, <2>1
  <2>3. CASE b \in 1 .. p
    BY <1>3, <1>4, <2>1, <2>3
  <2>4. CASE b = p + 1
    BY <1>3, <2>2, <2>4
  <2> QED
    BY <1>3, <2>3, <2>4
<1>8. \A b \in 1 .. p + 1 : more[b] = Block(F[g[b]])
  <2> SUFFICES ASSUME NEW b \in 1 .. p + 1 PROVE more[b] = Block(F[g[b]])
    OBVIOUS
  <2>1. CASE b = p + 1
    BY <1>2, <1>3, <2>1
  <2>2. CASE b \in 1 .. p
    <3>1. g[b] = f[b] /\ f[b] \in K /\ F[f[b]] = E[f[b]]
      BY <1>3, <1>4, <2>2
    <3> QED
      BY <1>2, <1>4, <2>2, <3>1
  <2> QED
    BY <1>3, <2>1, <2>2
<1>9. Tells(more, F, K \cup {n}, g)
  BY <1>2, <1>5, <1>6, <1>7, <1>8 DEF Tells
<1> QED
  BY <1>9 DEF more

\* What was heard before is heard as it was, by a message that keeps its place.
LEMMA HeardBefore ==
  ASSUME NEW r \in Runs, NEW E, FromLog(r, E), NEW n, NEW e, NEW F, OneTold(r, E, n, e, F),
         NEW x, NEW y, y.role = x.role, y.step = x.step
  PROVE  /\ ~Speaks(x, e) => HeardBy(y, F) = HeardBy(x, E)
         /\ Speaks(x, e) => HeardBy(y, F) = HeardBy(x, E) \cup {n}
<1>1. /\ F[n] = e /\ Told(F) = Told(E) \cup {n} /\ \A k \in Told(E) : F[k] = E[k]
  BY TellMore
<1>2. \A k \in Told(E) : Speaks(y, F[k]) <=> Speaks(x, E[k])
  BY <1>1 DEF Speaks
<1>3. Speaks(y, F[n]) <=> Speaks(x, e)
  BY <1>1 DEF Speaks
<1> QED
  BY <1>1, <1>2, <1>3 DEF HeardBy

\* A message that is not that of the event has the blocks it had.
LEMMA TellsBefore ==
  ASSUME NEW r \in Runs, NEW E, FromLog(r, E), NEW n, NEW e, NEW F, OneTold(r, E, n, e, F),
         NEW x, ~Speaks(x, e), NEW f, Tells(x.blocks, E, HeardBy(x, E), f)
  PROVE  Tells(x.blocks, F, HeardBy(x, F), f)
<1>1. HeardBy(x, F) = HeardBy(x, E)
  BY HeardBefore
<1>2. \A k \in HeardBy(x, E) : F[k] = E[k]
  BY TellMore DEF HeardBy
<1> QED
  BY <1>1, <1>2 DEF Tells

LEMMA MoreBlocks ==
  ASSUME NEW x \in Message, NEW b \in Words
  PROVE  LET y == [x EXCEPT !.blocks = Append(@, b)]
         IN  /\ y \in Message /\ x.blocks \in Seq(Words) /\ y.blocks = Append(x.blocks, b)
             /\ y.run = x.run /\ y.role = x.role /\ y.step = x.step
<1> DEFINE more == Append(x.blocks, b)
           y == [x EXCEPT !.blocks = more]
<1>1. x.blocks \in Seq(Words)
  BY DEF Message
<1>2. more \in Seq(Words)
  BY <1>1, AppendProperties
<1> HIDE DEF more
<1>3. y.blocks = more /\ y.run = x.run /\ y.role = x.role /\ y.step = x.step
  BY DEF Message
<1>4. y \in Message
  BY <1>2 DEF Message
<1> QED
  BY <1>1, <1>3, <1>4 DEF more

\* The run has a message of the event's role and step: the block goes there.
LEMMA BlockAdded ==
  ASSUME NEW r \in Runs, NEW m, NEW E, Written(m, r, E),
         NEW n, NEW e, NEW F, OneTold(r, E, n, e, F),
         NEW p \in Places(m, r), Speaks(m[p], e)
  PROVE  LET l == [m EXCEPT ![p].blocks = Append(@, Block(e))]
         IN  /\ Written(l, r, F) /\ DOMAIN l = DOMAIN m /\ l[p].run = r
             /\ \A i \in DOMAIN m : i # p => l[i] = m[i]
<1> DEFINE l == [m EXCEPT ![p].blocks = Append(@, Block(e))]
<1>1. /\ FromLog(r, F) /\ F[n] = e /\ n \notin Told(E) /\ Told(F) = Told(E) \cup {n}
      /\ \A k \in Told(E) : k \in Nat /\ k < n /\ F[k] = E[k]
      /\ Block(e) \in Words /\ n \in Nat
  <2>1. FromLog(r, E) /\ n \in Nat
    BY DEF Written, OneTold
  <2> QED
    BY <2>1, TellMore
<1>2. /\ m \in Seq(Message) /\ p \in DOMAIN m /\ m[p].run = r
      /\ DOMAIN m = 1 .. Len(m) /\ Len(m) \in Nat /\ \A i \in DOMAIN m : m[i] \in Message
  BY LenProperties, ElementOfSeq DEF Written, Places
<1>3. /\ DOMAIN l = DOMAIN m /\ \A i \in DOMAIN m : i # p => l[i] = m[i]
      /\ l[p] = [m[p] EXCEPT !.blocks = Append(@, Block(e))]
  BY <1>2
<1>4. /\ m[p].blocks \in Seq(Words) /\ l[p].blocks = Append(m[p].blocks, Block(e))
      /\ l[p].run = m[p].run /\ l[p].role = m[p].role /\ l[p].step = m[p].step
      /\ l[p] \in Message
  BY <1>1, <1>2, <1>3, MoreBlocks, ZenonT(60)
<1>6. l \in Seq(Message)
  <2>1. l \in [1 .. Len(m) -> Message]
    <3>1. \A i \in DOMAIN m : l[i] \in Message
      BY <1>2, <1>3, <1>4
    <3>2. l = [i \in DOMAIN m |-> l[i]]
      OBVIOUS
    <3> HIDE DEF l
    <3> QED
      BY <1>2, <3>1, <3>2
  <2> QED
    BY <1>2, <2>1, IsASeq
<1> HIDE DEF l
<1>7. \A i \in DOMAIN m : l[i].run = m[i].run /\ l[i].role = m[i].role /\ l[i].step = m[i].step
  BY <1>3, <1>4
<1>8. Places(l, r) = Places(m, r) /\ Places(m, r) \subseteq DOMAIN m
  BY <1>3, <1>7 DEF Places
<1>9. \A i \in Places(m, r) : Speaks(m[i], e) <=> i = p
  BY OneSpeaks DEF Written
<1>10. ToldOnce(l, r, F)
  <2> SUFFICES ASSUME NEW k \in Told(F)
               PROVE  \E i \in Places(m, r) : \A j \in Places(m, r) : Speaks(l[j], F[k]) <=> j = i
    BY <1>8 DEF ToldOnce
  <2>1. CASE k = n
    <3>1. \A j \in Places(m, r) : Speaks(l[j], e) <=> j = p
      BY <1>7, <1>8, <1>9 DEF Speaks
    <3> QED
      BY <1>1, <2>1, <3>1
  <2>2. CASE k \in Told(E)
    <3>1. PICK i \in Places(m, r) : \A j \in Places(m, r) : Speaks(m[j], E[k]) <=> j = i
      BY <2>2 DEF Written, ToldOnce
    <3>2. \A j \in Places(m, r) : Speaks(l[j], F[k]) <=> j = i
      BY <1>1, <1>7, <1>8, <2>2, <3>1 DEF Speaks
    <3> QED
      BY <3>2
  <2> QED
    BY <1>1, <2>1, <2>2
<1>11. BlocksInOrder(l, r, F)
  <2> SUFFICES ASSUME NEW i \in Places(m, r) PROVE \E f : Tells(l[i].blocks, F, HeardBy(l[i], F), f)
    BY <1>8, InOrder
  <2>1. PICK f : Tells(m[i].blocks, E, HeardBy(m[i], E), f)
    BY InOrder DEF Written
  <2>2. CASE i # p
    <3>1. l[i] = m[i] /\ ~Speaks(m[i], e)
      BY <1>3, <1>8, <1>9, <2>2
    <3>2. Tells(m[i].blocks, F, HeardBy(m[i], F), f)
      BY <2>1, <3>1, TellsBefore DEF Written
    <3> QED
      BY <3>1, <3>2
  <2>3. CASE i = p
    <3> DEFINE K == HeardBy(m[p], E)
    <3> DEFINE x == m[p]
               y == l[p]
    <3>0. y.role = x.role /\ y.step = x.step /\ Speaks(x, e) /\ FromLog(r, E)
      BY <1>4 DEF Written
    <3> HIDE DEF x, y
    <3>1. HeardBy(y, F) = K \cup {n}
      BY <3>0, HeardBefore DEF x
    <3> USE DEF x, y
    <3>2. \A k \in K : k \in Nat /\ k < n /\ F[k] = E[k]
      BY <1>1 DEF HeardBy
    <3>3. Tells(m[p].blocks, E, K, f)
      BY <2>1, <2>3
    <3> HIDE DEF K
    <3>4. \E g : Tells(Append(m[p].blocks, Block(F[n])), F, K \cup {n}, g)
      BY <1>1, <1>4, <3>2, <3>3, TellsOneMore
    <3> QED
      BY <1>1, <1>4, <2>3, <3>1, <3>4 DEF K
  <2> QED
    BY <2>2, <2>3
<1>12. Heard(l, r, F)
  <2> SUFFICES ASSUME NEW i \in Places(m, r) PROVE \E k \in Told(F) : Speaks(l[i], F[k])
    BY <1>8 DEF Heard
  <2>1. PICK k \in Told(E) : Speaks(m[i], E[k])
    BY DEF Written, Heard
  <2> QED
    BY <1>1, <1>7, <1>8, <2>1 DEF Speaks
<1>13. Ordered(l, r)
  BY <1>7, <1>8 DEF Written, Ordered
<1>14. Answers(l, r)
  <2> SUFFICES ASSUME NEW i \in Places(m, r), m[i].role = "user", m[i].step # NoStep
               PROVE  \E j \in Places(m, r) :
                        Follows(l, r, j, i) /\ l[j].role = "assistant" /\ l[j].step = l[i].step
    BY <1>7, <1>8 DEF Answers
  <2>1. PICK j \in Places(m, r) :
          Follows(m, r, j, i) /\ m[j].role = "assistant" /\ m[j].step = m[i].step
    BY DEF Written, Answers
  <2>2. Follows(l, r, j, i)
    BY <1>8, <2>1 DEF Follows
  <2> QED
    BY <1>7, <1>8, <2>1, <2>2
<1>15. Written(l, r, F)
  BY <1>1, <1>6, <1>10, <1>11, <1>12, <1>13, <1>14 DEF Written
<1> QED
  BY <1>2, <1>3, <1>4, <1>15 DEF l

NewMessage(r, e) ==
  [run |-> r, role |-> Role(e), step |-> StepOf(e), blocks |-> <<Block(e)>>]

\* The run has no message of the event's role and step: one is added at the end, and
\* a result's comes right after the message of its call.
LEMMA MessageAdded ==
  ASSUME NEW r \in Runs, NEW m, NEW E, Written(m, r, E),
         NEW n, NEW e, NEW F, OneTold(r, E, n, e, F),
         \A i \in Places(m, r) : ~Speaks(m[i], e)
  PROVE  LET l == Append(m, NewMessage(r, e))
         IN  /\ Written(l, r, F) /\ DOMAIN l = DOMAIN m \cup {Len(m) + 1}
             /\ l[Len(m) + 1].run = r /\ \A i \in DOMAIN m : l[i] = m[i]
<1> DEFINE x == NewMessage(r, e)
           l == Append(m, x)
           p == Len(m) + 1
<1> HIDE DEF x, l, p
<1>1. /\ FromLog(r, F) /\ F[n] = e /\ n \notin Told(E) /\ Told(F) = Told(E) \cup {n}
      /\ \A k \in Told(E) : /\ k \in Nat /\ k < n /\ F[k] = E[k]
                            /\ StepOf(E[k]) \in Nat /\ StepOf(E[k]) <= StepOf(e)
      /\ StepOf(e) \in Nat /\ Role(e) \in {"user", "assistant"} /\ Block(e) \in Words
      /\ n \in Nat
  <2>1. FromLog(r, E) /\ n \in Nat
    BY DEF Written, OneTold
  <2> QED
    BY <2>1, TellMore
<1>2. /\ x \in Message /\ x.run = r /\ x.role = Role(e) /\ x.step = StepOf(e)
      /\ x.blocks = <<Block(e)>>
  <2>1. <<Block(e)>> \in Seq(Words)
    BY <1>1
  <2> QED
    BY <1>1, <2>1 DEF Message, NewMessage, x
<1>3. /\ l \in Seq(Message) /\ DOMAIN l = DOMAIN m \cup {p} /\ l[p] = x
      /\ \A i \in DOMAIN m : l[i] = m[i] /\ i \in Nat /\ i < p
      /\ p \notin DOMAIN m /\ p \in Nat
  <2>1. m \in Seq(Message) /\ Len(m) \in Nat /\ DOMAIN m = 1 .. Len(m)
    BY LenProperties DEF Written
  <2>2. /\ l \in Seq(Message) /\ Len(l) = p /\ l[p] = x
        /\ \A i \in 1 .. Len(m) : l[i] = m[i]
    BY <1>2, <2>1, AppendProperties DEF l, p
  <2>3. DOMAIN l = 1 .. p
    BY <2>2, LenProperties
  <2>4. 1 .. p = 1 .. Len(m) \cup {p}
    BY <2>1 DEF p
  <2> QED
    BY <2>1, <2>2, <2>3, <2>4 DEF p
<1>4. Places(l, r) = Places(m, r) \cup {p} /\ Places(m, r) \subseteq DOMAIN m
  BY <1>2, <1>3 DEF Places
<1>5. /\ p \notin Places(m, r)
      /\ \A i \in Places(m, r) : l[i] = m[i] /\ i \in Nat /\ i < p
  BY <1>3, <1>4
<1>6. \A k \in Told(E) : ~Speaks(x, F[k])
  <2> SUFFICES ASSUME NEW k \in Told(E), Speaks(x, F[k]) PROVE FALSE
    OBVIOUS
  <2>1. PICK i \in Places(m, r) : Speaks(m[i], E[k])
    BY DEF Written, ToldOnce
  <2>2. Speaks(m[i], e)
    BY <1>1, <1>2, <2>1 DEF Speaks
  <2> QED
    BY <2>2
<1>7. Speaks(x, e)
  BY <1>2 DEF Speaks
<1>8. ToldOnce(l, r, F)
  <2> SUFFICES ASSUME NEW k \in Told(F)
               PROVE  \E i \in Places(l, r) : \A j \in Places(l, r) : Speaks(l[j], F[k]) <=> j = i
    BY DEF ToldOnce
  <2>1. CASE k = n
    <3>1. \A j \in Places(l, r) : Speaks(l[j], F[k]) <=> j = p
      BY <1>1, <1>3, <1>4, <1>5, <1>7, <2>1
    <3> QED
      BY <1>4, <3>1
  <2>2. CASE k \in Told(E)
    <3>1. PICK i \in Places(m, r) : \A j \in Places(m, r) : Speaks(m[j], E[k]) <=> j = i
      BY <2>2 DEF Written, ToldOnce
    <3>2. \A j \in Places(l, r) : Speaks(l[j], F[k]) <=> j = i
      BY <1>1, <1>3, <1>4, <1>5, <1>6, <2>2, <3>1
    <3> QED
      BY <1>4, <3>2
  <2> QED
    BY <1>1, <2>1, <2>2
<1>9. BlocksInOrder(l, r, F)
  <2> SUFFICES ASSUME NEW i \in Places(l, r) PROVE \E f : Tells(l[i].blocks, F, HeardBy(l[i], F), f)
    BY InOrder
  <2>1. CASE i \in Places(m, r)
    <3>1. PICK f : Tells(m[i].blocks, E, HeardBy(m[i], E), f)
      BY <2>1, InOrder DEF Written
    <3>2. Tells(m[i].blocks, F, HeardBy(m[i], F), f)
      BY <2>1, <3>1, TellsBefore DEF Written
    <3> QED
      BY <1>5, <2>1, <3>2
  <2>2. CASE i = p
    <3>1. HeardBy(x, F) = {n}
      BY <1>1, <1>6, <1>7 DEF HeardBy
    <3>2. DOMAIN x.blocks = {1} /\ x.blocks[1] = Block(F[n])
      BY <1>1, <1>2
    <3> DEFINE f == [b \in {1} |-> n]
    <3>3. Tells(x.blocks, F, {n}, f)
      BY <3>2 DEF Tells
    <3> QED
      BY <1>3, <2>2, <3>1, <3>3
  <2> QED
    BY <1>4, <2>1, <2>2
<1>10. Heard(l, r, F)
  <2> SUFFICES ASSUME NEW i \in Places(l, r) PROVE \E k \in Told(F) : Speaks(l[i], F[k])
    BY DEF Heard
  <2>1. CASE i = p
    BY <1>1, <1>3, <1>7, <2>1
  <2>2. CASE i \in Places(m, r)
    <3>1. PICK k \in Told(E) : Speaks(m[i], E[k])
      BY <2>2 DEF Written, Heard
    <3> QED
      BY <1>1, <1>5, <2>2, <3>1
  <2> QED
    BY <1>4, <2>1, <2>2
<1>11. \A i \in Places(m, r) : m[i].step \in Nat /\ m[i].step <= StepOf(e)
  <2> SUFFICES ASSUME NEW i \in Places(m, r) PROVE m[i].step \in Nat /\ m[i].step <= StepOf(e)
    OBVIOUS
  <2>1. PICK k \in Told(E) : Speaks(m[i], E[k])
    BY DEF Written, Heard
  <2> QED
    BY <1>1, <2>1 DEF Speaks
<1>12. Ordered(l, r)
  <2> SUFFICES ASSUME NEW i \in Places(l, r), NEW j \in Places(l, r), i <= j
               PROVE  l[i].step <= l[j].step
    BY DEF Ordered
  <2>1. CASE j \in Places(m, r)
    <3>1. i \in Places(m, r)
      BY <1>3, <1>4, <1>5, <2>1
    <3> QED
      BY <1>5, <2>1, <3>1 DEF Written, Ordered
  <2>2. CASE j = p
    BY <1>1, <1>2, <1>3, <1>4, <1>5, <1>11, <2>2
  <2> QED
    BY <1>4, <2>1, <2>2
<1>13. Answers(l, r)
  <2> SUFFICES ASSUME NEW i \in Places(l, r), l[i].role = "user", l[i].step # NoStep
               PROVE  \E j \in Places(l, r) :
                        Follows(l, r, j, i) /\ l[j].role = "assistant" /\ l[j].step = l[i].step
    BY DEF Answers
  <2>1. CASE i \in Places(m, r)
    <3>1. m[i].role = "user" /\ m[i].step # NoStep
      BY <1>5, <2>1
    <3>2. PICK j \in Places(m, r) :
            Follows(m, r, j, i) /\ m[j].role = "assistant" /\ m[j].step = m[i].step
      BY <2>1, <3>1 DEF Written, Answers
    <3>3. i <= p
      BY <1>3, <1>5, <2>1
    <3>4. Follows(l, r, j, i)
      BY <1>4, <3>2, <3>3 DEF Follows
    <3> QED
      BY <1>4, <1>5, <2>1, <3>2, <3>4
  <2>2. CASE i = p
    <3>1. Role(e) = "user" /\ StepOf(e) # NoStep
      BY <1>2, <1>3, <2>2
    <3>2. e.type = "tool.result"
      BY <3>1 DEF Role, StepOf
    <3>3. PICK c \in DOMAIN Log[r] :
            c < n + 1 /\ Log[r][c].type = "tool.call" /\ Log[r][c].step = e.step
      BY <3>2, Telling DEF OneTold
    <3>4. c - 1 \in DOMAIN E /\ c - 1 + 1 = c
      <4>1. c \in Nat \ {0}
        BY LogShape
      <4> QED
        BY <3>3, <4>1 DEF OneTold
    <3>5. c - 1 \in Told(E) /\ E[c - 1] = Log[r][c]
      BY <3>3, <3>4, ToldFromLog DEF Written, BlockTypes
    <3>6. PICK j \in Places(m, r) : Speaks(m[j], E[c - 1])
      BY <3>5 DEF Written, ToldOnce
    <3>7. m[j].role = "assistant" /\ m[j].step = StepOf(e)
      BY <3>2, <3>3, <3>5, <3>6 DEF Speaks, Role, StepOf
    <3>8. \A k \in Places(m, r) : k <= j
      <4> SUFFICES ASSUME NEW k \in Places(m, r), ~(k <= j) PROVE FALSE
        OBVIOUS
      <4>1. m[j].step <= m[k].step
        BY <1>5 DEF Written, Ordered
      <4>2. m[k].step = StepOf(e)
        BY <1>1, <1>11, <3>7, <4>1
      <4>3. m[k].role = "assistant"
        <5>1. m[k].role # "user"
          BY <3>1, <4>2 DEF Speaks
        <5>2. m[k] \in Message
          BY <1>4, ElementOfSeq, LenProperties DEF Written
        <5> QED
          BY <5>1, <5>2 DEF Message
      <4>4. Speaks(m[k], E[c - 1])
        BY <3>6, <3>7, <4>2, <4>3 DEF Speaks
      <4>5. k = j
        BY <3>6, <4>4, OneSpeaks DEF Written
      <4> QED
        BY <1>5, <4>5
    <3>9. Follows(l, r, j, p)
      BY <1>3, <1>4, <1>5, <3>8 DEF Follows
    <3> QED
      BY <1>2, <1>3, <1>4, <1>5, <2>2, <3>7, <3>9
  <2> QED
    BY <1>4, <2>1, <2>2
<1>14. Written(l, r, F)
  BY <1>1, <1>3, <1>8, <1>9, <1>10, <1>12, <1>13 DEF Written
<1> QED
  BY <1>2, <1>3, <1>14 DEF l, p, x

-----------------------------------------------------------------------------
(* One more event of any kind.  An imported run whose row says "ok" has no   *)
(* event yet, or all of them, or a marker: what a back-fill's marker takes   *)
(* the place of is at most run.started                                       *)

Fine(r, now, E) ==
  now.status = "ok" => DOMAIN E = {} \/ Complete(r, E) \/ \E k \in DOMAIN E : IsMarker(E[k])

\* An event of the run's log, or a marker that takes no block's place.
Fits(r, e) ==
  \/ e.id + 1 \in DOMAIN Log[r] /\ e = Log[r][e.id + 1]
  \/ /\ IsMarker(e)
     /\ e.id + 1 \in DOMAIN Log[r] => Log[r][e.id + 1].type \notin BlockTypes

StageOk(r, t) ==
  /\ DOMAIN t = {"events", "now", "messages"} /\ RowOk(t.now) /\ Counted(DOMAIN t.events)
  /\ Written(t.messages, r, t.events)
  /\ r \in LegacyRuns => Fine(r, t.now, t.events)

\* From m to l only run r's messages are new or other than they were.
Apart(m, l, r) ==
  /\ DOMAIN m \subseteq DOMAIN l
  /\ \A i \in DOMAIN l : IF i \in DOMAIN m /\ m[i].run # r THEN l[i] = m[i] ELSE l[i].run = r

LEMMA ApartAgain ==
  ASSUME NEW m, NEW l, NEW q, NEW r, Apart(m, l, r), Apart(l, q, r)
  PROVE  Apart(m, q, r)
  BY DEF Apart

LEMMA ApartSelf ==
  ASSUME NEW m, NEW r
  PROVE  Apart(m, m, r)
  BY DEF Apart

\* _message and _block find the event's place.
LEMMA BlockPut ==
  ASSUME NEW r \in Runs, NEW m, NEW E, Written(m, r, E),
         NEW n, NEW e, NEW F, OneTold(r, E, n, e, F)
  PROVE  Written(PutBlock(m, r, e), r, F) /\ Apart(m, PutBlock(m, r, e), r)
<1> DEFINE mine == {i \in DOMAIN m : /\ m[i].run = r /\ m[i].role = Role(e)
                                     /\ m[i].step = StepOf(e)}
           l == PutBlock(m, r, e)
<1>1. mine = {i \in Places(m, r) : Speaks(m[i], e)}
  BY DEF Places, Speaks
<1>2. CASE mine # {}
  <2> DEFINE p == CHOOSE i \in mine : TRUE
             q == [m EXCEPT ![p].blocks = Append(@, Block(e))]
  <2>1. p \in mine /\ l = q
    BY <1>2 DEF PutBlock
  <2> HIDE DEF p, mine
  <2>2. p \in Places(m, r) /\ Speaks(m[p], e)
    BY <1>1, <2>1
  <2>3. /\ Written(q, r, F) /\ DOMAIN q = DOMAIN m /\ q[p].run = r
        /\ \A i \in DOMAIN m : i # p => q[i] = m[i]
    BY <2>2, BlockAdded
  <2> HIDE DEF q, l
  <2>4. Apart(m, l, r)
    BY <2>1, <2>2, <2>3 DEF Apart, Places
  <2> QED
    BY <2>1, <2>3, <2>4 DEF l
<1>3. CASE mine = {}
  <2> DEFINE q == Append(m, NewMessage(r, e))
             p == Len(m) + 1
  <2>1. l = q
    BY <1>3 DEF PutBlock, NewMessage
  <2> HIDE DEF mine
  <2>2. \A i \in Places(m, r) : ~Speaks(m[i], e)
    BY <1>1, <1>3
  <2>3. /\ Written(q, r, F) /\ DOMAIN q = DOMAIN m \cup {p} /\ q[p].run = r
        /\ \A i \in DOMAIN m : q[i] = m[i]
    BY <2>2, MessageAdded
  <2> HIDE DEF q, l, p
  <2>4. Apart(m, l, r)
    BY <2>1, <2>3 DEF Apart
  <2> QED
    BY <2>1, <2>3, <2>4 DEF l
<1> QED
  BY <1>2, <1>3

\* What the next event of the log makes of the row: only run.finished, the last one,
\* can say "ok", and run.started, the first one, says "running".
LEMMA EventFine ==
  ASSUME NEW r \in LegacyRuns, NEW now, RowOk(now), NEW E, NEW n \in Nat, DOMAIN E = 0 .. n - 1,
         n + 1 \in DOMAIN Log[r], Fine(r, now, E), NEW e, e = Log[r][n + 1]
  PROVE  Fine(r, ProjectColumns(now, e), With(E, n, e))
<1> DEFINE F == With(E, n, e)
           u == ProjectColumns(now, e)
<1>0. r \in Runs
  BY DEF Runs
<1>1. /\ DOMAIN F = DOMAIN E \cup {n} /\ \A k \in DOMAIN E : F[k] = E[k]
  BY DEF With
<1>2. DOMAIN Log[r] = 1 .. Len(Log[r]) /\ Len(Log[r]) \in Nat
  BY <1>0, LogShape
<1> HIDE DEF F
<1>3. CASE e.type = "run.finished"
  <2>1. n + 1 = Len(Log[r])
    BY <1>0, <1>3, Telling
  <2>2. Complete(r, F)
    BY <1>1, <2>1 DEF Complete
  <2> QED
    BY <2>2 DEF Fine, F
<1>4. CASE e.type = "run.started"
  <2>1. u = [now EXCEPT !.status = "running"]
    BY <1>4 DEF ProjectColumns
  <2>2. u.status = "running"
    BY <2>1 DEF RowOk
  <2> QED
    BY <2>2 DEF Fine
<1>5. CASE e.type \notin {"run.started", "run.finished"}
  <2>1. u.status = now.status
    <3>1. \/ u = [now EXCEPT !.tokens = @ + e.tokens]
          \/ u = [now EXCEPT !.score = e.score]
          \/ u = now
      BY <1>5 DEF ProjectColumns
    <3> HIDE DEF u
    <3> QED
      BY <3>1 DEF RowOk
  <2>2. DOMAIN E # {}
    <3> SUFFICES ASSUME DOMAIN E = {} PROVE FALSE
      OBVIOUS
    <3>1. n = 0
      OBVIOUS
    <3>3. Log[r] # << >>
      BY <1>0, <1>2, LogShape, EmptySeq, LenProperties
    <3>2. e.type = "run.started"
      BY <1>0, <3>1, <3>3, Telling
    <3> QED
      BY <1>5, <3>2
  <2>3. ~Complete(r, E)
    BY <1>2 DEF Complete
  <2>4. (\E k \in DOMAIN E : IsMarker(E[k])) => \E k \in DOMAIN F : IsMarker(F[k])
    BY <1>1
  <2> HIDE DEF u
  <2> QED
    BY <2>1, <2>2, <2>3, <2>4 DEF Fine, F, u
<1> QED
  BY <1>3, <1>4, <1>5

\* t and what one event makes of it.
OneStage(r, t, e, u) ==
  /\ StageOk(r, u) /\ Apart(t.messages, u.messages, r)
  /\ DOMAIN u.events = DOMAIN t.events \cup {e.id}
  /\ \A k \in DOMAIN t.events : u.events[k] = t.events[k]

LEMMA EventStored ==
  ASSUME NEW r \in Runs, NEW t, StageOk(r, t), NEW e, Fits(r, e), e.id \in Nat,
         e.id = 0 \/ e.id - 1 \in DOMAIN t.events
  PROVE  OneStage(r, t, e, StoreEvent(t, r, e))
<1> DEFINE u == StoreEvent(t, r, e)
           n == e.id
           E == t.events
           F == With(E, n, e)
<1>1. CASE n \in DOMAIN E
  <2>1. u = t
    BY <1>1 DEF StoreEvent
  <2> QED
    BY <1>1, <2>1, ApartSelf DEF OneStage
<1>2. CASE n \notin DOMAIN E
  <2>1. u = [events |-> F, now |-> ProjectColumns(t.now, e),
             messages |-> ProjectMessages(t.messages, r, e)]
    BY <1>2 DEF StoreEvent
  <2>2. DOMAIN E = 0 .. n - 1 /\ n \in Nat
    <3>1. PICK k \in Nat : DOMAIN E = 0 .. k - 1
      BY DEF StageOk, Counted
    <3>2. n \in Nat /\ (n = 0 \/ n - 1 \in DOMAIN E) /\ n \notin DOMAIN E
      BY <1>2
    <3> HIDE DEF n, E
    <3>3. k = n
      BY <3>1, <3>2
    <3> QED
      BY <3>1, <3>3
  <2>3. /\ DOMAIN F = DOMAIN E \cup {n} /\ F[n] = e /\ \A k \in DOMAIN E : F[k] = E[k]
    BY <1>2 DEF With
  <2>4. Counted(DOMAIN F)
    <3>1. DOMAIN F = 0 .. (n + 1) - 1 /\ n + 1 \in Nat
      BY <2>2, <2>3
    <3> QED
      BY <3>1 DEF Counted
  <2>5. EventOk(e)
    <3>1. CASE IsMarker(e)
      BY <3>1 DEF IsMarker, EventOk
    <3>2. CASE n + 1 \in DOMAIN Log[r] /\ e = Log[r][n + 1]
      BY <3>2, LogShape
    <3> QED
      BY <3>1, <3>2 DEF Fits
  <2>6. RowOk(ProjectColumns(t.now, e))
    BY <2>5, EventGrows DEF StageOk
  <2>7. /\ Written(ProjectMessages(t.messages, r, e), r, F)
        /\ Apart(t.messages, ProjectMessages(t.messages, r, e), r)
    <3>1. CASE e.type \in BlockTypes
      <4>1. n + 1 \in DOMAIN Log[r] /\ e = Log[r][n + 1]
        BY <3>1 DEF Fits, IsMarker, BlockTypes
      <4>2. OneTold(r, E, n, e, F)
        BY <2>2, <3>1, <4>1 DEF OneTold
      <4>3. ProjectMessages(t.messages, r, e) = PutBlock(t.messages, r, e)
        BY <3>1 DEF ProjectMessages
      <4>4. Written(t.messages, r, E)
        BY DEF StageOk
      <4> HIDE DEF E, F, n
      <4> QED
        BY <4>2, <4>3, <4>4, BlockPut
    <3>2. CASE e.type \notin BlockTypes
      <4>1. ProjectMessages(t.messages, r, e) = t.messages
        BY <3>2 DEF ProjectMessages
      <4>2. Told(F) = Told(E) /\ \A k \in Told(E) : F[k] = E[k]
        BY <2>3, <3>2, <1>2 DEF Told
      <4>3. FromLog(r, F)
        BY <2>3, <3>2 DEF StageOk, Written, FromLog, Fits, IsMarker
      <4>4. Written(t.messages, r, E) /\ t.messages \in Seq(Message)
        BY DEF StageOk, Written
      <4> HIDE DEF E, F, n
      <4>5. Written(t.messages, r, F)
        BY <4>2, <4>3, <4>4, WrittenSame
      <4> QED
        BY <4>1, <4>5, ApartSelf
    <3> QED
      BY <3>1, <3>2
  <2>8. ASSUME r \in LegacyRuns PROVE Fine(r, ProjectColumns(t.now, e), F)
    <3>1. CASE IsMarker(e)
      BY <2>3, <3>1 DEF Fine
    <3>2. CASE n + 1 \in DOMAIN Log[r] /\ e = Log[r][n + 1]
      <4>1. RowOk(t.now) /\ Fine(r, t.now, E)
        BY <2>8 DEF StageOk
      <4> HIDE DEF E, n
      <4>2. Fine(r, ProjectColumns(t.now, e), With(E, n, e))
        BY <2>2, <2>8, <3>2, <4>1, EventFine
      <4> QED
        BY <4>2
    <3> QED
      BY <3>1, <3>2 DEF Fits
  <2> HIDE DEF E, F
  <2>9. /\ DOMAIN u = {"events", "now", "messages"} /\ u.events = F
        /\ u.now = ProjectColumns(t.now, e) /\ u.messages = ProjectMessages(t.messages, r, e)
    BY <2>1
  <2> HIDE DEF u, n
  <2>10. StageOk(r, u)
    BY <2>4, <2>6, <2>7, <2>8, <2>9 DEF StageOk
  <2> QED
    BY <2>3, <2>7, <2>9, <2>10 DEF OneStage, E, u, n
<1> QED
  BY <1>1, <1>2

\* A batch that goes on where the stored events end, or before.
LEMMA BatchStored ==
  ASSUME NEW r \in Runs, NEW s, StageOk(r, s), NEW U, NEW batch \in Seq(U),
         NEW a \in Nat, Numbered(batch, a), a = 0 \/ a - 1 \in DOMAIN s.events,
         \A i \in DOMAIN batch : Fits(r, batch[i])
  PROVE  /\ StageOk(r, StoreAll(s, r, batch))
         /\ Apart(s.messages, StoreAll(s, r, batch).messages, r)
<1>1. PICK f : Stages(s, r, batch, f) /\ StoreAll(s, r, batch) = f[Len(batch)]
  BY StoreAllStages
<1> DEFINE Ok(k) == /\ StageOk(r, f[k]) /\ Apart(s.messages, f[k].messages, r)
                    /\ a + k = 0 \/ a + k - 1 \in DOMAIN f[k].events
           P == {k \in Nat : k <= Len(batch) => Ok(k)}
<1>2. 0 \in P
  <2>1. f[0] = s
    BY <1>1 DEF Stages
  <2> QED
    BY <2>1, ApartSelf
<1>3. ASSUME NEW k \in Nat, k \in P PROVE k + 1 \in P
  <2> SUFFICES ASSUME k + 1 <= Len(batch) PROVE Ok(k + 1)
    OBVIOUS
  <2> DEFINE e == batch[k + 1]
             t == f[k]
             u == f[k + 1]
  <2>1. k + 1 \in DOMAIN batch /\ k + 1 \in 1 .. Len(batch) /\ (k + 1) - 1 = k
    OBVIOUS
  <2>2. u = StoreEvent(t, r, e)
    BY <1>1, <2>1 DEF Stages
  <2>3. /\ StageOk(r, t) /\ Apart(s.messages, t.messages, r)
        /\ a + k = 0 \/ a + k - 1 \in DOMAIN t.events
    BY <1>3
  <2>4. Fits(r, e) /\ e.id = a + (k + 1) - 1
    BY <2>1 DEF Numbered
  <2> HIDE DEF e, t, u
  <2>5. e.id = a + k /\ e.id \in Nat /\ (e.id = 0 \/ e.id - 1 \in DOMAIN t.events)
    BY <2>3, <2>4
  <2>6. OneStage(r, t, e, u)
    BY <2>2, <2>3, <2>4, <2>5, EventStored
  <2>7. Apart(s.messages, u.messages, r)
    BY <2>3, <2>6, ApartAgain DEF OneStage
  <2>8. a + (k + 1) - 1 \in DOMAIN u.events
    <3>1. a + (k + 1) - 1 = e.id
      BY <2>5
    <3> QED
      BY <2>6, <3>1 DEF OneStage
  <2>9. StageOk(r, u)
    BY <2>6 DEF OneStage
  <2> QED
    BY <2>7, <2>8, <2>9 DEF u
<1>4. Len(batch) \in P
  <2>1. \A k \in Nat : k \in P => k + 1 \in P
    BY <1>3
  <2>2. Len(batch) \in Nat
    OBVIOUS
  <2> HIDE DEF P
  <2> QED
    BY <1>2, <2>1, <2>2, Induct
<1> QED
  BY <1>1, <1>4 DEF P

\* The message of a result follows that of its step's calls, and its call is there,
\* since the log has it before the result.
LEMMA ResultsFollow ==
  ASSUME NEW r \in Runs, NEW m, NEW E, Written(m, r, E), Counted(DOMAIN E)
  PROVE  ResultsFollowCalls(m, r, E)
<1> SUFFICES ASSUME NEW k \in Told(E), E[k].type = "tool.result"
             PROVE  \E j, i \in Places(m, r) :
                      /\ Follows(m, r, j, i) /\ Speaks(m[i], E[k])
                      /\ m[j].role = "assistant" /\ m[j].step = E[k].step
                      /\ \E b \in DOMAIN m[j].blocks :
                           m[j].blocks[b] = [type |-> "tool.call", use |-> E[k].use]
  BY DEF ResultsFollowCalls
<1>0. FromLog(r, E) /\ ToldOnce(m, r, E) /\ BlocksInOrder(m, r, E) /\ Answers(m, r)
  BY DEF Written
<1>1. k + 1 \in DOMAIN Log[r] /\ E[k] = Log[r][k + 1] /\ E[k].type \in BlockTypes
  BY <1>0, ToldFromLog DEF Told
<1>2. StepOf(E[k]) = E[k].step /\ E[k].step # NoStep /\ Role(E[k]) = "user"
  BY <1>1, Telling DEF Role
<1>3. PICK i \in Places(m, r) : Speaks(m[i], E[k])
  BY <1>0 DEF ToldOnce
<1>4. PICK j \in Places(m, r) :
        Follows(m, r, j, i) /\ m[j].role = "assistant" /\ m[j].step = E[k].step
  BY <1>0, <1>2, <1>3 DEF Answers, Speaks
<1>5. PICK c \in DOMAIN Log[r] :
        /\ c < k + 1 /\ Log[r][c].type = "tool.call" /\ Log[r][c].step = E[k].step
        /\ Log[r][c].use = E[k].use
  BY <1>1, Telling
<1>6. c - 1 \in DOMAIN E /\ c - 1 + 1 = c
  <2>1. c \in Nat \ {0}
    BY LogShape
  <2>2. PICK n \in Nat : DOMAIN E = 0 .. n - 1
    BY DEF Counted
  <2>3. k \in DOMAIN E
    BY DEF Told
  <2> QED
    BY <1>5, <2>1, <2>2, <2>3
<1>7. c - 1 \in Told(E) /\ E[c - 1] = Log[r][c]
  <2>1. Log[r][c - 1 + 1].type \in BlockTypes /\ c - 1 + 1 \in DOMAIN Log[r]
    BY <1>5, <1>6 DEF BlockTypes
  <2> QED
    BY <1>0, <1>6, <2>1, ToldFromLog
<1>8. Speaks(m[j], E[c - 1])
  BY <1>4, <1>5, <1>7 DEF Speaks, Role, StepOf
<1>9. PICK f : Tells(m[j].blocks, E, HeardBy(m[j], E), f)
  BY <1>0, InOrder
<1>10. PICK b \in DOMAIN m[j].blocks : f[b] = c - 1
  BY <1>7, <1>8, <1>9 DEF Tells, HeardBy
<1>11. m[j].blocks[b] = [type |-> "tool.call", use |-> E[k].use]
  BY <1>5, <1>7, <1>9, <1>10 DEF Tells, Block
<1> QED
  BY <1>3, <1>4, <1>11

-----------------------------------------------------------------------------
(* The tables, and what every verb does to the transcripts in them *)

Transcripts(d) ==
  /\ \A r \in DOMAIN d.runs :
       /\ Written(d.messages[d.runs[r].conv], r, d.events[r])
       /\ r \in LegacyRuns => Fine(r, d.runs[r].now, d.events[r])
  /\ \A c \in DOMAIN d.messages :
       /\ d.messages[c] \in Seq(Message)
       /\ \A i \in DOMAIN d.messages[c] :
            /\ d.messages[c][i].run \in DOMAIN d.runs
            /\ d.runs[d.messages[c][i].run].conv = c

\* From d to e no run tells anything: new conversations are empty, new runs have no
\* events, and an imported row that says "ok" said so or has all of its run's events.
Silent(d, e) ==
  /\ \A c \in DOMAIN d.messages : c \in DOMAIN e.messages /\ e.messages[c] = d.messages[c]
  /\ \A c \in DOMAIN e.messages \ DOMAIN d.messages : e.messages[c] = << >>
  /\ \A r \in DOMAIN d.runs :
       /\ r \in DOMAIN e.runs /\ e.runs[r].conv = d.runs[r].conv /\ e.events[r] = d.events[r]
       /\ r \in LegacyRuns /\ e.runs[r].now.status = "ok" =>
            d.runs[r].now.status = "ok" \/ Complete(r, d.events[r])
  /\ \A r \in DOMAIN e.runs \ DOMAIN d.runs :
       DOMAIN e.events[r] = {} /\ e.runs[r].conv \in DOMAIN e.messages

LEMMA SilentAgain ==
  ASSUME NEW d, NEW e, NEW f, Silent(d, e), Silent(e, f), e.runs = d.runs
  PROVE  Silent(d, f)
  BY DEF Silent

LEMMA SilentTranscripts ==
  ASSUME NEW d, Tables(d), Transcripts(d), NEW e, Silent(d, e)
  PROVE  Transcripts(e)
<1> DEFINE none == << >>
<1>1. none \in Seq(Message) /\ DOMAIN none = {}
  BY EmptySeq
<1>2. \A r \in DOMAIN d.runs : d.runs[r].conv \in DOMAIN d.messages
  BY DEF Tables, Sound
<1>3. \A c \in DOMAIN e.messages :
        \/ c \in DOMAIN d.messages /\ e.messages[c] = d.messages[c]
        \/ e.messages[c] = none
  BY DEF Silent
<1> HIDE DEF none
<1>4. \A c \in DOMAIN e.messages :
        /\ e.messages[c] \in Seq(Message)
        /\ \A i \in DOMAIN e.messages[c] :
             /\ e.messages[c][i].run \in DOMAIN d.runs
             /\ d.runs[e.messages[c][i].run].conv = c
  BY <1>1, <1>3 DEF Transcripts
<1>5. ASSUME NEW r \in DOMAIN e.runs
      PROVE  /\ Written(e.messages[e.runs[r].conv], r, e.events[r])
             /\ r \in LegacyRuns => Fine(r, e.runs[r].now, e.events[r])
  <2>1. CASE r \in DOMAIN d.runs
    <3>1. /\ e.runs[r].conv = d.runs[r].conv /\ e.events[r] = d.events[r]
          /\ e.messages[e.runs[r].conv] = d.messages[d.runs[r].conv]
          /\ r \in LegacyRuns /\ e.runs[r].now.status = "ok" =>
               d.runs[r].now.status = "ok" \/ Complete(r, d.events[r])
      BY <1>2, <2>1 DEF Silent
    <3> QED
      BY <2>1, <3>1 DEF Transcripts, Fine
  <2>2. CASE r \notin DOMAIN d.runs
    <3> DEFINE m == e.messages[e.runs[r].conv]
               E == e.events[r]
    <3>1. DOMAIN E = {} /\ m \in Seq(Message)
      BY <1>4, <2>2 DEF Silent
    <3>2. \A i \in DOMAIN m : m[i].run # r
      BY <1>4, <2>2 DEF Silent
    <3> HIDE DEF m, E
    <3>3. Places(m, r) = {} /\ Told(E) = {}
      BY <3>1, <3>2 DEF Places, Told
    <3>4. Written(m, r, E)
      BY <3>1, <3>3 DEF Written, FromLog, ToldOnce, BlocksInOrder, Heard, Ordered, Answers
    <3> QED
      BY <3>1, <3>4 DEF m, E, Fine
  <2> QED
    BY <2>1, <2>2
<1>6. \A r \in DOMAIN d.runs : r \in DOMAIN e.runs /\ e.runs[r].conv = d.runs[r].conv
  BY DEF Silent
<1> QED
  BY <1>4, <1>5, <1>6 DEF Transcripts

LEMMA UpsertSilent ==
  ASSUME NEW d, Tables(d), NEW u
  PROVE  Silent(d, UpsertUser(d, u)) /\ UpsertUser(d, u).runs = d.runs
<1> DEFINE e == UpsertUser(d, u)
<1>1. e.messages = d.messages /\ e.runs = d.runs /\ e.events = d.events
  BY DEF Tables, Sound, UpsertUser
<1> HIDE DEF e
<1>2. Silent(d, e) /\ e.runs = d.runs
  BY <1>1 DEF Silent
<1> QED
  BY <1>2 DEF e

LEMMA UpdateConversationSilent ==
  ASSUME NEW d, Tables(d), NEW c, NEW u, NEW a
  PROVE  Silent(d, UpdateConversation(d, c, u, a))
<1> DEFINE e == UpdateConversation(d, c, u, a)
<1>1. e.messages = d.messages /\ e.runs = d.runs /\ e.events = d.events
  BY DEF Tables, Sound, UpdateConversation
<1> HIDE DEF e
<1>2. Silent(d, e)
  BY <1>1 DEF Silent
<1> QED
  BY <1>2 DEF e

LEMMA CreateConversationSilent ==
  ASSUME NEW d, Tables(d), NEW u \in Users
  PROVE  Silent(d, CreateConversation(d, u)) /\ CreateConversation(d, u).runs = d.runs
<1> DEFINE none == << >>
           e == CreateConversation(d, u)
           p == Len(d.messages) + 1
<1>1. e.messages = Append(d.messages, none) /\ e.runs = d.runs /\ e.events = d.events
  BY DEF Tables, Sound, CreateConversation, UpsertUser
<1>2. /\ DOMAIN e.messages = DOMAIN d.messages \cup {p} /\ e.messages[p] = none
      /\ \A c \in DOMAIN d.messages : e.messages[c] = d.messages[c]
  <2> DEFINE U == {d.messages[c] : c \in DOMAIN d.messages} \cup {none}
  <2>1. PICK n \in Nat : DOMAIN d.messages = 1 .. n /\ d.messages = [i \in 1 .. n |-> d.messages[i]]
    BY DEF Tables, Lists
  <2>2. \A i \in 1 .. n : d.messages[i] \in U
    BY <2>1
  <2>3. none \in U
    OBVIOUS
  <2> HIDE DEF U
  <2>4. d.messages \in [1 .. n -> U]
    BY <2>1, <2>2
  <2>5. d.messages \in Seq(U)
    BY <2>4, IsASeq
  <2> HIDE DEF none, e
  <2>6. /\ e.messages \in Seq(U) /\ Len(e.messages) = p /\ e.messages[p] = none
        /\ \A i \in 1 .. Len(d.messages) : e.messages[i] = d.messages[i]
    BY <1>1, <2>3, <2>5, AppendProperties
  <2>7. DOMAIN e.messages = 1 .. p /\ DOMAIN d.messages = 1 .. Len(d.messages) /\ Len(d.messages) \in Nat
    BY <2>5, <2>6, LenProperties
  <2>8. 1 .. p = 1 .. Len(d.messages) \cup {p}
    BY <2>7
  <2> QED
    BY <2>6, <2>7, <2>8
<1> HIDE DEF e, p
<1>3. Silent(d, e)
  BY <1>1, <1>2 DEF Silent
<1> QED
  BY <1>1, <1>3 DEF e

LEMMA CreateRunSilent ==
  ASSUME NEW d, Tables(d), NEW r \in Runs, NEW owner \in Users, NEW c, NEW rec
  PROVE  Silent(d, CreateRun(d, r, owner, c, rec))
<1> DEFINE d1 == UpsertUser(d, owner)
           known == c \in Conversations(d1)
           d2 == IF known THEN d1 ELSE CreateConversation(d1, owner)
           home == IF known THEN c ELSE Len(d2.convs)
           row == [conv |-> home, user |-> owner, now |-> NewColumns(rec)]
           none == << >>
           d3 == [d2 EXCEPT !.runs = With(@, r, row), !.events = With(@, r, none)]
           e == CreateRun(d, r, owner, c, rec)
<1>1. CASE r \in DOMAIN d.runs
  <2>1. e = d
    BY <1>1 DEF CreateRun
  <2> QED
    BY <2>1 DEF Silent
<1>2. CASE r \notin DOMAIN d.runs
  <2>1. Tables(d1) /\ Silent(d, d1) /\ d1.runs = d.runs
    BY UpsertTables, UpsertSilent
  <2>2. Tables(d2) /\ Silent(d, d2) /\ d2.runs = d.runs /\ home \in DOMAIN d2.messages
    <3>1. CASE known
      BY <2>1, <3>1 DEF Tables, Conversations
    <3>2. CASE ~known
      <4>1. d2 = CreateConversation(d1, owner) /\ home = Len(d2.convs)
        BY <3>2
      <4> HIDE DEF d1, d2, known, home
      <4>2. Tables(d2) /\ Silent(d1, d2) /\ d2.runs = d1.runs
        BY <2>1, <4>1, CreateConversationTables, CreateConversationSilent
      <4>3. Len(d2.convs) \in DOMAIN d2.convs
        BY <2>1, <4>1, CreateConversationKeeps DEF Tables
      <4> QED
        BY <2>1, <4>1, <4>2, <4>3, SilentAgain DEF Tables
    <3> QED
      BY <3>1, <3>2
  <2>3. e = d3
    BY <1>2 DEF CreateRun
  <2> HIDE DEF d1, known, d2, home, e
  <2>4. /\ e.messages = d2.messages
        /\ e.runs = With(d2.runs, r, row) /\ e.events = With(d2.events, r, none)
    BY <2>2, <2>3 DEF Tables, Sound
  <2>5. /\ DOMAIN e.runs = DOMAIN d2.runs \cup {r} /\ e.runs[r].conv = home
        /\ e.events[r] = none /\ DOMAIN none = {}
        /\ \A x \in DOMAIN d2.runs \ {r} : e.runs[x] = d2.runs[x]
        /\ \A x \in DOMAIN d2.events \ {r} : e.events[x] = d2.events[x]
    BY <2>4 DEF With
  <2>6. DOMAIN d2.events = DOMAIN d2.runs
    BY <2>2 DEF Tables
  <2> HIDE DEF none, row
  <2>7. Silent(d, e)
    BY <1>2, <2>2, <2>4, <2>5, <2>6 DEF Silent
  <2> QED
    BY <2>7 DEF e
<1> QED
  BY <1>1, <1>2

\* An update that says "ok" of an imported run is of one that has all of its events.
Says(r, fields) == r \in LegacyRuns /\ "status" \in DOMAIN fields /\ fields["status"] = "ok"

LEMMA FinishRunSilent ==
  ASSUME NEW d, Tables(d), NEW r \in DOMAIN d.runs, NEW fields, NEW read,
         Says(r, fields) => Complete(r, d.events[r])
  PROVE  Silent(d, FinishRun(d, r, read, fields))
<1> DEFINE u == Updated(d.runs[r].now, read, fields)
           e == FinishRun(d, r, read, fields)
<1>1. /\ e.messages = d.messages /\ e.events = d.events
      /\ e.runs = [d.runs EXCEPT ![r].now = u]
  BY DEF Tables, Sound, FinishRun
<1>2. r \in LegacyRuns /\ u.status = "ok" =>
        d.runs[r].now.status = "ok" \/ Complete(r, d.events[r])
  BY DEF Updated, Given, Says
<1> HIDE DEF u
<1>3. /\ DOMAIN e.runs = DOMAIN d.runs /\ e.runs[r].now = u /\ e.runs[r].conv = d.runs[r].conv
      /\ \A x \in DOMAIN d.runs \ {r} : e.runs[x] = d.runs[x]
  BY <1>1 DEF Tables
<1> HIDE DEF e
<1>4. Silent(d, e)
  BY <1>1, <1>2, <1>3 DEF Silent
<1> QED
  BY <1>4 DEF e

\* Other runs of the conversation have their messages where they had them.
LEMMA OthersWritten ==
  ASSUME NEW m, NEW l \in Seq(Message), NEW r, Apart(m, l, r), NEW x, x # r, NEW E, Written(m, x, E)
  PROVE  Written(l, x, E)
<1>1. Places(l, x) = Places(m, x) /\ \A i \in Places(m, x) : l[i] = m[i]
  BY DEF Apart, Places
<1>2. FromLog(x, E)
  BY DEF Written
<1> QED
  BY <1>1, <1>2, WrittenSame

LEMMA AppendTranscripts ==
  ASSUME NEW d, Tables(d), Transcripts(d), NEW r \in DOMAIN d.runs, NEW U, NEW batch \in Seq(U),
         NEW a \in Nat, Numbered(batch, a), a = 0 \/ a - 1 \in DOMAIN d.events[r],
         \A i \in DOMAIN batch : Fits(r, batch[i])
  PROVE  Transcripts(AppendEvents(d, r, batch))
<1> DEFINE c == d.runs[r].conv
           old == [events |-> d.events[r], now |-> d.runs[r].now, messages |-> d.messages[c]]
           new == StoreAll(old, r, batch)
           e == AppendEvents(d, r, batch)
<1>1. /\ e.messages = [d.messages EXCEPT ![c] = new.messages]
      /\ e.runs = [d.runs EXCEPT ![r].now = new.now]
      /\ e.events = [d.events EXCEPT ![r] = new.events]
  BY DEF Tables, Sound, AppendEvents
<1>2. StageOk(r, old) /\ old.events = d.events[r] /\ old.messages = d.messages[c] /\ r \in Runs
  BY DEF Tables, Transcripts, StageOk
<1> HIDE DEF old, e
<1>3. StageOk(r, new) /\ Apart(d.messages[c], new.messages, r)
  BY <1>2, BatchStored
<1> HIDE DEF new
<1>4. c \in DOMAIN d.messages /\ \A x \in DOMAIN d.runs : d.runs[x].conv \in DOMAIN d.messages
  BY DEF Tables, Sound
<1> HIDE DEF c
<1>5. /\ DOMAIN e.runs = DOMAIN d.runs /\ e.runs[r].now = new.now
      /\ \A x \in DOMAIN d.runs : e.runs[x].conv = d.runs[x].conv
      /\ \A x \in DOMAIN d.runs \ {r} : e.runs[x].now = d.runs[x].now /\ e.events[x] = d.events[x]
      /\ e.events[r] = new.events /\ e.messages[c] = new.messages
      /\ DOMAIN e.messages = DOMAIN d.messages
      /\ \A x \in DOMAIN d.messages \ {c} : e.messages[x] = d.messages[x]
  BY <1>1, <1>4 DEF Tables
<1>6. new.messages \in Seq(Message)
  BY <1>3 DEF StageOk, Written
<1>7. ASSUME NEW x \in DOMAIN d.runs
      PROVE  /\ Written(e.messages[e.runs[x].conv], x, e.events[x])
             /\ x \in LegacyRuns => Fine(x, e.runs[x].now, e.events[x])
  <2>1. CASE x = r
    BY <1>3, <1>5, <2>1 DEF StageOk, c
  <2>2. CASE x # r
    <3>1. /\ Written(d.messages[d.runs[x].conv], x, d.events[x])
          /\ x \in LegacyRuns => Fine(x, d.runs[x].now, d.events[x])
      BY DEF Transcripts
    <3>2. CASE d.runs[x].conv = c
      <4>1. Written(new.messages, x, d.events[x])
        BY <1>3, <1>6, <2>2, <3>1, <3>2, OthersWritten
      <4> QED
        BY <1>5, <2>2, <3>1, <3>2, <4>1
    <3>3. CASE d.runs[x].conv # c
      BY <1>4, <1>5, <2>2, <3>1, <3>3
    <3> QED
      BY <3>2, <3>3
  <2> QED
    BY <2>1, <2>2
<1>8. ASSUME NEW x \in DOMAIN d.messages
      PROVE  /\ e.messages[x] \in Seq(Message)
             /\ \A i \in DOMAIN e.messages[x] :
                  e.messages[x][i].run \in DOMAIN d.runs /\ d.runs[e.messages[x][i].run].conv = x
  <2>1. CASE x # c
    BY <1>5, <2>1 DEF Transcripts
  <2>2. CASE x = c
    <3>1. ASSUME NEW i \in DOMAIN new.messages
          PROVE  new.messages[i].run \in DOMAIN d.runs /\ d.runs[new.messages[i].run].conv = c
      <4>1. CASE i \in DOMAIN d.messages[c] /\ d.messages[c][i].run # r
        <5>1. new.messages[i] = d.messages[c][i]
          BY <1>3, <3>1, <4>1 DEF Apart
        <5> QED
          BY <1>4, <4>1, <5>1 DEF Transcripts
      <4>2. CASE ~(i \in DOMAIN d.messages[c] /\ d.messages[c][i].run # r)
        <5>1. new.messages[i].run = r
          BY <1>3, <3>1, <4>2 DEF Apart
        <5> QED
          BY <5>1 DEF c
      <4> QED
        BY <4>1, <4>2
    <3> QED
      BY <1>5, <1>6, <2>2, <3>1
  <2> QED
    BY <2>1, <2>2
<1>9. Transcripts(e)
  BY <1>5, <1>7, <1>8, ZenonT(60) DEF Transcripts
<1> QED
  BY <1>9 DEF e

-----------------------------------------------------------------------------
(* The steps.  What a waiting call or a job says "ok" of, and what a job      *)
(* marks, is a run with all of its events: an import pins the old record's    *)
(* status after its last chunk, and a plan never says "ok"                    *)

CallsSettle(d, s) == \A c \in s : Says(c.run, c.fields) => Complete(c.run, d.events[c.run])

JobSettles(d, j) ==
  /\ j.pc = "mark" =>
       IsMarker(j.plan.event) /\ (j.plan.event.id = 0 \/ Complete(j.run, d.events[j.run]))
  /\ j.pc \in {"mark", "correct"} => ~Says(j.run, j.plan.fields)

Tell == Transcripts(db) /\ CallsSettle(db, calls) /\ JobSettles(db, job)
TellInv == FactsInv /\ Tell

LEMMA TranscriptFromInv == TellInv => TranscriptMatchesLog
<1> SUFFICES ASSUME TellInv, NEW r \in DOMAIN db.runs
             PROVE  LET m == db.messages[db.runs[r].conv]
                        E == db.events[r]
                    IN  ToldOnce(m, r, E) /\ BlocksInOrder(m, r, E) /\ ResultsFollowCalls(m, r, E)
  BY DEF TranscriptMatchesLog
<1> DEFINE m == db.messages[db.runs[r].conv]
           E == db.events[r]
<1>1. Written(m, r, E) /\ Counted(DOMAIN E) /\ r \in Runs
  BY DEF TellInv, Tell, Transcripts, FactsInv, Facts, FactsAt, Tables
<1> HIDE DEF m, E
<1>2. ResultsFollowCalls(m, r, E)
  BY <1>1, ResultsFollow
<1>3. ToldOnce(m, r, E) /\ BlocksInOrder(m, r, E)
  BY <1>1 DEF Written
<1> QED
  BY <1>2, <1>3 DEF m, E

LEMMA InitTell == Init => TellInv
<1> SUFFICES ASSUME Init PROVE TellInv
  OBVIOUS
<1> DEFINE none == << >>
<1>1. DOMAIN none = {}
  OBVIOUS
<1>2. db.runs = none /\ db.messages = none
  BY DEF Init, EmptyDb
<1> HIDE DEF none
<1>3. Transcripts(db)
  BY <1>1, <1>2 DEF Transcripts
<1>4. CallsSettle(db, calls) /\ JobSettles(db, job)
  BY DEF Init, Idle, CallsSettle, JobSettles
<1> QED
  BY <1>3, <1>4, InitFacts DEF TellInv, Tell

\* What was complete stays so: only the transcripts, a new call or a new job is left.
LEMMA TellKept ==
  ASSUME TellInv, [Next]_vars, Transcripts(db'), CallsSettle(db, calls'), JobSettles(db, job'),
         db' = db \/ (calls' \subseteq calls /\ (job' = job \/ job'.pc # "mark"))
  PROVE  TellInv'
<1>1. FactsInv /\ FactsInv' /\ Climbs(db, db')
  BY FactsStep DEF TellInv
<1>2. ASSUME NEW r \in DOMAIN db.runs, Complete(r, db.events[r]) PROVE Complete(r, db'.events[r])
  BY <1>1, <1>2 DEF Climbs, Complete
<1>3. CASE db' = db
  BY <1>1, <1>3 DEF TellInv, Tell
<1>4. CASE calls' \subseteq calls /\ (job' = job \/ job'.pc # "mark")
  <2>1. CallsSettle(db', calls')
    <3>1. \A c \in calls' : c.run \in DOMAIN db.runs
      BY <1>1, <1>4 DEF FactsInv, Facts, FactsAt, CallsOk, CallOk
    <3> QED
      BY <1>2, <3>1 DEF CallsSettle
  <2>2. JobSettles(db', job')
    <3>1. job.pc = "mark" => job.run \in DOMAIN db.runs
      BY <1>1 DEF FactsInv, Facts, FactsAt, JobOk
    <3> QED
      BY <1>2, <1>4, <3>1 DEF JobSettles
  <2> QED
    BY <1>1, <2>1, <2>2 DEF TellInv, Tell
<1> QED
  BY <1>3, <1>4

\* A step that tells nothing; a call that begins is of a live run.
LEMMA QuietTell ==
  ASSUME TellInv, [Next]_vars, Silent(db, db'), job' = job \/ job'.pc \notin {"mark", "correct"},
         \/ calls' \subseteq calls
         \/ db' = db /\ \A c \in calls' \ calls : c.run \in LiveRuns
  PROVE  TellInv'
<1>1. Transcripts(db')
  BY SilentTranscripts DEF TellInv, Tell, FactsInv, Facts, FactsAt
<1>2. CallsSettle(db, calls')
  BY ClientsAssumption DEF TellInv, Tell, CallsSettle, Says
<1>3. JobSettles(db, job')
  BY DEF TellInv, Tell, JobSettles
<1> QED
  BY <1>1, <1>2, <1>3, TellKept

LEMMA SilentSelf ==
  ASSUME NEW d
  PROVE  Silent(d, d)
  BY DEF Silent

LEMMA RequestTell ==
  ASSUME TellInv, Request
  PROVE  TellInv'
<1> USE PeopleAreUsers
<1>0. /\ Tables(db) /\ req \in [LiveRuns -> Requests] /\ [Next]_vars
  BY DEF TellInv, FactsInv, Facts, FactsAt, StrayInv, IInv, Shapes, Next
<1>1. ASSUME NEW u \in People, Identify(u) \/ OpenConversation(u)
      PROVE  Silent(db, db') /\ job' = job /\ calls' = calls
  BY <1>0, <1>1, UpsertSilent, CreateConversationSilent DEF Identify, OpenConversation, ApiOnly
<1>2. ASSUME NEW u \in People, NEW c \in Conversations(db), NEW a \in BOOLEAN, Archive(u, c, a)
      PROVE  Silent(db, db') /\ job' = job /\ calls' = calls
  <2> DEFINE d == UpsertUser(db, u)
  <2>1. Tables(d) /\ Silent(db, d) /\ d.runs = db.runs
    BY <1>0, UpsertTables, UpsertSilent
  <2>2. db' = UpdateConversation(d, c, u, a) /\ job' = job /\ calls' = calls
    BY <1>2 DEF Archive, ApiOnly
  <2> HIDE DEF d
  <2>3. Silent(d, db')
    BY <2>1, <2>2, UpdateConversationSilent
  <2> QED
    BY <2>1, <2>2, <2>3, SilentAgain
<1>3. ASSUME NEW u \in People, NEW c \in Conversations(db), NEW r \in LiveRuns, Continue(u, c, r)
      PROVE  Silent(db, db') /\ job' = job /\ calls' = calls
  BY <1>0, <1>3, UpsertSilent DEF Continue, ApiOnly
<1>4. ASSUME NEW u \in People \cup {None}, NEW r \in LiveRuns, Post(u, r)
      PROVE  Silent(db, db') /\ job' = job /\ calls' = calls
  BY <1>0, <1>4, CreateConversationSilent DEF Post, ApiOnly
<1>5. ASSUME NEW r \in LiveRuns, CreateRow(r)
      PROVE  Silent(db, db') /\ job' = job /\ calls' = calls
  <2>1. req[r].user \in Users /\ r \in Runs
    BY <1>0 DEF Requests, Runs
  <2> QED
    BY <1>0, <1>5, <2>1, CreateRunSilent DEF CreateRow, ApiOnly
<1>6. ASSUME NEW r \in LiveRuns, Spawn(r) \/ RequestDies(r)
      PROVE  Silent(db, db') /\ job' = job /\ calls' = calls
  BY <1>6, SilentSelf DEF Spawn, RequestDies, ApiOnly
<1>7. ASSUME NEW r \in LiveRuns, SpawnRaises(r)
      PROVE  db' = db /\ job' = job /\ \A c \in calls' \ calls : c.run \in LiveRuns
  BY <1>7 DEF SpawnRaises, Update
<1>8. \/ Silent(db, db') /\ job' = job /\ calls' = calls
      \/ db' = db /\ job' = job /\ \A c \in calls' \ calls : c.run \in LiveRuns
  BY <1>1, <1>2, <1>3, <1>4, <1>5, <1>6, <1>7 DEF Request
<1> QED
  BY <1>0, <1>8, QuietTell, SilentSelf

\* A stretch of the log goes on where the stored events end, or before.
LEMMA SliceTell ==
  ASSUME TellInv, NEW r \in DOMAIN db.runs, NEW b, NEW a \in Nat, NEW hi \in Nat,
         IsSlice(b, r, a, hi), a = 0 \/ a - 1 \in DOMAIN db.events[r],
         db' = AppendEvents(db, r, b)
  PROVE  Transcripts(db')
<1> DEFINE U == ToSet(Log[r])
<1>1. Tables(db) /\ Transcripts(db) /\ r \in Runs
  BY DEF TellInv, Tell, FactsInv, Facts, FactsAt, Tables
<1>2. b \in Seq(U) /\ Numbered(b, a) /\ \A i \in DOMAIN b : \E k \in DOMAIN Log[r] : b[i] = Log[r][k]
  BY DEF IsSlice
<1>3. ASSUME NEW i \in DOMAIN b PROVE Fits(r, b[i])
  <2>1. PICK k \in DOMAIN Log[r] : b[i] = Log[r][k]
    BY <1>2
  <2>2. b[i].id = k - 1 /\ k \in Nat
    BY <1>1, <2>1, LogShape
  <2>3. b[i].id + 1 = k
    BY <2>2
  <2> QED
    BY <2>1, <2>3 DEF Fits
<1> HIDE DEF U
<1>4. Transcripts(AppendEvents(db, r, b))
  BY <1>1, <1>2, <1>3, AppendTranscripts
<1> QED
  BY <1>4

LEMMA WorkTell ==
  ASSUME TellInv, Work
  PROVE  TellInv'
<1> PICK r \in LiveRuns : LocalRun(r) \/ Begin(r) \/ Flush(r) \/ Resend(r) \/ Settle(r) \/ WorkerDies(r)
  BY DEF Work
<1>0. /\ Tables(db) /\ req \in [LiveRuns -> Requests] /\ [Next]_vars /\ job' = job
      /\ WorkerOk(db, r, worker[r]) /\ r \in Runs /\ Len(Log[r]) \in Nat
      /\ CallsSettle(db, calls) /\ JobSettles(db, job)
  BY LogShape DEF TellInv, Tell, FactsInv, Facts, FactsAt, StrayInv, IInv, Shapes, Next, Runs, WorkersOk,
     LocalRun, Begin, Flush, Resend, Settle, WorkerDies, WorkerOnly
<1>1. CASE LocalRun(r) \/ WorkerDies(r)
  <2>1. db' = db /\ calls' = calls
    BY <1>1 DEF LocalRun, WorkerDies
  <2> QED
    BY <1>0, <2>1, QuietTell, SilentSelf
<1>2. CASE Begin(r)
  <2>1. /\ db' = CreateRun(db, r, req[r].user, 0, [status |-> "queued"]) /\ calls' = calls
        /\ req[r].user \in Users
    BY <1>0, <1>2 DEF Begin, Requests
  <2>2. Silent(db, db')
    BY <1>0, <2>1, CreateRunSilent
  <2> QED
    BY <1>0, <2>1, <2>2, QuietTell
<1>3. CASE Flush(r)
  <2> DEFINE a == worker[r].sent
  <2>1. PICK hi \in a + 1 .. Len(Log[r]) : db' = AppendEvents(db, r, SubSeq(Log[r], a + 1, hi))
    BY <1>3 DEF Flush
  <2>2. r \in DOMAIN db.runs /\ a \in Nat /\ (a = 0 \/ a - 1 \in DOMAIN db.events[r]) /\ calls' = calls
    BY <1>0, <1>3 DEF Flush, WorkerOk
  <2> HIDE DEF a
  <2>3. hi \in Nat /\ a <= hi /\ hi <= Len(Log[r])
    BY <1>0, <2>2
  <2>4. Transcripts(db')
    BY <1>0, <2>1, <2>2, <2>3, Slice, SliceTell
  <2> QED
    BY <1>0, <2>2, <2>4, TellKept
<1>4. CASE Resend(r)
  <2> DEFINE a == 0
  <2>1. r \in DOMAIN db.runs /\ db' = AppendEvents(db, r, Log[r]) /\ calls' = calls
    BY <1>0, <1>4 DEF Resend, WorkerOk
  <2>2. IsSlice(Log[r], r, a, Len(Log[r])) /\ a \in Nat /\ (a = 0 \/ a - 1 \in DOMAIN db.events[r])
    BY <1>0, WholeSlice
  <2> HIDE DEF a
  <2>3. Transcripts(db')
    BY <1>0, <2>1, <2>2, SliceTell
  <2> QED
    BY <1>0, <2>1, <2>3, TellKept
<1>5. CASE Settle(r)
  <2>1. db' = db /\ \A c \in calls' \ calls : c.run \in LiveRuns
    BY <1>5 DEF Settle, Update
  <2> QED
    BY <1>0, <2>1, QuietTell, SilentSelf
<1> QED
  BY <1>1, <1>2, <1>3, <1>4, <1>5

LEMMA StoreTell ==
  ASSUME TellInv, StoreUpdates
  PROVE  TellInv'
<1> PICK c \in calls :
      db' = FinishRun(db, c.run, c.read, c.fields) /\ calls' = calls \ {c} /\ job' = job
  BY DEF StoreUpdates
<1>1. Tables(db) /\ CallsOk(db, calls) /\ CallsSettle(db, calls) /\ [Next]_vars
  BY DEF TellInv, Tell, FactsInv, Facts, FactsAt, Next
<1>2. c.run \in DOMAIN db.runs /\ (Says(c.run, c.fields) => Complete(c.run, db.events[c.run]))
  BY <1>1 DEF CallsOk, CallOk, CallsSettle
<1>3. Silent(db, db')
  BY <1>1, <1>2, FinishRunSilent
<1> QED
  BY <1>1, <1>3, QuietTell

\* After the last chunk there is nothing more.
LEMMA Covered ==
  ASSUME NEW n \in Nat, NEW k \in Nat \ {0}, NEW c \in Nat, c > (n + k - 1) \div k
  PROVE  n <= (c - 1) * k
<1> DEFINE q == (n + k - 1) \div k
<1>1. q \in Int /\ n + k - 1 < k * (q + 1)
  OBVIOUS
<1> HIDE DEF q
<1>2. q \in Int /\ c - 1 - q \in Nat
  BY <1>1 DEF q
<1>3. k * (c - 1 - q) >= 0 /\ k * (c - 1 - q) = (c - 1) * k - k * q
  BY <1>2
<1>4. k * (q + 1) = k * q + k
  BY <1>2
<1> QED
  BY <1>1, <1>2, <1>3, <1>4

LEMMA OperateTell ==
  ASSUME TellInv, Operate
  PROVE  TellInv'
<1> USE PeopleAreUsers
<1>0. /\ Tables(db) /\ [Next]_vars /\ JobOk(db, job) /\ FactsInv /\ Transcripts(db)
      /\ CallsSettle(db, calls) /\ JobSettles(db, job)
      /\ DOMAIN job = {"kind", "pc", "todo", "run", "conv", "chunk", "plan"}
  BY DEF TellInv, Tell, FactsInv, Facts, FactsAt, StrayInv, IInv, Shapes, Next
<1>1. CASE \/ StartBackfill \/ StartLegacyImport \/ \E u \in Users : StartPrune(u)
           \/ NextRecord \/ NextCandidate \/ Classify \/ JobEnds \/ JobDies
  <2>1. db' = db /\ calls' = calls /\ job'.pc \in {"import", "prune", "classify", "idle"}
    <3>1. CASE StartBackfill \/ StartLegacyImport \/ \E u \in Users : StartPrune(u)
      <4>1. \A kind, pc, todo : Start(kind, pc, todo) => db' = db /\ calls' = calls /\ job'.pc = pc
        BY DEF Start, Idle
      <4> QED
        BY <3>1, <4>1 DEF StartBackfill, StartLegacyImport, StartPrune
    <3>2. CASE NextRecord \/ NextCandidate \/ Classify
      BY <1>0, <3>2 DEF NextRecord, NextCandidate, Classify, Goes, NoCall
    <3>3. CASE JobEnds \/ JobDies
      BY <3>3 DEF JobEnds, JobDies, Idle, NoCall
    <3> QED
      BY <1>1, <3>1, <3>2, <3>3
  <2> QED
    BY <1>0, <2>1, QuietTell, SilentSelf
<1>2. CASE Pin
  <2> DEFINE r == job.run
             n == Len(Log[r])
             c == [by |-> "job", run |-> r, read |-> db.runs[r].now.extra,
                   fields |-> Pinned(Legacy[r])]
  <2>1. /\ job.pc = "replay" /\ job.chunk > Chunks(Log[r], ChunkSize) /\ calls' = calls \cup {c}
        /\ job'.pc = "pinning" /\ db' = db
    BY <1>0, <1>2 DEF Pin, Update, Goes
  <2>2. /\ r \in Runs /\ job.chunk \in Nat
        /\ \A i \in 0 .. n - 1 : i < (job.chunk - 1) * ChunkSize => i \in DOMAIN db.events[r]
    BY <1>0, <2>1 DEF JobOk, Runs
  <2>3. n \in Nat /\ ChunkSize \in Nat \ {0}
    BY <2>2, LogShape, ClientsAssumption
  <2>4. n <= (job.chunk - 1) * ChunkSize
    BY <2>1, <2>2, <2>3, Covered DEF Chunks
  <2>5. Complete(r, db.events[r])
    <3> DEFINE x == (job.chunk - 1) * ChunkSize
    <3>1. x \in Int
      BY <2>2, <2>3
    <3> HIDE DEF x
    <3>2. \A i \in 0 .. n - 1 : i < x
      BY <2>3, <2>4, <3>1 DEF x
    <3> QED
      BY <2>2, <3>2 DEF Complete, x
  <2>6. CallsSettle(db, calls')
    <3>1. c.run = r
      OBVIOUS
    <3> HIDE DEF c, r
    <3> QED
      BY <1>0, <2>1, <2>5, <3>1 DEF CallsSettle
  <2>7. JobSettles(db, job')
    BY <2>1 DEF JobSettles
  <2> QED
    BY <1>0, <2>1, <2>6, <2>7, TellKept
<1>3. CASE Correct
  <2> DEFINE r == job.run
             c == [by |-> "job", run |-> r, read |-> db.runs[r].now.extra,
                   fields |-> job.plan.fields]
  <2>1. /\ job.pc = "correct" /\ calls' = calls \cup {c} /\ job'.pc = "correcting" /\ db' = db
    BY <1>0, <1>3 DEF Correct, Update, Goes
  <2>2. CallsSettle(db, calls')
    <3>1. ~Says(c.run, c.fields)
      BY <1>0, <2>1 DEF JobSettles
    <3> HIDE DEF c
    <3> QED
      BY <1>0, <2>1, <3>1 DEF CallsSettle
  <2>3. JobSettles(db, job')
    BY <2>1 DEF JobSettles
  <2> QED
    BY <1>0, <2>1, <2>2, <2>3, TellKept
<1>4. ASSUME NEW r \in DOMAIN db.runs, Plan(r) PROVE TellInv'
  <2> DEFINE rec == GetRun(db, r)
  <2>1. /\ db' = db /\ calls' = calls
        /\ \/ job'.pc = "classify"
           \/ IsCandidate(rec) /\ job'.pc = "mark" /\ job'.run = r /\ job'.plan = PlanFor(rec)
    BY <1>0, <1>4 DEF Plan, NoCall
  <2>2. ASSUME IsCandidate(rec), job'.pc = "mark", job'.run = r, job'.plan = PlanFor(rec)
        PROVE  JobSettles(db, job')
    <3>1. r \in LegacyRuns
      BY <1>0, <2>2, CandidateIsLegacy
    <3>2. rec.events = db.events[r] /\ rec.status = db.runs[r].now.status
      BY DEF GetRun
    <3>3. PICK n \in Nat : DOMAIN rec.events = 0 .. n - 1
      BY <1>0, <3>2 DEF Tables, Counted
    <3> HIDE DEF rec
    <3>4. NextSeq(rec) = n
      BY <3>3, MarkerIsNext
    <3>5. IsMarker(job'.plan.event) /\ job'.plan.event.id = n
      BY <2>2, <3>4 DEF PlanFor, MarkerEvent, IsMarker
    <3>6. rec.status = "ok" /\ ~\E k \in DOMAIN rec.events : IsMarker(rec.events[k])
      BY <2>2 DEF IsCandidate, Ungraded, AlreadyBackfilled
    <3>7. DOMAIN rec.events = {} \/ Complete(r, db.events[r])
      BY <1>0, <3>1, <3>2, <3>6 DEF Transcripts, Fine
    <3>8. n = 0 \/ Complete(r, db.events[r])
      <4>1. n # 0 => 0 \in 0 .. n - 1
        OBVIOUS
      <4> QED
        BY <3>3, <3>7, <4>1
    <3>9. ~Says(r, PlanFields(rec))
      BY DEF Says, PlanFields
    <3>10. ~Says(r, job'.plan.fields)
      BY <2>2, <3>9 DEF PlanFor
    <3> QED
      BY <2>2, <3>5, <3>8, <3>10 DEF JobSettles
  <2>3. JobSettles(db, job')
    <3>1. job'.pc = "classify" => JobSettles(db, job')
      BY DEF JobSettles
    <3> HIDE DEF rec
    <3> QED
      BY <2>1, <2>2, <3>1
  <2> QED
    BY <1>0, <2>1, <2>3, TellKept
<1>5. ASSUME NEW c \in Conversations(db), Prune(c) PROVE TellInv'
  <2>1. /\ db' = UpdateConversation(db, c, db.convs[c].user, TRUE) /\ calls' = calls
        /\ job'.pc = "prune"
    BY <1>0, <1>5 DEF Prune, NoCall
  <2>2. Silent(db, db')
    BY <1>0, <2>1, UpdateConversationSilent
  <2> QED
    BY <1>0, <2>1, <2>2, QuietTell
<1>6. ASSUME NEW r \in LegacyRuns, ImportRecord(r) PROVE TellInv'
  <2>1. /\ calls' = calls /\ job'.pc \in {"replay", "row"}
        /\ db' = db \/ db' = CreateConversation(db, LegacyUser)
    BY <1>0, <1>6 DEF ImportRecord, NoCall
  <2>2. Silent(db, db')
    BY <1>0, <2>1, SilentSelf, CreateConversationSilent
  <2> QED
    BY <1>0, <2>1, <2>2, QuietTell
<1>7. ASSUME NEW r \in LegacyRuns, NEW owner \in Users, NEW c, NEW rec,
             db' = CreateRun(db, r, owner, c, rec), calls' = calls, job'.pc = "replay"
      PROVE  TellInv'
  <2>1. r \in Runs
    BY DEF Runs
  <2>2. Silent(db, db')
    BY <1>0, <1>7, <2>1, CreateRunSilent
  <2> QED
    BY <1>0, <1>7, <2>2, QuietTell
<1>8. CASE ImportRow
  <2>1. /\ db' = CreateRun(db, job.run, LegacyUser, job.conv, Legacy[job.run]) /\ calls' = calls
        /\ job.pc = "row" /\ job'.pc = "replay"
    BY <1>0, <1>8 DEF ImportRow, Goes, NoCall
  <2>2. job.run \in LegacyRuns /\ LegacyUser \in Users
    BY <1>0, <2>1, ClientsAssumption DEF JobOk
  <2> QED
    BY <1>7, <2>1, <2>2
<1>9. ASSUME NEW r \in LegacyRuns, ImportLegacyRow(r) PROVE TellInv'
  <2>1. /\ db' = CreateRun(db, r, Anonymous, 0, Legacy[r]) /\ calls' = calls
        /\ job'.pc = "replay" /\ Anonymous \in Users
    BY <1>0, <1>9, AnonymousAssumption DEF ImportLegacyRow, NoCall
  <2> QED
    BY <1>7, <2>1
<1>10. CASE Replay
  <2> DEFINE r == job.run
             c == job.chunk
             n == Len(Log[r])
             a == (c - 1) * ChunkSize
             hi == IF c * ChunkSize < n THEN c * ChunkSize ELSE n
             b == Chunk(Log[r], ChunkSize, c)
  <2>1. /\ job.pc = "replay" /\ c <= Chunks(Log[r], ChunkSize) /\ db' = AppendEvents(db, r, b)
        /\ calls' = calls /\ job'.pc = "replay"
    BY <1>0, <1>10 DEF Replay, NoCall
  <2>2. /\ r \in DOMAIN db.runs /\ r \in Runs /\ c \in Nat \ {0}
        /\ \A i \in 0 .. n - 1 : i < a => i \in DOMAIN db.events[r]
    BY <1>0, <2>1 DEF JobOk, Runs
  <2> HIDE DEF r, c
  <2>3. a \in Nat /\ hi \in Nat /\ a <= n /\ IsSlice(b, r, a, hi)
    BY <2>1, <2>2, ChunkIs
  <2>4. n \in Nat
    BY <2>2, LogShape
  <2> HIDE DEF a, hi, b, n
  <2>5. a = 0 \/ a - 1 \in DOMAIN db.events[r]
    <3>1. a # 0 => a - 1 \in 0 .. n - 1 /\ a - 1 < a
      BY <2>3, <2>4
    <3> QED
      BY <2>2, <3>1
  <2>6. Transcripts(db')
    BY <2>1, <2>2, <2>3, <2>5, SliceTell
  <2>7. JobSettles(db, job')
    BY <2>1 DEF JobSettles
  <2> QED
    BY <1>0, <2>1, <2>6, <2>7, TellKept
<1>11. CASE Mark
  <2> DEFINE r == job.run
             e == job.plan.event
             a == e.id
             b == <<e>>
             U == {e}
  <2>1. /\ job.pc = "mark" /\ db' = AppendEvents(db, r, b) /\ calls' = calls
        /\ job'.pc = "correct" /\ job'.run = r /\ job'.plan = job.plan
    BY <1>0, <1>11 DEF Mark, Goes, NoCall
  <2>2. /\ r \in LegacyRuns \cap DOMAIN db.runs /\ r \in Runs /\ a \in Nat
        /\ DOMAIN db.events[r] = 0 .. a - 1
    BY <1>0, <2>1 DEF JobOk, Runs
  <2>3. IsMarker(e) /\ (a = 0 \/ Complete(r, db.events[r]))
    BY <1>0, <2>1 DEF JobSettles
  <2>4. JobSettles(db, job')
    BY <1>0, <2>1 DEF JobSettles
  <2>5. b \in Seq(U) /\ DOMAIN b = {1} /\ b[1] = e
    <3>1. b \in Seq(U) /\ Len(b) = 1 /\ b[1] = e
      OBVIOUS
    <3>2. DOMAIN b = 1 .. 1
      BY <3>1, LenProperties
    <3> QED
      BY <3>1, <3>2
  <2> HIDE DEF b, r, e, U
  <2>6. Fits(r, e)
    <3>1. DOMAIN Log[r] = 1 .. Len(Log[r]) /\ Len(Log[r]) \in Nat
      BY <2>2, LogShape
    <3>2. ASSUME a + 1 \in DOMAIN Log[r] PROVE Log[r][a + 1].type \notin BlockTypes
      <4>1. CASE a = 0
        <5>1. Log[r] # << >>
          BY <2>2, <3>1, <3>2, LogShape, EmptySeq, LenProperties
        <5>2. Log[r][1].type = "run.started"
          BY <2>2, <5>1, Telling
        <5> QED
          BY <4>1, <5>2 DEF BlockTypes
      <4>2. CASE Complete(r, db.events[r])
        <5>1. a \in 0 .. Len(Log[r]) - 1 /\ a \notin 0 .. a - 1
          BY <2>2, <3>1, <3>2
        <5> QED
          BY <2>2, <4>2, <5>1 DEF Complete
      <4> QED
        BY <2>3, <4>1, <4>2
    <3> QED
      BY <2>3, <3>2 DEF Fits
  <2>7. Numbered(b, a) /\ (a = 0 \/ a - 1 \in DOMAIN db.events[r]) /\ \A i \in DOMAIN b : Fits(r, b[i])
    BY <2>2, <2>5, <2>6 DEF Numbered
  <2> HIDE DEF a
  <2>8. Transcripts(AppendEvents(db, r, b))
    BY <1>0, <2>2, <2>5, <2>7, AppendTranscripts
  <2>9. Transcripts(db')
    BY <2>1, <2>8
  <2> QED
    BY <1>0, <2>1, <2>4, <2>9, TellKept
<1> QED
  BY <1>1, <1>2, <1>3, <1>4, <1>5, <1>6, <1>8, <1>9, <1>10, <1>11 DEF Operate

LEMMA TellStep ==
  ASSUME TellInv, [Next]_vars
  PROVE  TellInv'
<1>1. CASE UNCHANGED vars
  <2>1. db' = db /\ calls' = calls /\ job' = job
    BY <1>1 DEF vars
  <2> QED
    BY <2>1, QuietTell, SilentSelf
<1>2. Request \/ Work \/ Operate \/ StoreUpdates \/ UNCHANGED vars
  BY DEF Next
<1> QED
  BY <1>1, <1>2, RequestTell, WorkTell, OperateTell, StoreTell

\* However often batches, chunks and whole logs come again, beside other runs of the
\* conversation, markers and deaths, the transcript append_events projects has one
\* message for every role and step of a run, with the blocks of the stored events in
\* their order, and every tool result in the message after its call's.
THEOREM TranscriptAlwaysMatches == Spec => []TranscriptMatchesLog
<1>1. Init => TellInv
  BY InitTell
<1>2. TellInv /\ [Next]_vars => TellInv'
  BY TellStep
<1>3. TellInv => TranscriptMatchesLog
  BY TranscriptFromInv
<1> QED
  BY <1>1, <1>2, <1>3, PTL DEF Spec
=============================================================================
