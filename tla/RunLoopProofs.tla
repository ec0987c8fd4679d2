--------------------------- MODULE RunLoopProofs ---------------------------
(***************************************************************************)
(* What holds of a run and its episode for any number of calls, any fault  *)
(* plan, and any number of deaths, retries and lost answers.               *)
(***************************************************************************)
EXTENDS RunLoop, SequenceTheorems, FiniteSetTheorems, WellFoundedInduction, TLAPS

LEMMA MinIsIn ==
  ASSUME NEW S \in SUBSET Nat, S # {}
  PROVE  Min(S) \in S /\ \A x \in S : Min(S) <= x
<1> DEFINE R == OpToRel(<, Nat)
<1>1. IsWellFoundedOn(R, Nat)
  BY NatLessThanWellFounded
<1>2. PICK x \in S : \A y \in S : ~(<<y, x>> \in R)
  <2> HIDE DEF R
  <2> QED  BY <1>1, WFMin
<1>3. \A y \in S : ~(y < x)
  BY <1>2 DEF OpToRel
<1>4. \A y \in S : x <= y
  BY <1>3
<1> QED  BY <1>4 DEF Min

-----------------------------------------------------------------------------
(* Types *)

ReqType == [phase : Phases, snap : Record, fault : 0 .. Len(Plan), answer : Answers]

LEMMA IdleType == Idle \in ReqType /\ NewRecord \in Record
<1>1. NewRecord.hits \in Seq(Nat)
  <2>1. Plan \in Seq([kind : FaultKinds, hits : Nat])
    BY PlanAssumption
  <2>2. ASSUME NEW i \in 1 .. Len(Plan) PROVE Plan[i].hits \in Nat
    <3>1. Plan[i] \in [kind : FaultKinds, hits : Nat]
      BY <2>1, ElementOfSeq
    <3> QED  BY <3>1
  <2>3. NewRecord.hits = [i \in 1 .. Len(Plan) |-> Plan[i].hits]
    BY <2>1 DEF NewRecord
  <2>4. [i \in 1 .. Len(Plan) |-> Plan[i].hits] \in Seq(Nat)
    BY <2>1, <2>2
  <2> QED  BY <2>3, <2>4
<1>2. NewRecord \in Record
  BY <1>1 DEF NewRecord, Record
<1> QED
  BY <1>2, PlanAssumption DEF Idle, ReqType, Phases, Answers

LEMMA DecideType ==
  ASSUME NEW hits, NEW tool
  PROVE  Decide(hits, tool) \in 0 .. Len(Plan)
<1> DEFINE biting == {i \in DOMAIN Plan : hits[i] > 0 /\ Bites(Plan[i].kind, tool)}
<1>1. DOMAIN Plan = 1 .. Len(Plan) /\ Len(Plan) \in Nat
  BY PlanAssumption
<1>2. biting \in SUBSET Nat
  BY <1>1
<1>3. biting # {} => Min(biting) \in biting
  BY <1>2, MinIsIn
<1> QED  BY <1>1, <1>3 DEF Decide

LEMMA ConsumedType ==
  ASSUME NEW hits \in Seq(Nat), NEW i \in 0 .. Len(Plan)
  PROVE  Consumed(hits, i) \in Seq(Nat)
<1>1. ASSUME NEW n \in Nat PROVE Max({0, n - 1}) \in Nat
  <2>1. \E x \in {0, n - 1} : \A y \in {0, n - 1} : x >= y
    <3>1. CASE n = 0
      BY <3>1
    <3>2. CASE n # 0
      BY <3>2
    <3> QED  BY <3>1, <3>2
  <2>2. Max({0, n - 1}) \in {0, n - 1} /\ Max({0, n - 1}) >= 0
    BY <2>1 DEF Max
  <2> QED  BY <2>2
<1>2. CASE i # 0 /\ i \in DOMAIN hits
  <2>1. hits[i] \in Nat
    BY <1>2
  <2>2. Max({0, hits[i] - 1}) \in Nat
    BY <1>1, <2>1
  <2>3. Consumed(hits, i) = [hits EXCEPT ![i] = Max({0, hits[i] - 1})]
    BY <1>2 DEF Consumed
  <2> QED  BY <1>2, <2>2, <2>3, ExceptSeq, LenProperties
<1>3. CASE i = 0 \/ i \notin DOMAIN hits
  <2> SUFFICES ASSUME i \notin DOMAIN hits, i # 0 PROVE Consumed(hits, i) = hits
    BY <1>3 DEF Consumed
  <2>1. Consumed(hits, i) = [hits EXCEPT ![i] = Max({0, @ - 1})]
    BY DEF Consumed
  <2>2. hits = [j \in DOMAIN hits |-> hits[j]]
    BY LenProperties
  <2> QED  BY <2>1, <2>2
<1> QED  BY <1>2, <1>3

\* What the handlers put into a request.
LEMMA AnswerType ==
  ASSUME TypeOK, NEW r \in Request, NEW a \in Answers, Answer(r, a)
  PROVE  req' \in [Request -> ReqType]
  BY IdleType DEF Answer, TypeOK, ReqType, Phases

LEMMA LoadType ==
  ASSUME TypeOK, NEW r \in Request, NEW snap \in Record, NEW p \in Phases, LoadInto(r, snap, p)
  PROVE  req' \in [Request -> ReqType]
  BY DEF LoadInto, TypeOK, ReqType

LEMMA ServedType ==
  ASSUME TypeOK, NEW r \in Request, NEW p \in Phases, NEW a \in Answers,
         req' = [req EXCEPT ![r].phase = p, ![r].answer = a]
  PROVE  req' \in [Request -> ReqType]
  BY DEF TypeOK, ReqType

LEMMA RefusedType ==
  ASSUME TypeOK, NEW r \in Request, NEW p \in Phases, NEW a \in Answers,
         req' = [req EXCEPT ![r].phase = p, ![r].fault = 0, ![r].answer = a]
  PROVE  req' \in [Request -> ReqType]
<1>1. req[r] \in ReqType /\ DOMAIN req = Request
  BY DEF TypeOK, ReqType
<1>2. 0 \in 0 .. Len(Plan)
  BY PlanAssumption
<1>3. [req[r] EXCEPT !.phase = p, !.fault = 0, !.answer = a] \in ReqType
  BY <1>1, <1>2 DEF ReqType
<1>4. req' = [req EXCEPT ![r] = [req[r] EXCEPT !.phase = p, !.fault = 0, !.answer = a]]
  BY <1>1
<1> QED  BY <1>3, <1>4 DEF TypeOK, ReqType

LEMMA SendType ==
  ASSUME TypeOK, NEW r \in Request, Send(r)
  PROVE  req' \in [Request -> ReqType]
  BY IdleType DEF Send, TypeOK, ReqType, Phases

LEMMA StepUpType ==
  ASSUME NEW ep \in Record
  PROVE  [ep EXCEPT !.step = @ + 1] \in Record
<1>1. ep.step + 1 \in Nat
  BY DEF Record
<1> QED  BY <1>1 DEF Record

LEMMA RowMarkedType ==
  ASSUME NEW row \in Row
  PROVE  [row EXCEPT !.interrupted = TRUE] \in Row
  BY DEF Row

LEMMA MarkedType ==
  ASSUME NEW ep \in Record
  PROVE  Marked(ep) \in Record
<1>1. ep.ledger \in Seq(Row) /\ ep.step \in Nat
  BY DEF Record
<1>2. CASE Candidates(ep.ledger) # {}
  <2> DEFINE k == Max(Candidates(ep.ledger))
  <2>1. Marked(ep) = [ep EXCEPT !.ledger = [@ EXCEPT ![k].interrupted = TRUE]]
    BY <1>2 DEF Marked
  <2>2. [ep.ledger EXCEPT ![k].interrupted = TRUE] \in Seq(Row)
    <3>1. ASSUME k \in 1 .. Len(ep.ledger) PROVE [ep.ledger EXCEPT ![k].interrupted = TRUE] \in Seq(Row)
      <4>1. [ep.ledger[k] EXCEPT !.interrupted = TRUE] \in Row
        BY <1>1, <3>1, ElementOfSeq, RowMarkedType
      <4> QED  BY <1>1, <3>1, <4>1, ExceptSeq
    <3>2. ASSUME k \notin 1 .. Len(ep.ledger) PROVE [ep.ledger EXCEPT ![k].interrupted = TRUE] = ep.ledger
      BY <1>1, <3>2, LenProperties
    <3> QED  BY <1>1, <3>1, <3>2
  <2> QED  BY <2>1, <2>2 DEF Record
<1>3. CASE Candidates(ep.ledger) = {}
  <2> DEFINE row == [n |-> 0, tool |-> "write_file", step |-> ep.step, outcome |-> "error",
                     fault |-> 0, interrupted |-> TRUE]
  <2>1. row \in Row
    BY <1>1, PlanAssumption DEF Row, Tools, Outcomes
  <2>2. Append(ep.ledger, row) \in Seq(Row)
    BY <1>1, <2>1, AppendProperties
  <2> QED  BY <1>3, <2>2 DEF Marked, Record
<1> QED  BY <1>2, <1>3

\* A call that is about to be recorded has its answer.
Recordable == \A r \in Request : At(r, "record") => req[r].answer # "none"

LEMMA GymTypes ==
  ASSUME TypeOK, Recordable, NEW r \in Request, Handle(r)
  PROVE  TypeOK'
<1>0. rec \in Record /\ req[r] \in ReqType /\ req[r].snap \in Record /\ DOMAIN req = Request
  BY DEF TypeOK, ReqType
<1> USE <1>0
<1>1. CASE Begin(r)
  <2>1. rec.terminated => req' \in [Request -> ReqType]
    BY <1>1, AnswerType DEF Begin, Answers
  <2>2. ~rec.terminated => req' \in [Request -> ReqType]
    <3> DEFINE i == Decide(rec.hits, r.op)
    <3>1. i \in 0 .. Len(Plan)
      BY DecideType
    <3>2. [rec EXCEPT !.step = @ + 1] \in Record
      BY StepUpType
    <3>3. ASSUME ~rec.terminated
          PROVE  \E p \in {"record", "exec"}, a \in {"short_circuit", "none"} :
                   req' = [req EXCEPT ![r] = [phase |-> p, snap |-> [rec EXCEPT !.step = @ + 1],
                                              fault |-> i, answer |-> a]]
      BY <1>1, <3>3 DEF Begin
    <3> HIDE DEF i
    <3>4. ASSUME NEW p \in {"record", "exec"}, NEW a \in {"short_circuit", "none"}
          PROVE  [phase |-> p, snap |-> [rec EXCEPT !.step = @ + 1], fault |-> i, answer |-> a] \in ReqType
      BY <3>1, <3>2 DEF ReqType, Phases, Answers, Outcomes
    <3> QED  BY <3>3, <3>4, ZenonT(60) DEF TypeOK, ReqType
  <2> QED  BY <1>1, <2>1, <2>2 DEF Begin, TypeOK, ReqType
<1>2. CASE Exec(r) \/ Denied(r) \/ Unavailable(r)
  <2>1. r.op = "write_file" => r.n \in Calls
    BY DEF Request, Tools
  <2>2. file' = file \/ (r.op = "write_file" /\ file' = Append(file, r.n))
    BY <1>2 DEF Exec, Denied, Unavailable
  <2>3. file' \in Seq(Calls)
    <3>1. CASE r.op = "write_file" /\ file' = Append(file, r.n)
      <4>1. r.n \in Calls /\ file \in Seq(Calls)
        BY <2>1, <3>1 DEF TypeOK
      <4> QED  BY <3>1, <4>1, AppendProperties
    <3> QED  BY <2>2, <3>1 DEF TypeOK
  <2>4. CASE Exec(r)
    <3> DEFINE a == IF KindOf(r) = "ack_lost" THEN "ack_lost" ELSE "ok"
    <3>1. a \in Answers /\ "record" \in Phases
      BY DEF Answers, Outcomes, Phases
    <3>2. req' = [req EXCEPT ![r].phase = "record", ![r].answer = a]
      BY <2>4, Zenon DEF Exec
    <3> HIDE DEF a
    <3>3. req' \in [Request -> ReqType]
      BY <3>1, <3>2, ServedType
    <3> QED  BY <2>3, <2>4, <3>3 DEF Exec, TypeOK, ReqType
  <2>5. CASE Denied(r) \/ Unavailable(r)
    <3>1. req' \in [Request -> ReqType]
      BY <2>5, RefusedType, ZenonT(60) DEF Denied, Unavailable, Answers, Outcomes, Phases
    <3> QED  BY <2>3, <2>5, <3>1, SMTT(60) DEF Denied, Unavailable, TypeOK, ReqType
  <2> QED  BY <1>2, <2>4, <2>5
<1>3. CASE RecordStep(r)
  <2>1. RowOf(r) \in Row
    <3>1. r.n \in Calls \cup {0} /\ r.op \in Tools
      BY <1>3 DEF RecordStep, IsToolCall, Request, Tools
    <3>2. req[r].snap.step \in Nat /\ req[r].fault \in 0 .. Len(Plan)
      BY DEF Record, ReqType
    <3>3. req[r].answer \in Outcomes \cup {"gone"}
      BY <1>3 DEF RecordStep, Recordable, ReqType, Answers
    <3> QED  BY <1>3, <3>1, <3>2, <3>3 DEF RowOf, Row, Outcomes
  <2>2. req[r].snap.ledger \in Seq(Row) /\ req[r].snap.hits \in Seq(Nat)
    BY DEF Record
  <2>3. Append(req[r].snap.ledger, RowOf(r)) \in Seq(Row)
    BY <2>1, <2>2, AppendProperties
  <2>4. Consumed(req[r].snap.hits, req[r].fault) \in Seq(Nat)
    BY <2>2, ConsumedType DEF ReqType
  <2>5. rec' \in Record
    BY <1>3, <2>3, <2>4 DEF RecordStep, Record
  <2>6. req' \in [Request -> ReqType]
    BY <1>3, AnswerType DEF RecordStep, ReqType
  <2> QED  BY <1>3, <2>5, <2>6 DEF RecordStep, TypeOK, ReqType
<1>4. CASE ReportLoad(r) \/ EvaluateLoad(r) \/ EvaluateFails(r) \/ EvaluateReload(r) \/ DeleteLoad(r)
  <2>1. req' \in [Request -> ReqType]
    BY <1>4, LoadType DEF ReportLoad, EvaluateLoad, EvaluateFails, EvaluateReload, DeleteLoad, Phases
  <2> QED  BY <1>4, <2>1 DEF ReportLoad, EvaluateLoad, EvaluateFails, EvaluateReload, DeleteLoad, TypeOK, ReqType
<1>5. CASE ReportSave(r)
  <2>1. rec' \in Record /\ req' \in [Request -> ReqType]
    BY <1>5, MarkedType, AnswerType DEF ReportSave, Answers, Outcomes
  <2> QED  BY <1>5, <2>1 DEF ReportSave, TypeOK, ReqType
<1>6. CASE Evaluate(r)
  <2>1. req' \in [Request -> ReqType]
    BY <1>6 DEF Evaluate, Goto, TypeOK, ReqType, Phases
  <2>2. grades' \in Seq(Seq(Row))
    BY <1>6, AppendProperties DEF Evaluate, TypeOK, Record
  <2> QED  BY <1>6, <2>1, <2>2 DEF Evaluate, TypeOK, ReqType
<1>7. CASE EvaluateSave(r) \/ DeleteSave(r)
  <2>1. rec' \in Record
    BY <1>7 DEF EvaluateSave, DeleteSave, Record
  <2>2. req' \in [Request -> ReqType]
    BY <1>7, AnswerType DEF EvaluateSave, DeleteSave, Answers, Outcomes
  <2> QED  BY <1>7, <2>1, <2>2 DEF EvaluateSave, DeleteSave, TypeOK, ReqType
<1>8. CASE DeleteStop(r)
  BY <1>8 DEF DeleteStop, Goto, TypeOK, ReqType, Phases
<1> QED
  BY <1>1, <1>2, <1>3, <1>4, <1>5, <1>6, <1>7, <1>8 DEF Handle

LEMMA GymRecordable ==
  ASSUME TypeOK, Recordable, NEW r \in Request, Handle(r)
  PROVE  Recordable'
<1> SUFFICES ASSUME NEW q \in Request, At(q, "record")' PROVE req'[q].answer # "none"
  BY DEF Recordable
<1>1. DOMAIN req = Request /\ req[r] \in ReqType
  BY DEF TypeOK, ReqType
<1>2. CASE q # r
  <2>1. req'[q] = req[q]
    BY <1>1, <1>2 DEF Handle, Begin, Exec, Denied, Unavailable, RecordStep, ReportLoad, ReportSave,
         EvaluateLoad, Evaluate, EvaluateFails, EvaluateReload, EvaluateSave, DeleteLoad,
         DeleteStop, DeleteSave, Answer, LoadInto, Goto
  <2> QED  BY <2>1 DEF Recordable, At
<1>3. CASE q = r
  <2>1. CASE Begin(r)
    <3>1. CASE rec.terminated
      BY <1>1, <1>3, <2>1, <3>1 DEF Begin, Answer, Idle, At
    <3>2. CASE ~rec.terminated
      <4> DEFINE i == Decide(rec.hits, r.op)
                 bitten == i # 0 /\ Plan[i].kind # "ack_lost"
      <4>1. req' = [req EXCEPT ![r] =
               [phase |-> IF bitten THEN "record" ELSE "exec", snap |-> [rec EXCEPT !.step = @ + 1],
                fault |-> i, answer |-> IF bitten THEN "short_circuit" ELSE "none"]]
        BY <2>1, <3>2, Zenon DEF Begin
      <4> HIDE DEF i, bitten
      <4> QED  BY <1>1, <1>3, <4>1 DEF At
    <3> QED  BY <3>1, <3>2
  <2>2. CASE Exec(r) \/ Denied(r) \/ Unavailable(r)
    BY <1>1, <1>3, <2>2 DEF Exec, Denied, Unavailable, ReqType, At
  <2>3. CASE RecordStep(r) \/ ReportSave(r) \/ EvaluateSave(r) \/ DeleteSave(r)
    BY <1>1, <1>3, <2>3 DEF RecordStep, ReportSave, EvaluateSave, DeleteSave, Answer, Idle, At
  <2>4. CASE ReportLoad(r) \/ EvaluateLoad(r) \/ EvaluateFails(r) \/ EvaluateReload(r) \/ DeleteLoad(r)
    BY <1>1, <1>3, <2>4 DEF ReportLoad, EvaluateLoad, EvaluateFails, EvaluateReload, DeleteLoad,
         LoadInto, ReqType, At
  <2>5. CASE Evaluate(r) \/ DeleteStop(r)
    BY <1>1, <1>3, <2>5 DEF Evaluate, DeleteStop, Goto, ReqType, At
  <2> QED  BY <2>1, <2>2, <2>3, <2>4, <2>5 DEF Handle
<1> QED  BY <1>2, <1>3

-----------------------------------------------------------------------------
(* The log *)

\* What is in the log about tool calls names one.
CallShape(e) ==
  e.type \in {"tool.call", "tool.result"} =>
    [op |-> e.op, n |-> e.n] \in Request /\ e.op \in Tools
LogShape == \A i \in DOMAIN events : CallShape(events[i])

LEMMA EvType ==
  ASSUME NEW type \in EventTypes, NEW r \in Request, NEW what \in Heard \cup Statuses
  PROVE  Ev(type, r, what) \in Event
  BY DEF Ev, Event, Request, Ops, Tools

LEMMA EvShape ==
  ASSUME NEW type, NEW r \in Request, NEW what,
         type \in {"tool.call", "tool.result"} => r.op \in Tools
  PROVE  CallShape(Ev(type, r, what))
<1>1. r = [op |-> r.op, n |-> r.n]
  BY DEF Request
<1> QED  BY <1>1 DEF CallShape, Ev

LEMMA Emitted ==
  ASSUME LoopTypeOK, NEW e \in Event, Emit(e) \/ EmitNow(e)
  PROVE  /\ events' \in Seq(Event)
         /\ stored' \in 0 .. Len(events')
         /\ stored <= stored'
         /\ Len(events') = Len(events) + 1
         /\ DOMAIN events' = 1 .. Len(events) + 1
         /\ \A i \in 1 .. Len(events) : events'[i] = events[i]
         /\ events'[Len(events) + 1] = e
<1>1. events' = Append(events, e) /\ stored' \in {stored, Len(events) + 1}
  BY DEF Emit, EmitNow
<1>2. events \in Seq(Event) /\ stored \in 0 .. Len(events) /\ Len(events) \in Nat
  BY DEF LoopTypeOK
<1>3. /\ events' \in Seq(Event)
      /\ Len(events') = Len(events) + 1
      /\ \A i \in 1 .. Len(events) : events'[i] = events[i]
      /\ events'[Len(events) + 1] = e
  BY <1>1, <1>2, AppendProperties
<1>4. DOMAIN events' = 1 .. Len(events) + 1
  BY <1>3
<1> QED  BY <1>1, <1>2, <1>3, <1>4

LEMMA Forgotten ==
  ASSUME LoopTypeOK, Die
  PROVE  /\ events' \in Seq(Event)
         /\ stored' = stored
         /\ Len(events') = stored
         /\ DOMAIN events' = 1 .. stored
         /\ 1 .. stored \subseteq DOMAIN events
         /\ \A i \in 1 .. stored : events'[i] = events[i]
<1>1. events \in Seq(Event) /\ stored \in 0 .. Len(events) /\ Len(events) \in Nat
  BY DEF LoopTypeOK
<1>2. events' = SubSeq(events, 1, stored)
  BY DEF Die, Durable
<1>3. /\ events' \in Seq(Event)
      /\ Len(events') = stored
      /\ \A i \in 1 .. stored : events'[i] = events[i]
  BY <1>1, <1>2
<1> QED  BY <1>1, <1>3 DEF Die

-----------------------------------------------------------------------------
(* Type correctness *)

Serving == {"arm", "mark", "dispatch", "wait", "result", "note", "resolve"}

Shape ==
  /\ LoopTypeOK
  /\ Recordable
  /\ LogShape
  /\ pc \in Serving => IsToolCall(cur)
  /\ pc = "reporting" => deferred # << >>

LEMMA EmittedShape ==
  ASSUME Shape, NEW e \in Event, Emit(e) \/ EmitNow(e), CallShape(e)
  PROVE  /\ events' \in Seq(Event)
         /\ stored' \in 0 .. Len(events')
         /\ LogShape'
<1>1. /\ events' \in Seq(Event)
      /\ stored' \in 0 .. Len(events')
      /\ DOMAIN events' = 1 .. Len(events) + 1
      /\ \A i \in 1 .. Len(events) : events'[i] = events[i]
      /\ events'[Len(events) + 1] = e
  BY Emitted DEF Shape
<1>2. DOMAIN events = 1 .. Len(events) /\ Len(events) \in Nat
  BY DEF Shape, LoopTypeOK
<1>3. ASSUME NEW i \in DOMAIN events' PROVE CallShape(events'[i])
  <2>1. CASE i \in 1 .. Len(events)
    BY <1>1, <1>2, <2>1 DEF Shape, LogShape
  <2>2. CASE i = Len(events) + 1
    BY <1>1, <2>2
  <2> QED  BY <1>1, <1>2, <2>1, <2>2
<1> QED  BY <1>1, <1>3 DEF LogShape

\* Sending a request leaves the rest of the episode alone.
LEMMA SentShape ==
  ASSUME Shape, NEW r \in Request, Send(r), UNCHANGED gym
  PROVE  TypeOK' /\ Recordable'
<1>1. req' \in [Request -> ReqType]
  BY SendType DEF Shape, LoopTypeOK
<1>2. TypeOK'
  BY <1>1 DEF Shape, LoopTypeOK, TypeOK, ReqType, gym
<1>3. Recordable'
  BY DEF Shape, LoopTypeOK, TypeOK, Recordable, At, Send, Idle
<1> QED  BY <1>2, <1>3

LEMMA NamedRequests ==
  /\ NoCall \in Request /\ EvaluateIt \in Request /\ DeleteIt \in Request /\ ExpireIt \in Request
  /\ \A n \in Calls : ReportOf(n) \in Request
  /\ \A tool \in Tools, n \in Calls : [op |-> tool, n |-> n] \in Request
  BY DEF NoCall, EvaluateIt, DeleteIt, ExpireIt, ReportOf, Request

LEMMA SameEpisode ==
  ASSUME Shape, UNCHANGED episode
  PROVE  TypeOK' /\ Recordable'
  BY DEF Shape, LoopTypeOK, TypeOK, Recordable, At, episode

LEMMA SameLog ==
  ASSUME Shape, UNCHANGED events
  PROVE  LogShape'
  BY DEF Shape, LogShape, CallShape

LEMMA LoseShape ==
  ASSUME Shape, Lose
  PROVE  losses' \in 0 .. MaxLosses
  BY LoopAssumption DEF Shape, LoopTypeOK, Lose

LEMMA DieShape ==
  ASSUME Shape, Die, deaths' \in 0 .. MaxDeaths
  PROVE  Shape'
<1>1. /\ events' \in Seq(Event) /\ stored' \in 0 .. Len(events')
      /\ DOMAIN events' = 1 .. stored /\ 1 .. stored \subseteq DOMAIN events
      /\ \A i \in 1 .. stored : events'[i] = events[i]
  BY Forgotten DEF Shape, LoopTypeOK
<1>2. LogShape'
  BY <1>1 DEF Shape, LogShape, CallShape
<1>3. TypeOK' /\ Recordable'
  BY DEF Die, Shape, LoopTypeOK, TypeOK, Recordable, At, episode
<1>4. /\ pc' = "down" /\ cur' = NoCall /\ heard' = "none" /\ planned' = FALSE /\ deferred' = << >>
      /\ status' = "running" /\ UNCHANGED <<fired, try, issued, losses, inflicted, beside>>
  BY DEF Die
<1>5. LoopTypeOK'
  <2>1. "none" \in Heard /\ "running" \in Statuses /\ NoCall \in Request
    BY NamedRequests DEF Heard, Answers, Statuses
  <2>2. deferred' \in Seq(Calls)
    BY <1>4
  <2>3. {planned', fired'} \subseteq BOOLEAN
    BY <1>4, Zenon DEF Shape, LoopTypeOK
  <2> QED  BY <1>1, <1>3, <1>4, <2>1, <2>2, <2>3 DEF Shape, LoopTypeOK
<1> QED
  BY <1>2, <1>3, <1>4, <1>5 DEF Shape, Serving

LEMMA DanglingShape ==
  ASSUME Shape, NoteDangling
  PROVE  Shape'
<1> USE DEF Shape, LoopTypeOK
<1> DEFINE k == Min(Dangling(events))
           r == [op |-> events[k].op, n |-> events[k].n]
           e == Ev("interruption", r, "unknown")
<1>1. k \in Dangling(events)
  <2>1. DOMAIN events \subseteq Nat
    OBVIOUS
  <2> HIDE DEF Shape, LoopTypeOK
  <2>2. Dangling(events) \in SUBSET Nat /\ Dangling(events) # {}
    BY <2>1 DEF NoteDangling, Dangling, CallsIn
  <2> QED  BY <2>2, MinIsIn
<1>2. r \in Request /\ IsToolCall(r)
  BY <1>1 DEF Dangling, CallsIn, LogShape, CallShape, IsToolCall
<1>3. cur' = r /\ EmitNow(e)
      /\ IF events[k].op = "write_file" THEN Send(ReportOf(events[k].n)) ELSE UNCHANGED req
  BY DEF NoteDangling
<1>4. events[k].op = "write_file" => events[k].n \in Calls
  BY <1>2 DEF Request, Tools
<1> HIDE DEF k
<1>5. e \in Event /\ CallShape(e)
  BY <1>2, EvType, EvShape DEF EventTypes, Heard
<1>6. events' \in Seq(Event) /\ stored' \in 0 .. Len(events') /\ LogShape'
  BY <1>3, <1>5, EmittedShape
<1>7. TypeOK' /\ Recordable'
  <2>1. CASE events[k].op = "write_file"
    BY <1>3, <1>4, <2>1, SentShape, NamedRequests DEF NoteDangling
  <2>2. CASE events[k].op # "write_file"
    BY <1>3, <2>2, SameEpisode DEF NoteDangling, gym, episode
  <2> QED  BY <2>1, <2>2
<1> QED
  BY <1>2, <1>3, <1>6, <1>7 DEF NoteDangling, quiet


LEMMA WorkerShape ==
  ASSUME Shape, Worker
  PROVE  Shape'
<1> USE DEF Shape, LoopTypeOK
<1>0. cur \in Request /\ heard \in Heard /\ status \in Statuses /\ Len(events) \in Nat
  OBVIOUS
<1>1. ASSUME NEW tool \in Tools, CallTool(tool) PROVE Shape'
  <2> DEFINE r == [op |-> tool, n |-> issued + 1]
             e == Ev("tool.call", r, "none")
  <2>1. r \in Request /\ IsToolCall(r)
    BY <1>1, NamedRequests DEF CallTool, IsToolCall
  <2>2. e \in Event /\ CallShape(e)
    BY <2>1, EvType, EvShape DEF EventTypes, Heard, Answers, IsToolCall
  <2>3. Emit(e) /\ cur' = r
    BY <1>1 DEF CallTool
  <2> HIDE DEF r, e
  <2>4. events' \in Seq(Event) /\ stored' \in 0 .. Len(events') /\ LogShape'
    BY <2>2, <2>3, EmittedShape
  <2>5. planned' \in BOOLEAN
    BY <1>1 DEF CallTool, Hit
  <2> QED
    BY <1>1, <2>1, <2>3, <2>4, <2>5, SameEpisode DEF CallTool
<1>2. CASE Arm
  <2>1. CASE pc = "arm"
    BY <1>2, <2>1, SameEpisode, SameLog DEF Arm, Serving
  <2>2. CASE pc = "mark"
    <3>1. {planned', fired'} \subseteq BOOLEAN
      BY <1>2, <2>2 DEF Arm
    <3>2. UNCHANGED <<episode, events, stored, cur, heard, planned, deferred, status, try,
                      issued, deaths, losses, inflicted, beside>> /\ pc' = "dispatch"
      BY <1>2, <2>2 DEF Arm
    <3> QED  BY <2>2, <3>1, <3>2, SameEpisode, SameLog DEF Serving
  <2> QED  BY <1>2, <2>1, <2>2 DEF Arm
<1>3. CASE Dispatch
  <2>1. TypeOK' /\ Recordable'
    BY <1>3, SentShape DEF Dispatch
  <2>2. beside' \subseteq Calls
    <3>1. cur.n \in Calls
      BY <1>3 DEF Dispatch, Serving, IsToolCall, Request, Tools
    <3> QED  BY <1>3, <3>1 DEF Dispatch
  <2> QED  BY <1>3, <2>1, <2>2, SameLog DEF Dispatch, Serving
<1>4. CASE ConnectFails
  BY <1>4, SameEpisode, SameLog, LoseShape DEF ConnectFails, quiet, Serving, Heard
<1>5. CASE Receive
  <2>1. req[cur].answer \in Answers
    BY DEF TypeOK
  <2> QED  BY <1>5, <2>1, SameEpisode, SameLog DEF Receive, quiet, Serving, Heard
<1>6. CASE LoseAnswer
  BY <1>6, SameEpisode, SameLog, LoseShape DEF LoseAnswer, quiet, Serving, Heard
<1>7. CASE Result
  <2>1. Ev("tool.result", cur, heard) \in Event /\ CallShape(Ev("tool.result", cur, heard))
    BY <1>7, EvType, EvShape DEF Result, EventTypes, Serving, IsToolCall
  <2>2. events' \in Seq(Event) /\ stored' \in 0 .. Len(events') /\ LogShape'
    BY <1>7, <2>1, EmittedShape DEF Result
  <2> QED  BY <1>7, <2>2, SameEpisode DEF Result, quiet, Serving
<1>8. CASE Note
  <2>1. Ev("interruption", cur, heard) \in Event /\ CallShape(Ev("interruption", cur, heard))
    BY EvType, EvShape DEF EventTypes
  <2>2. events' \in Seq(Event) /\ stored' \in 0 .. Len(events') /\ LogShape'
    BY <1>8, <2>1, EmittedShape DEF Note
  <2>3. cur.op = "write_file" => cur.n \in Calls
    BY DEF Request, Tools
  <2>4. deferred' \in Seq(Calls)
    <3>1. CASE cur.op = "write_file"
      BY <1>8, <2>3, <3>1, AppendProperties DEF Note
    <3> QED  BY <1>8, <3>1 DEF Note
  <2> QED  BY <1>8, <2>2, <2>4, SameEpisode DEF Note, quiet, Serving, Statuses
<1>9. CASE EndTurn \/ EndLoop
  BY <1>9, SameEpisode, SameLog DEF EndTurn, EndLoop, quiet, Serving, Statuses
<1>10. CASE SendReport
  <2>1. Head(deferred) \in Calls
    BY <1>10 DEF SendReport
  <2>2. TypeOK' /\ Recordable'
    BY <1>10, <2>1, SentShape, NamedRequests DEF SendReport
  <2> QED  BY <1>10, <2>2, SameLog DEF SendReport, keep, quiet, Serving
<1>11. CASE Reported
  <2>1. Tail(deferred) \in Seq(Calls)
    BY <1>11 DEF Reported
  <2>2. losses' \in 0 .. MaxLosses
    BY <1>11, LoseShape DEF Reported
  <2> QED  BY <1>11, <2>1, <2>2, SameEpisode, SameLog DEF Reported, keep, quiet, Serving
<1>12. CASE StartEvaluate \/ StartDelete
  <2>1. TypeOK' /\ Recordable'
    BY <1>12, SentShape, NamedRequests DEF StartEvaluate, StartDelete
  <2> QED  BY <1>12, <2>1, SameLog DEF StartEvaluate, StartDelete, keep, quiet, Serving
<1>13. CASE SkipEvaluate
  BY <1>13, SameEpisode, SameLog DEF SkipEvaluate, keep, quiet, Serving
<1>22. CASE EvaluateUnanswered
  BY <1>22, SameEpisode, SameLog, LoseShape
  DEF EvaluateUnanswered, Ungraded, keep, quiet, Serving, Statuses
<1>23. CASE Deleted
  BY <1>23, SameEpisode, SameLog, LoseShape DEF Deleted, keep, quiet, Serving
<1>24. CASE Settle
  BY <1>24, SameEpisode, SameLog DEF Settle, keep, quiet, Serving
<1>14. CASE Evaluated
  <2> DEFINE e == Ev("episode.evaluated", EvaluateIt, "ok")
  <2>1. e \in Event /\ CallShape(e)
    BY EvType, EvShape, NamedRequests DEF EventTypes, Heard, Answers, Outcomes
  <2>2. events' \in Seq(Event) /\ stored' \in 0 .. Len(events') /\ LogShape'
    <3>1. CASE req[EvaluateIt].answer = "ok"
      BY <1>14, <2>1, <3>1, EmittedShape DEF Evaluated
    <3> QED  BY <1>14, <3>1, SameLog DEF Evaluated
  <2> QED
    BY <1>14, <2>2, SameEpisode DEF Evaluated, Ungraded, keep, quiet, Serving, Statuses
<1>15. CASE Finish
  <2> DEFINE e == Ev("run.finished", NoCall, status)
  <2>1. e \in Event /\ CallShape(e)
    BY EvType, EvShape, NamedRequests DEF EventTypes
  <2>2. events' \in Seq(Event) /\ stored' \in 0 .. Len(events') /\ LogShape'
    BY <1>15, <2>1, EmittedShape DEF Finish
  <2> QED  BY <1>15, <2>2, SameEpisode DEF Finish, keep, quiet, Serving
<1>16. CASE PlannedCrash
  BY <1>16, DieShape DEF PlannedCrash
<1>17. CASE Resume
  <2> DEFINE e == Ev("run.resumed", NoCall, "none")
  <2>1. e \in Event /\ CallShape(e)
    BY EvType, EvShape, NamedRequests DEF EventTypes, Heard, Answers
  <2>2. events' \in Seq(Event) /\ stored' \in 0 .. Len(events') /\ LogShape'
    <3>1. CASE Emit(e)
      BY <2>1, <3>1, EmittedShape
    <3> QED  BY <1>17, <3>1, SameLog DEF Resume
  <2> QED  BY <1>17, <2>2, LoopAssumption, SameEpisode DEF Resume, Serving
<1>18. CASE Probe
  <2> DEFINE e == Ev("interruption", NoCall, "gone")
  <2>1. e \in Event /\ CallShape(e)
    BY EvType, EvShape, NamedRequests DEF EventTypes, Heard, Answers
  <2>2. events' \in Seq(Event) /\ stored' \in 0 .. Len(events') /\ LogShape'
    <3>1. CASE EmitNow(e)
      BY <2>1, <3>1, EmittedShape
    <3> QED  BY <1>18, <3>1, SameLog DEF Probe
  <2> QED  BY <1>18, <2>2, SameEpisode, LoseShape DEF Probe, keep, quiet, Serving, Statuses
<1>19. CASE NoteDangling
  BY <1>19, DanglingShape
<1>20. CASE Resolve
  <2> DEFINE e == Ev("tool.result", cur, "synthetic")
  <2>1. e \in Event /\ CallShape(e)
    BY <1>20, EvType, EvShape DEF Resolve, EventTypes, Heard, Serving, IsToolCall
  <2>2. events' \in Seq(Event) /\ stored' \in 0 .. Len(events') /\ LogShape'
    BY <1>20, <2>1, EmittedShape DEF Resolve
  <2> QED  BY <1>20, <2>2, SameEpisode, LoseShape DEF Resolve, keep, quiet, Serving
<1>21. CASE Resumed
  BY <1>21, SameEpisode, SameLog DEF Resumed, keep, quiet, Serving
<1> QED
  BY <1>1, <1>2, <1>3, <1>4, <1>5, <1>6, <1>7, <1>8, <1>9, <1>10, <1>11, <1>12, <1>13, <1>14,
     <1>15, <1>16, <1>17, <1>18, <1>19, <1>20, <1>21, <1>22, <1>23, <1>24 DEF Worker

LEMMA NextShape ==
  ASSUME Shape, [Next]_vars
  PROVE  Shape'
<1> USE DEF Shape
<1>1. CASE Worker
  BY <1>1, WorkerShape
<1>2. CASE Crash
  <2>1. deaths' \in 0 .. MaxDeaths
    BY <1>2, LoopAssumption DEF Crash, LoopTypeOK
  <2> QED  BY <1>2, <2>1, DieShape DEF Crash
<1>3. ASSUME NEW r \in Request, Handle(r), UNCHANGED loop PROVE Shape'
  <2>1. TypeOK' /\ Recordable'
    BY <1>3, GymTypes, GymRecordable DEF LoopTypeOK
  <2> QED  BY <1>3, <2>1, SameLog DEF LoopTypeOK, loop
<1>4. ASSUME NEW r \in Request, NeverArrives(r) PROVE Shape'
  <2>1. TypeOK' /\ Recordable'
    BY <1>4, IdleType DEF NeverArrives, gym, LoopTypeOK, TypeOK, ReqType, Recordable, At, Idle
  <2> QED  BY <1>4, <2>1, SameLog DEF NeverArrives, LoopTypeOK, loop
<1>5. CASE BoxDies
  <2>1. TypeOK' /\ Recordable'
    BY <1>5 DEF BoxDies, LoopTypeOK, TypeOK, Recordable, At
  <2> QED  BY <1>5, <2>1, SameLog DEF BoxDies, LoopTypeOK, loop
<1>6. CASE Expire
  <2>1. TypeOK' /\ Recordable'
    BY <1>6, SentShape, NamedRequests DEF Expire
  <2> QED  BY <1>6, <2>1, SameLog DEF Expire, LoopTypeOK, loop
<1>7. CASE UNCHANGED vars
  BY <1>7, SameEpisode, SameLog DEF vars, loop, LoopTypeOK
<1> QED
  BY <1>1, <1>2, <1>3, <1>4, <1>5, <1>6, <1>7 DEF Next, Gym, Over

LEMMA InitShape ==
  ASSUME Init
  PROVE  Shape
<1>1. TypeOK /\ Recordable
  BY IdleType DEF Init, EpisodeInit, TypeOK, ReqType, Recordable, At, Idle
<1>2. events \in Seq(Event) /\ stored \in 0 .. Len(events) /\ DOMAIN events = {}
      /\ deferred \in Seq(Calls)
  BY DEF Init
<1>3. try \in 1 .. Retries + 1 /\ deaths \in 0 .. MaxDeaths /\ losses \in 0 .. MaxLosses
  BY LoopAssumption DEF Init
<1>4. LoopTypeOK
  BY <1>1, <1>2, <1>3, NamedRequests DEF Init, LoopTypeOK, Heard, Answers, Statuses
<1> QED
  BY <1>1, <1>2, <1>4 DEF Init, Shape, LogShape, Serving

THEOREM AlwaysShape == Spec => []Shape
  BY InitShape, NextShape, PTL DEF Spec

\* Type correctness of the worker's and the episode's state.
THEOREM RunTypes == Spec => []LoopTypeOK
  BY AlwaysShape, PTL DEF Shape

-----------------------------------------------------------------------------
(* How steps move the log and the requests *)

\* The worker's steps that write nothing to the log ...
Silent ==
  \/ Arm \/ Dispatch \/ ConnectFails \/ Receive \/ LoseAnswer \/ EndTurn \/ EndLoop
  \/ SendReport \/ Reported \/ StartEvaluate \/ SkipEvaluate \/ EvaluateUnanswered
  \/ StartDelete \/ Deleted \/ Settle \/ Resumed

\* ... and those that may.
Talking ==
  \/ \E tool \in Tools : CallTool(tool)
  \/ Result \/ Note \/ Evaluated \/ Finish \/ Resume \/ Probe \/ NoteDangling \/ Resolve

LEMMA WorkerSplits == Worker <=> Silent \/ Talking \/ PlannedCrash
  BY DEF Worker, Silent, Talking

LEMMA SilentLog ==
  ASSUME Shape, Silent
  PROVE  UNCHANGED events /\ stored <= stored' /\ stored' \in 0 .. Len(events)
  BY DEF Shape, LoopTypeOK, Silent, Arm, Dispatch, ConnectFails, Receive, LoseAnswer, EndTurn,
     EndLoop, SendReport, Reported, StartEvaluate, SkipEvaluate, EvaluateUnanswered, StartDelete,
     Deleted, Settle, Resumed

\* What a talking step says.
Said(e) ==
  /\ e \in Event
  /\ Emit(e) \/ EmitNow(e)
  /\ \/ e.type = "tool.call" /\ \E tool \in Tools : CallTool(tool) /\ e = Ev("tool.call", cur', "none")
     \/ e.type = "tool.result" /\ pc \in {"result", "resolve"} /\ e.n = cur.n /\ UNCHANGED cur
     \/ e.type = "episode.evaluated" /\ Evaluated /\ req[EvaluateIt].answer = "ok"
     \/ e.type = "run.finished" /\ Finish /\ e.what = status
     \/ e.type \in {"interruption", "run.resumed"}

LEMMA DanglingCall ==
  ASSUME Shape, NoteDangling
  PROVE  /\ Min(Dangling(events)) \in Dangling(events)
         /\ cur' = [op |-> events[Min(Dangling(events))].op, n |-> events[Min(Dangling(events))].n]
         /\ cur' \in Request
         /\ EmitNow(Ev("interruption", cur', "unknown"))
<1> DEFINE k == Min(Dangling(events))
<1>1. DOMAIN events \subseteq Nat
  BY DEF Shape, LoopTypeOK
<1>2. Dangling(events) \in SUBSET Nat /\ Dangling(events) # {}
  BY <1>1 DEF NoteDangling, Dangling, CallsIn
<1>3. k \in Dangling(events)
  BY <1>2, MinIsIn
<1>4. cur' = [op |-> events[k].op, n |-> events[k].n] /\ EmitNow(Ev("interruption", cur', "unknown"))
  BY DEF NoteDangling
<1> HIDE DEF k
<1>5. cur' \in Request
  BY <1>3, <1>4 DEF Dangling, CallsIn, Shape, LogShape, CallShape
<1> QED  BY <1>3, <1>4, <1>5 DEF k

LEMMA TalkingLog ==
  ASSUME Shape, Talking
  PROVE  UNCHANGED <<events, stored>> \/ \E e : Said(e)
<1>0. Shape'
  BY NextShape, WorkerSplits DEF Next
<1>1. ASSUME NEW tool \in Tools, CallTool(tool) PROVE \E e : Said(e)
  <2> DEFINE e == Ev("tool.call", cur', "none")
  <2>1. e \in Event /\ e.type = "tool.call"
    BY <1>0, EvType DEF Shape, LoopTypeOK, EventTypes, Heard, Answers, Ev
  <2>2. Emit(e)
    BY <1>1 DEF CallTool
  <2> QED  BY <1>1, <2>1, <2>2 DEF Said
<1>2. CASE Result \/ Resolve
  <2>1. PICK what \in Heard : Emit(Ev("tool.result", cur, what))
    BY <1>2 DEF Result, Resolve, Shape, LoopTypeOK, Heard
  <2> DEFINE e == Ev("tool.result", cur, what)
  <2>2. e \in Event /\ e.type = "tool.result" /\ e.n = cur.n
    BY EvType DEF Shape, LoopTypeOK, EventTypes, Ev
  <2>3. pc \in {"result", "resolve"} /\ UNCHANGED cur
    BY <1>2 DEF Result, Resolve, keep
  <2> QED  BY <2>1, <2>2, <2>3 DEF Said
<1>3. CASE Note
  <2>1. Ev("interruption", cur, heard) \in Event /\ Ev("interruption", cur, heard).type = "interruption"
    BY EvType DEF Shape, LoopTypeOK, EventTypes, Ev
  <2> QED  BY <1>3, <2>1 DEF Note, Said
<1>4. CASE Evaluated
  <2> DEFINE e == Ev("episode.evaluated", EvaluateIt, "ok")
  <2>1. e \in Event /\ e.type = "episode.evaluated"
    BY EvType, NamedRequests DEF EventTypes, Heard, Answers, Outcomes, Ev
  <2>2. UNCHANGED <<events, stored>> \/ (Emit(e) /\ req[EvaluateIt].answer = "ok")
    BY <1>4 DEF Evaluated
  <2> QED  BY <1>4, <2>1, <2>2 DEF Said
<1>5. CASE Finish
  <2> DEFINE e == Ev("run.finished", NoCall, status)
  <2>1. e \in Event /\ e.type = "run.finished" /\ e.what = status
    BY EvType, NamedRequests DEF Shape, LoopTypeOK, EventTypes, Ev
  <2>2. Emit(e)
    BY <1>5 DEF Finish
  <2> QED  BY <1>5, <2>1, <2>2 DEF Said
<1>6. CASE Resume
  <2> DEFINE e == Ev("run.resumed", NoCall, "none")
  <2>1. e \in Event /\ e.type = "run.resumed"
    BY EvType, NamedRequests DEF EventTypes, Heard, Answers, Ev
  <2>2. UNCHANGED <<events, stored>> \/ Emit(e)
    BY <1>6 DEF Resume
  <2> QED  BY <2>1, <2>2 DEF Said
<1>7. CASE Probe
  <2> DEFINE e == Ev("interruption", NoCall, "gone")
  <2>1. e \in Event /\ e.type = "interruption"
    BY EvType, NamedRequests DEF EventTypes, Heard, Answers, Ev
  <2>2. UNCHANGED <<events, stored>> \/ EmitNow(e)
    BY <1>7 DEF Probe
  <2> QED  BY <2>1, <2>2 DEF Said
<1>8. CASE NoteDangling
  <2> DEFINE e == Ev("interruption", cur', "unknown")
  <2>1. EmitNow(e) /\ cur' \in Request
    BY <1>8, DanglingCall
  <2>2. e \in Event /\ e.type = "interruption"
    BY <2>1, EvType DEF EventTypes, Heard, Ev
  <2> QED  BY <2>1, <2>2 DEF Said
<1> QED
  BY <1>1, <1>2, <1>3, <1>4, <1>5, <1>6, <1>7, <1>8 DEF Talking

LEMMA OtherSteps ==
  ASSUME [Next]_vars, ~Worker, ~Crash
  PROVE  UNCHANGED loop
  BY DEF Next, Gym, NeverArrives, BoxDies, Expire, Over, vars, loop

\* The Store never loses what it has, and keeps its order.
LEMMA StoredStays ==
  ASSUME Shape, [Next]_vars
  PROVE  /\ stored <= stored'
         /\ stored' \in 0 .. Len(events') /\ Len(events') \in Nat /\ DOMAIN events' = 1 .. Len(events')
         /\ \A i \in 1 .. stored : i \in DOMAIN events /\ events'[i] = events[i]
<1>1. Shape'
  BY NextShape
<1>2. stored \in 0 .. Len(events) /\ Len(events) \in Nat /\ DOMAIN events = 1 .. Len(events)
  BY DEF Shape, LoopTypeOK
<1>3. stored' \in 0 .. Len(events') /\ Len(events') \in Nat /\ DOMAIN events' = 1 .. Len(events')
  BY <1>1 DEF Shape, LoopTypeOK
<1>4. CASE Silent
  BY <1>2, <1>3, <1>4, SilentLog
<1>5. CASE Talking
  <2>1. ASSUME NEW e, Said(e)
        PROVE  stored <= stored' /\ \A i \in 1 .. Len(events) : events'[i] = events[i]
    BY <2>1, Emitted DEF Said, Shape
  <2> QED  BY <1>2, <1>3, <1>5, <2>1, TalkingLog
<1>6. CASE PlannedCrash \/ Crash
  <2>1. Die /\ LoopTypeOK
    BY <1>6 DEF PlannedCrash, Crash, Shape
  <2>2. /\ stored' = stored
        /\ 1 .. stored \subseteq DOMAIN events
        /\ \A i \in 1 .. stored : events'[i] = events[i]
    BY <2>1, Forgotten
  <2> QED  BY <1>2, <1>3, <2>2
<1>7. CASE UNCHANGED loop
  <2>1. UNCHANGED <<events, stored>>
    BY <1>7 DEF loop
  <2> QED  BY <1>2, <1>3, <2>1
<1> QED
  BY <1>4, <1>5, <1>6, <1>7, WorkerSplits, OtherSteps

-----------------------------------------------------------------------------
(* The planned failure *)

\* The mark is persisted before the failure: once inflicted, the trigger cannot
\* hit again, whichever worker runs and whatever its log still holds.
Planned ==
  /\ PlannedFaultOnce
  /\ ~fired => inflicted = 0
  /\ planned /\ pc \in {"arm", "mark", "dispatch"} => inflicted = 0
  /\ planned /\ pc = "dispatch" => fired

\* A worker's steps other than asking for a tool and dispatching it.
Rest ==
  \/ ConnectFails \/ Receive \/ LoseAnswer \/ Result \/ Note \/ EndTurn \/ EndLoop
  \/ SendReport \/ Reported \/ StartEvaluate \/ SkipEvaluate \/ Evaluated
  \/ EvaluateUnanswered \/ StartDelete \/ Deleted \/ Finish \/ Settle
  \/ PlannedCrash \/ Resume \/ Probe \/ NoteDangling \/ Resolve \/ Resumed

LEMMA WorkerRest == Worker <=> (\E tool \in Tools : CallTool(tool)) \/ Arm \/ Dispatch \/ Rest
  BY DEF Worker, Rest

LEMMA RestSteps ==
  ASSUME Rest
  PROVE  /\ UNCHANGED <<file, grades, issued, inflicted, fired>>
         /\ pc' \notin {"arm", "mark", "dispatch"}
<1>1. CASE PlannedCrash
  BY <1>1 DEF PlannedCrash, Die, episode
<1>2. CASE ConnectFails \/ Receive \/ LoseAnswer \/ Result \/ Note \/ EndTurn \/ EndLoop
  BY <1>2 DEF ConnectFails, Receive, LoseAnswer, Result, Note, EndTurn, EndLoop, quiet, episode
<1>3. CASE SendReport \/ Reported \/ StartEvaluate \/ SkipEvaluate \/ Evaluated
           \/ EvaluateUnanswered \/ StartDelete \/ Deleted \/ Finish \/ Settle
  BY <1>3 DEF SendReport, Reported, StartEvaluate, SkipEvaluate, Evaluated,
       EvaluateUnanswered, StartDelete, Deleted, Finish, Settle, keep, quiet, gym, episode
<1>4. CASE Resume \/ Probe \/ NoteDangling \/ Resolve \/ Resumed
  BY <1>4 DEF Resume, Probe, NoteDangling, Resolve, Resumed, keep, quiet, gym, episode
<1> QED  BY <1>1, <1>2, <1>3, <1>4 DEF Rest

LEMMA NextPlanned ==
  ASSUME Shape, Planned, [Next]_vars
  PROVE  Planned'
<1> USE DEF Planned, PlannedFaultOnce
<1>0. inflicted \in Nat
  BY DEF Shape, LoopTypeOK
<1>1. ASSUME NEW tool \in Tools, CallTool(tool) PROVE Planned'
  BY <1>1 DEF CallTool, Hit
<1>2. CASE Arm
  BY <1>2 DEF Arm
<1>3. CASE Dispatch
  BY <1>0, <1>3 DEF Dispatch
<1>4. CASE Rest
  BY <1>4, RestSteps
<1>5. CASE Crash
  BY <1>5 DEF Crash, Die
<1>6. CASE UNCHANGED loop
  BY <1>6 DEF loop
<1> QED
  BY <1>1, <1>2, <1>3, <1>4, <1>5, <1>6, WorkerRest, OtherSteps

\* A planned failure is inflicted once per run, whatever the number of retries.
THEOREM FaultInflictedOnce == Spec => []PlannedFaultOnce
<1>1. Init => Planned
  BY DEF Init, Planned, PlannedFaultOnce
<1>2. Shape /\ Planned /\ [Next]_vars => Planned'
  BY NextPlanned
<1> QED  BY <1>1, <1>2, AlwaysShape, PTL DEF Spec, Planned

-----------------------------------------------------------------------------
(* A call runs at most once *)

WriteOf(n) == [op |-> "write_file", n |-> n]
landed == {file[i] : i \in DOMAIN file}

\* A call the loop has not sent yet is nowhere, one that has not run yet has
\* not landed; only the call at hand is ever sent, and it is sent once.
Once ==
  /\ AtMostOnce
  /\ \A n \in Calls : n > issued => req[WriteOf(n)].phase = "idle" /\ n \notin landed
  /\ \A n \in Calls : req[WriteOf(n)].phase \in {"sent", "exec"} => n \notin landed
  /\ pc \in {"arm", "mark", "dispatch"} =>
       cur.n \in Calls /\ cur.n <= issued /\ req[WriteOf(cur.n)].phase = "idle" /\ cur.n \notin landed

LEMMA WriteRequest ==
  ASSUME NEW n \in Calls
  PROVE  WriteOf(n) \in Request /\ WriteOf(n).n = n /\ n \in Nat
  BY CallsAssumption DEF WriteOf, Request, Tools

\* Handlers touch their own request only.
LEMMA OwnRequest ==
  ASSUME Shape, NEW r \in Request, Handle(r), NEW q \in Request, q # r
  PROVE  req'[q] = req[q]
  BY DEF Shape, LoopTypeOK, TypeOK, Handle, Begin, Exec, Denied, Unavailable, RecordStep, ReportLoad,
     ReportSave, EvaluateLoad, Evaluate, EvaluateFails, EvaluateReload, EvaluateSave, DeleteLoad,
     DeleteStop, DeleteSave, Answer, LoadInto, Goto

LEMMA HandlerMoves ==
  ASSUME Shape, NEW r \in Request, Handle(r)
  PROVE  /\ At(r, "exec")' => At(r, "sent") /\ UNCHANGED file
         /\ ~At(r, "sent")' /\ ~At(r, "idle")'
         /\ ~At(r, "idle")
         /\ file' # file => At(r, "exec") /\ r.op = "write_file" /\ file' = Append(file, r.n)
<1>0. DOMAIN req = Request /\ req[r] \in ReqType
  BY DEF Shape, LoopTypeOK, TypeOK, ReqType
<1>1. CASE Begin(r)
  <2>1. CASE rec.terminated
    <3>1. req' = [req EXCEPT ![r] = [Idle EXCEPT !.phase = "answered", !.answer = "gone"]]
      BY <1>1, <2>1 DEF Begin, Answer
    <3>2. At(r, "sent") /\ UNCHANGED file
      BY <1>1 DEF Begin
    <3> QED  BY <1>0, <3>1, <3>2 DEF At, Idle
  <2>2. CASE ~rec.terminated
    <3> DEFINE i == Decide(rec.hits, r.op)
               bitten == i # 0 /\ Plan[i].kind # "ack_lost"
    <3>1. req' = [req EXCEPT ![r] =
             [phase |-> IF bitten THEN "record" ELSE "exec", snap |-> [rec EXCEPT !.step = @ + 1],
              fault |-> i, answer |-> IF bitten THEN "short_circuit" ELSE "none"]]
      BY <1>1, <2>2, Zenon DEF Begin
    <3>2. At(r, "sent") /\ UNCHANGED file
      BY <1>1 DEF Begin
    <3> HIDE DEF i, bitten
    <3> QED  BY <1>0, <3>1, <3>2 DEF At
  <2> QED  BY <2>1, <2>2
<1>2. CASE Exec(r) \/ Denied(r) \/ Unavailable(r)
  BY <1>0, <1>2 DEF Exec, Denied, Unavailable, ReqType, At
<1>3. CASE RecordStep(r) \/ ReportSave(r) \/ EvaluateSave(r) \/ DeleteSave(r)
  BY <1>0, <1>3, ZenonT(60) DEF RecordStep, ReportSave, EvaluateSave, DeleteSave, Answer, Idle, At
<1>4. CASE ReportLoad(r) \/ EvaluateLoad(r) \/ EvaluateFails(r) \/ EvaluateReload(r) \/ DeleteLoad(r)
  BY <1>0, <1>4 DEF ReportLoad, EvaluateLoad, EvaluateFails, EvaluateReload, DeleteLoad,
       LoadInto, ReqType, At
<1>5. CASE Evaluate(r) \/ DeleteStop(r)
  BY <1>0, <1>5 DEF Evaluate, DeleteStop, Goto, ReqType, At
<1> QED  BY <1>1, <1>2, <1>3, <1>4, <1>5 DEF Handle

\* The worker's other steps send requests, but no tool call.
LEMMA RestSends ==
  ASSUME Shape, Rest, NEW n \in Calls
  PROVE  req'[WriteOf(n)] = req[WriteOf(n)]
<1>0. DOMAIN req = Request /\ WriteOf(n) \in Request
  BY WriteRequest DEF Shape, LoopTypeOK, TypeOK
<1>1. CASE SendReport
  BY <1>0, <1>1 DEF SendReport, Send, ReportOf, WriteOf
<1>2. CASE StartEvaluate \/ StartDelete
  BY <1>0, <1>2 DEF StartEvaluate, StartDelete, Send, EvaluateIt, DeleteIt, WriteOf
<1>3. CASE NoteDangling
  BY <1>0, <1>3 DEF NoteDangling, Send, ReportOf, WriteOf
<1>4. CASE PlannedCrash
  BY <1>4 DEF PlannedCrash, Die, episode
<1>5. CASE ConnectFails \/ Receive \/ LoseAnswer \/ Result \/ Note \/ EndTurn \/ EndLoop
           \/ Resume \/ Probe \/ Resolve \/ Resumed
  BY <1>5 DEF ConnectFails, Receive, LoseAnswer, Result, Note, EndTurn, EndLoop, Resume, Probe,
       Resolve, Resumed, episode
<1>6. CASE Reported \/ SkipEvaluate \/ Evaluated \/ EvaluateUnanswered \/ Deleted \/ Finish \/ Settle
  BY <1>6 DEF Reported, SkipEvaluate, Evaluated, EvaluateUnanswered, Deleted, Finish, Settle, episode
<1> QED  BY <1>1, <1>2, <1>3, <1>4, <1>5, <1>6 DEF Rest

\* Once is about these only.
LEMMA OnceStays ==
  ASSUME Once, UNCHANGED <<file, issued>>,
         \A n \in Calls : req'[WriteOf(n)] = req[WriteOf(n)],
         UNCHANGED <<pc, cur>> \/ pc' \notin {"arm", "mark", "dispatch"}
  PROVE  Once'
  BY DEF Once, AtMostOnce, landed

LEMMA OnceByWorker ==
  ASSUME Shape, Once, Worker
  PROVE  Once'
<1>0. issued \in Nat /\ cur \in Request /\ DOMAIN req = Request /\ Calls \subseteq Nat
  BY CallsAssumption DEF Shape, LoopTypeOK, TypeOK
<1>1. ASSUME NEW tool \in Tools, CallTool(tool) PROVE Once'
  <2>1. /\ issued' = issued + 1 /\ issued + 1 \in Calls /\ UNCHANGED <<file, req>>
        /\ cur' = [op |-> tool, n |-> issued + 1]
    BY <1>1 DEF CallTool, episode
  <2>2. req[WriteOf(issued + 1)].phase = "idle" /\ issued + 1 \notin landed
    BY <1>0, <2>1 DEF Once
  <2>3. \A n \in Calls : n > issued' => req[WriteOf(n)].phase = "idle" /\ n \notin landed
    BY <1>0, <2>1 DEF Once
  <2>4. \A n \in Calls : n > issued' => req'[WriteOf(n)].phase = "idle" /\ n \notin landed'
    BY <2>1, <2>3 DEF landed
  <2>5. cur'.n \in Calls /\ cur'.n <= issued' /\ req'[WriteOf(cur'.n)].phase = "idle" /\ cur'.n \notin landed'
    BY <1>0, <2>1, <2>2 DEF landed
  <2>6. AtMostOnce' /\ \A n \in Calls : req'[WriteOf(n)].phase \in {"sent", "exec"} => n \notin landed'
    BY <2>1 DEF Once, AtMostOnce, landed
  <2> QED  BY <2>4, <2>5, <2>6 DEF Once
<1>2. CASE Arm
  BY <1>2 DEF Arm, Once, AtMostOnce, landed, episode
<1>3. CASE Dispatch
  <2>1. /\ UNCHANGED <<file, issued, cur>> /\ pc = "dispatch" /\ pc' = "wait"
        /\ req' = [req EXCEPT ![cur] = [Idle EXCEPT !.phase = "sent"]]
    BY <1>3 DEF Dispatch, Send, gym
  <2>2. cur.n \in Calls /\ cur.n <= issued /\ cur.n \notin landed
    BY <2>1 DEF Once
  <2>3. ASSUME NEW n \in Calls, n # cur.n PROVE req'[WriteOf(n)] = req[WriteOf(n)]
    <3>1. WriteOf(n) # cur /\ WriteOf(n) \in Request
      BY <2>3, WriteRequest
    <3> QED  BY <1>0, <2>1, <3>1
  <2>6. landed' = landed
    BY <2>1 DEF landed
  <2>4. ASSUME NEW n \in Calls, n > issued' PROVE req'[WriteOf(n)].phase = "idle" /\ n \notin landed'
    <3>1. n > issued /\ n # cur.n
      BY <1>0, <2>1, <2>2, <2>4
    <3> QED  BY <2>3, <2>6, <3>1 DEF Once
  <2>5. ASSUME NEW n \in Calls, req'[WriteOf(n)].phase \in {"sent", "exec"} PROVE n \notin landed'
    <3>1. CASE n = cur.n
      BY <2>2, <2>6, <3>1
    <3>2. CASE n # cur.n
      BY <2>3, <2>5, <2>6, <3>2 DEF Once
    <3> QED  BY <3>1, <3>2
  <2> QED  BY <2>1, <2>4, <2>5 DEF Once, AtMostOnce
<1>4. CASE Rest
  BY <1>4, RestSteps, RestSends, OnceStays
<1> QED  BY <1>1, <1>2, <1>3, <1>4, WorkerRest

LEMMA OnceByGym ==
  ASSUME Shape, Once, NEW r \in Request, Handle(r), UNCHANGED loop
  PROVE  Once'
<1>0. file \in Seq(Calls) /\ issued \in Nat /\ Calls \subseteq Nat /\ cur \in Request
  BY CallsAssumption DEF Shape, LoopTypeOK, TypeOK
<1>1. \A n \in Calls : WriteOf(n) # r => req'[WriteOf(n)] = req[WriteOf(n)]
  BY OwnRequest, WriteRequest
<1>2. UNCHANGED <<pc, cur, issued>>
  BY DEF loop
<1>3. req[r].phase # "idle" /\ req'[r].phase \notin {"idle", "sent"}
  BY HandlerMoves DEF At
<1>4. CASE UNCHANGED file
  <2>1. UNCHANGED landed
    BY <1>4 DEF landed
  <2>2. ASSUME NEW n \in Calls, req'[WriteOf(n)].phase \in {"sent", "exec"}
        PROVE  req[WriteOf(n)].phase \in {"sent", "exec"}
    BY <1>1, <1>3, <2>2, HandlerMoves DEF At
  <2>3. ASSUME NEW n \in Calls, req[WriteOf(n)].phase = "idle"
        PROVE  req'[WriteOf(n)].phase = "idle"
    BY <1>1, <1>3, <2>3
  <2> QED  BY <1>2, <1>4, <2>1, <2>2, <2>3 DEF Once, AtMostOnce
<1>5. CASE file' # file
  <2>1. req[r].phase = "exec" /\ req'[r].phase # "exec" /\ r.op = "write_file" /\ file' = Append(file, r.n)
    BY <1>5, HandlerMoves DEF At
  <2>2. r = WriteOf(r.n) /\ r.n \in Calls
    BY <2>1 DEF Request, WriteOf, Tools
  <2>3. r.n \notin landed
    BY <2>1, <2>2 DEF Once
  <2>4. /\ DOMAIN file = 1 .. Len(file) /\ DOMAIN file' = 1 .. Len(file) + 1 /\ Len(file) \in Nat
        /\ \A i \in 1 .. Len(file) : file'[i] = file[i]
        /\ file'[Len(file) + 1] = r.n
    BY <1>0, <2>1, <2>2, AppendProperties
  <2>5. landed' = landed \cup {r.n}
    BY <2>4 DEF landed
  <2>6. AtMostOnce'
    <3>1. ASSUME NEW i \in 1 .. Len(file) PROVE file'[i] # r.n
      BY <2>3, <2>4, <3>1 DEF landed
    <3>2. \A i, j \in 1 .. Len(file) : file'[i] = file'[j] => i = j
      BY <2>4 DEF Once, AtMostOnce
    <3> QED  BY <2>4, <3>1, <3>2 DEF AtMostOnce
  <2>7. ASSUME NEW n \in Calls, n # r.n PROVE req'[WriteOf(n)] = req[WriteOf(n)]
    BY <1>1, <2>2, <2>7, WriteRequest
  <2>8. r.n <= issued
    <3>1. req[WriteOf(r.n)].phase # "idle"
      BY <1>3, <2>2
    <3>2. ~(r.n > issued)
      BY <2>2, <3>1 DEF Once
    <3>3. r.n \in Nat /\ issued \in Nat
      BY <1>0, <2>2
    <3> DEFINE k == r.n
    <3> HIDE DEF k
    <3>4. ~(k > issued) /\ k \in Nat
      BY <3>2, <3>3 DEF k
    <3>5. k <= issued
      BY <3>3, <3>4
    <3> QED  BY <3>5 DEF k
  <2>9. ASSUME NEW n \in Calls, n > issued'
        PROVE  req'[WriteOf(n)].phase = "idle" /\ n \notin landed'
    <3>1. n > issued /\ n # r.n
      BY <1>0, <1>2, <2>2, <2>8, <2>9
    <3> QED  BY <2>5, <2>7, <3>1 DEF Once
  <2>10. ASSUME NEW n \in Calls, req'[WriteOf(n)].phase \in {"sent", "exec"} PROVE n \notin landed'
    <3>1. n # r.n
      BY <2>1, <2>2, <2>10, <1>3
    <3> QED  BY <2>5, <2>7, <2>10, <3>1 DEF Once
  <2>11. ASSUME pc' \in {"arm", "mark", "dispatch"}
         PROVE  cur'.n \in Calls /\ cur'.n <= issued' /\ req'[WriteOf(cur'.n)].phase = "idle" /\ cur'.n \notin landed'
    <3>1. cur.n \in Calls /\ cur.n <= issued /\ req[WriteOf(cur.n)].phase = "idle" /\ cur.n \notin landed
      BY <1>2, <2>11 DEF Once
    <3>2. cur.n # r.n
      BY <2>1, <2>2, <3>1
    <3> QED  BY <1>2, <2>5, <2>7, <3>1, <3>2
  <2> QED  BY <2>6, <2>9, <2>10, <2>11 DEF Once
<1> QED  BY <1>4, <1>5

LEMMA NextOnce ==
  ASSUME Shape, Once, [Next]_vars
  PROVE  Once'
<1>0. DOMAIN req = Request
  BY DEF Shape, LoopTypeOK, TypeOK
<1>1. CASE Worker
  BY <1>1, OnceByWorker
<1>2. CASE Crash
  BY <1>2, OnceStays DEF Crash, Die, episode
<1>3. ASSUME NEW r \in Request, Handle(r), UNCHANGED loop PROVE Once'
  BY <1>3, OnceByGym
<1>4. ASSUME NEW r \in Request, NeverArrives(r) PROVE Once'
  <2>1. UNCHANGED <<file, issued, pc, cur>> /\ req' = [req EXCEPT ![r] = Idle]
    BY <1>4 DEF NeverArrives, gym, loop
  <2>2. UNCHANGED landed
    BY <2>1 DEF landed
  <2>3. ASSUME NEW n \in Calls
        PROVE  req'[WriteOf(n)] = req[WriteOf(n)] \/ req'[WriteOf(n)].phase = "idle"
    BY <1>0, <2>1, WriteRequest DEF Idle
  <2>4. \A n \in Calls : n > issued' => req'[WriteOf(n)].phase = "idle" /\ n \notin landed'
    BY <2>1, <2>2, <2>3 DEF Once
  <2>5. \A n \in Calls : req'[WriteOf(n)].phase \in {"sent", "exec"} => n \notin landed'
    BY <2>2, <2>3 DEF Once
  <2>6. pc' \in {"arm", "mark", "dispatch"} =>
          cur'.n \in Calls /\ cur'.n <= issued' /\ req'[WriteOf(cur'.n)].phase = "idle" /\ cur'.n \notin landed'
    BY <2>1, <2>2, <2>3 DEF Once
  <2> QED  BY <2>1, <2>4, <2>5, <2>6 DEF Once, AtMostOnce
<1>5. CASE BoxDies
  BY <1>5, OnceStays DEF BoxDies, loop
<1>6. CASE Expire
  <2>1. UNCHANGED <<file, issued, pc, cur>> /\ req' = [req EXCEPT ![ExpireIt] = [Idle EXCEPT !.phase = "sent"]]
    BY <1>6 DEF Expire, Send, gym, loop
  <2>2. \A n \in Calls : req'[WriteOf(n)] = req[WriteOf(n)]
    BY <1>0, <2>1, WriteRequest DEF ExpireIt, WriteOf
  <2> QED  BY <2>1, <2>2, OnceStays
<1>7. CASE UNCHANGED vars
  BY <1>7, OnceStays DEF vars, episode, loop
<1> QED
  BY <1>1, <1>2, <1>3, <1>4, <1>5, <1>6, <1>7 DEF Next, Gym, Over

\* A tool call runs at most once in the sandbox, for any number of deaths,
\* lost answers and retries.
THEOREM CallsRunAtMostOnce == Spec => []AtMostOnce
<1>1. Init => Once
  BY WriteRequest DEF Init, EpisodeInit, Once, AtMostOnce, landed, Idle
<1>2. Shape /\ Once /\ [Next]_vars => Once'
  BY NextOnce
<1> QED  BY <1>1, <1>2, AlwaysShape, PTL DEF Spec, Once

-----------------------------------------------------------------------------
(* A run that ends ok was graded *)

ScoreAt(i) == events[i].type = "episode.evaluated" /\ events[i].what = "ok"
OkAt(i) == events[i].type = "run.finished" /\ events[i].what = "ok"

\* An evaluation that answers ok has been computed; its event follows, and
\* before it the loop does not reach its end with the status ok.
Graded ==
  /\ req[EvaluateIt].phase \in {"reload", "score"} => grades # << >>
  /\ req[EvaluateIt].phase = "answered" /\ req[EvaluateIt].answer = "ok" => grades # << >>
  /\ \A i \in DOMAIN events : ScoreAt(i) => grades # << >>
  /\ pc \in {"delete", "deleting", "finish"} /\ status = "ok" => \E i \in DOMAIN events : ScoreAt(i)
  /\ \A i \in DOMAIN events : OkAt(i) => \E j \in DOMAIN events : j < i /\ ScoreAt(j)

LEMMA GradedIsOk ==
  ASSUME Shape, Graded
  PROVE  OkIsGraded
  BY DEF Graded, OkIsGraded, Has, ScoreAt, OkAt

\* The log's part of Graded: what it needs of an event at its end.
LogGraded ==
  /\ \A i \in DOMAIN events : ScoreAt(i) => grades # << >>
  /\ \A i \in DOMAIN events : OkAt(i) => \E j \in DOMAIN events : j < i /\ ScoreAt(j)

LEMMA LogGradedExtends ==
  ASSUME Shape, LogGraded, NEW e, Said(e), UNCHANGED grades,
         e.type = "episode.evaluated" => grades # << >>,
         e.type = "run.finished" /\ e.what = "ok" => \E i \in DOMAIN events : ScoreAt(i)
  PROVE  LogGraded' /\ ((\E i \in DOMAIN events : ScoreAt(i)) => \E i \in DOMAIN events' : ScoreAt(i)')
<1>1. /\ DOMAIN events' = 1 .. Len(events) + 1
      /\ \A i \in 1 .. Len(events) : events'[i] = events[i]
      /\ events'[Len(events) + 1] = e
  BY Emitted DEF Said, Shape
<1>2. DOMAIN events = 1 .. Len(events) /\ Len(events) \in Nat
  BY DEF Shape, LoopTypeOK
<1>3. ASSUME NEW i \in DOMAIN events', ScoreAt(i)' PROVE grades' # << >>
  BY <1>1, <1>2, <1>3 DEF LogGraded, ScoreAt
<1>4. ASSUME NEW i \in DOMAIN events', OkAt(i)' PROVE \E j \in DOMAIN events' : j < i /\ ScoreAt(j)'
  <2>1. CASE i \in 1 .. Len(events)
    <3>1. PICK j \in DOMAIN events : j < i /\ ScoreAt(j)
      BY <1>1, <1>2, <1>4, <2>1 DEF LogGraded, OkAt
    <3> QED  BY <1>1, <1>2, <3>1 DEF ScoreAt
  <2>2. CASE i = Len(events) + 1
    <3>1. PICK j \in DOMAIN events : ScoreAt(j)
      BY <1>1, <1>4, <2>2 DEF OkAt
    <3> QED  BY <1>1, <1>2, <2>2, <3>1 DEF ScoreAt
  <2> QED  BY <1>1, <1>2, <2>1, <2>2
<1>5. ASSUME NEW i \in DOMAIN events, ScoreAt(i) PROVE i \in DOMAIN events' /\ ScoreAt(i)'
  BY <1>1, <1>2, <1>5 DEF ScoreAt
<1> QED  BY <1>3, <1>4, <1>5 DEF LogGraded

LEMMA LogGradedForgets ==
  ASSUME Shape, LogGraded, Die
  PROVE  LogGraded'
<1>1. /\ DOMAIN events' = 1 .. stored /\ 1 .. stored \subseteq DOMAIN events
      /\ \A i \in 1 .. stored : events'[i] = events[i]
  BY Forgotten DEF Shape
<1>2. UNCHANGED grades /\ stored \in Nat
  BY DEF Die, episode, Shape, LoopTypeOK
<1>3. ASSUME NEW i \in DOMAIN events', ScoreAt(i)' PROVE grades' # << >>
  BY <1>1, <1>2, <1>3 DEF LogGraded, ScoreAt
<1>4. ASSUME NEW i \in DOMAIN events', OkAt(i)' PROVE \E j \in DOMAIN events' : j < i /\ ScoreAt(j)'
  <2>1. PICK j \in DOMAIN events : j < i /\ ScoreAt(j)
    BY <1>1, <1>4 DEF LogGraded, OkAt
  <2>2. j \in 1 .. stored
    BY <1>1, <1>2, <2>1 DEF Shape, LoopTypeOK
  <2> QED  BY <1>1, <2>1, <2>2 DEF ScoreAt
<1> QED  BY <1>3, <1>4 DEF LogGraded

\* What the evaluate request has computed.
ReqGraded ==
  /\ req[EvaluateIt].phase \in {"reload", "score"} => grades # << >>
  /\ req[EvaluateIt].phase = "answered" /\ req[EvaluateIt].answer = "ok" => grades # << >>

LEMMA ReqGradedByGym ==
  ASSUME Shape, ReqGraded, NEW r \in Request, Handle(r)
  PROVE  ReqGraded' /\ (grades # << >> => grades' # << >>)
<1>0. DOMAIN req = Request /\ req[r] \in ReqType /\ grades \in Seq(Seq(Row)) /\ EvaluateIt \in Request
  BY NamedRequests DEF Shape, LoopTypeOK, TypeOK, ReqType
<1>1. UNCHANGED grades \/ (Evaluate(r) /\ grades' # << >>)
  <2>1. CASE Evaluate(r)
    <3>1. req[r].snap.ledger \in Seq(Row)
      BY <1>0 DEF ReqType, Record
    <3> QED  BY <1>0, <2>1, <3>1, AppendProperties DEF Evaluate
  <2> QED
    BY <2>1 DEF Handle, Begin, Exec, Denied, Unavailable, RecordStep, ReportLoad, ReportSave,
         EvaluateLoad, EvaluateFails, EvaluateReload, EvaluateSave, DeleteLoad, DeleteStop, DeleteSave
<1>2. CASE r # EvaluateIt
  <2>1. req'[EvaluateIt] = req[EvaluateIt]
    BY <1>0, <1>2, OwnRequest
  <2> QED  BY <1>1, <2>1 DEF ReqGraded
<1>3. CASE r = EvaluateIt
  <2>0. ~IsToolCall(r) /\ r.op = "evaluate"
    BY <1>3 DEF EvaluateIt, IsToolCall, Tools
  <2>1. CASE EvaluateLoad(r) \/ EvaluateFails(r) \/ EvaluateReload(r)
    BY <1>0, <1>3, <2>1 DEF EvaluateLoad, EvaluateFails, EvaluateReload, LoadInto, ReqType, At, ReqGraded
  <2>2. CASE Evaluate(r)
    BY <1>0, <1>1, <1>3, <2>2 DEF ReqGraded, Evaluate
  <2>3. CASE EvaluateSave(r)
    BY <1>0, <1>3, <2>3 DEF EvaluateSave, Answer, Idle, At, ReqGraded
  <2>4. CASE DeleteStop(r)
    BY <1>0, <1>3, <2>4 DEF DeleteStop, Goto, ReqType, At, ReqGraded
  <2>5. CASE DeleteSave(r)
    BY <1>0, <1>3, <2>0, <2>5 DEF DeleteSave, Answer, Idle, At, ReqGraded
  <2> QED
    BY <2>0, <2>1, <2>2, <2>3, <2>4, <2>5
    DEF Handle, Begin, Exec, Denied, Unavailable, RecordStep, ReportLoad, ReportSave, DeleteLoad
<1> QED  BY <1>2, <1>3

LEMMA WorkerEvaluate ==
  ASSUME Shape, Worker
  PROVE  req'[EvaluateIt] = req[EvaluateIt] \/ req'[EvaluateIt].phase = "sent"
<1>0. DOMAIN req = Request /\ EvaluateIt \in Request
  BY NamedRequests DEF Shape, LoopTypeOK, TypeOK
<1>1. CASE Dispatch \/ SendReport \/ StartEvaluate \/ StartDelete
  BY <1>0, <1>1 DEF Dispatch, SendReport, StartEvaluate, StartDelete, Send, Idle
<1>2. CASE NoteDangling
  BY <1>0, <1>2 DEF NoteDangling, Send, Idle
<1>3. CASE PlannedCrash \/ \E tool \in Tools : CallTool(tool)
  BY <1>3 DEF PlannedCrash, Die, CallTool, episode
<1>4. CASE Arm \/ ConnectFails \/ Receive \/ LoseAnswer \/ Result \/ Note \/ EndTurn \/ EndLoop
           \/ Resume \/ Probe \/ Resolve \/ Resumed
  BY <1>4 DEF Arm, ConnectFails, Receive, LoseAnswer, Result, Note, EndTurn, EndLoop, Resume, Probe,
       Resolve, Resumed, episode
<1>5. CASE Reported \/ SkipEvaluate \/ Evaluated \/ EvaluateUnanswered \/ Deleted \/ Finish \/ Settle
  BY <1>5 DEF Reported, SkipEvaluate, Evaluated, EvaluateUnanswered, Deleted, Finish, Settle, episode
<1> QED  BY <1>1, <1>2, <1>3, <1>4, <1>5 DEF Worker

LEMMA WorkerGrades ==
  ASSUME Worker
  PROVE  UNCHANGED grades
<1>1. CASE (\E tool \in Tools : CallTool(tool)) \/ Arm \/ Dispatch
  BY <1>1 DEF CallTool, Arm, Dispatch, gym, episode
<1>2. CASE Rest
  BY <1>2, RestSteps
<1> QED  BY <1>1, <1>2, WorkerRest

\* The loop goes on to delete from Evaluated only, and knows the score then.
LEMMA EndWithScore ==
  ASSUME Shape, Talking
  PROVE  pc' \in {"delete", "deleting", "finish"} /\ status' = "ok" =>
           \E i \in DOMAIN events' : ScoreAt(i)'
<1>1. CASE Evaluated
  <2> DEFINE e == Ev("episode.evaluated", EvaluateIt, "ok")
  <2>1. CASE req[EvaluateIt].answer = "ok"
    <3>1. e \in Event /\ Emit(e)
      BY <1>1, <2>1, EvType, NamedRequests DEF Evaluated, EventTypes, Heard, Answers, Outcomes
    <3> HIDE DEF e
    <3>2. Len(events) + 1 \in DOMAIN events' /\ events'[Len(events) + 1] = e
      BY <3>1, Emitted DEF Shape, LoopTypeOK
    <3>3. e.type = "episode.evaluated" /\ e.what = "ok"
      BY DEF e, Ev
    <3> QED  BY <3>2, <3>3 DEF ScoreAt
  <2>2. CASE req[EvaluateIt].answer # "ok"
    BY <1>1, <2>2 DEF Evaluated, Ungraded
  <2> QED  BY <2>1, <2>2
<1>2. CASE ~Evaluated
  BY <1>2 DEF Talking, CallTool, Result, Note, Finish, Resume, Probe, NoteDangling, Resolve
<1> QED  BY <1>1, <1>2

LEMMA GradedByWorker ==
  ASSUME Shape, Graded, Worker
  PROVE  Graded'
<1>1. UNCHANGED grades
  BY WorkerGrades
<1>2. ReqGraded'
  BY <1>1, WorkerEvaluate DEF Graded, ReqGraded
<1>3. LogGraded
  BY DEF Graded, LogGraded
<1>4. CASE PlannedCrash
  <2>1. LogGraded' /\ pc' = "down"
    BY <1>3, <1>4, LogGradedForgets DEF PlannedCrash, Die
  <2> QED  BY <1>2, <2>1 DEF Graded, ReqGraded, LogGraded
<1>5. CASE Silent
  <2>1. UNCHANGED events
    BY <1>5, SilentLog
  <2>2. LogGraded'
    BY <1>1, <1>3, <2>1 DEF LogGraded, ScoreAt, OkAt
  <2>3. pc' \in {"delete", "deleting", "finish"} /\ status' = "ok"
          => pc \in {"delete", "deleting", "finish"} /\ status = "ok"
    BY <1>5 DEF Silent, Arm, Dispatch, ConnectFails, Receive, LoseAnswer, EndTurn,
       EndLoop, SendReport, Reported, StartEvaluate, SkipEvaluate, EvaluateUnanswered, StartDelete,
       Deleted, Settle, Resumed, Ungraded, keep
  <2> QED  BY <1>2, <2>1, <2>2, <2>3 DEF Graded, ReqGraded, LogGraded, ScoreAt
<1>6. ASSUME NEW e, Said(e), Talking PROVE Graded'
  <2>1. e.type = "episode.evaluated" => grades # << >>
    BY <1>6 DEF Said, Evaluated, At, Graded
  <2>2. e.type = "run.finished" /\ e.what = "ok" => \E i \in DOMAIN events : ScoreAt(i)
    BY <1>6 DEF Said, Finish, Graded
  <2>3. LogGraded' /\ ((\E i \in DOMAIN events : ScoreAt(i)) => \E i \in DOMAIN events' : ScoreAt(i)')
    BY <1>1, <1>3, <1>6, <2>1, <2>2, LogGradedExtends
  <2> QED  BY <1>2, <1>6, <2>3, EndWithScore DEF Graded, ReqGraded, LogGraded
<1>7. CASE Talking /\ UNCHANGED <<events, stored>>
  <2>1. LogGraded'
    BY <1>1, <1>3, <1>7 DEF LogGraded, ScoreAt, OkAt
  <2> QED  BY <1>2, <1>7, <2>1, EndWithScore DEF Graded, ReqGraded, LogGraded
<1> QED
  BY <1>4, <1>5, <1>6, <1>7, TalkingLog, WorkerSplits

LEMMA NextGraded ==
  ASSUME Shape, Graded, [Next]_vars
  PROVE  Graded'
<1>0. DOMAIN req = Request /\ ReqGraded /\ EvaluateIt \in Request
  BY NamedRequests DEF Shape, LoopTypeOK, TypeOK, Graded, ReqGraded
<1>1. CASE Worker
  BY <1>1, GradedByWorker
<1>2. CASE Crash
  <2>1. LogGraded' /\ pc' = "down"
    BY <1>2, LogGradedForgets DEF Crash, Die, Graded, LogGraded
  <2> QED  BY <1>2, <2>1 DEF Graded, LogGraded, Crash, Die, episode
<1>3. ASSUME NEW r \in Request, Handle(r), UNCHANGED loop PROVE Graded'
  <2>1. ReqGraded' /\ (grades # << >> => grades' # << >>)
    BY <1>0, <1>3, ReqGradedByGym
  <2>2. UNCHANGED <<events, pc, status>>
    BY <1>3 DEF loop
  <2> QED  BY <2>1, <2>2 DEF Graded, ReqGraded, ScoreAt, OkAt
<1>4. CASE UNCHANGED <<grades, events, pc, status>> /\ (req'[EvaluateIt] = req[EvaluateIt] \/ req'[EvaluateIt] = Idle)
  BY <1>4 DEF Graded, ScoreAt, OkAt, Idle
<1>5. ASSUME NEW r \in Request, NeverArrives(r) PROVE Graded'
  BY <1>0, <1>4, <1>5 DEF NeverArrives, gym, loop
<1>6. CASE BoxDies \/ UNCHANGED vars
  BY <1>4, <1>6 DEF BoxDies, vars, episode, loop
<1>7. CASE Expire
  BY <1>0, <1>4, <1>7 DEF Expire, Send, gym, loop, ExpireIt, EvaluateIt
<1> QED
  BY <1>1, <1>2, <1>3, <1>5, <1>6, <1>7 DEF Next, Gym, Over

\* A run that ends ok was graded, and its log says so, whatever failed before.
THEOREM OkRunsAreGraded == Spec => []OkIsGraded
<1>1. Init => Graded
  BY NamedRequests DEF Init, EpisodeInit, Graded, Idle
<1>2. Shape /\ Graded /\ [Next]_vars => Graded'
  BY NextGraded
<1> QED  BY <1>1, <1>2, AlwaysShape, GradedIsOk, PTL DEF Spec

-----------------------------------------------------------------------------
(* A mark in the ledger has its event in the Store *)

Told == \E i \in 1 .. stored : events[i].type = "interruption" /\ events[i].op = "write_file"

HasMark(ledger) == \E i \in DOMAIN ledger : ledger[i].interrupted

\* Reports, and the writes kept to be reported, come from interruptions that
\* the Store has; marks come from reports, and travel in copies of the record.
Marks ==
  /\ HasMark(rec.ledger) => Told
  /\ \A r \in Request : HasMark(req[r].snap.ledger) => Told
  /\ \A r \in Request : r.op = "report" /\ req[r].phase # "idle" => Told
  /\ deferred # << >> => Told

LEMMA MarksExplain ==
  ASSUME Shape, Marks
  PROVE  MarkIsExplained
<1>1. events \in Seq(Event) /\ stored \in 0 .. Len(events)
  BY DEF Shape, LoopTypeOK
<1>2. DOMAIN Durable = 1 .. stored /\ \A i \in 1 .. stored : Durable[i] = events[i]
  BY <1>1 DEF Durable
<1> QED  BY <1>2 DEF Marks, MarkIsExplained, Told, HasMark

LEMMA ToldStays ==
  ASSUME Shape, [Next]_vars, Told
  PROVE  Told'
<1>1. PICK i \in 1 .. stored : events[i].type = "interruption" /\ events[i].op = "write_file"
  BY DEF Told
<1>2. stored <= stored' /\ stored' \in Nat /\ stored \in Nat /\ events'[i] = events[i]
  BY StoredStays DEF Shape, LoopTypeOK
<1> QED  BY <1>1, <1>2 DEF Told

\* An interruption of a write is flushed as it is emitted.
LEMMA ToldNow ==
  ASSUME Shape, NEW r \in Request, NEW what \in Heard, EmitNow(Ev("interruption", r, what)),
         r.op = "write_file"
  PROVE  Told'
<1> DEFINE e == Ev("interruption", r, what)
<1>1. e \in Event /\ EmitNow(e) /\ e.type = "interruption" /\ e.op = "write_file"
  BY EvType DEF EventTypes, Ev
<1> HIDE DEF e
<1>2. events'[Len(events) + 1] = e /\ stored' = Len(events) + 1
  BY <1>1, Emitted DEF Shape, EmitNow
<1>3. Len(events) \in Nat
  BY DEF Shape, LoopTypeOK
<1> QED  BY <1>1, <1>2, <1>3 DEF Told

LEMMA MarksByGym ==
  ASSUME Shape, Marks, NEW r \in Request, Handle(r), UNCHANGED loop
  PROVE  Marks'
<1>0. DOMAIN req = Request /\ req[r] \in ReqType /\ rec.ledger \in Seq(Row)
      /\ req[r].snap \in Record /\ req[r].snap.ledger \in Seq(Row) /\ rec \in Record
  BY DEF Shape, LoopTypeOK, TypeOK, ReqType, Record
<1>1. Told' = Told /\ UNCHANGED deferred
  BY DEF Told, loop
<1>2. ASSUME NEW q \in Request, q # r PROVE req'[q] = req[q]
  BY <1>2, OwnRequest
<1>3. ~At(r, "idle")
  BY HandlerMoves
<1>4. HasMark(req'[r].snap.ledger) => Told
  <2>1. CASE Begin(r)
    <3>1. CASE rec.terminated
      <4>1. req'[r].snap = NewRecord
        BY <1>0, <2>1, <3>1, ZenonT(60) DEF Begin, Answer, Idle
      <4> QED  BY <4>1 DEF HasMark, NewRecord
    <3>2. CASE ~rec.terminated
      <4>1. PICK p, i, a : req' = [req EXCEPT ![r] =
              [phase |-> p, snap |-> [rec EXCEPT !.step = @ + 1], fault |-> i, answer |-> a]]
        BY <2>1, <3>2, Zenon DEF Begin
      <4>2. req'[r].snap.ledger = rec.ledger
        BY <1>0, <4>1 DEF Record
      <4> QED  BY <4>2 DEF Marks
    <3> QED  BY <3>1, <3>2
  <2>2. CASE Exec(r) \/ Denied(r) \/ Unavailable(r) \/ Evaluate(r) \/ DeleteStop(r)
    <3>1. CASE Exec(r)
      <4>1. PICK a : req' = [req EXCEPT ![r].phase = "record", ![r].answer = a]
        BY <3>1, Zenon DEF Exec
      <4>2. req'[r].snap = req[r].snap
        BY <1>0, <4>1 DEF ReqType
      <4> QED  BY <4>2 DEF Marks
    <3>2. CASE Denied(r) \/ Unavailable(r) \/ Evaluate(r) \/ DeleteStop(r)
      <4>1. CASE Denied(r)
        BY <1>0, <4>1 DEF Denied, ReqType, Marks
      <4>2. CASE Unavailable(r)
        <5>1. PICK a : req' = [req EXCEPT ![r].phase = "record", ![r].fault = 0, ![r].answer = a]
          BY <4>2, Zenon DEF Unavailable
        <5>2. req'[r].snap = req[r].snap
          BY <1>0, <5>1 DEF ReqType
        <5> QED  BY <5>2 DEF Marks
      <4>3. CASE Evaluate(r) \/ DeleteStop(r)
        BY <1>0, <4>3 DEF Evaluate, DeleteStop, Goto, ReqType, Marks
      <4> QED  BY <3>2, <4>1, <4>2, <4>3
    <3> QED  BY <2>2, <3>1, <3>2
  <2>3. CASE RecordStep(r) \/ ReportSave(r) \/ EvaluateSave(r) \/ DeleteSave(r)
    <3>1. req'[r].snap = NewRecord
      BY <1>0, <2>3 DEF RecordStep, ReportSave, EvaluateSave, DeleteSave, Answer, Idle
    <3> QED  BY <3>1 DEF HasMark, NewRecord
  <2>4. CASE ReportLoad(r) \/ EvaluateLoad(r) \/ EvaluateFails(r) \/ EvaluateReload(r) \/ DeleteLoad(r)
    <3>1. req'[r].snap = rec
      BY <1>0, <2>4 DEF ReportLoad, EvaluateLoad, EvaluateFails, EvaluateReload, DeleteLoad,
           LoadInto, ReqType
    <3> QED  BY <3>1 DEF Marks
  <2> QED  BY <2>1, <2>2, <2>3, <2>4 DEF Handle
<1>5. HasMark(rec'.ledger) => Told
  <2>1. CASE RecordStep(r)
    <3> DEFINE row == RowOf(r)
               old == req[r].snap.ledger
    <3>1. rec'.ledger = Append(old, row) /\ row.interrupted = FALSE
      BY <1>0, <2>1 DEF RecordStep, Record, RowOf
    <3>2. old \in Seq(Row)
      BY <1>0
    <3> HIDE DEF row, old
    <3>3. HasMark(rec'.ledger) => HasMark(old)
      <4>1. DOMAIN rec'.ledger = 1 .. Len(old) + 1 /\ DOMAIN old = 1 .. Len(old) /\ Len(old) \in Nat
        BY <3>1, <3>2
      <4>2. \A i \in 1 .. Len(old) : rec'.ledger[i] = old[i]
        BY <3>1, <3>2
      <4>3. rec'.ledger[Len(old) + 1] = row
        BY <3>1, <3>2
      <4> QED  BY <3>1, <4>1, <4>2, <4>3 DEF HasMark
    <3> QED  BY <3>3 DEF Marks, old
  <2>2. CASE ReportSave(r)
    BY <1>3, <2>2 DEF ReportSave, At, Marks
  <2>3. CASE EvaluateSave(r) \/ DeleteSave(r)
    <3>1. rec'.ledger = req[r].snap.ledger
      BY <1>0, <2>3 DEF EvaluateSave, DeleteSave, Record
    <3> QED  BY <3>1 DEF Marks
  <2>4. UNCHANGED rec \/ RecordStep(r) \/ ReportSave(r) \/ EvaluateSave(r) \/ DeleteSave(r)
    BY DEF Handle, Begin, Exec, Denied, Unavailable, ReportLoad, EvaluateLoad, Evaluate, EvaluateFails,
       EvaluateReload, DeleteLoad, DeleteStop
  <2> QED  BY <2>1, <2>2, <2>3, <2>4 DEF Marks
<1>6. \A q \in Request : HasMark(req'[q].snap.ledger) => Told
  BY <1>2, <1>4 DEF Marks
<1>7. \A q \in Request : q.op = "report" /\ req'[q].phase # "idle" => Told
  BY <1>2, <1>3 DEF Marks, At
<1> QED  BY <1>1, <1>5, <1>6, <1>7 DEF Marks, HasMark

\* Sending keeps Marks, provided what it sends is no report, or an explained one.
LEMMA MarksBySend ==
  ASSUME Shape, Marks, Shape', [Next]_vars, NEW r \in Request, Send(r), UNCHANGED rec,
         r.op = "report" => Told', deferred' # << >> => Told'
  PROVE  Marks'
<1>0. DOMAIN req = Request /\ (Told => Told')
  BY ToldStays DEF Shape, LoopTypeOK, TypeOK
<1>1. req' = [req EXCEPT ![r] = [Idle EXCEPT !.phase = "sent"]]
  BY DEF Send
<1>2. ASSUME NEW q \in Request, HasMark(req'[q].snap.ledger) PROVE Told'
  <2>1. CASE q = r
    BY <1>0, <1>1, <1>2, <2>1 DEF Idle, NewRecord, HasMark
  <2>2. CASE q # r
    BY <1>0, <1>1, <1>2, <2>2 DEF Marks
  <2> QED  BY <2>1, <2>2
<1>3. ASSUME NEW q \in Request, q.op = "report", req'[q].phase # "idle" PROVE Told'
  BY <1>0, <1>1, <1>3 DEF Marks
<1> QED  BY <1>0, <1>2, <1>3 DEF Marks, HasMark

\* So does whatever leaves the episode alone and keeps no unexplained write.
LEMMA MarksStay ==
  ASSUME Shape, Marks, [Next]_vars, UNCHANGED <<rec, req>>, deferred' # << >> => Told'
  PROVE  Marks'
  BY ToldStays DEF Marks, HasMark

LEMMA MarksByWorker ==
  ASSUME Shape, Marks, Worker
  PROVE  Marks'
<1>0. [Next]_vars /\ Shape' /\ (Told => Told')
  BY NextShape, ToldStays DEF Next
<1>1. CASE Dispatch
  <2>1. Send(cur) /\ UNCHANGED <<rec, deferred>>
    BY <1>1 DEF Dispatch, gym
  <2>2. cur \in Request /\ cur.op # "report"
    BY <1>1 DEF Dispatch, Shape, LoopTypeOK, Serving, IsToolCall, Tools
  <2> QED  BY <1>0, <2>1, <2>2, MarksBySend DEF Marks
<1>2. CASE SendReport
  <2>1. deferred # << >> /\ Send(ReportOf(Head(deferred))) /\ UNCHANGED <<rec, deferred>>
    BY <1>2 DEF SendReport, gym
  <2>2. ReportOf(Head(deferred)) \in Request
    BY <2>1, NamedRequests DEF Shape, LoopTypeOK
  <2> QED  BY <1>0, <2>1, <2>2, MarksBySend DEF Marks
<1>3. CASE StartEvaluate
  <2>1. Send(EvaluateIt) /\ UNCHANGED <<rec, deferred>>
    BY <1>3 DEF StartEvaluate, gym
  <2>2. EvaluateIt \in Request /\ EvaluateIt.op # "report"
    BY NamedRequests DEF EvaluateIt
  <2> QED  BY <1>0, <2>1, <2>2, MarksBySend DEF Marks
<1>4. CASE StartDelete
  <2>1. Send(DeleteIt) /\ UNCHANGED <<rec, deferred>>
    BY <1>4 DEF StartDelete, gym
  <2>2. DeleteIt \in Request /\ DeleteIt.op # "report"
    BY NamedRequests DEF DeleteIt
  <2> QED  BY <1>0, <2>1, <2>2, MarksBySend DEF Marks
<1>5. CASE NoteDangling
  <2>1. cur' \in Request /\ EmitNow(Ev("interruption", cur', "unknown")) /\ UNCHANGED <<rec, deferred>>
    BY <1>5, DanglingCall DEF NoteDangling, gym
  <2>2. deferred' # << >> => Told'
    BY <1>0, <2>1 DEF Marks
  <2>3. CASE cur'.op = "write_file"
    <3>1. Told'
      BY <2>1, <2>3, ToldNow DEF Heard
    <3>2. Send(ReportOf(cur'.n))
      BY <1>5, <2>3 DEF NoteDangling
    <3>3. ReportOf(cur'.n) \in Request
      BY <2>1, <2>3, NamedRequests DEF Request, Tools
    <3> QED  BY <1>0, <2>1, <3>1, <3>2, <3>3, MarksBySend
  <2>4. CASE cur'.op # "write_file"
    <3>1. UNCHANGED req
      BY <1>5, <2>4 DEF NoteDangling
    <3> QED  BY <1>0, <2>1, <2>2, <3>1, MarksStay
  <2> QED  BY <2>3, <2>4
<1>6. CASE Note
  <2>1. EmitNow(Ev("interruption", cur, heard)) /\ UNCHANGED <<rec, req>>
    BY <1>6 DEF Note, episode
  <2>2. CASE cur.op = "write_file"
    <3>1. Told'
      BY <2>1, <2>2, ToldNow DEF Shape, LoopTypeOK
    <3> QED  BY <1>0, <2>1, <3>1, MarksStay
  <2>3. CASE cur.op # "write_file"
    <3>1. UNCHANGED deferred
      BY <1>6, <2>3 DEF Note
    <3> QED  BY <1>0, <2>1, <3>1, MarksStay DEF Marks
  <2> QED  BY <2>2, <2>3
<1>7. CASE Reported
  <2>1. UNCHANGED <<rec, req>> /\ deferred # << >>
    BY <1>7 DEF Reported, episode, Shape
  <2> QED  BY <1>0, <2>1, MarksStay DEF Marks
<1>8. CASE PlannedCrash
  BY <1>0, <1>8, MarksStay DEF PlannedCrash, Die, episode
<1>9. CASE (\E tool \in Tools : CallTool(tool)) \/ Arm \/ ConnectFails \/ Receive \/ LoseAnswer
           \/ Result \/ EndTurn \/ EndLoop \/ Resume \/ Probe \/ Resolve \/ Resumed
           \/ SkipEvaluate \/ Evaluated \/ EvaluateUnanswered \/ Deleted \/ Finish \/ Settle
  <2>1. UNCHANGED <<rec, req, deferred>>
    BY <1>9 DEF CallTool, Arm, ConnectFails, Receive, LoseAnswer, Result, EndTurn, EndLoop, Resume,
         Probe, Resolve, Resumed, SkipEvaluate, Evaluated, EvaluateUnanswered, Deleted, Finish,
         Settle, episode
  <2> QED  BY <1>0, <2>1, MarksStay DEF Marks
<1> QED
  BY <1>1, <1>2, <1>3, <1>4, <1>5, <1>6, <1>7, <1>8, <1>9 DEF Worker

LEMMA NextMarks ==
  ASSUME Shape, Marks, [Next]_vars
  PROVE  Marks'
<1>0. Shape' /\ (Told => Told') /\ DOMAIN req = Request
  BY NextShape, ToldStays DEF Shape, LoopTypeOK, TypeOK
<1>1. CASE Worker
  BY <1>1, MarksByWorker
<1>2. CASE Crash
  BY <1>0, <1>2, MarksStay DEF Crash, Die, episode
<1>3. ASSUME NEW r \in Request, Handle(r), UNCHANGED loop PROVE Marks'
  BY <1>3, MarksByGym
<1>4. ASSUME NEW r \in Request, NeverArrives(r) PROVE Marks'
  <2>1. UNCHANGED <<rec, deferred>> /\ req' = [req EXCEPT ![r] = Idle]
    BY <1>4 DEF NeverArrives, gym, loop
  <2>2. ASSUME NEW q \in Request, HasMark(req'[q].snap.ledger) PROVE Told'
    <3>1. CASE q = r
      BY <1>0, <2>1, <2>2, <3>1 DEF Idle, NewRecord, HasMark
    <3>2. CASE q # r
      BY <1>0, <2>1, <2>2, <3>2 DEF Marks
    <3> QED  BY <3>1, <3>2
  <2>3. ASSUME NEW q \in Request, q.op = "report", req'[q].phase # "idle" PROVE Told'
    BY <1>0, <2>1, <2>3 DEF Marks, Idle
  <2> QED  BY <1>0, <2>1, <2>2, <2>3 DEF Marks, HasMark
<1>5. CASE BoxDies \/ UNCHANGED vars
  <2>1. UNCHANGED <<rec, req, deferred>>
    BY <1>5 DEF BoxDies, vars, episode, loop
  <2> QED  BY <1>0, <2>1, MarksStay DEF Marks
<1>6. CASE Expire
  <2>1. Send(ExpireIt) /\ UNCHANGED <<rec, deferred>>
    BY <1>6 DEF Expire, gym, loop
  <2>2. ExpireIt \in Request /\ ExpireIt.op # "report"
    BY NamedRequests DEF ExpireIt
  <2> QED  BY <1>0, <2>1, <2>2, MarksBySend DEF Marks
<1> QED
  BY <1>1, <1>2, <1>3, <1>4, <1>5, <1>6 DEF Next, Gym, Over

\* No ledger carries a mark that an interruption event in the Store does not
\* explain, whichever worker dies between its event and its report.
THEOREM MarksAreExplained == Spec => []MarkIsExplained
<1>1. Init => Marks
  BY DEF Init, EpisodeInit, Marks, HasMark, NewRecord, Idle
<1>2. Shape /\ Marks /\ [Next]_vars => Marks'
  BY NextMarks
<1> QED  BY <1>1, <1>2, AlwaysShape, MarksExplain, PTL DEF Spec

-----------------------------------------------------------------------------
(* Every call of the log is answered *)

IsCall(i) == events[i].type = "tool.call"
IsResult(i) == events[i].type = "tool.result"

\* Where a call of the log may be without its result ...
MayDangle == {"arm", "mark", "dispatch", "wait", "result"}
\* ... and where the model is asked, or goes on to be.
Complete == {"turn", "more", "note"}

Answered ==
  \* numbers are used up in order, and a number gets one result
  /\ \A i \in DOMAIN events : IsCall(i) \/ IsResult(i) => events[i].n <= issued
  /\ \A i, j \in DOMAIN events : IsResult(i) /\ IsResult(j) /\ events[i].n = events[j].n => i = j
  \* the call at hand has none yet
  /\ pc \in MayDangle \cup {"resolve"} =>
       cur.n <= issued /\ \A i \in DOMAIN events : IsResult(i) => events[i].n # cur.n
  \* every other call has one
  /\ pc \in Complete \cup MayDangle =>
       \A i \in DOMAIN events : IsCall(i) =>
         \/ \E j \in DOMAIN events : IsResult(j) /\ events[j].n = events[i].n
         \/ pc \in MayDangle /\ events[i].n = cur.n

LEMMA AnsweredIsEnough ==
  ASSUME Shape, Answered
  PROVE  EveryCallAnswered
<1> SUFFICES ASSUME pc = "turn", NEW i \in CallsIn(events)
             PROVE  Cardinality(ResultsOf(events, events[i].n)) = 1
  BY DEF EveryCallAnswered
<1>1. PICK j \in DOMAIN events : IsResult(j) /\ events[j].n = events[i].n
  BY DEF Answered, CallsIn, IsCall, Complete, MayDangle
<1>2. ResultsOf(events, events[i].n) = {j}
  BY <1>1 DEF Answered, ResultsOf, IsResult
<1> QED  BY <1>2, FS_Singleton

LEMMA Numbers ==
  ASSUME Shape, NEW i \in DOMAIN events
  PROVE  events[i].n \in Nat
<1>1. events[i] \in Event
  BY ElementOfSeq DEF Shape, LoopTypeOK
<1>2. events[i].n \in Calls \cup {0}
  BY <1>1 DEF Event
<1>3. \A x \in Calls \cup {0} : x \in Nat
  BY CallsAssumption
<1> QED  BY <1>2, <1>3

\* A step that adds no tool call and no result to the log.
SameCalls ==
  /\ \A i \in DOMAIN events : i \in DOMAIN events' /\ events'[i] = events[i]
  /\ \A i \in DOMAIN events' :
       events'[i].type \in {"tool.call", "tool.result"} => i \in DOMAIN events

LEMMA OtherEvent ==
  ASSUME Shape, NEW e, Said(e), e.type \notin {"tool.call", "tool.result"}
  PROVE  SameCalls
<1>1. /\ DOMAIN events' = 1 .. Len(events) + 1
      /\ \A i \in 1 .. Len(events) : events'[i] = events[i]
      /\ events'[Len(events) + 1] = e
  BY Emitted DEF Said, Shape
<1>2. DOMAIN events = 1 .. Len(events) /\ Len(events) \in Nat
  BY DEF Shape, LoopTypeOK
<1> QED  BY <1>1, <1>2 DEF SameCalls

\* What is asked of the place a step arrives at.
Arrives ==
  /\ pc' \in MayDangle \cup {"resolve"} =>
       cur'.n <= issued /\ \A i \in DOMAIN events : IsResult(i) => events[i].n # cur'.n
  /\ pc' \in Complete \cup MayDangle =>
       \A i \in DOMAIN events : IsCall(i) =>
         \/ \E j \in DOMAIN events : IsResult(j) /\ events[j].n = events[i].n
         \/ pc' \in MayDangle /\ events[i].n = cur'.n

LEMMA AnsweredStays ==
  ASSUME Answered, SameCalls, UNCHANGED issued, Arrives
  PROVE  Answered'
<1>1. ASSUME NEW i \in DOMAIN events', IsCall(i)' \/ IsResult(i)'
      PROVE  /\ i \in DOMAIN events /\ events'[i] = events[i]
             /\ IsCall(i)' = IsCall(i) /\ IsResult(i)' = IsResult(i)
  BY <1>1 DEF SameCalls, IsCall, IsResult
<1>2. ASSUME NEW i \in DOMAIN events
      PROVE  /\ i \in DOMAIN events' /\ events'[i] = events[i]
             /\ IsCall(i)' = IsCall(i) /\ IsResult(i)' = IsResult(i)
  BY <1>2 DEF SameCalls, IsCall, IsResult
<1>3. \A i \in DOMAIN events' : IsCall(i)' \/ IsResult(i)' => events'[i].n <= issued'
  BY <1>1 DEF Answered
<1>4. \A i, j \in DOMAIN events' : IsResult(i)' /\ IsResult(j)' /\ events'[i].n = events'[j].n => i = j
  BY <1>1 DEF Answered
<1>5. pc' \in MayDangle \cup {"resolve"} =>
        cur'.n <= issued' /\ \A i \in DOMAIN events' : IsResult(i)' => events'[i].n # cur'.n
  BY <1>1 DEF Arrives
<1>6. pc' \in Complete \cup MayDangle =>
        \A i \in DOMAIN events' : IsCall(i)' =>
          \/ \E j \in DOMAIN events' : IsResult(j)' /\ events'[j].n = events'[i].n
          \/ pc' \in MayDangle /\ events'[i].n = cur'.n
  BY <1>1, <1>2 DEF Arrives
<1> QED  BY <1>3, <1>4, <1>5, <1>6 DEF Answered

\* The loop's moves between those places.
LEMMA SilentArrives ==
  ASSUME Shape, Answered, Silent
  PROVE  Arrives /\ UNCHANGED issued
<1>1. CASE Resumed
  <2>1. ASSUME NEW i \in DOMAIN events, IsCall(i)
        PROVE  \E j \in DOMAIN events : IsResult(j) /\ events[j].n = events[i].n
    BY <1>1, <2>1 DEF Resumed, Dangling, CallsIn, ResultsOf, IsCall, IsResult
  <2> QED  BY <1>1, <2>1 DEF Resumed, Arrives, MayDangle, keep, quiet
<1>2. CASE Arm \/ Dispatch \/ ConnectFails \/ Receive \/ LoseAnswer
  <2>1. pc \in MayDangle /\ pc' \in MayDangle /\ UNCHANGED <<cur, issued>>
    BY <1>2 DEF Arm, Dispatch, ConnectFails, Receive, LoseAnswer, MayDangle, quiet
  <2> QED  BY <2>1 DEF Answered, Arrives
<1>3. CASE EndTurn
  BY <1>3 DEF EndTurn, Answered, Arrives, Complete, MayDangle, quiet
<1>4. CASE EndLoop \/ SendReport \/ Reported \/ StartEvaluate \/ SkipEvaluate \/ EvaluateUnanswered
           \/ StartDelete \/ Deleted \/ Settle
  <2>1. pc' \notin MayDangle \cup Complete \cup {"resolve"} /\ UNCHANGED issued
    BY <1>4 DEF EndLoop, SendReport, Reported, StartEvaluate, SkipEvaluate, EvaluateUnanswered,
         StartDelete, Deleted, Settle, Complete, MayDangle, keep, quiet
  <2> QED  BY <2>1 DEF Arrives
<1> QED  BY <1>1, <1>2, <1>3, <1>4 DEF Silent

LEMMA TalkingArrives ==
  ASSUME Shape, Answered, Talking, pc \notin {"result", "resolve"},
         ~ \E tool \in Tools : CallTool(tool)
  PROVE  Arrives /\ UNCHANGED issued
<1>1. CASE NoteDangling
  <2> DEFINE k == Min(Dangling(events))
  <2>1. k \in Dangling(events) /\ cur' = [op |-> events[k].op, n |-> events[k].n]
    BY <1>1, DanglingCall
  <2>2. pc' = "resolve" /\ UNCHANGED issued
    BY <1>1 DEF NoteDangling, quiet
  <2> HIDE DEF k
  <2>3. k \in DOMAIN events /\ IsCall(k) /\ cur'.n = events[k].n
        /\ \A i \in DOMAIN events : IsResult(i) => events[i].n # events[k].n
    BY <2>1 DEF Dangling, CallsIn, ResultsOf, IsCall, IsResult
  <2> QED  BY <2>2, <2>3 DEF Answered, Arrives, Complete, MayDangle
<1>2. CASE Note
  BY <1>2 DEF Note, Answered, Arrives, Complete, MayDangle, quiet
<1>3. CASE Evaluated \/ Finish \/ Resume \/ Probe
  <2>1. pc' \notin MayDangle \cup Complete \cup {"resolve"} /\ UNCHANGED issued
    BY <1>3 DEF Evaluated, Finish, Resume, Probe, Complete, MayDangle, keep, quiet
  <2> QED  BY <2>1 DEF Arrives
<1> QED  BY <1>1, <1>2, <1>3 DEF Talking, Result, Resolve

LEMMA AnsweredByCall ==
  ASSUME Shape, Answered, NEW tool \in Tools, CallTool(tool)
  PROVE  Answered'
<1> DEFINE e == Ev("tool.call", cur', "none")
<1>1. Shape'
  BY NextShape DEF Next, Worker
<1>2. /\ issued' = issued + 1 /\ cur'.n = issued + 1 /\ Emit(e) /\ pc \in {"turn", "more"}
      /\ pc' \in MayDangle
  BY DEF CallTool, MayDangle
<1>3. e \in Event /\ e.type = "tool.call" /\ e.n = issued + 1
  BY <1>1, <1>2, EvType DEF Shape, LoopTypeOK, EventTypes, Heard, Answers, Ev
<1> HIDE DEF e
<1>4. /\ DOMAIN events' = 1 .. Len(events) + 1
      /\ \A i \in 1 .. Len(events) : events'[i] = events[i]
      /\ events'[Len(events) + 1] = e
  BY <1>2, <1>3, Emitted DEF Shape
<1>5. DOMAIN events = 1 .. Len(events) /\ Len(events) \in Nat /\ issued \in Nat
  BY CallsAssumption DEF Shape, LoopTypeOK
<1>6. ASSUME NEW i \in DOMAIN events', i # Len(events) + 1
      PROVE  i \in DOMAIN events /\ events'[i] = events[i]
             /\ IsCall(i)' = IsCall(i) /\ IsResult(i)' = IsResult(i)
  BY <1>4, <1>5, <1>6 DEF IsCall, IsResult
<1>7. \A i \in DOMAIN events : i \in DOMAIN events' /\ events'[i] = events[i]
        /\ IsCall(i)' = IsCall(i) /\ IsResult(i)' = IsResult(i)
  BY <1>4, <1>5 DEF IsCall, IsResult
<1>8. \A i \in DOMAIN events' :
        i = Len(events) + 1 => ~IsResult(i)' /\ events'[i].n = issued + 1
  BY <1>3, <1>4 DEF IsResult
<1>9. ASSUME NEW i \in DOMAIN events', IsCall(i)' \/ IsResult(i)'
      PROVE  events'[i].n <= issued'
  <2>1. CASE i = Len(events) + 1
    BY <1>2, <1>5, <1>8, <2>1
  <2>2. CASE i # Len(events) + 1
    <3>1. i \in DOMAIN events /\ events'[i] = events[i] /\ (IsCall(i) \/ IsResult(i))
      BY <1>6, <1>9, <2>2
    <3>2. events[i].n <= issued /\ events[i].n \in Nat
      BY <3>1, Numbers DEF Answered
    <3> QED  BY <1>2, <1>5, <3>1, <3>2
  <2> QED  BY <2>1, <2>2
<1>10. ASSUME NEW i \in DOMAIN events', IsResult(i)'
       PROVE  i \in DOMAIN events /\ IsResult(i) /\ events'[i] = events[i] /\ events[i].n # issued + 1
  <2>1. i # Len(events) + 1
    BY <1>8, <1>10
  <2>2. i \in DOMAIN events /\ events'[i] = events[i] /\ IsResult(i)
    BY <1>6, <1>10, <2>1
  <2>3. events[i].n <= issued /\ events[i].n \in Nat
    BY <2>2, Numbers DEF Answered
  <2> QED  BY <1>5, <2>2, <2>3
<1>11. \A i, j \in DOMAIN events' : IsResult(i)' /\ IsResult(j)' /\ events'[i].n = events'[j].n => i = j
  BY <1>10 DEF Answered
<1>12. cur'.n <= issued' /\ \A i \in DOMAIN events' : IsResult(i)' => events'[i].n # cur'.n
  BY <1>2, <1>5, <1>10
<1>13. ASSUME NEW i \in DOMAIN events', IsCall(i)'
       PROVE  \/ \E j \in DOMAIN events' : IsResult(j)' /\ events'[j].n = events'[i].n
              \/ pc' \in MayDangle /\ events'[i].n = cur'.n
  <2>1. CASE i = Len(events) + 1
    BY <1>2, <1>8, <2>1
  <2>2. CASE i # Len(events) + 1
    <3>1. PICK j \in DOMAIN events : IsResult(j) /\ events[j].n = events[i].n
      BY <1>2, <1>6, <1>13, <2>2 DEF Answered, Complete, MayDangle
    <3> QED  BY <1>6, <1>7, <2>2, <3>1
  <2> QED  BY <2>1, <2>2
<1> QED  BY <1>9, <1>11, <1>12, <1>13 DEF Answered

LEMMA AnsweredByResult ==
  ASSUME Shape, Answered, Result \/ Resolve
  PROVE  Answered'
<1>1. PICK what \in Heard : Emit(Ev("tool.result", cur, what))
  BY DEF Result, Resolve, Shape, LoopTypeOK, Heard
<1> DEFINE e == Ev("tool.result", cur, what)
<1>2. e \in Event /\ Emit(e) /\ e.type = "tool.result" /\ e.n = cur.n
  BY <1>1, EvType DEF Shape, LoopTypeOK, EventTypes, Ev
<1> HIDE DEF e
<1>3. /\ UNCHANGED <<cur, issued>> /\ pc' \in {"note", "more", "dangling"}
      /\ pc \in {"result", "resolve"} /\ (pc = "resolve" => pc' = "dangling")
  BY DEF Result, Resolve, keep, quiet
<1>4. /\ DOMAIN events' = 1 .. Len(events) + 1
      /\ \A i \in 1 .. Len(events) : events'[i] = events[i]
      /\ events'[Len(events) + 1] = e
  BY <1>2, Emitted DEF Shape
<1>5. DOMAIN events = 1 .. Len(events) /\ Len(events) \in Nat
  BY DEF Shape, LoopTypeOK
<1>6. ASSUME NEW i \in DOMAIN events', i # Len(events) + 1
      PROVE  i \in DOMAIN events /\ events'[i] = events[i]
             /\ IsCall(i)' = IsCall(i) /\ IsResult(i)' = IsResult(i)
  BY <1>4, <1>5, <1>6 DEF IsCall, IsResult
<1>7. \A i \in DOMAIN events : i \in DOMAIN events' /\ events'[i] = events[i]
        /\ IsCall(i)' = IsCall(i) /\ IsResult(i)' = IsResult(i)
  BY <1>4, <1>5 DEF IsCall, IsResult
<1>8. \A i \in DOMAIN events' :
        i = Len(events) + 1 => ~IsCall(i)' /\ IsResult(i)' /\ events'[i].n = cur.n
  BY <1>2, <1>4 DEF IsCall, IsResult
<1>9. cur.n <= issued /\ \A i \in DOMAIN events : IsResult(i) => events[i].n # cur.n
  BY <1>3 DEF Answered, MayDangle
<1>10. ASSUME NEW i \in DOMAIN events', IsCall(i)' \/ IsResult(i)'
       PROVE  events'[i].n <= issued'
  BY <1>3, <1>6, <1>8, <1>9, <1>10 DEF Answered
<1>11. \A i, j \in DOMAIN events' : IsResult(i)' /\ IsResult(j)' /\ events'[i].n = events'[j].n => i = j
  BY <1>6, <1>8, <1>9 DEF Answered
<1>12. ASSUME pc' \in Complete \cup MayDangle, NEW i \in DOMAIN events', IsCall(i)'
       PROVE  \E j \in DOMAIN events' : IsResult(j)' /\ events'[j].n = events'[i].n
  <2>1. i \in DOMAIN events /\ IsCall(i) /\ events'[i] = events[i]
    BY <1>6, <1>8, <1>12
  <2>2. pc \in MayDangle
    BY <1>3, <1>12 DEF Complete, MayDangle
  <2>3. CASE events[i].n = cur.n
    <3>1. Len(events) + 1 \in DOMAIN events'
      BY <1>4, <1>5
    <3> QED  BY <1>8, <2>1, <2>3, <3>1
  <2>4. CASE events[i].n # cur.n
    <3>1. PICK j \in DOMAIN events : IsResult(j) /\ events[j].n = events[i].n
      BY <2>1, <2>2, <2>4 DEF Answered
    <3> QED  BY <1>7, <2>1, <3>1
  <2> QED  BY <2>3, <2>4
<1>13. pc' \notin MayDangle \cup {"resolve"}
  BY <1>3 DEF MayDangle
<1> QED  BY <1>10, <1>11, <1>12, <1>13 DEF Answered

LEMMA AnsweredByDeath ==
  ASSUME Shape, Answered, Die
  PROVE  Answered'
<1>1. /\ DOMAIN events' = 1 .. stored /\ 1 .. stored \subseteq DOMAIN events
      /\ \A i \in 1 .. stored : events'[i] = events[i]
  BY Forgotten DEF Shape
<1>2. pc' = "down" /\ UNCHANGED issued
  BY DEF Die
<1>3. \A i \in DOMAIN events' : i \in DOMAIN events /\ events'[i] = events[i]
        /\ IsCall(i)' = IsCall(i) /\ IsResult(i)' = IsResult(i)
  BY <1>1 DEF IsCall, IsResult
<1> QED  BY <1>2, <1>3 DEF Answered, Complete, MayDangle

LEMMA NextAnswered ==
  ASSUME Shape, Answered, [Next]_vars
  PROVE  Answered'
<1>0. UNCHANGED events => SameCalls
  BY DEF SameCalls
<1>1. CASE PlannedCrash \/ Crash
  BY <1>1, AnsweredByDeath DEF PlannedCrash, Crash
<1>2. CASE Silent
  BY <1>0, <1>2, SilentLog, SilentArrives, AnsweredStays
<1>3. CASE Talking
  <2>1. CASE \E tool \in Tools : CallTool(tool)
    BY <2>1, AnsweredByCall
  <2>2. CASE Result \/ Resolve
    BY <2>2, AnsweredByResult
  <2>3. CASE ~(\E tool \in Tools : CallTool(tool)) /\ ~Result /\ ~Resolve
    <3>1. pc \notin {"result", "resolve"}
      BY <1>3, <2>3 DEF Talking, Note, Evaluated, Finish, Resume, Probe, NoteDangling
    <3>2. Arrives /\ UNCHANGED issued
      BY <1>3, <2>3, <3>1, TalkingArrives
    <3>3. SameCalls
      <4>1. ASSUME NEW e, Said(e) PROVE e.type \notin {"tool.call", "tool.result"}
        BY <2>3, <3>1, <4>1 DEF Said
      <4> QED  BY <1>0, <1>3, <4>1, TalkingLog, OtherEvent
    <3> QED  BY <3>2, <3>3, AnsweredStays
  <2> QED  BY <2>1, <2>2, <2>3
<1>4. CASE UNCHANGED loop
  BY <1>4 DEF loop, Answered, IsCall, IsResult
<1> QED
  BY <1>1, <1>2, <1>3, <1>4, WorkerSplits, OtherSteps

\* The conversation the model is asked with is complete, on a resume too:
\* every tool call of the log has exactly one result.
THEOREM CallsAreAnswered == Spec => []EveryCallAnswered
<1>1. Init => Answered
  BY DEF Init, Answered, MayDangle
<1>2. Shape /\ Answered /\ [Next]_vars => Answered'
  BY NextAnswered
<1> QED  BY <1>1, <1>2, AlwaysShape, AnsweredIsEnough, PTL DEF Spec

-----------------------------------------------------------------------------
(* Without a death, an interrupted run has no score *)

Ending == {"delete", "deleting", "finish", "settle", "done"}
NoScore == \A i \in DOMAIN events : events[i].type # "episode.evaluated"

\* The score comes late, when the status can no longer become interrupted.
Unscored ==
  /\ pc \notin {"down", "probe", "dangling", "resolve"}
  /\ pc \notin Ending \/ status = "interrupted" => NoScore
  /\ pc = "evaluating" => status # "interrupted"
  /\ \A i \in DOMAIN events :
       events[i].type = "run.finished" => pc \in {"settle", "done"} /\ events[i].what = status

LEMMA UnscoredIsEnough == Unscored => InterruptedHasNoScore
  BY DEF Unscored, InterruptedHasNoScore, Has, NoScore

LEMMA UnscoredSilent ==
  ASSUME Shape, Unscored, Silent
  PROVE  Unscored'
<1>1. UNCHANGED events
  BY SilentLog
<1>2. NoScore' = NoScore
  BY <1>1 DEF NoScore
<1>3. CASE StartDelete \/ Deleted \/ Settle
  BY <1>1, <1>2, <1>3 DEF StartDelete, Deleted, Settle, Unscored, Ending
<1>4. CASE EndTurn \/ EndLoop \/ SendReport \/ Reported \/ StartEvaluate \/ SkipEvaluate
           \/ EvaluateUnanswered
  BY <1>1, <1>2, <1>4 DEF EndTurn, EndLoop, SendReport, Reported, StartEvaluate, SkipEvaluate,
       EvaluateUnanswered, Ungraded, Unscored, Ending
<1>5. CASE Arm \/ Dispatch \/ ConnectFails \/ Receive \/ LoseAnswer
  BY <1>1, <1>2, <1>5 DEF Arm, Dispatch, ConnectFails, Receive, LoseAnswer, Unscored, Ending
<1>6. ~Resumed
  BY DEF Resumed, Unscored
<1> QED  BY <1>3, <1>4, <1>5, <1>6 DEF Silent

\* The places and the status of a talking step.
LEMMA UnscoredMoves ==
  ASSUME Unscored, Talking
  PROVE  /\ pc' \notin {"down", "probe", "dangling", "resolve", "evaluating"}
         /\ ~Evaluated => pc' \notin Ending \/ pc' = "settle"
         /\ Evaluated => pc = "evaluating" /\ pc' = "delete" /\ (req[EvaluateIt].answer = "ok" => UNCHANGED status)
                         /\ status' # "interrupted"
         /\ pc' = "settle" => pc = "finish" /\ Finish /\ UNCHANGED status
         /\ pc \notin {"settle", "done"}
         /\ pc \in Ending => pc' = "settle"
<1>1. ~Resume /\ ~Probe /\ ~NoteDangling /\ ~Resolve
  BY DEF Unscored, Resume, Probe, NoteDangling, Resolve
<1>2. CASE (\E tool \in Tools : CallTool(tool)) \/ Result \/ Note
  BY <1>2 DEF CallTool, Result, Note, Ending, Evaluated
<1>3. CASE Evaluated
  BY <1>3 DEF Evaluated, Ungraded, Unscored, Ending
<1>4. CASE Finish
  BY <1>4 DEF Finish, Ending, Evaluated
<1> QED  BY <1>1, <1>2, <1>3, <1>4 DEF Talking

LEMMA UnscoredTalking ==
  ASSUME Shape, Unscored, Talking
  PROVE  Unscored'
<1>1. CASE UNCHANGED events
  BY <1>1, UnscoredMoves DEF Unscored, NoScore, Ending
<1>2. ASSUME NEW e, Said(e) PROVE Unscored'
  <2>1. /\ DOMAIN events' = 1 .. Len(events) + 1
        /\ \A i \in 1 .. Len(events) : events'[i] = events[i]
        /\ events'[Len(events) + 1] = e
    BY <1>2, Emitted DEF Said, Shape
  <2>2. DOMAIN events = 1 .. Len(events) /\ Len(events) \in Nat
    BY DEF Shape, LoopTypeOK
  <2>3. \A i \in DOMAIN events' : (i \in DOMAIN events /\ events'[i] = events[i]) \/ events'[i] = e
    BY <2>1, <2>2
  <2>4. e.type = "episode.evaluated" => Evaluated
    BY <1>2 DEF Said
  <2>5. e.type = "run.finished" => pc' = "settle" /\ e.what = status /\ UNCHANGED status
    BY <1>2 DEF Said, Finish
  <2>6. \A i \in DOMAIN events : events[i].type # "run.finished"
    BY UnscoredMoves DEF Unscored
  <2>7. ASSUME pc' \notin Ending \/ status' = "interrupted" PROVE NoScore'
    <3>1. ~Evaluated
      BY <2>7, UnscoredMoves DEF Ending
    <3>2. NoScore
      BY <2>7, <3>1, UnscoredMoves DEF Unscored, Ending
    <3> QED  BY <2>3, <2>4, <3>1, <3>2 DEF NoScore
  <2>8. \A i \in DOMAIN events' :
          events'[i].type = "run.finished" => pc' \in {"settle", "done"} /\ events'[i].what = status'
    BY <2>3, <2>5, <2>6
  <2> QED  BY <2>7, <2>8, UnscoredMoves DEF Unscored
<1> QED  BY <1>1, <1>2, TalkingLog

\* A run whose worker cannot die has no score when it was interrupted.
THEOREM InterruptedUnscored ==
  ASSUME MaxDeaths = 0, Trigger # "worker_crash"
  PROVE  Spec => []InterruptedHasNoScore
<1>1. Init => Unscored
  BY DEF Init, Unscored, NoScore, Ending
<1>2. Shape /\ Unscored /\ [Next]_vars => Unscored'
  <2> SUFFICES ASSUME Shape, Unscored, [Next]_vars PROVE Unscored'
    OBVIOUS
  <2>1. ~PlannedCrash /\ ~Crash
    BY DEF PlannedCrash, Crash, Shape, LoopTypeOK
  <2>2. CASE UNCHANGED loop
    BY <2>2 DEF loop, Unscored, NoScore
  <2> QED  BY <2>1, <2>2, WorkerSplits, OtherSteps, UnscoredSilent, UnscoredTalking
<1> QED  BY <1>1, <1>2, AlwaysShape, UnscoredIsEnough, PTL DEF Spec

-----------------------------------------------------------------------------
(* Without a death, a tool call meets no other request than abandoned calls *)

Deathless == deaths = 0 /\ Trigger # "worker_crash"

\* The places of the finally block, and those of them where no tool call is
\* waited for to end any more.
Fin == {"reports", "reporting", "evaluating"} \cup Ending
Quiet == Fin \ {"reports", "delete"}
Resuming == {"down", "probe", "dangling", "resolve"}

\* A worker that lives waits for a call that is not beside another one with
\* nothing else in flight, and sends its reports, evaluate and delete after the
\* last tool call.  If sandbox-env is done with the abandoned calls by then, a
\* tool call meets no other request at all unless some call ran beside it.
Alone ==
  /\ pc \notin Resuming
  /\ \A r \in Request : InFlight(r) /\ ~IsToolCall(r) => pc \in Fin
  /\ pc = "wait" /\ cur.n \notin beside => \A r \in Request : InFlight(r) => r = cur
  /\ Patient /\ beside = {} =>
       \A r, q \in Request : IsToolCall(r) /\ InFlight(r) /\ InFlight(q) => q = r
  /\ Patient /\ pc \in Quiet => \A r \in Request : IsToolCall(r) => ~InFlight(r)

\* A step of a living worker, one of sandbox-env, and the others.
Lives == Worker /\ ~PlannedCrash

LEMMA DeathlessSteps ==
  ASSUME Shape, Deathless', [Next]_vars
  PROVE  /\ Deathless /\ ~PlannedCrash /\ ~Crash
         /\ \/ Lives
            \/ UNCHANGED loop /\ \E r \in Request : Handle(r)
            \/ UNCHANGED loop /\ \E r \in Request : NeverArrives(r)
            \/ UNCHANGED loop /\ BoxDies
            \/ UNCHANGED loop /\ Expire
            \/ UNCHANGED vars
<1>1. ~Crash
  BY DEF Crash, Deathless, Shape, LoopTypeOK
<1>2. ~PlannedCrash
  BY DEF PlannedCrash, Deathless
<1>3. UNCHANGED deaths
  <2>1. CASE Worker
    <3>1. CASE (\E tool \in Tools : CallTool(tool)) \/ Arm \/ Dispatch
      BY <3>1 DEF CallTool, Arm, Dispatch, quiet
    <3>2. CASE Rest
      BY <1>2, <3>2 DEF Rest, ConnectFails, Receive, LoseAnswer, Result, Note, EndTurn, EndLoop,
        SendReport, Reported, StartEvaluate, SkipEvaluate, Evaluated, EvaluateUnanswered, StartDelete,
        Deleted, Finish, Settle, Resume, Probe, NoteDangling, Resolve, Resumed, keep, quiet
    <3> QED  BY <2>1, <3>1, <3>2, WorkerRest
  <2>2. CASE ~Worker
    BY <1>1, <2>2, OtherSteps DEF loop
  <2> QED  BY <2>1, <2>2
<1>4. Worker \/ (UNCHANGED loop /\ ~Worker)
  BY <1>1, OtherSteps
<1> QED
  BY <1>1, <1>2, <1>3, <1>4 DEF Next, Gym, Over, Deathless, Lives

\* What a living worker sends, and from where.
Sending(r) ==
  /\ Send(r)
  /\ IsToolCall(r) => Dispatch /\ r = cur
  /\ ~IsToolCall(r) => MaySend /\ UNCHANGED beside
  /\ ~IsToolCall(r) =>
       \/ pc = "reports" /\ pc' = "reporting" /\ r = ReportOf(Head(deferred))
       \/ pc = "reports" /\ pc' = "evaluating" /\ r = EvaluateIt
       \/ pc = "delete" /\ pc' = "deleting" /\ r = DeleteIt

LEMMA LivingSends ==
  ASSUME Shape, Lives, pc \notin Resuming
  PROVE  /\ UNCHANGED gym
         /\ UNCHANGED req \/ \E r \in Request : Sending(r)
         /\ pc' \notin Resuming
         /\ pc \in Fin => pc' \in Fin
         /\ pc' \in Quiet /\ UNCHANGED req => pc \in Quiet
         /\ beside \subseteq beside' /\ (UNCHANGED req => pc' # "wait")
<1>1. CASE Dispatch
  <2>1. cur \in Request /\ IsToolCall(cur)
    BY <1>1 DEF Dispatch, Shape, LoopTypeOK, Serving
  <2>2. Sending(cur)
    BY <1>1, <2>1 DEF Dispatch, Sending
  <2>3. req' # req
    BY <1>1, <2>1 DEF Dispatch, Send, InFlight, Shape, LoopTypeOK, TypeOK, Idle
  <2> QED  BY <1>1, <2>1, <2>2, <2>3 DEF Dispatch, Fin, Ending, Quiet, Resuming
<1>2. CASE SendReport
  <2>1. ReportOf(Head(deferred)) \in Request /\ ~IsToolCall(ReportOf(Head(deferred)))
    BY <1>2, NamedRequests DEF SendReport, Shape, LoopTypeOK, IsToolCall, Tools, ReportOf
  <2>2. Sending(ReportOf(Head(deferred)))
    BY <1>2, <2>1 DEF SendReport, Sending, keep, quiet
  <2>3. req' # req
    BY <1>2, <2>1 DEF SendReport, Send, InFlight, Shape, LoopTypeOK, TypeOK, Idle
  <2> QED  BY <1>2, <2>1, <2>2, <2>3 DEF SendReport, Fin, Ending, Quiet, Resuming, keep, quiet
<1>3. CASE StartEvaluate \/ StartDelete
  <2>0. PICK r \in {EvaluateIt, DeleteIt} :
          /\ Send(r) /\ MaySend /\ UNCHANGED beside
          /\ \/ pc = "reports" /\ pc' = "evaluating" /\ r = EvaluateIt
             \/ pc = "delete" /\ pc' = "deleting" /\ r = DeleteIt
    BY <1>3 DEF StartEvaluate, StartDelete, keep, quiet
  <2>1. r \in Request /\ ~IsToolCall(r)
    BY NamedRequests DEF IsToolCall, Tools, EvaluateIt, DeleteIt
  <2>2. Sending(r)
    BY <2>0, <2>1 DEF Sending
  <2>3. req' # req
    BY <2>0, <2>1 DEF Send, InFlight, Shape, LoopTypeOK, TypeOK, Idle
  <2> QED  BY <1>3, <2>0, <2>1, <2>2, <2>3 DEF StartEvaluate, StartDelete, Fin, Ending, Quiet, Resuming
<1>4. CASE (\E tool \in Tools : CallTool(tool)) \/ Arm \/ ConnectFails \/ Receive \/ LoseAnswer
           \/ Result \/ EndTurn \/ Note \/ EndLoop
  BY <1>4 DEF CallTool, Arm, ConnectFails, Receive, LoseAnswer, Result, EndTurn, Note, EndLoop,
     Fin, Ending, Quiet, Resuming, episode, gym, quiet
<1>5. CASE SkipEvaluate \/ Evaluated \/ EvaluateUnanswered \/ Deleted \/ Finish \/ Settle \/ Reported
  BY <1>5 DEF SkipEvaluate, Evaluated, EvaluateUnanswered, Deleted, Finish, Settle, Reported,
     Fin, Ending, Quiet, Resuming, episode, gym, keep, quiet
<1>6. ~PlannedCrash /\ ~Resume /\ ~Probe /\ ~NoteDangling /\ ~Resolve /\ ~Resumed
  BY DEF Lives, Resuming, Resume, Probe, NoteDangling, Resolve, Resumed
<1> QED  BY <1>1, <1>2, <1>3, <1>4, <1>5, <1>6 DEF Lives, Worker

LEMMA SentOnly ==
  ASSUME Shape, NEW r \in Request, Send(r)
  PROVE  /\ ~InFlight(r) /\ req'[r] = [Idle EXCEPT !.phase = "sent"]
         /\ \A q \in Request : q # r => req'[q] = req[q]
  BY DEF Shape, LoopTypeOK, TypeOK, Send

\* Handlers only end requests.
LEMMA HandledWasInFlight ==
  ASSUME Shape, NEW r \in Request, Handle(r)
  PROVE  InFlight(r) /\ \A q \in Request : InFlight(q)' => InFlight(q)
<1>1. InFlight(r)
  BY DEF Handle, Begin, Exec, Denied, Unavailable, RecordStep, ReportLoad,
     ReportSave, EvaluateLoad, Evaluate, EvaluateFails, EvaluateReload, EvaluateSave, DeleteLoad,
     DeleteStop, DeleteSave, At, InFlight
<1> QED  BY <1>1, OwnRequest DEF InFlight

\* The steps that are neither the worker's nor a handler's.
Aside ==
  /\ UNCHANGED <<rec, grades, loop>>
  /\ \A q \in Request :
       \/ req'[q] = req[q] \/ (At(q, "sent") /\ req'[q] = Idle)
       \/ q = ExpireIt /\ pc = "done" /\ req'[q].phase = "sent"

LEMMA LivingSteps ==
  ASSUME Shape, Alone, Deathless', [Next]_vars
  PROVE  Lives \/ (UNCHANGED loop /\ \E r \in Request : Handle(r)) \/ Aside
<1>0. DOMAIN req = Request
  BY DEF Shape, LoopTypeOK, TypeOK
<1>1. ASSUME UNCHANGED loop, NEW r \in Request, NeverArrives(r) PROVE Aside
  BY <1>0, <1>1 DEF NeverArrives, gym, Aside
<1>2. CASE UNCHANGED loop /\ Expire
  <2>1. pc = "done"
    BY <1>2 DEF Expire, Alone, Resuming
  <2> QED  BY <1>2, <2>1, SentOnly, NamedRequests DEF Expire, gym, Aside, Idle
<1>3. CASE UNCHANGED loop /\ BoxDies
  BY <1>3 DEF BoxDies, Aside
<1>4. CASE UNCHANGED vars
  BY <1>4 DEF vars, episode, Aside
<1> QED  BY <1>1, <1>2, <1>3, <1>4, DeathlessSteps

LEMMA AloneStays ==
  ASSUME Alone, UNCHANGED <<pc, cur, beside>>, \A q \in Request : InFlight(q)' => InFlight(q)
  PROVE  Alone'
  BY DEF Alone

LEMMA AloneByWorker ==
  ASSUME Shape, Alone, Lives
  PROVE  Alone'
<1>0. /\ pc' \notin Resuming
      /\ pc \in Fin => pc' \in Fin
      /\ UNCHANGED req \/ \E r \in Request : Sending(r)
      /\ pc' \in Quiet /\ UNCHANGED req => pc \in Quiet
      /\ beside \subseteq beside' /\ (UNCHANGED req => pc' # "wait")
  BY LivingSends DEF Alone
<1>1. CASE UNCHANGED req
  BY <1>0, <1>1 DEF Alone, InFlight
<1>2. ASSUME NEW r \in Request, Sending(r) PROVE Alone'
  <2>1. /\ ~InFlight(r) /\ InFlight(r)'
        /\ \A q \in Request : q # r => InFlight(q)' = InFlight(q)
    BY <1>2, SentOnly DEF Sending, InFlight, Idle
  <2>2. CASE IsToolCall(r)
    <3>1. /\ r = cur /\ cur' = cur /\ pc = "dispatch" /\ pc' = "wait"
          /\ pc \notin Fin /\ pc' \notin Quiet
          /\ (\E q \in Request : IsToolCall(q) /\ InFlight(q)) => cur.n \in beside'
      BY <1>2, <2>2 DEF Sending, Dispatch, Fin, Ending, Quiet
    <3>2. cur.n \notin beside' => \A q \in Request : InFlight(q)' => q = r
      BY <2>1, <3>1 DEF Alone
    <3>3. \A q \in Request : InFlight(q)' => IsToolCall(q)
      BY <2>1, <2>2, <3>1 DEF Alone
    <3> QED  BY <1>0, <2>2, <3>1, <3>2, <3>3 DEF Alone
  <2>3. CASE ~IsToolCall(r)
    <3>1. pc' \in Fin /\ pc' # "wait"
      BY <1>2, <2>3 DEF Sending, Fin, Ending
    <3>2. Patient => \A q \in Request : IsToolCall(q) => ~InFlight(q)'
      BY <1>2, <2>1, <2>3 DEF Sending, MaySend
    <3> QED  BY <1>0, <3>1, <3>2 DEF Alone
  <2> QED  BY <2>2, <2>3
<1> QED  BY <1>0, <1>1, <1>2

LEMMA NextAlone ==
  ASSUME Shape, Deathless => Alone, [Next]_vars
  PROVE  Deathless' => Alone'
<1> SUFFICES ASSUME Deathless' PROVE Alone'
  OBVIOUS
<1>0. Alone
  BY DeathlessSteps
<1>1. CASE Lives
  BY <1>0, <1>1, AloneByWorker
<1>2. ASSUME UNCHANGED loop, NEW r \in Request, Handle(r) PROVE Alone'
  BY <1>0, <1>2, HandledWasInFlight, AloneStays DEF loop
<1>3. CASE Aside
  <2>1. UNCHANGED <<pc, cur, beside>> /\ \A q \in Request : q # ExpireIt \/ pc # "done" => (InFlight(q)' => InFlight(q))
    BY <1>3 DEF Aside, loop, InFlight, Idle
  <2>2. CASE pc # "done"
    BY <1>0, <2>1, <2>2, AloneStays
  <2>3. CASE pc = "done"
    <3>1. ~IsToolCall(ExpireIt)
      BY DEF IsToolCall, Tools, ExpireIt
    <3> QED  BY <1>0, <2>1, <2>3, <3>1 DEF Alone, Fin, Ending, Quiet
  <2> QED  BY <2>2, <2>3
<1> QED  BY <1>0, <1>1, <1>2, <1>3, LivingSteps

LEMMA InitAlone ==
  ASSUME Init
  PROVE  Alone
<1>1. \A r \in Request : ~InFlight(r)
  BY DEF Init, EpisodeInit, Idle, InFlight
<1> QED  BY <1>1 DEF Init, Alone, Resuming, Quiet, Fin, Ending

-----------------------------------------------------------------------------
(* What sandbox-env has served is in the record *)

\* A request works on its copy of the record.
Loaded(r) == req[r].phase \notin {"idle", "sent", "answered"}
Copy(r) == req[r].snap.ledger

\* The requests that end an episode.
Ends == {"evaluate", "delete", "expire"}

\* What a handler does to the ledger: it refuses the call, loads the record,
\* works on its copy, puts a row behind it, or puts it back.
Refuses(r) == UNCHANGED rec /\ ~Loaded(r)' /\ req'[r].answer = "gone" /\ IsToolCall(r)
Loads(r) == UNCHANGED rec /\ Loaded(r)' /\ Copy(r)' = rec.ledger
Works(r) == UNCHANGED rec /\ Loaded(r) /\ Loaded(r)' /\ UNCHANGED Copy(r)
Records(r) ==
  /\ RecordStep(r) /\ Loaded(r) /\ ~Loaded(r)' /\ req'[r].answer = req[r].answer
  /\ rec'.ledger = Append(Copy(r), RowOf(r)) /\ RowOf(r) \in Row /\ r.n \in Calls
Saves(r) ==
  /\ Loaded(r) /\ ~Loaded(r)' /\ ~IsToolCall(r)
  /\ \/ r.op \in Ends /\ rec'.ledger = Copy(r)
     \/ ReportSave(r) /\ rec'.ledger = Marked(req[r].snap).ledger

LEMMA StopTypes ==
  ASSUME Shape, NEW r \in Request, DeleteStop(r) \/ DeleteSave(r)
  PROVE  req[r].phase \in {"stop", "dispose"}
  BY DEF DeleteStop, DeleteSave, At

\* Only requests that end an episode ever stop it.
Stopping == \A r \in Request : req[r].phase \in {"stop", "dispose"} => r.op \in Ends

LEMMA Ledgers ==
  ASSUME Shape, Stopping, NEW r \in Request, Handle(r)
  PROVE  Refuses(r) \/ Loads(r) \/ Works(r) \/ Records(r) \/ Saves(r)
<1>0. DOMAIN req = Request /\ req[r] \in ReqType /\ rec.ledger \in Seq(Row)
      /\ req[r].snap \in Record /\ req[r].snap.ledger \in Seq(Row) /\ rec \in Record
  BY DEF Shape, LoopTypeOK, TypeOK, ReqType, Record
<1>1. CASE Begin(r)
  <2>1. CASE rec.terminated
    BY <1>0, <1>1, <2>1, ZenonT(60) DEF Begin, Answer, Idle, Refuses, Loaded
  <2>2. CASE ~rec.terminated
    <3> DEFINE i == Decide(rec.hits, r.op)
               bitten == i # 0 /\ Plan[i].kind # "ack_lost"
    <3>1. req' = [req EXCEPT ![r] =
             [phase |-> IF bitten THEN "record" ELSE "exec", snap |-> [rec EXCEPT !.step = @ + 1],
              fault |-> i, answer |-> IF bitten THEN "short_circuit" ELSE "none"]]
      BY <1>1, <2>2, Zenon DEF Begin
    <3> HIDE DEF i, bitten
    <3>2. req'[r].snap.ledger = rec.ledger /\ req'[r].phase \in {"record", "exec"}
      BY <1>0, <3>1 DEF Record
    <3>3. UNCHANGED rec
      BY <1>1 DEF Begin
    <3> QED  BY <3>2, <3>3 DEF Loads, Loaded, Copy
  <2> QED  BY <2>1, <2>2
<1>2. CASE Exec(r)
  <2>1. PICK a : req' = [req EXCEPT ![r].phase = "record", ![r].answer = a]
    BY <1>2, Zenon DEF Exec
  <2>2. req'[r].snap = req[r].snap /\ req'[r].phase = "record" /\ req[r].phase = "exec"
    BY <1>0, <1>2, <2>1 DEF ReqType, Exec, At
  <2> QED  BY <1>2, <2>2 DEF Works, Loaded, Copy, Exec
<1>3. CASE Denied(r) \/ Unavailable(r)
  <2>1. PICK a : req' = [req EXCEPT ![r].phase = "record", ![r].fault = 0, ![r].answer = a]
    BY <1>3, Zenon DEF Denied, Unavailable
  <2>2. req'[r].snap = req[r].snap /\ req'[r].phase = "record" /\ req[r].phase = "exec"
    BY <1>0, <1>3, <2>1 DEF ReqType, Denied, Unavailable, At
  <2> QED  BY <1>3, <2>2 DEF Works, Loaded, Copy, Denied, Unavailable
<1>4. CASE Evaluate(r) \/ DeleteStop(r)
  <2>1. PICK p \in {"reload", "dispose"} : Goto(r, p) /\ req[r].phase \in {"test", "stop"} /\ UNCHANGED rec
    BY <1>4 DEF Evaluate, DeleteStop, At
  <2>2. req'[r].snap = req[r].snap /\ req'[r].phase = p
    BY <1>0, <2>1 DEF ReqType, Goto
  <2> QED  BY <2>1, <2>2 DEF Works, Loaded, Copy
<1>5. CASE ReportLoad(r) \/ EvaluateLoad(r) \/ EvaluateFails(r) \/ EvaluateReload(r) \/ DeleteLoad(r)
  <2>1. PICK p \in {"mark", "test", "dispose", "stop", "score"} : LoadInto(r, rec, p) /\ UNCHANGED rec
    BY <1>5 DEF ReportLoad, EvaluateLoad, EvaluateFails, EvaluateReload, DeleteLoad
  <2>2. req'[r].snap = rec /\ req'[r].phase = p
    BY <1>0, <2>1 DEF ReqType, LoadInto
  <2> QED  BY <2>1, <2>2 DEF Loads, Loaded, Copy
<1>6. CASE RecordStep(r)
  <2>1. req'[r].phase = "answered" /\ req'[r].answer = req[r].answer /\ req[r].phase = "record"
    BY <1>0, <1>6 DEF RecordStep, Answer, Idle, At
  <2>2. rec'.ledger = Append(req[r].snap.ledger, RowOf(r))
    BY <1>0, <1>6 DEF RecordStep, Record
  <2>3. RowOf(r) \in Row /\ r.n \in Calls
    <3>1. r.n \in Calls /\ r.op \in Tools
      BY <1>6 DEF RecordStep, IsToolCall, Request, Tools
    <3>2. req[r].snap.step \in Nat /\ req[r].fault \in 0 .. Len(Plan)
      BY <1>0 DEF Record, ReqType
    <3>3. req[r].answer \in Outcomes \cup {"gone"}
      BY <1>0, <1>6 DEF RecordStep, Shape, Recordable, ReqType, Answers
    <3> QED  BY <3>1, <3>2, <3>3 DEF RowOf, Row, Outcomes
  <2> QED  BY <1>6, <2>1, <2>2, <2>3 DEF Records, Loaded, Copy
<1>7. CASE ReportSave(r) \/ EvaluateSave(r) \/ DeleteSave(r)
  <2>1. req'[r].phase = "answered" /\ req[r].phase \in {"mark", "score", "dispose"}
    BY <1>0, <1>7, ZenonT(60) DEF ReportSave, EvaluateSave, DeleteSave, Answer, Idle, At
  <2>2. ~IsToolCall(r)
    BY <1>7, StopTypes DEF ReportSave, EvaluateSave, IsToolCall, Tools, Stopping, Ends
  <2>3. CASE ReportSave(r)
    BY <2>1, <2>2, <2>3 DEF Saves, Loaded, ReportSave
  <2>4. CASE EvaluateSave(r) \/ DeleteSave(r)
    <3>1. rec'.ledger = req[r].snap.ledger
      BY <1>0, <2>4 DEF EvaluateSave, DeleteSave, Record
    <3>2. r.op \in Ends
      BY <2>4, StopTypes DEF EvaluateSave, Stopping, Ends
    <3> QED  BY <2>1, <2>2, <3>1, <3>2 DEF Saves, Loaded, Copy
  <2> QED  BY <1>7, <2>3, <2>4
<1> QED  BY <1>1, <1>2, <1>3, <1>4, <1>5, <1>6, <1>7 DEF Handle

LEMMA WorkerSends ==
  ASSUME Shape, Worker
  PROVE  UNCHANGED <<rec, alive, file>> /\ (UNCHANGED req \/ \E r \in Request : Send(r))
<1>1. CASE Dispatch \/ SendReport \/ StartEvaluate \/ StartDelete
  <2>1. pc = "reports" /\ deferred # << >> => ReportOf(Head(deferred)) \in Request
    BY NamedRequests DEF Shape, LoopTypeOK
  <2> QED
    BY <1>1, <2>1, NamedRequests
    DEF Dispatch, SendReport, StartEvaluate, StartDelete, gym, Shape, LoopTypeOK
<1>2. CASE NoteDangling
  <2>1. cur' \in Request /\ cur' = [op |-> cur'.op, n |-> cur'.n]
        /\ ((Send(ReportOf(cur'.n)) /\ cur'.op = "write_file") \/ UNCHANGED req)
    BY <1>2, DanglingCall DEF NoteDangling
  <2>2. cur'.op = "write_file" => ReportOf(cur'.n) \in Request
    BY <2>1, NamedRequests DEF Request, Tools
  <2> QED  BY <1>2, <2>1, <2>2 DEF NoteDangling, gym
<1>3. CASE PlannedCrash \/ \E tool \in Tools : CallTool(tool)
  BY <1>3 DEF PlannedCrash, Die, CallTool, episode
<1>4. CASE Arm \/ ConnectFails \/ Receive \/ LoseAnswer \/ Result \/ Note \/ EndTurn \/ EndLoop
           \/ Resume \/ Probe \/ Resolve \/ Resumed
  BY <1>4 DEF Arm, ConnectFails, Receive, LoseAnswer, Result, Note, EndTurn, EndLoop, Resume, Probe,
       Resolve, Resumed, episode
<1>5. CASE Reported \/ SkipEvaluate \/ Evaluated \/ EvaluateUnanswered \/ Deleted \/ Finish \/ Settle
  BY <1>5 DEF Reported, SkipEvaluate, Evaluated, EvaluateUnanswered, Deleted, Finish, Settle, episode
<1> QED  BY <1>1, <1>2, <1>3, <1>4, <1>5 DEF Worker

LEMMA NextStopping ==
  ASSUME Shape, Stopping, [Next]_vars
  PROVE  Stopping'
<1>0. DOMAIN req = Request
  BY DEF Shape, LoopTypeOK, TypeOK
<1>1. ASSUME NEW r \in Request, Handle(r) PROVE Stopping'
  <2>1. ASSUME req'[r].phase \in {"stop", "dispose"} PROVE r.op \in Ends
    <3>1. CASE EvaluateFails(r) \/ DeleteLoad(r)
      BY <3>1 DEF EvaluateFails, DeleteLoad, Ends
    <3>2. CASE DeleteStop(r) \/ DeleteSave(r)
      BY <3>2, StopTypes DEF Stopping
    <3>3. CASE EvaluateLoad(r) \/ EvaluateReload(r) \/ Evaluate(r) \/ EvaluateSave(r)
      BY <3>3 DEF EvaluateLoad, EvaluateReload, Evaluate, EvaluateSave, Ends
    <3>5. CASE ReportLoad(r) \/ ReportSave(r)
      <4>1. LoadInto(r, rec, "mark") \/ Answer(r, "ok")
        BY <3>5 DEF ReportLoad, ReportSave
      <4>2. req'[r].phase \in {"mark", "answered"}
        <5>1. CASE LoadInto(r, rec, "mark")
          <6>1. req[r] \in ReqType
            BY DEF Shape, LoopTypeOK, TypeOK, ReqType
          <6> QED  BY <1>0, <5>1, <6>1 DEF LoadInto, ReqType
        <5>2. CASE Answer(r, "ok")
          BY <1>0, <5>2 DEF Answer, Idle
        <5> QED  BY <4>1, <5>1, <5>2
      <4> QED  BY <2>1, <4>2
    <3>4. CASE Begin(r) \/ Exec(r) \/ Denied(r) \/ Unavailable(r) \/ RecordStep(r)
      <4>1. req[r] \in ReqType
        BY <1>0 DEF Shape, LoopTypeOK, TypeOK, ReqType
      <4>2. PICK p \in {"answered", "record", "exec"} : req'[r].phase = p
        <5>1. CASE Begin(r) /\ rec.terminated
          BY <1>0, <5>1 DEF Begin, Answer, Idle
        <5>2. CASE Begin(r) /\ ~rec.terminated
          <6> DEFINE i == Decide(rec.hits, r.op)
                     bitten == i # 0 /\ Plan[i].kind # "ack_lost"
          <6>1. req' = [req EXCEPT ![r] =
                   [phase |-> IF bitten THEN "record" ELSE "exec", snap |-> [rec EXCEPT !.step = @ + 1],
                    fault |-> i, answer |-> IF bitten THEN "short_circuit" ELSE "none"]]
            BY <5>2, Zenon DEF Begin
          <6> HIDE DEF i, bitten
          <6> QED  BY <1>0, <6>1
        <5>3. CASE Exec(r)
          <6>1. PICK a : req' = [req EXCEPT ![r].phase = "record", ![r].answer = a]
            BY <5>3, Zenon DEF Exec
          <6> QED  BY <1>0, <4>1, <6>1 DEF ReqType
        <5>4. CASE Denied(r) \/ Unavailable(r)
          <6>1. PICK a : req' = [req EXCEPT ![r].phase = "record", ![r].fault = 0, ![r].answer = a]
            BY <5>4, Zenon DEF Denied, Unavailable
          <6> QED  BY <1>0, <4>1, <6>1 DEF ReqType
        <5>5. CASE RecordStep(r)
          BY <1>0, <5>5 DEF RecordStep, Answer, Idle
        <5> QED  BY <3>4, <5>1, <5>2, <5>3, <5>4, <5>5
      <4> QED  BY <2>1, <4>2
    <3> QED  BY <1>1, <3>1, <3>2, <3>3, <3>4, <3>5 DEF Handle
  <2> QED  BY <1>1, <2>1, OwnRequest DEF Stopping
<1>2. ASSUME \A q \in Request : req'[q] = req[q] \/ req'[q].phase \in {"idle", "sent"} PROVE Stopping'
  BY <1>2 DEF Stopping
<1>3. ASSUME UNCHANGED req \/ \E r \in Request : Send(r) PROVE Stopping'
  <2>1. ASSUME NEW r \in Request, Send(r) PROVE Stopping'
    <3>1. \A q \in Request : req'[q] = req[q] \/ req'[q].phase \in {"idle", "sent"}
      BY <2>1, SentOnly DEF Idle
    <3> QED  BY <1>2, <3>1
  <2> QED  BY <1>2, <1>3, <2>1
<1>4. CASE Worker
  BY <1>3, <1>4, WorkerSends
<1>5. ASSUME NEW r \in Request, NeverArrives(r) PROVE Stopping'
  BY <1>0, <1>2, <1>5 DEF NeverArrives, Idle
<1>6. CASE Expire
  BY <1>3, <1>6, NamedRequests DEF Expire
<1>7. CASE Crash \/ BoxDies \/ UNCHANGED vars
  BY <1>3, <1>7 DEF Crash, Die, BoxDies, vars, episode
<1> QED  BY <1>1, <1>4, <1>5, <1>6, <1>7 DEF Next, Gym, Over

\* The rows of a ledger that stand for a tool call.
Recorded(ledger) == {ledger[i].n : i \in DOMAIN ledger} \ {0}

LEMMA RecordedByRow ==
  ASSUME NEW ledger \in Seq(Row), NEW row \in Row
  PROVE  Recorded(Append(ledger, row)) = Recorded(ledger) \cup ({row.n} \ {0})
<1> DEFINE longer == Append(ledger, row)
<1>1. /\ DOMAIN longer = 1 .. Len(ledger) + 1 /\ DOMAIN ledger = 1 .. Len(ledger) /\ Len(ledger) \in Nat
      /\ \A i \in 1 .. Len(ledger) : longer[i] = ledger[i]
      /\ longer[Len(ledger) + 1] = row
  BY AppendProperties
<1> HIDE DEF longer
<1>2. DOMAIN longer = DOMAIN ledger \cup {Len(ledger) + 1}
  BY <1>1
<1>3. {longer[i].n : i \in DOMAIN longer} = {ledger[i].n : i \in DOMAIN ledger} \cup {row.n}
  BY <1>1, <1>2
<1> QED  BY <1>3 DEF Recorded, longer

LEMMA RecordedByMark ==
  ASSUME NEW ep \in Record
  PROVE  Recorded(Marked(ep).ledger) = Recorded(ep.ledger)
<1>0. ep.ledger \in Seq(Row) /\ ep.step \in Nat
  BY DEF Record
<1>1. CASE Candidates(ep.ledger) # {}
  <2> DEFINE k == Max(Candidates(ep.ledger))
  <2>1. Marked(ep).ledger = [ep.ledger EXCEPT ![k].interrupted = TRUE]
    BY <1>0, <1>1 DEF Marked, Record
  <2> HIDE DEF k
  <2>2. DOMAIN Marked(ep).ledger = DOMAIN ep.ledger
    BY <1>0, <2>1
  <2>3. \A i \in DOMAIN ep.ledger : Marked(ep).ledger[i].n = ep.ledger[i].n
    <3>1. \A i \in DOMAIN ep.ledger : ep.ledger[i] \in Row
      BY <1>0, ElementOfSeq
    <3> QED  BY <1>0, <2>1, <3>1 DEF Row
  <2> QED  BY <2>2, <2>3 DEF Recorded
<1>2. CASE Candidates(ep.ledger) = {}
  <2> DEFINE row == [n |-> 0, tool |-> "write_file", step |-> ep.step, outcome |-> "error",
                     fault |-> 0, interrupted |-> TRUE]
  <2>1. row \in Row /\ row.n = 0
    BY <1>0, PlanAssumption DEF Row, Tools, Outcomes
  <2>2. Marked(ep).ledger = Append(ep.ledger, row)
    BY <1>0, <1>2 DEF Marked, Record
  <2> HIDE DEF row
  <2>3. Recorded(Marked(ep).ledger) = Recorded(ep.ledger) \cup ({row.n} \ {0})
    BY <1>0, <2>1, <2>2, RecordedByRow
  <2>4. {row.n} \ {0} = {}
    BY <2>1
  <2> QED  BY <2>3, <2>4
<1> QED  BY <1>1, <1>2

Served == {"ok", "error", "short_circuit", "ack_lost"}

\* A call whose row cannot be taken back: served, heard of, or about to be, and
\* not sent beside an abandoned one.
Sure(n) ==
  /\ n \notin beside
  /\ \/ pc = "wait" /\ cur.n = n /\ At(cur, "answered") /\ req[cur].answer \in Served
     \/ pc = "result" /\ cur.n = n /\ heard \in Served
     \/ \E i \in DOMAIN events :
          IsResult(i) /\ events[i].n = n /\ events[i].what \in Served

\* The record has its row, and so has every copy that may be put back.
Kept ==
  \A n \in Calls : Sure(n) =>
    /\ n \in Recorded(rec.ledger)
    /\ \A r \in Request : Loaded(r) => n \in Recorded(Copy(r))

LEMMA KeptIsEnough ==
  ASSUME Shape, Kept
  PROVE  ServedIsRecorded
<1> SUFFICES ASSUME NEW i \in CallsIn(events), events[i].n \notin beside,
                    Outcome(events[i].n) \cap {"ok", "error", "short_circuit", "ack_lost"} # {}
             PROVE  \E j \in DOMAIN rec.ledger : rec.ledger[j].n = events[i].n
  BY DEF ServedIsRecorded
<1>1. PICK j \in DOMAIN events : IsResult(j) /\ events[j].n = events[i].n /\ events[j].what \in Served
  BY DEF Outcome, ResultsOf, IsResult, Served
<1>2. events[i].n \in Calls
  BY DEF CallsIn, Shape, LogShape, CallShape, Request, Tools
<1>3. events[i].n \in Recorded(rec.ledger)
  BY <1>1, <1>2 DEF Kept, Sure
<1> QED  BY <1>3 DEF Recorded

\* What a handler may do to the calls in the record and in the copies.
LEMMA KeptByGym ==
  ASSUME Shape, Alone, Stopping, Kept, UNCHANGED loop, NEW r \in Request, Handle(r)
  PROVE  Kept'
<1>0. /\ \A q \in Request : q # r => req'[q] = req[q] /\ Loaded(q)' = Loaded(q) /\ UNCHANGED Copy(q)
      /\ UNCHANGED <<pc, heard, cur, events, beside>> /\ cur \in Request
  BY OwnRequest DEF loop, Loaded, Copy, Shape, LoopTypeOK
<1>1. rec \in Record /\ req[r].snap \in Record /\ Copy(r) \in Seq(Row)
  BY DEF Shape, LoopTypeOK, TypeOK, Record, Copy
<1> SUFFICES ASSUME NEW n \in Calls, Sure(n)'
             PROVE  /\ n \in Recorded(rec'.ledger)
                    /\ \A q \in Request : Loaded(q)' => n \in Recorded(Copy(q)')
  BY DEF Kept
\* the handler that answers the call the worker waits for
<1>2. CASE ~Sure(n)
  <2>1. r = cur /\ r.n = n /\ pc = "wait" /\ At(r, "answered")' /\ req'[r].answer \in Served
    BY <1>0, <1>2 DEF Sure, IsResult, At
  <2>2. n \notin beside
    BY <1>0 DEF Sure
  <2>3. \A q \in Request : InFlight(q) => q = r
    BY <2>1, <2>2 DEF Alone
  <2>4. IsToolCall(r)
    BY <2>1 DEF Shape, Serving
  <2>5. \A q \in Request : ~Loaded(q)'
    BY <1>0, <2>1, <2>3 DEF Loaded, InFlight, At
  <2>6. Records(r)
    BY <2>1, <2>4, <2>5, Ledgers DEF Refuses, Loads, Works, Saves, Served
  <2>7. Recorded(rec'.ledger) = Recorded(Copy(r)) \cup ({r.n} \ {0})
    BY <1>1, <2>6, RecordedByRow DEF Records, RowOf
  <2>8. n \in Recorded(rec'.ledger)
    BY <2>1, <2>7, CallsAssumption
  <2> QED  BY <2>5, <2>8
\* any other handler: what it loads or puts back has the row
<1>3. CASE Sure(n)
  <2>0. n \in Recorded(rec.ledger) /\ \A q \in Request : Loaded(q) => n \in Recorded(Copy(q))
    BY <1>3 DEF Kept
  <2>1. CASE Refuses(r) \/ Loads(r) \/ Works(r)
    BY <1>0, <2>0, <2>1 DEF Refuses, Loads, Works
  <2>2. CASE Records(r)
    <3>1. Recorded(rec'.ledger) = Recorded(Copy(r)) \cup ({r.n} \ {0})
      BY <1>1, <2>2, RecordedByRow DEF Records, RowOf
    <3> QED  BY <1>0, <2>0, <2>2, <3>1 DEF Records
  <2>3. CASE Saves(r)
    <3>1. Recorded(rec'.ledger) = Recorded(Copy(r))
      BY <1>1, <2>3, RecordedByMark DEF Saves, Copy
    <3> QED  BY <1>0, <2>0, <2>3, <3>1 DEF Saves
  <2> QED  BY <2>1, <2>2, <2>3, Ledgers
<1> QED  BY <1>2, <1>3

\* Other steps leave the record alone; requests are sent or vanish.
LEMMA KeptStays ==
  ASSUME Kept, UNCHANGED rec,
         \A q \in Request : req'[q] = req[q] \/ req'[q].phase \in {"idle", "sent"},
         \A n \in Calls : Sure(n)' => Sure(n)
  PROVE  Kept'
<1>1. \A q \in Request : Loaded(q)' => req'[q] = req[q]
  BY DEF Loaded
<1>2. \A q \in Request : Loaded(q)' => Loaded(q) /\ Copy(q)' = Copy(q)
  BY <1>1 DEF Loaded, Copy
<1> QED  BY <1>2 DEF Kept

LEMMA KeptByWorker ==
  ASSUME Shape, Alone, Kept, Lives
  PROVE  Kept'
<1>0. /\ UNCHANGED rec /\ beside \subseteq beside' /\ cur \in Request
      /\ UNCHANGED req \/ \E r \in Request : Sending(r)
      /\ UNCHANGED req => pc' # "wait"
  BY LivingSends DEF Alone, gym, Shape, LoopTypeOK
<1>1. \A q \in Request : req'[q] = req[q] \/ req'[q].phase \in {"idle", "sent"}
  BY <1>0, SentOnly DEF Sending, Idle
<1>2. ASSUME NEW n \in Calls, Sure(n)' PROVE Sure(n)
  <2>0. n \notin beside
    BY <1>0, <1>2 DEF Sure
  <2>1. ~(pc' = "wait" /\ At(cur, "answered")')
    <3>1. ASSUME NEW r \in Request, Sending(r), pc' = "wait" PROVE ~At(cur, "answered")'
      <4>1. IsToolCall(r)
        BY <3>1 DEF Sending
      <4>2. r = cur /\ cur' = cur
        BY <3>1, <4>1 DEF Sending, Dispatch
      <4> QED  BY <3>1, <4>2, SentOnly DEF Sending, At, Idle
    <3> QED  BY <1>0, <3>1
  <2>2. CASE pc' = "result" /\ cur'.n = n /\ heard' \in Served
    <3>1. CASE Receive
      BY <2>0, <2>2, <3>1 DEF Receive, Sure
    <3>2. CASE ~Receive
      BY <2>2, <3>2 DEF Lives, Worker, Served, CallTool, Arm, Dispatch, ConnectFails, LoseAnswer,
         Result, Note, EndTurn, EndLoop, SendReport, Reported, StartEvaluate, SkipEvaluate, Evaluated,
         EvaluateUnanswered, StartDelete, Deleted, Finish, Settle, Resume, Probe, NoteDangling,
         Resolve, Resumed
    <3> QED  BY <3>1, <3>2
  <2>3. ASSUME NEW i \in DOMAIN events', IsResult(i)', events'[i].n = n, events'[i].what \in Served
        PROVE  Sure(n)
    <3>1. CASE UNCHANGED events
      BY <2>0, <2>3, <3>1 DEF Sure, IsResult
    <3>2. ASSUME NEW e, Said(e) PROVE Sure(n)
      <4>1. /\ DOMAIN events' = 1 .. Len(events) + 1 /\ DOMAIN events = 1 .. Len(events) /\ Len(events) \in Nat
            /\ \A j \in 1 .. Len(events) : events'[j] = events[j]
            /\ events'[Len(events) + 1] = e
        BY <3>2, Emitted DEF Said, Shape, LoopTypeOK
      <4>2. CASE i \in DOMAIN events
        BY <2>0, <2>3, <4>1, <4>2 DEF Sure, IsResult
      <4>3. CASE i = Len(events) + 1
        <5>1. e.type = "tool.result" /\ e.n = cur.n /\ pc \in {"result", "resolve"}
          BY <2>3, <3>2, <4>1, <4>3 DEF Said, IsResult
        <5>2. Result
          BY <5>1 DEF Lives, Worker, Alone, Resuming, CallTool, Arm, Dispatch, ConnectFails, Receive, LoseAnswer,
             Note, EndTurn, EndLoop, SendReport, Reported, StartEvaluate, SkipEvaluate, Evaluated,
             EvaluateUnanswered, StartDelete, Deleted, Finish, Settle, Resume, Probe, NoteDangling, Resolve, Resumed
        <5>3. e = Ev("tool.result", cur, heard)
          <6>1. Emit(Ev("tool.result", cur, heard)) /\ Ev("tool.result", cur, heard) \in Event
            BY <5>2, EvType DEF Result, Shape, LoopTypeOK, EventTypes
          <6> QED  BY <4>1, <6>1, Emitted DEF Shape
        <5>4. heard \in Served /\ cur.n = n /\ pc = "result"
          BY <2>3, <4>1, <4>3, <5>1, <5>2, <5>3 DEF Ev, Result
        <5> QED  BY <2>0, <5>4 DEF Sure
      <4> QED  BY <4>1, <4>2, <4>3
    <3>3. Silent \/ Talking
      BY WorkerSplits DEF Lives
    <3> QED  BY <3>1, <3>2, <3>3, SilentLog, TalkingLog
  <2> QED  BY <1>2, <2>1, <2>2, <2>3 DEF Sure
<1> QED  BY <1>0, <1>1, <1>2, KeptStays

LEMMA NextKept ==
  ASSUME Shape, Stopping, Deathless => Alone /\ Kept, [Next]_vars
  PROVE  Deathless' => Kept'
<1> SUFFICES ASSUME Deathless' PROVE Kept'
  OBVIOUS
<1>0. Alone /\ Kept
  BY DeathlessSteps
<1>1. CASE Lives
  BY <1>0, <1>1, KeptByWorker
<1>2. ASSUME UNCHANGED loop, NEW r \in Request, Handle(r) PROVE Kept'
  BY <1>0, <1>2, KeptByGym
<1>3. CASE Aside
  <2>1. /\ UNCHANGED <<rec, pc, heard, cur, events, beside>> /\ cur \in Request
        /\ \A q \in Request : req'[q] = req[q] \/ req'[q].phase \in {"idle", "sent"}
    BY <1>3 DEF Aside, loop, Idle, Shape, LoopTypeOK
  <2>2. ASSUME NEW n \in Calls, Sure(n)' PROVE Sure(n)
    <3>1. At(cur, "answered")' => req'[cur] = req[cur]
      BY <2>1 DEF At
    <3> QED  BY <2>1, <2>2, <3>1 DEF Sure, IsResult, At
  <2> QED  BY <1>0, <2>1, <2>2, KeptStays
<1> QED  BY <1>0, <1>1, <1>2, <1>3, LivingSteps

LEMMA InitKept ==
  ASSUME Init
  PROVE  Kept /\ Stopping
  BY DEF Init, EpisodeInit, Kept, Sure, Stopping, Loaded, At, Idle

\* The foundation of what follows.
Founded == Shape /\ Stopping /\ (Deathless => Alone)

LEMMA AlwaysFounded == Spec => []Founded
<1>1. Init => Founded
  BY InitShape, InitAlone, InitKept DEF Founded
<1>2. Founded /\ [Next]_vars => Founded'
  BY NextShape, NextStopping, NextAlone DEF Founded
<1> QED  BY <1>1, <1>2, PTL DEF Spec

\* A call that was served, heard of and not sent beside an abandoned one keeps
\* its row, for any number of lost answers, calls given up and calls that then
\* run beside them, however late sandbox-env serves those, if no worker dies.
THEOREM ServedCallsAreRecorded ==
  ASSUME MaxDeaths = 0, Trigger # "worker_crash"
  PROVE  Spec => []ServedIsRecorded
<1>1. Init => (Deathless => Kept)
  BY InitKept
<1>2. Founded /\ (Deathless => Kept) /\ [Next]_vars => (Deathless => Kept)'
  BY NextKept DEF Founded
<1>3. Founded /\ (Deathless => Kept) => ServedIsRecorded
  BY KeptIsEnough DEF Founded, Deathless, Shape, LoopTypeOK
<1> QED  BY <1>1, <1>2, <1>3, AlwaysFounded, PTL DEF Spec

-----------------------------------------------------------------------------
(* Without a death, every row and every result has its call in the log *)

Called(op, n) == \E i \in DOMAIN events : IsCall(i) /\ events[i].op = op /\ events[i].n = n
Landed(row) == row.outcome \in {"ok", "ack_lost"}
Honest(ledger) ==
  \A i \in DOMAIN ledger : Landed(ledger[i]) => Called(ledger[i].tool, ledger[i].n)

\* A number stands for one call, a write or a read, wherever it occurs.
Named ==
  /\ \A i, j \in DOMAIN events :
       IsCall(i) /\ IsCall(j) /\ events[i].n = events[j].n => events[i].op = events[j].op
  /\ \A i \in DOMAIN events : IsResult(i) => Called(events[i].op, events[i].n)
  /\ pc \in Serving => Called(cur.op, cur.n)
  /\ \A r \in Request : IsToolCall(r) /\ ~At(r, "idle") => Called(r.op, r.n)
  /\ Honest(rec.ledger)
  /\ \A r \in Request : Loaded(r) => Honest(Copy(r))
  /\ \A g \in Range(grades) : Honest(g)

\* What a living worker adds to the log about calls.
Adds(e) ==
  \/ \E tool \in Tools : CallTool(tool) /\ e = Ev("tool.call", cur', "none")
  \/ Result /\ e = Ev("tool.result", cur, heard)
  \/ e.type \notin {"tool.call", "tool.result"}

LEMMA LivingLog ==
  ASSUME Shape, Alone, Lives
  PROVE  /\ DOMAIN events \subseteq DOMAIN events' /\ \A i \in DOMAIN events : events'[i] = events[i]
         /\ \A i \in DOMAIN events' : i \in DOMAIN events \/ Adds(events'[i])
         /\ \A i, j \in DOMAIN events' : i \notin DOMAIN events /\ j \notin DOMAIN events => i = j
         /\ Result => \E i \in DOMAIN events' : events'[i] = Ev("tool.result", cur, heard)
         /\ \A tool \in Tools : CallTool(tool) => \E i \in DOMAIN events' : events'[i] = Ev("tool.call", cur', "none")
<1>0. Silent \/ Talking
  BY WorkerSplits DEF Lives
<1>1. CASE UNCHANGED events
  <2>1. ~Result /\ \A tool \in Tools : ~CallTool(tool)
    BY <1>1 DEF Result, CallTool, Emit, Shape, LoopTypeOK
  <2> QED  BY <1>1, <2>1
<1>2. ASSUME NEW e, Said(e)
      PROVE  /\ DOMAIN events' = DOMAIN events \cup {Len(events) + 1}
             /\ \A i \in DOMAIN events : events'[i] = events[i]
             /\ Len(events) + 1 \notin DOMAIN events
             /\ events'[Len(events) + 1] = e
             /\ Adds(e)
             /\ Result => e = Ev("tool.result", cur, heard)
             /\ \A tool \in Tools : CallTool(tool) => e = Ev("tool.call", cur', "none")
  <2>1. /\ DOMAIN events' = 1 .. Len(events) + 1 /\ DOMAIN events = 1 .. Len(events) /\ Len(events) \in Nat
        /\ \A j \in 1 .. Len(events) : events'[j] = events[j]
        /\ events'[Len(events) + 1] = e
    BY <1>2, Emitted DEF Said, Shape, LoopTypeOK
  <2>2. ASSUME Result PROVE e = Ev("tool.result", cur, heard)
    <3>1. Emit(Ev("tool.result", cur, heard)) /\ Ev("tool.result", cur, heard) \in Event
      BY <2>2, EvType DEF Result, Shape, LoopTypeOK, EventTypes
    <3> QED  BY <2>1, <3>1, Emitted DEF Shape
  <2>3. ASSUME NEW tool \in Tools, CallTool(tool) PROVE e = Ev("tool.call", cur', "none")
    <3>1. Shape'
      BY NextShape DEF Next, Lives
    <3>2. Emit(Ev("tool.call", cur', "none")) /\ Ev("tool.call", cur', "none") \in Event
      BY <2>3, <3>1, EvType DEF CallTool, Shape, LoopTypeOK, EventTypes, Heard, Answers
    <3> QED  BY <2>1, <3>2, Emitted DEF Shape
  <2>4. pc \in {"result", "resolve"} => Result
    BY DEF Lives, Worker, Alone, Resuming, CallTool, Arm, Dispatch, ConnectFails, Receive, LoseAnswer,
       Note, EndTurn, EndLoop, SendReport, Reported, StartEvaluate, SkipEvaluate, Evaluated,
       EvaluateUnanswered, StartDelete, Deleted, Finish, Settle, Resume, Probe, NoteDangling, Resolve, Resumed
  <2>5. Adds(e)
    BY <1>2, <2>2, <2>4 DEF Said, Adds
  <2> QED  BY <2>1, <2>2, <2>3, <2>5
<1>3. ASSUME NEW e, Said(e)
      PROVE  /\ DOMAIN events \subseteq DOMAIN events' /\ \A i \in DOMAIN events : events'[i] = events[i]
             /\ \A i \in DOMAIN events' : i \in DOMAIN events \/ Adds(events'[i])
             /\ \A i, j \in DOMAIN events' : i \notin DOMAIN events /\ j \notin DOMAIN events => i = j
             /\ Result => \E i \in DOMAIN events' : events'[i] = Ev("tool.result", cur, heard)
             /\ \A tool \in Tools : CallTool(tool) => \E i \in DOMAIN events' : events'[i] = Ev("tool.call", cur', "none")
  BY <1>2, <1>3
<1> QED  BY <1>0, <1>1, <1>3, SilentLog, TalkingLog

\* Nothing that was called is forgotten.
CalledThen(op, n) ==
  \E i \in DOMAIN events' : events'[i].type = "tool.call" /\ events'[i].op = op /\ events'[i].n = n
CallsStay == \A op, n : Called(op, n) => CalledThen(op, n)

LEMMA HonestStays ==
  ASSUME CallsStay, NEW ledger, Honest(ledger)
  PROVE  \A i \in DOMAIN ledger : Landed(ledger[i]) => CalledThen(ledger[i].tool, ledger[i].n)
  BY DEF Honest, CallsStay

LEMMA HonestByRow ==
  ASSUME NEW ledger \in Seq(Row), NEW row \in Row, Honest(ledger), Landed(row) => Called(row.tool, row.n)
  PROVE  Honest(Append(ledger, row))
<1> DEFINE longer == Append(ledger, row)
<1>1. /\ DOMAIN longer = 1 .. Len(ledger) + 1 /\ DOMAIN ledger = 1 .. Len(ledger) /\ Len(ledger) \in Nat
      /\ \A i \in 1 .. Len(ledger) : longer[i] = ledger[i]
      /\ longer[Len(ledger) + 1] = row
  BY AppendProperties
<1> HIDE DEF longer
<1>2. Honest(longer)
  BY <1>1 DEF Honest
<1> QED  BY <1>2 DEF longer

\* A mark changes no row but in being marked, or adds one that did not land.
MarkedLike(ledger, old) ==
  /\ DOMAIN old \subseteq DOMAIN ledger
  /\ \A i \in DOMAIN old :
       /\ ledger[i].n = old[i].n /\ ledger[i].tool = old[i].tool /\ ledger[i].outcome = old[i].outcome
       /\ ledger[i].step = old[i].step
       /\ old[i].interrupted => ledger[i].interrupted
  /\ \A i \in DOMAIN ledger \ DOMAIN old :
       ledger[i].outcome = "error" /\ ledger[i].n = 0 /\ ledger[i].interrupted

LEMMA MarkedAlike ==
  ASSUME NEW ep \in Record
  PROVE  MarkedLike(Marked(ep).ledger, ep.ledger)
<1>0. ep.ledger \in Seq(Row) /\ ep.step \in Nat
  BY DEF Record
<1>1. CASE Candidates(ep.ledger) # {}
  <2> DEFINE k == Max(Candidates(ep.ledger))
  <2>1. Marked(ep).ledger = [ep.ledger EXCEPT ![k].interrupted = TRUE]
    BY <1>0, <1>1 DEF Marked, Record
  <2> HIDE DEF k
  <2>2. DOMAIN Marked(ep).ledger = DOMAIN ep.ledger
    BY <1>0, <2>1
  <2>3. \A i \in DOMAIN ep.ledger : ep.ledger[i] \in Row
    BY <1>0, ElementOfSeq
  <2> QED  BY <1>0, <2>1, <2>2, <2>3 DEF Row, MarkedLike
<1>2. CASE Candidates(ep.ledger) = {}
  <2> DEFINE row == [n |-> 0, tool |-> "write_file", step |-> ep.step, outcome |-> "error",
                     fault |-> 0, interrupted |-> TRUE]
             longer == Append(ep.ledger, row)
  <2>1. row \in Row /\ row.outcome = "error" /\ row.n = 0 /\ row.interrupted
    BY <1>0, PlanAssumption DEF Row, Tools, Outcomes
  <2>2. Marked(ep).ledger = longer
    BY <1>0, <1>2 DEF Marked, Record
  <2> HIDE DEF row
  <2>3. /\ DOMAIN longer = 1 .. Len(ep.ledger) + 1 /\ DOMAIN ep.ledger = 1 .. Len(ep.ledger)
        /\ \A i \in 1 .. Len(ep.ledger) : longer[i] = ep.ledger[i]
        /\ longer[Len(ep.ledger) + 1] = row /\ Len(ep.ledger) \in Nat
    BY <1>0, <2>1, AppendProperties
  <2> HIDE DEF longer
  <2>4. DOMAIN longer \ DOMAIN ep.ledger = {Len(ep.ledger) + 1} /\ DOMAIN ep.ledger \subseteq DOMAIN longer
    BY <2>3
  <2> QED  BY <2>1, <2>2, <2>3, <2>4 DEF MarkedLike
<1> QED  BY <1>1, <1>2

LEMMA HonestByMark ==
  ASSUME NEW ep \in Record, Honest(ep.ledger)
  PROVE  Honest(Marked(ep).ledger)
<1>1. MarkedLike(Marked(ep).ledger, ep.ledger)
  BY MarkedAlike
<1> QED  BY <1>1, Zenon DEF MarkedLike, Honest, Landed

\* What an evaluation grades is its copy of the ledger.
LEMMA GradesByGym ==
  ASSUME Shape, NEW r \in Request, Handle(r)
  PROVE  \/ UNCHANGED grades
         \/ /\ r = EvaluateIt /\ At(r, "test") /\ Loaded(r) /\ UNCHANGED rec
            /\ \A g \in Range(grades') : g = Copy(r) \/ g \in Range(grades)
<1>0. grades \in Seq(Seq(Row)) /\ req[r] \in ReqType
  BY DEF Shape, LoopTypeOK, TypeOK, ReqType
<1>1. CASE Evaluate(r)
  <2>1. r = EvaluateIt /\ At(r, "test") /\ Loaded(r) /\ UNCHANGED rec /\ grades' = Append(grades, Copy(r))
    <3>1. r.op = "evaluate" /\ At(r, "test") /\ UNCHANGED rec /\ grades' = Append(grades, Copy(r))
      BY <1>1 DEF Evaluate, Copy
    <3>2. r = EvaluateIt
      BY <3>1 DEF Request, EvaluateIt, Tools
    <3> QED  BY <3>1, <3>2 DEF At, Loaded
  <2>2. Copy(r) \in Seq(Row)
    BY <1>0 DEF ReqType, Record, Copy
  <2>3. /\ DOMAIN grades' = 1 .. Len(grades) + 1 /\ DOMAIN grades = 1 .. Len(grades) /\ Len(grades) \in Nat
        /\ \A i \in 1 .. Len(grades) : grades'[i] = grades[i]
        /\ grades'[Len(grades) + 1] = Copy(r)
    BY <1>0, <2>1, <2>2, AppendProperties
  <2>4. \A g \in Range(grades') : g = Copy(r) \/ g \in Range(grades)
    <3>1. ASSUME NEW i \in DOMAIN grades' PROVE grades'[i] = Copy(r) \/ \E j \in DOMAIN grades : grades[j] = grades'[i]
      BY <2>3
    <3> QED  BY <3>1, Zenon DEF Range
  <2> QED  BY <2>1, <2>4
<1>2. CASE ~Evaluate(r)
  BY <1>2 DEF Handle, Begin, Exec, Denied, Unavailable, RecordStep, ReportLoad, ReportSave,
       EvaluateLoad, EvaluateFails, EvaluateReload, EvaluateSave, DeleteLoad, DeleteStop, DeleteSave
<1> QED  BY <1>1, <1>2

LEMMA EpisodeLedgers ==
  ASSUME Shape
  PROVE  /\ rec \in Record /\ rec.ledger \in Seq(Row)
         /\ \A r \in Request : Copy(r) \in Seq(Row) /\ req[r].snap \in Record
         /\ \A g \in Range(grades) : g \in Seq(Row)
<1>1. \A i \in DOMAIN grades : grades[i] \in Seq(Row)
  BY DEF Shape, LoopTypeOK, TypeOK
<1>2. \A g \in Range(grades) : g \in Seq(Row)
  BY <1>1, Zenon DEF Range
<1>3. rec \in Record /\ \A r \in Request : req[r].snap \in Record
  BY DEF Shape, LoopTypeOK, TypeOK
<1>4. \A ep \in Record : ep.ledger \in Seq(Row)
  BY DEF Record
<1> QED  BY <1>2, <1>3, <1>4 DEF Copy

\* Requests that a step does not start.
LEMMA SentOrSame ==
  ASSUME Shape, Alone, Lives \/ Aside
  PROVE  /\ UNCHANGED <<rec, grades>>
         /\ \A q \in Request : req'[q] = req[q] \/ req'[q].phase = "sent" \/ req'[q] = Idle
         /\ \A q \in Request : IsToolCall(q) /\ req'[q] # req[q] =>
              \/ At(q, "sent") /\ req'[q] = Idle
              \/ q = cur /\ pc = "dispatch" /\ pc' = "wait"
         /\ \A q \in Request : Loaded(q)' => Loaded(q) /\ UNCHANGED Copy(q)
<1>1. CASE Lives
  <2>1. UNCHANGED <<rec, grades>> /\ (UNCHANGED req \/ \E r \in Request : Sending(r))
    BY <1>1, LivingSends DEF Alone, gym
  <2>2. ASSUME NEW r \in Request, Sending(r)
        PROVE  /\ \A q \in Request : q # r => req'[q] = req[q]
               /\ req'[r].phase = "sent"
               /\ IsToolCall(r) => r = cur /\ pc = "dispatch" /\ pc' = "wait"
    BY <2>2, SentOnly DEF Sending, Dispatch, Idle
  <2> QED  BY <2>1, <2>2 DEF Loaded, Copy
<1>2. CASE Aside
  <2>1. ~IsToolCall(ExpireIt)
    BY DEF IsToolCall, Tools, ExpireIt
  <2> QED  BY <1>2, <2>1 DEF Aside, Loaded, Copy, Idle
<1> QED  BY <1>1, <1>2

LEMMA StillServing ==
  ASSUME Shape, Alone, Lives, \A tool \in Tools : ~CallTool(tool), pc' \in Serving
  PROVE  pc \in Serving /\ UNCHANGED cur
  BY DEF Lives, Worker, Alone, Resuming, Serving, Arm, Dispatch, ConnectFails, Receive, LoseAnswer, Result,
     Note, EndTurn, EndLoop, SendReport, Reported, StartEvaluate, SkipEvaluate, Evaluated,
     EvaluateUnanswered, StartDelete, Deleted, Finish, Settle, Resume, Probe, NoteDangling, Resolve, Resumed

LEMMA NamedByWorker ==
  ASSUME Shape, Answered, Alone, Named, Lives
  PROVE  Named'
<1>0. /\ DOMAIN events \subseteq DOMAIN events' /\ \A i \in DOMAIN events : events'[i] = events[i]
      /\ \A i \in DOMAIN events' : i \in DOMAIN events \/ Adds(events'[i])
      /\ \A i, j \in DOMAIN events' : i \notin DOMAIN events /\ j \notin DOMAIN events => i = j
      /\ \A tool \in Tools : CallTool(tool) => \E i \in DOMAIN events' : events'[i] = Ev("tool.call", cur', "none")
  BY LivingLog
<1>1. CallsStay
  BY <1>0 DEF CallsStay, Called, CalledThen, IsCall
<1>2. ASSUME NEW i \in DOMAIN events', i \notin DOMAIN events, NEW j \in DOMAIN events, IsCall(i)', IsCall(j)
      PROVE  events'[i].n # events[j].n
  <2>1. events'[i].n = issued + 1
    <3>1. PICK tool \in Tools : CallTool(tool) /\ events'[i] = Ev("tool.call", cur', "none")
      BY <1>0, <1>2 DEF Adds, IsCall, Ev
    <3> QED  BY <3>1 DEF Ev, CallTool
  <2>2. events[j].n <= issued /\ events[j].n \in Nat /\ issued \in Nat
    BY <1>2, Numbers, CallsAssumption DEF Answered, Shape, LoopTypeOK
  <2> QED  BY <2>1, <2>2
<1>3. ASSUME NEW i \in DOMAIN events', NEW j \in DOMAIN events', IsCall(i)', IsCall(j)', events'[i].n = events'[j].n
      PROVE  events'[i].op = events'[j].op
  BY <1>0, <1>2, <1>3 DEF Named, IsCall
<1>4. ASSUME NEW i \in DOMAIN events', IsResult(i)' PROVE CalledThen(events'[i].op, events'[i].n)
  <2>1. CASE i \in DOMAIN events
    BY <1>0, <1>1, <1>4, <2>1 DEF Named, IsResult, CallsStay
  <2>2. CASE i \notin DOMAIN events
    <3>1. Result /\ events'[i] = Ev("tool.result", cur, heard)
      BY <1>0, <1>4, <2>2 DEF Adds, IsResult, Ev
    <3>2. Called(cur.op, cur.n)
      BY <3>1 DEF Named, Result, Serving
    <3> QED  BY <1>1, <3>1, <3>2 DEF CallsStay, Ev
  <2> QED  BY <2>1, <2>2
<1>5. ASSUME pc' \in Serving PROVE CalledThen(cur'.op, cur'.n)
  <2>1. CASE \A tool \in Tools : ~CallTool(tool)
    BY <1>1, <1>5, <2>1, StillServing DEF Named, CallsStay
  <2>2. ASSUME NEW tool \in Tools, CallTool(tool) PROVE CalledThen(cur'.op, cur'.n)
    BY <1>0, <2>2 DEF CalledThen, Ev
  <2> QED  BY <2>1, <2>2
<1>6. ASSUME NEW r \in Request, IsToolCall(r), ~At(r, "idle")' PROVE CalledThen(r.op, r.n)
  <2>1. req'[r] = req[r] \/ (r = cur /\ pc = "dispatch")
    BY <1>6, SentOrSame DEF At, Idle
  <2>2. Called(r.op, r.n)
    BY <1>6, <2>1 DEF Named, At, Serving
  <2> QED  BY <1>1, <2>2 DEF CallsStay
<1>7. UNCHANGED <<rec, grades>> /\ \A q \in Request : Loaded(q)' => Loaded(q) /\ UNCHANGED Copy(q)
  BY SentOrSame
<1>8. ASSUME NEW ledger, Honest(ledger)
      PROVE  \A i \in DOMAIN ledger : Landed(ledger[i]) => CalledThen(ledger[i].tool, ledger[i].n)
  BY <1>1, <1>8, HonestStays
<1>9. Honest(rec.ledger)'
  BY <1>7, <1>8 DEF Named, Honest, Called, CalledThen, IsCall
<1>10. \A r \in Request : Loaded(r)' => Honest(Copy(r))'
  BY <1>7, <1>8 DEF Named, Honest, Called, CalledThen, IsCall
<1>11. \A g \in Range(grades)' : Honest(g)'
  BY <1>7, <1>8 DEF Named, Honest, Called, CalledThen, IsCall
<1>12. \A i \in DOMAIN events' : IsResult(i)' => Called(events[i].op, events[i].n)'
  BY <1>4 DEF Called, CalledThen, IsCall
<1>13. pc' \in Serving => Called(cur.op, cur.n)'
  BY <1>5 DEF Called, CalledThen, IsCall
<1>14. \A r \in Request : IsToolCall(r) /\ ~At(r, "idle")' => Called(r.op, r.n)'
  BY <1>6 DEF Called, CalledThen, IsCall
<1> QED  BY <1>3, <1>9, <1>10, <1>11, <1>12, <1>13, <1>14 DEF Named

LEMMA NamedByGym ==
  ASSUME Shape, Stopping, Named, UNCHANGED loop, NEW r \in Request, Handle(r)
  PROVE  Named'
<1>0. /\ \A q \in Request : q # r => req'[q] = req[q] /\ Loaded(q)' = Loaded(q) /\ UNCHANGED Copy(q)
      /\ UNCHANGED <<pc, cur, events>>
  BY OwnRequest DEF loop, Loaded, Copy
<1>1. rec \in Record /\ req[r].snap \in Record /\ Copy(r) \in Seq(Row)
  BY EpisodeLedgers
<1>2. ~At(r, "idle")
  BY HandlerMoves
<1>4. \A q \in Request : IsToolCall(q) /\ ~At(q, "idle")' => Called(q.op, q.n)
  BY <1>0, <1>2 DEF Named, At
<1>5. Honest(rec'.ledger) /\ \A q \in Request : Loaded(q)' => Honest(Copy(q)')
  <2>1. CASE Refuses(r) \/ Loads(r) \/ Works(r)
    BY <1>0, <2>1 DEF Refuses, Loads, Works, Named
  <2>2. CASE Records(r)
    <3>1. Landed(RowOf(r)) => Called(RowOf(r).tool, RowOf(r).n)
      BY <1>2, <2>2 DEF Records, RecordStep, RowOf, Named
    <3>2. Honest(Append(Copy(r), RowOf(r)))
      BY <1>1, <2>2, <3>1, HonestByRow DEF Records, Named
    <3> QED  BY <1>0, <2>2, <3>2 DEF Records, Named
  <2>3. CASE Saves(r)
    <3>1. Honest(rec'.ledger)
      BY <1>1, <2>3, HonestByMark DEF Saves, Named, Copy
    <3> QED  BY <1>0, <2>3, <3>1 DEF Saves, Named
  <2> QED  BY <2>1, <2>2, <2>3, Ledgers
<1>6. \A g \in Range(grades') : Honest(g)
  BY GradesByGym DEF Named
<1> QED  BY <1>0, <1>4, <1>5, <1>6 DEF Named, Honest, Called, IsCall, IsResult

LEMMA NextNamed ==
  ASSUME Founded, Answered, Deathless => Named, [Next]_vars
  PROVE  Deathless' => Named'
<1> SUFFICES ASSUME Deathless' PROVE Named'
  OBVIOUS
<1>0. Alone /\ Named /\ Shape /\ Stopping
  BY DeathlessSteps DEF Founded
<1>1. CASE Lives
  BY <1>0, <1>1, NamedByWorker
<1>2. ASSUME UNCHANGED loop, NEW r \in Request, Handle(r) PROVE Named'
  BY <1>0, <1>2, NamedByGym
<1>3. CASE Aside
  <2>1. UNCHANGED <<rec, grades, pc, cur, events>>
    BY <1>3 DEF Aside, loop
  <2>2. \A q \in Request : IsToolCall(q) /\ ~At(q, "idle")' => ~At(q, "idle")
    BY <1>0, <1>3, <2>1, SentOrSame DEF At, Idle
  <2>3. \A q \in Request : Loaded(q)' => Loaded(q) /\ UNCHANGED Copy(q)
    BY <1>0, <1>3, SentOrSame
  <2> QED  BY <1>0, <2>1, <2>2, <2>3 DEF Named, Honest, Called, IsCall, IsResult
<1> QED  BY <1>0, <1>1, <1>2, <1>3, LivingSteps

LEMMA InitNamed ==
  ASSUME Init
  PROVE  Named
<1>1. rec.ledger = << >> /\ grades = << >> /\ events = << >> /\ pc = "turn"
      /\ \A r \in Request : req[r] = Idle
  BY DEF Init, EpisodeInit, NewRecord
<1>2. DOMAIN rec.ledger = {} /\ DOMAIN grades = {} /\ DOMAIN events = {}
  BY <1>1
<1>3. Honest(rec.ledger) /\ \A g \in Range(grades) : Honest(g)
  BY <1>2, Zenon DEF Honest, Range
<1> QED  BY <1>1, <1>2, <1>3 DEF Named, Serving, Idle, At, Loaded

-----------------------------------------------------------------------------
(* Without a death, a lost write is marked before the episode is graded *)

Closing == {"evaluating"} \cup Ending

\* Nothing is graded before the reports are out.
Late ==
  /\ pc \notin Closing => At(EvaluateIt, "idle") /\ grades = << >>
  /\ pc \in Closing => deferred = << >>

LEMMA ClosingMoves ==
  ASSUME Shape, Alone, Lives
  PROVE  /\ pc \in Closing => pc' \in Closing /\ UNCHANGED deferred
         /\ pc \notin Closing /\ pc' \in Closing => deferred' = << >>
  BY DEF Lives, Worker, Alone, Resuming, Closing, Ending, CallTool, Arm, Dispatch, ConnectFails, Receive,
     LoseAnswer, Result, Note, EndTurn, EndLoop, SendReport, Reported, StartEvaluate, SkipEvaluate, Evaluated,
     EvaluateUnanswered, StartDelete, Deleted, Finish, Settle, Resume, Probe, NoteDangling, Resolve, Resumed

LEMMA NextLate ==
  ASSUME Founded, Deathless => Late, [Next]_vars
  PROVE  Deathless' => Late'
<1> SUFFICES ASSUME Deathless' PROVE Late'
  OBVIOUS
<1>0. Alone /\ Late /\ Shape /\ EvaluateIt \in Request /\ ~IsToolCall(EvaluateIt)
  BY DeathlessSteps, NamedRequests DEF Founded, IsToolCall, EvaluateIt, Tools
<1>1. CASE Lives
  <2>1. UNCHANGED <<rec, grades>> /\ (UNCHANGED req \/ \E r \in Request : Sending(r))
    BY <1>0, <1>1, LivingSends DEF Alone, gym
  <2>2. ASSUME pc' \notin Closing PROVE req'[EvaluateIt] = req[EvaluateIt]
    <3>1. ASSUME NEW r \in Request, Sending(r) PROVE req'[EvaluateIt] = req[EvaluateIt]
      <4>1. r # EvaluateIt
        BY <1>0, <2>2, <3>1 DEF Sending, Closing, EvaluateIt, DeleteIt, ReportOf
      <4> QED  BY <1>0, <3>1, <4>1, SentOnly DEF Sending
    <3> QED  BY <2>1, <3>1
  <2> QED  BY <1>0, <1>1, <2>1, <2>2, ClosingMoves DEF Late, At
<1>2. ASSUME UNCHANGED loop, NEW r \in Request, Handle(r) PROVE Late'
  <2>1. UNCHANGED <<pc, deferred>>
    BY <1>2 DEF loop
  <2>2. CASE pc \in Closing
    BY <1>0, <2>1, <2>2 DEF Late
  <2>3. CASE pc \notin Closing
    <3>1. r # EvaluateIt
      BY <1>0, <1>2, <2>3, HandlerMoves DEF Late
    <3>2. req'[EvaluateIt] = req[EvaluateIt] /\ UNCHANGED grades
      BY <1>0, <1>2, <3>1, OwnRequest, GradesByGym
    <3> QED  BY <1>0, <2>1, <2>3, <3>2 DEF Late, At
  <2> QED  BY <2>2, <2>3
<1>3. CASE Aside
  <2>1. UNCHANGED <<pc, deferred, grades>>
    BY <1>3 DEF Aside, loop
  <2>2. EvaluateIt # ExpireIt
    BY DEF EvaluateIt, ExpireIt
  <2>3. req'[EvaluateIt] = req[EvaluateIt] \/ req'[EvaluateIt] = Idle
    BY <1>0, <1>3, <2>2 DEF Aside
  <2> QED  BY <1>0, <2>1, <2>3 DEF Late, At, Idle
<1> QED  BY <1>0, <1>1, <1>2, <1>3, LivingSteps

\* Whatever is in doubt was counted as lost, or as the planned failure.
Harmed == losses # 0 \/ inflicted # 0
Unknown == \E i \in DOMAIN events : IsResult(i) /\ events[i].what = "unknown"
Counted ==
  /\ deferred # << >> => Harmed
  /\ heard = "unknown" /\ pc \in {"result", "note"} => Harmed
  /\ Unknown => Harmed
  /\ pc = "wait" /\ planned => Harmed
  /\ pc = "result" => heard # "synthetic"
  /\ \A i \in DOMAIN events : IsResult(i) => events[i].what # "synthetic"

LEMMA CountsGrow ==
  ASSUME Shape, Alone, Lives
  PROVE  /\ losses \in Nat /\ inflicted \in Nat /\ losses' \in Nat /\ inflicted' \in Nat
         /\ losses <= losses' /\ inflicted <= inflicted'
         /\ Harmed => Harmed'
<1>1. losses \in Nat /\ inflicted \in Nat
  BY DEF Shape, LoopTypeOK
<1>2. Shape'
  BY NextShape DEF Lives, Next
<1>3. losses' \in Nat /\ inflicted' \in Nat
  BY <1>2 DEF Shape, LoopTypeOK
<1>4. inflicted <= inflicted'
  <2>1. CASE Dispatch
    BY <1>1, <2>1 DEF Dispatch
  <2>2. CASE UNCHANGED inflicted
    BY <1>1, <2>2
  <2>3. CASE ~Dispatch
    <3>1. UNCHANGED inflicted
      BY <2>3 DEF Lives, Worker, Alone, Resuming, CallTool, Arm, ConnectFails, Receive, quiet, keep,
       LoseAnswer, Result, Note, EndTurn, EndLoop, SendReport, Reported, StartEvaluate, SkipEvaluate, Evaluated,
       EvaluateUnanswered, StartDelete, Deleted, Finish, Settle, Resume, Probe, NoteDangling, Resolve, Resumed
    <3> QED  BY <2>2, <3>1
  <2> QED  BY <2>1, <2>3
<1>5. losses <= losses'
  <2>1. CASE Lose
    BY <1>1, <2>1 DEF Lose
  <2>2. CASE UNCHANGED losses
    BY <1>1, <2>2
  <2>3. Lose \/ UNCHANGED losses
    BY DEF Lives, Worker, Alone, Resuming, CallTool, Arm, Dispatch, ConnectFails, Receive,
     LoseAnswer, Result, Note, EndTurn, EndLoop, SendReport, Reported, StartEvaluate, SkipEvaluate, Evaluated,
     EvaluateUnanswered, StartDelete, Deleted, Finish, Settle, Resume, Probe, NoteDangling, Resolve, Resumed
  <2> QED  BY <2>1, <2>2, <2>3
<1>6. Harmed => Harmed'
  BY <1>1, <1>3, <1>4, <1>5 DEF Harmed
<1> QED  BY <1>1, <1>3, <1>4, <1>5, <1>6

LEMMA CountedByWorker ==
  ASSUME Shape, Alone, Counted, Lives
  PROVE  Counted'
<1>0. /\ losses \in Nat /\ inflicted \in Nat /\ losses' \in Nat /\ inflicted' \in Nat
      /\ losses <= losses' /\ inflicted <= inflicted'
  BY CountsGrow
<1>1. Harmed => Harmed'
  BY CountsGrow
<1>2. pc' = "wait" /\ planned' => Harmed'
  <2>1. CASE Dispatch
    BY <1>0, <2>1 DEF Dispatch, Harmed
  <2>2. CASE ~Dispatch
    BY <2>2 DEF Lives, Worker, Alone, Resuming, CallTool, Arm, ConnectFails, Receive,
     LoseAnswer, Result, Note, EndTurn, EndLoop, SendReport, Reported, StartEvaluate, SkipEvaluate, Evaluated,
     EvaluateUnanswered, StartDelete, Deleted, Finish, Settle, Resume, Probe, NoteDangling, Resolve, Resumed
  <2> QED  BY <2>1, <2>2
<1>3. /\ heard' = "unknown" /\ pc' \in {"result", "note"} => Harmed'
      /\ pc' = "result" => heard' # "synthetic"
  <2>1. CASE Receive
    <3>1. heard' \in Answers
      BY <2>1 DEF Receive, Shape, LoopTypeOK, TypeOK
    <3> QED  BY <3>1 DEF Answers, Outcomes
  <2>2. CASE LoseAnswer
    <3>1. CASE planned /\ UNCHANGED losses
      BY <1>1, <2>2, <3>1 DEF LoseAnswer, Counted
    <3>2. CASE Lose
      <4>1. losses' = losses + 1 /\ pc' = "result" /\ heard' = "unknown"
        BY <3>2, <2>2 DEF Lose, LoseAnswer
      <4> QED  BY <1>0, <4>1 DEF Harmed
    <3> QED  BY <2>2, <3>1, <3>2 DEF LoseAnswer
  <2>3. CASE Result
    BY <1>1, <2>3 DEF Result, Counted
  <2>4. CASE ~Receive /\ ~LoseAnswer /\ ~Result
    BY <2>4 DEF Lives, Worker, Alone, Resuming, CallTool, Arm, Dispatch, ConnectFails,
     Note, EndTurn, EndLoop, SendReport, Reported, StartEvaluate, SkipEvaluate, Evaluated,
     EvaluateUnanswered, StartDelete, Deleted, Finish, Settle, Resume, Probe, NoteDangling, Resolve, Resumed
  <2> QED  BY <2>1, <2>2, <2>3, <2>4
<1>4. deferred' # << >> => Harmed'
  <2>1. CASE Note
    BY <1>1, <2>1 DEF Note, Counted
  <2>2. CASE Reported
    BY <1>1, <2>2 DEF Reported, Counted, Shape
  <2>3. CASE ~Note /\ ~Reported
    <3>1. UNCHANGED deferred
      BY <2>3 DEF Lives, Worker, Alone, Resuming, CallTool, Arm, Dispatch, ConnectFails, Receive, LoseAnswer,
       Result, EndTurn, EndLoop, SendReport, StartEvaluate, SkipEvaluate, Evaluated,
       EvaluateUnanswered, StartDelete, Deleted, Finish, Settle, Resume, Probe, NoteDangling, Resolve, Resumed
    <3> QED  BY <1>1, <3>1 DEF Counted
  <2> QED  BY <2>1, <2>2, <2>3
<1>5. /\ DOMAIN events \subseteq DOMAIN events' /\ \A i \in DOMAIN events : events'[i] = events[i]
      /\ \A i \in DOMAIN events' : i \in DOMAIN events \/ Adds(events'[i])
  BY LivingLog
<1>6. ASSUME NEW i \in DOMAIN events', IsResult(i)'
      PROVE  events'[i].what # "synthetic" /\ (events'[i].what = "unknown" => Harmed')
  <2>1. CASE i \in DOMAIN events
    BY <1>1, <1>5, <1>6, <2>1 DEF Counted, IsResult, Unknown
  <2>2. CASE i \notin DOMAIN events
    <3>1. Result /\ events'[i] = Ev("tool.result", cur, heard)
      BY <1>5, <1>6, <2>2 DEF Adds, IsResult, Ev
    <3>2. pc = "result" /\ events'[i].what = heard
      BY <3>1 DEF Result, Ev
    <3> QED  BY <1>1, <3>2 DEF Counted
  <2> QED  BY <2>1, <2>2
<1> QED  BY <1>2, <1>3, <1>4, <1>6 DEF Counted, Unknown

LEMMA NextCounted ==
  ASSUME Founded, Deathless => Counted, [Next]_vars
  PROVE  Deathless' => Counted'
<1> SUFFICES ASSUME Deathless' PROVE Counted'
  OBVIOUS
<1>0. Alone /\ Counted /\ Shape
  BY DeathlessSteps DEF Founded
<1>1. CASE Lives
  BY <1>0, <1>1, CountedByWorker
<1>2. CASE UNCHANGED loop
  BY <1>0, <1>2 DEF loop, Counted, Unknown, IsResult, Harmed
<1> QED  BY <1>0, <1>1, <1>2, LivingSteps DEF Aside

\* No more than one answer was lost, or the planned failure inflicted.
Mild == losses + inflicted <= 1

LEMMA AtMostOne ==
  ASSUME NEW a \in Nat, NEW b \in Nat, NEW c \in Nat, NEW d \in Nat, a <= c, b <= d
  PROVE  /\ c + d <= 1 => a + b <= 1
         /\ c = a + 1 /\ (a # 0 \/ b # 0) => ~(c + d <= 1)
  OBVIOUS

LEMMA NoSecondLoss ==
  ASSUME Shape, Alone, Lives
  PROVE  (Mild' => Mild) /\ (Harmed /\ Lose => ~Mild')
<1>1. /\ losses \in Nat /\ inflicted \in Nat /\ losses' \in Nat /\ inflicted' \in Nat
      /\ losses <= losses' /\ inflicted <= inflicted'
  BY CountsGrow
<1>2. /\ losses' + inflicted' <= 1 => losses + inflicted <= 1
      /\ losses' = losses + 1 /\ (losses # 0 \/ inflicted # 0) => ~(losses' + inflicted' <= 1)
  BY <1>1, AtMostOne
<1> QED  BY <1>2 DEF Mild, Harmed, Lose

LEMMA MaxIsIn ==
  ASSUME NEW m \in Nat, NEW S \in SUBSET (1 .. m), S # {}
  PROVE  Max(S) \in S /\ \A x \in S : x <= Max(S)
<1> DEFINE T == {m - x : x \in S}
<1>1. T \in SUBSET Nat /\ T # {}
  <2>1. \A x \in S : m - x \in Nat
    OBVIOUS
  <2>2. \A t \in T : t \in Nat
    BY <2>1, Zenon
  <2>3. T # {}
    BY Zenon
  <2> QED  BY <2>2, <2>3
<1>2. Min(T) \in T
  BY <1>1, MinIsIn
<1>3. \A t \in T : Min(T) <= t
  BY <1>1, MinIsIn
<1> HIDE DEF T
<1>4. PICK x \in S : m - x = Min(T)
  BY <1>2 DEF T
<1>5. \A y \in S : y <= x
  <2>1. ASSUME NEW y \in S PROVE y <= x
    <3>1. m - y \in T /\ m - x <= m - y
      BY <1>3, <1>4 DEF T
    <3> QED  BY <3>1
  <2> QED  BY <2>1
<1>6. \E z \in S : \A y \in S : z >= y
  BY <1>5
<1>7. Max(S) \in S /\ \A y \in S : Max(S) >= y
  BY <1>6, Zenon DEF Max
<1> QED  BY <1>7

\* The ledger has a mark, and none of the rows of the write with number n that
\* landed is behind it.
MarkedAfter(n, ledger) ==
  \E j \in DOMAIN ledger :
    /\ ledger[j].interrupted
    /\ \A i \in DOMAIN ledger :
         ledger[i].tool = "write_file" /\ Landed(ledger[i]) /\ ledger[i].n = n => i <= j

\* A mark goes behind all the writes that landed.
LEMMA MarkCovers ==
  ASSUME NEW ep \in Record, NEW n
  PROVE  MarkedAfter(n, Marked(ep).ledger)
<1>0. /\ ep.ledger \in Seq(Row) /\ ep.step \in Nat
      /\ DOMAIN ep.ledger = 1 .. Len(ep.ledger) /\ Len(ep.ledger) \in Nat
  BY DEF Record
<1>1. \A i \in DOMAIN ep.ledger : ep.ledger[i] \in Row
  BY <1>0, ElementOfSeq
<1>2. MarkedLike(Marked(ep).ledger, ep.ledger)
  BY MarkedAlike
<1>3. ASSUME NEW i \in DOMAIN Marked(ep).ledger, Marked(ep).ledger[i].tool = "write_file",
             Landed(Marked(ep).ledger[i])
      PROVE  i \in Candidates(ep.ledger)
  BY <1>2, <1>3 DEF MarkedLike, Landed, Candidates
<1>4. CASE Candidates(ep.ledger) # {}
  <2> DEFINE k == Max(Candidates(ep.ledger))
  <2>1. Candidates(ep.ledger) \in SUBSET (1 .. Len(ep.ledger))
    BY <1>0 DEF Candidates
  <2>2. k \in Candidates(ep.ledger) /\ \A i \in Candidates(ep.ledger) : i <= k
    BY <1>0, <1>4, <2>1, MaxIsIn
  <2>3. Marked(ep).ledger = [ep.ledger EXCEPT ![k].interrupted = TRUE]
    BY <1>0, <1>4 DEF Marked, Record
  <2> HIDE DEF k
  <2>4. k \in 1 .. Len(ep.ledger)
    BY <2>1, <2>2
  <2>5. Marked(ep).ledger[k].interrupted /\ k \in DOMAIN Marked(ep).ledger
    BY <1>0, <1>1, <2>3, <2>4 DEF Row
  <2> QED  BY <1>3, <2>2, <2>5 DEF MarkedAfter
<1>5. CASE Candidates(ep.ledger) = {}
  <2> DEFINE row == [n |-> 0, tool |-> "write_file", step |-> ep.step, outcome |-> "error",
                     fault |-> 0, interrupted |-> TRUE]
             k == Len(ep.ledger) + 1
  <2>1. Marked(ep).ledger = Append(ep.ledger, row)
    BY <1>0, <1>5 DEF Marked, Record
  <2>2. row.interrupted = TRUE
    OBVIOUS
  <2> HIDE DEF row
  <2>3. Marked(ep).ledger[k].interrupted /\ k \in DOMAIN Marked(ep).ledger
    BY <1>0, <2>1, <2>2, AppendProperties
  <2> QED  BY <1>3, <1>5, <2>3 DEF MarkedAfter
<1> QED  BY <1>4, <1>5

-----------------------------------------------------------------------------
(* The write whose answer was lost *)

\* The log says that the outcome of the write n is unknown.
Lost(n) ==
  \E i \in DOMAIN events :
    IsResult(i) /\ events[i].what = "unknown" /\ events[i].op = "write_file" /\ events[i].n = n

\* No tool call writes the record any more.
CallsOver == pc \in Fin /\ \A r \in Request : IsToolCall(r) => ~InFlight(r)

\* The write is marked wherever the record is, and no tool call undoes it.
Settled(n) ==
  /\ CallsOver
  /\ MarkedAfter(n, rec.ledger)
  /\ \A r \in Request : Loaded(r) => MarkedAfter(n, Copy(r))

LEMMA CallsStayOver ==
  ASSUME Shape, Alone, CallsOver,
         Lives \/ Aside \/ (UNCHANGED loop /\ \E r \in Request : Handle(r))
  PROVE  CallsOver'
<1>1. CASE Lives \/ Aside
  <2>1. pc' \in Fin
    <3>1. CASE Lives
      BY <3>1, LivingSends DEF Alone, CallsOver
    <3>2. CASE Aside
      BY <3>2 DEF Aside, loop, CallsOver
    <3> QED  BY <1>1, <3>1, <3>2
  <2>2. pc # "dispatch"
    BY DEF CallsOver, Fin, Ending
  <2>3. \A q \in Request : IsToolCall(q) => ~InFlight(q)'
    BY <1>1, <2>2, SentOrSame DEF CallsOver, InFlight, Idle
  <2> QED  BY <2>1, <2>3 DEF CallsOver
<1>2. ASSUME UNCHANGED loop, NEW r \in Request, Handle(r) PROVE CallsOver'
  BY <1>2, HandledWasInFlight DEF CallsOver, loop
<1> QED  BY <1>1, <1>2

LEMMA SettledStays ==
  ASSUME Shape, Alone, Stopping, NEW n, Settled(n),
         Lives \/ Aside \/ (UNCHANGED loop /\ \E r \in Request : Handle(r))
  PROVE  Settled(n)'
<1>0. CallsOver /\ CallsOver'
  BY CallsStayOver DEF Settled
<1>1. CASE Lives \/ Aside
  <2>1. UNCHANGED rec /\ \A q \in Request : Loaded(q)' => Loaded(q) /\ UNCHANGED Copy(q)
    BY <1>1, SentOrSame
  <2> QED  BY <1>0, <2>1 DEF Settled
<1>2. ASSUME UNCHANGED loop, NEW r \in Request, Handle(r) PROVE Settled(n)'
  <2>0. \A q \in Request : q # r => req'[q] = req[q] /\ Loaded(q)' = Loaded(q) /\ UNCHANGED Copy(q)
    BY <1>2, OwnRequest DEF Loaded, Copy
  <2>1. ~IsToolCall(r)
    BY <1>0, <1>2, HandledWasInFlight DEF CallsOver
  <2>2. Loads(r) \/ Works(r) \/ Saves(r)
    BY <1>2, <2>1, Ledgers DEF Refuses, Records, RecordStep
  <2>3. MarkedAfter(n, rec'.ledger) /\ (Loaded(r)' => MarkedAfter(n, Copy(r)'))
    <3>1. CASE Loads(r) \/ Works(r)
      BY <3>1 DEF Loads, Works, Settled
    <3>2. CASE Saves(r)
      <4>1. MarkedAfter(n, Marked(req[r].snap).ledger)
        BY EpisodeLedgers, MarkCovers
      <4> QED  BY <3>2, <4>1 DEF Saves, Settled
    <3> QED  BY <2>2, <3>1, <3>2
  <2>4. \A q \in Request : Loaded(q)' => MarkedAfter(n, Copy(q)')
    BY <2>0, <2>3 DEF Settled
  <2> QED  BY <1>0, <2>3, <2>4 DEF Settled
<1> QED  BY <1>1, <1>2

\* The finally block has one request out at a time, and a report that was
\* answered has left its mark.
Reporting ==
  /\ pc = "reports" => \A r \in Request : InFlight(r) => IsToolCall(r)
  /\ pc = "reporting" => \A r \in Request : InFlight(r) => r = ReportOf(Head(deferred))
  /\ pc = "reporting" /\ At(ReportOf(Head(deferred)), "answered") => Settled(Head(deferred))

LEMMA ReportingByWorker ==
  ASSUME Shape, Patient, Stopping, Alone, Reporting, Harmed \/ deferred = << >>, Lives, Mild'
  PROVE  Reporting'
<1>1. CASE SendReport
  <2> DEFINE r == ReportOf(Head(deferred))
  <2>1. r \in Request /\ Send(r) /\ MaySend /\ pc = "reports" /\ pc' = "reporting" /\ UNCHANGED deferred
    BY <1>1, NamedRequests DEF SendReport, Shape, LoopTypeOK
  <2>2. \A q \in Request : ~InFlight(q)
    BY <2>1 DEF MaySend, Reporting
  <2>3. req'[r].phase = "sent" /\ \A q \in Request : q # r => req'[q] = req[q]
    BY <2>1, SentOnly DEF Idle
  <2> QED  BY <2>1, <2>2, <2>3 DEF Reporting, InFlight, At
<1>2. CASE Reported
  <2>1. deferred # << >> /\ pc = "reporting" /\ UNCHANGED req /\ pc' = "reports"
    BY <1>2 DEF Reported, Shape, episode
  <2>2. At(ReportOf(Head(deferred)), "answered")
    BY <1>2, <2>1, NoSecondLoss DEF Reported
  <2>3. \A q \in Request : ~InFlight(q)
    BY <2>1, <2>2 DEF Reporting, InFlight, At
  <2> QED  BY <2>1, <2>3 DEF Reporting, InFlight
<1>3. CASE pc' = "reports" /\ ~Reported
  <2>1. pc \notin Fin /\ UNCHANGED req
    BY <1>3 DEF Lives, Worker, Alone, Resuming, Fin, Ending, CallTool, Arm, Dispatch, ConnectFails, Receive,
       LoseAnswer, Result, Note, EndTurn, EndLoop, SendReport, StartEvaluate, SkipEvaluate, Evaluated,
       EvaluateUnanswered, StartDelete, Deleted, Finish, Settle, Resume, Probe, NoteDangling, Resolve,
       Resumed, episode
  <2> QED  BY <1>3, <2>1 DEF Alone, Reporting, InFlight
<1>4. CASE pc' # "reports" /\ ~SendReport
  <2>1. pc' # "reporting"
    BY <1>4 DEF Lives, Worker, Alone, Resuming, CallTool, Arm, Dispatch, ConnectFails, Receive,
       LoseAnswer, Result, Note, EndTurn, EndLoop, Reported, StartEvaluate, SkipEvaluate, Evaluated,
       EvaluateUnanswered, StartDelete, Deleted, Finish, Settle, Resume, Probe, NoteDangling, Resolve, Resumed
  <2> QED  BY <1>4, <2>1 DEF Reporting
<1>5. SendReport => pc' # "reports"
  BY DEF SendReport
<1> QED  BY <1>1, <1>2, <1>3, <1>4, <1>5

LEMMA ReportingByGym ==
  ASSUME Shape, Stopping, Alone, Reporting, UNCHANGED loop, NEW r \in Request, Handle(r)
  PROVE  Reporting'
<1>1. UNCHANGED <<pc, deferred>> /\ InFlight(r) /\ \A q \in Request : InFlight(q)' => InFlight(q)
  BY HandledWasInFlight DEF loop
<1>2. ASSUME pc = "reporting", At(ReportOf(Head(deferred)), "answered")' PROVE Settled(Head(deferred))'
  <2>0. PICK n \in Calls : n = Head(deferred)
    BY <1>2 DEF Shape, LoopTypeOK
  <2>1. r = ReportOf(n) /\ r.op = "report"
    BY <1>1, <1>2, <2>0, NamedRequests DEF Reporting, ReportOf, InFlight, At
  <2>2. ~IsToolCall(r) /\ r.op \notin Ends /\ ~Loaded(r)'
    BY <1>1, <1>2, <2>0, <2>1 DEF IsToolCall, Tools, Ends, Loaded, At
  <2>3. rec'.ledger = Marked(req[r].snap).ledger
    <3>1. Saves(r)
      BY <2>2, Ledgers DEF Refuses, Loads, Works, Records, RecordStep
    <3> QED  BY <2>2, <3>1 DEF Saves
  <2>4. MarkedAfter(n, rec'.ledger)
    BY <2>3, EpisodeLedgers, MarkCovers
  <2>5. \A q \in Request : ~InFlight(q)' /\ ~Loaded(q)'
    BY <1>1, <1>2, <2>0, <2>1, OwnRequest DEF Reporting, InFlight, At, Loaded
  <2>6. pc' \in Fin
    BY <1>1, <1>2 DEF Fin
  <2>7. Settled(n)'
    BY <2>4, <2>5, <2>6 DEF Settled, CallsOver
  <2> QED  BY <1>1, <2>0, <2>7
<1> QED  BY <1>1, <1>2 DEF Reporting, InFlight

LEMMA ReportingAside ==
  ASSUME Shape, Stopping, Alone, Reporting, Aside
  PROVE  Reporting'
<1>1. UNCHANGED <<pc, deferred>>
  BY DEF Aside, loop
<1>2. ASSUME pc \in {"reports", "reporting"}, NEW q \in Request
      PROVE  req'[q] = req[q] \/ req'[q] = Idle
  BY <1>2 DEF Aside
<1>3. ASSUME pc \in {"reports", "reporting"}, NEW q \in Request
      PROVE  (InFlight(q)' => InFlight(q)) /\ (At(q, "answered")' => At(q, "answered"))
  BY <1>2, <1>3 DEF InFlight, At, Idle
<1>4. ASSUME pc = "reporting", At(ReportOf(Head(deferred)), "answered")' PROVE Settled(Head(deferred))'
  <2>0. PICK n \in Calls : n = Head(deferred)
    BY <1>1, <1>4 DEF Shape, LoopTypeOK
  <2>1. ReportOf(n) \in Request
    BY NamedRequests
  <2>2. Settled(n)
    BY <1>1, <1>3, <1>4, <2>0, <2>1 DEF Reporting
  <2>3. Settled(n)'
    BY <2>2, SettledStays
  <2> QED  BY <1>1, <2>0, <2>3
<1> QED  BY <1>1, <1>3, <1>4 DEF Reporting

\* Until its mark is in the record, a lost write is about to be noted or waits
\* for its report; and no evaluation grades a ledger that lacks the mark.
Waits(n) ==
  \/ pc = "note" /\ heard = "unknown" /\ cur.op = "write_file" /\ cur.n = n
  \/ \E i \in DOMAIN deferred : deferred[i] = n
Doubted ==
  \A n \in Calls \cup {0} : Lost(n) =>
    /\ Waits(n) \/ Settled(n)
    /\ \A g \in Range(grades) : MarkedAfter(n, g)

\* A write that waits is given its report, and that marks it.
LEMMA WaitsOrSettled ==
  ASSUME Shape, Alone, Stopping, Reporting, Harmed \/ deferred = << >>, Lives, Mild',
         NEW n, Waits(n)
  PROVE  Waits(n)' \/ Settled(n)'
<1>0. deferred \in Seq(Calls) /\ cur.n \in Calls \cup {0}
  BY DEF Shape, LoopTypeOK, Request
<1>1. CASE Note
  <2>1. CASE heard = "unknown" /\ cur.op = "write_file"
    <3> DEFINE longer == Append(deferred, cur.n)
    <3>1. cur.n \in Calls
      BY <2>1 DEF Shape, LoopTypeOK, Request, Tools
    <3>2. /\ DOMAIN longer = 1 .. Len(deferred) + 1 /\ DOMAIN deferred = 1 .. Len(deferred)
          /\ Len(deferred) \in Nat
          /\ \A i \in 1 .. Len(deferred) : longer[i] = deferred[i]
          /\ longer[Len(deferred) + 1] = cur.n
      BY <1>0, <3>1, AppendProperties
    <3>3. deferred' = longer
      BY <1>1, <2>1 DEF Note
    <3> HIDE DEF longer
    <3>4. \E i \in DOMAIN deferred' : deferred'[i] = n
      BY <3>2, <3>3 DEF Waits
    <3> QED  BY <3>4 DEF Waits
  <2>2. CASE ~(heard = "unknown" /\ cur.op = "write_file")
    BY <1>1, <2>2 DEF Note, Waits
  <2> QED  BY <2>1, <2>2
<1>2. CASE Reported
  <2>0. pc = "reporting" /\ deferred' = Tail(deferred) /\ deferred # << >>
    BY <1>2 DEF Reported, Shape
  <2>1. PICK i \in DOMAIN deferred : deferred[i] = n
    BY <2>0 DEF Waits
  <2>2. DOMAIN deferred = 1 .. Len(deferred) /\ Len(deferred) \in Nat
    BY <1>0
  <2>3. CASE i = 1
    <3>1. Head(deferred) = n
      BY <2>1, <2>3
    <3>2. At(ReportOf(n), "answered")
      BY <1>2, <2>0, <3>1, NoSecondLoss DEF Reported
    <3>3. Settled(n)
      BY <2>0, <3>1, <3>2 DEF Reporting
    <3> QED  BY <3>3, SettledStays
  <2>4. CASE i # 1
    <3>1. i - 1 \in DOMAIN Tail(deferred) /\ Tail(deferred)[i - 1] = deferred[i]
      BY <1>0, <2>0, <2>1, <2>2, <2>4
    <3> QED  BY <2>0, <2>1, <3>1 DEF Waits
  <2> QED  BY <2>3, <2>4
<1>3. CASE ~Note /\ ~Reported
  <2>1. UNCHANGED deferred /\ pc # "note"
    BY <1>3 DEF Lives, Worker, Alone, Resuming, CallTool, Arm, Dispatch, ConnectFails, Receive, LoseAnswer,
       Result, EndTurn, EndLoop, SendReport, StartEvaluate, SkipEvaluate, Evaluated,
       EvaluateUnanswered, StartDelete, Deleted, Finish, Settle, Resume, Probe, NoteDangling, Resolve, Resumed
  <2> QED  BY <2>1 DEF Waits
<1> QED  BY <1>1, <1>2, <1>3

LEMMA DoubtedByWorker ==
  ASSUME Shape, Alone, Stopping, Late, Reporting, Harmed \/ deferred = << >>, Doubted, Lives, Mild'
  PROVE  Doubted'
<1>0. UNCHANGED grades
  BY SentOrSame
<1>1. ASSUME NEW n \in Calls \cup {0}, Lost(n)
      PROVE  (Waits(n) \/ Settled(n))' /\ \A g \in Range(grades') : MarkedAfter(n, g)
  <2>1. (Waits(n) \/ Settled(n)) /\ \A g \in Range(grades) : MarkedAfter(n, g)
    BY <1>1 DEF Doubted
  <2>2. CASE Waits(n)
    BY <1>0, <2>1, <2>2, WaitsOrSettled
  <2>3. CASE Settled(n)
    BY <1>0, <2>1, <2>3, SettledStays
  <2> QED  BY <2>1, <2>2, <2>3
<1>2. ASSUME NEW n \in Calls \cup {0}, Lost(n)', ~Lost(n)
      PROVE  Waits(n)' /\ \A g \in Range(grades') : MarkedAfter(n, g)
  <2>1. PICK i \in DOMAIN events' : IsResult(i)' /\ events'[i].what = "unknown"
                 /\ events'[i].op = "write_file" /\ events'[i].n = n
    BY <1>2 DEF Lost
  <2>2. i \notin DOMAIN events
    BY <1>2, <2>1, LivingLog DEF Lost, IsResult
  <2>3. Result /\ events'[i] = Ev("tool.result", cur, heard)
    BY <2>1, <2>2, LivingLog DEF Adds, IsResult, Ev
  <2>4. heard = "unknown" /\ cur.op = "write_file" /\ cur.n = n
    BY <2>1, <2>3 DEF Ev
  <2>5. pc = "result" /\ pc' = "note" /\ UNCHANGED <<heard, cur>>
    BY <2>3, <2>4 DEF Result
  <2>6. DOMAIN grades = {}
    BY <2>5 DEF Late, Closing, Ending
  <2>7. \A g \in Range(grades) : MarkedAfter(n, g)
    BY <2>6, Zenon DEF Range
  <2> QED  BY <1>0, <2>4, <2>5, <2>7 DEF Waits
<1> QED  BY <1>1, <1>2 DEF Doubted

LEMMA DoubtedByGym ==
  ASSUME Shape, Alone, Stopping, Late, Doubted, UNCHANGED loop, NEW r \in Request, Handle(r)
  PROVE  Doubted'
<1>0. UNCHANGED <<pc, heard, cur, deferred, events>>
  BY DEF loop
<1> SUFFICES ASSUME NEW n \in Calls \cup {0}, Lost(n)
             PROVE  (Waits(n) \/ Settled(n))' /\ \A g \in Range(grades') : MarkedAfter(n, g)
  BY <1>0 DEF Doubted, Lost, IsResult
<1>1. (Waits(n) \/ Settled(n)) /\ \A g \in Range(grades) : MarkedAfter(n, g)
  BY DEF Doubted
<1>2. (Waits(n) \/ Settled(n))'
  <2>1. CASE Waits(n)
    BY <1>0, <2>1 DEF Waits
  <2>2. CASE Settled(n)
    BY <2>2, SettledStays
  <2> QED  BY <1>1, <2>1, <2>2
<1>3. CASE UNCHANGED grades
  BY <1>1, <1>2, <1>3
<1>4. CASE r = EvaluateIt /\ At(r, "test") /\ Loaded(r)
           /\ \A g \in Range(grades') : g = Copy(r) \/ g \in Range(grades)
  <2>1. pc \in Closing /\ deferred = << >>
    BY <1>4 DEF Late, At
  <2>2. Settled(n)
    BY <1>1, <2>1 DEF Waits, Closing, Ending
  <2> QED  BY <1>1, <1>2, <1>4, <2>2 DEF Settled
<1> QED  BY <1>3, <1>4, GradesByGym

LEMMA DoubtedAside ==
  ASSUME Shape, Alone, Stopping, Doubted, Aside
  PROVE  Doubted'
<1>0. UNCHANGED <<pc, heard, cur, deferred, events, grades>>
  BY DEF Aside, loop
<1> SUFFICES ASSUME NEW n \in Calls \cup {0}, Lost(n)
             PROVE  (Waits(n) \/ Settled(n))' /\ \A g \in Range(grades') : MarkedAfter(n, g)
  BY <1>0 DEF Doubted, Lost, IsResult
<1>1. (Waits(n) \/ Settled(n)) /\ \A g \in Range(grades) : MarkedAfter(n, g)
  BY DEF Doubted
<1>2. (Waits(n) \/ Settled(n))'
  <2>1. CASE Waits(n)
    BY <1>0, <2>1 DEF Waits
  <2>2. CASE Settled(n)
    BY <2>2, SettledStays
  <2> QED  BY <1>1, <2>1, <2>2
<1> QED  BY <1>0, <1>1, <1>2

\* What holds without a death, and what holds when one answer is lost at most.
Accounted ==
  /\ Founded /\ Answered
  /\ Deathless => Named /\ Late /\ Counted
  /\ Deathless /\ Mild => Reporting /\ Doubted

LEMMA NextAccounted ==
  ASSUME Patient, Accounted, [Next]_vars
  PROVE  Accounted'
<1>1. Founded' /\ Answered'
  BY NextShape, NextStopping, NextAlone, NextAnswered DEF Founded, Accounted
<1>2. Deathless' => Named' /\ Late' /\ Counted'
  BY NextNamed, NextLate, NextCounted DEF Accounted
<1>3. ASSUME Deathless', Mild' PROVE Reporting' /\ Doubted'
  <2>0. Shape /\ Stopping /\ Alone /\ Late /\ (Mild => Reporting /\ Doubted)
        /\ (Harmed \/ deferred = << >>)
    BY <1>3, DeathlessSteps DEF Accounted, Founded, Counted
  <2>1. CASE Lives
    BY <1>3, <2>0, <2>1, NoSecondLoss, ReportingByWorker, DoubtedByWorker
  <2>2. ASSUME UNCHANGED loop, NEW r \in Request, Handle(r) PROVE Reporting' /\ Doubted'
    <3>1. Mild
      BY <1>3, <2>2 DEF Mild, loop
    <3> QED  BY <2>0, <2>2, <3>1, ReportingByGym, DoubtedByGym
  <2>3. CASE Aside
    <3>1. Mild
      BY <1>3, <2>3 DEF Mild, Aside, loop
    <3> QED  BY <2>0, <2>3, <3>1, ReportingAside, DoubtedAside
  <2> QED  BY <1>3, <2>0, <2>1, <2>2, <2>3, LivingSteps
<1> QED  BY <1>1, <1>2, <1>3 DEF Accounted

LEMMA InitAccounted ==
  ASSUME Init
  PROVE  Accounted
<1>0. Answered
  BY DEF Init, Answered, MayDangle
<1>1. Shape /\ Stopping /\ Alone /\ Named
  BY InitShape, InitKept, InitAlone, InitNamed
<1>2. events = << >> /\ pc = "turn" /\ deferred = << >> /\ grades = << >> /\ req[EvaluateIt] = Idle
  BY NamedRequests DEF Init, EpisodeInit
<1>3. Late /\ Counted /\ Reporting
  BY <1>2 DEF Late, Closing, Ending, At, Idle, Counted, Unknown, Reporting
<1>4. Doubted
  BY <1>2 DEF Doubted, Lost
<1> QED  BY <1>0, <1>1, <1>3, <1>4 DEF Accounted, Founded

LEMMA AccountedIsEnough ==
  ASSUME Accounted, Trigger # "worker_crash"
  PROVE  LossLeavesAMark
<1> SUFFICES ASSUME OneLossOnly, NEW g \in Range(grades), NEW i \in WritesIn(events),
                    Outcome(events[i].n) \cap {"unknown", "synthetic"} # {}
             PROVE  \E j \in DOMAIN g :
                      /\ g[j].interrupted
                      /\ \A k \in DOMAIN g :
                           g[k].n = events[i].n /\ g[k].outcome \in {"ok", "ack_lost"} => k <= j
  BY DEF LossLeavesAMark
<1> DEFINE n == events[i].n
<1>1. Named /\ Counted /\ Doubted /\ Shape
  BY DEF Accounted, OneLossOnly, Deathless, Mild, Founded
<1>2. i \in DOMAIN events /\ IsCall(i) /\ events[i].op = "write_file" /\ n \in Calls
  BY <1>1 DEF WritesIn, CallsIn, IsCall, Shape, LogShape, CallShape, Request, Tools
<1>3. PICK k \in DOMAIN events : IsResult(k) /\ events[k].n = n /\ events[k].what \in {"unknown", "synthetic"}
  BY DEF Outcome, ResultsOf, IsResult
<1>4. events[k].what = "unknown"
  BY <1>1, <1>3 DEF Counted
<1>5. \A op : Called(op, n) => op = "write_file"
  BY <1>1, <1>2 DEF Called, Named
<1>6. events[k].op = "write_file"
  BY <1>1, <1>3, <1>5 DEF Named
<1>7. Lost(n)
  BY <1>3, <1>4, <1>6 DEF Lost
<1>8. MarkedAfter(n, g)
  BY <1>1, <1>2, <1>7 DEF Doubted
<1>9. \A j \in DOMAIN g : g[j].n = n /\ g[j].outcome \in {"ok", "ack_lost"} => g[j].tool = "write_file"
  BY <1>1, <1>5 DEF Named, Honest, Landed
<1> QED  BY <1>8, <1>9 DEF MarkedAfter, Landed

\* A write whose answer was lost, or given up by the planned abort, leaves an
\* interrupted row in every ledger that is graded, its own or one behind it, as
\* long as it is the run's one loss and its worker lives: the report sent when
\* the loop is over makes the mark, whatever calls ran beside the write, and no
\* abandoned call puts an older record back after it.
THEOREM LostWritesAreMarked ==
  ASSUME Patient, Trigger # "worker_crash"
  PROVE  Spec => []LossLeavesAMark
<1>1. Init => Accounted
  BY InitAccounted
<1>2. Accounted /\ [Next]_vars => Accounted'
  BY NextAccounted
<1>3. Accounted => LossLeavesAMark
  BY AccountedIsEnough
<1> QED  BY <1>1, <1>2, <1>3, PTL DEF Spec

-----------------------------------------------------------------------------
(* Without a death and an overlap, log and ledger tell the same of a call *)

\* No worker died, and no call ran beside an abandoned one.
Solo == Deathless /\ beside = {}

LEMMA SoloSteps ==
  ASSUME Shape, Deathless => Alone, Solo', [Next]_vars
  PROVE  Solo /\ beside = {} /\ Alone
<1>1. Deathless /\ Deathless' /\ Alone
  BY DeathlessSteps DEF Solo
<1>2. beside \subseteq beside'
  <2>1. CASE Lives
    BY <1>1, <2>1, LivingSends DEF Alone
  <2>2. CASE UNCHANGED loop
    BY <2>2 DEF loop
  <2> QED  BY <1>1, <2>1, <2>2, LivingSteps DEF Aside
<1> QED  BY <1>1, <1>2 DEF Solo

Tool(op, n) == [op |-> op, n |-> n]

LEMMA ToolRequest ==
  /\ \A r \in Request : IsToolCall(r) => r.op \in Tools /\ r.n \in Calls /\ r.n \in Nat /\ r = Tool(r.op, r.n)
  /\ \A op \in Tools, n \in Calls :
       Tool(op, n) \in Request /\ IsToolCall(Tool(op, n)) /\ Tool(op, n).op = op /\ Tool(op, n).n = n
<1>1. ASSUME NEW r \in Request, IsToolCall(r)
      PROVE  r.op \in Tools /\ r.n \in Calls /\ r.n \in Nat /\ r = Tool(r.op, r.n)
  BY <1>1, CallsAssumption DEF IsToolCall, Request, Tools, Tool
<1>2. ASSUME NEW op \in Tools, NEW n \in Calls
      PROVE  Tool(op, n) \in Request /\ IsToolCall(Tool(op, n)) /\ Tool(op, n).op = op /\ Tool(op, n).n = n
  BY NamedRequests DEF Tool, IsToolCall
<1> QED  BY <1>1, <1>2

LEMMA OneName ==
  ASSUME Named, NEW r \in Request, NEW q \in Request, IsToolCall(r), IsToolCall(q),
         ~At(r, "idle"), ~At(q, "idle"), r.n = q.n
  PROVE  r = q
<1>1. PICK i \in DOMAIN events : IsCall(i) /\ events[i].op = r.op /\ events[i].n = r.n
  BY DEF Named, Called
<1>2. PICK j \in DOMAIN events : IsCall(j) /\ events[j].op = q.op /\ events[j].n = q.n
  BY DEF Named, Called
<1>3. r.op = q.op
  BY <1>1, <1>2 DEF Named
<1> QED  BY <1>3, ToolRequest

\* Every call is sent once, in the order of the numbers: up to its dispatch it is
\* idle, and a call in flight is the latest that was sent.
Fresh ==
  /\ \A r \in Request : IsToolCall(r) /\ ~At(r, "idle") => r.n <= issued
  /\ pc \in {"arm", "mark", "dispatch"} => At(cur, "idle") /\ cur.n = issued
  /\ \A r, q \in Request :
       IsToolCall(r) /\ IsToolCall(q) /\ InFlight(r) /\ ~At(q, "idle") => q.n <= r.n

LEMMA Issuing ==
  ASSUME Shape, Alone, Lives
  PROVE  /\ issued \in Nat /\ issued' \in Nat /\ issued <= issued'
         /\ pc' \in {"arm", "mark", "dispatch"} =>
              \/ UNCHANGED <<req, issued, cur>> /\ pc \in {"arm", "mark", "dispatch"}
              \/ UNCHANGED req /\ IsToolCall(cur') /\ cur' \in Request /\ cur'.n = issued + 1 /\ issued' = issued + 1
<1>1. issued \in Nat
  BY CallsAssumption DEF Shape, LoopTypeOK
<1>2. ASSUME NEW tool \in Tools, CallTool(tool)
      PROVE  /\ issued' = issued + 1 /\ UNCHANGED req
             /\ IsToolCall(cur') /\ cur' \in Request /\ cur'.n = issued + 1
  <2>1. cur' = Tool(tool, issued + 1) /\ issued + 1 \in Calls /\ issued' = issued + 1 /\ UNCHANGED req
    BY <1>2 DEF CallTool, Tool, episode
  <2> QED  BY <2>1, ToolRequest
<1>3. CASE \A tool \in Tools : ~CallTool(tool)
  <2>1. UNCHANGED issued
    BY <1>3 DEF Lives, Worker, Alone, Resuming, quiet, keep, Arm, Dispatch, ConnectFails, Receive,
       LoseAnswer, Result, Note, EndTurn, EndLoop, SendReport, Reported, StartEvaluate, SkipEvaluate, Evaluated,
       EvaluateUnanswered, StartDelete, Deleted, Finish, Settle, Resume, Probe, NoteDangling, Resolve, Resumed
  <2>2. pc' \in {"arm", "mark", "dispatch"} => Arm
    BY <1>3 DEF Lives, Worker, Alone, Resuming, Dispatch, ConnectFails, Receive,
       LoseAnswer, Result, Note, EndTurn, EndLoop, SendReport, Reported, StartEvaluate, SkipEvaluate, Evaluated,
       EvaluateUnanswered, StartDelete, Deleted, Finish, Settle, Resume, Probe, NoteDangling, Resolve, Resumed
  <2>3. Arm => UNCHANGED <<req, issued, cur>> /\ pc \in {"arm", "mark"}
    BY DEF Arm, episode
  <2> QED  BY <1>1, <2>1, <2>2, <2>3
<1> QED  BY <1>1, <1>2, <1>3

LEMMA FreshByWorker ==
  ASSUME Shape, Patient, Alone, Fresh, Lives, beside' = {}
  PROVE  Fresh'
<1>0. /\ issued \in Nat /\ issued' \in Nat /\ issued <= issued'
      /\ pc' \in {"arm", "mark", "dispatch"} =>
           \/ UNCHANGED <<req, issued, cur>> /\ pc \in {"arm", "mark", "dispatch"}
           \/ UNCHANGED req /\ IsToolCall(cur') /\ cur' \in Request /\ cur'.n = issued + 1 /\ issued' = issued + 1
  BY Issuing
<1>1. \A q \in Request : IsToolCall(q) /\ req'[q] # req[q] =>
              \/ At(q, "sent") /\ req'[q] = Idle
              \/ q = cur /\ pc = "dispatch" /\ pc' = "wait"
  BY SentOrSame
<1>2. Alone'
  BY AloneByWorker
<1>3. ASSUME NEW r \in Request, IsToolCall(r), ~At(r, "idle")' PROVE r.n <= issued
  BY <1>0, <1>1, <1>3 DEF Fresh, At, Idle
<1>4. \A r \in Request : IsToolCall(r) => r.n \in Nat
  BY ToolRequest
<1>5. \A r \in Request : IsToolCall(r) /\ ~At(r, "idle")' => r.n <= issued'
  BY <1>0, <1>3, <1>4
<1>6. ASSUME pc' \in {"arm", "mark", "dispatch"} PROVE At(cur, "idle")' /\ cur'.n = issued'
  <2>1. CASE UNCHANGED <<req, issued, cur>> /\ pc \in {"arm", "mark", "dispatch"}
    BY <2>1 DEF Fresh, At
  <2>2. CASE UNCHANGED req /\ IsToolCall(cur') /\ cur' \in Request /\ cur'.n = issued + 1 /\ issued' = issued + 1
    <3>1. ~(cur'.n <= issued)
      BY <1>0, <2>2
    <3>2. At(cur', "idle")
      BY <2>2, <3>1 DEF Fresh
    <3> QED  BY <2>2, <3>2 DEF At
  <2> QED  BY <1>0, <1>6, <2>1, <2>2
<1>7. ASSUME NEW r \in Request, NEW q \in Request, IsToolCall(r), IsToolCall(q), InFlight(r)', ~At(q, "idle")'
      PROVE  q.n <= r.n
  <2>1. CASE r = cur /\ pc = "dispatch"
    <3>1. r.n = issued
      BY <2>1 DEF Fresh
    <3> QED  BY <1>3, <1>7, <3>1
  <2>2. CASE q = cur /\ pc = "dispatch" /\ pc' = "wait" /\ req'[q] # req[q]
    <3>1. CASE InFlight(q)'
      BY <1>2, <1>4, <1>7, <3>1 DEF Alone
    <3>2. CASE ~InFlight(q)'
      BY <1>7, <2>2, <3>2, SentOrSame DEF InFlight, At, Idle
    <3> QED  BY <3>1, <3>2
  <2>3. CASE req'[r] = req[r] /\ req'[q] = req[q]
    BY <1>7, <2>3 DEF Fresh, InFlight, At
  <2> QED  BY <1>1, <1>7, <2>1, <2>2, <2>3 DEF InFlight, At, Idle
<1> QED  BY <1>5, <1>6, <1>7 DEF Fresh

LEMMA FreshByOthers ==
  ASSUME Fresh, UNCHANGED loop,
         \A q \in Request : IsToolCall(q) => (InFlight(q)' => InFlight(q)) /\ (~At(q, "idle")' => ~At(q, "idle")),
         pc \in {"arm", "mark", "dispatch"} => req'[cur] = req[cur]
  PROVE  Fresh'
<1>1. UNCHANGED <<pc, cur, issued>>
  BY DEF loop
<1> QED  BY <1>1 DEF Fresh, At

LEMMA NextFresh ==
  ASSUME Patient, Founded, Solo => Fresh, [Next]_vars
  PROVE  Solo' => Fresh'
<1> SUFFICES ASSUME Solo', Deathless' PROVE Fresh'
  BY DEF Solo
<1>0. Alone /\ beside = {} /\ Fresh /\ Shape
  BY SoloSteps DEF Founded
<1>1. CASE Lives
  BY <1>0, <1>1, FreshByWorker DEF Solo
<1>2. ASSUME UNCHANGED loop, NEW r \in Request, Handle(r) PROVE Fresh'
  <2>1. \A q \in Request : (InFlight(q)' => InFlight(q)) /\ (~At(q, "idle")' => ~At(q, "idle"))
    BY <1>0, <1>2, HandledWasInFlight, HandlerMoves, OwnRequest DEF At
  <2>2. pc \in {"arm", "mark", "dispatch"} => req'[cur] = req[cur]
    <3>1. cur \in Request /\ ~At(r, "idle")
      BY <1>0, <1>2, HandlerMoves DEF Shape, LoopTypeOK
    <3> QED  BY <1>0, <1>2, <3>1, OwnRequest DEF Fresh
  <2> QED  BY <1>0, <1>2, <2>1, <2>2, FreshByOthers
<1>3. CASE Aside
  <2>1. ~IsToolCall(ExpireIt) /\ UNCHANGED loop
    BY <1>3 DEF IsToolCall, Tools, ExpireIt, Aside
  <2>2. \A q \in Request : IsToolCall(q) => req'[q] = req[q] \/ (At(q, "sent") /\ req'[q] = Idle)
    BY <1>3, <2>1 DEF Aside
  <2>3. pc \in {"arm", "mark", "dispatch"} => req'[cur] = req[cur]
    BY <1>0, <2>2 DEF Fresh, At, Shape, LoopTypeOK, Serving
  <2>4. \A q \in Request : IsToolCall(q) => (InFlight(q)' => InFlight(q)) /\ (~At(q, "idle")' => ~At(q, "idle"))
    BY <2>2 DEF InFlight, At, Idle
  <2> QED  BY <1>0, <2>1, <2>3, <2>4, FreshByOthers
<1> QED  BY <1>0, <1>1, <1>2, <1>3, LivingSteps

LEMMA InitFresh ==
  ASSUME Init
  PROVE  Fresh
  BY DEF Init, EpisodeInit, Fresh, At, InFlight, Idle

\* What is said of a call: its answer, or that there was none.
Says(r, what) ==
  \/ what = "unknown"
  \/ what = "refused" /\ At(r, "idle")
  \/ At(r, "answered") /\ req[r].answer = what
RowTold(answer) == IF answer = "gone" THEN "error" ELSE answer
RowTrue(row) ==
  row.n # 0 => /\ At(Tool(row.tool, row.n), "answered")
               /\ row.outcome = RowTold(req[Tool(row.tool, row.n)].answer)
RowsTrue(ledger) == \A i \in DOMAIN ledger : RowTrue(ledger[i])
Truthful ==
  /\ \A i \in DOMAIN events : IsResult(i) => Says(Tool(events[i].op, events[i].n), events[i].what)
  /\ pc = "result" => Says(cur, heard)
  /\ RowsTrue(rec.ledger)
  /\ \A r \in Request : Loaded(r) => RowsTrue(Copy(r))
  /\ \A g \in Range(grades) : RowsTrue(g)

\* A call that was answered, or refused, stays so.
Unheard(r) == r = cur /\ pc = "dispatch"
SaidStays ==
  \A q \in Request : IsToolCall(q) /\ ~Unheard(q) =>
    /\ At(q, "answered") => req'[q] = req[q]
    /\ At(q, "idle") => req'[q].phase = "idle"

LEMMA WhatWasSaid ==
  ASSUME Shape, Alone,
         Lives \/ Aside \/ (UNCHANGED loop /\ \E r \in Request : Handle(r))
  PROVE  SaidStays
<1>1. CASE Lives \/ Aside
  <2>1. \A q \in Request : IsToolCall(q) /\ req'[q] # req[q] =>
              \/ At(q, "sent") /\ req'[q] = Idle
              \/ q = cur /\ pc = "dispatch" /\ pc' = "wait"
    BY <1>1, SentOrSame
  <2> QED  BY <2>1 DEF SaidStays, Unheard, At
<1>2. ASSUME UNCHANGED loop, NEW r \in Request, Handle(r) PROVE SaidStays
  <2>1. ~At(r, "answered") /\ ~At(r, "idle")
    BY <1>2, HandledWasInFlight DEF InFlight, At
  <2> QED  BY <1>2, <2>1, OwnRequest DEF SaidStays, At
<1> QED  BY <1>1, <1>2

SaysThen(r, what) ==
  \/ what = "unknown"
  \/ what = "refused" /\ req'[r].phase = "idle"
  \/ req'[r].phase = "answered" /\ req'[r].answer = what
RowTrueThen(row) ==
  row.n # 0 => /\ req'[Tool(row.tool, row.n)].phase = "answered"
               /\ row.outcome = RowTold(req'[Tool(row.tool, row.n)].answer)
RowsTrueThen(ledger) == \A i \in DOMAIN ledger : RowTrueThen(ledger[i])

LEMMA SaysStays ==
  ASSUME SaidStays, NEW r \in Request, IsToolCall(r), ~Unheard(r), NEW what, Says(r, what)
  PROVE  SaysThen(r, what)
  BY DEF SaidStays, Says, SaysThen, At

LEMMA RowsStay ==
  ASSUME SaidStays, Fresh, NEW ledger \in Seq(Row), RowsTrue(ledger)
  PROVE  RowsTrueThen(ledger)
<1> SUFFICES ASSUME NEW i \in DOMAIN ledger, ledger[i].n # 0
             PROVE  RowTrueThen(ledger[i])
  BY DEF RowsTrueThen, RowTrueThen
<1> DEFINE r == Tool(ledger[i].tool, ledger[i].n)
<1>1. ledger[i] \in Row
  BY ElementOfSeq
<1>2. r \in Request /\ IsToolCall(r)
  BY <1>1, ToolRequest DEF Row
<1>3. At(r, "answered") /\ ledger[i].outcome = RowTold(req[r].answer)
  BY DEF RowsTrue, RowTrue
<1>4. ~Unheard(r)
  BY <1>3 DEF Unheard, Fresh, At
<1>5. req'[r] = req[r]
  BY <1>2, <1>3, <1>4 DEF SaidStays
<1> QED  BY <1>3, <1>5 DEF RowTrueThen, At

LEMMA ResultsStay ==
  ASSUME Shape, Answered, SaidStays, Truthful
  PROVE  /\ \A i \in DOMAIN events : IsResult(i) => SaysThen(Tool(events[i].op, events[i].n), events[i].what)
         /\ pc = "result" => SaysThen(cur, heard)
<1>1. ASSUME NEW i \in DOMAIN events, IsResult(i)
      PROVE  SaysThen(Tool(events[i].op, events[i].n), events[i].what)
  <2> DEFINE r == Tool(events[i].op, events[i].n)
  <2>1. r \in Request /\ IsToolCall(r) /\ r.n = events[i].n
    BY <1>1 DEF Shape, LogShape, CallShape, IsResult, Tool, IsToolCall
  <2>2. ~Unheard(r)
    BY <1>1, <2>1 DEF Unheard, Answered, MayDangle
  <2>3. Says(r, events[i].what)
    BY <1>1 DEF Truthful
  <2> HIDE DEF r
  <2>4. SaysThen(r, events[i].what)
    BY <2>1, <2>2, <2>3, SaysStays
  <2> QED  BY <2>4 DEF r
<1>2. ASSUME pc = "result" PROVE SaysThen(cur, heard)
  <2>1. cur \in Request /\ IsToolCall(cur) /\ ~Unheard(cur) /\ Says(cur, heard)
    BY <1>2 DEF Shape, LoopTypeOK, Serving, Unheard, Truthful
  <2> QED  BY <2>1, SaysStays
<1> QED  BY <1>1, <1>2

LEMMA TruthfulByWorker ==
  ASSUME Shape, Answered, Alone, Fresh, Truthful, Lives
  PROVE  Truthful'
<1>0. SaidStays
  BY WhatWasSaid
<1>1. /\ \A i \in DOMAIN events : IsResult(i) => SaysThen(Tool(events[i].op, events[i].n), events[i].what)
      /\ pc = "result" => SaysThen(cur, heard)
  BY <1>0, ResultsStay
<1>2. ASSUME NEW i \in DOMAIN events', IsResult(i)'
      PROVE  SaysThen(Tool(events'[i].op, events'[i].n), events'[i].what)
  <2>1. CASE i \in DOMAIN events
    BY <1>1, <1>2, <2>1, LivingLog DEF IsResult
  <2>2. CASE i \notin DOMAIN events
    <3>1. Result /\ events'[i] = Ev("tool.result", cur, heard)
      BY <1>2, <2>2, LivingLog DEF Adds, IsResult, Ev
    <3>2. pc = "result" /\ events'[i].op = cur.op /\ events'[i].n = cur.n /\ events'[i].what = heard
      BY <3>1 DEF Result, Ev
    <3>3. cur = Tool(cur.op, cur.n)
      BY <3>2, ToolRequest DEF Shape, LoopTypeOK, Serving
    <3> QED  BY <1>1, <3>2, <3>3
  <2> QED  BY <2>1, <2>2
<1>3. ASSUME pc' = "result" PROVE SaysThen(cur', heard')
  <2>1. CASE ConnectFails
    <3>1. At(cur, "idle") /\ UNCHANGED <<req, cur>> /\ heard' = "refused"
      BY <2>1 DEF ConnectFails, Fresh, episode
    <3> QED  BY <3>1 DEF SaysThen, At
  <2>2. CASE Receive
    BY <2>2 DEF Receive, SaysThen, At, episode
  <2>3. CASE LoseAnswer
    BY <2>3 DEF LoseAnswer, SaysThen
  <2>4. ConnectFails \/ Receive \/ LoseAnswer
    BY <1>3 DEF Lives, Worker, Alone, Resuming, CallTool, Arm, Dispatch,
       Result, Note, EndTurn, EndLoop, SendReport, Reported, StartEvaluate, SkipEvaluate, Evaluated,
       EvaluateUnanswered, StartDelete, Deleted, Finish, Settle, Resume, Probe, NoteDangling, Resolve, Resumed
  <2> QED  BY <2>1, <2>2, <2>3, <2>4
<1>4. UNCHANGED <<rec, grades>> /\ \A q \in Request : Loaded(q)' => Loaded(q) /\ UNCHANGED Copy(q)
  BY SentOrSame
<1>5. /\ RowsTrueThen(rec.ledger)
      /\ \A r \in Request : Loaded(r) => RowsTrueThen(Copy(r))
      /\ \A g \in Range(grades) : RowsTrueThen(g)
  BY <1>0, EpisodeLedgers, RowsStay DEF Truthful
<1>6. \A i \in DOMAIN events' : IsResult(i)' => Says(Tool(events[i].op, events[i].n), events[i].what)'
  BY <1>2 DEF Says, SaysThen, At
<1>7. pc' = "result" => Says(cur, heard)'
  BY <1>3 DEF Says, SaysThen, At
<1>8. /\ RowsTrue(rec.ledger)'
      /\ \A r \in Request : Loaded(r)' => RowsTrue(Copy(r))'
      /\ \A g \in Range(grades)' : RowsTrue(g)'
  BY <1>4, <1>5 DEF RowsTrue, RowsTrueThen, RowTrue, RowTrueThen, At
<1> QED  BY <1>6, <1>7, <1>8 DEF Truthful

LEMMA TrueByRow ==
  ASSUME NEW ledger \in Seq(Row), NEW row \in Row, RowsTrueThen(ledger), RowTrueThen(row)
  PROVE  RowsTrueThen(Append(ledger, row))
<1> DEFINE longer == Append(ledger, row)
<1>1. /\ DOMAIN longer = 1 .. Len(ledger) + 1 /\ DOMAIN ledger = 1 .. Len(ledger) /\ Len(ledger) \in Nat
      /\ \A i \in 1 .. Len(ledger) : longer[i] = ledger[i]
      /\ longer[Len(ledger) + 1] = row
  BY AppendProperties
<1> HIDE DEF longer
<1>2. RowsTrueThen(longer)
  BY <1>1 DEF RowsTrueThen
<1> QED  BY <1>2 DEF longer

LEMMA TrueByMark ==
  ASSUME NEW ep \in Record, RowsTrueThen(ep.ledger)
  PROVE  RowsTrueThen(Marked(ep).ledger)
<1>1. MarkedLike(Marked(ep).ledger, ep.ledger)
  BY MarkedAlike
<1> QED  BY <1>1, ZenonT(40) DEF MarkedLike, RowsTrueThen, RowTrueThen

LEMMA RecordsIsTrue ==
  ASSUME Shape, NEW r \in Request, Handle(r), Records(r)
  PROVE  RowOf(r) \in Row /\ RowTrueThen(RowOf(r)) /\ IsToolCall(r)
<1>1. IsToolCall(r) /\ req'[r].phase = "answered" /\ req'[r].answer = req[r].answer /\ RowOf(r) \in Row
  BY HandlerMoves DEF Records, RecordStep, Loaded, At
<1>2. r = Tool(r.op, r.n)
  BY <1>1, ToolRequest
<1>3. RowOf(r).tool = r.op /\ RowOf(r).n = r.n /\ RowOf(r).outcome = RowTold(req[r].answer)
  BY DEF RowOf, RowTold
<1> QED  BY <1>1, <1>2, <1>3 DEF RowTrueThen

LEMMA TruthfulByGym ==
  ASSUME Shape, Answered, Alone, Stopping, Fresh, Truthful, UNCHANGED loop, NEW r \in Request, Handle(r)
  PROVE  Truthful'
<1>0. /\ \A q \in Request : q # r => req'[q] = req[q] /\ Loaded(q)' = Loaded(q) /\ UNCHANGED Copy(q)
      /\ UNCHANGED <<pc, cur, heard, events>>
  BY OwnRequest DEF loop, Loaded, Copy
<1>1. SaidStays
  BY WhatWasSaid
<1>2. /\ \A i \in DOMAIN events : IsResult(i) => SaysThen(Tool(events[i].op, events[i].n), events[i].what)
      /\ pc = "result" => SaysThen(cur, heard)
  BY <1>1, ResultsStay
<1>3. /\ RowsTrueThen(rec.ledger)
      /\ \A q \in Request : Loaded(q) => RowsTrueThen(Copy(q))
      /\ \A g \in Range(grades) : RowsTrueThen(g)
  BY <1>1, EpisodeLedgers, RowsStay DEF Truthful
<1>4. RowsTrueThen(rec'.ledger) /\ (Loaded(r)' => RowsTrueThen(Copy(r)'))
  <2>1. CASE Refuses(r) \/ Loads(r) \/ Works(r)
    BY <1>3, <2>1 DEF Refuses, Loads, Works
  <2>2. CASE Records(r)
    <3>1. Copy(r) \in Seq(Row) /\ RowsTrueThen(Copy(r)) /\ RowOf(r) \in Row /\ RowTrueThen(RowOf(r))
      BY <1>3, <2>2, EpisodeLedgers, RecordsIsTrue DEF Records
    <3>2. RowsTrueThen(Append(Copy(r), RowOf(r)))
      BY <3>1, TrueByRow
    <3> QED  BY <2>2, <3>2 DEF Records
  <2>3. CASE Saves(r)
    <3>1. RowsTrueThen(Copy(r)) /\ RowsTrueThen(Marked(req[r].snap).ledger)
      BY <1>3, <2>3, EpisodeLedgers, TrueByMark DEF Saves, Copy
    <3> QED  BY <2>3, <3>1 DEF Saves
  <2> QED  BY <2>1, <2>2, <2>3, Ledgers
<1>5. \A q \in Request : Loaded(q)' => RowsTrueThen(Copy(q)')
  BY <1>0, <1>3, <1>4
<1>6. \A g \in Range(grades') : RowsTrueThen(g)
  BY <1>3, GradesByGym
<1>7. /\ RowsTrue(rec.ledger)'
      /\ \A q \in Request : Loaded(q)' => RowsTrue(Copy(q))'
      /\ \A g \in Range(grades)' : RowsTrue(g)'
  BY <1>4, <1>5, <1>6 DEF RowsTrue, RowsTrueThen, RowTrue, RowTrueThen, At
<1>8. /\ \A i \in DOMAIN events' : IsResult(i)' => Says(Tool(events[i].op, events[i].n), events[i].what)'
      /\ pc' = "result" => Says(cur, heard)'
  BY <1>0, <1>2 DEF Says, SaysThen, At, IsResult
<1> QED  BY <1>7, <1>8 DEF Truthful

LEMMA NextTruthful ==
  ASSUME Founded, Answered, Solo => Fresh /\ Truthful, [Next]_vars
  PROVE  Solo' => Truthful'
<1> SUFFICES ASSUME Solo', Deathless' PROVE Truthful'
  BY DEF Solo
<1>0. Alone /\ beside = {} /\ Fresh /\ Truthful /\ Shape /\ Stopping
  BY SoloSteps DEF Founded
<1>1. CASE Lives
  BY <1>0, <1>1, TruthfulByWorker
<1>2. ASSUME UNCHANGED loop, NEW r \in Request, Handle(r) PROVE Truthful'
  BY <1>0, <1>2, TruthfulByGym
<1>3. CASE Aside
  <2>0. UNCHANGED <<rec, grades, pc, cur, heard, events>>
    BY <1>3 DEF Aside, loop
  <2>1. SaidStays
    BY <1>0, <1>3, WhatWasSaid
  <2>2. /\ \A i \in DOMAIN events : IsResult(i) => SaysThen(Tool(events[i].op, events[i].n), events[i].what)
        /\ pc = "result" => SaysThen(cur, heard)
    BY <1>0, <2>1, ResultsStay
  <2>3. /\ RowsTrueThen(rec.ledger)
        /\ \A q \in Request : Loaded(q) => RowsTrueThen(Copy(q))
        /\ \A g \in Range(grades) : RowsTrueThen(g)
    BY <1>0, <2>1, EpisodeLedgers, RowsStay DEF Truthful
  <2>4. \A q \in Request : Loaded(q)' => Loaded(q) /\ UNCHANGED Copy(q)
    BY <1>0, <1>3, SentOrSame
  <2>5. /\ RowsTrue(rec.ledger)'
        /\ \A q \in Request : Loaded(q)' => RowsTrue(Copy(q))'
        /\ \A g \in Range(grades)' : RowsTrue(g)'
    BY <2>0, <2>3, <2>4 DEF RowsTrue, RowsTrueThen, RowTrue, RowTrueThen, At
  <2>6. /\ \A i \in DOMAIN events' : IsResult(i)' => Says(Tool(events[i].op, events[i].n), events[i].what)'
        /\ pc' = "result" => Says(cur, heard)'
    BY <2>0, <2>2 DEF Says, SaysThen, At, IsResult
  <2> QED  BY <2>5, <2>6 DEF Truthful
<1> QED  BY <1>0, <1>1, <1>2, <1>3, LivingSteps

LEMMA InitTruthful ==
  ASSUME Init
  PROVE  Truthful
<1>1. rec.ledger = << >> /\ grades = << >> /\ events = << >> /\ pc = "turn"
      /\ \A r \in Request : req[r] = Idle
  BY DEF Init, EpisodeInit, NewRecord
<1>2. DOMAIN rec.ledger = {} /\ DOMAIN grades = {} /\ DOMAIN events = {}
  BY <1>1
<1>3. RowsTrue(rec.ledger) /\ \A g \in Range(grades) : RowsTrue(g)
  BY <1>2, Zenon DEF RowsTrue, Range
<1> QED  BY <1>1, <1>2, <1>3 DEF Truthful, Idle, Loaded

\* The rows of calls are in the order of the calls, in the record and in every
\* copy and graded ledger.
Ascending(ledger) ==
  \A i, j \in DOMAIN ledger : i < j /\ ledger[i].n # 0 /\ ledger[j].n # 0 => ledger[i].n < ledger[j].n
InSequence ==
  /\ Ascending(rec.ledger)
  /\ \A r \in Request : Loaded(r) => Ascending(Copy(r))
  /\ \A g \in Range(grades) : Ascending(g)

LEMMA AscendingByRow ==
  ASSUME NEW ledger \in Seq(Row), NEW row \in Row, Ascending(ledger),
         \A i \in DOMAIN ledger : ledger[i].n # 0 => ledger[i].n < row.n
  PROVE  Ascending(Append(ledger, row))
<1> DEFINE longer == Append(ledger, row)
<1>1. /\ DOMAIN longer = 1 .. Len(ledger) + 1 /\ DOMAIN ledger = 1 .. Len(ledger) /\ Len(ledger) \in Nat
      /\ \A i \in 1 .. Len(ledger) : longer[i] = ledger[i]
      /\ longer[Len(ledger) + 1] = row
  BY AppendProperties
<1> HIDE DEF longer
<1>2. ASSUME NEW i \in DOMAIN longer, NEW j \in DOMAIN longer, i < j, longer[i].n # 0, longer[j].n # 0
      PROVE  longer[i].n < longer[j].n
  <2>1. i \in DOMAIN ledger /\ longer[i] = ledger[i]
    BY <1>1, <1>2
  <2>2. CASE j \in DOMAIN ledger
    BY <1>1, <1>2, <2>1, <2>2 DEF Ascending
  <2>3. CASE j \notin DOMAIN ledger
    <3>1. longer[j] = row
      BY <1>1, <1>2, <2>3
    <3> QED  BY <1>2, <2>1, <3>1
  <2> QED  BY <2>2, <2>3
<1>3. Ascending(longer)
  BY <1>2 DEF Ascending
<1> QED  BY <1>3 DEF longer

LEMMA AscendingByMark ==
  ASSUME NEW ep \in Record, Ascending(ep.ledger)
  PROVE  Ascending(Marked(ep).ledger)
<1>1. MarkedLike(Marked(ep).ledger, ep.ledger)
  BY MarkedAlike
<1> DEFINE new == Marked(ep).ledger  old == ep.ledger
<1>2. \A i \in DOMAIN new : new[i].n # 0 => i \in DOMAIN old /\ new[i].n = old[i].n
  BY <1>1 DEF MarkedLike
<1> HIDE DEF new
<1>3. Ascending(new)
  BY <1>2 DEF Ascending
<1> QED  BY <1>3 DEF new

\* A call that gets its row is the latest.
LEMMA LatestRow ==
  ASSUME Shape, Named, Fresh, Truthful, NEW r \in Request, InFlight(r), IsToolCall(r), Loaded(r),
         NEW i \in DOMAIN Copy(r), Copy(r)[i].n # 0
  PROVE  Copy(r)[i].n < r.n
<1> DEFINE row == Copy(r)[i]
           q == Tool(row.tool, row.n)
<1>1. row \in Row
  BY EpisodeLedgers, ElementOfSeq
<1>2. q \in Request /\ IsToolCall(q) /\ q.n = row.n /\ q.n \in Nat /\ r.n \in Nat
  BY <1>1, ToolRequest DEF Row
<1>3. At(q, "answered")
  BY DEF Truthful, RowsTrue, RowTrue
<1>4. q.n <= r.n
  BY <1>2, <1>3 DEF Fresh, At
<1>5. q.n # r.n
  BY <1>2, <1>3, OneName DEF InFlight, At
<1> QED  BY <1>2, <1>4, <1>5

LEMMA InSequenceByGym ==
  ASSUME Shape, Stopping, Named, Fresh, Truthful, InSequence, NEW r \in Request, Handle(r)
  PROVE  InSequence'
<1>0. \A q \in Request : q # r => Loaded(q)' = Loaded(q) /\ UNCHANGED Copy(q)
  BY OwnRequest DEF Loaded, Copy
<1>1. Ascending(rec'.ledger) /\ (Loaded(r)' => Ascending(Copy(r)'))
  <2>1. CASE Refuses(r) \/ Loads(r) \/ Works(r)
    BY <2>1 DEF Refuses, Loads, Works, InSequence
  <2>2. CASE Records(r)
    <3>1. Copy(r) \in Seq(Row) /\ RowOf(r) \in Row /\ IsToolCall(r) /\ RowOf(r).n = r.n /\ Loaded(r)
          /\ Ascending(Copy(r)) /\ InFlight(r)
      BY <2>2, EpisodeLedgers, RecordsIsTrue, HandledWasInFlight DEF Records, RowOf, InSequence
    <3>2. Ascending(Append(Copy(r), RowOf(r)))
      BY <3>1, LatestRow, AscendingByRow
    <3> QED  BY <2>2, <3>2 DEF Records
  <2>3. CASE Saves(r)
    <3>1. Ascending(Copy(r)) /\ Ascending(Marked(req[r].snap).ledger)
      BY <2>3, EpisodeLedgers, AscendingByMark DEF Saves, Copy, InSequence
    <3> QED  BY <2>3, <3>1 DEF Saves
  <2> QED  BY <2>1, <2>2, <2>3, Ledgers
<1>2. \A q \in Request : Loaded(q)' => Ascending(Copy(q)')
  BY <1>0, <1>1 DEF InSequence
<1>3. \A g \in Range(grades') : Ascending(g)
  BY GradesByGym DEF InSequence
<1> QED  BY <1>1, <1>2, <1>3 DEF InSequence

LEMMA NextInSequence ==
  ASSUME Founded, Solo => Named /\ Fresh /\ Truthful /\ InSequence, [Next]_vars
  PROVE  Solo' => InSequence'
<1> SUFFICES ASSUME Solo', Deathless' PROVE InSequence'
  BY DEF Solo
<1>0. Alone /\ beside = {} /\ Named /\ Fresh /\ Truthful /\ InSequence /\ Shape /\ Stopping
  BY SoloSteps DEF Founded
<1>1. CASE Lives \/ Aside
  <2>1. UNCHANGED <<rec, grades>> /\ \A q \in Request : Loaded(q)' => Loaded(q) /\ UNCHANGED Copy(q)
    BY <1>0, <1>1, SentOrSame
  <2> QED  BY <1>0, <2>1 DEF InSequence
<1>2. ASSUME NEW r \in Request, Handle(r) PROVE InSequence'
  BY <1>0, <1>2, InSequenceByGym
<1> QED  BY <1>0, <1>1, <1>2, LivingSteps

-----------------------------------------------------------------------------
(* A mark is at the last write that landed *)

\* A report that finds no such write adds a marked row, which names no call.
MarkedLast(ledger) ==
  \A i \in DOMAIN ledger :
    /\ ledger[i].n = 0 => ledger[i].interrupted
    /\ ledger[i].interrupted =>
         /\ Candidates(ledger) = {} => ledger[i].n = 0
         /\ Candidates(ledger) # {} => i \in Candidates(ledger) /\ \A j \in Candidates(ledger) : j <= i
Unmarked(ledger) == \A i \in DOMAIN ledger : ~ledger[i].interrupted

\* There are no marks before the calls are over.
Marking ==
  /\ MarkedLast(rec.ledger)
  /\ \A r \in Request : Loaded(r) => MarkedLast(Copy(r))
  /\ \A g \in Range(grades) : MarkedLast(g)
  /\ ~CallsOver => Unmarked(rec.ledger) /\ \A r \in Request : Loaded(r) => Unmarked(Copy(r))

LEMMA UnmarkedByRow ==
  ASSUME NEW ledger \in Seq(Row), NEW row \in Row, Unmarked(ledger), MarkedLast(ledger),
         ~row.interrupted, row.n # 0
  PROVE  Unmarked(Append(ledger, row)) /\ MarkedLast(Append(ledger, row))
<1> DEFINE longer == Append(ledger, row)
<1>1. /\ DOMAIN longer = 1 .. Len(ledger) + 1 /\ DOMAIN ledger = 1 .. Len(ledger) /\ Len(ledger) \in Nat
      /\ \A i \in 1 .. Len(ledger) : longer[i] = ledger[i]
      /\ longer[Len(ledger) + 1] = row
  BY AppendProperties
<1> HIDE DEF longer
<1>2. Unmarked(longer) /\ MarkedLast(longer)
  BY <1>1 DEF Unmarked, MarkedLast
<1> QED  BY <1>2 DEF longer

LEMMA MarkIsLast ==
  ASSUME NEW ep \in Record, MarkedLast(ep.ledger)
  PROVE  MarkedLast(Marked(ep).ledger)
<1> DEFINE old == ep.ledger  new == Marked(ep).ledger
<1>0. /\ old \in Seq(Row) /\ ep.step \in Nat
      /\ DOMAIN old = 1 .. Len(old) /\ Len(old) \in Nat
  BY DEF Record
<1>1. \A i \in DOMAIN old : old[i] \in Row
  BY <1>0, ElementOfSeq
<1>2. MarkedLike(new, old)
  BY MarkedAlike
<1>3. Candidates(new) = Candidates(old)
  BY <1>2 DEF MarkedLike, Candidates
<1>4. CASE Candidates(old) # {}
  <2> DEFINE k == Max(Candidates(old))
  <2>1. Candidates(old) \in SUBSET (1 .. Len(old))
    BY <1>0 DEF Candidates
  <2>2. k \in Candidates(old) /\ \A i \in Candidates(old) : i <= k
    BY <1>0, <1>4, <2>1, MaxIsIn
  <2>3. new = [old EXCEPT ![k].interrupted = TRUE]
    BY <1>0, <1>4 DEF Marked, Record
  <2> HIDE DEF k, new
  <2>4. \A i \in DOMAIN new : i \in DOMAIN old /\ (i # k => new[i] = old[i])
    BY <1>0, <2>3
  <2>5. \A i \in DOMAIN new : new[i].interrupted => i \in Candidates(old) /\ \A j \in Candidates(old) : j <= i
    BY <1>4, <2>2, <2>4 DEF MarkedLast
  <2>6. \A i \in DOMAIN new : new[i].n = 0 => new[i].interrupted
    BY <1>2 DEF MarkedLast, MarkedLike
  <2>7. MarkedLast(new)
    BY <1>3, <1>4, <2>5, <2>6 DEF MarkedLast
  <2> QED  BY <2>7 DEF new
<1>5. CASE Candidates(old) = {}
  <2> HIDE DEF new
  <2>1. new = Append(old, [n |-> 0, tool |-> "write_file", step |-> ep.step, outcome |-> "error",
                           fault |-> 0, interrupted |-> TRUE])
    BY <1>0, <1>5 DEF Marked, Record, new
  <2> DEFINE row == [n |-> 0, tool |-> "write_file", step |-> ep.step, outcome |-> "error",
                     fault |-> 0, interrupted |-> TRUE]
  <2>2. row \in Row
    BY <1>0, PlanAssumption DEF Row, Tools, Outcomes
  <2> HIDE DEF row
  <2>3. \A i \in DOMAIN old : new[i] = old[i]
    BY <1>0, <2>1, <2>2, AppendProperties DEF row
  <2>4. \A i \in DOMAIN new : new[i].interrupted => new[i].n = 0
    BY <1>2, <1>5, <2>3 DEF MarkedLast, MarkedLike
  <2>5. \A i \in DOMAIN new : new[i].n = 0 => new[i].interrupted
    BY <1>2 DEF MarkedLast, MarkedLike
  <2>6. MarkedLast(new)
    BY <1>3, <1>5, <2>4, <2>5 DEF MarkedLast
  <2> QED  BY <2>6 DEF new
<1> QED  BY <1>4, <1>5

LEMMA MarkingByGym ==
  ASSUME Shape, Patient, Stopping, Alone, beside = {}, Marking, UNCHANGED loop, NEW r \in Request, Handle(r)
  PROVE  Marking'
<1>0. \A q \in Request : q # r => req'[q] = req[q] /\ Loaded(q)' = Loaded(q) /\ UNCHANGED Copy(q)
  BY OwnRequest DEF Loaded, Copy
<1>1. CallsOver => CallsOver'
  BY CallsStayOver
<1>2. InFlight(r)
  BY HandledWasInFlight
<1>3. \A g \in Range(grades') : MarkedLast(g)
  BY GradesByGym DEF Marking
<1>4. CASE Refuses(r) \/ Loads(r) \/ Works(r)
  <2>1. UNCHANGED rec /\ (Loaded(r)' => Copy(r)' = rec.ledger \/ (Loaded(r) /\ UNCHANGED Copy(r)))
    BY <1>4 DEF Refuses, Loads, Works
  <2> QED  BY <1>0, <1>1, <1>3, <2>1 DEF Marking
<1>5. CASE Records(r)
  <2>1. Copy(r) \in Seq(Row) /\ RowOf(r) \in Row /\ IsToolCall(r) /\ ~RowOf(r).interrupted
        /\ Loaded(r) /\ ~Loaded(r)' /\ rec'.ledger = Append(Copy(r), RowOf(r))
    BY <1>5, EpisodeLedgers, RecordsIsTrue DEF Records, RowOf
  <2>2. ~CallsOver /\ Unmarked(Copy(r)) /\ MarkedLast(Copy(r)) /\ RowOf(r).n # 0
    BY <1>2, <2>1, ToolRequest, CallsAssumption DEF CallsOver, Marking, RowOf
  <2>3. Unmarked(rec'.ledger) /\ MarkedLast(rec'.ledger)
    BY <2>1, <2>2, UnmarkedByRow
  <2>4. \A q \in Request : ~Loaded(q)'
    BY <1>0, <1>2, <2>1 DEF Alone, Loaded, InFlight
  <2> QED  BY <1>3, <2>3, <2>4 DEF Marking
<1>6. CASE Saves(r)
  <2>1. CallsOver
    BY <1>2, <1>6 DEF CallsOver, Saves, Alone
  <2>2. MarkedLast(Copy(r)) /\ MarkedLast(Marked(req[r].snap).ledger)
    BY <1>6, EpisodeLedgers, MarkIsLast DEF Saves, Marking, Copy
  <2>3. MarkedLast(rec'.ledger) /\ ~Loaded(r)'
    BY <1>6, <2>2 DEF Saves
  <2> QED  BY <1>0, <1>1, <1>3, <2>1, <2>3 DEF Marking
<1> QED  BY <1>4, <1>5, <1>6, Ledgers

LEMMA NextMarking ==
  ASSUME Patient, Founded, Solo => Marking, [Next]_vars
  PROVE  Solo' => Marking'
<1> SUFFICES ASSUME Solo', Deathless' PROVE Marking'
  BY DEF Solo
<1>0. Alone /\ beside = {} /\ Marking /\ Shape /\ Stopping
  BY SoloSteps DEF Founded
<1>1. CASE Lives \/ Aside
  <2>1. UNCHANGED <<rec, grades>> /\ \A q \in Request : Loaded(q)' => Loaded(q) /\ UNCHANGED Copy(q)
    BY <1>0, <1>1, SentOrSame
  <2>2. CallsOver => CallsOver'
    BY <1>0, <1>1, CallsStayOver
  <2> QED  BY <1>0, <2>1, <2>2 DEF Marking
<1>2. ASSUME UNCHANGED loop, NEW r \in Request, Handle(r) PROVE Marking'
  BY <1>0, <1>2, MarkingByGym
<1> QED  BY <1>0, <1>1, <1>2, LivingSteps

LEMMA InitMarking ==
  ASSUME Init
  PROVE  InSequence /\ Marking
<1>1. rec.ledger = << >> /\ grades = << >> /\ \A r \in Request : req[r] = Idle
  BY DEF Init, EpisodeInit, NewRecord
<1>2. DOMAIN rec.ledger = {} /\ DOMAIN grades = {} /\ \A r \in Request : ~Loaded(r)
  BY <1>1 DEF Idle, Loaded
<1>3. \A g \in Range(grades) : FALSE
  BY <1>2, Zenon DEF Range
<1> QED  BY <1>2, <1>3 DEF InSequence, Marking, Ascending, MarkedLast, Unmarked

-----------------------------------------------------------------------------
(* The calls of the log and their one result *)

IsUnknown(i) == IsResult(i) /\ events[i].what = "unknown"

CallsInOrder ==
  /\ \A i, j \in DOMAIN events : IsCall(i) /\ IsCall(j) /\ i < j => events[i].n < events[j].n
  /\ pc \in Fin => \A i \in DOMAIN events : IsCall(i) =>
       \E j \in DOMAIN events : IsResult(j) /\ events[j].n = events[i].n

LEMMA CallsInOrderByWorker ==
  ASSUME Shape, Answered, Alone, CallsInOrder, Lives
  PROVE  CallsInOrder'
<1>0. /\ DOMAIN events \subseteq DOMAIN events' /\ \A i \in DOMAIN events : events'[i] = events[i]
      /\ \A i \in DOMAIN events' : i \in DOMAIN events \/ Adds(events'[i])
      /\ \A i, j \in DOMAIN events' : i \notin DOMAIN events /\ j \notin DOMAIN events => i = j
  BY LivingLog
<1>1. /\ DOMAIN events = 1 .. Len(events) /\ Len(events) \in Nat
      /\ DOMAIN events' = 1 .. Len(events') /\ Len(events') \in Nat
  <2>1. Shape'
    BY NextShape DEF Next, Lives
  <2> QED  BY <2>1 DEF Shape, LoopTypeOK
<1>2. ASSUME NEW i \in DOMAIN events', NEW j \in DOMAIN events', IsCall(i)', IsCall(j)', i < j
      PROVE  events'[i].n < events'[j].n
  <2>1. i \in DOMAIN events
    BY <1>0, <1>1, <1>2
  <2>2. CASE j \in DOMAIN events
    BY <1>0, <1>2, <2>1, <2>2 DEF CallsInOrder, IsCall
  <2>3. CASE j \notin DOMAIN events
    <3>1. PICK tool \in Tools : CallTool(tool) /\ events'[j] = Ev("tool.call", cur', "none")
      BY <1>0, <1>2, <2>3 DEF Adds, IsCall, Ev
    <3>2. events'[j].n = issued + 1
      BY <3>1 DEF Ev, CallTool
    <3>3. events[i].n <= issued /\ events[i].n \in Nat /\ issued \in Nat
      BY <1>0, <1>2, <2>1, Numbers, CallsAssumption DEF Answered, IsCall, Shape, LoopTypeOK
    <3> QED  BY <1>0, <2>1, <3>2, <3>3
  <2> QED  BY <2>2, <2>3
<1>3. ASSUME pc' \in Fin, NEW i \in DOMAIN events', IsCall(i)'
      PROVE  \E j \in DOMAIN events' : IsResult(j)' /\ events'[j].n = events'[i].n
  <2>1. pc \in Fin \cup {"turn", "note"}
    BY <1>3 DEF Fin, Ending, Lives, Worker, Alone, Resuming, CallTool, Arm, Dispatch, ConnectFails, Receive,
       LoseAnswer, Result, Note, EndTurn, EndLoop, SendReport, Reported, StartEvaluate, SkipEvaluate, Evaluated,
       EvaluateUnanswered, StartDelete, Deleted, Finish, Settle, Resume, Probe, NoteDangling, Resolve, Resumed
  <2>2. \A tool \in Tools : ~CallTool(tool)
    BY <1>3 DEF CallTool, Fin, Ending
  <2>3. i \in DOMAIN events /\ IsCall(i) /\ events'[i] = events[i]
    BY <1>0, <1>3, <2>2 DEF Adds, IsCall, Ev
  <2>4. PICK j \in DOMAIN events : IsResult(j) /\ events[j].n = events[i].n
    BY <2>1, <2>3 DEF CallsInOrder, Answered, Complete, MayDangle
  <2> QED  BY <1>0, <2>3, <2>4 DEF IsResult
<1> QED  BY <1>2, <1>3 DEF CallsInOrder

LEMMA NextCallsInOrder ==
  ASSUME Founded, Answered, Solo => CallsInOrder, [Next]_vars
  PROVE  Solo' => CallsInOrder'
<1> SUFFICES ASSUME Solo', Deathless' PROVE CallsInOrder'
  BY DEF Solo
<1>0. Alone /\ beside = {} /\ CallsInOrder /\ Shape
  BY SoloSteps DEF Founded
<1>1. CASE Lives
  BY <1>0, <1>1, CallsInOrderByWorker
<1>2. CASE UNCHANGED loop
  <2>1. UNCHANGED <<pc, events>>
    BY <1>2 DEF loop
  <2> QED  BY <1>0, <2>1 DEF CallsInOrder, IsCall, IsResult
<1> QED  BY <1>0, <1>1, <1>2, LivingSteps DEF Aside

LEMMA ResultIsCall ==
  ASSUME Shape, NEW i \in DOMAIN events, IsCall(i) \/ IsResult(i)
  PROVE  /\ Tool(events[i].op, events[i].n) \in Request /\ events[i].op \in Tools
         /\ events[i].n \in Calls /\ events[i].n \in Nat /\ events[i].n # 0
<1>1. CallShape(events[i])
  BY DEF Shape, LogShape
<1>2. Tool(events[i].op, events[i].n) \in Request /\ events[i].op \in Tools
  BY <1>1 DEF CallShape, IsCall, IsResult, Tool
<1>3. IsToolCall(Tool(events[i].op, events[i].n))
  BY <1>2 DEF IsToolCall, Tool
<1>4. events[i].n \in Calls
  BY <1>2, <1>3, ToolRequest DEF Tool
<1> QED  BY <1>2, <1>4, CallsAssumption

\* A ledger that is graded has all the calls that were served.
GradesKept ==
  \A g \in Range(grades) : \A i \in DOMAIN events :
    IsResult(i) /\ events[i].what \in Served => events[i].n \in Recorded(g)

LEMMA NextGradesKept ==
  ASSUME Founded, Solo => Late /\ Kept /\ GradesKept, [Next]_vars
  PROVE  Solo' => GradesKept'
<1> SUFFICES ASSUME Solo', Deathless' PROVE GradesKept'
  BY DEF Solo
<1>0. Alone /\ beside = {} /\ Late /\ Kept /\ GradesKept /\ Shape
  BY SoloSteps DEF Founded
<1>1. CASE Lives
  <2>1. UNCHANGED grades
    BY <1>0, <1>1, SentOrSame
  <2>2. CASE pc \in Closing
    <3>1. ASSUME NEW i \in DOMAIN events', IsResult(i)' PROVE i \in DOMAIN events /\ events'[i] = events[i]
      <4>1. ~Result
        BY <2>2 DEF Closing, Ending, Result
      <4> QED  BY <1>0, <1>1, <3>1, <4>1, LivingLog DEF Adds, IsResult, Ev
    <3> QED  BY <1>0, <2>1, <3>1 DEF GradesKept, IsResult
  <2>3. CASE pc \notin Closing
    <3>1. DOMAIN grades = {}
      BY <1>0, <2>3 DEF Late
    <3>2. Range(grades) = {}
      BY <3>1, Zenon DEF Range
    <3> QED  BY <2>1, <3>2 DEF GradesKept
  <2> QED  BY <2>2, <2>3
<1>2. ASSUME UNCHANGED loop, NEW r \in Request, Handle(r) PROVE GradesKept'
  <2>1. UNCHANGED events
    BY <1>2 DEF loop
  <2>2. \A g \in Range(grades') : g \in Range(grades) \/ (g = Copy(r) /\ Loaded(r))
    BY <1>0, <1>2, GradesByGym
  <2>3. ASSUME NEW i \in DOMAIN events, IsResult(i), events[i].what \in Served
        PROVE  Loaded(r) => events[i].n \in Recorded(Copy(r))
    <3>1. events[i].n \in Calls
      BY <1>0, <2>3, ResultIsCall
    <3> QED  BY <1>0, <2>3, <3>1 DEF Kept, Sure
  <2> QED  BY <1>0, <2>1, <2>2, <2>3 DEF GradesKept, IsResult
<1>3. CASE Aside
  BY <1>0, <1>3 DEF Aside, loop, GradesKept, IsResult
<1> QED  BY <1>0, <1>1, <1>2, <1>3, LivingSteps

\* When one answer is lost, no other call's outcome is unknown.
Single ==
  /\ \A i, j \in DOMAIN events : IsUnknown(i) /\ IsUnknown(j) => i = j
  /\ (pc = "result" /\ heard = "unknown") \/ (pc = "wait" /\ planned) => \A i \in DOMAIN events : ~IsUnknown(i)

LEMMA NoSecondFailure ==
  ASSUME Shape, Alone, Lives
  PROVE  Harmed /\ inflicted' = inflicted + 1 => ~Mild'
<1>1. /\ losses \in Nat /\ inflicted \in Nat /\ losses' \in Nat /\ inflicted' \in Nat
      /\ losses <= losses' /\ inflicted <= inflicted'
  BY CountsGrow
<1>2. /\ inflicted' = inflicted + 1 /\ (inflicted # 0 \/ losses # 0) => ~(inflicted' + losses' <= 1)
  BY <1>1, AtMostOne
<1>3. inflicted' + losses' = losses' + inflicted'
  BY <1>1
<1> QED  BY <1>2, <1>3 DEF Mild, Harmed

LEMMA SingleByWorker ==
  ASSUME Shape, Alone, Counted, Single, Lives, Mild'
  PROVE  Single'
<1>0. /\ DOMAIN events \subseteq DOMAIN events' /\ \A i \in DOMAIN events : events'[i] = events[i]
      /\ \A i \in DOMAIN events' : i \in DOMAIN events \/ Adds(events'[i])
      /\ \A i, j \in DOMAIN events' : i \notin DOMAIN events /\ j \notin DOMAIN events => i = j
  BY LivingLog
<1>1. ~Harmed => \A i \in DOMAIN events : ~IsUnknown(i)
  BY DEF Counted, Unknown, IsUnknown
<1>2. ASSUME NEW i \in DOMAIN events', IsUnknown(i)', i \notin DOMAIN events
      PROVE  Result /\ pc = "result" /\ heard = "unknown"
  BY <1>0, <1>2 DEF Adds, IsUnknown, IsResult, Ev, Result
<1>3. ASSUME NEW i \in DOMAIN events', NEW j \in DOMAIN events', IsUnknown(i)', IsUnknown(j)' PROVE i = j
  <2>1. CASE i \in DOMAIN events /\ j \in DOMAIN events
    BY <1>0, <1>3, <2>1 DEF Single, IsUnknown, IsResult
  <2>2. CASE i \notin DOMAIN events \/ j \notin DOMAIN events
    <3>1. \A k \in DOMAIN events : ~IsUnknown(k)
      BY <1>2, <1>3, <2>2 DEF Single
    <3>2. i \notin DOMAIN events /\ j \notin DOMAIN events
      BY <1>0, <1>3, <3>1 DEF IsUnknown, IsResult
    <3> QED  BY <1>0, <3>2
  <2> QED  BY <2>1, <2>2
<1>4. ASSUME (pc' = "result" /\ heard' = "unknown") \/ (pc' = "wait" /\ planned')
      PROVE  /\ \A i \in DOMAIN events : ~IsUnknown(i)
             /\ UNCHANGED events
  <2>1. CASE Dispatch
    <3>1. planned /\ inflicted' = inflicted + 1 /\ UNCHANGED events
      BY <1>4, <2>1 DEF Dispatch
    <3> QED  BY <1>1, <3>1, NoSecondFailure
  <2>2. CASE LoseAnswer
    <3>1. UNCHANGED events /\ (Lose \/ (planned /\ pc = "wait"))
      BY <2>2 DEF LoseAnswer
    <3> QED  BY <1>1, <3>1, NoSecondLoss DEF Single
  <2>3. CASE ~Dispatch /\ ~LoseAnswer
    <3>1. Receive
      BY <1>4, <2>3 DEF Lives, Worker, Alone, Resuming, CallTool, Arm, ConnectFails,
       Result, Note, EndTurn, EndLoop, SendReport, Reported, StartEvaluate, SkipEvaluate, Evaluated,
       EvaluateUnanswered, StartDelete, Deleted, Finish, Settle, Resume, Probe, NoteDangling, Resolve, Resumed
    <3>2. heard' \in Answers /\ pc' = "result"
      BY <3>1 DEF Receive, Shape, LoopTypeOK, TypeOK
    <3> QED  BY <1>4, <3>2 DEF Answers, Outcomes
  <2> QED  BY <2>1, <2>2, <2>3
<1>5. (pc' = "result" /\ heard' = "unknown") \/ (pc' = "wait" /\ planned') => \A i \in DOMAIN events' : ~IsUnknown(i)'
  BY <1>4 DEF IsUnknown, IsResult
<1> QED  BY <1>3, <1>5 DEF Single

LEMMA NextSingle ==
  ASSUME Founded, Solo => Counted, Solo /\ Mild => Single, [Next]_vars
  PROVE  Solo' /\ Mild' => Single'
<1> SUFFICES ASSUME Solo', Deathless', Mild' PROVE Single'
  BY DEF Solo
<1>0. Alone /\ beside = {} /\ Counted /\ (Mild => Single) /\ Shape
  BY SoloSteps DEF Founded
<1>1. CASE Lives
  BY <1>0, <1>1, NoSecondLoss, SingleByWorker
<1>2. CASE UNCHANGED loop
  <2>1. Mild /\ UNCHANGED <<pc, heard, planned, events>>
    BY <1>2 DEF Mild, loop
  <2> QED  BY <1>0, <2>1 DEF Single, IsUnknown, IsResult
<1> QED  BY <1>0, <1>1, <1>2, LivingSteps DEF Aside

-----------------------------------------------------------------------------
(* The acknowledgement that the environment loses *)

NoAckLost == \A i \in DOMAIN Plan : Plan[i].kind # "ack_lost"

\* It is that of a write, and there is such an entry in the plan.
Lossy ==
  \A r \in Request :
    KindOf(r) = "ack_lost" \/ req[r].answer = "ack_lost" => r.op = "write_file" /\ ~NoAckLost

LEMMA DecideBites ==
  ASSUME NEW hits, NEW tool
  PROVE  LET i == Decide(hits, tool) IN i # 0 => i \in DOMAIN Plan /\ Bites(Plan[i].kind, tool)
<1> DEFINE biting == {i \in DOMAIN Plan : hits[i] > 0 /\ Bites(Plan[i].kind, tool)}
<1>1. biting \in SUBSET Nat
  BY PlanAssumption
<1>2. biting # {} => Min(biting) \in biting
  BY <1>1, MinIsIn
<1> QED  BY <1>2 DEF Decide

LEMMA NextLossy ==
  ASSUME Shape, Lossy, [Next]_vars
  PROVE  Lossy'
<1>0. DOMAIN req = Request /\ \A r \in Request : req[r] \in ReqType
  BY DEF Shape, LoopTypeOK, TypeOK, ReqType
<1>1. ASSUME NEW r \in Request, Handle(r),
             (req'[r].fault = req[r].fault \/ req'[r].fault = 0),
             req'[r].answer = req[r].answer \/ req'[r].answer # "ack_lost" \/ KindOf(r) = "ack_lost"
      PROVE  Lossy'
  <2>1. KindOf(r)' = "ack_lost" => KindOf(r) = "ack_lost"
    BY <1>1 DEF KindOf
  <2>2. req'[r].answer = "ack_lost" => KindOf(r) = "ack_lost" \/ req[r].answer = "ack_lost"
    BY <1>1
  <2>3. \A q \in Request : q # r => req'[q] = req[q] /\ KindOf(q)' = KindOf(q)
    BY <1>1, OwnRequest DEF KindOf
  <2> QED  BY <2>1, <2>2, <2>3 DEF Lossy
<1>2. ASSUME NEW r \in Request, Handle(r) PROVE Lossy'
  <2>1. CASE Begin(r) /\ rec.terminated
    <3>1. Answer(r, "gone")
      BY <2>1 DEF Begin
    <3>2. req'[r].fault = 0 /\ req'[r].answer = "gone"
      BY <1>0, <3>1 DEF Answer, Idle
    <3> QED  BY <1>1, <1>2, <3>2
  <2>2. CASE Begin(r) /\ ~rec.terminated
    <3> DEFINE i == Decide(rec.hits, r.op)
               bitten == i # 0 /\ Plan[i].kind # "ack_lost"
    <3>1. req' = [req EXCEPT ![r] =
             [phase |-> IF bitten THEN "record" ELSE "exec", snap |-> [rec EXCEPT !.step = @ + 1],
              fault |-> i, answer |-> IF bitten THEN "short_circuit" ELSE "none"]]
      BY <2>2, Zenon DEF Begin
    <3>2. i # 0 => i \in DOMAIN Plan /\ Bites(Plan[i].kind, r.op)
      BY DecideBites
    <3>3. IsToolCall(r)
      BY <2>2 DEF Begin
    <3> HIDE DEF i, bitten
    <3>4. req'[r].answer # "ack_lost" /\ req'[r].fault = i
      BY <1>0, <3>1
    <3>5. KindOf(r)' = "ack_lost" => r.op = "write_file" /\ ~NoAckLost
      BY <3>2, <3>3, <3>4 DEF KindOf, Bites, NoAckLost
    <3>6. \A q \in Request : q # r => req'[q] = req[q] /\ KindOf(q)' = KindOf(q)
      BY <1>2, OwnRequest DEF KindOf
    <3> QED  BY <3>4, <3>5, <3>6 DEF Lossy
  <2>3. CASE Exec(r)
    <3> DEFINE a == IF KindOf(r) = "ack_lost" THEN "ack_lost" ELSE "ok"
    <3>1. req' = [req EXCEPT ![r].phase = "record", ![r].answer = a]
      BY <2>3, Zenon DEF Exec
    <3>3. a # "ack_lost" \/ KindOf(r) = "ack_lost"
      OBVIOUS
    <3> HIDE DEF a
    <3>2. req'[r].answer = a /\ req'[r].fault = req[r].fault
      BY <1>0, <3>1 DEF ReqType
    <3> QED  BY <1>1, <1>2, <3>2, <3>3
  <2>4. CASE Denied(r) \/ Unavailable(r)
    <3>1. PICK a \in {"error", "gone"} : req' = [req EXCEPT ![r].phase = "record", ![r].fault = 0, ![r].answer = a]
      BY <2>4 DEF Denied, Unavailable
    <3>2. req'[r].answer = a /\ req'[r].fault = 0
      BY <1>0, <3>1 DEF ReqType
    <3> QED  BY <1>1, <1>2, <3>1, <3>2
  <2>5. CASE RecordStep(r) \/ ReportSave(r) \/ EvaluateSave(r) \/ DeleteSave(r)
    <3>1. PICK a \in {req[r].answer, "ok", "error"} : Answer(r, a)
      BY <2>5 DEF RecordStep, ReportSave, EvaluateSave, DeleteSave
    <3>2. req'[r].answer = a /\ req'[r].fault = 0
      BY <1>0, <3>1 DEF Answer, Idle
    <3> QED  BY <1>1, <1>2, <3>1, <3>2
  <2>6. CASE ReportLoad(r) \/ EvaluateLoad(r) \/ EvaluateFails(r) \/ EvaluateReload(r) \/ DeleteLoad(r)
    <3>1. PICK p \in Phases : LoadInto(r, rec, p)
      BY <2>6 DEF ReportLoad, EvaluateLoad, EvaluateFails, EvaluateReload, DeleteLoad, Phases
    <3>2. req'[r].answer = req[r].answer /\ req'[r].fault = req[r].fault
      BY <1>0, <3>1 DEF ReqType, LoadInto
    <3> QED  BY <1>1, <1>2, <3>2
  <2>7. CASE Evaluate(r) \/ DeleteStop(r)
    <3>1. PICK p \in Phases : Goto(r, p)
      BY <2>7 DEF Evaluate, DeleteStop, Phases
    <3>2. req'[r].answer = req[r].answer /\ req'[r].fault = req[r].fault
      BY <1>0, <3>1 DEF ReqType, Goto
    <3> QED  BY <1>1, <1>2, <3>2
  <2> QED  BY <1>2, <2>1, <2>2, <2>3, <2>4, <2>5, <2>6, <2>7 DEF Handle
<1>3. ASSUME \A q \in Request : req'[q] = req[q] \/ (req'[q].answer = "none" /\ req'[q].fault = 0) PROVE Lossy'
  BY <1>3 DEF Lossy, KindOf
<1>4. ASSUME UNCHANGED req \/ \E r \in Request : Send(r) PROVE Lossy'
  <2>1. ASSUME NEW r \in Request, Send(r) PROVE Lossy'
    <3>1. req'[r].answer = "none" /\ req'[r].fault = 0
      BY <1>0, <2>1 DEF Send, Idle
    <3>2. \A q \in Request : q # r => req'[q] = req[q]
      BY <2>1 DEF Send
    <3> QED  BY <1>3, <3>1, <3>2
  <2> QED  BY <1>3, <1>4, <2>1
<1>5. CASE Worker
  BY <1>4, <1>5, WorkerSends
<1>6. ASSUME NEW r \in Request, NeverArrives(r) PROVE Lossy'
  BY <1>0, <1>3, <1>6 DEF NeverArrives, Idle
<1>7. CASE Expire
  BY <1>4, <1>7, NamedRequests DEF Expire
<1>8. CASE Crash \/ BoxDies \/ UNCHANGED vars
  BY <1>4, <1>8 DEF Crash, Die, BoxDies, vars, episode
<1> QED  BY <1>2, <1>5, <1>6, <1>7, <1>8 DEF Next, Gym, Over

-----------------------------------------------------------------------------
(* Nothing lost, nothing reported *)

\* As long as no answer was lost there is no report, and so no mark.
Unhurt ==
  /\ Unmarked(rec.ledger)
  /\ \A r \in Request : Loaded(r) => Unmarked(Copy(r))
  /\ \A g \in Range(grades) : Unmarked(g)
  /\ \A r \in Request : r.op = "report" => At(r, "idle")

LEMMA UnhurtByGym ==
  ASSUME Shape, Stopping, Marking, Unhurt, NEW r \in Request, Handle(r)
  PROVE  Unhurt'
<1>0. \A q \in Request : q # r => req'[q] = req[q] /\ Loaded(q)' = Loaded(q) /\ UNCHANGED Copy(q)
  BY OwnRequest DEF Loaded, Copy
<1>1. r.op # "report"
  BY HandledWasInFlight DEF Unhurt, InFlight, At
<1>2. \A q \in Request : q.op = "report" => At(q, "idle")'
  BY <1>0, <1>1 DEF Unhurt, At
<1>3. \A g \in Range(grades') : Unmarked(g)
  BY GradesByGym DEF Unhurt
<1>4. Unmarked(rec'.ledger) /\ (Loaded(r)' => Unmarked(Copy(r)'))
  <2>1. CASE Refuses(r) \/ Loads(r) \/ Works(r)
    BY <2>1 DEF Refuses, Loads, Works, Unhurt
  <2>2. CASE Records(r)
    <3>1. Copy(r) \in Seq(Row) /\ RowOf(r) \in Row /\ ~RowOf(r).interrupted /\ RowOf(r).n # 0
          /\ Unmarked(Copy(r)) /\ MarkedLast(Copy(r))
      BY <2>2, EpisodeLedgers, CallsAssumption DEF Records, RowOf, Unhurt, Marking
    <3> QED  BY <2>2, <3>1, UnmarkedByRow DEF Records
  <2>3. CASE Saves(r)
    BY <1>1, <2>3 DEF Saves, ReportSave, Unhurt
  <2> QED  BY <2>1, <2>2, <2>3, Ledgers
<1> QED  BY <1>0, <1>2, <1>3, <1>4 DEF Unhurt

LEMMA NextUnhurt ==
  ASSUME Founded, Solo => Counted /\ Marking, Solo /\ ~Harmed => Unhurt, [Next]_vars
  PROVE  Solo' /\ ~Harmed' => Unhurt'
<1> SUFFICES ASSUME Solo', Deathless', ~Harmed' PROVE Unhurt'
  BY DEF Solo
<1>0. Alone /\ beside = {} /\ Counted /\ Marking /\ (~Harmed => Unhurt) /\ Shape /\ Stopping
  BY SoloSteps DEF Founded
<1>1. CASE Lives
  <2>1. ~Harmed /\ Unhurt /\ deferred = << >>
    BY <1>0, <1>1, CountsGrow DEF Counted
  <2>2. ~(pc = "reports" /\ pc' = "reporting")
    BY <1>0, <1>1, <2>1 DEF Lives, Worker, Alone, Resuming, CallTool, Arm, Dispatch, ConnectFails, Receive,
       LoseAnswer, Result, Note, EndTurn, EndLoop, SendReport, Reported, StartEvaluate, SkipEvaluate, Evaluated,
       EvaluateUnanswered, StartDelete, Deleted, Finish, Settle, Resume, Probe, NoteDangling, Resolve, Resumed
  <2>3. ASSUME NEW r \in Request, Sending(r) PROVE r.op # "report"
    BY <2>2, <2>3 DEF Sending, IsToolCall, Tools, EvaluateIt, DeleteIt
  <2>4. UNCHANGED req \/ \E r \in Request : Sending(r)
    BY <1>0, <1>1, LivingSends DEF Alone
  <2>5. \A q \in Request : q.op = "report" => req'[q] = req[q]
    <3>1. ASSUME NEW r \in Request, Sending(r) PROVE \A q \in Request : q.op = "report" => req'[q] = req[q]
      BY <1>0, <2>3, <3>1, SentOnly DEF Sending
    <3> QED  BY <2>4, <3>1
  <2>6. UNCHANGED <<rec, grades>> /\ \A q \in Request : Loaded(q)' => Loaded(q) /\ UNCHANGED Copy(q)
    BY <1>0, <1>1, SentOrSame
  <2> QED  BY <2>1, <2>5, <2>6 DEF Unhurt, At
<1>2. ASSUME UNCHANGED loop, NEW r \in Request, Handle(r) PROVE Unhurt'
  <2>1. ~Harmed
    BY <1>2 DEF loop, Harmed
  <2> QED  BY <1>0, <1>2, <2>1, UnhurtByGym
<1>3. CASE Aside
  <2>1. Unhurt
    BY <1>0, <1>3 DEF Aside, loop, Harmed
  <2>2. UNCHANGED <<rec, grades>> /\ \A q \in Request : Loaded(q)' => Loaded(q) /\ UNCHANGED Copy(q)
    BY <1>0, <1>3, SentOrSame
  <2>3. \A q \in Request : q.op = "report" => At(q, "idle")'
    BY <1>3, <2>1 DEF Aside, Unhurt, At, Idle, ExpireIt
  <2> QED  BY <2>1, <2>2, <2>3 DEF Unhurt
<1> QED  BY <1>0, <1>1, <1>2, <1>3, LivingSteps

\* No failure is inflicted that was not planned.
Calm == Trigger = "none" => ~planned /\ inflicted = 0

LEMMA NextCalm ==
  ASSUME Shape, Calm, [Next]_vars
  PROVE  Calm'
<1>1. ASSUME NEW tool \in Tools, CallTool(tool) PROVE Calm'
  BY <1>1 DEF CallTool, Hit, Calm
<1>2. CASE Arm \/ Dispatch
  BY <1>2 DEF Arm, Dispatch, Calm
<1>3. CASE Rest
  <2>1. UNCHANGED planned \/ planned' = FALSE
    BY <1>3 DEF Rest, ConnectFails, Receive, LoseAnswer, Result, Note, EndTurn, EndLoop, SendReport, Reported,
       StartEvaluate, SkipEvaluate, Evaluated, EvaluateUnanswered, StartDelete, Deleted, Finish, Settle,
       PlannedCrash, Die, Resume, Probe, NoteDangling, Resolve, Resumed, keep
  <2> QED  BY <1>3, <2>1, RestSteps DEF Calm
<1>4. CASE Crash
  BY <1>4 DEF Crash, Die, Calm
<1>5. CASE UNCHANGED loop
  BY <1>5 DEF loop, Calm
<1> QED  BY <1>1, <1>2, <1>3, <1>4, <1>5, WorkerRest, OtherSteps

-----------------------------------------------------------------------------
(* Without a rewrite, the grader judges what the agent did *)

\* What holds without a death, and what holds when one answer is lost at most.
Judged ==
  /\ Accounted /\ Lossy /\ Calm
  /\ Deathless => Kept
  /\ Solo => Fresh /\ Truthful /\ InSequence /\ Marking /\ CallsInOrder /\ GradesKept
  /\ Solo /\ Mild => Single
  /\ Solo /\ ~Harmed => Unhurt

LEMMA NextJudged ==
  ASSUME Patient, Judged, [Next]_vars
  PROVE  Judged'
<1>1. Accounted' /\ Founded /\ Answered /\ Shape /\ Stopping
  BY NextAccounted DEF Judged, Accounted, Founded
<1>2. Lossy' /\ Calm'
  BY <1>1, NextLossy, NextCalm DEF Judged
<1>3. (Deathless' => Kept') /\ (Solo' => Fresh' /\ Truthful')
  BY <1>1, NextKept, NextFresh, NextTruthful DEF Judged, Founded
<1>4. Solo' => InSequence' /\ Marking' /\ CallsInOrder'
  BY <1>1, NextInSequence, NextMarking, NextCallsInOrder DEF Judged, Accounted, Solo
<1>5. Solo' => GradesKept'
  BY <1>1, NextGradesKept DEF Judged, Accounted, Solo
<1>6. Solo' /\ Mild' => Single'
  BY <1>1, NextSingle DEF Judged, Accounted, Solo
<1>7. Solo' /\ ~Harmed' => Unhurt'
  BY <1>1, NextUnhurt DEF Judged, Accounted, Solo
<1> QED  BY <1>1, <1>2, <1>3, <1>4, <1>5, <1>6, <1>7 DEF Judged

LEMMA InitJudged ==
  ASSUME Init
  PROVE  Judged
<1>1. /\ pc = "turn" /\ events = << >> /\ grades = << >>
      /\ \A r \in Request : req[r] = Idle
  BY DEF Init, EpisodeInit
<1>2. DOMAIN events = {} /\ DOMAIN grades = {}
  BY <1>1
<1>3. Lossy /\ Calm /\ CallsInOrder /\ Single
  BY <1>1, <1>2 DEF Init, Lossy, Calm, KindOf, Idle, CallsInOrder, Single, Fin, Ending
<1>4. \A g \in Range(grades) : FALSE
  BY <1>2, Zenon DEF Range
<1>5. DOMAIN rec.ledger = {}
  BY DEF Init, EpisodeInit, NewRecord
<1>6. GradesKept /\ Unhurt
  BY <1>1, <1>4, <1>5 DEF GradesKept, Unhurt, Unmarked, Loaded, At, Idle
<1> QED  BY <1>3, <1>6, InitAccounted, InitKept, InitFresh, InitTruthful, InitMarking DEF Judged

\* All of it at once, when there is one kind of doubt.  Under a plan with an
\* ack_lost entry, that is only if no answer was lost.
Known ==
  /\ Shape /\ Answered /\ Named /\ Late /\ Counted /\ Doubted
  /\ Truthful /\ InSequence /\ Marking /\ CallsInOrder /\ GradesKept /\ Single /\ Lossy
  /\ NoAckLost \/ (~Harmed /\ Unhurt)

\* The write in doubt is the last of the log, no other answer is unknown.
LastWrite(w) ==
  /\ w \in DOMAIN events /\ IsCall(w) /\ events[w].op = "write_file"
  /\ \A i \in DOMAIN events : IsCall(i) /\ events[i].op = "write_file" => i <= w
OnlyUnknown(n) == \A u \in DOMAIN events : IsUnknown(u) => events[u].n = n

\* Its answer was lost, or the environment's acknowledgement was.
LEMMA DoubtIsLoss ==
  ASSUME Known, DoubtfulWrites # {}, Rewrites = {}
  PROVE  /\ LastWrite(FirstDoubt) /\ OnlyUnknown(events[FirstDoubt].n)
         /\ NoAckLost => Lost(events[FirstDoubt].n)
         /\ ~NoAckLost => Says(WriteOf(events[FirstDoubt].n), "ack_lost")
         /\ DoubtfulWrites = {FirstDoubt}
<1> DEFINE w == FirstDoubt
<1>0. Shape /\ Named /\ Counted /\ Truthful /\ Lossy /\ Single /\ (NoAckLost \/ ~Harmed)
  BY DEF Known
<1>1. DoubtfulWrites \in SUBSET Nat
  BY <1>0 DEF DoubtfulWrites, WritesIn, CallsIn, Shape, LoopTypeOK
<1>2. w \in DoubtfulWrites /\ \A i \in DoubtfulWrites : w <= i
  BY <1>1, MinIsIn DEF FirstDoubt
<1>3. w \in DOMAIN events /\ IsCall(w) /\ events[w].op = "write_file"
      /\ Outcome(events[w].n) \cap InDoubt # {}
  BY <1>2 DEF DoubtfulWrites, WritesIn, CallsIn, IsCall
<1>4. \A i \in DOMAIN events : IsCall(i) /\ events[i].op = "write_file" => ~(i > w)
  BY DEF Rewrites, WritesIn, CallsIn, IsCall
<1> HIDE DEF w
<1>5. LastWrite(w)
  BY <1>0, <1>3, <1>4 DEF LastWrite, Shape, LoopTypeOK
<1>6. PICK k \in DOMAIN events : IsResult(k) /\ events[k].n = events[w].n /\ events[k].what \in InDoubt
  BY <1>3 DEF Outcome, ResultsOf, IsResult
<1>7. events[k].op = "write_file"
  <2>1. Called(events[k].op, events[w].n)
    BY <1>0, <1>6 DEF Named
  <2> QED  BY <1>0, <1>3, <2>1 DEF Named, Called
<1>8. Says(WriteOf(events[w].n), events[k].what)
  BY <1>0, <1>6, <1>7 DEF Truthful, Tool, WriteOf
<1>9. events[k].what \in {"unknown", "ack_lost"}
  BY <1>0, <1>6 DEF Counted, InDoubt
<1>10. ASSUME NoAckLost PROVE Lost(events[w].n) /\ OnlyUnknown(events[w].n)
  <2>1. WriteOf(events[w].n) \in Request
    BY <1>0, <1>3, ResultIsCall DEF Tool, WriteOf
  <2>2. events[k].what = "unknown"
    BY <1>0, <1>8, <1>9, <1>10, <2>1 DEF Says, Lossy
  <2> QED  BY <1>0, <1>6, <1>7, <2>2 DEF Lost, Single, OnlyUnknown, IsUnknown
<1>11. ASSUME ~NoAckLost PROVE Says(WriteOf(events[w].n), "ack_lost") /\ OnlyUnknown(events[w].n)
  <2>1. ~Unknown
    BY <1>0, <1>11 DEF Counted
  <2>2. events[k].what = "ack_lost" /\ OnlyUnknown(events[w].n)
    BY <1>6, <1>9, <2>1 DEF Unknown, OnlyUnknown, IsUnknown
  <2> QED  BY <1>8, <2>2
<1>12. DoubtfulWrites = {w}
  <2>1. \A i \in DoubtfulWrites : ~(i > w)
    BY DEF Rewrites, DoubtfulWrites, w
  <2>2. \A i \in DoubtfulWrites : i = w
    BY <1>1, <1>2, <2>1
  <2> QED  BY <1>2, <2>2
<1> QED  BY <1>5, <1>10, <1>11, <1>12 DEF w

\* A row of a call has that call in the log, and its outcome is the answer.
LEMMA RowHasItsCall ==
  ASSUME Known, NEW g \in Range(grades), NEW j \in DOMAIN g, g[j].n # 0
  PROVE  /\ Called(g[j].tool, g[j].n)
         /\ g[j].n \in Calls /\ g[j].n \in Nat
         /\ At(Tool(g[j].tool, g[j].n), "answered")
         /\ g[j].outcome = RowTold(req[Tool(g[j].tool, g[j].n)].answer)
         /\ g[j].outcome = "ack_lost" => g[j].tool = "write_file" /\ ~NoAckLost
<1>0. Shape /\ Named /\ Truthful /\ Lossy
  BY DEF Known
<1>1. g[j] \in Row
  BY <1>0, EpisodeLedgers, ElementOfSeq
<1>2. PICK r \in Request : r = Tool(g[j].tool, g[j].n) /\ IsToolCall(r) /\ r.op = g[j].tool /\ r.n = g[j].n
                           /\ r.n \in Calls /\ r.n \in Nat
  BY <1>1, ToolRequest DEF Row
<1>3. At(r, "answered") /\ g[j].outcome = RowTold(req[r].answer)
  BY <1>0, <1>2 DEF Truthful, RowsTrue, RowTrue
<1>4. Called(g[j].tool, g[j].n)
  BY <1>0, <1>2, <1>3 DEF Named, At
<1>5. g[j].outcome = "ack_lost" => g[j].tool = "write_file" /\ ~NoAckLost
  BY <1>0, <1>2, <1>3 DEF RowTold, Lossy
<1> QED  BY <1>2, <1>3, <1>4, <1>5

\* Calls are in the order of their numbers.
LEMMA LaterCall ==
  ASSUME Known, NEW w \in DOMAIN events, IsCall(w), NEW c \in DOMAIN events, IsCall(c)
  PROVE  events[w].n < events[c].n <=> w < c
<1>0. Shape /\ CallsInOrder
  BY DEF Known
<1>1. w \in Nat /\ c \in Nat /\ events[w].n \in Nat /\ events[c].n \in Nat
  BY <1>0, Numbers DEF Shape, LoopTypeOK
<1>2. w < c => events[w].n < events[c].n
  BY <1>0 DEF CallsInOrder
<1>3. c < w => events[c].n < events[w].n
  BY <1>0 DEF CallsInOrder
<1> QED  BY <1>1, <1>2, <1>3

LEMMA GradedAtEnd ==
  ASSUME Known, NEW g \in Range(grades)
  PROVE  pc \in Fin
<1>1. DOMAIN grades # {}
  BY Zenon DEF Range
<1>2. grades # << >>
  BY <1>1
<1> QED  BY <1>2 DEF Known, Late, Closing, Fin

\* A row without its acknowledgement is of a write the agent is in doubt about.
LEMMA AckIsDoubt ==
  ASSUME Known, ~NoAckLost, NEW g \in Range(grades), NEW j \in DOMAIN g, g[j].n # 0, g[j].outcome = "ack_lost"
  PROVE  \E c \in DoubtfulWrites : events[c].n = g[j].n
<1>0. Named /\ Counted /\ Truthful /\ CallsInOrder /\ ~Harmed
  BY DEF Known
<1>1. PICK c \in DOMAIN events : IsCall(c) /\ events[c].op = "write_file" /\ events[c].n = g[j].n
  BY RowHasItsCall DEF Called
<1>2. PICK d \in DOMAIN events : IsResult(d) /\ events[d].n = events[c].n
  BY <1>0, <1>1, GradedAtEnd DEF CallsInOrder
<1>3. events[d].op = "write_file"
  BY <1>0, <1>1, <1>2 DEF Named, Called
<1>4. Says(Tool("write_file", g[j].n), events[d].what)
  BY <1>0, <1>1, <1>2, <1>3 DEF Truthful
<1>5. /\ At(Tool("write_file", g[j].n), "answered")
      /\ "ack_lost" = RowTold(req[Tool("write_file", g[j].n)].answer)
  BY RowHasItsCall
<1>6. events[d].what # "unknown"
  BY <1>0, <1>2 DEF Counted, Unknown
<1>7. events[d].what = "ack_lost"
  BY <1>4, <1>5, <1>6 DEF Says, At, RowTold
<1>8. c \in DoubtfulWrites
  BY <1>1, <1>2, <1>7 DEF DoubtfulWrites, WritesIn, CallsIn, Outcome, ResultsOf, InDoubt, IsCall, IsResult
<1> QED  BY <1>1, <1>8

\* The row of the write in doubt is marked, or says that its acknowledgement was
\* lost, no other does, and it is the last write.
LEMMA TheRowInDoubt ==
  ASSUME Known, NEW w, LastWrite(w), NoAckLost => Lost(events[w].n),
         ~NoAckLost => Says(WriteOf(events[w].n), "ack_lost"), DoubtfulWrites = {w},
         NEW g \in Range(grades), LandedIn(g, events[w].n)
  PROVE  \E k \in DOMAIN g :
           /\ g[k].n = events[w].n
           /\ Ambiguous(g) = {k}
           /\ \A j \in DOMAIN g : g[j].n # 0 /\ (k < j => g[j].tool # "write_file")
<1>0. Shape /\ Named /\ Doubted /\ MarkedLast(g) /\ Ascending(g) /\ Honest(g)
  BY DEF Known, Marking, InSequence, Named
<1>1. events[w].n \in Calls /\ events[w].n \in Nat /\ events[w].n # 0 /\ IsCall(w) /\ w \in DOMAIN events
      /\ events[w].op = "write_file"
  BY <1>0, ResultIsCall DEF LastWrite
<1>2. PICK k \in DOMAIN g : g[k].n = events[w].n /\ g[k].outcome \in {"ok", "ack_lost"}
  BY DEF LandedIn
<1>3. g \in Seq(Row) /\ DOMAIN g = 1 .. Len(g) /\ Len(g) \in Nat
  BY <1>0, EpisodeLedgers
<1>4. g[k].tool = "write_file"
  BY <1>0, <1>1, <1>2 DEF Honest, Landed, Called, Named
<1>5. k \in Candidates(g)
  BY <1>2, <1>4 DEF Candidates
<1>6. \A j \in DOMAIN g : g[j].n # 0
  <2> SUFFICES ASSUME NEW j \in DOMAIN g, g[j].n = 0 PROVE FALSE
    OBVIOUS
  <2>1. Landed(g[j])
    BY <1>0, <1>5 DEF MarkedLast, Candidates, Landed
  <2>2. PICK c \in DOMAIN events : IsCall(c) /\ events[c].n = 0
    BY <1>0, <2>1 DEF Honest, Called
  <2> QED  BY <1>0, <2>2, ResultIsCall
<1>7. ASSUME NEW j \in DOMAIN g, k < j PROVE g[j].tool # "write_file"
  <2>1. g[k].n < g[j].n
    BY <1>0, <1>6, <1>7 DEF Ascending
  <2>2. PICK c \in DOMAIN events : IsCall(c) /\ events[c].op = g[j].tool /\ events[c].n = g[j].n
    BY <1>6, RowHasItsCall DEF Called
  <2>3. w < c
    BY <1>1, <1>2, <2>1, <2>2, LaterCall
  <2>4. w \in Nat /\ c \in Nat
    BY <1>0, <1>1 DEF Shape, LoopTypeOK
  <2> QED  BY <2>2, <2>3, <2>4 DEF LastWrite
<1>8. ASSUME NEW j \in DOMAIN g, g[j].interrupted PROVE j = k
  <2>1. j \in Candidates(g) /\ k <= j
    BY <1>0, <1>5, <1>8 DEF MarkedLast
  <2> QED  BY <1>3, <1>7, <2>1 DEF Candidates
<1>9. CASE NoAckLost
  <2>1. MarkedAfter(events[w].n, g)
    BY <1>0, <1>1, <1>9 DEF Doubted
  <2>2. \E j \in DOMAIN g : g[j].interrupted
    BY <2>1 DEF MarkedAfter
  <2>3. g[k].interrupted
    BY <1>3, <1>8, <2>2
  <2>4. \A j \in DOMAIN g : g[j].outcome # "ack_lost"
    BY <1>6, <1>9, RowHasItsCall
  <2>5. Ambiguous(g) = {k}
    BY <1>8, <2>3, <2>4 DEF Ambiguous
  <2> QED  BY <1>2, <1>6, <1>7, <2>5
<1>10. CASE ~NoAckLost
  <2>1. \A j \in DOMAIN g : ~g[j].interrupted
    BY <1>10 DEF Known, Unhurt, Unmarked
  <2>2. g[k].outcome = "ack_lost"
    <3>1. Tool(g[k].tool, g[k].n) = WriteOf(events[w].n)
      BY <1>2, <1>4 DEF Tool, WriteOf
    <3>2. At(WriteOf(events[w].n), "answered") /\ g[k].outcome = RowTold(req[WriteOf(events[w].n)].answer)
      BY <1>6, <3>1, RowHasItsCall
    <3> QED  BY <1>10, <3>2 DEF Says, At, RowTold
  <2>3. ASSUME NEW j \in DOMAIN g, g[j].outcome = "ack_lost" PROVE j = k
    <3>1. g[j].tool = "write_file"
      BY <1>6, <2>3, RowHasItsCall
    <3>2. ~(k < j)
      BY <1>7, <3>1
    <3>3. g[j].n = g[k].n
      BY <1>2, <1>6, <1>10, <2>3, AckIsDoubt
    <3>4. j < k => g[j].n < g[k].n
      BY <1>0, <1>6 DEF Ascending
    <3> QED  BY <1>1, <1>2, <1>3, <3>2, <3>3, <3>4
  <2>4. Ambiguous(g) = {k}
    BY <2>1, <2>2, <2>3 DEF Ambiguous
  <2> QED  BY <1>2, <1>6, <1>7, <2>4
<1> QED  BY <1>9, <1>10

\* A read that came back behind the write is one the ledger has behind it.
GoodReads(g, k) == {j \in k + 1 .. Len(g) : g[j].tool = "read_file" /\ g[j].outcome = "ok"}

LEMMA ReadInLedger ==
  ASSUME Known, NEW w, LastWrite(w), OnlyUnknown(events[w].n), w = FirstDoubt,
         NEW g \in Range(grades), NEW k \in DOMAIN g, g[k].n = events[w].n,
         \A j \in DOMAIN g : g[j].n # 0,
         GoodReads(g, k) # {}
  PROVE  ReadsBack # {}
<1>0. Shape /\ Named /\ Late /\ Answered /\ Truthful /\ Ascending(g) /\ CallsInOrder
  BY DEF Known, InSequence
<1>1. g \in Seq(Row) /\ DOMAIN g = 1 .. Len(g) /\ Len(g) \in Nat
  BY <1>0, EpisodeLedgers
<1>2. PICK j \in DOMAIN g : k < j /\ g[j].tool = "read_file" /\ g[j].outcome = "ok"
  BY <1>1 DEF GoodReads
<1>3. w \in DOMAIN events /\ IsCall(w)
  BY DEF LastWrite
<1>4. g[k].n < g[j].n
  BY <1>0, <1>2 DEF Ascending
<1>5. PICK c \in DOMAIN events : IsCall(c) /\ events[c].op = "read_file" /\ events[c].n = g[j].n
  BY <1>2, RowHasItsCall DEF Called
<1>6. w < c
  BY <1>3, <1>4, <1>5, LaterCall
<1>7. pc \in Fin
  BY GradedAtEnd
<1>8. PICK d \in DOMAIN events : IsResult(d) /\ events[d].n = events[c].n
  BY <1>0, <1>5, <1>7 DEF CallsInOrder
<1>9. events[d].op = "read_file"
  BY <1>0, <1>5, <1>8 DEF Named, Called
<1>10. events[d].what = "ok"
  <2>1. Says(Tool("read_file", g[j].n), events[d].what)
    BY <1>0, <1>5, <1>8, <1>9 DEF Truthful
  <2>2. At(Tool("read_file", g[j].n), "answered") /\ "ok" = RowTold(req[Tool("read_file", g[j].n)].answer)
    BY <1>2, RowHasItsCall
  <2>3. events[d].what # "unknown"
    <3>1. events[w].n # events[d].n
      <4>1. events[w].n \in Nat /\ events[d].n \in Nat
        BY <1>0, <1>3, <1>8, Numbers
      <4> QED  BY <1>4, <1>5, <1>8, <4>1
    <3> QED  BY <1>8, <3>1 DEF OnlyUnknown, IsUnknown
  <2> QED  BY <2>1, <2>2, <2>3 DEF Says, At, RowTold
<1>11. Outcome(events[c].n) = {"ok"}
  <2>1. ResultsOf(events, events[c].n) = {d}
    BY <1>0, <1>8 DEF ResultsOf, IsResult, Answered
  <2> QED  BY <1>10, <2>1 DEF Outcome
<1>12. c \in CallsIn(events) \ WritesIn(events)
  BY <1>5 DEF CallsIn, WritesIn, IsCall
<1>13. c > w
  BY <1>0, <1>3, <1>6 DEF Shape, LoopTypeOK
<1> QED  BY <1>11, <1>12, <1>13 DEF ReadsBack

LEMMA ReadInLog ==
  ASSUME Known, NEW w, LastWrite(w), w = FirstDoubt,
         NEW g \in Range(grades), NEW k \in DOMAIN g, g[k].n = events[w].n,
         \A j \in DOMAIN g : g[j].n # 0,
         ReadsBack # {}
  PROVE  GoodReads(g, k) # {}
<1>0. Shape /\ Named /\ Truthful /\ Ascending(g) /\ GradesKept
  BY DEF Known, InSequence
<1>1. g \in Seq(Row) /\ DOMAIN g = 1 .. Len(g) /\ Len(g) \in Nat
  BY <1>0, EpisodeLedgers
<1>2. PICK c \in DOMAIN events : IsCall(c) /\ events[c].op # "write_file" /\ c > w /\ Outcome(events[c].n) = {"ok"}
  BY DEF ReadsBack, CallsIn, WritesIn, IsCall
<1>3. w \in DOMAIN events /\ IsCall(w) /\ w < c
  BY <1>0, <1>2 DEF LastWrite, Shape, LoopTypeOK
<1>4. events[w].n < events[c].n /\ events[w].n \in Nat /\ events[c].n \in Nat
  BY <1>0, <1>2, <1>3, LaterCall, Numbers
<1>5. events[c].op = "read_file"
  BY <1>0, <1>2, ResultIsCall DEF Tools
<1>6. PICK d \in DOMAIN events : IsResult(d) /\ events[d].n = events[c].n /\ events[d].what = "ok"
  BY <1>2 DEF Outcome, ResultsOf, IsResult
<1>7. events[d].op = "read_file"
  BY <1>0, <1>2, <1>5, <1>6 DEF Named, Called
<1>8. events[c].n \in Recorded(g)
  BY <1>0, <1>6 DEF GradesKept, Served
<1>9. PICK j \in DOMAIN g : g[j].n = events[c].n
  BY <1>8 DEF Recorded
<1>10. g[j].tool = "read_file"
  BY <1>0, <1>2, <1>5, <1>9, RowHasItsCall DEF Called, Named
<1>11. g[j].outcome = "ok"
  <2>1. Says(Tool("read_file", events[c].n), "ok")
    BY <1>0, <1>6, <1>7 DEF Truthful
  <2>2. req[Tool("read_file", events[c].n)].answer = "ok"
    BY <2>1 DEF Says
  <2> QED  BY <1>9, <1>10, <2>2, RowHasItsCall DEF RowTold
<1>12. k < j
  <2>1. j < k => g[j].n < g[k].n
    BY <1>0 DEF Ascending
  <2> QED  BY <1>1, <1>4, <1>9, <2>1
<1> QED  BY <1>1, <1>10, <1>11, <1>12 DEF GoodReads

LEMMA JudgedIsEnough ==
  ASSUME Judged, Trigger # "worker_crash", NoAckLost \/ ~Harmed
  PROVE  NoRewriteIsJudgedRight
<1> SUFFICES ASSUME OneLossOnly, beside = {}, DoubtfulWrites # {}, Rewrites = {}, NEW g \in Range(grades),
                    LandedIn(g, events[FirstDoubt].n)
             PROVE  VerifiedBeforeRewrite(g) = AgentVerified
  BY DEF NoRewriteIsJudgedRight
<1>1. Known
  BY DEF Judged, Accounted, Founded, OneLossOnly, Solo, Deathless, Mild, Known
<1> DEFINE w == FirstDoubt
<1>2. /\ LastWrite(w) /\ OnlyUnknown(events[w].n) /\ DoubtfulWrites = {w}
      /\ NoAckLost => Lost(events[w].n)
      /\ ~NoAckLost => Says(WriteOf(events[w].n), "ack_lost")
  BY <1>1, DoubtIsLoss
<1>3. PICK k \in DOMAIN g :
         /\ g[k].n = events[w].n
         /\ Ambiguous(g) = {k}
         /\ \A j \in DOMAIN g : g[j].n # 0 /\ (k < j => g[j].tool # "write_file")
  BY <1>1, <1>2, TheRowInDoubt
<1>4. g \in Seq(Row) /\ DOMAIN g = 1 .. Len(g) /\ Len(g) \in Nat
  BY <1>1, EpisodeLedgers DEF Known
<1>5. VerifiedBeforeRewrite(g) <=> GoodReads(g, k) # {}
  <2>1. Min(Ambiguous(g)) = k
    <3>1. {k} \in SUBSET Nat
      BY <1>4
    <3> QED  BY <1>3, <3>1, MinIsIn
  <2>2. {j \in k + 1 .. Len(g) : g[j].tool = "write_file"} = {}
    BY <1>3, <1>4
  <2> QED  BY <1>3, <2>1, <2>2, Zenon DEF VerifiedBeforeRewrite, GoodReads
<1>6. AgentVerified <=> ReadsBack # {}
  BY DEF AgentVerified
<1>7. GoodReads(g, k) # {} <=> ReadsBack # {}
  BY <1>1, <1>2, <1>3, ReadInLedger, ReadInLog
<1>8. VerifiedBeforeRewrite(g) \in BOOLEAN /\ AgentVerified \in BOOLEAN
  BY DEF VerifiedBeforeRewrite, AgentVerified
<1> QED  BY <1>5, <1>6, <1>7, <1>8

\* When the agent is in doubt about one write, because its answer was lost or
\* given up by the planned abort, or because the environment lost the
\* acknowledgement, and it never writes the path again, then
\* verified_before_rewrite finds that it verified the write exactly if a read of
\* the path came back behind it: the interruption mark, or the ack_lost outcome,
\* is on the row of that write and on no other, and the rows behind it are the
\* calls the agent made behind it.  With both in one run it is false: if the
\* answer lost is that of the read, the ledger has a read the agent never saw.
THEOREM JudgementIsRight ==
  ASSUME Patient, Trigger # "worker_crash",
         NoAckLost \/ (MaxLosses = 0 /\ Trigger = "none")
  PROVE  Spec => []NoRewriteIsJudgedRight
<1>1. Init => Judged
  BY InitJudged
<1>2. Judged /\ [Next]_vars => Judged'
  BY NextJudged
<1>3. Judged => NoRewriteIsJudgedRight
  <2>1. Judged /\ ~NoAckLost => ~Harmed
    BY DEF Judged, Accounted, Founded, Shape, LoopTypeOK, Calm, Harmed
  <2> QED  BY <2>1, JudgedIsEnough
<1> QED  BY <1>1, <1>2, <1>3, PTL DEF Spec
=============================================================================
