------------------------------ MODULE Backfill ------------------------------
(***************************************************************************)
(* What becomes of runs older than the failure taxonomy (backfill.py): the *)
(* record of a pre-Store run and how it is imported, which stored run      *)
(* claims to be fine though nobody graded it, and the plan that corrects   *)
(* it: one marker event, then the row.                                     *)
(*                                                                         *)
(* An error text is what is_candidate and evaluation_error_class look for  *)
(* in it; an event says whether its output names a lost sandbox.           *)
(***************************************************************************)
EXTENDS StoreRows, FiniteSetsExt

CONSTANT LegacyUser     \* LEGACY_USER_ID, who owns what was imported

Errors == {None, "other", "evaluate", "evaluate_sandbox"}

\* The fields import_record and import_legacy_runs pin after the replay.
LegacyFields == {"status", "error", "evaluation", "usage"}

ScoreOf(rec) == rec.score

IsMarker(e) == e.type = "log" /\ e.use = "provenance.backfilled"
AlreadyBackfilled(rec) == \E i \in DOMAIN rec.events : IsMarker(rec.events[i])

Ungraded(rec) ==
  /\ rec.status = "ok"
  /\ ScoreOf(rec) = None
  /\ rec.error \in {"evaluate", "evaluate_sandbox"}

IsCandidate(rec) == Ungraded(rec) /\ ~AlreadyBackfilled(rec)

\* The first tool call that found the sandbox gone.
SandboxLoss(rec) ==
  {i \in DOMAIN rec.events : rec.events[i].type = "tool.result" /\ rec.events[i].gone}

\* mutant: ids taken to start at one.
NextSeq_FromOne(rec) == Cardinality(DOMAIN rec.events) + 1

\* One past the highest id.
NextSeq(rec) == IF DOMAIN rec.events = {} THEN 0 ELSE Max(DOMAIN rec.events) + 1

MarkerEvent(rec) ==
  [id |-> NextSeq(rec), type |-> "log", step |-> NoStep, use |-> "provenance.backfilled",
   gone |-> FALSE, tokens |-> 0, score |-> None, status |-> None, error |-> None]

\* evaluation_error_class
EvaluationClass(error) == IF error = "evaluate_sandbox" THEN "ESANDBOX" ELSE "EGYM"

\* plan_for, of a candidate.
PlanFields(rec) ==
  IF SandboxLoss(rec) # {}
    THEN [status |-> "interrupted", error_class |-> "ESANDBOX",
          interruptions |-> rec.interruptions
                              \cup {rec.events[Min(SandboxLoss(rec))].use}]
    ELSE [status |-> "unevaluated", error_class |-> EvaluationClass(rec.error)]

PlanFor(rec) == [run |-> rec.run, event |-> MarkerEvent(rec), fields |-> PlanFields(rec)]

\* What the import copies of a record besides its events.
Pinned(rec) ==
  LET f == [status |-> rec.status, error |-> rec.error, evaluation |-> rec.score,
            usage |-> rec.usage]
  IN  [k \in {k \in LegacyFields : k = "usage" \/ f[k] # None} |-> f[k]]

\* The events of a record, chunk by chunk.
Chunk(events, size, i) ==
  SubSeq(events, (i - 1) * size + 1, IF i * size < Len(events) THEN i * size ELSE Len(events))
Chunks(events, size) == (Len(events) + size - 1) \div size
=============================================================================
