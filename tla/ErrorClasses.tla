--------------------------- MODULE ErrorClasses ---------------------------
(***************************************************************************)
(* How the harness explains a tool result (classify.py, and the helpers    *)
(* of loop.py and mcp_client.py that feed it): from the reply, the faults  *)
(* that observe() shows since the last time, and what the client itself    *)
(* saw, to an outcome and an error class.  Pure operators.                 *)
(*                                                                         *)
(* A reply is [err, code, exit, lost]: is_error, the code in the payload,  *)
(* the shell's exit code, and transport_kind or "none".  Labels and detail *)
(* texts are left out.  Tri-state booleans are "yes", "no" and "unknown".  *)
(***************************************************************************)
EXTENDS Naturals, Sequences, FiniteSets, FiniteSetsExt, SequencesExt

Outcomes == {"executed", "failed", "not_executed", "unknown"}
Kinds == {"missing_file", "denied_write", "ack_lost"}
Layers == {"boundary", "filesystem", "sandbox", "transport", "harness", "model", "gym"}

Class(origin, layer, code, kind, known, applied) ==
  [origin |-> origin, layer |-> layer, code |-> code, kind |-> kind,
   known |-> known, applied |-> applied]
NoClass == Class("none", "none", "none", "none", TRUE, "unknown")

Real(layer, code, known, applied) == Class("real", layer, code, "none", known, applied)

-----------------------------------------------------------------------------
(* Which fault explains this call *)

KindOfCode(code) ==
  CASE code = "ENOENT" -> "missing_file"
    [] code = "EACCES" -> "denied_write"
    [] code = "ETIMEDOUT" -> "ack_lost"
    [] OTHER -> "none"

FaultKey(f) == <<f.step, f.kind, f.path, f.mode>>

\* mutant: the whole list every time
NewFaults_All(observed, seen) == observed

\* faults_fired is append-only: the suffix, then a guard by key.
NewFaults(observed, seen) ==
  IF Len(observed) <= Len(seen) THEN << >>
  ELSE LET keys == {FaultKey(seen[i]) : i \in DOMAIN seen}
       IN  FoldLeft(LAMBDA news, f : IF FaultKey(f) \in keys THEN news ELSE Append(news, f),
                    << >>, SubSeq(observed, Len(seen) + 1, Len(observed)))

Unexplained == [step |-> 0, kind |-> "none", path |-> ".", mode |-> "none", origin |-> "none"]

\* mutant: the first row of the delta, whatever the code
PickFault_First(fired, code) == IF fired = << >> THEN Unexplained ELSE fired[1]

\* Without a code (a shell result) the first row of the delta, otherwise the
\* first whose kind makes that code.
PickFault(fired, code) ==
  LET fits == {i \in DOMAIN fired : code = "none" \/ fired[i].kind = KindOfCode(code)}
  IN  IF fits = {} THEN Unexplained ELSE fired[Min(fits)]

\* Only when observe() is unavailable.
InferredFault(step, code, path) ==
  IF KindOfCode(code) = "none" THEN Unexplained
  ELSE [step |-> step, kind |-> KindOfCode(code), path |-> path, mode |-> "transient",
        origin |-> "injected"]

Explanation(fired, reply, observed, step, path) ==
  IF PickFault(fired, reply.code) # Unexplained THEN PickFault(fired, reply.code)
  ELSE IF reply.err /\ ~observed THEN InferredFault(step, reply.code, path)
  ELSE Unexplained

\* FAULT_PROFILE
FaultOutcome(f) ==
  CASE f.kind = "ack_lost" -> "unknown"
    [] f.origin = "staged" -> "failed"
    [] OTHER -> "not_executed"

FaultClass(f) ==
  CASE f.origin = "staged" -> Class("staged", "filesystem", "ENOENT", f.kind, TRUE, "unknown")
    [] f.kind = "missing_file" /\ f.origin = "injected" ->
         Class("injected", "boundary", "ENOENT", f.kind, TRUE, "no")
    [] f.kind = "denied_write" -> Class("injected", "boundary", "EACCES", f.kind, TRUE, "no")
    [] f.kind = "ack_lost" -> Class("injected", "boundary", "ETIMEDOUT", f.kind, FALSE, "yes")

-----------------------------------------------------------------------------
(* classify_result *)

Answered(outcome, class) == [outcome |-> outcome, class |-> class]

\* A shell does not raise: only the delta says that nothing ran.
Succeeded(reply, f) ==
  IF reply.exit = 0 THEN Answered("executed", NoClass)
  ELSE IF f # Unexplained THEN Answered(FaultOutcome(f), NoClass)
  ELSE Answered("failed", NoClass)

LostByUs(kind) ==
  Answered("unknown", Real("transport", IF kind = "timeout" THEN "ETIMEDOUT" ELSE "ETRANSPORT",
                           FALSE, "unknown"))

Unexplainable(code, observed) ==
  CASE code \in {"ENOENT", "EACCES"} -> Answered("failed", Real("filesystem", code, TRUE, "no"))
    [] code = "EINVAL" -> Answered("not_executed", Real("filesystem", code, TRUE, "no"))
    [] code = "ETRANSPORT" -> Answered("unknown", Real("transport", code, FALSE, "unknown"))
    [] code = "ETIMEDOUT" /\ observed ->
         Answered("unknown", Real("transport", code, FALSE, "unknown"))
    [] code = "ETIMEDOUT" /\ ~observed ->
         Answered("unknown", Class("injected", "boundary", code, "ack_lost", FALSE, "yes"))
    [] code = "ENOEPISODE" -> Answered("not_executed", Real("boundary", code, TRUE, "no"))
    [] OTHER -> Answered("not_executed", Real("boundary", "EINTERNAL", TRUE, "no"))

\* The client's own loss comes before everything the gym may say.
ClassifyResult(reply, f, observed) ==
  CASE ~reply.err -> Succeeded(reply, f)
    [] reply.err /\ reply.lost # "none" -> LostByUs(reply.lost)
    [] reply.err /\ reply.lost = "none" /\ reply.code = "ESANDBOX" ->
         Answered("not_executed", Real("sandbox", "ESANDBOX", TRUE, "no"))
    [] reply.err /\ reply.lost = "none" /\ reply.code # "ESANDBOX" /\ f # Unexplained ->
         Answered(FaultOutcome(f), FaultClass(f))
    [] OTHER -> Unexplainable(reply.code, observed)

-----------------------------------------------------------------------------
(* What the ledger says afterwards *)

\* ledger_side_effect: did the write or command of this row really run?
LedgerSideEffect(row) == row.outcome \in {"ok", "ack_lost"}
=============================================================================
