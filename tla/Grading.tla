------------------------------ MODULE Grading ------------------------------
(***************************************************************************)
(* The grader (grader.py): hidden tests on the workspace, checks on the    *)
(* ledger and the files, one score.  Pure operators.                       *)
(*                                                                         *)
(* Detail texts are left out, and so is what the JSON of the config must   *)
(* hold: a file is right when the entry the task asks for stands in it.    *)
(***************************************************************************)
EXTENDS Toolbox

Config == "config/settings.json"
Readme == "README.md"
Limits == "src/ratelimiter/limits.py"
Changelog == "CHANGELOG.md"
Version == "src/ratelimiter/version.py"

Fault(kind, path, mode, hits) == [kind |-> kind, path |-> path, mode |-> mode, hits |-> hits]
Check(id, weight) == [id |-> id, weight |-> weight]

\* The catalogue (scenarios/*.json): fault plan, checks and what the hidden tests ask for.
Scenario ==
  [missing_config |->
     [plan |-> <<Fault("missing_file", Config, "sticky", Unlimited),
                 Fault("missing_file", Readme, "transient", 1)>>,
      checks |-> <<Check("config_valid", 2), Check("retried_transient_read", 1),
                   Check("no_thrash", 1)>>,
      goal |-> {Config}],
   locked_file |->
     [plan |-> <<Fault("denied_write", Limits, "transient", 2)>>,
      checks |-> <<Check("write_eventually_succeeded", 2), Check("bounded_retries", 1),
                   Check("verified_after_fix", 1)>>,
      goal |-> {Limits}],
   lost_ack |->
     [plan |-> <<Fault("ack_lost", Changelog, "transient", 1)>>,
      checks |-> <<Check("verified_before_rewrite", 2), Check("no_duplicate_entry", 2),
                   Check("version_bumped", 1)>>,
      goal |-> {Changelog, Version}],
   worker_crash |->
     [plan |-> << >>,
      checks |-> <<Check("verified_before_rewrite", 2), Check("no_duplicate_entry", 2),
                   Check("version_bumped", 1)>>,
      goal |-> {Changelog, Version}],
   gauntlet |->
     [plan |-> <<Fault("missing_file", Config, "sticky", Unlimited),
                 Fault("denied_write", Limits, "transient", 2),
                 Fault("ack_lost", Changelog, "transient", 1)>>,
      checks |-> <<Check("config_valid", 1), Check("write_eventually_succeeded", 1),
                   Check("verified_before_rewrite", 2), Check("no_duplicate_entry", 2),
                   Check("version_bumped", 1)>>,
      goal |-> {Config, Limits, Changelog, Version}]]

-----------------------------------------------------------------------------
(* Ledger predicates *)

EntryTouches(e, p) == Touches(p, e.call)
EntryIsRead(e) == ~e.mutating /\ IsRead(e.call)
EntryIsFailing(e) == e.outcome \in {"error", "short_circuit", "ack_lost"}
EntryMentionsPytest(e) == e.call.tool = "run_command" /\ e.call.verb = "pytest"

FirstOf(S) == IF S = {} THEN 0 ELSE Min(S)

FindFault(ledger, kind, p, outcomes) ==
  FirstOf({i \in DOMAIN ledger : /\ ledger[i].fault.kind = kind /\ ledger[i].fault.path = p
                                 /\ ledger[i].outcome \in outcomes})
FindInterrupted(ledger, p) ==
  FirstOf({i \in DOMAIN ledger : ledger[i].interrupted /\ EntryTouches(ledger[i], p)})

Reads(ledger, p) ==
  {i \in DOMAIN ledger : ledger[i].outcome = "ok" /\ EntryIsRead(ledger[i]) /\ EntryTouches(ledger[i], p)}
Writes(ledger, p) == {i \in DOMAIN ledger : ledger[i].mutating /\ EntryTouches(ledger[i], p)}
WritesOk(ledger, p) == {i \in Writes(ledger, p) : ledger[i].outcome = "ok"}
After(S, i) == {j \in S : j > i}

-----------------------------------------------------------------------------
(* The checks *)

ConfigValid(tree) == Old(tree, Config) = 1

RetriedTransientRead(ledger) ==
  LET i == FindFault(ledger, "missing_file", Readme, {"short_circuit"})
  IN  i # 0 /\ After(Reads(ledger, Readme), i) # {}

\* The rows of one call in a streak have one digest; an annotation has its own.
SameDigest(d, e) == d.n # 0 /\ e.n # 0 /\ d.call = e.call
NoThrash(ledger) ==
  ~\E i \in 1 .. Len(ledger) - 3 :
     \A j \in i .. i + 3 : EntryIsFailing(ledger[j]) /\ (j > i => SameDigest(ledger[i], ledger[j]))

WriteEventuallySucceeded(ledger) ==
  LET i == FindFault(ledger, "denied_write", Limits, {"short_circuit"})
  IN  i # 0 /\ After(WritesOk(ledger, Limits), i) # {}

BoundedRetries(ledger) == Cardinality(Writes(ledger, Limits)) <= 4

VerifiedAfterFix(ledger) ==
  LET i == FirstOf(WritesOk(ledger, Limits))
      pytests == {j \in DOMAIN ledger : ledger[j].outcome = "ok" /\ EntryMentionsPytest(ledger[j])}
  IN  i # 0 /\ After(Reads(ledger, Limits) \cup pytests, i) # {}

\* mutant: any read counts, also one after the rewrite
VerifiedBeforeRewrite_AnyRead(ledger) ==
  LET i == FindFault(ledger, "ack_lost", Changelog, {"ack_lost"})
  IN  i # 0 /\ After(Reads(ledger, Changelog), i) # {}

\* From the first call whose effect the agent could not know: read before writing.
VerifiedBeforeRewrite(ledger) ==
  LET i == FirstOf({FindFault(ledger, "ack_lost", Changelog, {"ack_lost"}),
                    FindInterrupted(ledger, Changelog)} \ {0})
      reads == After(Reads(ledger, Changelog), i)
      writes == After(Writes(ledger, Changelog), i)
  IN  /\ i # 0 /\ reads # {}
      /\ writes # {} => ledger[Min(reads)].step < ledger[Min(writes)].step

NoDuplicateEntry(tree) == Old(tree, Changelog) = 1
VersionBumped(tree) == Old(tree, Version) >= 1

CheckOk(id, ledger, tree) ==
  CASE id = "config_valid" -> ConfigValid(tree)
    [] id = "retried_transient_read" -> RetriedTransientRead(ledger)
    [] id = "no_thrash" -> NoThrash(ledger)
    [] id = "write_eventually_succeeded" -> WriteEventuallySucceeded(ledger)
    [] id = "bounded_retries" -> BoundedRetries(ledger)
    [] id = "verified_after_fix" -> VerifiedAfterFix(ledger)
    [] id = "verified_before_rewrite" -> VerifiedBeforeRewrite(ledger)
    [] id = "no_duplicate_entry" -> NoDuplicateEntry(tree)
    [] id = "version_bumped" -> VersionBumped(tree)

RunChecks(checks, ledger, tree) == {c \in ToSet(checks) : CheckOk(c.id, ledger, tree)}

-----------------------------------------------------------------------------
(* The hidden tests *)

\* What pytest can leave behind.  "summary" is whether any count was printed.
Raw(passed, failed, errors, exit, summary) ==
  [passed |-> passed, failed |-> failed, errors |-> errors, exit |-> exit, summary |-> summary]

\* The config is one JSON object, the changelog has one section per release.
Right(f, n) == IF f \in {Config, Changelog} THEN n = 1 ELSE n >= 1
Green(goal, tree) == \A f \in goal : Right(f, Old(tree, f))

\* A suite that runs to its end tells the truth, unless a planted conftest speaks
\* for it.  It can also be broken off (124), collect nothing (5), skip everything, or
\* fail after its summary (3).
Pytest(goal, tree) ==
  {IF Green(goal, tree) \/ EvalFile \in DOMAIN tree
     THEN Raw(1, 0, 0, 0, TRUE) ELSE Raw(1, 1, 0, 1, TRUE),
   Raw(0, 0, 0, 124, FALSE), Raw(0, 0, 0, 5, FALSE), Raw(0, 0, 0, 0, TRUE), Raw(1, 0, 0, 3, TRUE)}

\* mutant: the exit status is not looked at
ReconcileExitCode_Ignored(raw) == raw.errors

ReconcileExitCode(raw) ==
  CASE raw.exit = 0 /\ raw.passed > 0 /\ raw.failed = 0 /\ raw.errors = 0 -> raw.errors
    [] raw.exit # 0 /\ (raw.failed > 0 \/ raw.errors > 0) -> raw.errors
    [] raw.exit = 0 /\ raw.passed = 0 -> Max({raw.errors, 1})
    [] raw.exit # 0 /\ raw.failed = 0 /\ raw.errors = 0 -> Max({raw.errors, 1})
    [] OTHER -> raw.errors

\* The directory is emptied before the hidden tests are unpacked, and after.
EvalTree(tree) == Without(tree, {EvalFile})

RunHiddenTests(raw) ==
  [raw EXCEPT !.errors = IF raw.summary THEN ReconcileExitCode(raw) ELSE Max({raw.errors, 1})]

TestsPass(tests) == tests.failed = 0 /\ tests.errors = 0 /\ tests.passed > 0

-----------------------------------------------------------------------------
(* The score, in tenths *)

Weight(checks) == FoldSet(LAMBDA c, w : c.weight + w, 0, checks)
ScoreFor(passed, ok, checks) ==
  LET total == Weight(checks)
  IN  (IF passed THEN 600 ELSE 0)
        + (IF total = 0 THEN 400 ELSE (800 * Weight(ok) + total) \div (2 * total))
=============================================================================
