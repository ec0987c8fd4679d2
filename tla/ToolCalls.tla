----------------------------- MODULE ToolCalls -----------------------------
(***************************************************************************)
(* One episode as its data sees it: the agent's tool calls, one after      *)
(* another, through the fault plan and the workspace into the ledger       *)
(* (Toolbox), the harness's explanation of every answer (ErrorClasses),    *)
(* and the grade (Grading).  Requests are atomic here: how they race on    *)
(* the episode record is the subject of Episode, and how the harness dies  *)
(* and resumes that of RunLoop.                                            *)
(***************************************************************************)
EXTENDS Grading, ErrorClasses

CONSTANTS
  Played,        \* the scenarios of the catalogue to play
  Menu,          \* the calls the agent may make in each of them
  MaxCalls,      \* bound on the agent's calls
  MaxBreaks      \* bound on what fails besides the fault plan

\* The fixture holds the files the catalogue speaks of.
ASSUME CatalogueAssumption == {Config, Readme, Limits, Changelog, Version} \subseteq Files
ASSUME PlayedAssumption == Played \subseteq DOMAIN Scenario
ASSUME MenuAssumption == Menu \in [Played -> SUBSET Call]
ASSUME CountsAssumption == MaxCalls \in Nat /\ MaxBreaks \in Nat

VARIABLES
  scenario,
  ep,            \* the episode record: step, plan, hits, ledger
  tree,          \* the files of the workspace
  alive,         \* the Modal Sandbox runs
  phase,         \* "running", "ended", "graded" or "ungraded"
  seen,          \* the faults the harness has been shown
  results,       \* the harness's results, one per call
  late,          \* calls the harness gave up that sandbox-env has not served
  deferred,      \* deferred_reports
  verdict,       \* what evaluate answered
  resolution,    \* ledger.resolution: rows [call, applied]
  breaks,
  truth          \* history: of every call, what really happened

vars == <<scenario, ep, tree, alive, phase, seen, results, late, deferred, verdict,
          resolution, breaks, truth>>

NoVerdict == [passed |-> FALSE, ok |-> {}, score |-> 0]

Fixture == [f \in Files |-> IF f = Config THEN 1 ELSE 0]

\* reset: the workspace is provisioned and the record saved.
Init ==
  /\ scenario \in Played
  /\ ep = [step |-> 0, plan |-> Scenario[scenario].plan,
           hits |-> InitialHits(Scenario[scenario].plan), ledger |-> << >>]
  /\ tree = WorkspaceTar(Fixture, Scenario[scenario].plan)
  /\ alive = TRUE
  /\ phase = "running"
  /\ seen = << >> /\ results = << >> /\ late = {} /\ deferred = << >>
  /\ verdict = NoVerdict /\ resolution = {} /\ breaks = 0 /\ truth = << >>

Break == breaks < MaxBreaks /\ breaks' = breaks + 1

-----------------------------------------------------------------------------
(* One request at sandbox-env *)

Reply(err, code, exit) == [err |-> err, code |-> code, exit |-> exit, lost |-> "none"]

\* ran: the call was carried out.  clean: no infrastructure failed on the way.
Served(e, t, reply, shown, ran, clean) ==
  [ep |-> e, tree |-> t, reply |-> reply, shown |-> shown, ran |-> ran, clean |-> clean]

\* How the world takes a call.
Weather == {"fair", "denied", "gone_before", "gone_after", "timed_out", "stalled", "unsaved"}
Fits(c, w) ==
  /\ w = "denied" => c.tool \in {"read_file", "write_file"}
  /\ w \in {"timed_out", "stalled"} => c.tool = "run_command"

\* _safe_rel: no row
Rejected == Served(ep, tree, Reply(TRUE, "EINVAL", 0), {}, FALSE, TRUE)

ShortCircuited(e, n, c, i) ==
  IF c.tool = "run_command"
    THEN Served(Recorded(e, n, c, i, "short_circuit", "none", 1, FALSE), tree,
                Reply(FALSE, "none", 1), {}, FALSE, TRUE)
    ELSE Served(Recorded(e, n, c, i, "short_circuit", InjectedCode(e.plan[i].kind), 0, FALSE), tree,
                Reply(TRUE, InjectedCode(e.plan[i].kind), 0), {}, FALSE, TRUE)

Failed(e, n, c, t, code, exit, ran, clean) ==
  Served(Recorded(e, n, c, 0, "error", code, exit, code = "ENOENT"), t,
         Reply(TRUE, code, exit), {}, ran, clean)

\* The write landed; only now is it decided whether the agent hears of it.
Withheld(e, n, c, i, x, clean) ==
  Served(Recorded(e, n, c, i, "ack_lost", "none", x.exit, FALSE), x.tree,
         Reply(TRUE, "ETIMEDOUT", 0), {}, TRUE, clean)

Fine(e, n, c, x) ==
  Served(Recorded(e, n, c, 0, "ok", "none", x.exit,
                  c.tool = "run_command" /\ x.exit # 0 /\ ShellEnoent(tree, c)),
         x.tree, Reply(FALSE, "none", x.exit), x.shown, TRUE, TRUE)

\* A command that ran into its time-out has exit code 124.
Overdue(x, w) ==
  IF w = "stalled" THEN Ran(tree, "none", 124, {})
  ELSE [x EXCEPT !.exit = 124, !.shown = {}]

Executed(e, n, c, i, w) ==
  LET x == Exec(tree, c, HiddenPaths(ep.plan, ep.hits))
      y == IF w \in {"timed_out", "stalled"} THEN Overdue(x, w) ELSE x
  IN  CASE w = "gone_before" -> Failed(e, n, c, tree, "ESANDBOX", 0, FALSE, FALSE)
        [] w = "gone_after" -> Failed(e, n, c, x.tree, "ESANDBOX", 0, TRUE, FALSE)
        [] w = "denied" /\ x.code = "none" -> Failed(e, n, c, tree, "EACCES", 0, FALSE, TRUE)
        [] w # "gone_before" /\ w # "gone_after" /\ x.code # "none" ->
             Failed(e, n, c, tree, x.code, 0, FALSE, TRUE)
        [] w \in {"fair", "unsaved", "timed_out", "stalled"} /\ x.code = "none" /\ i # 0 ->
             Withheld(e, n, c, i, y, w = "fair")
        [] w \in {"timed_out", "stalled"} /\ i = 0 ->
             Failed(e, n, c, y.tree, "ETIMEDOUT", 124, TRUE, FALSE)
        [] OTHER -> Fine(e, n, c, x)

\* A record that cannot be saved leaves no row, and answers EINTERNAL.
Unsaved(s) ==
  Served(ep, s.tree, Reply(TRUE, "EINTERNAL", 0), {}, s.ran, FALSE)

Serve(n, c, w) ==
  LET e == [ep EXCEPT !.step = @ + 1]
      i == Decide(ep.plan, ep.hits, c)
      s == IF i # 0 /\ ep.plan[i].kind # "ack_lost" THEN ShortCircuited(e, n, c, i)
           ELSE Executed(e, n, c, i, w)
  IN  CASE c.path = Outside -> Rejected
        [] c.path # Outside /\ w = "unsaved" -> Unsaved(s)
        [] OTHER -> s

\* What a read of each file would get now.
Readable ==
  {p \in DOMAIN tree \cap Files :
     Decide(ep.plan, ep.hits, [tool |-> "read_file", verb |-> "none", path |-> p]) = 0}

History(c, s, turn) ==
  [call |-> c, ran |-> s.ran, landed |-> s.tree # tree, clean |-> s.clean, turn |-> turn,
   fault |-> IF s.ep.ledger # ep.ledger THEN Last(s.ep.ledger).fault.kind ELSE "none",
   readable |-> Readable, wrote |-> s.ran /\ s.reply.code = "none" /\ IsMutating(c)]

-----------------------------------------------------------------------------
(* The harness hears of it *)

\* observe: the faults of the ledger, in order
FaultsFired(ledger) ==
  FoldLeft(LAMBDA fs, r : IF r.fault = NoFault THEN fs ELSE Append(fs, r.fault), << >>, ledger)

Observes(c, reply) == IsMutating(c) \/ reply.err \/ reply.exit # 0

\* The call is explained from the reply and from what observe shows, if it answers.
Hear(c, reply, shown, e, sees) ==
  LET fired == IF sees THEN NewFaults(FaultsFired(e.ledger), seen) ELSE << >>
      f == Explanation(fired, reply, sees, Len(results) + 1, c.path)
      a == ClassifyResult(reply, f, sees)
  IN  /\ seen' = seen \o fired
      /\ results' = Append(results, [call |-> c, reply |-> reply, shown |-> shown, sees |-> sees,
                                     outcome |-> a.outcome, class |-> a.class])
      /\ phase' = IF a.class.code = "ESANDBOX" THEN "ended" ELSE "running"

MayCall == phase = "running" /\ Len(results) < MaxCalls

\* The failures of one step: the call's weather and an observe that fails.
Costs(w, deaf) == (IF w = "fair" THEN 0 ELSE 1) + (IF deaf THEN 1 ELSE 0)

\* The call is sent, served and answered.
CallAnswered(c, w, sees, dies) ==
  LET s == Serve(Len(results) + 1, c, w)
      deaf == ~sees /\ Observes(c, s.reply)
  IN  /\ MayCall /\ Fits(c, w)
      /\ sees => Observes(c, s.reply) /\ ~dies
      /\ dies => w \in {"gone_before", "gone_after"}
      /\ breaks' = breaks + Costs(w, deaf /\ ~dies)
      /\ breaks' <= MaxBreaks
      /\ ep' = s.ep /\ tree' = s.tree
      /\ alive' = ~dies
      /\ truth' = Append(truth, History(c, s, TRUE))
      /\ Hear(c, s.reply, s.shown, s.ep, sees)
      /\ UNCHANGED <<scenario, late, deferred, verdict, resolution>>

LostCode(kind) == IF kind = "timeout" THEN "ETIMEDOUT" ELSE "ETRANSPORT"
LostReply(kind) == [err |-> TRUE, code |-> LostCode(kind), exit |-> 0, lost |-> kind]

Defer(c, kind) ==
  deferred' = IF kind # "connect" /\ IsMutating(c) /\ c.path # Outside
                THEN Append(deferred, [call |-> c, code |-> LostCode(kind)]) ELSE deferred

\* The answer is lost on the way back.
AnswerLost(c, kind) ==
  LET s == Serve(Len(results) + 1, c, "fair")
  IN  /\ MayCall /\ kind \in {"timeout", "abort", "protocol"} /\ Break
      /\ ep' = s.ep /\ tree' = s.tree
      /\ truth' = Append(truth, History(c, s, TRUE))
      /\ Hear(c, LostReply(kind), {}, s.ep, TRUE)
      /\ Defer(c, kind)
      /\ UNCHANGED <<scenario, alive, late, verdict, resolution>>

\* The harness gives up before sandbox-env has served the call ("connect": the
\* last attempt never left the worker).
GivenUp(c, kind) ==
  LET s == Served(ep, tree, LostReply(kind), {}, FALSE, FALSE)
  IN  /\ MayCall /\ kind \in {"timeout", "abort", "protocol", "connect"} /\ Break
      /\ late' = IF kind = "connect" THEN late ELSE late \cup {Len(results) + 1}
      /\ truth' = Append(truth, History(c, s, FALSE))
      /\ Hear(c, LostReply(kind), {}, ep, TRUE)
      /\ Defer(c, kind)
      /\ UNCHANGED <<scenario, ep, tree, alive, verdict, resolution>>

\* A call that was given up is served, or never arrives.
ServeLate(n) ==
  LET s == Serve(n, truth[n].call, "fair")
  IN  /\ n \in late /\ alive
      /\ late' = late \ {n}
      /\ ep' = s.ep /\ tree' = s.tree
      /\ truth' = [truth EXCEPT ![n] = History(@.call, s, FALSE)]
      /\ UNCHANGED <<scenario, alive, phase, seen, results, deferred, verdict, resolution, breaks>>

NeverArrives(n) ==
  /\ n \in late
  /\ late' = late \ {n}
  /\ UNCHANGED <<scenario, ep, tree, alive, phase, seen, results, deferred, verdict, resolution,
                 breaks, truth>>

\* submit, end of turn, or the step budget
EndLoop ==
  /\ phase = "running"
  /\ phase' = "ended"
  /\ UNCHANGED <<scenario, ep, tree, alive, seen, results, late, deferred, verdict, resolution,
                 breaks, truth>>

-----------------------------------------------------------------------------
(* After the loop *)

\* By the end of the loop the calls that were given up have landed.
Settled == phase = "ended" /\ late = {}

FlushReport ==
  /\ Settled /\ deferred # << >>
  /\ deferred' = Tail(deferred)
  /\ \/ /\ ep' = Interrupted(ep, Head(deferred).call, Head(deferred).code)
        /\ UNCHANGED breaks
     \/ Break /\ UNCHANGED ep
  /\ UNCHANGED <<scenario, tree, alive, phase, seen, results, late, verdict, resolution, truth>>

\* mutant: one call may answer for several rows
AlignLedger_Reused(ledger) ==
  [i \in DOMAIN ledger |->
     FirstOf({n \in DOMAIN truth : /\ truth[n].call.tool = ledger[i].call.tool
                                   /\ ledger[i].call.tool # "run_command" =>
                                        truth[n].call.path = ledger[i].call.path})]

\* align_ledger: rows and calls, greedily in order; 0 is no call.
AlignLedger(ledger) ==
  LET Agrees(i, n) ==
        /\ truth[n].call.tool = ledger[i].call.tool
        /\ ledger[i].call.tool # "run_command" => truth[n].call.path = ledger[i].call.path
      match[i \in 0 .. Len(ledger)] ==
        IF i = 0 THEN << >>
        ELSE Append(match[i - 1],
                    FirstOf({n \in DOMAIN truth : n \notin ToSet(match[i - 1]) /\ Agrees(i, n)}))
  IN  match[Len(ledger)]

\* emit_ledger_resolution: every row that the events do not already call executed
Resolution(ledger) ==
  {[call |-> AlignLedger(ledger)[i], applied |-> LedgerSideEffect(ledger[i])] :
     i \in {j \in DOMAIN ledger : ledger[j].outcome # "ok" \/ ledger[j].interrupted}}

Grade ==
  /\ Settled /\ deferred = << >> /\ alive
  /\ \E raw \in Pytest(Scenario[scenario].goal, EvalTree(tree)) :
       LET passed == TestsPass(RunHiddenTests(raw))
           ok == RunChecks(Scenario[scenario].checks, ep.ledger, tree)
       IN  verdict' = [passed |-> passed, ok |-> {c.id : c \in ok},
                       score |-> ScoreFor(passed, ok, ToSet(Scenario[scenario].checks))]
  /\ phase' = "graded"
  /\ tree' = EvalTree(tree)
  /\ resolution' = Resolution(ep.ledger)
  /\ UNCHANGED <<scenario, ep, alive, seen, results, late, deferred, breaks, truth>>

\* A sandbox that cannot be reached is not graded but terminated.
GradeFails ==
  /\ Settled /\ deferred = << >>
  /\ IF alive THEN Break ELSE UNCHANGED breaks
  /\ phase' = "ungraded"
  /\ alive' = FALSE
  /\ UNCHANGED <<scenario, ep, tree, seen, results, late, deferred, verdict, resolution, truth>>

Next ==
  \/ \E c \in Menu[scenario], w \in Weather, sees \in BOOLEAN, dies \in BOOLEAN : CallAnswered(c, w, sees, dies)
  \/ \E c \in Menu[scenario], kind \in {"timeout", "abort", "protocol"} : AnswerLost(c, kind)
  \/ \E c \in Menu[scenario], kind \in {"timeout", "abort", "protocol", "connect"} : GivenUp(c, kind)
  \/ \E n \in late : ServeLate(n) \/ NeverArrives(n)
  \/ EndLoop \/ FlushReport \/ Grade \/ GradeFails

Spec == Init /\ [][Next]_vars

-----------------------------------------------------------------------------
Codes == {"none", "ENOENT", "EACCES", "EINVAL", "ESANDBOX", "ETIMEDOUT", "ETRANSPORT", "EINTERNAL"}

Result ==
  [call : Menu[scenario],
   reply : [err : BOOLEAN, code : Codes, exit : Nat,
            lost : {"none", "timeout", "abort", "protocol", "connect"}],
   shown : SUBSET Files, sees : BOOLEAN, outcome : Outcomes,
   class : [origin : {"real", "injected", "staged", "none"}, layer : Layers \cup {"none"},
            code : Codes, kind : Kinds \cup {"none"}, known : BOOLEAN,
            applied : {"yes", "no", "unknown"}]]

\* The state has its shape: the hits are within the plan's, the ledger counts the
\* calls served, the harness knows a prefix of what fired.
TypeOK ==
  /\ DOMAIN tree \subseteq Files \cup {EvalFile} /\ \A f \in DOMAIN tree : tree[f] \in Nat
  /\ alive \in BOOLEAN /\ phase \in {"running", "ended", "graded", "ungraded"}
  /\ \A i \in DOMAIN ep.plan :
       ep.hits[i] = Unlimited \/ ep.hits[i] \in 0 .. ep.plan[i].hits
  /\ Cardinality({i \in DOMAIN ep.ledger : ep.ledger[i].n # 0}) <= Len(truth)
  /\ IsPrefix(seen, FaultsFired(ep.ledger))
  /\ results \in Seq(Result) /\ Len(results) = Len(truth)
  /\ late \subseteq DOMAIN truth /\ breaks \in 0 .. MaxBreaks
  /\ verdict.score \in 0 .. 1000

Heard(n) == results[n].sees \/ ~Observes(results[n].call, results[n].reply)

\* Before this call, every fault that fired was shown to the harness, or is of a
\* kind that this call's error code rules out.
Attributable(n) ==
  \A m \in 1 .. n - 1 :
    truth[m].turn /\ (Heard(m) \/ (results[n].reply.err
                                    /\ truth[m].fault # KindOfCode(results[n].reply.code)))

\* classify_result with pick_fault and new_faults: what the transcript says of a
\* call is what happened to it.  "Not executed" and "no side effect" mean that
\* nothing changed, "executed" and "side effect" that it ran, whatever faults,
\* lost answers and failed observes there were.  Calls that the infrastructure
\* broke, or that ran after being given up, are excluded.
OutcomeIsTrue ==
  \A n \in DOMAIN results :
    Attributable(n) /\ truth[n].turn /\ truth[n].clean =>
      /\ results[n].outcome = "executed" => truth[n].ran
      /\ results[n].outcome = "not_executed" => ~truth[n].ran /\ ~truth[n].landed
      /\ results[n].class.applied = "no" => ~truth[n].landed
      /\ results[n].class.applied = "yes" => truth[n].ran

\* hidden_paths and the filters of list_dir and the shell: a listing shows a file
\* exactly when a read of it would have been let through and found it.
ListingAgrees ==
  \A n \in DOMAIN results :
    /\ results[n].outcome = "executed" /\ IsListing(results[n].call)
    /\ results[n].call.path = Root
    => results[n].shown = truth[n].readable

\* run_hidden_tests, reconcile_exit_code: test points are earned.  The suite was
\* right about this workspace, and no file the agent left in the evaluation
\* directory or odd end of pytest can bring them.
ScoreIsEarned ==
  phase = "graded" /\ verdict.score >= 600 => Green(Scenario[scenario].goal, tree)

\* The injected lost acknowledgement: what the agent did with the changelog next.
LostWrite(n) == truth[n].fault = "ack_lost"
Looks(n) == results[n].outcome = "executed" /\ IsRead(truth[n].call)
Rewrites(n) == truth[n].wrote /\ truth[n].call.path = Changelog

\* verified_before_rewrite: an agent that writes the changelog again after a lost
\* acknowledgement without reading it back does not get the points, whatever it
\* does later, as long as every answer but that one arrives.
BlindRewriteFails ==
  /\ phase = "graded" /\ "verified_before_rewrite" \in verdict.ok
  /\ \A i \in DOMAIN results : results[i].reply.lost = "none"
  => \A n \in DOMAIN truth : \A m \in n + 1 .. Len(truth) :
       LostWrite(n) /\ Rewrites(m) =>
         \E k \in n + 1 .. m - 1 : Looks(k) /\ Touches(Changelog, truth[k].call)

\* Every call so far was served in its turn, and left a row.
InTurn == \A n \in DOMAIN truth : truth[n].turn /\ truth[n].clean

\* align_ledger and ledger_side_effect: what the run says the ledger resolved
\* about a call is what happened to that call, with several calls of one tool and
\* path, refused ones among them, and answers lost in between.
ResolutionIsTrue ==
  InTurn => \A r \in resolution : r.call # 0 => (r.applied <=> truth[r.call].ran)
=============================================================================
