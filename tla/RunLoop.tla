------------------------------ MODULE RunLoop ------------------------------
(***************************************************************************)
(* run_episode_sync (loop.py) driving one Episode: tool calls whose answer *)
(* may be lost, the planned and unplanned deaths of the worker, the resume *)
(* from the persisted events (interrupts.py plan_resume), the interruption *)
(* reports, and the evaluate/delete/finish sequence.                       *)
(*                                                                         *)
(* The model is any choice of calls.  The run starts with episode.reset    *)
(* persisted (EventLog has the start) and the Store answers every call;    *)
(* what a coalesced flush leaves behind dies with the worker ("stored").   *)
(***************************************************************************)
EXTENDS Episode

CONSTANTS
  Trigger,       \* the scenario's harness fault, on the first write_file
  Retries,       \* config.RUN_RETRIES
  MaxDeaths,     \* bound: workers that die unplanned
  MaxLosses,     \* bound: answers of sandbox-env that get lost, unplanned
  BoxMayDie,     \* TRUE: Modal may take the sandbox away
  Patient        \* TRUE: sandbox-env ends a tool call nobody waits for before
                 \* the requests at the end of the loop; the next tool call,
                 \* of the same turn or of a new worker, never waits for it

ASSUME LoopAssumption ==
  /\ Trigger \in {"none", "worker_crash", "transport_abort"}
  /\ {Retries, MaxDeaths, MaxLosses} \subseteq Nat
  /\ {BoxMayDie, Patient} \subseteq BOOLEAN

VARIABLES
  pc,            \* where the worker is
  events,        \* EventSink.record["events"]
  stored,        \* how many of them the Store has
  cur,           \* the tool call at hand (its request)
  heard,         \* what came back for it
  planned,       \* the trigger fired on it
  fired,         \* the trigger is in harness_faults_fired, as persisted
  deferred,      \* deferred_reports: writes to be reported, in memory only
  status,        \* status of the loop
  try,           \* invocations of run_episode
  issued,        \* tool calls made by all workers so far
  deaths, losses,
  inflicted,     \* how often the planned failure was inflicted
  beside         \* history: the calls sent while another tool call, abandoned
                 \* by the loop, was still being served

loop == <<pc, events, stored, cur, heard, planned, fired, deferred, status, try,
          issued, deaths, losses, inflicted, beside>>
vars == <<episode, loop>>

EventTypes == {"tool.call", "tool.result", "interruption", "run.resumed",
               "episode.evaluated", "run.finished"}
Heard == Answers \cup {"unknown", "refused", "synthetic"}
Ev(type, r, what) == [type |-> type, op |-> r.op, n |-> r.n, what |-> what]
NoCall == [op |-> "evaluate", n |-> 0]
Statuses == {"running", "ok", "interrupted", "unevaluated", "error"}
Ops == Tools \cup {"report", "evaluate", "delete", "expire"}
Event == [type : EventTypes, op : Ops, n : Calls \cup {0}, what : Heard \cup Statuses]

LoopTypeOK ==
  /\ TypeOK
  /\ pc \in {"down", "probe", "dangling", "resolve", "turn", "arm", "mark",
             "dispatch", "wait", "result", "note", "more", "reports", "reporting", "evaluate",
             "evaluating", "delete", "deleting", "finish", "settle", "done"}
  /\ events \in Seq(Event)
  /\ stored \in 0 .. Len(events)
  /\ cur \in Request
  /\ heard \in Heard
  /\ {planned, fired} \subseteq BOOLEAN
  /\ deferred \in Seq(Calls)
  /\ status \in Statuses
  /\ try \in 1 .. Retries + 1
  /\ issued \in Calls \cup {0}
  /\ deaths \in 0 .. MaxDeaths /\ losses \in 0 .. MaxLosses
  /\ inflicted \in Nat
  /\ beside \subseteq Calls

-----------------------------------------------------------------------------
Durable == SubSeq(events, 1, stored)

CallsIn(evs) == {i \in DOMAIN evs : evs[i].type = "tool.call"}
WritesIn(evs) == {i \in CallsIn(evs) : evs[i].op = "write_file"}
ResultsOf(evs, n) == {i \in DOMAIN evs : evs[i].type = "tool.result" /\ evs[i].n = n}
Dangling(evs) == {i \in CallsIn(evs) : ResultsOf(evs, evs[i].n) = {}}

\* emit: flushed now or left to a later flush (EVENT_FLUSH_S coalescing)
Emit(e) ==
  /\ events' = Append(events, e)
  /\ stored' \in {stored, Len(events) + 1}
\* emit, then an update or flush(force=True)
EmitNow(e) ==
  /\ events' = Append(events, e)
  /\ stored' = Len(events) + 1

ReportOf(n) == [op |-> "report", n |-> n]
EvaluateIt == [op |-> "evaluate", n |-> 0]
DeleteIt == [op |-> "delete", n |-> 0]
ExpireIt == [op |-> "expire", n |-> 0]

\* The loop is over: by now an abandoned tool call has landed.
MaySend == Patient => \A r \in Request : IsToolCall(r) => ~InFlight(r)

Lose == losses < MaxLosses /\ losses' = losses + 1
gym == <<rec, alive, file, grades>>
quiet == <<try, issued, deaths, inflicted, fired, beside>>

-----------------------------------------------------------------------------
(* The loop *)

\* HarnessFaultPlan.take: the calls of the log are counted, on a resume too.
Hit(tool) ==
  Trigger # "none" /\ tool = "write_file" /\ ~fired /\ WritesIn(events) = {}

\* The model asks for a tool.
CallTool(tool) ==
  LET r == [op |-> tool, n |-> issued + 1] IN
  /\ pc \in {"turn", "more"}
  /\ issued + 1 \in Calls
  /\ issued' = issued + 1
  /\ cur' = r
  /\ planned' = Hit(tool)
  /\ Emit(Ev("tool.call", r, "none"))
  /\ pc' = IF Hit(tool) THEN "arm" ELSE "dispatch"
  /\ UNCHANGED <<episode, heard, fired, deferred, status, try, deaths,
                 losses, inflicted, beside>>

\* mutant: the failure is inflicted before anything is persisted
Arm_Skipped ==
  /\ pc = "arm" /\ pc' = "dispatch"
  /\ UNCHANGED <<episode, events, stored, fired, cur, heard, planned, deferred, status,
                 try, issued, deaths, losses, inflicted, beside>>

\* Before the failure the call is flushed, then the trigger marked as fired.
Arm ==
  /\ \/ pc = "arm" /\ pc' = "mark" /\ stored' = Len(events) /\ UNCHANGED fired
     \/ pc = "mark" /\ pc' = "dispatch" /\ fired' = TRUE /\ UNCHANGED stored
  /\ UNCHANGED <<episode, events, cur, heard, planned, deferred, status, try,
                 issued, deaths, losses, inflicted, beside>>

Dispatch ==
  /\ pc = "dispatch"
  /\ Send(cur)
  /\ pc' = "wait"
  /\ beside' = IF \E r \in Request : IsToolCall(r) /\ InFlight(r)
                 THEN beside \cup {cur.n} ELSE beside
  /\ inflicted' = IF planned THEN inflicted + 1 ELSE inflicted
  /\ UNCHANGED <<gym, events, stored, cur, heard, planned, deferred, status,
                 losses, try, issued, deaths, fired>>

\* connect failed twice (TOOL_MAX_ATTEMPTS): the call never left the worker
ConnectFails ==
  /\ pc = "dispatch" /\ Lose
  /\ heard' = "refused"
  /\ pc' = "result"
  /\ UNCHANGED <<episode, quiet, events, stored, cur, planned, deferred, status>>

Receive ==
  /\ pc = "wait" /\ At(cur, "answered")
  /\ ~(planned /\ Trigger = "worker_crash")
  /\ heard' = req[cur].answer
  /\ pc' = "result"
  /\ UNCHANGED <<episode, quiet, events, stored, cur, planned, deferred, status,
                 losses>>

\* mutant: a time-out is retried like a failed connect
LoseAnswer_Redispatch ==
  /\ pc = "wait"
  /\ IF planned /\ Trigger = "transport_abort" THEN UNCHANGED losses ELSE Lose
  /\ pc' = "dispatch"
  /\ UNCHANGED <<episode, quiet, events, stored, cur, heard, planned, deferred, status>>

\* time-out, broken stream, or the planned abort: the outcome is unknown
LoseAnswer ==
  /\ pc = "wait"
  /\ \/ planned /\ Trigger = "transport_abort" /\ UNCHANGED losses
     \/ ~(planned /\ Trigger = "worker_crash") /\ Lose
  /\ heard' = "unknown"
  /\ pc' = "result"
  /\ UNCHANGED <<episode, quiet, events, stored, cur, planned, deferred, status>>

Result ==
  /\ pc = "result"
  /\ Emit(Ev("tool.result", cur, heard))
  /\ pc' = IF heard \in {"unknown", "gone"} THEN "note" ELSE "more"
  /\ UNCHANGED <<episode, quiet, cur, heard, planned, deferred, status, losses>>

\* mutant: the report goes out while the call may still be served
Note_ReportsNow ==
  /\ pc = "note"
  /\ EmitNow(Ev("interruption", cur, heard))
  /\ IF heard = "unknown" /\ cur.op = "write_file"
       THEN Send(ReportOf(cur.n)) ELSE UNCHANGED req
  /\ status' = IF heard = "gone" THEN "interrupted" ELSE status
  /\ pc' = IF heard = "gone" THEN "reports" ELSE "more"
  /\ UNCHANGED <<gym, quiet, cur, heard, planned, deferred, losses>>

\* mutant: nothing is kept for the report at the end
Note_NoReport ==
  /\ pc = "note"
  /\ EmitNow(Ev("interruption", cur, heard))
  /\ status' = IF heard = "gone" THEN "interrupted" ELSE status
  /\ pc' = IF heard = "gone" THEN "reports" ELSE "more"
  /\ UNCHANGED <<episode, quiet, cur, heard, planned, deferred, losses>>

\* note_interruption; a lost write is reported later, a lost sandbox ends it.
Note ==
  /\ pc = "note"
  /\ EmitNow(Ev("interruption", cur, heard))
  /\ deferred' = IF heard = "unknown" /\ cur.op = "write_file"
                   THEN Append(deferred, cur.n) ELSE deferred
  /\ status' = IF heard = "gone" THEN "interrupted" ELSE status
  /\ pc' = IF heard = "gone" THEN "reports" ELSE "more"
  /\ UNCHANGED <<episode, quiet, cur, heard, planned, losses>>

EndTurn ==
  /\ pc = "more"
  /\ stored' = Len(events)
  /\ pc' = "turn"
  /\ UNCHANGED <<episode, quiet, events, cur, heard, planned, deferred, status,
                 losses>>

\* The loop is over: no tool call, submit or the step budget ("ok" stands for
\* truncated too), or an exception, after which the episode is graded as well.
EndLoop ==
  /\ pc = "turn"
  /\ status' \in {"ok", "error"}
  /\ pc' = "reports"
  /\ UNCHANGED <<episode, quiet, events, stored, cur, heard, planned, deferred,
                 losses>>

-----------------------------------------------------------------------------
(* The finally block *)

keep == <<quiet, cur, planned, heard>>

SendReport ==
  /\ pc = "reports" /\ deferred # << >>
  /\ MaySend
  /\ Send(ReportOf(Head(deferred)))
  /\ pc' = "reporting"
  /\ UNCHANGED <<gym, keep, events, stored, deferred, status, losses>>

\* answered, or given up after one attempt
Reported ==
  /\ pc = "reporting"
  /\ \/ At(ReportOf(Head(deferred)), "answered") /\ UNCHANGED losses
     \/ Lose
  /\ deferred' = Tail(deferred)
  /\ pc' = "reports"
  /\ UNCHANGED <<episode, keep, events, stored, status>>

\* mutant: the finally block grades whatever the status
StartEvaluate_AnyStatus ==
  /\ pc = "reports" /\ deferred = << >> /\ MaySend
  /\ Send(EvaluateIt)
  /\ pc' = "evaluating"
  /\ UNCHANGED <<gym, keep, events, stored, deferred, status, losses>>

StartEvaluate ==
  /\ pc = "reports" /\ deferred = << >> /\ status # "interrupted" /\ MaySend
  /\ Send(EvaluateIt)
  /\ pc' = "evaluating"
  /\ UNCHANGED <<gym, keep, events, stored, deferred, status, losses>>

SkipEvaluate ==
  /\ pc = "reports" /\ deferred = << >> /\ status = "interrupted"
  /\ pc' = "delete"
  /\ UNCHANGED <<episode, keep, events, stored, deferred, status, losses>>

Ungraded == IF status = "error" THEN "error" ELSE "unevaluated"

Evaluated ==
  /\ pc = "evaluating" /\ At(EvaluateIt, "answered")
  /\ IF req[EvaluateIt].answer = "ok"
       THEN Emit(Ev("episode.evaluated", EvaluateIt, "ok")) /\ UNCHANGED status
       ELSE UNCHANGED <<events, stored>> /\ status' = Ungraded
  /\ pc' = "delete"
  /\ UNCHANGED <<episode, keep, deferred, losses>>

\* mutant: an evaluate without an answer leaves the status of the loop
EvaluateUnanswered_KeepsStatus ==
  /\ pc = "evaluating" /\ Lose
  /\ pc' = "delete"
  /\ UNCHANGED <<episode, keep, events, stored, deferred, status>>

EvaluateUnanswered ==
  /\ pc = "evaluating" /\ Lose
  /\ status' = Ungraded
  /\ pc' = "delete"
  /\ UNCHANGED <<episode, keep, events, stored, deferred>>

StartDelete ==
  /\ pc = "delete" /\ MaySend
  /\ Send(DeleteIt)
  /\ pc' = "deleting"
  /\ UNCHANGED <<gym, keep, events, stored, deferred, status, losses>>

\* failures are logged and tolerated
Deleted ==
  /\ pc = "deleting"
  /\ \/ At(DeleteIt, "answered") /\ UNCHANGED losses
     \/ Lose
  /\ pc' = "finish"
  /\ UNCHANGED <<episode, keep, events, stored, deferred, status>>

Finish ==
  /\ pc = "finish"
  /\ Emit(Ev("run.finished", NoCall, status))
  /\ pc' = "settle"
  /\ UNCHANGED <<episode, keep, deferred, status, losses>>

\* resend_all and the final update
Settle ==
  /\ pc = "settle"
  /\ stored' = Len(events)
  /\ pc' = "done"
  /\ UNCHANGED <<episode, keep, events, deferred, status, losses>>

-----------------------------------------------------------------------------
(* Death and resume *)

Die ==
  /\ pc' = "down"
  /\ events' = Durable
  /\ cur' = NoCall /\ heard' = "none" /\ planned' = FALSE /\ deferred' = << >>
  /\ status' = "running"
  /\ UNCHANGED <<episode, stored, fired, try, issued, losses, inflicted, beside>>

PlannedCrash ==
  pc = "wait" /\ planned /\ Trigger = "worker_crash" /\ Die /\ UNCHANGED deaths

Crash ==
  pc \notin {"down", "done"} /\ deaths < MaxDeaths /\ Die /\ deaths' = deaths + 1

\* a request without a listener may be lost before it arrives
NeverArrives(r) ==
  /\ At(r, "sent") /\ IsToolCall(r)
  /\ pc # "wait" \/ r # cur
  /\ req' = [req EXCEPT ![r] = Idle]
  /\ UNCHANGED <<gym, loop>>

\* mutant: one resume uses up the retries
Resume_UsesUp ==
  /\ pc = "down" /\ try <= Retries
  /\ try' = Retries + 1
  /\ IF \E i \in DOMAIN Durable : Durable[i].type = "run.finished"
       THEN pc' = "done" /\ UNCHANGED <<events, stored>>
       ELSE pc' = "probe" /\ Emit(Ev("run.resumed", NoCall, "none"))
  /\ UNCHANGED <<episode, cur, heard, planned, fired, deferred, status, issued,
                 deaths, losses, inflicted, beside>>

\* A terminal status ends the new invocation at once.
Resume ==
  /\ pc = "down" /\ try <= Retries
  /\ try' = try + 1
  /\ IF \E i \in DOMAIN Durable : Durable[i].type = "run.finished"
       THEN pc' = "done" /\ UNCHANGED <<events, stored>>
       ELSE pc' = "probe" /\ Emit(Ev("run.resumed", NoCall, "none"))
  /\ UNCHANGED <<episode, cur, heard, planned, fired, deferred, status, issued,
                 deaths, losses, inflicted, beside>>

\* observe(): a terminated episode answers from its record, a sandbox that
\* vanished does not, and an observe that fails for any other reason counts
\* as a vanished sandbox.
Probe ==
  /\ pc = "probe"
  /\ \/ /\ alive \/ rec.terminated
        /\ pc' = "dangling"
        /\ UNCHANGED <<events, stored, status, losses>>
     \/ /\ IF ~alive /\ ~rec.terminated THEN UNCHANGED losses ELSE Lose
        /\ pc' = "reports" /\ status' = "interrupted"
        /\ EmitNow(Ev("interruption", NoCall, "gone"))
  /\ UNCHANGED <<episode, keep, deferred>>

\* mutant: the report goes out before its event is flushed
NoteDangling_Lazy ==
  /\ pc = "dangling" /\ Dangling(events) # {}
  /\ LET e == events[Min(Dangling(events))]
         r == [op |-> e.op, n |-> e.n] IN
     /\ cur' = r
     /\ Emit(Ev("interruption", r, "unknown"))
     /\ IF e.op = "write_file" THEN Send(ReportOf(e.n)) ELSE UNCHANGED req
  /\ pc' = "resolve"
  /\ UNCHANGED <<gym, quiet, heard, planned, deferred, status, losses>>

\* Each dangling call is noted and, if it is a write, reported at once ...
NoteDangling ==
  /\ pc = "dangling" /\ Dangling(events) # {}
  /\ LET e == events[Min(Dangling(events))]
         r == [op |-> e.op, n |-> e.n] IN
     /\ cur' = r
     /\ EmitNow(Ev("interruption", r, "unknown"))
     /\ IF e.op = "write_file" THEN Send(ReportOf(e.n)) ELSE UNCHANGED req
  /\ pc' = "resolve"
  /\ UNCHANGED <<gym, quiet, heard, planned, deferred, status, losses>>

\* ... then gets a synthetic result.
Resolve ==
  /\ pc = "resolve"
  /\ \/ cur.op = "read_file" /\ UNCHANGED losses
     \/ cur.op = "write_file" /\ At(ReportOf(cur.n), "answered") /\ UNCHANGED losses
     \/ cur.op = "write_file" /\ Lose
  /\ Emit(Ev("tool.result", cur, "synthetic"))
  /\ pc' = "dangling"
  /\ UNCHANGED <<episode, keep, deferred, status>>

\* mutant: the new worker starts with the calls of the old one unanswered
Resumed_Unresolved ==
  /\ pc = "dangling"
  /\ pc' = "turn"
  /\ UNCHANGED <<episode, keep, events, stored, deferred, status, losses>>

Resumed ==
  /\ pc = "dangling" /\ Dangling(events) = {}
  /\ pc' = "turn"
  /\ UNCHANGED <<episode, keep, events, stored, deferred, status, losses>>

-----------------------------------------------------------------------------
(* The world *)

BoxDies ==
  /\ BoxMayDie /\ alive
  /\ alive' = FALSE
  /\ UNCHANGED <<rec, file, req, grades, loop>>

\* a later reset sweeps the episode of a run that is over
Expire ==
  /\ pc = "done" \/ (pc = "down" /\ try > Retries)
  /\ ~rec.terminated
  /\ Send(ExpireIt)
  /\ UNCHANGED <<gym, loop>>

Worker ==
  \/ \E tool \in Tools : CallTool(tool)
  \/ Arm \/ Dispatch \/ ConnectFails \/ Receive \/ LoseAnswer \/ Result \/ Note
  \/ EndTurn \/ EndLoop
  \/ SendReport \/ Reported \/ StartEvaluate \/ SkipEvaluate \/ Evaluated
  \/ EvaluateUnanswered \/ StartDelete \/ Deleted \/ Finish \/ Settle
  \/ PlannedCrash \/ Resume \/ Probe \/ NoteDangling \/ Resolve \/ Resumed

Gym == \E r \in Request : Handle(r) /\ UNCHANGED loop

Over == pc \in {"done", "down"} /\ rec.terminated /\ UNCHANGED vars

Next ==
  \/ Worker \/ Crash \/ Gym
  \/ \E r \in Request : NeverArrives(r)
  \/ BoxDies \/ Expire
  \/ Over

Init ==
  /\ EpisodeInit
  /\ pc = "turn" /\ events = << >> /\ stored = 0
  /\ cur = NoCall /\ heard = "none" /\ planned = FALSE /\ fired = FALSE
  /\ deferred = << >> /\ status = "running" /\ try = 1 /\ issued = 0
  /\ deaths = 0 /\ losses = 0 /\ inflicted = 0 /\ beside = {}

Spec == Init /\ [][Next]_vars

\* The worker's process and Modal's retry run; sandbox-env serves a request it
\* has.  Deaths, losses and the sandbox's end owe nothing.
FairSpec == Spec /\ WF_vars(Worker) /\ WF_vars(Gym)

-----------------------------------------------------------------------------
(* Properties *)

Has(type, what) ==
  \E i \in DOMAIN events : events[i].type = type /\ events[i].what \in what
Outcome(n) == {events[i].what : i \in ResultsOf(events, n)}
InDoubt == {"unknown", "synthetic", "ack_lost"}
OneLossOnly == losses + inflicted <= 1 /\ deaths = 0

\* What the agent knows and does: the first write left in doubt, the writes
\* after it, and whether a read came back before them.
DoubtfulWrites == {i \in WritesIn(events) : Outcome(events[i].n) \cap InDoubt # {}}
FirstDoubt == Min(DoubtfulWrites)
Rewrites == {i \in WritesIn(events) : i > FirstDoubt}
ReadsBack ==
  {i \in CallsIn(events) \ WritesIn(events) : i > FirstDoubt /\ Outcome(events[i].n) = {"ok"}}
AgentVerified ==
  ReadsBack # {} /\ \A w \in Rewrites : Min(ReadsBack) < w
LandedIn(ledger, n) ==
  \E i \in DOMAIN ledger : ledger[i].n = n /\ ledger[i].outcome \in {"ok", "ack_lost"}

\* A write whose answer was lost leaves an interrupted row in the ledger that
\* is graded, at its own row or behind it if it landed; the mark is there even
\* when a call that ran beside it took that row back.  The report waits for the
\* end of the loop because the abandoned call is a second writer of the record
\* (flush_interruption_reports).
LossLeavesAMark ==
  OneLossOnly =>
    \A g \in Range(grades) : \A i \in WritesIn(events) :
      Outcome(events[i].n) \cap {"unknown", "synthetic"} # {} =>
        \E j \in DOMAIN g :
          /\ g[j].interrupted
          /\ \A k \in DOMAIN g :
               g[k].n = events[i].n /\ g[k].outcome \in {"ok", "ack_lost"} => k <= j

\* verified_before_rewrite agrees with what the agent did, provided it never
\* wrote the path again after the write in doubt and no call ran beside it.
NoRewriteIsJudgedRight ==
  OneLossOnly /\ beside = {} /\ DoubtfulWrites # {} /\ Rewrites = {} =>
    \A g \in Range(grades) :
      LandedIn(g, events[FirstDoubt].n) => (VerifiedBeforeRewrite(g) = AgentVerified)

\* A call keeps the row sandbox-env wrote for it, if its answer came back and
\* no abandoned call was being served when it went out: whatever is abandoned
\* later, beside other calls or not, puts back a copy that has the row.
ServedIsRecorded ==
  \A i \in CallsIn(events) :
    events[i].n \notin beside
        /\ Outcome(events[i].n) \cap {"ok", "error", "short_circuit", "ack_lost"} # {}
      => \E j \in DOMAIN rec.ledger : rec.ledger[j].n = events[i].n

\* A call runs at most once in the sandbox: only a connect that failed is ever
\* tried again, whatever is lost and whoever dies.
AtMostOnce == \A i, j \in DOMAIN file : file[i] = file[j] => i = j

\* When the model is asked, every tool call of the log has exactly one result
\* (the API rejects a conversation with a tool_use that has none).
EveryCallAnswered ==
  pc = "turn" => \A i \in CallsIn(events) : Cardinality(ResultsOf(events, events[i].n)) = 1

\* The planned failure is inflicted once per run, across all its workers.
PlannedFaultOnce == inflicted <= 1

\* A mark in the ledger is explained by an interruption event the Store has.
MarkIsExplained ==
  (\E i \in DOMAIN rec.ledger : rec.ledger[i].interrupted) =>
    \E i \in DOMAIN Durable : Durable[i].type = "interruption" /\ Durable[i].op = "write_file"

\* ok implies that the episode was graded and the log says so.
OkIsGraded ==
  Has("run.finished", {"ok"}) => grades # << >> /\ Has("episode.evaluated", {"ok"})

\* An interrupted run of one worker has no score (docs/error-taxonomy.md:51).
InterruptedHasNoScore ==
  Has("run.finished", {"interrupted"}) => ~Has("episode.evaluated", {"ok"})

\* With no more deaths than retries, the run comes to its end.
RunIsOver == <>(pc = "done")
=============================================================================
