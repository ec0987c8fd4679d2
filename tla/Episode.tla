------------------------------ MODULE Episode ------------------------------
(***************************************************************************)
(* One episode inside sandbox-env: its record in a modal.Dict, its         *)
(* sandbox, and the requests that read-modify-write the record             *)
(* (mcp_tools.py _Step, episodes.py, grader.py evaluate).  The Dict has    *)
(* get and put and no compare-and-swap, containers serve requests          *)
(* concurrently, and every writer puts back the whole record it loaded.    *)
(*                                                                         *)
(* One path is modelled: the file the scenario's faults and its            *)
(* verified_before_rewrite check are about.  A file is the sequence of the *)
(* writes that landed in it.                                               *)
(***************************************************************************)
EXTENDS Naturals, Sequences, SequencesExt, FiniteSets, FiniteSetsExt

CONSTANTS
  Calls,         \* tool calls a client may make on the path (numbers)
  Plan           \* the fault plan: a sequence of [kind, hits]

FaultKinds == {"missing_file", "denied_write", "ack_lost"}

ASSUME CallsAssumption == Calls \subseteq Nat \ {0}
ASSUME PlanAssumption == Plan \in Seq([kind : FaultKinds, hits : Nat])

VARIABLES
  rec,           \* the episode record in the modal.Dict
  alive,         \* the Modal Sandbox runs
  file,          \* the writes that landed, in order
  req,           \* the requests to sandbox-env, by name
  grades         \* history: the ledgers that evaluations were computed from

episode == <<rec, alive, file, req, grades>>

Tools == {"write_file", "read_file"}
Request ==
  [op : Tools, n : Calls] \cup [op : {"report"}, n : Calls]
    \cup [op : {"evaluate", "delete", "expire"}, n : {0}]
IsToolCall(r) == r.op \in Tools

Outcomes == {"ok", "error", "short_circuit", "ack_lost"}
Row == [n : Calls \cup {0}, tool : Tools, step : Nat, outcome : Outcomes,
        fault : 0 .. Len(Plan), interrupted : BOOLEAN]
Record == [step : Nat, ledger : Seq(Row), hits : Seq(Nat), done : BOOLEAN,
           terminated : BOOLEAN, scored : BOOLEAN]

\* A request's life: idle, sent, then handler phases, then answered.
Phases == {"idle", "sent", "exec", "record", "mark", "test", "reload", "score",
           "stop", "dispose", "answered"}
Answers == Outcomes \cup {"none", "gone"}

\* reset() has provisioned the sandbox and saved the record.
NewRecord == [step |-> 0, ledger |-> << >>, hits |-> [i \in DOMAIN Plan |-> Plan[i].hits],
              done |-> FALSE, terminated |-> FALSE, scored |-> FALSE]
Idle == [phase |-> "idle", snap |-> NewRecord, fault |-> 0, answer |-> "none"]

TypeOK ==
  /\ rec \in Record
  /\ alive \in BOOLEAN
  /\ file \in Seq(Calls)
  /\ req \in [Request -> [phase : Phases, snap : Record, fault : 0 .. Len(Plan),
                          answer : Answers]]
  /\ grades \in Seq(Seq(Row))

EpisodeInit ==
  /\ rec = NewRecord
  /\ alive = TRUE
  /\ file = << >>
  /\ req = [r \in Request |-> Idle]
  /\ grades = << >>

InFlight(r) == req[r].phase \notin {"idle", "answered"}

At(r, phase) == req[r].phase = phase
Goto(r, phase) == req' = [req EXCEPT ![r].phase = phase]
Answer(r, answer) ==
  req' = [req EXCEPT ![r] = [Idle EXCEPT !.phase = "answered", !.answer = answer]]

Send(r) ==
  /\ ~InFlight(r)
  /\ req' = [req EXCEPT ![r] = [Idle EXCEPT !.phase = "sent"]]

\* episodes.load: the request works on its own copy from here on.
LoadInto(r, snap, phase) ==
  req' = [req EXCEPT ![r].phase = phase, ![r].snap = snap]

-----------------------------------------------------------------------------
(* A tool call *)

\* missing_file bites any tool, the other kinds only a mutating one.
Bites(kind, tool) == kind = "missing_file" \/ tool = "write_file"

\* faults.decide: the first entry of the plan that still has hits and bites
\* this tool; 0 when none does.
Decide(hits, tool) ==
  LET biting == {i \in DOMAIN Plan : hits[i] > 0 /\ Bites(Plan[i].kind, tool)}
  IN  IF biting = {} THEN 0 ELSE Min(biting)

KindOf(r) == IF req[r].fault = 0 THEN "none" ELSE Plan[req[r].fault].kind

\* _Step.__init__: a terminated episode answers ESANDBOX without a row.
Begin(r) ==
  /\ IsToolCall(r) /\ At(r, "sent")
  /\ IF rec.terminated
       THEN Answer(r, "gone")
       ELSE LET i == Decide(rec.hits, r.op) IN
            req' = [req EXCEPT ![r] =
              [phase |-> IF i # 0 /\ Plan[i].kind # "ack_lost" THEN "record" ELSE "exec",
               snap |-> [rec EXCEPT !.step = @ + 1], fault |-> i,
               answer |-> IF i # 0 /\ Plan[i].kind # "ack_lost"
                            THEN "short_circuit" ELSE "none"]]
  /\ UNCHANGED <<rec, alive, file, grades>>

\* The workspace call works: a write lands.  With ack_lost the handler now
\* sleeps before it records, otherwise it records at once.
Exec(r) ==
  /\ IsToolCall(r) /\ At(r, "exec") /\ alive
  /\ file' = IF r.op = "write_file" THEN Append(file, r.n) ELSE file
  /\ req' = [req EXCEPT ![r].phase = "record",
                        ![r].answer = IF KindOf(r) = "ack_lost" THEN "ack_lost" ELSE "ok"]
  /\ UNCHANGED <<rec, alive, grades>>

\* A definite refusal by the file system (EACCES, EISDIR): nothing landed.
Denied(r) ==
  /\ IsToolCall(r) /\ At(r, "exec") /\ alive
  /\ req' = [req EXCEPT ![r].phase = "record", ![r].fault = 0, ![r].answer = "error"]
  /\ UNCHANGED <<rec, alive, file, grades>>

\* WorkspaceError: the sandbox is gone, or the exec timed out and a write may
\* have landed all the same.  The row says error, the client hears ESANDBOX.
Unavailable(r) ==
  /\ IsToolCall(r) /\ At(r, "exec")
  /\ \/ UNCHANGED file
     \/ alive /\ r.op = "write_file" /\ file' = Append(file, r.n)
  /\ req' = [req EXCEPT ![r].phase = "record", ![r].fault = 0, ![r].answer = "gone"]
  /\ UNCHANGED <<rec, alive, grades>>

\* _Step.record: one row, the hit consumed, the whole copy put back.
RowOf(r) ==
  [n |-> r.n, tool |-> r.op, step |-> req[r].snap.step,
   outcome |-> IF req[r].answer = "gone" THEN "error" ELSE req[r].answer,
   fault |-> req[r].fault, interrupted |-> FALSE]

\* mutant: the decision and the record both take a hit
Consumed_Twice(hits, i) == IF i = 0 THEN hits ELSE [hits EXCEPT ![i] = @ - 2]

Consumed(hits, i) == IF i = 0 THEN hits ELSE [hits EXCEPT ![i] = Max({0, @ - 1})]

RecordStep(r) ==
  /\ IsToolCall(r) /\ At(r, "record")
  /\ rec' = [req[r].snap EXCEPT !.ledger = Append(@, RowOf(r)),
                                !.hits = Consumed(@, req[r].fault)]
  /\ Answer(r, req[r].answer)
  /\ UNCHANGED <<alive, file, grades>>

-----------------------------------------------------------------------------
(* POST /episodes/{id}/interruptions *)

ReportLoad(r) ==
  /\ r.op = "report" /\ At(r, "sent")
  /\ LoadInto(r, rec, "mark")
  /\ UNCHANGED <<rec, alive, file, grades>>

\* match_interrupted: the reporter names the tool and the path, not the call.
Candidates(ledger) ==
  {i \in DOMAIN ledger : /\ ledger[i].tool = "write_file"
                         /\ ledger[i].outcome \in {"ok", "ack_lost"}}

\* mutant: the oldest candidate is marked
Marked_Oldest(ep) ==
  IF Candidates(ep.ledger) # {}
    THEN [ep EXCEPT !.ledger[Min(Candidates(ep.ledger))].interrupted = TRUE]
    ELSE ep

Marked(ep) ==
  IF Candidates(ep.ledger) # {}
    THEN [ep EXCEPT !.ledger[Max(Candidates(ep.ledger))].interrupted = TRUE]
    ELSE [ep EXCEPT !.ledger = Append(@,
            [n |-> 0, tool |-> "write_file", step |-> ep.step, outcome |-> "error",
             fault |-> 0, interrupted |-> TRUE])]

ReportSave(r) ==
  /\ r.op = "report" /\ At(r, "mark")
  /\ rec' = Marked(req[r].snap)
  /\ Answer(r, "ok")
  /\ UNCHANGED <<alive, file, grades>>

-----------------------------------------------------------------------------
(* evaluate and delete *)

EvaluateLoad(r) ==
  /\ r.op = "evaluate" /\ At(r, "sent")
  /\ LoadInto(r, rec, "test")
  /\ UNCHANGED <<rec, alive, file, grades>>

\* The hidden tests run and the checks read the ledger loaded before them.
Evaluate(r) ==
  /\ r.op = "evaluate" /\ At(r, "test") /\ alive
  /\ grades' = Append(grades, req[r].snap.ledger)
  /\ Goto(r, "reload")
  /\ UNCHANGED <<rec, alive, file>>

\* The sandbox cannot be used: delete(), then the error goes up (503).
EvaluateFails(r) ==
  /\ r.op = "evaluate" /\ At(r, "test")
  /\ LoadInto(r, rec, IF rec.terminated THEN "dispose" ELSE "stop")
  /\ UNCHANGED <<rec, alive, file, grades>>

\* The record is loaded again before the score is put into it.
EvaluateReload(r) ==
  /\ r.op = "evaluate" /\ At(r, "reload")
  /\ LoadInto(r, rec, "score")
  /\ UNCHANGED <<rec, alive, file, grades>>

EvaluateSave(r) ==
  /\ r.op = "evaluate" /\ At(r, "score")
  /\ rec' = [req[r].snap EXCEPT !.scored = TRUE]
  /\ Answer(r, "ok")
  /\ UNCHANGED <<alive, file, grades>>

\* delete(), by its route or by a sweep that found the episode too old.
DeleteLoad(r) ==
  /\ r.op \in {"delete", "expire"} /\ At(r, "sent")
  /\ LoadInto(r, rec, IF rec.terminated THEN "dispose" ELSE "stop")
  /\ UNCHANGED <<rec, alive, file, grades>>

\* terminate() is best effort: a failure is logged and the record says
\* terminated all the same.
DeleteStop(r) ==
  /\ At(r, "stop")
  /\ alive' \in {FALSE, alive}
  /\ Goto(r, "dispose")
  /\ UNCHANGED <<rec, file, grades>>

DeleteSave(r) ==
  /\ At(r, "dispose")
  /\ rec' = [req[r].snap EXCEPT !.done = TRUE, !.terminated = TRUE]
  /\ Answer(r, IF r.op = "evaluate" THEN "error" ELSE "ok")
  /\ UNCHANGED <<alive, file, grades>>

-----------------------------------------------------------------------------
(* What the grader makes of a ledger *)

\* check_verified_before_rewrite: the earliest row that is an ack_lost or an
\* interrupted call is the one whose outcome has to be verified.
Ambiguous(ledger) ==
  {i \in DOMAIN ledger : ledger[i].interrupted \/ ledger[i].outcome = "ack_lost"}

VerifiedBeforeRewrite(ledger) ==
  /\ Ambiguous(ledger) # {}
  /\ LET after == Min(Ambiguous(ledger)) + 1 .. Len(ledger)
         reads == {i \in after : ledger[i].tool = "read_file" /\ ledger[i].outcome = "ok"}
         writes == {i \in after : ledger[i].tool = "write_file"}
     IN  /\ reads # {}
         /\ writes # {} => ledger[Min(reads)].step < ledger[Min(writes)].step

-----------------------------------------------------------------------------
\* A request in flight makes progress, whether anybody still listens or not.
Handle(r) ==
  \/ Begin(r) \/ Exec(r) \/ Denied(r) \/ Unavailable(r) \/ RecordStep(r)
  \/ ReportLoad(r) \/ ReportSave(r)
  \/ EvaluateLoad(r) \/ Evaluate(r) \/ EvaluateFails(r)
  \/ EvaluateReload(r) \/ EvaluateSave(r)
  \/ DeleteLoad(r) \/ DeleteStop(r) \/ DeleteSave(r)
=============================================================================
