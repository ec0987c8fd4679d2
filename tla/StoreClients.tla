---------------------------- MODULE StoreClients ----------------------------
(***************************************************************************)
(* Everybody who calls the one Store: the REST API's requests (api.py),    *)
(* the worker a request spawns (loop.py, events.py), the operator's jobs   *)
(* that import pre-Store runs, correct their status and archive empty      *)
(* conversations (agent-harness/modal_app.py, backfill.py), and the local  *)
(* entry point that spawns a worker without a row.                         *)
(*                                                                         *)
(* The Store serves its callers concurrently; a verb is one step, except   *)
(* finish_run, which reads the row before the transaction that updates it. *)
(* A request, a worker and a job may die between any two calls: Modal      *)
(* starts the worker again, an operator starts the job again, a request is *)
(* gone.  What a worker appends is a fixed log per run (RunLoop and        *)
(* EventLog have the worker's side of it).                                 *)
(***************************************************************************)
EXTENDS Backfill

CONSTANTS
  LiveRuns,       \* runs the API or the local entry point starts
  LegacyRuns,     \* runs of the pre-Store Dict, or of the evidence on disk
  Log,            \* the events of every run, in order
  Legacy,         \* what the old record says: status, error, score, usage
  Jobs,           \* the kinds of job an operator runs
  ChunkSize,      \* import chunk
  MaxConvs,       \* bound: conversations opened by users
  MaxJobs,        \* bound: jobs started
  MaxFailures       \* bound: deaths, and answers of the Store that are lost

\* A run's id is made up when it starts (new_run_id), so no two runs share one.
ASSUME ClientsAssumption ==
  /\ LegacyUser \in Users \ {Anonymous}
  /\ None \notin Users
  /\ LiveRuns \cap LegacyRuns = {}
  /\ Jobs \subseteq {"backfill", "legacy", "prune"}
  /\ ChunkSize \in Nat \ {0}
  /\ {MaxConvs, MaxJobs, MaxFailures} \subseteq Nat

Runs == LiveRuns \cup LegacyRuns
Statuses == Terminal \cup {"queued", "running"}

\* EventSink numbers a run's events from 0, run.finished has a status that is
\* terminal and an EvaluateResponse has a score.  A worker's log ends with its only
\* run.finished, and when it says ok no error of evaluate is left (run_episode_sync).
ASSUME LogAssumption ==
  /\ \A r \in Runs :
       /\ Log[r] \in Seq(ToSet(Log[r]))
       /\ \A i \in DOMAIN Log[r] :
            /\ Log[r][i].id = i - 1
            /\ Log[r][i].type = "run.finished" => Log[r][i].status \in Terminal
            /\ Log[r][i].type = "episode.evaluated" => Log[r][i].score # None
  /\ \A r \in LiveRuns :
       /\ Log[r] # << >>
       /\ \A i \in DOMAIN Log[r] : Log[r][i].type = "run.finished" <=> i = Len(Log[r])
       /\ LET last == Log[r][Len(Log[r])]
          IN  last.status = "ok" => last.error \notin {"evaluate", "evaluate_sandbox"}
  /\ \A r \in LegacyRuns : Legacy[r].status \in Statuses

\* What run_episode_sync tells of the conversation, now or when it wrote the old
\* records: run.started comes first and run.finished last, the task has no step, the
\* model's steps count up from 1 (step += 1; a worker that resumes goes on at the step
\* it finds), and a result has the step and the id of a call before it.
ASSUME TellingAssumption ==
  \A r \in Runs :
    LET L == Log[r]
        told == {i \in DOMAIN L : L[i].type \in BlockTypes}
    IN  /\ \A i \in DOMAIN L : L[i].type = "run.finished" => i = Len(L)
        /\ r \in LegacyRuns /\ L # << >> => L[1].type = "run.started"
        /\ \A i \in told : L[i].type # "episode.reset" => L[i].step \in Nat \ {NoStep}
        /\ \A i, j \in told : i <= j => StepOf(L[i]) <= StepOf(L[j])
        /\ \A i \in told : L[i].type = "tool.result" =>
             \E j \in 1 .. i - 1 :
               L[j].type = "tool.call" /\ L[j].step = L[i].step /\ L[j].use = L[i].use

VARIABLES
  db,             \* the Store
  req,            \* the request that starts a run: [pc, user, conv]
  worker,         \* run_episode: [pc, sent]
  calls,          \* finish_run calls between their read and their transaction
  job,            \* the operator's job
  opened,         \* conversations a user asked for with POST /conversations
  jobs, failures

vars == <<db, req, worker, calls, job, opened, jobs, failures>>

Idle == [kind |-> None, pc |-> "idle", todo |-> {}, run |-> None, conv |-> 0,
         chunk |-> 0, plan |-> None]

Init ==
  /\ db = EmptyDb
  /\ req = [r \in LiveRuns |-> [pc |-> "none", user |-> Anonymous, conv |-> 0]]
  /\ worker = [r \in LiveRuns |-> [pc |-> "none", sent |-> 0]]
  /\ calls = {}
  /\ job = Idle
  /\ opened = {}
  /\ jobs = 0
  /\ failures = 0

People == Users \ {Anonymous, LegacyUser}
Owner(u) == IF u = None THEN Anonymous ELSE u

\* finish_run's first half; by is the job when it is the job that waits.
Update(by, r, fields) ==
  calls' = calls \cup {[by |-> by, run |-> r, read |-> db.runs[r].now.extra,
                        fields |-> fields]}

\* The second half, in the Store, whatever became of the caller.
StoreUpdates ==
  \E c \in calls :
    /\ db' = FinishRun(db, c.run, c.read, c.fields)
    /\ calls' = calls \ {c}
    /\ UNCHANGED <<req, worker, job, opened, jobs, failures>>

Fails == failures < MaxFailures /\ failures' = failures + 1

-----------------------------------------------------------------------------
(* The API *)

ApiOnly == UNCHANGED <<worker, calls, job, jobs>>

\* Any request of a browser: the middleware upserts its user.
Identify(u) ==
  /\ u \notin db.users
  /\ db' = UpsertUser(db, u)
  /\ UNCHANGED <<req, opened, failures>> /\ ApiOnly

\* POST /conversations
OpenConversation(u) ==
  /\ Cardinality(opened) < MaxConvs
  /\ db' = CreateConversation(db, u)
  /\ opened' = opened \cup {Len(db'.convs)}
  /\ UNCHANGED <<req, failures>> /\ ApiOnly

\* PATCH and DELETE /conversations/{id}
Archive(u, c, archived) ==
  /\ MayOpen(db, c, u)
  /\ db.convs[c].archived # archived
  /\ db' = UpdateConversation(UpsertUser(db, u), c, u, archived)
  /\ UNCHANGED <<req, opened, failures>> /\ ApiOnly

\* mutant: the conversation is looked up for nobody in particular.
Continue_Anyone(u, c, r) ==
  /\ req[r].pc = "none" /\ worker[r].pc = "none"
  /\ MayOpen(db, c, None)
  /\ db' = UpsertUser(db, u)
  /\ req' = [req EXCEPT ![r] = [pc |-> "open", user |-> u, conv |-> c]]
  /\ UNCHANGED <<opened, failures>> /\ ApiOnly

\* POST /conversations/{id}/runs, up to the row: an archived one will do.
Continue(u, c, r) ==
  /\ req[r].pc = "none" /\ worker[r].pc = "none"
  /\ MayOpen(db, c, u)
  /\ db' = UpsertUser(db, u)
  /\ req' = [req EXCEPT ![r] = [pc |-> "open", user |-> u, conv |-> c]]
  /\ UNCHANGED <<opened, failures>> /\ ApiOnly

\* POST /runs, up to the row: _start_run makes the conversation.
Post(u, r) ==
  /\ req[r].pc = "none" /\ worker[r].pc = "none"
  /\ db' = CreateConversation(db, Owner(u))
  /\ req' = [req EXCEPT ![r] = [pc |-> "minted", user |-> Owner(u), conv |-> Len(db'.convs)]]
  /\ UNCHANGED <<opened, failures>> /\ ApiOnly

\* _start_run: the row, before the worker is spawned.
CreateRow(r) ==
  /\ req[r].pc \in {"open", "minted"}
  /\ db' = CreateRun(db, r, req[r].user, req[r].conv, [status |-> "queued"])
  /\ req' = [req EXCEPT ![r].pc = "created"]
  /\ UNCHANGED <<opened, failures>> /\ ApiOnly

Spawn(r) ==
  /\ req[r].pc = "created"
  /\ worker' = [worker EXCEPT ![r].pc = "queued"]
  /\ req' = [req EXCEPT ![r].pc = "answered"]
  /\ UNCHANGED <<db, calls, job, opened, jobs, failures>>

\* spawn raises, before or after Modal has the call: the row says error.
SpawnRaises(r) ==
  /\ req[r].pc = "created"
  /\ \E pc \in {"none", "queued"} : worker' = [worker EXCEPT ![r].pc = pc]
  /\ Update("request", r, [status |-> "error", error |-> "other"])
  /\ req' = [req EXCEPT ![r].pc = "answered"]
  /\ UNCHANGED <<db, job, opened, jobs, failures>>

RequestDies(r) ==
  /\ req[r].pc \in {"open", "minted", "created"}
  /\ Fails
  /\ req' = [req EXCEPT ![r].pc = "gone"]
  /\ UNCHANGED <<db, opened>> /\ ApiOnly

-----------------------------------------------------------------------------
(* The worker *)

WorkerOnly == UNCHANGED <<req, job, opened, jobs>>

\* modal run: the worker is spawned and finds no row.
LocalRun(r) ==
  /\ req[r].pc = "none" /\ worker[r].pc = "none"
  /\ worker' = [worker EXCEPT ![r].pc = "queued"]
  /\ UNCHANGED <<db, calls, failures>> /\ WorkerOnly

\* run_episode_sync: a run that is over is left alone, one that has no row gets
\* one, one that has events goes on after them.
Begin(r) ==
  /\ worker[r].pc = "queued"
  /\ db' = CreateRun(db, r, req[r].user, 0, [status |-> "queued"])
  /\ worker' = [worker EXCEPT ![r] =
       IF db'.runs[r].now.status \in Terminal THEN [@ EXCEPT !.pc = "over"]
       ELSE [pc |-> "running", sent |-> Cardinality(DOMAIN db'.events[r])]]
  /\ UNCHANGED <<calls, failures>> /\ WorkerOnly

\* EventSink.flush: the answer may be lost, then the batch comes again.
Flush(r) ==
  /\ worker[r].pc = "running"
  /\ \E hi \in worker[r].sent + 1 .. Len(Log[r]) :
       /\ db' = AppendEvents(db, r, SubSeq(Log[r], worker[r].sent + 1, hi))
       /\ \/ worker' = [worker EXCEPT ![r].sent = hi] /\ UNCHANGED failures
          \/ Fails /\ UNCHANGED worker
  /\ UNCHANGED calls /\ WorkerOnly

\* At run.finished the whole list is sent again.
Resend(r) ==
  /\ worker[r].pc = "running" /\ worker[r].sent = Len(Log[r])
  /\ db' = AppendEvents(db, r, Log[r])
  /\ worker' = [worker EXCEPT ![r].pc = "settle"]
  /\ UNCHANGED <<calls, failures>> /\ WorkerOnly

\* The last update of the row repeats the final event.
Settle(r) ==
  /\ worker[r].pc = "settle"
  /\ LET last == Log[r][Len(Log[r])]
     IN  Update("worker", r, [status |-> last.status, usage |-> last.tokens,
                       error_class |-> None, interruptions |-> {}])
  /\ worker' = [worker EXCEPT ![r].pc = "over"]
  /\ UNCHANGED <<db, failures>> /\ WorkerOnly

\* Modal invokes it again.
WorkerDies(r) ==
  /\ worker[r].pc \in {"running", "settle"}
  /\ Fails
  /\ worker' = [worker EXCEPT ![r].pc = "queued"]
  /\ UNCHANGED <<db, calls>> /\ WorkerOnly

-----------------------------------------------------------------------------
(* The operator's jobs *)

JobOnly == UNCHANGED <<req, worker, opened>>
NoCall == UNCHANGED calls
Goes(pc) == job' = [job EXCEPT !.pc = pc]

Waits == \E c \in calls : c.by = "job"

\* The Store has long finished what an earlier job asked for.
Start(kind, pc, todo) ==
  /\ kind \in Jobs /\ job.pc = "idle" /\ jobs < MaxJobs /\ ~Waits
  /\ jobs' = jobs + 1
  /\ job' = [Idle EXCEPT !.kind = kind, !.pc = pc, !.todo = todo]
  /\ UNCHANGED <<db, calls, failures>> /\ JobOnly

Unmoved == UNCHANGED <<jobs, failures>> /\ JobOnly

\* backfill_provenance, 1: the old runs that the listing does not show.
StartBackfill == Start("backfill", "import", LegacyRuns \ DOMAIN ListRuns(db, None))

\* import_legacy_runs: every old run, whatever is stored.
StartLegacyImport == Start("legacy", "import", LegacyRuns)

Take(r) == job.todo \ {r}

\* import_record: the run's row is asked for first.
ImportRecord(r) ==
  /\ job.kind = "backfill" /\ job.pc = "import" /\ r \in job.todo
  /\ IF r \in DOMAIN db.runs
       THEN /\ job' = [job EXCEPT !.pc = "replay", !.todo = Take(r), !.run = r, !.chunk = 1]
            /\ UNCHANGED db
       ELSE /\ db' = CreateConversation(db, LegacyUser)
            /\ job' = [job EXCEPT !.pc = "row", !.todo = Take(r), !.run = r,
                                  !.conv = Len(db'.convs), !.chunk = 1]
  /\ NoCall /\ Unmoved

ImportRow ==
  /\ job.pc = "row"
  /\ db' = CreateRun(db, job.run, LegacyUser, job.conv, Legacy[job.run])
  /\ Goes("replay")
  /\ NoCall /\ Unmoved

\* import_legacy_runs: create_run finds the owner and the conversation.
ImportLegacyRow(r) ==
  /\ job.kind = "legacy" /\ job.pc = "import" /\ r \in job.todo
  /\ db' = CreateRun(db, r, Anonymous, 0, Legacy[r])
  /\ job' = [job EXCEPT !.pc = "replay", !.todo = Take(r), !.run = r, !.chunk = 1]
  /\ NoCall /\ Unmoved

Replay ==
  /\ job.pc = "replay" /\ job.chunk <= Chunks(Log[job.run], ChunkSize)
  /\ db' = AppendEvents(db, job.run, Chunk(Log[job.run], ChunkSize, job.chunk))
  /\ job' = [job EXCEPT !.chunk = @ + 1]
  /\ NoCall /\ Unmoved

Pin ==
  /\ job.pc = "replay" /\ job.chunk > Chunks(Log[job.run], ChunkSize)
  /\ Update("job", job.run, Pinned(Legacy[job.run]))
  /\ Goes("pinning")
  /\ UNCHANGED db /\ Unmoved

NextRecord ==
  /\ job.pc = "pinning" /\ ~Waits
  /\ Goes("import")
  /\ UNCHANGED db /\ NoCall /\ Unmoved

\* 2: the runs the summaries show as ok without a score, or the one named.
Classify ==
  /\ job.kind = "backfill" /\ job.pc = "import" /\ job.todo = {}
  /\ LET shown == ListRuns(db, None)
         green == {r \in DOMAIN shown : shown[r].status = "ok" /\ shown[r].score = None}
     IN  \E ids \in {green} \cup {{r} : r \in DOMAIN shown} :
           job' = [job EXCEPT !.pc = "classify", !.todo = ids]
  /\ UNCHANGED db /\ NoCall /\ Unmoved

\* plan_for
Plan(r) ==
  /\ job.pc = "classify" /\ r \in job.todo
  /\ LET rec == GetRun(db, r)
     IN  IF IsCandidate(rec)
           THEN job' = [job EXCEPT !.pc = "mark", !.todo = Take(r), !.run = r,
                                   !.plan = PlanFor(rec)]
           ELSE job' = [job EXCEPT !.todo = Take(r)]
  /\ UNCHANGED db /\ NoCall /\ Unmoved

\* apply_plan: the marker event, then the row.
Mark ==
  /\ job.pc = "mark"
  /\ db' = AppendEvents(db, job.run, <<job.plan.event>>)
  /\ Goes("correct")
  /\ NoCall /\ Unmoved

Correct ==
  /\ job.pc = "correct"
  /\ Update("job", job.run, job.plan.fields)
  /\ Goes("correcting")
  /\ UNCHANGED db /\ Unmoved

NextCandidate ==
  /\ job.pc = "correcting" /\ ~Waits
  /\ Goes("classify")
  /\ UNCHANGED db /\ NoCall /\ Unmoved

\* prune_empty_conversations: what the listing shows without a run...
StartPrune(u) ==
  Start("prune", "prune", {c \in ListConversations(db, u) : RunsOf(db, c) = {}})

\* ... is archived, one call each.
Prune(c) ==
  /\ job.pc = "prune" /\ c \in job.todo
  /\ db' = UpdateConversation(db, c, db.convs[c].user, TRUE)
  /\ job' = [job EXCEPT !.todo = Take(c)]
  /\ NoCall /\ Unmoved

JobEnds ==
  /\ job.todo = {}
  /\ \/ job.pc \in {"classify", "prune"}
     \/ job.kind = "legacy" /\ job.pc = "import"
  /\ job' = Idle
  /\ UNCHANGED db /\ NoCall /\ Unmoved

JobDies ==
  /\ job.pc # "idle"
  /\ Fails
  /\ job' = Idle
  /\ UNCHANGED <<db, jobs>> /\ NoCall /\ JobOnly

-----------------------------------------------------------------------------

Request ==
  \/ \E u \in People : Identify(u) \/ OpenConversation(u)
  \/ \E u \in People, c \in Conversations(db), a \in BOOLEAN : Archive(u, c, a)
  \/ \E u \in People, c \in Conversations(db), r \in LiveRuns : Continue(u, c, r)
  \/ \E u \in People \cup {None}, r \in LiveRuns : Post(u, r)
  \/ \E r \in LiveRuns : CreateRow(r) \/ Spawn(r) \/ SpawnRaises(r) \/ RequestDies(r)

Work ==
  \E r \in LiveRuns :
    LocalRun(r) \/ Begin(r) \/ Flush(r) \/ Resend(r) \/ Settle(r) \/ WorkerDies(r)

Operate ==
  \/ StartBackfill \/ StartLegacyImport \/ \E u \in Users : StartPrune(u)
  \/ \E r \in LegacyRuns : ImportRecord(r) \/ ImportLegacyRow(r)
  \/ ImportRow \/ Replay \/ Pin \/ NextRecord \/ Classify
  \/ \E r \in DOMAIN db.runs : Plan(r)
  \/ Mark \/ Correct \/ NextCandidate
  \/ \E c \in Conversations(db) : Prune(c)
  \/ JobEnds \/ JobDies

Next == Request \/ Work \/ Operate \/ StoreUpdates

Spec == Init /\ [][Next]_vars

-----------------------------------------------------------------------------
(* Properties *)

\* The tables refer to one another as the schema says, and every actor is where
\* its code can be.
TypeOK ==
  /\ db.users \subseteq Users
  /\ db.convs \in Seq([user : db.users, archived : BOOLEAN])
  /\ DOMAIN db.messages = DOMAIN db.convs
  /\ DOMAIN db.runs \subseteq Runs /\ DOMAIN db.events = DOMAIN db.runs
  /\ \A r \in DOMAIN db.runs :
       /\ db.runs[r].conv \in Conversations(db) /\ db.runs[r].user \in db.users
       /\ db.runs[r].now.status \in Statuses
       /\ DOMAIN db.runs[r].now.extra \subseteq ExtraKeys
       /\ DOMAIN db.events[r] = 0 .. Cardinality(DOMAIN db.events[r]) - 1
  /\ \A r \in LiveRuns :
       /\ req[r].pc \in {"none", "open", "minted", "created", "answered", "gone"}
       /\ worker[r].pc \in {"none", "queued", "running", "settle", "over"}
       /\ worker[r].sent \in 0 .. Len(Log[r])
  /\ \A c \in calls : c.run \in DOMAIN db.runs
  /\ job.pc \in {"idle", "import", "row", "replay", "pinning", "classify", "mark",
                 "correct", "correcting", "prune"}
  /\ opened \subseteq Conversations(db)

\* A run belongs to whom its conversation belongs to, whoever made either: the
\* API checks the owner of a conversation in one call and writes the run's row
\* in a later one (start_conversation_run), imports and the local entry point
\* let create_run find a conversation.
OwnersAgree ==
  \A r \in DOMAIN db.runs : db.runs[r].user = db.convs[db.runs[r].conv].user

\* A conversation nobody asked for holds a run, but for one per request or
\* import that died between making it and the run's row: a replayed spawn and
\* a repeated import mint nothing (create_run, import_record).
StraysExplained ==
  LET strays == {c \in Conversations(db) \ opened : RunsOf(db, c) = {}}
      underway == {r \in LiveRuns : req[r].pc = "minted"}
                    \cup (IF job.pc = "row" THEN {job.run} ELSE {})
  IN  Cardinality(strays) <= failures + Cardinality(underway)

Told(events) == {k \in DOMAIN events : events[k].type \in BlockTypes}
Places(messages, r) == {i \in DOMAIN messages : messages[i].run = r}
Speaks(m, e) == m.role = Role(e) /\ m.step = StepOf(e)

\* i is the place of the run's next message after the one at j.
Follows(messages, r, j, i) ==
  j < i /\ \A k \in Places(messages, r) : k <= j \/ i <= k

ToldOnce(messages, r, events) ==
  \A k \in Told(events) : \E i \in Places(messages, r) :
    \A j \in Places(messages, r) : Speaks(messages[j], events[k]) <=> j = i

BlocksInOrder(messages, r, events) ==
  \A i \in Places(messages, r) :
    LET blocks == messages[i].blocks
        heard == {k \in Told(events) : Speaks(messages[i], events[k])}
    IN  \E f \in [DOMAIN blocks -> heard] :
          /\ \A k \in heard : \E b \in DOMAIN blocks : f[b] = k
          /\ \A a, b \in DOMAIN blocks : a < b => f[a] < f[b]
          /\ \A b \in DOMAIN blocks : blocks[b] = Block(events[f[b]])

ResultsFollowCalls(messages, r, events) ==
  \A k \in Told(events) : events[k].type = "tool.result" =>
    \E j, i \in Places(messages, r) :
      /\ Follows(messages, r, j, i) /\ Speaks(messages[i], events[k])
      /\ messages[j].role = "assistant" /\ messages[j].step = events[k].step
      /\ \E b \in DOMAIN messages[j].blocks :
           messages[j].blocks[b] = [type |-> "tool.call", use |-> events[k].use]

\* However often batches, chunks and whole logs are sent again, beside other
\* runs of the same conversation and whatever a back-fill has marked, the
\* transcript has one message for every role and step, its blocks are those of
\* the stored events that make one, each once and in their order, and a tool's
\* result is in the user's message right after the assistant's that holds its
\* call (_project).
TranscriptMatchesLog ==
  \A r \in DOMAIN db.runs :
    LET messages == db.messages[db.runs[r].conv]
        events == db.events[r]
    IN  /\ ToldOnce(messages, r, events)
        /\ BlocksInOrder(messages, r, events)
        /\ ResultsFollowCalls(messages, r, events)

\* No update of a row drops what an earlier one put there, though finish_run
\* reads extra_json outside of its transaction: the row of a run keeps its owner
\* and its conversation, a key of extra_json (usage, error class) stays a key and
\* a score stays a score.  Their values, and the status, may change: a repeated
\* import puts a corrected run back to "ok".
RowKeepsItsFacts ==
  [][\A r \in DOMAIN db.runs :
       /\ r \in DOMAIN db'.runs
       /\ db'.runs[r].conv = db.runs[r].conv /\ db'.runs[r].user = db.runs[r].user
       /\ DOMAIN db.runs[r].now.extra \subseteq DOMAIN db'.runs[r].now.extra
       /\ db.runs[r].now.score # None => db'.runs[r].now.score # None]_vars
=============================================================================
