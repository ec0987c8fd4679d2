# Faultline, modelled in TLA+

Faultline runs an agent against a small workspace while faults are injected
into it, records everything the agent and the environment did, and grades how
the agent coped. This directory holds TLA+ modules of its two services, the TLC
configurations that check them on small instances, and TLAPS proofs.

Sources are named relative to the repository root (`src/` here). `AH` stands for
`services/agent-harness`, `SE` for `services/sandbox-env`.

## 1. The system

```
browser --HTTP/SSE--> api --spawn--> run_episode --MCP / REST--> sandbox-env --> Modal Sandbox
                       |                 |                            |
                       +---- Store ------+                    episodes in modal.Dict
                      (SQLite, one container, snapshot on a Volume)
```

| component | state | operations | hard behaviour | what makes it correct |
|---|---|---|---|---|
| **Store durability** `AH/harness/sqlite_store.py` | hot database on the container's disk, `_dirty`, the snapshot on the mounted Volume, the published Volume | open/restore, transactions, `checkpoint` (VACUUM, rename, commit), timer thread, exit hook | a death or a failure between the three stages; two containers at a redeploy | no committed transaction is forgotten by the dirty flag; what a checkpoint covered stays |
| **Store rows** same file | users, conversations, run rows, events by `(run_id, seq)`, their projection into a transcript and into the row | `upsert_user`, `create_conversation`, `create_run`, `append_events` (INSERT OR IGNORE), `finish_run`, `events_after` | retried and duplicated batches, a restore that goes back in time, a read outside of the transaction | re-sending is harmless; transcript, row and log agree; a run has its conversation's owner |
| **REST API** `AH/harness/api.py` | none | identity, conversations, start of a run, spawn | several Store calls per request, with other requests in between | owners agree, nothing is made twice |
| **Operator jobs** `AH/harness/backfill.py`, `AH/modal_app.py` | none | `backfill_provenance`, `import_legacy_runs`, `prune_empty_conversations` | a death between two Store calls, a second job, live traffic beside them | repeating is harmless |
| **EventSink** `AH/harness/events.py` | the run's complete event list, a pending batch | `emit`, coalesced `flush`, `resend_all`, `update` | Store calls that fail before or after they took effect | nothing is lost while the worker lives |
| **SSE stream** `AH/harness/api.py` | the viewer's cursor | `_event_stream`: poll, window, done | reconnects; status read before the page | each event once, "finished" only after the last |
| **Episode runner** `AH/harness/loop.py`, `interrupts.py` | messages, the deferred reports, `harness_faults_fired`, status | the tool loop, resume, evaluate/delete/finish | lost answers, planned and unplanned deaths, Modal's retries | no call twice, every call answered, lost writes reach the grader |
| **MCP and gym clients** `AH/harness/mcp_client.py`, `gym_client.py` | none that lasts | one call, with its time-out | which failures may be retried | only a failed connect is |
| **Episodes** `SE/sandbox_env/episodes.py`, `mcp_tools.py` | the episode record (ledger, fault hits, step, terminated, score) in a `modal.Dict` without compare-and-swap; the sandbox | reset, tool calls, interruption reports, delete | every writer puts back the whole record it loaded | one row per served call; terminated for good |
| **Fault plan** `SE/sandbox_env/faults.py` | hits left per fault | decide, consume | stale hits | a fault fires as often as planned |
| **Tools and workspace** `SE/sandbox_env/mcp_tools.py`, `workspace.py` | the files of the sandbox | four tools, through the fault plan into a helper in the sandbox | hidden and removed files, a lost acknowledgement, time-outs, a sandbox that goes | listings and reads agree; the ledger row tells what happened |
| **Error classification** `AH/harness/classify.py` | the faults already seen | explain an answer from what `observe` newly shows | an `observe` that fails shows its fault to a later call | the transcript does not say "not executed" of what was |
| **Grader** `SE/sandbox_env/grader.py` | none | evaluate, the checks | a ledger that other requests still change | the verdict matches what the agent did |
| **Fleet** `SE/sandbox_env/episodes.py`, `SE/modal_app.py` | all episodes, all sandboxes | sweep, reap, purge | a reset racing a reap; a crash between provisioning and recording | no live episode is reaped, no sandbox is forgotten |
| **Web UI** `apps/web` | view derived from the events | the reducer over SSE frames | reconnects, duplicates | a fold over the event log |

Other parts (prompts, configuration, logging, the HTTP routes that only read)
keep no state of their own or are pure I/O; they are listed in `PROJECT.json` with the
reason. Scenarios, schemas and provenance are data the modules above use.

How they interact: `api` creates the run's row through the Store and spawns
`run_episode`; the worker talks to sandbox-env over MCP and REST and to the Store
through its EventSink; viewers poll the Store. Modal re-invokes a dead worker
`RUN_RETRIES` times with the same arguments, and the new worker rebuilds its
conversation from the stored events.

## 2. Modules

| module | models | state and its counterpart in the code |
|---|---|---|
| `DurableStore` | what the Store promises about durability: an atomic log, a saved earlier moment of it | abstract |
| `StoreCheckpoint` | `sqlite_store.py` open/_tx/checkpoint/exit hook, and what Modal does to containers and Volumes | `hot`, `dirty` = `_dirty`, `stage`/`holder` = the checkpoint that holds `_ckpt_lock`, `image` = the temporary file, `mount` = the snapshot as this container sees it, `volume` = as published; `promised` is history |
| `StoreCheckpointProofs` | theorems about it | |
| `RunStream` | what a run promises its viewer: a growing log, a shown prefix, "finished" only when complete | abstract |
| `EventLog` | `events.py`, `append_events`/`finish_run`/`events_after`, `_event_stream`, and the worker around them | `mem`, `pending` = EventSink; `hot` = row status and events; `saved` = last checkpoint; `asked` = the status already read by `events_after`; `cursor`, `shown` = the viewer |
| `EventLogProofs` | theorems about it | |
| `Episode` | one episode record, its sandbox and the requests in flight at sandbox-env | `rec` = the record in the Dict, `req[r].snap` = the copy a request loaded, `file` = the writes that landed |
| `RunLoop` (EXTENDS `Episode`) | `run_episode_sync` driving that episode, with deaths, losses, resume, reports and grading | `pc`, `events`/`stored` = the sink's list and how much of it the Store has, `deferred` = `deferred_reports`, `fired` = `harness_faults_fired` as persisted, `try` = invocations; `beside` is history |
| `RunLoopProofs` | theorems about both | |
| `Fleet` | reset, delete, sweep, reap and the sandboxes' own time-outs, over all episodes | `dict` = the records in the `modal.Dict` (there, marked terminated or not), `age` = `created_at` against the TTL and the purge age, `box` = Modal's list of sandboxes, `reset`, `sweep`, `del`, `reap` = the calls in flight; `given_up` is history |
| `FleetProofs` | theorems about it | |
| `Toolbox` | `faults.py`, the tools of `mcp_tools.py`, the helper in `workspace.py`, the paths and the tar of a reset | none: operators on a plan, its hits, a tree of files and a call |
| `ErrorClasses` | `classify.py`, `new_faults` and `pick_fault` | none: operators on an answer and the faults seen |
| `Grading` (EXTENDS `Toolbox`) | `grader.py` and the catalogue's goals and checks | none: operators on a ledger and a tree |
| `ToolCalls` (EXTENDS `Grading`, `ErrorClasses`) | one episode, call by call: serve, answer or lose, observe and explain, report, grade, resolve | `ep` = the record, `tree` = the workspace, `seen` = `seen_faults`, `results` = the transcript's results, `late` = calls given up and still on their way, `resolution` = the events of `emit_ledger_resolution`; `truth` is history |
| `ToolCallsProofs` | theorems about it | |
| `StoreRows` | the Store's verbs and projections | none: operators on a database |
| `Backfill` (EXTENDS `StoreRows`) | `backfill.py` | none: operators on a stored run |
| `StoreClients` (EXTENDS `Backfill`) | every caller of the Store, each Store call a step | `db`, `req` = a request that starts a run, `worker`, `calls` = `finish_run` between its read and its transaction, `job` = the operator's command; `opened`, `failures` are history |
| `StoreClientsProofs` | theorems about it | |
| `TranscriptProofs` (EXTENDS `StoreClientsProofs`) | the theorem about its transcripts | |
| `FoldLemmas` | lemmas about numbers and folds that `ToolCallsProofs` and `StoreClientsProofs` share | none |
| `MCStoreCheckpoint`, `MCRunLoop`, `MCFleet`, `MCToolCalls`, `MCStoreClients` | values for the constants | |

How they compose. `StoreCheckpoint` implements `DurableStore`; `EventLog` uses the
Store's disk only as `DurableStore` describes it (`saved` is the database at an
earlier moment, `Restart` goes back to it). `RunLoop` extends `Episode`: both
services run in one model. In `RunLoop` the Store always answers; what can
go wrong with it is `EventLog`'s subject. `Fleet` looks at sandbox-env from the
other side: many episodes, of each only whether it lives. What happens inside one
episode is `Episode`'s subject as far as requests race on its record, and `ToolCalls`'s as
far as its data goes: there requests are served whole, and tools, faults, workspace,
explanation and grade are composed instead. `StoreClients` looks at the Store from above: a Store
that stays up, and all who call it; what a worker appends there is a fixed log.

Actions follow the code's atomic steps. A Store transaction is one action, a
checkpoint three. A request at sandbox-env takes one action for its load, one for
its effect in the sandbox and one for its save, since other containers run in
between; `observe` changes nothing and appears only as the resume's probe. A
Store call by the worker is one action with three outcomes: done, done but
answered by an exception, not done.

Definitions named `X_Something`, in front of `X`, are mutants: a plausible wrong
version of `X`, used to show that a property notices it. No specification uses them.

## 3. Abstractions

* `StoreCheckpoint`: a database is the sequence of its transactions. Reads and
  the schema are left out; a failed VACUUM, rename or commit is one failure.
* `EventLog`: an event is its id, its kind and the invocation that emitted it.
  Kinds other than `run.started`, `run.resumed` and `run.finished` are "work". Of the
  row only the status is kept (`queued`, `running`, or any terminal one).
* `Episode`: one path, the one the scenario's faults and its
  `verified_before_rewrite` check are about; tools `write_file` and `read_file`.
  A fault has a finite number of hits and is transient. The other tools, sticky faults,
  unlimited hits and the staging at reset are in `Toolbox`.
* `Toolbox` and `ToolCalls`: a path is one of the scenario's files, the root, outside of the
  workspace or below a file; a command is a verb and a path; a file's content is how often the task's
  entry is in it. An episode's five plans, goals and checks are the catalogue's; the calls are a menu
  per scenario. Observe lists faults only (its listing of files and the diffs of the events are left
  out), and `mcp.reconnect` has no state. A call the infrastructure broke is one of
  `Weather`: denied by the file system, the sandbox gone before or after its effect, a command
  that timed out with or without effect, a record that cannot be saved.
* `Grading`: what an agent can plant is a conftest in the evaluation directory. A `pytest.ini`, or a conftest next to the
  visible tests, which the grader loads as well (`grader.py:62-63`), is outside the model, and so of `ScoreIsEarned`.
* `StoreClients`: a verb of the Store is one step, but for `finish_run`; `create_run`'s several transactions
  are one. Titles, times, scenarios and the limits of listings are left out, `extra_json` is a function
  from its keys. A live run's events are fixed, ids in one batch differ, dry runs and refused requests do
  nothing, and the local entry point runs without `--user`. When a job dies while the Store serves
  its `finish_run`, the next job starts after that; a request's or a worker's call has no such
  rule.
* `RunLoop`: the model (LLM) is any choice of the next tool or of ending. A run
  starts when `episode.reset` is stored. "ok" stands for `truncated` too. One
  attempt stands for GymClient's bounded retries of observe, evaluate and delete. The worker sends
  one tool call after the other, but goes on as soon as it gives one up: the next one may be
  served beside it (`beside` has the numbers of such calls). A retried invocation never overlaps
  the one before it, but the calls its predecessor left may still be served.
* `Fleet`: an episode and its sandbox have one name; tool calls, reports and scores are
  left out, so nothing here undoes `terminated` (see `Episode`). A record is young, past
  the TTL or past the purge age. The Dict hands out its records in a fixed order,
  `Keys`. The throttle of `sweep_quietly` is a free choice: a reset sweeps or it does not.
  Modal's list of sandboxes is read in one step, for Modal lists the newest first and a
  later one is not on the pages that follow. The sweep without a budget or with a lower
  TTL (`modal run ...::sweep`), `reap --force`, `--dry-run` and `GET /episodes` are left out.
  An owner does not delete a day later, since a run lasts 900 s at most; a sandbox
  has stopped by then, since it lasts half an hour at most.
* `QuietReap = TRUE` means that reap runs while no sandbox is being provisioned. It is a
  manual operation, "last line of cost defence"; without the assumption it can take the
  sandbox of a reset that is recorded between its scan and its list.
* `Patient = TRUE` means that sandbox-env ends a call nobody waits for before the requests of
  the end of the loop: the deferred reports, evaluate and delete (`MaySend`). `flush_interruption_reports` says
  so: "By the end of the loop the call has certainly landed" (`loop.py:454-463`). Nothing else waits. The
  next `tool_use` of the same turn goes out right after a time-out or an abort (`loop.py:835-876`), and so do the calls
  and reports of a resumed worker. `Patient = FALSE` drops even that assumption.

## 4. Runs

Bounds are constants of the modules and appear in the guards under their names.

### Store durability

* **StoreCheckpoint** (two incarnations of the container, three transactions).
  `TypeOK`; `UnsavedIsTracked`: what the Volume lacks is in the checkpoint in flight or
  the flag is up; `CheckpointedIsDurable`; `ImplementsDurableStore`; and
  `UnsavedIsEventuallySaved` under `Fairness`: the timer thread starts a checkpoint again
  and again (`start_autocheckpoint`), a checkpoint that started goes on, and a commit
  that is retried for ever succeeds some time. Strong fairness, because failures and
  other callers disable these steps in between. Two incarnations give a predecessor and
  a successor; three transactions give one saved, one in the checkpoint and one after it.
* **StoreCleanExit** (violation). The exit hook trusts "not dirty", which is true from
  the VACUUM on; the file is published two stages later.

### Event log

* **EventLog** (`FairSpec`; one retry, two deaths, two failed calls, three work events, no
  Store restart). `NothingForgotten`, `FinishedIsNotRerun`, `ImplementsRunStream`, and
  `RunEnds`: the run ends and its viewer is told, or deaths have used up the retries.
  Fairness: the worker and Modal's retry go on, the viewer polls, and a viewer
  that reconnects for ever gets one page through.
* **EventLogRestart** (two restarts, one failed call, no worker death). `TypeOK`,
  `ShownOnce`, `ResendIsComplete`.
* **EventLogCollision** (violation): a Store restart and a worker death in one run. The
  next worker gives events ids that are taken, and the Store ignores them.

Two deaths and one retry let a run stop for good; three work events leave events on
either side of every fault. `PageLimit` is larger than any log here, as 2000 is for a
run of at most 40 steps.

### Runner and episode

* **RunLoopLoss** (three calls, one loss, no deaths; an abandoned call is served beside the ones after it, in every
  order of their loads, effects and saves). `ServedIsRecorded`: a call that was served and heard of, and that was not itself sent
  beside an abandoned one, keeps its row; whatever is abandoned later puts back a copy that has it. (A call
  sent beside one may lose its row, see below; the property says that no other does.) `LossLeavesAMark`: the ledger
  that is graded has an interrupted row for a lost write, at the write's own row or behind it if that is there, even if a call beside it
  took that row back. `NoRewriteIsJudgedRight`, `OkIsGraded`. Three calls are: one that is safe, the lost one and one
  beside it; or the lost write, the read that verifies it and a rewrite.
* **RunLoopCrash** (`FairSpec`; two calls, `worker_crash`, one unplanned death, two
  retries). `EveryCallAnswered`, `PlannedFaultOnce`, `MarkIsExplained`, and `RunIsOver`
  under weak fairness of the worker (a live process runs, Modal retries a dead one)
  and of sandbox-env (a request it has gets served). Two retries are enough for one
  planned and one unplanned death. The call a dead worker left is served beside its successor's. The fault plan misses
  the file twice, so both calls end early and their rows still race; without a fault plan there are
  3.6 million states, too many to check liveness on. The three safety properties are proved for every plan.
* **RunLoopFaults** (two calls, one `ack_lost`, `transport_abort`, the sandbox may
  die, `Patient = FALSE`). `LoopTypeOK`, `AtMostOnce`, `InterruptedHasNoScore`.

### Fleet

* **Fleet** (`FairSpec`; two episodes, a sweep, a scan of one record, a budget of one
  action, one failed call or killed container). `TypeOK`; `SparesTheLiving`: what reap is
  about to kill is not in use; `ReapedIsMarked`: a reap that ends leaves no record that
  claims a sandbox it killed; `NoSilentStray`: a running sandbox is being provisioned, or
  has a live record, or is one of those given up; `PurgedIsGone`: a purge never
  takes the record of a running sandbox; and `OldIsReclaimed`. Two episodes and a
  scan of one put a dead record in front of an expired one, which is what the bound
  of 200 does to a Dict with more records than that. Fairness: time passes, sandboxes have their
  time-outs, a sweep that started goes on, and sweeps are started again ("as long as
  anyone keeps using it", `episodes.py:56-57`).
* **FleetBlind** (violation): the Dict answers neither `items()` nor `keys()`. Both
  are caught on the way, the protection list is empty, and reap goes on.

### Tool calls

* **ToolCalls** (five scenarios of the catalogue, three calls from each one's menu, one failure besides
  the fault plan). `OutcomeIsTrue`: what the transcript says of a call, executed or not, with a side
  effect or without, is what happened, whatever faults, lost answers and failed observes there were;
  `ListingAgrees`: a listing shows a file exactly when a read of it would get through and find it;
  `ScoreIsEarned`: a planted file in the evaluation directory or an odd end of pytest brings no
  test points; `BlindRewriteFails`: who writes again after a lost acknowledgement without reading back does
  not pass; `ResolutionIsTrue`: the events that resolve doubtful calls from the ledger are right. Three calls are a
  fault, what the agent does about it, and a call after that which a confusion of the two would
  hit; each menu has typed and shell calls on every kind of path its scenario's faults tell apart. The
  guards in these properties (`Attributable`, `clean`, `InTurn`) are the cases where the code is known
  to be wrong; they are listed below.

### Store clients

* **StoreClients** (one user beside the anonymous and the legacy one, one live run, one old run, one
  conversation, two jobs, one death or lost answer). `OwnersAgree`, `StraysExplained`: a conversation nobody
  asked for holds a run, but for one per death; `TranscriptMatchesLog`: one message per role and step, whose
  blocks are the stored events that make one, each once and in order, and each tool result in the message right after
  its call's; `RowKeepsItsFacts`: though
  `finish_run` reads outside of its transaction, no update of a row drops a fact (a key of `extra_json`, the score; which
  value it has may change, and so may the status). Two jobs are
  one that dies and its repetition, or two different ones; the old run is one that the back-fill
  corrects; a chunk of four events splits its log of six between a call and its result: the first chunk has the task and a
  turn's text and call, which make one message each, the second the result. The live run has one turn of text only, flushed and
  sent again in any pieces, and a grade: with a tool call of its own, too, the run takes too long to check. `TranscriptAlwaysMatches`
  covers all logs.

An episode that is graded and jobs that are used up really stop, so these two runs do not
check deadlock. `RunLoop` ends in a self-loop (`Over`), and `Fleet` can always sweep once more, so
deadlock is checked in all others.

### Disagreements without a run

Reading and checking also showed the following. None has a run of its own; where a property
would be violated by one, its definition excludes that case by name.

Durability, events, episodes, fleet:

* A Store restart that loses the run's row makes every later `append_events` raise; `resend_all` only logs that,
  and nothing of the run is back-filled, against `ARCHITECTURE.md:211-214` and `events.py:9-11`.
* A Store restart can drop an event that no viewer was shown yet. The worker's next batch is stored beyond the hole,
  the cursor of `_event_stream` passes it (`api.py:535`), and what the re-send fills in is never shown, against
  "contiguous" and "no gaps" (`docs/harness-contract.md:28`).
* A stale save by an abandoned tool call can also undo `terminated`.
* After a Store restart `resend_all` inserts `run.started` behind `run.finished`; its
  projection reopens the run, and a retry may run it again (`FinishedIsNotRerun` is
  checked without Store restarts).
* The report of a lost write marks the most recent write of the path, which is the
  wrong one when the agent wrote it again.
* `install_helper` can fail before `reset` has a handle on the sandbox, and a `terminate`
  that fails is recorded as done: in both cases the sandbox runs until Modal's time-out.
* A reset between reap's scan and its list can lose its sandbox (`QuietReap`).
* An unplanned death can forget a tool call whose write landed (`tool.call` is coalesced).
* A death between delete and `run.finished` leaves an interrupted run with a stored score,
  and a loop that ended in an exception is graded all the same (`loop.py:1028`).
* At a redeploy two Store containers run for a while, and the Volume takes the last snapshot written:
  the older one's does not have the newer one's runs (`sqlite_store.py:774`).
* A call the harness gave up, still served beside the next one, puts back its stale copy of the record
  over that one's row, or loses its own to it: `interrupts.py:345` says "The ledger counts one row per MCP call the
  *gym* served". `ServedIsRecorded` leaves out the calls in `beside` and no others; `NoRewriteIsJudgedRight` asks that
  there are none, since the row it judges may be gone.

What a call is said to have done:

* When observe fails after a call that a fault answered, the next failed call with the same code is explained by
  that fault (`loop.py:885`); `pick_fault` says it falls back to the newest row and takes the first
  (`loop.py:138-143`).
* A real ENOENT is labelled injected while observe does not answer, and a second ENOENT on a removed path
  real (`mcp_tools.py:240-243`).
* `schemas.py:233` has the outcome "unknown" for a call that may have been applied; `mcp_tools.py` records
  `error`, from which `ledger_side_effect` concludes that it was not. A command that ran into its
  time-out after its effect is one of those, and with an `ack_lost` fault on it the fault is recorded first.
* `align_ledger` gives a row to an earlier call of the same tool and path that never got one.
* `list_dir` of a hidden file answers EINVAL, not ENOENT, and a path below a file makes the helper fail, which
  is taken for a lost sandbox and ends the run as interrupted (`workspace.py:149-179`, `loop.py:982-983`).
* Writes of the same content stage under one name in the sandbox (`ModalWorkspace.write`), which two
  overlapping ones share.
* `verified_before_rewrite` passes a blind rewrite when a second answer was lost (the report marks the
  newest row), and does not count a verification that came before the report's annotation was appended.

Store clients:

* `apply_plan` appends the marker before the row is corrected and says that a death in between leaves a
  candidate (`backfill.py:246-251`, `modal_app.py:428-431`). It does not: the marker makes `is_candidate` false, and the
  run stays `ok` for good; the test of it takes the marker out by hand (`tests/test_backfill.py:322-326`). An import
  that dies after its row is not completed by a later one either, since the listing shows the run.
* `import_legacy_runs` says that "re-running changes nothing" (`modal_app.py:342-343`); its
  `finish_run` resets a corrected run to `ok`.
* `prune_empty_conversations` archives a conversation whose first run came after its listing.
* A spawn that raises after Modal has the call, and the row's `error`, race with the worker
  (`api.py:438-445`); an API container that dies before the spawn leaves the run queued for ever.

## 5. Proofs

`StoreCheckpointProofs` proves, for every set of containers and transactions and from the
single assumption `~Overlap` (one Store container at a time, `max_containers=1`
outside of a redeploy; with two, a stale snapshot replaces a newer one, so `CheckpointedIsDurable`
is false):

* `CheckpointTypes`: `Spec => []TypeOK`
* `UnsavedStaysTracked`: `Spec => []UnsavedIsTracked`
* `CheckpointedStaysDurable`: `Spec => []CheckpointedIsDurable`
* `CheckpointImplementsDurableStore`: `Spec => ImplementsDurableStore`

`UnsavedIsTracked` is not inductive. A commit publishes whatever the mount shows, so
one must know that the mount is a moment between the Volume and the hot database,
that a checkpoint's image lies between mount and hot, and that after the rename mount
and image are the same; and a second container would break all of it. `IInv` is
`TypeOK`, `OnlyOne` (at most one container), `DownIsEmpty`, and for the live container
`Ordered` and `Tracked`, with `CheckpointedIsDurable`. "Is a later moment of" is
`Extends`, a partial order (lemmas `ExtendsRefl`, `ExtendsTrans`, `ExtendsAntisym`,
`ExtendsAppend`). `StepInv` has a step per action. The refinement maps `log` to what is
served (the live container's database, else the Volume) and `saved` to the Volume;
`StepRefines` shows that a commit is `Append1`, a publication `Save`, the end of a
container `Restart`, and everything else a stutter.

`FleetProofs` proves, for every set of episodes and sweeps, every order of the Dict and
every bound, under `QuietReap` and `~BlindReap`:

* `ReapSparesTheLiving`: `Spec => []SparesTheLiving`

That a sandbox on reap's list is not in use does not follow from the scan alone: between
the scan and the kill, resets, deletes and sweeps go on. The argument is that an episode
whose reset is over (`OutOfUse`: done or failed, and not in use) stays out of use,
because only `reset` ever writes a live record. So `IInv` says that from the
scan on every running sandbox not spared is out of use, and for that it has to know that
there is no sandbox before `Create` (`NotBefore`) and that a sweep which ends or
is killed moves only the reset that waits for it (`CallersWait`). `Shapes` is as much of the types as
these steps need. The two assumptions are needed: `FleetBlind` shows it for the one, the hazard at
`modal_app.py:159` describes the other.

It also proves the rest of what `Fleet` promises whatever interleaves, for the same constants, and with no
assumption except in the last:

* `FleetTypes`: `Spec => []TypeOK`
* `StraysAreKnown`: `Spec => []NoSilentStray`
* `PurgedSandboxesAreGone`: `Spec => PurgedIsGone`
* `ReapedAreMarked`: `Spec => []ReapedIsMarked`, under `QuietReap` (the Dict may be blind).

Deletes, sweeps and reaps act on what they read earlier, and the two stores know nothing of each other. What they
read stays true because a sandbox is created once, before its episode has a record, an age or a delete
(`TracesBegin`): a sandbox that is down stays down (`Forward`). So a delete that is about to mark has a
sandbox that stopped or was given up (`DeletesAreSound`, `DeadIsDown`), an entry of a sweep's list that says "purge"
stays a day old (`PurgesAreDue`, `AncientIsGone`), and what reap has killed is gone (`ReapedIsGone`).
`DeletesAreSound` also keeps an action in a sweep's budget for the delete it waits for, which the
types need. For `ReapedIsMarked` one must know that the resets of the sandboxes reap lists are over (`QInv`), so that
no save makes a record alive between `mark_terminated`'s scan and its writes.

`EventLogProofs` proves, for any number of events, invocations, deaths, failed calls and Store restarts and any page
length, with no assumption:

* `EventTypes`: `Spec => []TypeOK`
* `EventsAreShownOnce`: `Spec => []ShownOnce`

The argument is about `ORDER BY id`: `InOrder` puts each event at the place the number of smaller ids gives it, which
lists every row once and in ascending order when ids are distinct (`InOrderSorts`, `InOrderIs`, by counting), and the
primary key keeps them distinct (`AppendedSound`, `StoreSound`). The inductive invariant `VInv` adds to the types that the
database and its snapshot are such tables and that all the viewer was shown lies below its cursor: so a page starts
above it whatever a restarted Store forgot or was given again.

It goes on to what holds while the Store's container stays up (`MaxRestarts = 0`), whoever dies and
whatever call fails:

* `NothingIsForgotten`: `Spec => []NothingForgotten`
* `FinishedStaysFinished`: `Spec => FinishedIsNotRerun`
* `ResendCompletes`: `Spec => ResendIsComplete`, also with Store restarts if no worker dies (`MaxCrashes = 0`);
  `EventLogCollision` shows it false with both
* `EventLogImplementsRunStream`: `Spec => ImplementsRunStream`, if moreover a page takes the longest log the budgets
  allow (`PageLimit >= MaxEvents + Retries + 2`); with a shorter page the stream may end early, the hazard at
  `sqlite_store.py:570`.

The core is one fact about `INSERT OR IGNORE`: if the stored log is an initial part of a list whose ids are its places,
and a batch is an end of that list with nothing missing before it, then the append makes the log the list
(`FreshIsNew`, `AppendCompletes`), and `_project` makes the run final exactly when the list ends with `run.finished`. The
inductive invariant `IInv` says that this is always the case for a living worker: its list goes on from the log and its
pending batch closes the gap (`ListGoesOn`), a stored `run.finished` means a final status (`FinishIsFinal`, so a retry
stops), and a final run's log is complete while its worker lives. `SizeInv` bounds the log by the budgets. For
the viewer, `ViewInv`: its cursor counts what it was shown, which is an initial part of the log, so a page is the rest of
the log (`PageIsRest`). Each step is then one of `RunStream`'s or a stutter (`StepStreams`). Without deaths there is only
one list and all that is ever stored or saved is of it (`OneList`), so a resend fills every gap a restart left.

`RunLoopProofs` proves, for every set of calls, every fault plan and any number of retries, deaths and
lost answers (whether or not sandbox-env is `Patient`, but for the last two, which need it):

* `RunTypes`: `Spec => []LoopTypeOK`
* `CallsRunAtMostOnce`: `Spec => []AtMostOnce`
* `FaultInflictedOnce`: `Spec => []PlannedFaultOnce`
* `CallsAreAnswered`: `Spec => []EveryCallAnswered`
* `MarksAreExplained`: `Spec => []MarkIsExplained`
* `OkRunsAreGraded`: `Spec => []OkIsGraded`
* `InterruptedUnscored`: `Spec => []InterruptedHasNoScore`, if no worker dies (`MaxDeaths = 0`, no
  `worker_crash`); with a death it is false, see section 4.
* `ServedCallsAreRecorded`: `Spec => []ServedIsRecorded`, if no worker dies, whatever abandoned calls are served beside
  what, and for however long
* `LostWritesAreMarked`: `Spec => []LossLeavesAMark`, if the planned fault is no `worker_crash` and abandoned calls are
  over by the end of the loop (`Patient`); that one answer at most is lost is part of the property (`OneLossOnly`)
* `JudgementIsRight`: `Spec => []NoRewriteIsJudgedRight`, under the same two assumptions, for every plan without an
  `ack_lost` entry (`NoAckLost`), and for every plan at all if no answer gets lost and no failure is planned (`MaxLosses = 0`,
  `Trigger = "none"`). With both it is false, as TLC shows on two calls: the acknowledgement of a write is
  lost by the plan, the answer of the read after it by the network, and the ledger has a read the agent never saw.

Each has its own inductive invariant on top of `Shape`, which is the types and what they need: a call about to be
recorded has an answer, the log's calls name requests, and the call at hand is one while it is served.

* `Once`: a call number beyond `issued` is nowhere, a request that has not run has not landed, and until
  dispatch the call at hand is idle. Deaths keep `issued`, so a resume never sends an old number.
* `Planned`: before `fired` is persisted nothing has been inflicted, and dispatch of a planned call comes after it.
* `Answered`: numbers are used in order and have one result each at most; from the call to its result only the call at
  hand dangles; a resume names a dangling call, and it has no result yet. A death needs nothing: it only
  cuts the log off, and `down` claims nothing but uniqueness.
* `Marks`: whoever carries a mark (the record, any request's copy of it) or is about to make one (a report,
  a deferred write) does so after an interruption event that is in the Store, and the Store keeps its prefix
  (`StoredStays`). Copies count because a stale one can bring a mark back.
* `Graded`: an evaluate that has computed its grade, the event that says so, and the end of the loop with status ok
  come in this order, in the log too, so that a death cannot cut off the grade and keep the end.
* `Unscored`: the score is appended where the status can no longer become interrupted.

The last three are about the whole record being read and written by several requests at once. `Alone` is why that goes well
while one worker lives: it waits for a call that is not in `beside` with nothing else in flight, and what is no tool call is
sent from the finally block; and if sandbox-env is `Patient`, a tool call meets no other request at all unless some call is in
`beside`, and none is in flight once a report, evaluate or delete was sent (`LivingSends`, `MaySend`). `Ledgers` says once what any handler
may do to the record and its copy: refuse, load, work on the copy, add a row, put it back or mark it. Then:

* `Kept`: the record, and every copy of it that a request has loaded, has the row of every call that is `Sure`: answered as served,
  from the answer on, and not in `beside`. The record has it when the answer is given, and at that moment there is
  no other copy; every later one is loaded from a record that has it, so whichever is put back, and whenever, loses no such row.
* `Named`: a row that landed and a result are of a call in the log, and a number stands for one tool. So a lost result
  and a row with its number are of the same write.
* `Late` and `Counted`: nothing is graded before the deferred reports are out, and each of those was counted as a loss
  or as the planned failure, so a second loss, such as that of the report, is outside `OneLossOnly`.
* `Reporting` and `Doubted`: a lost write is about to be noted, or waits in `deferred_reports`, or is `Settled`: the record and
  every copy of it carry a mark that no landed row of the write is behind (`MarkedAfter`), whichever row the report chose and whether
  or not the write's own row survived the calls beside it (`MarkCovers`), and no tool call is left that could put an
  older ledger back.

That the grader is right takes more: what a ledger says, and in which order, is what the log says. This is so
while nobody died and `beside` is empty (`Solo`):

* `Fresh`: a call is idle until it is dispatched, and the one in flight is the latest that was sent. `Truthful`: a row's
  outcome is its request's answer, and so is what a result says, unless it says that there was none.
* `InSequence` and `CallsInOrder`: rows, and calls in the log, are of ascending numbers, so that "behind the write" means
  the same in both; and in the finally block every call has a result. `GradesKept`: a graded ledger has every
  call that was served and heard of.
* `Marking`: a mark is at the last write that landed, and none is made before the tool calls are over. So the row of a lost
  write which no other write follows is the only one marked. `Unhurt`: without a loss there is no mark at all.
* `Single`: no second call's outcome is unknown, so a read behind the write was heard. `Lossy`: an `ack_lost` answer is
  of a write, under a plan that has such an entry. `Calm`: nothing is inflicted that was not planned.

`StoreClientsProofs` proves, for every set of users and runs, all logs and all bounds, without an assumption
beyond those on the constants:

* `OwnersAlwaysAgree`: `Spec => []OwnersAgree`
* `StraysAreExplained`: `Spec => []StraysExplained`
* `TablesHoldTogether`: `Spec => []TypeOK`
* `RowsKeepTheirFacts`: `Spec => RowKeepsItsFacts` (that facts stay there, whatever their values)

The Store never compares the owner a caller passes with the conversation's. That owners agree rests on the callers: the
API asks for the conversation as its user in one call and creates the row in a later one. `IInv` therefore
says of the request in between that its conversation has its user (`RequestsAgree`), and of an
import the same for the legacy user (`ImportAgrees`); `Sound(db)` is the schema's references and the
agreement itself. Each verb is shown to be in `Keeps`, the relation between databases in which conversations
and runs only grow and keep their owners, so that what a waiting caller knows survives whatever
others do (lemmas `UpsertKeeps` to `CreateRunKeeps`); the step of each caller then follows.

A conversation that nobody asked for and that has no run is either held, by a request or an import on the way to
its row, or left, and `StrayInv` says that no more are left than there were failures. It needs to know that
whoever is on the way finds no row of that run (`NoRowYet`): otherwise `create_run` would return the old row and the
conversation would be left without any failure. That holds since a request and a worker of the same run exclude
each other until the row is there, and since live and imported runs have different ids (`ClientsAssumption`: an
id is made up when a run starts, `new_run_id`). The count itself is one lemma about a step (`StrayCount`): everything a step
opens is asked for, has its run or is held, and what was held stays so or has its run, but for the one conversation of
the caller that failed.

The other two share one more invariant (`Facts`), because what is not obvious in the types is what is not obvious in the
rows: the Store takes any event numbers and any `extra_json`, and that ids have no gap and no key is lost is the callers'
doing. `AppendTables` says what a batch does whose ids go on where the stored ones end or before; `append_events` goes
event by event, so this is an induction along the batch (`StoreAllStages`, `BatchGrows`). That every batch is such a
one is `WorkerOk` (what a worker takes for sent is stored, however often it was replayed), and for the jobs `JobOk` (the
chunks before the next are stored; a marker planned from the run as it was read still has the next number).
Rows: `finish_run` writes back the `extra_json` it has read before, so an update that waits could undo another. `CallOk` says why
none does: a live run's updates carry all keys or none, and a job is the only one to touch an imported run, waits for its
update (`OneWaits`) and so writes back what is still there. For that a live run must never be a candidate of the back-fill,
which is `Honest`: a run whose log says "ok" carries no error of `evaluate`, and another never says "ok". It rests on what
`LogAssumption` says of a worker's log (`run_episode_sync` makes `run.finished` the last event, and "ok" only without
such an error); TLC evaluates the assumption on the instance's logs, and has checked `Facts` there.

`TranscriptProofs` proves, for the same constants, that transcript and log are one:

* `TranscriptAlwaysMatches`: `Spec => []TranscriptMatchesLog`

A transcript is made event by event by `_project`, which looks for the run's last message of a role and step, and makes
one when there is none. So that an event finds its place, one has to know more of a run's messages than the property says
(`Written`): every message has an event in it (`Heard`), steps never go down along them (`Ordered`), and a message with results
follows its step's assistant message (`Answers`). What it takes of the events is `TellingAssumption`, the order in which
`run_episode_sync` speaks: `run.started` first, `run.finished` last, steps that count up from 1, and a result behind its call.
TLC evaluates it on the instance's logs, whose old run has them all, and has checked the inductive invariant `TellInv` there.
A batch that goes on where the stored events end, or starts before, is then an induction along it
as for the rows, and messages of other runs in the conversation do not disturb, since `_project` only looks at its own.

The one event that no worker told is the back-fill's marker, whose id is the next free one. It must not take the id of an
event that would have made a block, or that block would be missing for good, as INSERT OR IGNORE skips it. It does not because of who
marks: an old run whose row says "ok" has no event yet, or all of them, or a marker (`Fine`), so a candidate's marker comes behind
the whole log. This needs a word on everybody who can make a row say "ok": a worker's `finish_run` under way
has its whole log in the Store (`CallsSettle`), and so has an import before it sets the row, while the plan of a back-fill is one
for a complete run (`JobSettles`).

`ToolCallsProofs` proves, for every workspace, every menu of calls and any number of calls and failures, in the five
scenarios of the catalogue:

* `TypeCorrect`: `Spec => []TypeOK`
* `OutcomesAreTrue`: `Spec => []OutcomeIsTrue`
* `ListingsAgree`: `Spec => []ListingAgrees`
* `ScoresAreEarned`: `Spec => []ScoreIsEarned`
* `ResolutionsAreTrue`: `Spec => []ResolutionIsTrue`
* `BlindRewritesFail`: `Spec => []BlindRewriteFails`

It assumes that the fixture holds the files the catalogue speaks of and nothing by the names of the evaluation file, the
root and the two outside paths (`CatalogueAssumption`, `FilesAssumption`), and that menus are of calls
(`MenuAssumption`). One inductive invariant carries all six, because what the harness says of a call, what the ledger says
and what happened are three records of one thing:

* `Lined` and `Told` tie transcript and ledger to the history: a row has its call's fault, and says "side effect"
  exactly when the call ran. `Rowed`: only a call that was refused at once or that the infrastructure broke left no row.
* `Stepped` and `Ordered`: rows are of ascending steps, and of ascending calls as long as nothing came late. Without them
  greedy `align_ledger` could give a row to an earlier call (`FirstOpen`, `AlignedCalls`), and a read
  could stand between two writes in the ledger that did not come between them (`ReadBetween`, `BlindRewrite`).
* `FaultsKnown`: the harness knows an initial part of the faults that fired, and whatever of the rest is
  of a kind that some call it did not hear about had. So a fault that `new_faults` shows is this call's own or an unheard one's,
  which is what `Attributable` excludes; `ExplanationIs` and `ClassifyIs` say what `pick_fault` and `classify_result` make of it.
  That `new_faults` drops nothing rests on steps: two faults never have the same key (`Dated`).
* `AckLostOnce`: the injected lost acknowledgement hits once, on the changelog, which no scenario removes; and a row of
  a read that was answered is of a call the transcript calls executed.
* `HitsCount` (the hits of a fault only go down), `Reports` (only a lost answer is reported later), `Graded` (what the
  grade was computed from), `Shapes` (types).

`ServeIs` says once what every request may do, in any weather: refused by its path, by the plan, by the workspace, unsaved,
without its acknowledgement, or done; all actions that serve a call use it. What the folds compute (`faults_fired`,
`new_faults`, the weights of the checks) is proved by induction over sets of numbers: the library's induction theorems take
an operator, but its well-founded order on finite sets is an object, and gives the least element of a set (`Least`, `Induct`).
For that the model has folds of the community modules, and `align_ledger` a recursive function.

Left to TLC: everything under fairness (`UnsavedIsEventuallySaved`, `RunEnds`,
`RunIsOver`, `OldIsReclaimed`), since liveness and ENABLED are out of the prover's reach. Every other property
of the passing runs, invariants, action properties and the two refinements, is stated by a theorem above.
No module has RECURSIVE operators, with which the prover could not do either.

## 6. Not modelled

* The web client's reducer: a switch over event shapes that keeps nothing beyond the page. `RunStream` states
  what the frames promise it.
* Prompts, model configuration, logging, descriptions, evidence texts: wording.
* The message list `plan_resume` rebuilds (its dangling calls are in `RunLoop`), the `llm_calls` table, schema
  migrations, the debug routes: formats that no other state depends on.
* The Modal and SQLite implementations, the MCP transport, tar bytes and exec streams: external,
  modelled by what they promise.
* `RunLoop` over `EventLog` in one model: `RunLoop`'s Store always answers, `EventLog`'s worker has no
  tools. The product is too large for TLC, and what one promises the other (every event stored once, in order,
  while the Store stays up) is checked as `NothingForgotten` and `ImplementsRunStream`.
* The start of a run before `episode.reset`: a reset the client repeats makes an episode that
  `Fleet` has as an ordinary abandoned one. Tool calls beside a purge or a `mark_terminated`.
* The scripts under `src/scripts` and `tools`: they drive the deployed services and assert on the outcome.
