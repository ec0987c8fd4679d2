------------------------------ MODULE EventLog ------------------------------
(***************************************************************************)
(* How one run's events travel: the worker's EventSink (events.py) keeps   *)
(* the complete list and a pending tail, the Store (sqlite_store.py)       *)
(* inserts them idempotently and projects the status, and a viewer         *)
(* (api.py _event_stream, behind a browser that reconnects) polls what is  *)
(* new.  Any call to the Store may fail before or after it took effect,    *)
(* the worker may die and be re-invoked by Modal, the Store container may  *)
(* be replaced by one that restores the last checkpoint.                   *)
(*                                                                         *)
(* The Store's disk is abstracted to DurableStore: "saved" is the database *)
(* of an earlier moment.  Payloads are left out: an event is its id, its   *)
(* kind and the invocation of run_episode that emitted it.                 *)
(***************************************************************************)
EXTENDS Naturals, Sequences, SequencesExt, FiniteSets, FiniteSetsExt

CONSTANTS
  Retries,       \* config.RUN_RETRIES: Modal re-invokes a dead worker so often
  MaxCrashes,    \* bound: workers that may die
  MaxBlips,      \* bound: Store calls that may fail
  MaxRestarts,   \* bound: Store containers that may be replaced
  MaxEvents,     \* bound: no more work events once the run has so many
  PageLimit      \* events_after's LIMIT

ASSUME BoundsAssumption ==
  /\ {Retries, MaxCrashes, MaxBlips, MaxRestarts, MaxEvents} \subseteq Nat
  /\ PageLimit \in Nat \ {0}

VARIABLES
  pc,            \* where the worker is in run_episode_sync
  try,           \* invocations of run_episode so far
  mem,           \* EventSink.record["events"]
  pending,       \* EventSink._pending
  hot,           \* the Store's database: status of the run row, events
  saved,         \* the database as last checkpointed
  asked,         \* the status events_after has just read, or "idle"
  cursor,        \* events_after's "after", plus one: the next id to ask for
  shown,         \* the events the browser was given, in order
  closed,        \* the stream ended with done/finished
  blips, restarts

vars == <<pc, try, mem, pending, hot, saved, asked, cursor, shown, closed,
          blips, restarts>>

worker == <<pc, try, mem, pending>>
store == <<hot, saved>>
viewer == <<asked, cursor, shown, closed>>
bounds == <<blips, restarts>>

Kinds == {"run.started", "run.resumed", "work", "run.finished"}
Event == [id : Nat, type : Kinds, by : Nat]
Statuses == {"queued", "running", "final"}
NoRow == [status |-> "none", events |-> {}]
EmptyRow == [status |-> "queued", events |-> {}]

TypeOK ==
  /\ pc \in {"down", "boot", "open", "work", "resend", "flush", "settle", "done"}
  /\ try \in 0 .. Retries + 1
  /\ mem \in Seq(Event)
  /\ pending \in Seq(Event)
  /\ hot = NoRow \/ (hot.status \in Statuses /\ hot.events \subseteq Event)
  /\ saved = NoRow \/ (saved.status \in Statuses /\ saved.events \subseteq Event)
  /\ asked \in Statuses \cup {"idle", "none"}
  /\ cursor \in Nat
  /\ shown \in Seq(Event)
  /\ closed \in BOOLEAN
  /\ blips \in 0 .. MaxBlips
  /\ restarts \in 0 .. MaxRestarts

-----------------------------------------------------------------------------
(* The Store *)

Ids(db) == {e.id : e \in db.events}

\* ORDER BY id: in place i stands the event that i - 1 others come before.
InOrder(S) ==
  [i \in 1 .. Cardinality(S) |->
     CHOOSE e \in S : Cardinality({f \in S : f.id < e.id}) = i - 1]

\* INSERT OR IGNORE: an id that is taken, or comes twice, is skipped.
Fresh(db, batch) ==
  {i \in DOMAIN batch : /\ batch[i].id \notin Ids(db)
                        /\ \A j \in 1 .. i - 1 : batch[j].id # batch[i].id}

\* _project: the last inserted run.started or run.finished sets the status.
Projected(db, batch) ==
  LET turns == {i \in Fresh(db, batch) :
                  batch[i].type \in {"run.started", "run.finished"}}
  IN  IF turns = {} THEN db.status
      ELSE IF batch[Max(turns)].type = "run.started" THEN "running" ELSE "final"

Appended(db, batch) ==
  [status |-> Projected(db, batch),
   events |-> db.events \cup {batch[i] : i \in Fresh(db, batch)}]

\* checkpoint() never raises; when it fails the snapshot stays as it was.
MayHaveSaved == saved' \in {saved, hot'}

\* Mutant: no look at the run's row first.
AppendEvents_NoRowCheck(batch) ==
  /\ hot' = Appended(hot, batch)
  /\ UNCHANGED saved

\* append_events: run.finished forces a checkpoint.
AppendEvents(batch) ==
  /\ hot.status # "none"
  /\ hot' = Appended(hot, batch)
  /\ IF \E i \in Fresh(hot, batch) : batch[i].type = "run.finished"
       THEN MayHaveSaved ELSE UNCHANGED saved

\* finish_run, the general update of the row; a terminal status checkpoints.
FinishRun(status) ==
  /\ hot.status # "none"
  /\ hot' = [hot EXCEPT !.status = status]
  /\ IF status = "final" THEN MayHaveSaved ELSE UNCHANGED saved

\* A call that comes back with an exception: it may have been executed.
Blip == blips < MaxBlips /\ blips' = blips + 1
NoBlip == UNCHANGED blips

-----------------------------------------------------------------------------
(* EventSink *)

\* Mutant: the pending batch is dropped before the call returns.
Send_DropFirst(batch) ==
  /\ pending' = << >>
  /\ \/ AppendEvents(batch) /\ NoBlip
     \/ UNCHANGED store /\ Blip

\* One append_events call for the batch; it stays pending unless answered.
Send(batch) ==
  \/ AppendEvents(batch) /\ NoBlip /\ pending' = << >>
  \/ AppendEvents(batch) /\ Blip /\ pending' = batch
  \/ UNCHANGED store /\ Blip /\ pending' = batch
  \/ hot.status = "none" /\ UNCHANGED store /\ NoBlip /\ pending' = batch

\* emit: ids count the list; flush() may coalesce and send nothing yet.
Emit(kind) ==
  LET e == [id |-> Len(mem), type |-> kind, by |-> try] IN
  /\ mem' = Append(mem, e)
  /\ \/ Send(Append(pending, e))
     \/ UNCHANGED store /\ NoBlip /\ pending' = Append(pending, e)

\* update, after its flush: failures are logged and tolerated.
Update(status) ==
  \/ FinishRun(status) /\ NoBlip
  \/ FinishRun(status) /\ Blip
  \/ UNCHANGED store /\ Blip
  \/ hot.status = "none" /\ UNCHANGED store /\ NoBlip

-----------------------------------------------------------------------------
(* The worker *)

HasProgress(events) ==
  \E e \in events : e.type \notin {"run.started"}

Goto(where) == pc' = where /\ UNCHANGED <<try, viewer, restarts>>

\* Mutant: a retry does not look at the status it finds.
Invoke_AnyStatus ==
  /\ pc = "down"
  /\ try <= Retries
  /\ try' = try + 1
  /\ pc' = "boot"
  /\ mem' = InOrder(hot.events)
  /\ pending' = << >>
  /\ UNCHANGED <<store, viewer, bounds>>

\* Modal (re-)invokes run_episode, which reads the record: a terminal status
\* ends it, a missing row is created, stored events become the sink's list.
Invoke ==
  /\ pc = "down"
  /\ try <= Retries
  /\ try' = try + 1
  /\ pc' = IF hot.status = "final" THEN "done" ELSE "boot"
  /\ hot' = IF hot.status = "none" THEN EmptyRow ELSE hot
  /\ mem' = InOrder(hot.events)
  /\ pending' = << >>
  /\ UNCHANGED <<saved, viewer, bounds>>

SetRunning ==
  pc = "boot" /\ Update("running") /\ Goto("open") /\ UNCHANGED <<mem, pending>>

\* run.started, or run.resumed when an earlier worker got further than that.
Begin ==
  /\ pc = "open"
  /\ Emit(IF HasProgress(Range(mem)) THEN "run.resumed" ELSE "run.started")
  /\ Goto("work")

Work ==
  /\ pc = "work"
  /\ Len(mem) < MaxEvents
  /\ Emit("work")
  /\ Goto("work")

\* flush(force=True) at the end of a turn
FlushTurn ==
  /\ pc = "work"
  /\ pending # << >>
  /\ Send(pending)
  /\ Goto("work") /\ UNCHANGED mem

Finish == pc = "work" /\ Emit("run.finished") /\ Goto("resend")

\* Mutant: only what is pending is sent again.
Resend_Pending ==
  /\ pc = "resend"
  /\ Send(pending)
  /\ Goto("flush") /\ UNCHANGED mem

\* resend_all: pending is cleared only when the whole list was answered.
Resend ==
  /\ pc = "resend"
  /\ \/ AppendEvents(mem) /\ NoBlip /\ pending' = << >>
     \/ AppendEvents(mem) /\ Blip /\ UNCHANGED pending
     \/ UNCHANGED <<store, pending>> /\ Blip
     \/ hot.status = "none" /\ UNCHANGED <<store, pending>> /\ NoBlip
  /\ Goto("flush") /\ UNCHANGED mem

\* The final update flushes what is pending, then writes the scalars.
FinalFlush ==
  /\ pc = "flush"
  /\ IF pending = << >> THEN UNCHANGED <<store, pending>> /\ NoBlip
                        ELSE Send(pending)
  /\ Goto("settle") /\ UNCHANGED mem

\* Mutant: run.finished is trusted to carry the final status.
Settle_NoUpdate ==
  pc = "settle" /\ Goto("done") /\ UNCHANGED <<mem, pending, store, blips>>

Settle ==
  pc = "settle" /\ Update("final") /\ Goto("done") /\ UNCHANGED <<mem, pending>>

\* The process is killed: OOM, preemption, or a planned worker_crash.
Crash ==
  /\ pc \notin {"down", "done"}
  /\ try <= MaxCrashes
  /\ pc' = "down"
  /\ mem' = << >> /\ pending' = << >>
  /\ UNCHANGED <<try, store, viewer, bounds>>

-----------------------------------------------------------------------------
(* The Store's container *)

Checkpoint ==
  /\ saved # hot
  /\ saved' = hot
  /\ UNCHANGED <<worker, hot, viewer, bounds>>

Restart ==
  /\ restarts < MaxRestarts
  /\ restarts' = restarts + 1
  /\ hot' = saved
  /\ UNCHANGED <<worker, saved, viewer, blips>>

-----------------------------------------------------------------------------
(* The viewer *)

\* events_after reads the status and the events in two queries.
AskStatus ==
  /\ ~closed /\ asked = "idle"
  /\ asked' = hot.status
  /\ UNCHANGED <<worker, store, cursor, shown, closed, bounds>>

Page ==
  LET new == InOrder({e \in hot.events : e.id >= cursor})
  IN  SubSeq(new, 1, Min({PageLimit, Len(new)}))

\* Mutant: a terminal status ends the stream, whatever was delivered.
Show_EarlyDone(n) ==
  /\ asked # "idle"
  /\ shown' = shown \o SubSeq(Page, 1, n)
  /\ cursor' = IF n = 0 THEN cursor ELSE Page[n].id + 1
  /\ closed' = (asked = "final")
  /\ asked' = "idle"
  /\ UNCHANGED <<worker, store, bounds>>

\* Mutant: asks again for the last event it has.
Show_FromLast(n) ==
  /\ asked # "idle"
  /\ shown' = shown \o SubSeq(Page, 1, n)
  /\ cursor' = IF n = 0 THEN cursor ELSE Page[n].id
  /\ closed' = (n = Len(Page) /\ asked = "final")
  /\ asked' = "idle"
  /\ UNCHANGED <<worker, store, bounds>>

\* The browser gets n events of the page: all, or fewer when the connection
\* drops or the 110 s window ends; it comes back with the last id it has.
Show(n) ==
  /\ asked # "idle"
  /\ shown' = shown \o SubSeq(Page, 1, n)
  /\ cursor' = IF n = 0 THEN cursor ELSE Page[n].id + 1
  /\ closed' = (n = Len(Page) /\ asked = "final")
  /\ asked' = "idle"
  /\ UNCHANGED <<worker, store, bounds>>

-----------------------------------------------------------------------------
\* _start_run has stored the queued row and spawned the worker.
Init ==
  /\ pc = "down" /\ try = 0 /\ mem = << >> /\ pending = << >>
  /\ hot = EmptyRow /\ saved = NoRow
  /\ asked = "idle" /\ cursor = 0 /\ shown = << >> /\ closed = FALSE
  /\ blips = 0 /\ restarts = 0

Worker == \/ Invoke \/ SetRunning \/ Begin \/ Work \/ FlushTurn
          \/ Finish \/ Resend \/ FinalFlush \/ Settle

\* All is said and done: no worker will run and the browser has closed.
Over == pc \in {"down", "done"} /\ closed /\ UNCHANGED vars

Next ==
  \/ Over
  \/ Worker \/ Crash
  \/ Checkpoint \/ Restart
  \/ AskStatus
  \/ \E n \in 0 .. Len(Page) : Show(n)

Spec == Init /\ [][Next]_vars

(* A live worker goes on (the budgets make its loop finite), Modal          *)
(* re-invokes a dead one, and a browser that reconnects for ever gets some  *)
(* page through whole.                                                      *)
FairSpec ==
  /\ Spec
  /\ WF_vars(Worker)
  /\ WF_vars(AskStatus)
  /\ SF_vars(Show(Len(Page)))

-----------------------------------------------------------------------------
(* Properties *)

\* Nothing is forgotten: while a worker lives, the stored log is an initial
\* part of its list, gap-free and under the ids it gave, and every event that
\* is not stored waits in the pending batch, whatever calls failed (events.py
\* flush: "the batch stays pending").
NothingForgotten ==
  pc \notin {"down", "done"} =>
    /\ InOrder(hot.events) = SubSeq(mem, 1, Cardinality(hot.events))
    /\ Range(mem) \ hot.events \subseteq Range(pending)
    /\ \A i \in DOMAIN mem : mem[i].id = i - 1

\* While the Store stays up, the run is one growing log that stops at the
\* final status, and "done/finished" reaches the viewer only after every
\* event did (api.py _event_stream).
Abstract ==
  INSTANCE RunStream WITH Events <- Event, log <- InOrder(hot.events),
                          final <- (hot.status = "final")
ImplementsRunStream == Abstract!Spec

\* An answered resend_all leaves exactly the worker's list in the Store, each
\* event under its id, whatever a Store restart dropped (events.py:9-11).
ResendIsComplete ==
  [][pc = "resend" /\ pc' = "flush" /\ blips' = blips /\ hot.status # "none"
       => hot'.events = Range(mem)]_vars

\* "A retry can never double-run an episode" (modal_app.py:231-233): once the
\* log holds run.finished, no invocation continues the run.
FinishedIsNotRerun ==
  [][pc = "down" /\ (\E e \in hot.events : e.type = "run.finished")
       => pc' \in {"down", "done"}]_vars

\* The viewer never sees two versions of one event, nor an event twice, even
\* when the Store forgets and refills (web reducer: id <= lastEventId).
ShownOnce == \A i, j \in DOMAIN shown : i < j => shown[i].id < shown[j].id

\* Every run ends and its viewer learns so, unless deaths use up Modal's
\* retries, when some of the last three Store calls gets through.
RunEnds ==
  \/ <>[](hot.status = "final" /\ closed)
  \/ <>[](pc = "down" /\ try > Retries)
=============================================================================
