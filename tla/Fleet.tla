------------------------------- MODULE Fleet -------------------------------
(***************************************************************************)
(* The episodes of sandbox-env together: reset provisions a sandbox and    *)
(* then records it, and four others take it away again: DELETE by the      *)
(* owner, the TTL sweep, reap, and Modal when its own timeout has passed.  *)
(* They share two stores that know nothing of each other, the modal.Dict   *)
(* of episode records and Modal's list of running sandboxes, and none of   *)
(* them holds a lock (sandbox_env/episodes.py, modal_app.py).              *)
(*                                                                         *)
(* A sandbox has the name of the episode it was made for.  Of a record     *)
(* only what these operations look at is kept: is it there, is it marked   *)
(* terminated (done is set with it), and how old is it.                    *)
(***************************************************************************)
EXTENDS Naturals, Sequences, FiniteSets

CONSTANTS
  Episodes,      \* the episodes resets may make
  Keys,          \* the order in which the Dict hands out its keys
  Sweepers,      \* sweeps that may run at the same time
  Nobody,        \* the caller of a sweep that no reset waits for
  Scan,          \* EPISODE_SWEEP_MAX: records a sweep looks at
  Budget,        \* EPISODE_SWEEP_MAX_ACTIONS: terminates and purges of one sweep
  MaxFaults,     \* bound: calls to Modal that fail, containers that are killed
  QuietReap,     \* reap is run while no sandbox is being provisioned
  BlindReap      \* the Dict may be unreadable when reap asks whom to spare

ASSUME KeysAssumption ==
  /\ Keys \in Seq(Episodes)
  /\ \A e \in Episodes : \E i \in DOMAIN Keys : Keys[i] = e
  /\ \A i, j \in DOMAIN Keys : Keys[i] = Keys[j] => i = j
ASSUME FleetAssumption ==
  /\ {Scan, Budget} \subseteq Nat \ {0}
  /\ MaxFaults \in Nat
  /\ {QuietReap, BlindReap} \subseteq BOOLEAN
  /\ Nobody \notin Episodes
  /\ Episodes \cap Sweepers = {}

VARIABLES
  dict,          \* the episode records
  age,           \* past the TTL ("old"), past the purge age ("ancient")
  box,           \* the sandboxes
  reset,         \* where the reset of each episode is
  sweep,         \* the sweeps that run
  del,           \* the calls of delete(): by an episode's owner or by a sweep
  reap,          \* the one reap that runs
  given_up,      \* history: sandboxes nothing in the Dict will lead to
  faults         \* how many there have been

vars == <<dict, age, box, reset, sweep, del, reap, given_up, faults>>
world == <<age, given_up, faults>>

Deleters == Episodes \cup Sweepers
Provisioning == {"create", "install", "fill", "save", "abort"}

TypeOK ==
  /\ dict \in [Episodes -> {"none", "live", "terminated"}]
  /\ age \in [Episodes -> {"young", "old", "ancient"}]
  /\ box \in [Episodes -> {"none", "up", "gone"}]
  /\ reset \in [Episodes -> {"idle", "sweeping", "ok", "failed"} \cup Provisioning]
  /\ sweep \in [Sweepers -> [on : BOOLEAN, caller : Episodes \cup {Nobody},
                             todo : SUBSET (Episodes \X {"expire", "purge"}),
                             acted : 0 .. Budget]]
  /\ del \in [Deleters -> [at : {"idle", "stop", "save"}, ep : Episodes \cup {Nobody}]]
  /\ reap \in [at : {"idle", "scanned", "kill", "mark"}, spare : SUBSET Episodes,
               todo : SUBSET Episodes, reaped : SUBSET Episodes]
  /\ given_up \in SUBSET Episodes
  /\ faults \in 0 .. MaxFaults

NoSweep == [on |-> FALSE, caller |-> Nobody, todo |-> {}, acted |-> 0]
NoDelete == [at |-> "idle", ep |-> Nobody]
NoReap == [at |-> "idle", spare |-> {}, todo |-> {}, reaped |-> {}]

Fault == faults < MaxFaults /\ faults' = faults + 1

-----------------------------------------------------------------------------
(* delete() *)

\* load: an unknown episode is answered at once, a terminated one is only
\* marked again.
DeleteLoad(d, e) ==
  del' = [del EXCEPT ![d] =
            IF dict[e] = "none" THEN NoDelete
            ELSE [at |-> IF dict[e] = "live" THEN "stop" ELSE "save", ep |-> e]]

\* "a dead sandbox is still a successful delete": so is one whose terminate
\* failed.
DeleteStop(d) ==
  /\ del[d].at = "stop"
  /\ \/ /\ box' = [box EXCEPT ![del[d].ep] = "gone"]
        /\ UNCHANGED <<given_up, faults>>
     \/ /\ box[del[d].ep] = "up" /\ Fault
        /\ given_up' = given_up \cup {del[d].ep}
        /\ UNCHANGED box
  /\ del' = [del EXCEPT ![d].at = "save"]
  /\ UNCHANGED <<dict, age, reset, sweep, reap>>

\* mutant: an expiry is counted as a terminate and as a write
Counted_Twice(d) ==
  sweep' = IF d \in Sweepers THEN [sweep EXCEPT ![d].acted = @ + 2] ELSE sweep

Counted(d) ==
  sweep' = IF d \in Sweepers THEN [sweep EXCEPT ![d].acted = @ + 1] ELSE sweep

DeleteSave(d) ==
  /\ del[d].at = "save"
  /\ dict' = [dict EXCEPT ![del[d].ep] = "terminated"]
  /\ Counted(d)
  /\ del' = [del EXCEPT ![d] = NoDelete]
  /\ UNCHANGED <<box, reset, reap, world>>

\* the put raises: a sweep notes the error and goes on
DeleteSaveFails(d) ==
  /\ del[d].at = "save" /\ Fault
  /\ del' = [del EXCEPT ![d] = NoDelete]
  /\ UNCHANGED <<dict, age, box, reset, sweep, reap, given_up>>

\* DELETE /episodes/{id}, or evaluate of an episode it cannot reach.  A run
\* that asks for it lasts 900 s at most, so it does not come a day later.
OwnerDeletes(e) ==
  /\ reset[e] = "ok" /\ del[e].at = "idle" /\ dict[e] # "none"
  /\ age[e] # "ancient"
  /\ DeleteLoad(e, e)
  /\ UNCHANGED <<dict, box, reset, sweep, reap, world>>

-----------------------------------------------------------------------------
(* sweep() *)

\* mutant: records of terminated episodes are kept for ever
Due_NeverPurge(e) == dict[e] = "live" /\ age[e] # "young"

Due(e) ==
  \/ dict[e] = "live" /\ age[e] # "young"
  \/ dict[e] = "terminated" /\ age[e] = "ancient"

\* mutant: whatever is due is purged
What_Purge(e) == <<e, "purge">>

What(e) == <<e, IF dict[e] = "live" THEN "expire" ELSE "purge">>

Before(e, f) == \E i, j \in DOMAIN Keys : i < j /\ Keys[i] = e /\ Keys[j] = f
Recorded == {e \in Episodes : dict[e] # "none"}

\* iter_episodes(limit): the first Scan records, in the order of the Dict.
Scanned == {e \in Recorded : Cardinality({f \in Recorded : Before(f, e)}) < Scan}

Worklist == {What(e) : e \in {f \in Scanned : Due(f)}}

\* A scan that raises is logged, and there is nothing to do.
BeginSweep(s, caller) ==
  /\ ~sweep[s].on
  /\ \E todo \in {Worklist, {}} :
       /\ IF todo = Worklist THEN UNCHANGED faults ELSE Fault
       /\ sweep' = [sweep EXCEPT ![s] =
                     [on |-> TRUE, caller |-> caller, todo |-> todo, acted |-> 0]]

\* POST /episodes/sweep
Sweep(s) ==
  /\ BeginSweep(s, Nobody)
  /\ UNCHANGED <<dict, age, box, reset, del, reap, given_up>>

Busy(s) ==
  /\ sweep[s].on /\ del[s].at = "idle"
  /\ sweep[s].todo # {} /\ sweep[s].acted < Budget

\* The entry w is the next one of the list.
Turn(s, w) == w \in sweep[s].todo /\ \A v \in sweep[s].todo : ~Before(v[1], w[1])
Taken(s, w) == [sweep[s] EXCEPT !.todo = @ \ {w}]

\* delete() of an episode that was too old when the records were read.
Expire(s) ==
  /\ Busy(s)
  /\ \E e \in Episodes :
       /\ Turn(s, <<e, "expire">>)
       /\ DeleteLoad(s, e)
       /\ sweep' = [sweep EXCEPT ![s] = Taken(s, <<e, "expire">>)]
  /\ UNCHANGED <<dict, box, reset, reap, world>>

Purge(s) ==
  /\ Busy(s)
  /\ \E e \in Episodes :
       /\ Turn(s, <<e, "purge">>)
       /\ dict' = [dict EXCEPT ![e] = "none"]
       /\ sweep' = [sweep EXCEPT ![s] = [Taken(s, <<e, "purge">>) EXCEPT !.acted = @ + 1]]
  /\ UNCHANGED <<box, reset, del, reap, world>>

\* "one bad episode must not stop the sweep": the load or the pop raised.
Skip(s) ==
  /\ Busy(s) /\ Fault
  /\ \E w \in sweep[s].todo : Turn(s, w) /\ sweep' = [sweep EXCEPT ![s] = Taken(s, w)]
  /\ UNCHANGED <<dict, age, box, reset, del, reap, given_up>>

\* The list is done or the budget is: the reset that waited goes on.
EndSweep(s) ==
  /\ sweep[s].on /\ del[s].at = "idle" /\ ~Busy(s)
  /\ sweep' = [sweep EXCEPT ![s] = NoSweep]
  /\ reset' = IF sweep[s].caller = Nobody THEN reset
              ELSE [reset EXCEPT ![sweep[s].caller] = "create"]
  /\ UNCHANGED <<dict, box, del, reap, world>>

-----------------------------------------------------------------------------
(* reset() *)

\* sweep_quietly: throttled per container, so a reset sweeps or it does not.
Reset(e) ==
  /\ reset[e] = "idle"
  /\ \/ reset' = [reset EXCEPT ![e] = "create"] /\ UNCHANGED <<sweep, faults>>
     \/ /\ reset' = [reset EXCEPT ![e] = "sweeping"]
        /\ \E s \in Sweepers : BeginSweep(s, e)
  /\ UNCHANGED <<dict, age, box, del, reap, given_up>>

At(e, phase) == reset[e] = phase
Goto(e, phase) == reset' = [reset EXCEPT ![e] = phase]

Create(e) ==
  /\ At(e, "create")
  /\ QuietReap => reap.at # "scanned"
  /\ box' = [box EXCEPT ![e] = "up"]
  /\ Goto(e, "install")
  /\ UNCHANGED <<dict, sweep, del, reap, world>>

CreateFails(e) ==
  /\ At(e, "create") /\ Fault
  /\ Goto(e, "failed")
  /\ UNCHANGED <<dict, age, box, sweep, del, reap, given_up>>

\* install_helper, at the end of create_workspace
Install(e) ==
  /\ At(e, "install") /\ box[e] = "up"
  /\ Goto(e, "fill")
  /\ UNCHANGED <<dict, box, sweep, del, reap, world>>

\* It raises before reset has the workspace in its hands: no one terminates.
InstallFails(e) ==
  /\ At(e, "install")
  /\ \/ box[e] # "up" /\ UNCHANGED faults
     \/ Fault
  /\ Goto(e, "failed")
  /\ given_up' = given_up \cup {e}
  /\ UNCHANGED <<dict, age, box, sweep, del, reap>>

\* upload_tar, snapshot_baseline, sha_map
Fill(e) ==
  /\ At(e, "fill") /\ box[e] = "up"
  /\ Goto(e, "save")
  /\ UNCHANGED <<dict, box, sweep, del, reap, world>>

FillFails(e) ==
  /\ At(e, "fill")
  /\ \/ box[e] # "up" /\ UNCHANGED faults
     \/ Fault
  /\ Goto(e, "abort")
  /\ UNCHANGED <<dict, age, box, sweep, del, reap, given_up>>

\* "The Dict write is the moment the sandbox becomes reachable by id."
Save(e) ==
  /\ At(e, "save")
  /\ dict' = [dict EXCEPT ![e] = "live"]
  /\ Goto(e, "ok")
  /\ UNCHANGED <<box, sweep, del, reap, world>>

\* mutant: a put that fails is only reported
SaveFails_Raise(e) ==
  /\ At(e, "save") /\ Fault
  /\ Goto(e, "failed")
  /\ UNCHANGED <<dict, age, box, sweep, del, reap, given_up>>

\* The put raises, and may have taken effect all the same.
SaveFails(e) ==
  /\ At(e, "save") /\ Fault
  /\ \/ UNCHANGED dict
     \/ dict' = [dict EXCEPT ![e] = "live"]
  /\ Goto(e, "abort")
  /\ UNCHANGED <<age, box, sweep, del, reap, given_up>>

\* _terminate_quietly
Abort(e) ==
  /\ At(e, "abort")
  /\ \/ box' = [box EXCEPT ![e] = "gone"] /\ UNCHANGED <<given_up, faults>>
     \/ Fault /\ given_up' = given_up \cup {e} /\ UNCHANGED box
  /\ Goto(e, "failed")
  /\ UNCHANGED <<dict, age, sweep, del, reap>>

\* The container is killed (preempted, redeployed, over Modal's 150 s).
KillReset(e) ==
  /\ reset[e] \in Provisioning /\ Fault
  /\ Goto(e, "failed")
  /\ given_up' = given_up \cup {e}
  /\ UNCHANGED <<dict, age, box, sweep, del, reap>>

KillSweep(s) ==
  /\ sweep[s].on /\ Fault
  /\ sweep' = [sweep EXCEPT ![s] = NoSweep]
  /\ reset' = IF sweep[s].caller = Nobody THEN reset
              ELSE [reset EXCEPT ![sweep[s].caller] = "failed"]
  /\ del' = [del EXCEPT ![s] = NoDelete]
  /\ UNCHANGED <<dict, age, box, reap, given_up>>

KillDelete(e) ==
  /\ del[e].at # "idle" /\ Fault
  /\ del' = [del EXCEPT ![e] = NoDelete]
  /\ UNCHANGED <<dict, age, box, reset, sweep, reap, given_up>>

-----------------------------------------------------------------------------
(* reap() *)

\* mutant: the protection list is as bounded as a sweep
Spared_Bounded == {e \in Scanned : dict[e] = "live" /\ age[e] = "young"}

\* active_sandboxes(limit=0)
Spared == {e \in Episodes : dict[e] = "live" /\ age[e] = "young"}

\* When items() and keys() both raise, iter_episodes logs it and returns an
\* empty list, so active_sandboxes has nothing to raise about.
Answers == {Spared} \cup (IF BlindReap THEN {{}} ELSE {})

ReapScan ==
  /\ reap.at = "idle"
  /\ QuietReap => \A e \in Episodes : reset[e] \notin Provisioning \ {"create"}
  /\ \E spare \in Answers : reap' = [NoReap EXCEPT !.at = "scanned", !.spare = spare]
  /\ UNCHANGED <<dict, box, reset, sweep, del, world>>

\* modal.Sandbox.list
ReapList ==
  /\ reap.at = "scanned"
  /\ reap' = [reap EXCEPT !.at = "kill",
                          !.todo = {e \in Episodes : box[e] = "up"} \ reap.spare]
  /\ UNCHANGED <<dict, box, reset, sweep, del, world>>

ReapKill(e) ==
  /\ reap.at = "kill" /\ e \in reap.todo
  /\ box' = [box EXCEPT ![e] = "gone"]
  /\ reap' = [reap EXCEPT !.todo = @ \ {e}, !.reaped = @ \cup {e}]
  /\ UNCHANGED <<dict, reset, sweep, del, world>>

ReapKillFails(e) ==
  /\ reap.at = "kill" /\ e \in reap.todo /\ Fault
  /\ reap' = [reap EXCEPT !.todo = @ \ {e}]
  /\ UNCHANGED <<dict, age, box, reset, sweep, del, given_up>>

\* mutant: mark_terminated looks at the records that active_sandboxes looks at
Unmarked_Young(ids) == {e \in ids : dict[e] = "live" /\ age[e] = "young"}

Unmarked(ids) == {e \in ids : dict[e] = "live"}

\* mark_terminated reads all records at once and then saves its copies
ReapMarkScan ==
  /\ reap.at = "kill" /\ reap.todo = {}
  /\ reap' = [reap EXCEPT !.at = "mark", !.todo = Unmarked(reap.reaped)]
  /\ UNCHANGED <<dict, box, reset, sweep, del, world>>

ReapMark(e) ==
  /\ reap.at = "mark" /\ e \in reap.todo
  /\ dict' = [dict EXCEPT ![e] = "terminated"]
  /\ reap' = [reap EXCEPT !.todo = @ \ {e}]
  /\ UNCHANGED <<box, reset, sweep, del, world>>

ReapEnd ==
  /\ reap.at = "mark" /\ reap.todo = {}
  /\ reap' = NoReap
  /\ UNCHANGED <<dict, box, reset, sweep, del, world>>

\* killed, or marking raised: what is reaped and not yet marked stays so
ReapStops ==
  /\ reap.at # "idle" /\ Fault
  /\ reap' = NoReap
  /\ UNCHANGED <<dict, age, box, reset, sweep, del, given_up>>

-----------------------------------------------------------------------------
(* Time *)

GrowOld(e) ==
  /\ dict[e] # "none" /\ age[e] = "young"
  /\ age' = [age EXCEPT ![e] = "old"]
  /\ UNCHANGED <<dict, box, reset, sweep, del, reap, given_up, faults>>

\* A sandbox lasts SANDBOX_TIMEOUT_S (half an hour) at most, a record is
\* purged after EPISODE_PURGE_S (a day).
GrowAncient(e) ==
  /\ age[e] = "old" /\ box[e] # "up"
  /\ age' = [age EXCEPT ![e] = "ancient"]
  /\ UNCHANGED <<dict, box, reset, sweep, del, reap, given_up, faults>>

\* timeout, idle_timeout, or the sandbox crashed
BoxEnds(e) ==
  /\ box[e] = "up"
  /\ box' = [box EXCEPT ![e] = "gone"]
  /\ UNCHANGED <<dict, reset, sweep, del, reap, world>>

-----------------------------------------------------------------------------
Init ==
  /\ dict = [e \in Episodes |-> "none"]
  /\ age = [e \in Episodes |-> "young"]
  /\ box = [e \in Episodes |-> "none"]
  /\ reset = [e \in Episodes |-> "idle"]
  /\ sweep = [s \in Sweepers |-> NoSweep]
  /\ del = [d \in Deleters |-> NoDelete]
  /\ reap = NoReap
  /\ given_up = {} /\ faults = 0

Deleting(d) == DeleteStop(d) \/ DeleteSave(d) \/ DeleteSaveFails(d)
Sweeping(s) == Expire(s) \/ Purge(s) \/ Skip(s) \/ EndSweep(s)
Provision(e) ==
  \/ Create(e) \/ CreateFails(e) \/ Install(e) \/ InstallFails(e)
  \/ Fill(e) \/ FillFails(e) \/ Save(e) \/ SaveFails(e) \/ Abort(e)
Reap ==
  \/ ReapScan \/ ReapList \/ ReapMarkScan \/ ReapEnd \/ ReapStops
  \/ \E e \in Episodes : ReapKill(e) \/ ReapKillFails(e) \/ ReapMark(e)

Next ==
  \/ \E d \in Deleters : Deleting(d)
  \/ \E s \in Sweepers : Sweep(s) \/ Sweeping(s) \/ KillSweep(s)
  \/ \E e \in Episodes :
       \/ Reset(e) \/ Provision(e) \/ KillReset(e)
       \/ OwnerDeletes(e) \/ KillDelete(e)
       \/ GrowOld(e) \/ GrowAncient(e) \/ BoxEnds(e)
  \/ Reap

Spec == Init /\ [][Next]_vars

\* Time passes, a sandbox has its timeout, calls that run go on, and sweeps
\* are started again and again ("the system cleans itself as long as anyone
\* keeps using it", episodes.py:56-57).
FairSpec ==
  /\ Spec
  /\ \A e \in Episodes : WF_vars(GrowOld(e)) /\ WF_vars(GrowAncient(e)) /\ WF_vars(BoxEnds(e))
  /\ \A s \in Sweepers :
       /\ WF_vars(Sweep(s)) /\ WF_vars(Sweeping(s))
       /\ WF_vars(DeleteStop(s)) /\ WF_vars(DeleteSave(s))

-----------------------------------------------------------------------------
(* Properties *)

InUse(e) == reset[e] = "ok" /\ dict[e] = "live" /\ age[e] = "young"

\* reap never goes after the sandbox of an episode in use: "cleanup should not
\* be able to break a live demo" (modal_app.py reap, docs/sandbox-env-ops.md).
SparesTheLiving == reap.at = "kill" => \A e \in reap.todo : ~InUse(e)

\* A reap that comes to its end leaves no record that claims a sandbox it has
\* terminated (modal_app.py:148-149), whoever else wrote the record meanwhile.
ReapedIsMarked ==
  reap.at = "mark" => \A e \in reap.reaped : dict[e] = "live" => e \in reap.todo

\* A record is purged only when its sandbox has stopped, so the Dict never
\* forgets the name of a sandbox that runs.
PurgedIsGone ==
  [][\A e \in Episodes : dict[e] # "none" /\ dict'[e] = "none" => box[e] # "up"]_vars

\* Every running sandbox is being provisioned, or has a record that a sweep
\* can find, or is one of those given up: its container was killed, or a
\* terminate or install_helper failed (reset's two except clauses).
NoSilentStray ==
  \A e \in Episodes : box[e] = "up" =>
    \/ reset[e] \in Provisioning
    \/ dict[e] = "live"
    \/ e \in given_up

\* An episode past its TTL is terminated sooner or later, though a sweep sees
\* only the first Scan records and the others may be in front for a day.
OldIsReclaimed ==
  \A e \in Episodes : dict[e] = "live" /\ age[e] # "young" ~> dict[e] # "live"
=============================================================================
