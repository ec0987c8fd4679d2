---------------------------- MODULE FleetProofs ----------------------------
(***************************************************************************)
(* A reap that is run while no sandbox is being provisioned, and that can  *)
(* read the Dict, never goes after the sandbox of an episode in use; and   *)
(* the two stores of the fleet stay consistent: no sandbox runs unknown to *)
(* the Dict except those given up, no record of a running sandbox is       *)
(* purged, and a quiet reap marks what it has terminated.  For any         *)
(* episodes, any number of sweeps, and any bounds on scans and budgets.    *)
(***************************************************************************)
EXTENDS Fleet, TLAPS

(***************************************************************************)
(* The strengthening.  What reap has listed stays out of use because a     *)
(* reset that is over never saves its record again; that a sandbox on the  *)
(* list belongs to such a reset follows from the moment of the scan, so    *)
(* the reset of every sandbox must be known, also of one that waits for    *)
(* its sweep.                                                              *)
(***************************************************************************)
Shapes ==
  /\ reset \in [Episodes -> {"idle", "sweeping", "ok", "failed"} \cup Provisioning]
  /\ DOMAIN dict = Episodes /\ DOMAIN age = Episodes /\ DOMAIN box = Episodes
  /\ DOMAIN sweep = Sweepers
  /\ \A s \in Sweepers :
       /\ DOMAIN sweep[s] = {"on", "caller", "todo", "acted"}
       /\ sweep[s].caller \in Episodes \cup {Nobody}
  /\ DOMAIN del = Deleters
  /\ \A d \in Deleters : DOMAIN del[d] = {"at", "ep"}
  /\ DOMAIN reap = {"at", "spare", "todo", "reaped"}
  /\ reap.todo \subseteq Episodes /\ reap.reaped \subseteq Episodes

\* A sweep's caller waits for it, and for no other one.
CallersWait ==
  /\ \A s \in Sweepers : sweep[s].caller # Nobody => reset[sweep[s].caller] = "sweeping"
  /\ \A s, t \in Sweepers : sweep[s].caller = sweep[t].caller /\ s # t => sweep[s].caller = Nobody

\* Before it is created there is no sandbox.
NotBefore ==
  \A e \in Episodes : box[e] = "up" => reset[e] \notin {"idle", "sweeping", "create"}

\* Its reset is over and no client uses it.
OutOfUse(e) == reset[e] \in {"ok", "failed"} /\ ~InUse(e)

IInv ==
  /\ Shapes
  /\ CallersWait
  /\ NotBefore
  /\ reap.at = "scanned" => \A e \in Episodes \ reap.spare : box[e] = "up" => OutOfUse(e)
  /\ reap.at = "kill" => \A e \in reap.todo : OutOfUse(e)

-----------------------------------------------------------------------------
LEMMA InitInv == Init => IInv
  BY FleetAssumption DEF Init, IInv, Shapes, CallersWait, NotBefore, NoSweep, NoDelete, NoReap, Deleters, Provisioning

\* Steps that touch neither reap nor what makes a sandbox out of use.
LEMMA ReapUntouched ==
  ASSUME IInv, reap' = reap,
         \A e \in Episodes : OutOfUse(e) =>
           /\ reset'[e] = reset[e]
           /\ dict'[e] = "live" => dict[e] = "live"
           /\ age'[e] = "young" => age[e] = "young",
         \A e \in Episodes : box'[e] = "up" => box[e] = "up" \/ reap.at # "scanned"
  PROVE  /\ reap'.at = "scanned" =>
              \A e \in Episodes \ reap'.spare : box'[e] = "up" => OutOfUse(e)'
         /\ reap'.at = "kill" => \A e \in reap'.todo : OutOfUse(e)'
<1>1. \A e \in Episodes : OutOfUse(e) => OutOfUse(e)'
  BY DEF OutOfUse, InUse
<1>2. reap.todo \subseteq Episodes
  BY DEF IInv, Shapes
<1> QED
  BY <1>1, <1>2 DEF IInv

LEMMA DeleteInv ==
  ASSUME IInv, NEW d \in Deleters, Deleting(d)
  PROVE  IInv'
<1>1. reset' = reset /\ reap' = reap /\ age' = age
  BY DEF Deleting, DeleteStop, DeleteSave, DeleteSaveFails, world
<1>2. \A e \in Episodes : (dict'[e] = "live" => dict[e] = "live") /\ (box'[e] = "up" => box[e] = "up")
  BY DEF Deleting, DeleteStop, DeleteSave, DeleteSaveFails, IInv, Shapes
<1>3. Shapes'
  BY <1>1 DEF Deleting, DeleteStop, DeleteSave, DeleteSaveFails, Counted, NoDelete, IInv, Shapes
<1>4. \A s \in Sweepers : sweep'[s].caller = sweep[s].caller
  BY DEF Deleting, DeleteStop, DeleteSave, DeleteSaveFails, Counted, IInv, Shapes
<1>5. CallersWait' /\ NotBefore'
  BY <1>1, <1>2, <1>4 DEF CallersWait, NotBefore, IInv
<1> QED
  BY <1>1, <1>2, <1>3, <1>5, ReapUntouched DEF IInv

LEMMA SweepInv ==
  ASSUME IInv, NEW s \in Sweepers, Sweep(s) \/ Sweeping(s) \/ KillSweep(s)
  PROVE  IInv'
<1>a. box' = box /\ reap' = reap /\ age' = age
  BY DEF Sweep, Sweeping, Expire, Purge, Skip, EndSweep, KillSweep, world
<1>b. \A e \in Episodes : dict'[e] = "live" => dict[e] = "live"
  BY DEF Sweep, Sweeping, Expire, Purge, Skip, EndSweep, KillSweep, IInv, Shapes
<1>1. CASE reset' = reset /\ (Sweep(s) \/ Expire(s) \/ Purge(s) \/ Skip(s))
  <2>1. PICK new : /\ sweep' = [sweep EXCEPT ![s] = new]
                   /\ DOMAIN new = {"on", "caller", "todo", "acted"}
                   /\ new.caller \in {sweep[s].caller, Nobody}
    <3>1. DOMAIN sweep = Sweepers /\ DOMAIN sweep[s] = {"on", "caller", "todo", "acted"}
      BY DEF IInv, Shapes
    <3>2. CASE Sweep(s)
      BY <3>2 DEF Sweep, BeginSweep
    <3>3. ASSUME NEW w, sweep' = [sweep EXCEPT ![s] = Taken(s, w)]
          PROVE  DOMAIN Taken(s, w) = DOMAIN sweep[s] /\ Taken(s, w).caller = sweep[s].caller
      BY <3>1 DEF Taken
    <3>4. CASE Expire(s) \/ Skip(s)
      BY <3>1, <3>3, <3>4 DEF Expire, Skip
    <3>5. CASE Purge(s)
      <4> PICK e \in Episodes :
            sweep' = [sweep EXCEPT ![s] = [Taken(s, <<e, "purge">>) EXCEPT !.acted = @ + 1]]
        BY <3>5 DEF Purge
      <4>1. /\ DOMAIN Taken(s, <<e, "purge">>) = DOMAIN sweep[s]
            /\ Taken(s, <<e, "purge">>).caller = sweep[s].caller
        BY <3>1 DEF Taken
      <4> DEFINE new == [Taken(s, <<e, "purge">>) EXCEPT !.acted = @ + 1]
      <4>2. DOMAIN new = DOMAIN sweep[s] /\ new.caller = sweep[s].caller
        BY <3>1, <4>1
      <4>3. sweep' = [sweep EXCEPT ![s] = new]
        OBVIOUS
      <4> HIDE DEF new
      <4> QED
        BY <3>1, <4>2, <4>3
    <3> QED
      BY <1>1, <3>2, <3>4, <3>5
  <2>2. \A t \in Sweepers : sweep'[t].caller \in {sweep[t].caller, Nobody}
    BY <2>1 DEF IInv, Shapes
  <2>4. DOMAIN del' = Deleters /\ \A d \in Deleters : DOMAIN del'[d] = {"at", "ep"}
    BY <1>1 DEF Sweep, Expire, DeleteLoad, Purge, Skip, NoDelete, IInv, Shapes
  <2>5. DOMAIN dict' = Episodes
    BY <1>1 DEF Sweep, Expire, Purge, Skip, IInv, Shapes
  <2>6. Shapes'
    BY <1>1, <1>a, <2>1, <2>2, <2>4, <2>5 DEF IInv, Shapes
  <2>3. CallersWait' /\ NotBefore'
    BY <1>1, <1>a, <2>2 DEF CallersWait, NotBefore, IInv
  <2> QED
    BY <1>1, <1>a, <1>b, <2>6, <2>3, ReapUntouched DEF IInv
<1>2. CASE EndSweep(s) \/ KillSweep(s)
  <2> DEFINE e0 == sweep[s].caller
  <2>1. \A e \in Episodes : e # e0 => reset'[e] = reset[e]
    BY <1>2 DEF EndSweep, KillSweep, IInv, Shapes
  <2>2. e0 # Nobody => reset[e0] = "sweeping" /\ box[e0] # "up" /\ ~OutOfUse(e0)
    BY FleetAssumption DEF IInv, Shapes, CallersWait, NotBefore, OutOfUse
  <2>3. Nobody \notin Episodes
    BY FleetAssumption
  <2>4. Shapes'
    BY <1>2, <1>a DEF EndSweep, KillSweep, NoSweep, NoDelete, IInv, Shapes, Provisioning
  <2>5. sweep'[s].caller = Nobody /\ \A t \in Sweepers : t # s => sweep'[t] = sweep[t]
    BY <1>2 DEF EndSweep, KillSweep, NoSweep, IInv, Shapes
  <2>6. CallersWait'
    BY <2>1, <2>5 DEF CallersWait, IInv, Shapes
  <2>7. NotBefore'
    BY <1>a, <2>1, <2>2, <2>3 DEF NotBefore, IInv
  <2>8. \A e \in Episodes : OutOfUse(e) => reset'[e] = reset[e]
    BY <2>1, <2>2, <2>3
  <2> QED
    BY <1>a, <1>b, <2>4, <2>6, <2>7, <2>8, ReapUntouched DEF IInv
<1>3. Sweep(s) \/ Expire(s) \/ Purge(s) \/ Skip(s) => reset' = reset
  BY DEF Sweep, Expire, Purge, Skip
<1> QED
  BY <1>1, <1>2, <1>3 DEF Sweeping

LEMMA ResetInv ==
  ASSUME IInv, NEW e \in Episodes, Reset(e)
  PROVE  IInv'
<1>1. reset[e] = "idle" /\ box' = box /\ reap' = reap /\ age' = age /\ dict' = dict /\ del' = del
  BY DEF Reset, world
<1>2. /\ reset' \in [Episodes -> {"idle", "sweeping", "ok", "failed"} \cup Provisioning]
      /\ reset'[e] \in {"create", "sweeping"}
      /\ \A x \in Episodes : x # e => reset'[x] = reset[x]
  BY DEF Reset, IInv, Shapes, Provisioning
<1>3. \A t \in Sweepers : sweep[t].caller # e
  BY <1>1, FleetAssumption DEF IInv, CallersWait
<1>4. Shapes'
  BY <1>1, <1>2 DEF Reset, BeginSweep, IInv, Shapes
<1>5. CallersWait'
  BY <1>1, <1>2, <1>3, FleetAssumption DEF Reset, BeginSweep, IInv, Shapes, CallersWait
<1>6. NotBefore'
  BY <1>1, <1>2 DEF NotBefore, IInv
<1>7. ~OutOfUse(e)
  BY <1>1 DEF OutOfUse
<1> QED
  BY <1>1, <1>2, <1>4, <1>5, <1>6, <1>7, ReapUntouched DEF IInv

\* From Create to Abort, and the death of the container in between, a step
\* changes only an episode that is in the middle of its provisioning.
LEMMA ProvisionInv ==
  ASSUME IInv, QuietReap, NEW e \in Episodes, Provision(e) \/ KillReset(e)
  PROVE  IInv'
<1>1. /\ reset[e] \in Provisioning
      /\ reset'[e] \in (Provisioning \ {"create"}) \cup {"ok", "failed"}
      /\ reset' \in [Episodes -> {"idle", "sweeping", "ok", "failed"} \cup Provisioning]
      /\ \A x \in Episodes : x # e =>
           reset'[x] = reset[x] /\ dict'[x] = dict[x] /\ box'[x] = box[x]
      /\ reap' = reap /\ age' = age /\ sweep' = sweep /\ del' = del
  BY DEF Provision, KillReset, Create, CreateFails, Install, InstallFails, Fill, FillFails,
         Save, SaveFails, Abort, At, Goto, IInv, Shapes, Provisioning, world
<1>2. box'[e] = "up" => box[e] = "up" \/ reap.at # "scanned"
  BY DEF Provision, KillReset, Create, CreateFails, Install, InstallFails, Fill, FillFails,
         Save, SaveFails, Abort, IInv, Shapes
<1>3. Shapes'
  BY <1>1 DEF Provision, KillReset, Create, CreateFails, Install, InstallFails, Fill, FillFails,
         Save, SaveFails, Abort, IInv, Shapes
<1>4. \A t \in Sweepers : sweep[t].caller # e
  BY <1>1, FleetAssumption DEF IInv, CallersWait, Provisioning
<1>5. CallersWait'
  BY <1>1, <1>4 DEF IInv, CallersWait, Shapes
<1>6. NotBefore'
  BY <1>1 DEF NotBefore, IInv, Provisioning
<1>7. ~OutOfUse(e)
  BY <1>1 DEF OutOfUse, Provisioning
<1> QED
  BY <1>1, <1>2, <1>3, <1>5, <1>6, <1>7, ReapUntouched DEF IInv

LEMMA EpisodeInv ==
  ASSUME IInv, NEW e \in Episodes,
         OwnerDeletes(e) \/ KillDelete(e) \/ GrowOld(e) \/ GrowAncient(e) \/ BoxEnds(e)
  PROVE  IInv'
<1>1. reset' = reset /\ reap' = reap /\ sweep' = sweep /\ dict' = dict
  BY DEF OwnerDeletes, KillDelete, GrowOld, GrowAncient, BoxEnds, world
<1>2. \A x \in Episodes : (age'[x] = "young" => age[x] = "young") /\ (box'[x] = "up" => box[x] = "up")
  BY DEF OwnerDeletes, KillDelete, GrowOld, GrowAncient, BoxEnds, world, IInv, Shapes
<1>3. Shapes'
  BY <1>1 DEF OwnerDeletes, DeleteLoad, NoDelete, KillDelete, GrowOld, GrowAncient, BoxEnds, world, IInv, Shapes
<1>4. CallersWait' /\ NotBefore'
  BY <1>1, <1>2 DEF CallersWait, NotBefore, IInv
<1> QED
  BY <1>1, <1>2, <1>3, <1>4, ReapUntouched DEF IInv

\* The scan is where the list is made right: a recorded young episode is
\* spared, and a sandbox without a record is not being provisioned.
LEMMA ReapInv ==
  ASSUME IInv, QuietReap, ~BlindReap, Reap
  PROVE  IInv'
<1>a. reset' = reset /\ age' = age /\ sweep' = sweep /\ del' = del
  BY DEF Reap, ReapScan, ReapList, ReapMarkScan, ReapEnd, ReapStops, ReapKill, ReapKillFails, ReapMark, world
<1>b. \A e \in Episodes : (dict'[e] = "live" => dict[e] = "live") /\ (box'[e] = "up" => box[e] = "up")
  BY DEF Reap, ReapScan, ReapList, ReapMarkScan, ReapEnd, ReapStops, ReapKill, ReapKillFails, ReapMark, IInv, Shapes
<1>c. CallersWait' /\ NotBefore'
  BY <1>a, <1>b DEF CallersWait, NotBefore, IInv
<1>d. \A e \in Episodes : OutOfUse(e) => OutOfUse(e)'
  BY <1>a, <1>b DEF OutOfUse, InUse
<1>1. CASE ReapScan
  <2>1. /\ reap' = [at |-> "scanned", spare |-> Spared, todo |-> {}, reaped |-> {}]
        /\ box' = box
    BY <1>1 DEF ReapScan, Answers, NoReap
  <2>2. ASSUME NEW e \in Episodes, e \notin Spared, box[e] = "up" PROVE OutOfUse(e)
    <3>1. reset[e] \in {"ok", "failed"}
      BY <1>1, <2>2 DEF ReapScan, IInv, NotBefore, Shapes, Provisioning
    <3> QED
      BY <2>2, <3>1 DEF Spared, OutOfUse, InUse
  <2>3. Shapes'
    BY <1>a, <1>1, <2>1 DEF ReapScan, IInv, Shapes
  <2>4. \A e \in Episodes \ reap'.spare : box'[e] = "up" => OutOfUse(e)'
    BY <1>d, <2>1, <2>2
  <2> QED
    BY <1>c, <2>1, <2>3, <2>4 DEF IInv
<1>2. CASE ReapList
  <2>1. /\ reap.at = "scanned" /\ reap'.at = "kill"
        /\ reap'.todo = {e \in Episodes : box[e] = "up"} \ reap.spare
    BY <1>2 DEF ReapList, IInv, Shapes
  <2>2. Shapes'
    BY <1>2, <1>a DEF ReapList, IInv, Shapes
  <2>3. \A e \in reap'.todo : OutOfUse(e)'
    BY <1>d, <2>1 DEF IInv
  <2> QED
    BY <1>c, <2>1, <2>2, <2>3 DEF IInv
<1>3. CASE \E e \in Episodes : ReapKill(e) \/ ReapKillFails(e)
  <2> PICK e \in Episodes : ReapKill(e) \/ ReapKillFails(e)
    BY <1>3
  <2>1. /\ reap'.at = "kill" /\ reap.at = "kill"
        /\ reap'.todo = reap.todo \ {e} /\ DOMAIN reap' = DOMAIN reap
        /\ reap'.reaped \subseteq Episodes
    <3>1. reap.reaped \subseteq Episodes /\ DOMAIN reap = {"at", "spare", "todo", "reaped"}
      BY DEF IInv, Shapes
    <3>2. CASE ReapKill(e)
      BY <3>1, <3>2 DEF ReapKill
    <3>3. CASE ReapKillFails(e)
      BY <3>1, <3>3 DEF ReapKillFails
    <3> QED
      BY <3>2, <3>3
  <2>2. DOMAIN box' = DOMAIN box /\ dict' = dict
    BY DEF ReapKill, ReapKillFails
  <2>3. Shapes'
    BY <1>a, <2>1, <2>2 DEF IInv, Shapes
  <2>4. \A x \in reap'.todo : OutOfUse(x)'
    BY <1>d, <2>1 DEF IInv, Shapes
  <2> QED
    BY <1>c, <2>1, <2>3, <2>4 DEF IInv
<1>4. CASE ReapMarkScan \/ ReapEnd \/ ReapStops \/ \E e \in Episodes : ReapMark(e)
  <2>1. /\ reap'.at \in {"mark", "idle"} /\ DOMAIN reap' = DOMAIN reap
        /\ reap'.todo \subseteq Episodes /\ reap'.reaped \subseteq Episodes
    <3>1. CASE ReapMarkScan
      BY <3>1 DEF ReapMarkScan, Unmarked, IInv, Shapes
    <3>2. CASE ReapEnd \/ ReapStops
      BY <3>2 DEF ReapEnd, ReapStops, NoReap, IInv, Shapes
    <3>3. CASE \E e \in Episodes : ReapMark(e)
      BY <3>3 DEF ReapMark, IInv, Shapes
    <3> QED
      BY <1>4, <3>1, <3>2, <3>3
  <2>2. box' = box /\ DOMAIN dict' = DOMAIN dict
    BY <1>4 DEF ReapMarkScan, ReapEnd, ReapStops, ReapMark, IInv, Shapes
  <2>3. Shapes'
    BY <1>a, <2>1, <2>2 DEF IInv, Shapes
  <2> QED
    BY <1>c, <2>1, <2>3 DEF IInv
<1> QED
  BY <1>1, <1>2, <1>3, <1>4 DEF Reap

LEMMA StepInv ==
  ASSUME IInv, QuietReap, ~BlindReap, [Next]_vars
  PROVE  IInv'
<1>1. CASE UNCHANGED vars
  BY <1>1 DEF vars, IInv, Shapes, CallersWait, NotBefore, OutOfUse, InUse
<1>2. CASE Next
  BY <1>2, DeleteInv, SweepInv, ResetInv, ProvisionInv, EpisodeInv, ReapInv DEF Next
<1> QED
  BY <1>1, <1>2

-----------------------------------------------------------------------------
\* While nothing is being provisioned and the Dict answers, reap spares every
\* episode in use: what its list holds is out of use and stays so, whoever
\* resets, deletes or sweeps meanwhile (modal_app.py reap).
THEOREM ReapSparesTheLiving ==
  ASSUME QuietReap, ~BlindReap
  PROVE  Spec => []SparesTheLiving
<1>1. IInv => SparesTheLiving
  BY DEF IInv, SparesTheLiving, OutOfUse
<1>2. IInv /\ [Next]_vars => IInv'
  BY StepInv
<1> QED
  BY <1>1, <1>2, InitInv, PTL DEF Spec

-----------------------------------------------------------------------------
(***************************************************************************)
(* The strengthening.  Who takes a sandbox away works from what it has     *)
(* read earlier: a delete from the record it loaded, a sweep from its      *)
(* list, a reap from its own.  What each of them holds stays true because  *)
(* a sandbox is created once, before the episode has anything else.        *)
(***************************************************************************)
Begun(e) == reset[e] \notin {"idle", "sweeping", "create"}
Down(e) == box[e] # "up" \/ e \in given_up

\* Only an episode whose sandbox was created has a record, an age, a sandbox.
TracesBegin ==
  \A e \in Episodes : dict[e] # "none" \/ age[e] # "young" \/ box[e] = "up" => Begun(e)

\* A delete is at work on an episode that has begun; a sweep that waits for
\* one has an action left to count it, and marks only what is down.
Sound(d) ==
  del[d].at # "idle" =>
    /\ del[d].ep \in Episodes /\ Begun(del[d].ep)
    /\ del[d].at = "save" => Down(del[d].ep)
    /\ d \in Sweepers => sweep[d].on /\ sweep[d].acted < Budget
DeletesAreSound == \A d \in Deleters : Sound(d)

DeadIsDown == \A e \in Episodes : dict[e] = "terminated" => Down(e)
AncientIsGone == \A e \in Episodes : age[e] = "ancient" => box[e] # "up"

PurgesAreDue ==
  \A s \in Sweepers, e \in Episodes : <<e, "purge">> \in sweep[s].todo => age[e] = "ancient"

ReapedIsGone ==
  /\ \A e \in reap.reaped : Begun(e) /\ box[e] # "up"
  /\ reap.at = "kill" => \A e \in reap.todo : Begun(e)
  /\ reap.at = "mark" => reap.todo \subseteq reap.reaped

RInv == /\ TypeOK /\ CallersWait /\ TracesBegin
        /\ DeletesAreSound /\ DeadIsDown /\ AncientIsGone /\ PurgesAreDue
        /\ ReapedIsGone /\ NoSilentStray

Phases == {"idle", "sweeping", "ok", "failed"} \cup Provisioning
SweepRecord == [on : BOOLEAN, caller : Episodes \cup {Nobody},
                todo : SUBSET (Episodes \X {"expire", "purge"}), acted : 0 .. Budget]
DeleteRecord == [at : {"idle", "stop", "save"}, ep : Episodes \cup {Nobody}]

ReapRecord == [at : {"idle", "scanned", "kill", "mark"}, spare : SUBSET Episodes,
               todo : SUBSET Episodes, reaped : SUBSET Episodes]

\* TypeOK, by the names above.
Types ==
  /\ dict \in [Episodes -> {"none", "live", "terminated"}]
  /\ age \in [Episodes -> {"young", "old", "ancient"}]
  /\ box \in [Episodes -> {"none", "up", "gone"}]
  /\ reset \in [Episodes -> Phases]
  /\ sweep \in [Sweepers -> SweepRecord]
  /\ del \in [Deleters -> DeleteRecord]
  /\ reap \in ReapRecord
  /\ given_up \in SUBSET Episodes
  /\ faults \in 0 .. MaxFaults

LEMMA TypesAre == (TypeOK <=> Types) /\ (TypeOK' <=> Types')
  BY DEF TypeOK, Types, Phases, SweepRecord, DeleteRecord, ReapRecord

-----------------------------------------------------------------------------
LEMMA InitRecords == Init => RInv
<1> SUFFICES ASSUME Init PROVE RInv
  OBVIOUS
<1>1. TypeOK
  BY FleetAssumption DEF Init, TypeOK, NoSweep, NoDelete, NoReap, Deleters, Provisioning
<1>2. CallersWait /\ TracesBegin /\ DeletesAreSound /\ DeadIsDown /\ AncientIsGone
  BY DEF Init, CallersWait, TracesBegin, DeletesAreSound, Sound, DeadIsDown, AncientIsGone,
         NoSweep, NoDelete, Deleters
<1>3. PurgesAreDue /\ ReapedIsGone /\ NoSilentStray
  BY DEF Init, PurgesAreDue, ReapedIsGone, NoSilentStray, NoSweep, NoReap
<1> QED
  BY <1>1, <1>2, <1>3 DEF RInv

(***************************************************************************)
(* A step that leaves the records, the resets, the lists and the calls as  *)
(* sound as they are.  Most steps change one variable: what the others say *)
(* of it survives when it moves in its one direction.                      *)
(***************************************************************************)
Forward ==
  /\ \A e \in Episodes : Begun(e) => Begun(e)'
  /\ \A e \in Episodes : Begun(e) /\ box[e] # "up" => box'[e] # "up"
  /\ \A e \in Episodes : age[e] = "ancient" => age'[e] = "ancient"
  /\ given_up \subseteq given_up'

LEMMA FaultCounted ==
  ASSUME faults \in 0 .. MaxFaults, Fault \/ UNCHANGED faults
  PROVE  faults' \in 0 .. MaxFaults
  BY FleetAssumption DEF Fault

LEMMA DownStays ==
  ASSUME Forward, NEW e \in Episodes, Begun(e), Down(e)
  PROVE  Down(e)'
  BY DEF Forward, Down

\* What no step moves back is carried over from the state before.
LEMMA ReapKept ==
  ASSUME RInv, Forward, reap' = reap
  PROVE  ReapedIsGone'
  BY DEF RInv, TypeOK, ReapedIsGone, Forward

LEMMA DeleteKept ==
  ASSUME RInv, Forward, NEW d \in Deleters, del'[d] = del[d],
         d \in Sweepers => sweep'[d] = sweep[d]
  PROVE  Sound(d)'
<1>1. Sound(d)
  BY DEF RInv, DeletesAreSound
<1>2. ASSUME NEW e \in Episodes, Begun(e) PROVE Begun(e)' /\ (Down(e) => Down(e)')
  BY <1>2, DownStays DEF Forward
<1>3. \A e : Begun(e)' <=> reset'[e] \notin {"idle", "sweeping", "create"}
  BY DEF Begun
<1>4. \A e : Down(e)' <=> box'[e] # "up" \/ e \in given_up'
  BY DEF Down
<1> QED
  BY <1>1, <1>2, <1>3, <1>4 DEF Sound, Begun, Down

LEMMA PurgesKept ==
  ASSUME RInv, Forward,
         \A s \in Sweepers : sweep'[s].todo \subseteq sweep[s].todo
  PROVE  PurgesAreDue'
  BY DEF RInv, PurgesAreDue, Forward

LEMMA DeadKept ==
  ASSUME RInv, Forward, \A e \in Episodes : dict'[e] = "terminated" => dict[e] = "terminated"
  PROVE  DeadIsDown'
  BY DownStays DEF RInv, DeadIsDown, TracesBegin

\* A step that creates no sandbox, no record and no age keeps the traces.
LEMMA TracesKept ==
  ASSUME RInv, Forward, age' = age,
         \A e \in Episodes : box'[e] = "up" => box[e] = "up",
         \A e \in Episodes : dict'[e] # "none" => dict[e] # "none"
  PROVE  TracesBegin' /\ AncientIsGone'
  BY DEF RInv, TracesBegin, AncientIsGone, Forward

LEMMA CallersKept ==
  ASSUME RInv, reset' = reset,
         \A s \in Sweepers : sweep'[s].caller = sweep[s].caller
  PROVE  CallersWait'
  BY DEF RInv, CallersWait

\* Both branches of a stop leave the sandbox down: it is gone or given up.
LEMMA DeletingRecords ==
  ASSUME RInv, NEW d \in Deleters, Deleting(d)
  PROVE  RInv'
<1> DEFINE e0 == del[d].ep
<1>1. del[d].at # "idle" /\ Sound(d) /\ TypeOK /\ reset' = reset /\ reap' = reap /\ age' = age
  BY DEF Deleting, DeleteStop, DeleteSave, DeleteSaveFails, RInv, DeletesAreSound, world
<1>2. e0 \in Episodes /\ Begun(e0) /\ (del[d].at = "save" => Down(e0))
  BY <1>1 DEF Sound
<1>3. \A x \in Deleters : x # d => del'[x] = del[x]
  BY <1>1 DEF Deleting, DeleteStop, DeleteSave, DeleteSaveFails, TypeOK
<1>4. /\ \A s \in Sweepers : s # d => sweep'[s] = sweep[s]
      /\ \A s \in Sweepers : sweep'[s].caller = sweep[s].caller /\ sweep'[s].todo = sweep[s].todo
  BY <1>1 DEF Deleting, DeleteStop, DeleteSave, DeleteSaveFails, Counted, TypeOK
<1>5. CASE DeleteStop(d)
  <2>1. /\ box'[e0] = "gone" \/ e0 \in given_up'
        /\ \A e \in Episodes : box'[e] = "up" => box[e] = "up"
        /\ given_up \subseteq given_up' /\ dict' = dict /\ sweep' = sweep
        /\ del'[d] = [del[d] EXCEPT !.at = "save"]
    BY <1>1, <1>2, <1>5 DEF DeleteStop, TypeOK
  <2>2. TypeOK'
    <3>1. Types
      BY <1>1, TypesAre
    <3>2. del' \in [Deleters -> DeleteRecord]
      BY <3>1, <1>5 DEF DeleteStop, Types, DeleteRecord
    <3>3. box' \in [Episodes -> {"none", "up", "gone"}] /\ given_up' \in SUBSET Episodes
      BY <3>1, <1>2, <1>5 DEF DeleteStop, Types
    <3>4. faults' \in 0 .. MaxFaults
      BY <3>1, <1>5, FaultCounted DEF DeleteStop, Types
    <3> QED
      BY <1>1, <2>1, <3>1, <3>2, <3>3, <3>4, TypesAre DEF Types
  <2>3. Forward
    BY <1>1, <2>1 DEF Forward, Begun
  <2>4. del'[d].at = "save" /\ del'[d].ep = e0
    BY <1>1, <2>1 DEF TypeOK
  <2>5. Sound(d)'
    BY <1>1, <1>2, <2>1, <2>4 DEF Sound, Begun, Down
  <2>6. DeletesAreSound'
    BY <1>3, <2>1, <2>3, <2>5, DeleteKept DEF DeletesAreSound
  <2>7. NoSilentStray'
    BY <1>1, <2>1 DEF RInv, NoSilentStray
  <2> QED
    BY <1>1, <2>1, <2>2, <2>3, <2>6, <2>7, TracesKept, CallersKept, DeadKept, PurgesKept, ReapKept DEF RInv
<1>6. CASE DeleteSave(d)
  <2>1. /\ box' = box /\ given_up' = given_up /\ faults' = faults
        /\ dict' = [dict EXCEPT ![e0] = "terminated"]
        /\ del' = [del EXCEPT ![d] = NoDelete] /\ Counted(d) /\ del[d].at = "save"
    BY <1>6 DEF DeleteSave, world
  <2>2. sweep' \in [Sweepers -> SweepRecord]
    <3>1. CASE d \in Sweepers
      <4>1. sweep[d].acted + 1 \in 0 .. Budget
        BY <1>1, <3>1, FleetAssumption DEF Sound, TypeOK
      <4>2. sweep[d] \in SweepRecord
        BY <1>1, <3>1, TypesAre DEF Types
      <4>3. [sweep[d] EXCEPT !.acted = @ + 1] \in SweepRecord
        BY <4>1, <4>2 DEF SweepRecord
      <4> QED
        BY <1>1, <2>1, <3>1, <4>3, TypesAre DEF Counted, Types
    <3>2. CASE d \notin Sweepers
      BY <1>1, <2>1, <3>2 DEF Counted, TypeOK, SweepRecord
    <3> QED
      BY <3>1, <3>2
  <2>3. TypeOK'
    BY <1>1, <1>2, <2>1, <2>2 DEF TypeOK, SweepRecord, NoDelete
  <2>4. Forward
    BY <1>1, <2>1 DEF Forward, Begun
  <2>5. Sound(d)'
    BY <1>1, <2>1 DEF Sound, NoDelete, TypeOK
  <2>6. DeletesAreSound'
    BY <1>3, <1>4, <2>4, <2>5, DeleteKept DEF DeletesAreSound
  <2>7. NoSilentStray' /\ DeadIsDown'
    BY <1>1, <1>2, <2>1 DEF RInv, NoSilentStray, DeadIsDown, Down, TypeOK
  <2>8. TracesBegin' /\ AncientIsGone'
    BY <1>1, <1>2, <2>1 DEF RInv, TracesBegin, AncientIsGone, TypeOK, Begun
  <2> QED
    BY <1>1, <1>4, <2>3, <2>4, <2>6, <2>7, <2>8, CallersKept, PurgesKept, ReapKept DEF RInv
<1>7. CASE DeleteSaveFails(d)
  <2>1. /\ box' = box /\ given_up' = given_up /\ dict' = dict /\ sweep' = sweep
        /\ del' = [del EXCEPT ![d] = NoDelete]
    BY <1>7 DEF DeleteSaveFails
  <2>2. TypeOK'
    <3>1. del' \in [Deleters -> DeleteRecord]
      BY <1>1, <2>1, TypesAre DEF Types, DeleteRecord, NoDelete
    <3>2. faults' \in 0 .. MaxFaults
      BY <1>1, <1>7, FaultCounted, TypesAre DEF DeleteSaveFails, Types
    <3> QED
      BY <1>1, <2>1, <3>1, <3>2, TypesAre DEF Types
  <2>3. Forward
    BY <1>1, <2>1 DEF Forward, Begun
  <2>4. Sound(d)'
    BY <1>1, <2>1 DEF Sound, NoDelete, TypeOK
  <2>5. DeletesAreSound'
    BY <1>3, <2>1, <2>3, <2>4, DeleteKept DEF DeletesAreSound
  <2>6. NoSilentStray'
    BY <1>1, <2>1 DEF RInv, NoSilentStray
  <2> QED
    BY <1>1, <2>1, <2>2, <2>3, <2>5, <2>6, TracesKept, CallersKept, DeadKept, PurgesKept, ReapKept DEF RInv
<1> QED
  BY <1>5, <1>6, <1>7 DEF Deleting

-----------------------------------------------------------------------------
(* Sweeps and the deletes they make *)

LEMMA WorklistIsDue ==
  ASSUME TypeOK
  PROVE  /\ Worklist \in SUBSET (Episodes \X {"expire", "purge"})
         /\ \A e \in Episodes : <<e, "purge">> \in Worklist => age[e] = "ancient"
<1>1. \A e \in Episodes : Due(e) =>
        /\ What(e) \in Episodes \X {"expire", "purge"}
        /\ \A x : What(e) = <<x, "purge">> => x = e /\ age[e] = "ancient"
  BY DEF What, Due
<1>2. \A w \in Worklist : \E e \in Episodes : Due(e) /\ w = What(e)
  BY DEF Worklist, Scanned, Recorded
<1> QED
  BY <1>1, <1>2

LEMMA TakenRecord ==
  ASSUME NEW s, NEW w, sweep[s] \in SweepRecord
  PROVE  /\ Taken(s, w) \in SweepRecord
         /\ Taken(s, w).on = sweep[s].on /\ Taken(s, w).caller = sweep[s].caller
         /\ Taken(s, w).acted = sweep[s].acted /\ Taken(s, w).todo \subseteq sweep[s].todo
  BY DEF Taken, SweepRecord

\* What a delete loads is right at that moment: a record has begun, and a
\* terminated one is down.
LEMMA LoadIsSound ==
  ASSUME RInv, NEW d \in Deleters, NEW e \in Episodes, DeleteLoad(d, e),
         reset' = reset, box' = box, given_up' = given_up,
         d \in Sweepers => sweep'[d].on /\ sweep'[d].acted < Budget
  PROVE  /\ del' \in [Deleters -> DeleteRecord]
         /\ Sound(d)'
         /\ \A x \in Deleters : x # d => del'[x] = del[x]
<1>1. Types
  BY TypesAre DEF RInv
<1>2. /\ dict[e] # "none" => Begun(e)
      /\ dict[e] = "terminated" => Down(e)
  BY DEF RInv, TracesBegin, DeadIsDown
<1>3. CASE dict[e] = "none"
  BY <1>1, <1>3 DEF DeleteLoad, NoDelete, DeleteRecord, Types, Sound
<1>4. CASE dict[e] # "none"
  <2> DEFINE new == [at |-> IF dict[e] = "live" THEN "stop" ELSE "save", ep |-> e]
  <2>1. del' = [del EXCEPT ![d] = new]
    BY <1>4 DEF DeleteLoad
  <2>2. new \in DeleteRecord /\ new.ep = e /\ (new.at = "save" => dict[e] = "terminated")
    BY <1>1, <1>4 DEF DeleteRecord, Types
  <2> HIDE DEF new
  <2>3. del' \in [Deleters -> DeleteRecord] /\ del'[d] = new
        /\ \A x \in Deleters : x # d => del'[x] = del[x]
    BY <1>1, <2>1, <2>2 DEF Types
  <2>4. Sound(d)'
    BY <1>2, <1>4, <2>2, <2>3 DEF Sound, Begun, Down
  <2> QED
    BY <2>3, <2>4
<1> QED
  BY <1>3, <1>4

\* A sweep that begins has no delete under way, and purges what is ancient.
LEMMA SweepBegins ==
  ASSUME RInv, NEW s \in Sweepers, NEW c \in Episodes \cup {Nobody}, BeginSweep(s, c)
  PROVE  /\ sweep' \in [Sweepers -> SweepRecord]
         /\ faults' \in 0 .. MaxFaults
         /\ sweep'[s].caller = c
         /\ \A t \in Sweepers : t # s => sweep'[t] = sweep[t]
         /\ \A e \in Episodes : <<e, "purge">> \in sweep'[s].todo => age[e] = "ancient"
         /\ del[s].at = "idle"
<1>1. Types
  BY TypesAre DEF RInv
<1>2. PICK todo \in {Worklist, {}} :
        sweep' = [sweep EXCEPT ![s] =
                    [on |-> TRUE, caller |-> c, todo |-> todo, acted |-> 0]]
  BY DEF BeginSweep
<1>3. /\ todo \in SUBSET (Episodes \X {"expire", "purge"})
      /\ \A e \in Episodes : <<e, "purge">> \in todo => age[e] = "ancient"
  BY WorklistIsDue DEF RInv
<1>4. [on |-> TRUE, caller |-> c, todo |-> todo, acted |-> 0] \in SweepRecord
  BY <1>3, FleetAssumption DEF SweepRecord
<1>5. faults' \in 0 .. MaxFaults
  BY <1>1, FaultCounted DEF BeginSweep, Types
<1>6. del[s].at = "idle"
  BY DEF BeginSweep, RInv, DeletesAreSound, Sound, Deleters
<1> QED
  BY <1>1, <1>2, <1>3, <1>4, <1>5, <1>6 DEF Types

LEMMA SweepRecords ==
  ASSUME RInv, NEW s \in Sweepers, Sweep(s)
  PROVE  RInv'
<1>1. /\ BeginSweep(s, Nobody)
      /\ dict' = dict /\ age' = age /\ box' = box /\ reset' = reset /\ del' = del
      /\ reap' = reap /\ given_up' = given_up
  BY DEF Sweep
<1>2. /\ sweep' \in [Sweepers -> SweepRecord] /\ faults' \in 0 .. MaxFaults
      /\ sweep'[s].caller = Nobody
      /\ \A t \in Sweepers : t # s => sweep'[t] = sweep[t]
      /\ \A e \in Episodes : <<e, "purge">> \in sweep'[s].todo => age[e] = "ancient"
      /\ del[s].at = "idle"
  BY <1>1, SweepBegins
<1>3. TypeOK'
  BY <1>1, <1>2, TypesAre DEF RInv, Types
<1>4. Forward
  BY <1>1 DEF Forward, Begun
<1>5. DeletesAreSound'
  <2>1. \A d \in Deleters : d # s => Sound(d)'
    BY <1>1, <1>2, <1>4, DeleteKept
  <2>2. Sound(s)'
    BY <1>1, <1>2 DEF Sound
  <2> QED
    BY <2>1, <2>2 DEF DeletesAreSound
<1>6. CallersWait'
  BY <1>1, <1>2 DEF RInv, CallersWait
<1>7. PurgesAreDue'
  BY <1>1, <1>2 DEF RInv, PurgesAreDue
<1>8. NoSilentStray'
  BY <1>1 DEF RInv, NoSilentStray
<1> QED
  BY <1>1, <1>3, <1>4, <1>5, <1>6, <1>7, <1>8, TracesKept, DeadKept, ReapKept DEF RInv

LEMMA ExpireRecords ==
  ASSUME RInv, NEW s \in Sweepers, Expire(s)
  PROVE  RInv'
<1>1. Types
  BY TypesAre DEF RInv
<1> PICK e \in Episodes : /\ DeleteLoad(s, e)
                          /\ sweep' = [sweep EXCEPT ![s] = Taken(s, <<e, "expire">>)]
  BY DEF Expire
<1>2. /\ Busy(s) /\ dict' = dict /\ age' = age /\ box' = box /\ reset' = reset
      /\ reap' = reap /\ given_up' = given_up /\ faults' = faults
  BY DEF Expire, world
<1>3. /\ sweep' \in [Sweepers -> SweepRecord]
      /\ \A t \in Sweepers : sweep'[t].caller = sweep[t].caller
                             /\ sweep'[t].todo \subseteq sweep[t].todo
      /\ \A t \in Sweepers : t # s => sweep'[t] = sweep[t]
      /\ sweep'[s].on /\ sweep'[s].acted < Budget
  BY <1>1, <1>2, TakenRecord DEF Types, Busy
<1>4. /\ del' \in [Deleters -> DeleteRecord] /\ Sound(s)'
      /\ \A x \in Deleters : x # s => del'[x] = del[x]
  BY <1>2, <1>3, LoadIsSound DEF Deleters
<1>5. Forward
  BY <1>2 DEF Forward, Begun
<1>6. DeletesAreSound'
  BY <1>3, <1>4, <1>5, DeleteKept DEF DeletesAreSound
<1>7. TypeOK'
  BY <1>1, <1>2, <1>3, <1>4, TypesAre DEF Types
<1>8. NoSilentStray'
  BY <1>2 DEF RInv, NoSilentStray
<1> QED
  BY <1>2, <1>3, <1>5, <1>6, <1>7, <1>8, TracesKept, CallersKept, PurgesKept, DeadKept, ReapKept DEF RInv

\* The sandbox of a record that is purged stopped a day ago.
LEMMA PurgeRecords ==
  ASSUME RInv, NEW s \in Sweepers, Purge(s)
  PROVE  RInv' /\ \A e \in Episodes : dict[e] # "none" /\ dict'[e] = "none" => box[e] # "up"
<1>1. Types
  BY TypesAre DEF RInv
<1> PICK e \in Episodes :
      /\ Turn(s, <<e, "purge">>)
      /\ dict' = [dict EXCEPT ![e] = "none"]
      /\ sweep' = [sweep EXCEPT ![s] = [Taken(s, <<e, "purge">>) EXCEPT !.acted = @ + 1]]
  BY DEF Purge
<1> DEFINE new == [Taken(s, <<e, "purge">>) EXCEPT !.acted = @ + 1]
<1>2. /\ Busy(s) /\ age' = age /\ box' = box /\ reset' = reset /\ del' = del
      /\ reap' = reap /\ given_up' = given_up /\ faults' = faults
  BY DEF Purge, world
<1>3. /\ new \in SweepRecord /\ new.caller = sweep[s].caller /\ new.todo \subseteq sweep[s].todo
  <2>1. /\ Taken(s, <<e, "purge">>) \in SweepRecord
        /\ Taken(s, <<e, "purge">>).caller = sweep[s].caller
        /\ Taken(s, <<e, "purge">>).acted = sweep[s].acted
        /\ Taken(s, <<e, "purge">>).todo \subseteq sweep[s].todo
    BY <1>1, TakenRecord DEF Types
  <2>2. sweep[s].acted + 1 \in 0 .. Budget
    BY <1>1, <1>2, FleetAssumption DEF Busy, Types, SweepRecord
  <2> QED
    BY <2>1, <2>2 DEF SweepRecord
<1>4. sweep' = [sweep EXCEPT ![s] = new]
  OBVIOUS
<1> HIDE DEF new
<1>5. /\ sweep' \in [Sweepers -> SweepRecord]
      /\ \A t \in Sweepers : sweep'[t].caller = sweep[t].caller
                             /\ sweep'[t].todo \subseteq sweep[t].todo
      /\ \A t \in Sweepers : t # s => sweep'[t] = sweep[t]
  BY <1>1, <1>3, <1>4 DEF Types
<1>6. age[e] = "ancient" /\ box[e] # "up"
  BY DEF Turn, RInv, PurgesAreDue, AncientIsGone
<1>7. Forward
  BY <1>2 DEF Forward, Begun
<1>8. TypeOK'
  BY <1>1, <1>2, <1>5, TypesAre DEF Types
<1>9. DeletesAreSound'
  <2>1. \A d \in Deleters : d # s => Sound(d)'
    BY <1>2, <1>5, <1>7, DeleteKept
  <2>2. Sound(s)'
    BY <1>2 DEF Sound, Busy
  <2> QED
    BY <2>1, <2>2 DEF DeletesAreSound
<1>10. \A x \in Episodes : x # e => dict'[x] = dict[x]
  BY <1>1 DEF Types
<1>11. dict'[e] = "none"
  BY <1>1 DEF Types
<1>12. NoSilentStray'
  BY <1>2, <1>6, <1>10 DEF RInv, NoSilentStray
<1>13. /\ \A x \in Episodes : dict'[x] # "none" => dict[x] # "none"
       /\ \A x \in Episodes : dict'[x] = "terminated" => dict[x] = "terminated"
  BY <1>10, <1>11
<1>14. RInv'
  BY <1>2, <1>5, <1>7, <1>8, <1>9, <1>12, <1>13,
     TracesKept, CallersKept, PurgesKept, DeadKept, ReapKept DEF RInv
<1> QED
  BY <1>6, <1>10, <1>14

LEMMA SkipRecords ==
  ASSUME RInv, NEW s \in Sweepers, Skip(s)
  PROVE  RInv'
<1>1. Types
  BY TypesAre DEF RInv
<1> PICK w \in sweep[s].todo : sweep' = [sweep EXCEPT ![s] = Taken(s, w)]
  BY DEF Skip
<1>2. /\ Busy(s) /\ dict' = dict /\ age' = age /\ box' = box /\ reset' = reset /\ del' = del
      /\ reap' = reap /\ given_up' = given_up /\ Fault
  BY DEF Skip
<1>3. /\ sweep' \in [Sweepers -> SweepRecord]
      /\ \A t \in Sweepers : sweep'[t].caller = sweep[t].caller
                             /\ sweep'[t].todo \subseteq sweep[t].todo
      /\ \A t \in Sweepers : t # s => sweep'[t] = sweep[t]
  BY <1>1, TakenRecord DEF Types
<1>4. Forward
  BY <1>2 DEF Forward, Begun
<1>5. DeletesAreSound'
  <2>1. \A d \in Deleters : d # s => Sound(d)'
    BY <1>2, <1>3, <1>4, DeleteKept
  <2>2. Sound(s)'
    BY <1>2 DEF Sound, Busy
  <2> QED
    BY <2>1, <2>2 DEF DeletesAreSound
<1>6. TypeOK'
  BY <1>1, <1>2, <1>3, TypesAre, FaultCounted DEF Types
<1>7. NoSilentStray'
  BY <1>2 DEF RInv, NoSilentStray
<1> QED
  BY <1>2, <1>3, <1>4, <1>5, <1>6, <1>7,
     TracesKept, CallersKept, PurgesKept, DeadKept, ReapKept DEF RInv

\* The reset that waited for the sweep, and no other one, goes on or is lost.
LEMMA SweepEnds ==
  ASSUME RInv, NEW s \in Sweepers, EndSweep(s) \/ KillSweep(s)
  PROVE  RInv'
<1> DEFINE c == sweep[s].caller
<1>1. Types /\ s \in Deleters
  BY TypesAre DEF RInv, Deleters
<1>2. /\ dict' = dict /\ age' = age /\ box' = box /\ reap' = reap /\ given_up' = given_up
      /\ sweep' = [sweep EXCEPT ![s] = NoSweep]
      /\ Fault \/ faults' = faults
  BY DEF EndSweep, KillSweep, world
<1>3. c \in Episodes \cup {Nobody} /\ (c # Nobody => reset[c] = "sweeping")
  BY <1>1 DEF Types, SweepRecord, RInv, CallersWait
<1>4. /\ reset' \in [Episodes -> Phases]
      /\ \A e \in Episodes : e # c => reset'[e] = reset[e]
      /\ c = Nobody => reset' = reset
  BY <1>1, <1>3 DEF EndSweep, KillSweep, Types, Phases, Provisioning
<1>5. /\ sweep' \in [Sweepers -> SweepRecord]
      /\ sweep'[s].caller = Nobody /\ sweep'[s].todo = {}
      /\ \A t \in Sweepers : t # s => sweep'[t] = sweep[t]
  BY <1>1, <1>2, FleetAssumption DEF Types, NoSweep, SweepRecord
<1>6. /\ del' \in [Deleters -> DeleteRecord]
      /\ del'[s].at = "idle"
      /\ \A x \in Deleters : x # s => del'[x] = del[x]
  BY <1>1 DEF EndSweep, KillSweep, NoDelete, Types, DeleteRecord
<1>7. Forward
  <2>1. \A e \in Episodes : Begun(e) => Begun(e)'
    BY <1>3, <1>4, FleetAssumption DEF Begun
  <2> QED
    BY <1>2, <2>1 DEF Forward
<1>8. TypeOK'
  <2>1. faults' \in 0 .. MaxFaults
    BY <1>1, <1>2, FaultCounted DEF Types
  <2> QED
    BY <1>1, <1>2, <1>4, <1>5, <1>6, <2>1, TypesAre DEF Types
<1>9. DeletesAreSound'
  <2>1. \A d \in Deleters : d # s => Sound(d)'
    BY <1>5, <1>6, <1>7, DeleteKept
  <2>2. Sound(s)'
    BY <1>6 DEF Sound
  <2> QED
    BY <2>1, <2>2 DEF DeletesAreSound
<1>10. CallersWait'
  <2>1. \A t \in Sweepers : t # s /\ sweep[t].caller # Nobody =>
          sweep[t].caller \in Episodes /\ sweep[t].caller # c
    BY <1>1 DEF RInv, CallersWait, Types, SweepRecord
  <2>2. \A t \in Sweepers : sweep'[t].caller # Nobody => reset'[sweep'[t].caller] = "sweeping"
    BY <1>4, <1>5, <2>1 DEF RInv, CallersWait
  <2>3. \A t, x \in Sweepers : sweep'[t].caller = sweep'[x].caller /\ t # x => sweep'[t].caller = Nobody
    BY <1>5 DEF RInv, CallersWait
  <2> QED
    BY <2>2, <2>3 DEF CallersWait
<1>11. PurgesAreDue'
  BY <1>5, <1>7, PurgesKept
<1>12. NoSilentStray'
  BY <1>2, <1>3, <1>4 DEF RInv, NoSilentStray, Provisioning
<1> QED
  BY <1>2, <1>7, <1>8, <1>9, <1>10, <1>11, <1>12, TracesKept, DeadKept, ReapKept DEF RInv

-----------------------------------------------------------------------------
(* Resets *)

LEMMA ResetRecords ==
  ASSUME RInv, NEW e \in Episodes, Reset(e)
  PROVE  RInv'
<1>1. Types
  BY TypesAre DEF RInv
<1>2. /\ reset[e] = "idle" /\ dict' = dict /\ age' = age /\ box' = box /\ del' = del
      /\ reap' = reap /\ given_up' = given_up
  BY DEF Reset
<1>3. /\ reset' \in [Episodes -> Phases]
      /\ \A x \in Episodes : x # e => reset'[x] = reset[x]
  BY <1>1 DEF Reset, Types, Phases, Provisioning
<1>4. \A t \in Sweepers : sweep[t].caller # e
  BY <1>2, FleetAssumption DEF RInv, CallersWait
<1>5. Forward
  BY <1>2, <1>3 DEF Forward, Begun
<1>6. CASE reset' = [reset EXCEPT ![e] = "create"] /\ UNCHANGED <<sweep, faults>>
  <2>1. TypeOK'
    BY <1>1, <1>2, <1>3, <1>6, TypesAre DEF Types
  <2>2. CallersWait'
    BY <1>3, <1>4, <1>6 DEF RInv, CallersWait, TypeOK
  <2>3. DeletesAreSound'
    BY <1>2, <1>5, <1>6, DeleteKept DEF DeletesAreSound
  <2>4. PurgesAreDue'
    BY <1>5, <1>6, PurgesKept
  <2>5. NoSilentStray'
    BY <1>2, <1>3 DEF RInv, NoSilentStray, TracesBegin, Begun
  <2> QED
    BY <1>2, <1>5, <2>1, <2>2, <2>3, <2>4, <2>5, TracesKept, DeadKept, ReapKept DEF RInv
<1>7. CASE /\ reset' = [reset EXCEPT ![e] = "sweeping"]
           /\ \E s \in Sweepers : BeginSweep(s, e)
  <2> PICK s \in Sweepers : BeginSweep(s, e)
    BY <1>7
  <2>1. /\ sweep' \in [Sweepers -> SweepRecord] /\ faults' \in 0 .. MaxFaults
        /\ sweep'[s].caller = e
        /\ \A t \in Sweepers : t # s => sweep'[t] = sweep[t]
        /\ \A x \in Episodes : <<x, "purge">> \in sweep'[s].todo => age[x] = "ancient"
        /\ del[s].at = "idle"
    BY SweepBegins
  <2>2. TypeOK'
    BY <1>1, <1>2, <1>3, <2>1, TypesAre DEF Types
  <2>3. reset'[e] = "sweeping"
    BY <1>1, <1>7 DEF Types
  <2>4. CallersWait'
    BY <1>1, <1>3, <1>4, <2>1, <2>3, SMTT(30) DEF RInv, CallersWait, Types, SweepRecord
  <2>5. DeletesAreSound'
    <3>1. \A d \in Deleters : d # s => Sound(d)'
      BY <1>2, <1>5, <2>1, DeleteKept
    <3>2. Sound(s)'
      BY <1>2, <2>1 DEF Sound
    <3> QED
      BY <3>1, <3>2 DEF DeletesAreSound
  <2>6. PurgesAreDue'
    BY <1>2, <2>1 DEF RInv, PurgesAreDue
  <2>7. NoSilentStray'
    BY <1>2, <1>3 DEF RInv, NoSilentStray, TracesBegin, Begun
  <2> QED
    BY <1>2, <1>5, <2>2, <2>4, <2>5, <2>6, <2>7, TracesKept, DeadKept, ReapKept DEF RInv
<1> QED
  BY <1>6, <1>7 DEF Reset

(***************************************************************************)
(* A provisioning step changes its own episode alone.  Only Create makes a *)
(* sandbox, for an episode that has nothing yet; a record appears when the *)
(* reset is at "save".                                                     *)
(***************************************************************************)
LEMMA ProvisionRecords ==
  ASSUME RInv, NEW e \in Episodes, Provision(e) \/ KillReset(e)
  PROVE  RInv'
<1>1. Types
  BY TypesAre DEF RInv
<1>2. /\ reset[e] \in Provisioning
      /\ age' = age /\ sweep' = sweep /\ del' = del /\ reap' = reap
      /\ Fault \/ UNCHANGED faults
  BY DEF Provision, KillReset, Create, CreateFails, Install, InstallFails, Fill, FillFails,
         Save, SaveFails, Abort, At, Provisioning, world
<1>3. /\ reset' \in [Episodes -> Phases]
      /\ reset'[e] \in (Provisioning \ {"create"}) \cup {"ok", "failed"}
      /\ \A x \in Episodes : x # e => reset'[x] = reset[x]
  BY <1>1 DEF Provision, KillReset, Create, CreateFails, Install, InstallFails, Fill, FillFails,
         Save, SaveFails, Abort, Goto, Types, Phases, Provisioning, At
<1>4. /\ given_up' \in SUBSET Episodes /\ given_up \subseteq given_up'
  BY <1>1 DEF Provision, KillReset, Create, CreateFails, Install, InstallFails, Fill, FillFails,
         Save, SaveFails, Abort, Types, world
<1>5. /\ box' \in [Episodes -> {"none", "up", "gone"}]
      /\ \A x \in Episodes : x # e => box'[x] = box[x]
      /\ box'[e] = "up" => box[e] = "up" \/ reset[e] = "create"
  BY <1>1 DEF Provision, KillReset, Create, CreateFails, Install, InstallFails, Fill, FillFails,
         Save, SaveFails, Abort, Types, world, At
<1>6. /\ dict' \in [Episodes -> {"none", "live", "terminated"}]
      /\ \A x \in Episodes : x # e => dict'[x] = dict[x]
      /\ dict'[e] = dict[e] \/ dict'[e] = "live"
  BY <1>1 DEF Provision, KillReset, Create, CreateFails, Install, InstallFails, Fill, FillFails,
         Save, SaveFails, Abort, Types, world
<1>7. Begun(e)'
  BY <1>3 DEF Begun, Provisioning
<1>8. Forward
  <2>1. \A x \in Episodes : Begun(x) => Begun(x)'
    BY <1>3, <1>7 DEF Begun
  <2>2. \A x \in Episodes : Begun(x) /\ box[x] # "up" => box'[x] # "up"
    BY <1>5 DEF Begun
  <2> QED
    BY <1>2, <1>4, <2>1, <2>2 DEF Forward
<1>9. TypeOK'
  <2>1. faults' \in 0 .. MaxFaults
    BY <1>1, <1>2, FaultCounted DEF Types
  <2> QED
    BY <1>1, <1>2, <1>3, <1>4, <1>5, <1>6, <2>1, TypesAre DEF Types
<1>10. CallersWait'
  <2>1. \A t \in Sweepers : sweep[t].caller # e
    BY <1>2, FleetAssumption DEF RInv, CallersWait, Provisioning
  <2>2. \A t \in Sweepers : sweep[t].caller \in Episodes \cup {Nobody}
    BY <1>1 DEF Types, SweepRecord
  <2> QED
    BY <1>2, <1>3, <2>1, <2>2 DEF RInv, CallersWait
<1>11. TracesBegin'
  BY <1>2, <1>3, <1>5, <1>6, <1>7 DEF RInv, TracesBegin, Begun
<1>12. AncientIsGone'
  BY <1>2, <1>5 DEF RInv, AncientIsGone, TracesBegin, Begun
<1>13. DeletesAreSound'
  BY <1>2, <1>8, DeleteKept DEF DeletesAreSound
<1>14. PurgesAreDue' /\ ReapedIsGone'
  BY <1>2, <1>8, PurgesKept, ReapKept
<1>15. DeadIsDown'
  BY <1>6, <1>8, DeadKept
<1>16. NoSilentStray'
  <2>1. box'[e] = "up" => reset'[e] \in Provisioning \/ dict'[e] = "live" \/ e \in given_up'
    BY <1>1, <1>2, <1>12 DEF Provision, KillReset, Create, CreateFails, Install, InstallFails, Fill,
       FillFails, Save, SaveFails, Abort, At, Goto, Types, Provisioning, RInv, TracesBegin, Begun
  <2> QED
    BY <1>3, <1>4, <1>5, <1>6, <2>1 DEF RInv, NoSilentStray
<1> QED
  BY <1>9, <1>10, <1>11, <1>12, <1>13, <1>14, <1>15, <1>16 DEF RInv

-----------------------------------------------------------------------------
(* Owners and time *)

LEMMA OwnerRecords ==
  ASSUME RInv, NEW e \in Episodes, OwnerDeletes(e) \/ KillDelete(e)
  PROVE  RInv'
<1>1. Types /\ e \in Deleters /\ e \notin Sweepers
  BY TypesAre, FleetAssumption DEF RInv, Deleters
<1>2. /\ dict' = dict /\ age' = age /\ box' = box /\ reset' = reset /\ sweep' = sweep
      /\ reap' = reap /\ given_up' = given_up
      /\ Fault \/ UNCHANGED faults
  BY DEF OwnerDeletes, KillDelete, world
<1>3. /\ del' \in [Deleters -> DeleteRecord] /\ Sound(e)'
      /\ \A x \in Deleters : x # e => del'[x] = del[x]
  <2>1. CASE OwnerDeletes(e)
    <3>1. DeleteLoad(e, e)
      BY <2>1 DEF OwnerDeletes
    <3> QED
      BY <1>1, <1>2, <3>1, LoadIsSound
  <2>2. CASE KillDelete(e)
    <3>1. del' = [del EXCEPT ![e] = NoDelete] /\ NoDelete \in DeleteRecord
      BY <2>2 DEF KillDelete, NoDelete, DeleteRecord
    <3>2. Sound(e)'
      BY <1>1, <3>1 DEF Sound, NoDelete, Types
    <3> QED
      BY <1>1, <3>1, <3>2 DEF Types
  <2> QED
    BY <2>1, <2>2
<1>4. Forward
  BY <1>2 DEF Forward, Begun
<1>5. TypeOK'
  <2>1. faults' \in 0 .. MaxFaults
    BY <1>1, <1>2, FaultCounted DEF Types
  <2> QED
    BY <1>1, <1>2, <1>3, <2>1, TypesAre DEF Types
<1>6. DeletesAreSound'
  BY <1>2, <1>3, <1>4, DeleteKept DEF DeletesAreSound
<1>7. NoSilentStray'
  BY <1>2 DEF RInv, NoSilentStray
<1> QED
  BY <1>2, <1>4, <1>5, <1>6, <1>7, TracesKept, CallersKept, PurgesKept, DeadKept, ReapKept DEF RInv

LEMMA TimeRecords ==
  ASSUME RInv, NEW e \in Episodes, GrowOld(e) \/ GrowAncient(e) \/ BoxEnds(e)
  PROVE  RInv'
<1>1. Types
  BY TypesAre DEF RInv
<1>2. /\ dict' = dict /\ reset' = reset /\ sweep' = sweep /\ del' = del
      /\ reap' = reap /\ given_up' = given_up /\ faults' = faults
  BY DEF GrowOld, GrowAncient, BoxEnds, world
<1>3. /\ age' \in [Episodes -> {"young", "old", "ancient"}]
      /\ box' \in [Episodes -> {"none", "up", "gone"}]
      /\ \A x \in Episodes : box'[x] = "up" => box[x] = "up"
      /\ \A x \in Episodes : age[x] = "ancient" => age'[x] = "ancient"
  BY <1>1 DEF GrowOld, GrowAncient, BoxEnds, Types, world
<1>4. Forward
  BY <1>2, <1>3 DEF Forward, Begun
<1>5. TypeOK'
  BY <1>1, <1>2, <1>3, TypesAre DEF Types
<1>6. DeletesAreSound'
  BY <1>2, <1>4, DeleteKept DEF DeletesAreSound
<1>7. TracesBegin' /\ AncientIsGone'
  BY <1>1, <1>2, <1>3 DEF GrowOld, GrowAncient, BoxEnds, world, Types, RInv, TracesBegin, AncientIsGone, Begun
<1>8. NoSilentStray'
  BY <1>2, <1>3 DEF RInv, NoSilentStray
<1> QED
  BY <1>2, <1>4, <1>5, <1>6, <1>7, <1>8, CallersKept, PurgesKept, DeadKept, ReapKept DEF RInv

-----------------------------------------------------------------------------
(* Reap: what it has terminated had begun, so nothing makes it run again. *)

LEMMA ReapRecords ==
  ASSUME RInv, Reap
  PROVE  RInv'
<1>1. Types
  BY TypesAre DEF RInv
<1>2. /\ age' = age /\ reset' = reset /\ sweep' = sweep /\ del' = del /\ given_up' = given_up
      /\ Fault \/ UNCHANGED faults
  BY DEF Reap, ReapScan, ReapList, ReapMarkScan, ReapEnd, ReapStops, ReapKill, ReapKillFails,
         ReapMark, world
<1>3. /\ box' \in [Episodes -> {"none", "up", "gone"}]
      /\ \A x \in Episodes : box'[x] = "up" => box[x] = "up"
  BY <1>1 DEF Reap, ReapScan, ReapList, ReapMarkScan, ReapEnd, ReapStops, ReapKill, ReapKillFails,
         ReapMark, Types
<1>4. Forward
  BY <1>2, <1>3 DEF Forward, Begun
<1>5. faults' \in 0 .. MaxFaults
  BY <1>1, <1>2, FaultCounted DEF Types
<1>6. CallersWait' /\ PurgesAreDue'
  BY <1>2, <1>4, CallersKept, PurgesKept
<1>7. DeletesAreSound'
  BY <1>2, <1>4, DeleteKept DEF DeletesAreSound
<1>8. ASSUME dict' \in [Episodes -> {"none", "live", "terminated"}], reap' \in ReapRecord
      PROVE  TypeOK'
  BY <1>1, <1>2, <1>3, <1>5, <1>8, TypesAre DEF Types
<1>9. ASSUME dict' = dict, reap' \in ReapRecord, ReapedIsGone'
      PROVE  RInv'
  <2>1. NoSilentStray'
    BY <1>2, <1>3, <1>9 DEF RInv, NoSilentStray
  <2> QED
    BY <1>1, <1>2, <1>3, <1>4, <1>6, <1>7, <1>8, <1>9, <2>1, TracesKept, DeadKept DEF RInv, Types
<1>10. CASE ReapScan \/ ReapEnd \/ ReapStops
  <2>1. /\ dict' = dict /\ reap' \in ReapRecord /\ reap'.reaped = {} /\ reap'.at \in {"idle", "scanned"}
    <3>1. NoReap \in ReapRecord /\ NoReap.reaped = {} /\ NoReap.at = "idle"
      BY DEF NoReap, ReapRecord
    <3>2. CASE ReapScan
      <4>1. PICK spare \in SUBSET Episodes :
              reap' = [NoReap EXCEPT !.at = "scanned", !.spare = spare]
        BY <3>2 DEF ReapScan, Answers, Spared
      <4> QED
        BY <3>1, <3>2, <4>1 DEF ReapScan, NoReap, ReapRecord
    <3>3. CASE ReapEnd \/ ReapStops
      BY <3>1, <3>3 DEF ReapEnd, ReapStops
    <3> QED
      BY <1>10, <3>2, <3>3
  <2> QED
    BY <1>9, <2>1 DEF ReapedIsGone
<1>11. CASE ReapList
  <2>1. /\ dict' = dict /\ box' = box /\ reap' \in ReapRecord /\ reap'.at = "kill"
        /\ reap'.reaped = reap.reaped
        /\ \A e \in reap'.todo : e \in Episodes /\ box[e] = "up"
    BY <1>1, <1>11 DEF ReapList, Types, ReapRecord
  <2>2. ReapedIsGone'
    BY <1>2, <2>1 DEF RInv, ReapedIsGone, TracesBegin, Begun
  <2> QED
    BY <1>9, <2>1, <2>2
<1>12. CASE \E e \in Episodes : ReapKill(e) \/ ReapKillFails(e)
  <2> PICK e \in Episodes : ReapKill(e) \/ ReapKillFails(e)
    BY <1>12
  <2>1. /\ dict' = dict /\ reap.at = "kill" /\ e \in reap.todo
    BY DEF ReapKill, ReapKillFails
  <2>2. /\ reap' \in ReapRecord /\ reap'.at = "kill" /\ reap'.todo = reap.todo \ {e}
        /\ \/ reap'.reaped = reap.reaped
           \/ reap'.reaped = reap.reaped \cup {e} /\ box'[e] = "gone"
    <3>1. CASE ReapKill(e)
      BY <1>1, <3>1 DEF ReapKill, Types, ReapRecord
    <3>2. CASE ReapKillFails(e)
      BY <1>1, <3>2 DEF ReapKillFails, Types, ReapRecord
    <3> QED
      BY <3>1, <3>2
  <2>3. ReapedIsGone'
    BY <1>1, <1>2, <1>3, <2>1, <2>2 DEF RInv, ReapedIsGone, Begun, Types, ReapRecord
  <2> QED
    BY <1>9, <2>1, <2>2, <2>3
<1>13. CASE ReapMarkScan
  <2>1. /\ dict' = dict /\ box' = box /\ reap' \in ReapRecord /\ reap'.at = "mark"
        /\ reap'.reaped = reap.reaped /\ reap'.todo \subseteq reap.reaped
    BY <1>1, <1>13 DEF ReapMarkScan, Unmarked, Types, ReapRecord
  <2>2. ReapedIsGone'
    BY <1>2, <2>1 DEF RInv, ReapedIsGone, Begun
  <2> QED
    BY <1>9, <2>1, <2>2
<1>14. CASE \E e \in Episodes : ReapMark(e)
  <2> PICK e \in Episodes : ReapMark(e)
    BY <1>14
  <2>1. /\ reap.at = "mark" /\ e \in reap.todo /\ box' = box
        /\ dict' = [dict EXCEPT ![e] = "terminated"]
        /\ reap' = [reap EXCEPT !.todo = @ \ {e}]
    BY DEF ReapMark
  <2>2. /\ reap' \in ReapRecord /\ reap'.at = "mark" /\ reap'.todo \subseteq reap.todo
        /\ reap'.reaped = reap.reaped
    BY <1>1, <2>1 DEF Types, ReapRecord
  <2>3. Begun(e) /\ box[e] # "up"
    BY <2>1 DEF RInv, ReapedIsGone
  <2>4. ReapedIsGone'
    BY <1>2, <2>1, <2>2 DEF RInv, ReapedIsGone, Begun
  <2>5. dict' \in [Episodes -> {"none", "live", "terminated"}]
        /\ \A x \in Episodes : x # e => dict'[x] = dict[x]
    BY <1>1, <2>1 DEF Types
  <2>6. TracesBegin' /\ AncientIsGone'
    BY <1>2, <2>1, <2>3, <2>5 DEF RInv, TracesBegin, AncientIsGone, Begun
  <2>7. DeadIsDown' /\ NoSilentStray'
    BY <1>2, <2>1, <2>3, <2>5 DEF RInv, DeadIsDown, Down, NoSilentStray
  <2> QED
    BY <1>6, <1>7, <1>8, <2>2, <2>4, <2>5, <2>6, <2>7 DEF RInv
<1> QED
  BY <1>10, <1>11, <1>12, <1>13, <1>14 DEF Reap

-----------------------------------------------------------------------------
(* The theorems *)

LEMMA StepRecords ==
  ASSUME RInv, [Next]_vars
  PROVE  RInv'
<1>1. CASE UNCHANGED vars
  BY <1>1 DEF vars, RInv, TypeOK, CallersWait, TracesBegin, DeletesAreSound, Sound, DeadIsDown,
         AncientIsGone, PurgesAreDue, ReapedIsGone, NoSilentStray, Begun, Down
<1>2. CASE \E s \in Sweepers : Sweep(s) \/ Sweeping(s) \/ KillSweep(s)
  BY <1>2, SweepRecords, ExpireRecords, PurgeRecords, SkipRecords, SweepEnds DEF Sweeping
<1>3. CASE \E e \in Episodes : \/ Reset(e) \/ Provision(e) \/ KillReset(e)
                               \/ OwnerDeletes(e) \/ KillDelete(e)
                               \/ GrowOld(e) \/ GrowAncient(e) \/ BoxEnds(e)
  BY <1>3, ResetRecords, ProvisionRecords, OwnerRecords, TimeRecords
<1>4. CASE (\E d \in Deleters : Deleting(d)) \/ Reap
  BY <1>4, DeletingRecords, ReapRecords
<1> QED
  BY <1>1, <1>2, <1>3, <1>4 DEF Next

\* The episodes keep their types, and a sweep its budget: a delete it waits
\* for has an action left to be counted in (episodes.py sweep).
THEOREM FleetTypes == Spec => []TypeOK
<1>1. RInv => TypeOK
  BY DEF RInv
<1> QED
  BY <1>1, InitRecords, StepRecords, PTL DEF Spec

\* A sandbox runs unknown to the Dict only when it was given up: whatever
\* fails, and however resets, sweeps, deletes and reaps interleave
\* (episodes.py reset, delete, sweep; modal_app.py reap).
THEOREM StraysAreKnown == Spec => []NoSilentStray
<1>1. RInv => NoSilentStray
  BY DEF RInv
<1> QED
  BY <1>1, InitRecords, StepRecords, PTL DEF Spec

\* A record leaves the Dict by a purge alone, of an episode that was old a
\* day ago: its sandbox has stopped since (episodes.py sweep).
THEOREM PurgedSandboxesAreGone == Spec => PurgedIsGone
<1> DEFINE Purged == \A e \in Episodes : dict[e] # "none" /\ dict'[e] = "none" => box[e] # "up"
<1>1. ASSUME RInv, Next PROVE Purged
  <2>1. CASE \E s \in Sweepers : Purge(s)
    BY <1>1, <2>1, PurgeRecords
  <2>2. CASE ~ \E s \in Sweepers : Purge(s)
    <3>1. \A e \in Episodes : dict[e] # "none" => dict'[e] # "none"
      <4>1. Types
        BY <1>1, TypesAre DEF RInv
      <4>2. CASE \E d \in Deleters : Deleting(d)
        BY <4>1, <4>2 DEF Deleting, DeleteStop, DeleteSave, DeleteSaveFails, Types
      <4>3. CASE \E s \in Sweepers : Sweep(s) \/ Sweeping(s) \/ KillSweep(s)
        BY <2>2, <4>3 DEF Sweep, Sweeping, Expire, Skip, EndSweep, KillSweep
      <4>4. CASE \E e \in Episodes : Provision(e) \/ KillReset(e)
        BY <4>1, <4>4 DEF Provision, KillReset, Create, CreateFails, Install, InstallFails, Fill,
           FillFails, Save, SaveFails, Abort, Types, world
      <4>5. CASE \E e \in Episodes : \/ Reset(e) \/ OwnerDeletes(e) \/ KillDelete(e)
                                     \/ GrowOld(e) \/ GrowAncient(e) \/ BoxEnds(e)
        BY <4>5 DEF Reset, OwnerDeletes, KillDelete, GrowOld, GrowAncient, BoxEnds
      <4>6. CASE Reap
        BY <4>1, <4>6 DEF Reap, ReapScan, ReapList, ReapMarkScan, ReapEnd, ReapStops, ReapKill,
           ReapKillFails, ReapMark, Types
      <4> QED
        BY <1>1, <4>2, <4>3, <4>4, <4>5, <4>6 DEF Next
    <3> QED
      BY <3>1
  <2> QED
    BY <2>1, <2>2
<1>2. RInv /\ [Next]_vars => [Purged]_vars
  BY <1>1
<1> QED
  BY <1>2, InitRecords, StepRecords, PTL DEF Spec, PurgedIsGone

(***************************************************************************)
(* A quiet reap.  The resets of the sandboxes it lists are over, also when *)
(* the Dict was blind: a record that mark_terminated did not see alive     *)
(* cannot come alive behind its back.                                      *)
(***************************************************************************)
Over(e) == reset[e] \in {"ok", "failed"}

QInv ==
  /\ reap.at = "scanned" => \A e \in Episodes : box[e] = "up" => Over(e)
  /\ reap.at = "kill" => \A e \in reap.todo : Over(e)
  /\ \A e \in reap.reaped : Over(e)
  /\ ReapedIsMarked

\* What others do while a reap is under way.
LEMMA OthersAreOver ==
  ASSUME RInv, QuietReap, Next, ~Reap
  PROVE  /\ reap' = reap
         /\ \A e \in Episodes : Over(e) => Over(e)' /\ (dict'[e] = "live" => dict[e] = "live")
         /\ \A e \in Episodes : box'[e] = "up" => box[e] = "up" \/ reap.at # "scanned"
<1>1. Types
  BY TypesAre DEF RInv
<1>2. CASE \E d \in Deleters : Deleting(d)
  BY <1>1, <1>2 DEF Deleting, DeleteStop, DeleteSave, DeleteSaveFails, Types, Over, world
<1>3. CASE \E s \in Sweepers : Sweep(s) \/ Sweeping(s) \/ KillSweep(s)
  <2> PICK s \in Sweepers : Sweep(s) \/ Sweeping(s) \/ KillSweep(s)
    BY <1>3
  <2>1. /\ box' = box /\ reap' = reap
        /\ \A e \in Episodes : dict'[e] = "live" => dict[e] = "live"
    BY <1>1 DEF Sweep, Sweeping, Expire, Purge, Skip, EndSweep, KillSweep, Types
  <2>2. \A e \in Episodes : reset'[e] = reset[e] \/ reset[e] = "sweeping"
    <3>1. sweep[s].caller # Nobody => reset[sweep[s].caller] = "sweeping"
      BY DEF RInv, CallersWait
    <3> QED
      BY <1>1, <3>1 DEF Sweep, Sweeping, Expire, Purge, Skip, EndSweep, KillSweep, Types
  <2> QED
    BY <2>1, <2>2 DEF Over
<1>4. CASE \E e \in Episodes : Provision(e) \/ KillReset(e)
  <2> PICK e \in Episodes : Provision(e) \/ KillReset(e)
    BY <1>4
  <2>1. /\ ~Over(e) /\ reap' = reap
        /\ \A x \in Episodes : x # e =>
             reset'[x] = reset[x] /\ dict'[x] = dict[x] /\ box'[x] = box[x]
    BY <1>1 DEF Provision, KillReset, Create, CreateFails, Install, InstallFails, Fill, FillFails,
           Save, SaveFails, Abort, At, Goto, Types, Provisioning, world, Over
  <2>2. box'[e] = "up" => box[e] = "up" \/ reap.at # "scanned"
    BY <1>1 DEF Provision, KillReset, Create, CreateFails, Install, InstallFails, Fill, FillFails,
           Save, SaveFails, Abort, Types, world
  <2> QED
    BY <2>1, <2>2 DEF Over
<1>5. CASE \E e \in Episodes : Reset(e)
  BY <1>1, <1>5 DEF Reset, Types, Over
<1>6. CASE \E e \in Episodes : OwnerDeletes(e) \/ KillDelete(e) \/ GrowOld(e) \/ GrowAncient(e) \/ BoxEnds(e)
  BY <1>1, <1>6 DEF OwnerDeletes, KillDelete, GrowOld, GrowAncient, BoxEnds, Types, Over, world
<1> QED
  BY <1>2, <1>3, <1>4, <1>5, <1>6 DEF Next

LEMMA ReapMarks ==
  ASSUME RInv, QInv, QuietReap, Reap
  PROVE  QInv'
<1>1. Types
  BY TypesAre DEF RInv
<1>2. reset' = reset /\ \A e : Over(e)' <=> Over(e)
  BY DEF Reap, ReapScan, ReapList, ReapMarkScan, ReapEnd, ReapStops, ReapKill, ReapKillFails,
         ReapMark, Over
<1>3. CASE ReapScan
  <2>1. box' = box /\ reap'.at = "scanned" /\ reap'.reaped = {}
    BY <1>3 DEF ReapScan, NoReap
  <2>2. \A e \in Episodes : box[e] = "up" => Over(e)
    BY <1>1, <1>3 DEF ReapScan, RInv, TracesBegin, Begun, Over, Types, Phases, Provisioning
  <2> QED
    BY <1>2, <2>1, <2>2 DEF QInv, ReapedIsMarked
<1>4. CASE ReapList
  <2>1. /\ reap.at = "scanned" /\ reap'.at = "kill" /\ reap'.reaped = reap.reaped
        /\ \A e \in reap'.todo : e \in Episodes /\ box[e] = "up"
    BY <1>1, <1>4 DEF ReapList, Types, ReapRecord
  <2> QED
    BY <1>2, <2>1 DEF QInv, ReapedIsMarked
<1>5. CASE \E e \in Episodes : ReapKill(e) \/ ReapKillFails(e)
  <2> PICK e \in Episodes : ReapKill(e) \/ ReapKillFails(e)
    BY <1>5
  <2>1. reap.at = "kill" /\ e \in reap.todo
    BY DEF ReapKill, ReapKillFails
  <2>2. reap'.at = "kill" /\ reap'.todo = reap.todo \ {e} /\ reap'.reaped \subseteq reap.reaped \cup {e}
    <3>1. CASE ReapKill(e)
      BY <1>1, <3>1 DEF ReapKill, Types, ReapRecord
    <3>2. CASE ReapKillFails(e)
      BY <1>1, <3>2 DEF ReapKillFails, Types, ReapRecord
    <3> QED
      BY <3>1, <3>2
  <2> QED
    BY <1>2, <2>1, <2>2 DEF QInv, ReapedIsMarked
<1>6. CASE ReapMarkScan
  <2>1. /\ dict' = dict /\ reap'.at = "mark" /\ reap'.reaped = reap.reaped
        /\ reap'.todo = {e \in reap.reaped : dict[e] = "live"}
    BY <1>1, <1>6 DEF ReapMarkScan, Unmarked, Types, ReapRecord
  <2> QED
    BY <1>2, <2>1 DEF QInv, ReapedIsMarked
<1>7. CASE \E e \in Episodes : ReapMark(e)
  <2> PICK e \in Episodes : ReapMark(e)
    BY <1>7
  <2>1. /\ reap.at = "mark" /\ e \in reap.todo
        /\ dict' = [dict EXCEPT ![e] = "terminated"]
        /\ reap' = [reap EXCEPT !.todo = @ \ {e}]
    BY DEF ReapMark
  <2>2. reap'.at = "mark" /\ reap'.todo = reap.todo \ {e} /\ reap'.reaped = reap.reaped
    BY <1>1, <2>1 DEF Types, ReapRecord
  <2>3. dict'[e] = "terminated" /\ \A x \in Episodes : x # e => dict'[x] = dict[x]
    BY <1>1, <2>1 DEF Types
  <2>4. reap.reaped \subseteq Episodes
    BY <1>1 DEF Types, ReapRecord
  <2> QED
    BY <1>2, <2>1, <2>2, <2>3, <2>4 DEF QInv, ReapedIsMarked
<1>8. CASE ReapEnd \/ ReapStops
  BY <1>8 DEF ReapEnd, ReapStops, NoReap, QInv, ReapedIsMarked
<1> QED
  BY <1>3, <1>4, <1>5, <1>6, <1>7, <1>8 DEF Reap

LEMMA StepMarked ==
  ASSUME RInv, QInv, QuietReap, [Next]_vars
  PROVE  QInv'
<1>1. Types
  BY TypesAre DEF RInv
<1>2. CASE Reap
  BY <1>2, ReapMarks
<1>3. CASE Next /\ ~Reap
  <2>1. reap.todo \subseteq Episodes /\ reap.reaped \subseteq Episodes
    BY <1>1 DEF Types, ReapRecord
  <2> QED
    BY <1>3, <2>1, OthersAreOver DEF QInv, ReapedIsMarked
<1>4. CASE UNCHANGED vars
  BY <1>4 DEF vars, QInv, ReapedIsMarked, Over
<1> QED
  BY <1>2, <1>3, <1>4

\* While nothing is being provisioned, a record whose sandbox reap has
\* terminated is marked, or on the list of those to mark: deletes, sweeps and
\* the owners' calls do not bring it back (modal_app.py reap).
THEOREM ReapedAreMarked ==
  ASSUME QuietReap
  PROVE  Spec => []ReapedIsMarked
<1>1. Init => QInv
  BY DEF Init, QInv, ReapedIsMarked, NoReap
<1>2. QInv => ReapedIsMarked
  BY DEF QInv
<1>3. RInv /\ QInv /\ [Next]_vars => QInv'
  BY StepMarked
<1> QED
  BY <1>1, <1>2, <1>3, InitRecords, StepRecords, PTL DEF Spec
=============================================================================
