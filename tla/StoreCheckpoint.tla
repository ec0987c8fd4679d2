-------------------------- MODULE StoreCheckpoint --------------------------
(***************************************************************************)
(* The durability half of harness/sqlite_store.py: a hot SQLite file on    *)
(* the container's own disk, the dirty flag, the three-stage checkpoint    *)
(* (VACUUM INTO a temporary file, rename it over the snapshot, commit the  *)
(* Volume), restore on start, and the exit hook.  A database is the        *)
(* sequence of the transactions committed to it.                           *)
(*                                                                         *)
(* Request handlers, the 15 s timer thread and the exit hook all call      *)
(* checkpoint(); _ckpt_lock admits one of them at a time, so one "stage"   *)
(* per container is enough and "holder" says whose it is.                  *)
(***************************************************************************)
EXTENDS Naturals, Sequences, Functions

CONSTANTS
  Containers,    \* incarnations of the Store class that may exist
  Writes,        \* the transactions clients commit
  Overlap        \* TRUE: a redeploy starts a container before the old one left

ASSUME OverlapAssumption == Overlap \in BOOLEAN

VARIABLES
  phase,         \* Store container: down, up, flushing (exit hook), closing
  hot,           \* the hot database: committed transactions in order
  dirty,         \* SqliteStore._dirty
  stage,         \* the checkpoint in flight: idle, vacuumed, renamed
  holder,        \* who holds _ckpt_lock
  image,         \* what VACUUM INTO wrote to the temporary file
  mount,         \* the snapshot file as this container's mount shows it
  unsynced,      \* the mount holds a rename the Volume has not published
  volume,        \* the snapshot the Volume has published
  promised       \* history: transactions covered by a checkpoint that returned

vars == <<phase, hot, dirty, stage, holder, image, mount, unsynced, volume,
          promised>>

Callers == {"request", "timer", "exit"}

TypeOK ==
  /\ phase \in [Containers -> {"down", "up", "flushing", "closing"}]
  /\ hot \in [Containers -> Seq(Writes)]
  /\ dirty \in [Containers -> BOOLEAN]
  /\ stage \in [Containers -> {"idle", "vacuumed", "renamed"}]
  /\ holder \in [Containers -> Callers \cup {"none"}]
  /\ image \in [Containers -> Seq(Writes)]
  /\ mount \in [Containers -> Seq(Writes)]
  /\ unsynced \in [Containers -> BOOLEAN]
  /\ volume \in Seq(Writes)
  /\ promised \in SUBSET Writes

Init ==
  /\ phase = [c \in Containers |-> "down"]
  /\ hot = [c \in Containers |-> << >>]
  /\ dirty = [c \in Containers |-> FALSE]
  /\ stage = [c \in Containers |-> "idle"]
  /\ holder = [c \in Containers |-> "none"]
  /\ image = [c \in Containers |-> << >>]
  /\ mount = [c \in Containers |-> << >>]
  /\ unsynced = [c \in Containers |-> FALSE]
  /\ volume = << >>
  /\ promised = {}

-----------------------------------------------------------------------------
(* Container life cycle *)

\* Mutant: a Volume without a snapshot is not turned into an empty database.
Open_NoSnapshot(c) ==
  /\ phase[c] = "down"
  /\ Overlap \/ \A d \in Containers : phase[d] = "down"
  /\ phase' = [phase EXCEPT ![c] = "up"]
  /\ mount' = [mount EXCEPT ![c] = volume]
  /\ hot' = [hot EXCEPT ![c] = IF volume = << >> THEN "missing" ELSE volume]
  /\ dirty' = [dirty EXCEPT ![c] = FALSE]
  /\ UNCHANGED <<stage, holder, image, unsynced, volume, promised>>

\* Mutant: the container starts from an empty database.
Open_NoRestore(c) ==
  /\ phase[c] = "down"
  /\ Overlap \/ \A d \in Containers : phase[d] = "down"
  /\ phase' = [phase EXCEPT ![c] = "up"]
  /\ mount' = [mount EXCEPT ![c] = volume]
  /\ dirty' = [dirty EXCEPT ![c] = FALSE]
  /\ UNCHANGED <<hot, stage, holder, image, unsynced, volume, promised>>

\* Modal starts the container and Store.enter opens the database: a fresh
\* container has no hot file, so _restore copies the snapshot.
Open(c) ==
  /\ phase[c] = "down"
  /\ Overlap \/ \A d \in Containers : phase[d] = "down"
  /\ phase' = [phase EXCEPT ![c] = "up"]
  /\ mount' = [mount EXCEPT ![c] = volume]
  /\ hot' = [hot EXCEPT ![c] = volume]
  /\ dirty' = [dirty EXCEPT ![c] = FALSE]
  /\ UNCHANGED <<stage, holder, image, unsynced, volume, promised>>

\* One _tx: the transaction commits and marks the database dirty under _lock.
Commit1(c, w) ==
  /\ phase[c] = "up"
  /\ w \notin Range(hot[c])
  /\ hot' = [hot EXCEPT ![c] = Append(@, w)]
  /\ dirty' = [dirty EXCEPT ![c] = TRUE]
  /\ UNCHANGED <<phase, stage, holder, image, mount, unsynced, volume, promised>>

\* Everything on the container's disk goes with it.
Gone(c) ==
  /\ phase' = [phase EXCEPT ![c] = "down"]
  /\ hot' = [hot EXCEPT ![c] = << >>]
  /\ dirty' = [dirty EXCEPT ![c] = FALSE]
  /\ stage' = [stage EXCEPT ![c] = "idle"]
  /\ holder' = [holder EXCEPT ![c] = "none"]
  /\ image' = [image EXCEPT ![c] = << >>]
  /\ mount' = [mount EXCEPT ![c] = << >>]
  /\ unsynced' = [unsynced EXCEPT ![c] = FALSE]
  /\ UNCHANGED <<volume, promised>>

Kill(c) == phase[c] # "down" /\ Gone(c)

\* checkpoint_on_exit reads _dirty without a lock; no request is running.
ExitHook(c) ==
  /\ phase[c] = "up"
  /\ holder[c] # "request"
  /\ phase' = [phase EXCEPT ![c] = IF dirty[c] THEN "flushing" ELSE "closing"]
  /\ UNCHANGED <<hot, dirty, stage, holder, image, mount, unsynced, volume, promised>>

\* close() waits at most 2 s for the timer thread, then the process ends.
Close(c) == phase[c] = "closing" /\ Gone(c)

-----------------------------------------------------------------------------
(* checkpoint() *)

\* May this caller start one now?  The timer looks at _dirty; a request
\* forces one for run.finished (or not, in finish_run); the exit hook forces.
MayCheckpoint(c, who) ==
  CASE who = "timer"   -> phase[c] \in {"up", "flushing"} /\ dirty[c]
    [] who = "request" -> phase[c] = "up"
    [] who = "exit"    -> phase[c] = "flushing"

\* VACUUM INTO the temporary file and clear _dirty, under one hold of _lock.
Vacuum(c, who) ==
  /\ stage[c] = "idle"
  /\ MayCheckpoint(c, who)
  /\ stage' = [stage EXCEPT ![c] = "vacuumed"]
  /\ holder' = [holder EXCEPT ![c] = who]
  /\ image' = [image EXCEPT ![c] = hot[c]]
  /\ dirty' = [dirty EXCEPT ![c] = FALSE]
  /\ UNCHANGED <<phase, hot, mount, unsynced, volume, promised>>

\* os.replace(tmp, snapshot_path)
Rename(c) ==
  /\ stage[c] = "vacuumed"
  /\ stage' = [stage EXCEPT ![c] = "renamed"]
  /\ mount' = [mount EXCEPT ![c] = image[c]]
  /\ unsynced' = [unsynced EXCEPT ![c] = TRUE]
  /\ UNCHANGED <<phase, hot, dirty, holder, image, volume, promised>>

\* _ckpt_lock is released; the exit hook goes on to close().
Release(c) ==
  /\ stage' = [stage EXCEPT ![c] = "idle"]
  /\ holder' = [holder EXCEPT ![c] = "none"]
  /\ image' = [image EXCEPT ![c] = << >>]
  /\ phase' = [phase EXCEPT ![c] = IF holder[c] = "exit" THEN "closing" ELSE @]

\* Mutant: the rename is taken for the publication.
CommitVolume_Skipped(c) ==
  /\ stage[c] = "renamed"
  /\ promised' = promised \cup Range(image[c])
  /\ Release(c)
  /\ UNCHANGED <<hot, dirty, mount, unsynced, volume>>

\* self._commit_volume() returned: the caller may rely on what it covered.
CommitVolume(c) ==
  /\ stage[c] = "renamed"
  /\ volume' = mount[c]
  /\ unsynced' = [unsynced EXCEPT ![c] = FALSE]
  /\ promised' = promised \cup Range(image[c])
  /\ Release(c)
  /\ UNCHANGED <<hot, dirty, mount>>

\* The except clause, reached from the VACUUM ...
VacuumFails(c, who) ==
  /\ stage[c] = "idle"
  /\ MayCheckpoint(c, who)
  /\ dirty' = [dirty EXCEPT ![c] = TRUE]
  /\ phase' = [phase EXCEPT ![c] = IF who = "exit" THEN "closing" ELSE @]
  /\ UNCHANGED <<hot, stage, holder, image, mount, unsynced, volume, promised>>

\* Mutant: the failed checkpoint leaves the flag down.
PublishFails_Forgets(c) ==
  /\ stage[c] # "idle"
  /\ Release(c)
  /\ UNCHANGED <<hot, dirty, mount, unsynced, volume, promised>>

\* ... or from the rename or the commit: unsaved writes remain unsaved.
PublishFails(c) ==
  /\ stage[c] # "idle"
  /\ dirty' = [dirty EXCEPT ![c] = TRUE]
  /\ Release(c)
  /\ UNCHANGED <<hot, mount, unsynced, volume, promised>>

\* Modal commits a mounted Volume in the background whenever it has changed.
BackgroundCommit(c) ==
  /\ unsynced[c]
  /\ volume' = mount[c]
  /\ unsynced' = [unsynced EXCEPT ![c] = FALSE]
  /\ UNCHANGED <<phase, hot, dirty, stage, holder, image, mount, promised>>

Step(c) ==
  \/ Open(c)
  \/ \E w \in Writes : Commit1(c, w)
  \/ Kill(c)
  \/ ExitHook(c)
  \/ Close(c)
  \/ \E who \in Callers : Vacuum(c, who)
  \/ Rename(c)
  \/ CommitVolume(c)
  \/ \E who \in Callers : VacuumFails(c, who)
  \/ PublishFails(c)
  \/ BackgroundCommit(c)

Next == \E c \in Containers : Step(c)

Spec == Init /\ [][Next]_vars

(* The timer thread keeps running while the container is up, a checkpoint   *)
(* that holds the lock goes on, and a Volume that is retried for ever does  *)
(* not refuse for ever.                                                     *)
Fairness ==
  \A c \in Containers :
    /\ SF_vars(Vacuum(c, "timer"))
    /\ SF_vars(Rename(c))
    /\ SF_vars(CommitVolume(c))

FairSpec == Spec /\ Fairness

-----------------------------------------------------------------------------
(* Properties *)

\* s is a later moment of the database than t, or the same.
Extends(s, t) == Len(t) <= Len(s) /\ \A i \in 1 .. Len(t) : s[i] = t[i]

\* One container at a time, the Volume's snapshot is a past moment of the hot
\* database, and every transaction missing from it is either in the
\* checkpoint in flight or the reason why the dirty flag is up: the next
\* checkpoint or the exit hook will not skip it (sqlite_store.py _dirty).
UnsavedIsTracked ==
  \A c \in Containers : phase[c] # "down" =>
    /\ Extends(hot[c], volume)
    /\ hot[c] = volume \/ dirty[c] \/ (stage[c] # "idle" /\ image[c] = hot[c])

\* A transaction covered by a checkpoint that returned stays in the snapshot
\* for good ("completed runs are durable as soon as their post-run.finished
\* checkpoint commits", ARCHITECTURE 4.3), whatever dies afterwards.
CheckpointedIsDurable == promised \subseteq Range(volume)

\* The store seen from outside: what the serving container holds, or what
\* the next one will restore.
IsServing(c) == phase[c] # "down"
Served ==
  IF \E c \in Containers : IsServing(c)
    THEN hot[CHOOSE c \in Containers : IsServing(c)]
    ELSE volume

Abstract == INSTANCE DurableStore WITH log <- Served, saved <- volume

\* The three-stage checkpoint, its failures, the background commits and the
\* exit hook together are one atomic Save, an Append or a Restart.
ImplementsDurableStore == Abstract!Spec

\* A transaction a running container has committed reaches the Volume unless
\* the container goes away first: no failure leaves it waiting with the
\* dirty flag down (the timer thread of start_autocheckpoint retries).
UnsavedIsEventuallySaved ==
  \A c \in Containers, w \in Writes :
    (phase[c] = "up" /\ w \in Range(hot[c]))
      ~> (phase[c] # "up" \/ w \in Range(volume))

\* sqlite_store.py:804: when the exit hook finds the flag down, everything
\* committed is already in the snapshot.  (Refuted: the flag goes down with
\* the VACUUM, two stages before the Volume has the file.)
CleanExitIsSaved ==
  [][\A c \in Containers :
       phase[c] = "up" /\ phase'[c] = "closing" => hot[c] = volume]_vars
=============================================================================
