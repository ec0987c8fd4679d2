----------------------- MODULE StoreCheckpointProofs -----------------------
(***************************************************************************)
(* With one Store container at a time, the checkpoint protocol of          *)
(* sqlite_store.py keeps every committed transaction tracked and every     *)
(* checkpointed one durable, for any set of transactions and containers,   *)
(* and implements DurableStore.                                            *)
(***************************************************************************)
EXTENDS StoreCheckpoint, TLAPS

(***************************************************************************)
(* The strengthening.  UnsavedIsTracked alone is not inductive: a commit   *)
(* publishes the mount, so the order volume, mount, image, hot must be     *)
(* known at every stage, and only one container may be alive.              *)
(***************************************************************************)
OnlyOne == \A c, d \in Containers : phase[c] # "down" /\ phase[d] # "down" => c = d

DownIsEmpty ==
  \A c \in Containers : phase[c] = "down" => stage[c] = "idle" /\ ~unsynced[c]

Ordered(c) ==
  /\ Extends(mount[c], volume)
  /\ Extends(hot[c], mount[c])
  /\ stage[c] # "idle" => Extends(hot[c], image[c]) /\ Extends(image[c], mount[c])
  /\ stage[c] = "renamed" => mount[c] = image[c]

Tracked(c) ==
  hot[c] = volume \/ dirty[c] \/ (stage[c] # "idle" /\ image[c] = hot[c])

IInv ==
  /\ TypeOK
  /\ OnlyOne
  /\ DownIsEmpty
  /\ \A c \in Containers : phase[c] # "down" => Ordered(c) /\ Tracked(c)
  /\ CheckpointedIsDurable

-----------------------------------------------------------------------------
(* Extends is a partial order on sequences, and appending extends. *)

LEMMA ExtendsRefl == ASSUME NEW s \in Seq(Writes) PROVE Extends(s, s)
  BY DEF Extends

LEMMA ExtendsTrans ==
  ASSUME NEW s \in Seq(Writes), NEW t \in Seq(Writes), NEW u \in Seq(Writes),
         Extends(s, t), Extends(t, u)
  PROVE  Extends(s, u)
  BY DEF Extends

LEMMA ExtendsAntisym ==
  ASSUME NEW s \in Seq(Writes), NEW t \in Seq(Writes), Extends(s, t), Extends(t, s)
  PROVE  s = t
  BY DEF Extends

LEMMA ExtendsAppend ==
  ASSUME NEW s \in Seq(Writes), NEW t \in Seq(Writes), NEW w \in Writes, Extends(s, t)
  PROVE  /\ Append(s, w) \in Seq(Writes)
         /\ Extends(Append(s, w), t)
  BY DEF Extends

\* What a database contains, every later moment of it contains.
LEMMA ExtendsRange ==
  ASSUME NEW s \in Seq(Writes), NEW t \in Seq(Writes), Extends(s, t)
  PROVE  Range(t) \subseteq Range(s)
  BY DEF Extends, Range

-----------------------------------------------------------------------------
LEMMA InitInv == Init => IInv
<1> SUFFICES ASSUME Init PROVE IInv
  OBVIOUS
<1>1. << >> \in Seq(Writes)
  OBVIOUS
<1>2. TypeOK
  BY <1>1 DEF Init, TypeOK, Callers
<1> QED
  BY <1>2 DEF Init, IInv, OnlyOne, DownIsEmpty, CheckpointedIsDurable

\* Every action but Open touches one container that is alive; the others are
\* down, so what is said of them is said of nothing.
LEMMA StepInv ==
  ASSUME ~Overlap, IInv, NEW c \in Containers, Step(c)
  PROVE  IInv'
<1> USE DEF IInv
<1>0. TypeOK /\ OnlyOne /\ DownIsEmpty /\ CheckpointedIsDurable
  OBVIOUS
<1>1. CASE Open(c)
  <2>1. TypeOK'
    BY <1>1 DEF Open, TypeOK
  <2>2. OnlyOne' /\ DownIsEmpty'
    BY <1>1 DEF Open, TypeOK, OnlyOne, DownIsEmpty
  <2>3. Extends(volume, volume)
    BY ExtendsRefl DEF TypeOK
  <2>4. ASSUME NEW d \in Containers, phase'[d] # "down"
        PROVE  Ordered(d)' /\ Tracked(d)'
    <3>1. d = c /\ stage[c] = "idle"
      BY <1>1, <2>4 DEF Open, TypeOK, DownIsEmpty
    <3>2. hot'[c] = volume /\ mount'[c] = volume /\ volume' = volume /\ stage' = stage
      BY <1>1 DEF Open, TypeOK
    <3> QED
      BY <3>1, <3>2, <2>3 DEF Ordered, Tracked
  <2>5. CheckpointedIsDurable'
    BY <1>1 DEF Open, CheckpointedIsDurable
  <2> QED
    BY <2>1, <2>2, <2>4, <2>5
<1>2. ASSUME NEW w \in Writes, Commit1(c, w)
      PROVE  IInv'
  <2>1. TypeOK'
    BY <1>2, ExtendsAppend, ExtendsRefl DEF Commit1, TypeOK
  <2>2. OnlyOne' /\ DownIsEmpty'
    BY <1>2 DEF Commit1, OnlyOne, DownIsEmpty
  <2>3. ASSUME NEW d \in Containers, phase'[d] # "down"
        PROVE  Ordered(d)' /\ Tracked(d)'
    <3>1. d = c
      BY <1>2, <2>3 DEF Commit1, OnlyOne
    <3>2. hot'[c] = Append(hot[c], w) /\ dirty'[c]
      BY <1>2 DEF Commit1, TypeOK
    <3>3. Ordered(c)
      BY <1>2 DEF Commit1
    <3>4. Extends(hot'[c], mount[c])
      BY <3>2, <3>3, ExtendsAppend DEF Ordered, TypeOK
    <3>5. stage[c] # "idle" => Extends(hot'[c], image[c])
      BY <3>2, <3>3, ExtendsAppend DEF Ordered, TypeOK
    <3> QED
      BY <1>2, <3>1, <3>2, <3>3, <3>4, <3>5 DEF Commit1, Ordered, Tracked
  <2>4. CheckpointedIsDurable'
    BY <1>2 DEF Commit1, CheckpointedIsDurable
  <2> QED
    BY <2>1, <2>2, <2>3, <2>4
<1>3. CASE phase[c] # "down" /\ Gone(c)
  <2>1. TypeOK'
    BY <1>3 DEF Gone, TypeOK
  <2>2. OnlyOne' /\ DownIsEmpty'
    BY <1>3 DEF Gone, TypeOK, OnlyOne, DownIsEmpty
  <2>3. \A d \in Containers : phase'[d] = "down"
    BY <1>3 DEF Gone, TypeOK, OnlyOne
  <2>4. CheckpointedIsDurable'
    BY <1>3 DEF Gone, CheckpointedIsDurable
  <2> QED
    BY <2>1, <2>2, <2>3, <2>4
<1>4. CASE ExitHook(c)
  <2>1. TypeOK'
    BY <1>4 DEF ExitHook, TypeOK
  <2>2. OnlyOne' /\ DownIsEmpty'
    BY <1>4 DEF ExitHook, TypeOK, OnlyOne, DownIsEmpty
  <2>3. ASSUME NEW d \in Containers, phase'[d] # "down"
        PROVE  Ordered(d)' /\ Tracked(d)'
    BY <1>4, <2>3 DEF ExitHook, TypeOK, Ordered, Tracked
  <2>4. CheckpointedIsDurable'
    BY <1>4 DEF ExitHook, CheckpointedIsDurable
  <2> QED
    BY <2>1, <2>2, <2>3, <2>4
<1>5. ASSUME NEW who \in Callers, Vacuum(c, who)
      PROVE  IInv'
  <2>0. phase[c] # "down"
    BY <1>5 DEF Vacuum, MayCheckpoint, Callers
  <2>1. TypeOK'
    BY <1>5 DEF Vacuum, TypeOK
  <2>2. OnlyOne' /\ DownIsEmpty'
    BY <1>5, <2>0 DEF Vacuum, TypeOK, OnlyOne, DownIsEmpty
  <2>3. ASSUME NEW d \in Containers, phase'[d] # "down"
        PROVE  Ordered(d)' /\ Tracked(d)'
    <3>1. d = c
      BY <1>5, <2>0, <2>3 DEF Vacuum, OnlyOne
    <3>2. Extends(hot[c], hot[c])
      BY ExtendsRefl DEF TypeOK
    <3>3. stage'[c] = "vacuumed" /\ image'[c] = hot[c]
      BY <1>5 DEF Vacuum, TypeOK
    <3> QED
      BY <1>5, <2>0, <3>1, <3>2, <3>3 DEF Vacuum, Ordered, Tracked
  <2>4. CheckpointedIsDurable'
    BY <1>5 DEF Vacuum, CheckpointedIsDurable
  <2> QED
    BY <2>1, <2>2, <2>3, <2>4
<1>6. CASE Rename(c)
  <2>0. phase[c] # "down"
    BY <1>6 DEF Rename, DownIsEmpty
  <2>1. TypeOK'
    BY <1>6 DEF Rename, TypeOK
  <2>2. OnlyOne' /\ DownIsEmpty'
    BY <1>6, <2>0 DEF Rename, TypeOK, OnlyOne, DownIsEmpty
  <2>3. ASSUME NEW d \in Containers, phase'[d] # "down"
        PROVE  Ordered(d)' /\ Tracked(d)'
    <3>1. d = c
      BY <1>6, <2>0, <2>3 DEF Rename, OnlyOne
    <3>2. Ordered(c) /\ Tracked(c)
      BY <2>0
    <3>3. mount'[c] = image[c] /\ stage'[c] = "renamed" /\ stage[c] # "idle"
      BY <1>6 DEF Rename, TypeOK
    <3>4. Extends(image[c], volume) /\ Extends(image[c], image[c])
      BY <3>2, <3>3, ExtendsTrans, ExtendsRefl DEF Ordered, TypeOK
    <3> QED
      BY <1>6, <3>1, <3>2, <3>3, <3>4 DEF Rename, Ordered, Tracked
  <2>4. CheckpointedIsDurable'
    BY <1>6 DEF Rename, CheckpointedIsDurable
  <2> QED
    BY <2>1, <2>2, <2>3, <2>4
<1>7. CASE CommitVolume(c)
  <2>0. phase[c] # "down" /\ stage[c] = "renamed" /\ Ordered(c) /\ Tracked(c)
    BY <1>7 DEF CommitVolume, DownIsEmpty
  <2>1. TypeOK'
    <3>1. promised' \in SUBSET Writes
      BY <1>7 DEF CommitVolume, TypeOK, Range
    <3> QED
      BY <1>7, <3>1 DEF CommitVolume, Release, TypeOK
  <2>2. OnlyOne' /\ DownIsEmpty'
    BY <1>7, <2>0 DEF CommitVolume, Release, TypeOK, OnlyOne, DownIsEmpty
  <2>3. ASSUME NEW d \in Containers, phase'[d] # "down"
        PROVE  Ordered(d)' /\ Tracked(d)'
    <3>1. d = c
      BY <1>7, <2>0, <2>3 DEF CommitVolume, Release, TypeOK, OnlyOne
    <3>2. /\ volume' = mount[c] /\ mount' = mount /\ hot' = hot /\ dirty' = dirty
          /\ stage'[c] = "idle"
      BY <1>7 DEF CommitVolume, Release, TypeOK
    <3>3. Extends(mount[c], mount[c])
      BY ExtendsRefl DEF TypeOK
    <3>4. dirty[c] \/ hot[c] = mount[c]
      <4>1. CASE hot[c] = volume
        BY <2>0, <4>1, ExtendsAntisym DEF Ordered, TypeOK
      <4> QED
        BY <2>0, <4>1 DEF Ordered, Tracked
    <3> QED
      BY <2>0, <3>1, <3>2, <3>3, <3>4 DEF Ordered, Tracked
  <2>4. CheckpointedIsDurable'
    <3>1. Range(volume) \subseteq Range(mount[c])
      BY <2>0, ExtendsRange DEF Ordered, TypeOK
    <3> QED
      BY <1>7, <2>0, <3>1 DEF CommitVolume, CheckpointedIsDurable, Ordered
  <2> QED
    BY <2>1, <2>2, <2>3, <2>4
<1>8. ASSUME NEW who \in Callers, VacuumFails(c, who)
      PROVE  IInv'
  <2>0. phase[c] # "down"
    BY <1>8 DEF VacuumFails, MayCheckpoint, Callers
  <2>1. TypeOK'
    BY <1>8 DEF VacuumFails, Release, TypeOK
  <2>2. OnlyOne' /\ DownIsEmpty'
    BY <1>8, <2>0 DEF VacuumFails, Release, TypeOK, OnlyOne, DownIsEmpty
  <2>3. ASSUME NEW d \in Containers, phase'[d] # "down"
        PROVE  Ordered(d)' /\ Tracked(d)'
    <3>1. d = c
      BY <1>8, <2>0, <2>3 DEF VacuumFails, Release, TypeOK, OnlyOne
    <3>2. stage'[c] = "idle" /\ dirty'[c]
      BY <1>8 DEF VacuumFails, Release, TypeOK
    <3> QED
      BY <1>8, <2>0, <3>1, <3>2 DEF VacuumFails, Ordered, Tracked
  <2>4. CheckpointedIsDurable'
    BY <1>8 DEF VacuumFails, CheckpointedIsDurable
  <2> QED
    BY <2>1, <2>2, <2>3, <2>4
<1>10. CASE PublishFails(c)
  <2>0. phase[c] # "down"
    BY <1>10 DEF PublishFails, DownIsEmpty
  <2>1. TypeOK'
    BY <1>10 DEF PublishFails, Release, TypeOK
  <2>2. OnlyOne' /\ DownIsEmpty'
    BY <1>10, <2>0 DEF PublishFails, Release, TypeOK, OnlyOne, DownIsEmpty
  <2>3. ASSUME NEW d \in Containers, phase'[d] # "down"
        PROVE  Ordered(d)' /\ Tracked(d)'
    <3>1. d = c
      BY <1>10, <2>0, <2>3 DEF PublishFails, Release, TypeOK, OnlyOne
    <3>2. stage'[c] = "idle" /\ dirty'[c]
      BY <1>10 DEF PublishFails, Release, TypeOK
    <3> QED
      BY <1>10, <2>0, <3>1, <3>2 DEF PublishFails, Ordered, Tracked
  <2>4. CheckpointedIsDurable'
    BY <1>10 DEF PublishFails, CheckpointedIsDurable
  <2> QED
    BY <2>1, <2>2, <2>3, <2>4
<1>9. CASE BackgroundCommit(c)
  <2>0. phase[c] # "down" /\ Ordered(c) /\ Tracked(c)
    BY <1>9 DEF BackgroundCommit, DownIsEmpty
  <2>1. TypeOK'
    BY <1>9 DEF BackgroundCommit, TypeOK
  <2>2. OnlyOne' /\ DownIsEmpty'
    BY <1>9 DEF BackgroundCommit, TypeOK, OnlyOne, DownIsEmpty
  <2>3. ASSUME NEW d \in Containers, phase'[d] # "down"
        PROVE  Ordered(d)' /\ Tracked(d)'
    <3>1. d = c
      BY <1>9, <2>0, <2>3 DEF BackgroundCommit, OnlyOne
    <3>2. Extends(mount[c], mount[c])
      BY ExtendsRefl DEF TypeOK
    <3>3. hot[c] = volume => hot[c] = mount[c]
      BY <2>0, ExtendsAntisym DEF Ordered, TypeOK
    <3> QED
      BY <1>9, <2>0, <3>1, <3>2, <3>3 DEF BackgroundCommit, Ordered, Tracked
  <2>4. CheckpointedIsDurable'
    <3>1. Range(volume) \subseteq Range(mount[c])
      BY <2>0, ExtendsRange DEF Ordered, TypeOK
    <3> QED
      BY <1>9, <3>1 DEF BackgroundCommit, CheckpointedIsDurable
  <2> QED
    BY <2>1, <2>2, <2>3, <2>4
<1> QED
  BY <1>1, <1>2, <1>3, <1>4, <1>5, <1>6, <1>7, <1>8, <1>9, <1>10 DEF Step, Kill, Close

LEMMA StutterInv == IInv /\ UNCHANGED vars => IInv'
  BY DEF IInv, vars, TypeOK, OnlyOne, DownIsEmpty, Ordered, Tracked, CheckpointedIsDurable

LEMMA Invariance == ASSUME ~Overlap PROVE Spec => []IInv
<1>1. Init => IInv
  BY InitInv
<1>2. IInv /\ [Next]_vars => IInv'
  BY StepInv, StutterInv DEF Next
<1> QED
  BY <1>1, <1>2, PTL DEF Spec

-----------------------------------------------------------------------------
\* Every reachable state of the checkpoint protocol is well typed.
THEOREM CheckpointTypes == ASSUME ~Overlap PROVE Spec => []TypeOK
  BY Invariance, PTL DEF IInv

\* Under a single container, no committed transaction is ever both missing
\* from the Volume and forgotten by the dirty flag (SqliteStore.checkpoint).
THEOREM UnsavedStaysTracked == ASSUME ~Overlap PROVE Spec => []UnsavedIsTracked
<1>1. IInv => UnsavedIsTracked
  BY ExtendsTrans DEF IInv, UnsavedIsTracked, Ordered, Tracked, TypeOK
<1> QED
  BY <1>1, Invariance, PTL

\* Under a single container, what a returned checkpoint covered stays in the
\* Volume's snapshot whatever fails or dies later.
THEOREM CheckpointedStaysDurable == ASSUME ~Overlap PROVE Spec => []CheckpointedIsDurable
  BY Invariance, PTL DEF IInv

-----------------------------------------------------------------------------
(* Refinement: every step is an Append, a Save, a Restart or a stutter.     *)

LEMMA ExtendsSubSeq ==
  ASSUME NEW s \in Seq(Writes), NEW t \in Seq(Writes), Extends(s, t)
  PROVE  t = SubSeq(s, 1, Len(t))
  BY DEF Extends

LEMMA ServedByTheLiveOne ==
  ASSUME IInv, NEW c \in Containers, phase[c] # "down"
  PROVE  Served = hot[c]
<1>1. \A d \in Containers : IsServing(d) => d = c
  BY DEF IInv, OnlyOne, IsServing
<1>2. IsServing(c)
  BY DEF IsServing
<1>3. (CHOOSE d \in Containers : IsServing(d)) = c
  BY <1>1, <1>2
<1> QED
  BY <1>2, <1>3 DEF Served

LEMMA ServedByTheVolume ==
  ASSUME \A d \in Containers : phase[d] = "down"
  PROVE  Served = volume
  BY DEF Served, IsServing

\* ServedByTheLiveOne in the next state.
LEMMA ServedNext ==
  ASSUME IInv', NEW c \in Containers, phase'[c] # "down"
  PROVE  Served' = hot'[c]
<1>1. \A d \in Containers : IsServing(d)' => d = c
  BY DEF IInv, OnlyOne, IsServing
<1>2. IsServing(c)'
  BY DEF IsServing
<1>3. (CHOOSE d \in Containers : IsServing(d)') = c
  BY <1>1, <1>2
<1> QED
  BY <1>2, <1>3 DEF Served

LEMMA StepRefines ==
  ASSUME ~Overlap, IInv, IInv', NEW c \in Containers, Step(c)
  PROVE  Abstract!Next \/ UNCHANGED Abstract!vars
<1>1. CASE Open(c)
  <2>1. Served = volume
    BY <1>1, ServedByTheVolume DEF Open
  <2>2. phase'[c] = "up" /\ hot'[c] = volume /\ volume' = volume
    BY <1>1 DEF Open, IInv, TypeOK
  <2> QED
    BY <2>1, <2>2, ServedNext DEF Abstract!vars
<1>2. ASSUME NEW w \in Writes, Commit1(c, w)
      PROVE  Abstract!Append1(w)
  <2>1. phase[c] = "up" /\ phase'[c] = "up"
    BY <1>2 DEF Commit1
  <2>2. Served = hot[c] /\ Served' = hot'[c]
    BY <2>1, ServedByTheLiveOne, ServedNext
  <2> QED
    BY <1>2, <2>2 DEF Commit1, Abstract!Append1, IInv, TypeOK, Range, Abstract!Range
<1>3. CASE phase[c] # "down" /\ Gone(c)
  <2>1. \A d \in Containers : phase'[d] = "down"
    BY <1>3 DEF Gone, IInv, TypeOK, OnlyOne
  <2>2. Served' = volume'
    BY <2>1 DEF Served, IsServing
  <2> QED
    BY <1>3, <2>2 DEF Gone, Abstract!Next, Abstract!Restart
<1>4. ASSUME phase[c] # "down", phase'[c] # "down", hot' = hot, volume' = volume
      PROVE  UNCHANGED Abstract!vars
  BY <1>4, ServedByTheLiveOne, ServedNext DEF Abstract!vars
<1>5. ASSUME phase[c] # "down", phase'[c] # "down", hot' = hot, volume' = mount[c]
      PROVE  Abstract!Save
  <2>1. Served = hot[c] /\ Served' = hot[c]
    BY <1>5, ServedByTheLiveOne, ServedNext
  <2>2. Extends(hot[c], mount[c]) /\ Extends(mount[c], volume)
    BY <1>5 DEF IInv, Ordered
  <2>3. mount[c] = SubSeq(hot[c], 1, Len(mount[c]))
    BY <2>2, ExtendsSubSeq DEF IInv, TypeOK
  <2>4. Len(mount[c]) \in Len(volume) .. Len(hot[c])
    BY <2>2 DEF Extends, IInv, TypeOK
  <2> QED
    BY <1>5, <2>1, <2>3, <2>4 DEF Abstract!Save
<1>6. CASE ExitHook(c)
  BY <1>4, <1>6 DEF ExitHook, IInv, TypeOK
<1>7. ASSUME NEW who \in Callers, Vacuum(c, who) \/ VacuumFails(c, who)
      PROVE  UNCHANGED Abstract!vars
  <2>1. phase[c] # "down"
    BY <1>7 DEF Vacuum, VacuumFails, MayCheckpoint, Callers
  <2> QED
    BY <1>4, <1>7, <2>1 DEF Vacuum, VacuumFails, IInv, TypeOK
<1>8. CASE Rename(c) \/ PublishFails(c)
  <2>1. phase[c] # "down"
    BY <1>8 DEF Rename, PublishFails, IInv, DownIsEmpty
  <2> QED
    BY <1>4, <1>8, <2>1 DEF Rename, PublishFails, Release, IInv, TypeOK
<1>9. CASE CommitVolume(c) \/ BackgroundCommit(c)
  <2>1. phase[c] # "down" /\ phase'[c] # "down" /\ hot' = hot /\ volume' = mount[c]
    BY <1>9 DEF CommitVolume, BackgroundCommit, Release, IInv, TypeOK, DownIsEmpty
  <2> QED
    BY <1>5, <2>1 DEF Abstract!Next
<1> QED
  BY <1>1, <1>2, <1>3, <1>6, <1>7, <1>8, <1>9 DEF Step, Kill, Close, Abstract!Next

\* Under a single container, the three-stage checkpoint implements the
\* atomic one: appends, saves of a past moment, and restarts from it.
THEOREM CheckpointImplementsDurableStore ==
  ASSUME ~Overlap PROVE Spec => ImplementsDurableStore
<1>1. Init => Abstract!Init
  BY DEF Init, Served, IsServing, Abstract!Init
<1>2. IInv /\ IInv' /\ [Next]_vars => [Abstract!Next]_(Abstract!vars)
  <2>1. ASSUME IInv, IInv', Next PROVE Abstract!Next \/ UNCHANGED Abstract!vars
    BY <2>1, StepRefines DEF Next
  <2>2. ASSUME UNCHANGED vars PROVE UNCHANGED Abstract!vars
    BY <2>2 DEF vars, Abstract!vars, Served, IsServing
  <2> QED
    BY <2>1, <2>2
<1> QED
  BY <1>1, <1>2, Invariance, PTL DEF Spec, Abstract!Spec, ImplementsDurableStore
=============================================================================
