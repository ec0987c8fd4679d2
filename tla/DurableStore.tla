---------------------------- MODULE DurableStore ----------------------------
(***************************************************************************)
(* What the harness's Store promises about durability (ARCHITECTURE 4.3):  *)
(* a log of committed writes, and a saved copy of some earlier moment of   *)
(* it.  Losing the container costs the writes made since that moment and   *)
(* nothing else; the saved copy never goes back in time.                   *)
(*                                                                         *)
(* StoreCheckpoint implements this module; EventLog is written against it. *)
(***************************************************************************)
EXTENDS Naturals, Sequences, Functions

CONSTANT Writes         \* the transactions clients commit

VARIABLES log,          \* committed writes, in commit order
          saved         \* the part of the log that outlives the container

vars == <<log, saved>>

Init == log = << >> /\ saved = << >>

Append1(w) ==
  /\ w \notin Range(log)
  /\ log' = Append(log, w)
  /\ UNCHANGED saved

\* A checkpoint publishes the log as it was at some moment since the last one.
Save ==
  /\ \E n \in Len(saved) .. Len(log) : saved' = SubSeq(log, 1, n)
  /\ UNCHANGED log

\* The container is replaced: the next one continues from the saved copy.
Restart ==
  /\ log' = saved
  /\ UNCHANGED saved

Next == (\E w \in Writes : Append1(w)) \/ Save \/ Restart

Spec == Init /\ [][Next]_vars

-----------------------------------------------------------------------------
TypeOK == log \in Seq(Writes) /\ saved \in Seq(Writes)

\* The saved copy is the log as it stood at some earlier moment: what a
\* restored container serves never mixes two moments.
SavedIsPrefix == Len(saved) <= Len(log) /\ saved = SubSeq(log, 1, Len(saved))
=============================================================================
