----------------------------- MODULE RunStream -----------------------------
(***************************************************************************)
(* What a run promises whoever watches it (ARCHITECTURE 4.3 and 5): one    *)
(* event log that only grows until the run is final, and a viewer that is  *)
(* shown a prefix of it and told "finished" only when nothing is missing.  *)
(*                                                                         *)
(* EventLog implements this module while its Store stays up.               *)
(***************************************************************************)
EXTENDS Naturals, Sequences, SequencesExt

CONSTANT Events         \* the events a run may produce

VARIABLES log,          \* the run's events, in order
          final,        \* the run has a terminal status
          shown,        \* the events the viewer was given, in order
          closed        \* the viewer was told that the run is finished

vars == <<log, final, shown, closed>>

Init == log = << >> /\ final = FALSE /\ shown = << >> /\ closed = FALSE

\* A batch of events arrives; the one that finishes the run comes last.
Extend ==
  /\ ~final
  /\ log' \in Seq(Events)
  /\ IsStrictPrefix(log, log')
  /\ final' \in BOOLEAN
  /\ UNCHANGED <<shown, closed>>

\* The final status may also arrive on its own.
Finish == ~final /\ final' = TRUE /\ UNCHANGED <<log, shown, closed>>

Show ==
  /\ ~closed
  /\ shown' \in Seq(Events)
  /\ IsPrefix(shown, shown') /\ IsPrefix(shown', log)
  /\ closed' \in BOOLEAN
  /\ closed' => final /\ shown' = log
  /\ UNCHANGED <<log, final>>

Next == Extend \/ Finish \/ Show

Spec == Init /\ [][Next]_vars
=============================================================================
