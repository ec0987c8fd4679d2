----------------------------- MODULE MCRunLoop -----------------------------
(***************************************************************************)
(* Fault plans for the runs of RunLoop.  Calls are numbered in the order   *)
(* in which they are made, so no symmetry is sound.                        *)
(***************************************************************************)
EXTENDS RunLoop

NoFaults == << >>
MissTwice == << [kind |-> "missing_file", hits |-> 2] >>
AckLostOnce == << [kind |-> "ack_lost", hits |-> 1] >>
=============================================================================
