------------------------------ MODULE MCFleet ------------------------------
(* TLC instances of Fleet.  The Dict has an order, so nothing is symmetric. *)
EXTENDS Fleet

CONSTANTS e1, e2, s1

MCTwo == {e1, e2}
MCTwoKeys == <<e1, e2>>
MCSweepers == {s1}
=============================================================================
