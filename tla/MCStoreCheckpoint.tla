------------------------- MODULE MCStoreCheckpoint -------------------------
(* TLC instances of StoreCheckpoint. *)
EXTENDS StoreCheckpoint

CONSTANTS c1, c2, w1, w2, w3

MCContainers == {c1, c2}
MCWrites == {w1, w2, w3}
MCTwoWrites == {w1, w2}
=============================================================================
