---------------------------- MODULE MCPldcNames -----------------------------
(* Up to two controls touched at once, and turns at the limits of each    *)
(* state bit and of what is decoded, to the left and to the right.          *)
EXTENDS PldcNames

MCTurns == {-128, -98, -97, -64, -33, -1, 1, 2, 3}
=============================================================================
