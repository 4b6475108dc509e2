----------------------------- MODULE MCCscLatch -----------------------------
EXTENDS CscLatch

\* All lights off, some, an accepted value that names a supply bit, and one
\* beyond the mask.
MCLightValues == {{}, {0, 13}, {6}, {15}}

\* A supply bit cleared, a level lowered, a bit of the second register set and
\* cleared, and a port that does not exist.
MCUpdates ==
  {[port |-> 0, value |-> {}, mask |-> {7}],
   [port |-> 0, value |-> {8}, mask |-> {13}],
   [port |-> 1, value |-> {3}, mask |-> {}],
   [port |-> 1, value |-> {}, mask |-> {3, 4}],
   [port |-> 2, value |-> {3}, mask |-> {}]}
=============================================================================
