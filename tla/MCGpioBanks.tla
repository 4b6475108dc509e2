---------------------------- MODULE MCGpioBanks -----------------------------
EXTENDS GpioBanks

\* One process for each program.
MCJob == [p \in Procs |-> p]
=============================================================================
