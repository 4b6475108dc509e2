------------------------------ MODULE MCPinSpi -------------------------------
(* An instance of PinSpi: the preamble and the command of the hardware,     *)
(* data words of 16 bits, and pins whose numbers look like the preamble;    *)
(* and what is assumed of the frames, for those of the hardware, less the   *)
(* first of the 24 zeros in their data (TLC's integers have 31 bits).       *)
EXTENDS PinSpi

MCPreamble == <<1, 0, 1, 0, 0, 1, 0, 1, 0, 1, 0, 1, 1, 0, 1, 0>>

Hardware == INSTANCE PinSpi WITH
    Preamble <- MCPreamble, DataBits <- 31, Pins <- 0 .. 251, Fixed <- 0 .. 2 \cup 16 .. 23

ASSUME HardwareAssumption == Hardware!NoEcho
=============================================================================
