----------------------------- MODULE GpioBanks ------------------------------
(***************************************************************************)
(* The GPIO registers of the processor, which several programs change      *)
(* through /dev/mem with nothing that keeps them apart: the boot-time      *)
(* wing_panel_init, the opening of the surface, a latch update, the flash  *)
(* read of wing-syscfg and the upload of wing_fpga_dsp_tool.               *)
(*                                                                         *)
(* All of them change a register by reading it and writing it back, so     *)
(* that one program may write what another has changed since.  And they    *)
(* share one pin: 25 of bank 3 is a select line of the latch and /HOLD of  *)
(* the flash.  A program is the sequence of its register accesses, and it  *)
(* may be killed between any two of them.  The shells are started before   *)
(* init runs wing-syscfg, so that a console can run beside it.             *)
(***************************************************************************)
EXTENDS Naturals, Sequences, FiniteSets

CONSTANTS Procs,          \* processes
          Job,            \* what each of them runs
          MaxStarts,      \* bound: processes started in one behaviour
          MaxTogether     \* bound: processes that run at the same time

Jobs == {"panel", "open", "latch", "flash", "upload"}

ASSUME ProcsAssumption == Job \in [Procs -> Jobs] /\ MaxStarts \in Nat /\ MaxTogether \in Nat

\* Data and direction registers of the banks 2, 3 and 5, as sets of pins.
Registers == {"dr2", "gdir2", "dr3", "gdir3", "dr5", "gdir5"}
Pins == 0 .. 31

CscReset  == 23           \* bank 5
CscBoot   == 20
PnlcReset == 22
PnlcBoot  == 21
PnlcPins  == {PnlcBoot, PnlcReset, 30}
CscPins   == {CscReset, CscBoot}
Creset    == 17           \* bank 2: CRESET_N of the FPGA
FlashCs   == 30
Sclk      == 16           \* bank 3
Miso      == 17
Mosi      == 18
Wp        == 19
Hold      == 25           \* also a select line of the latch
Selects   == {24, 25}

-----------------------------------------------------------------------------
(* Register accesses, and the programs as sequences of them.               *)

Access(do, r, up, down) == [do |-> do, reg |-> r, up |-> up, down |-> down]
Read(r) == Access("read", r, {}, {})
Write(r, up, down) == Access("write", r, up, down)
Device(do) == Access(do, "dr3", {}, {})

Modify(r, up, down) == <<Read(r), Write(r, up, down)>>

\* pnlc_boot_app; the script of frames comes after it.
PanelInit ==
  Modify("gdir5", PnlcPins, {}) \o Modify("dr5", {}, PnlcPins)
    \o Modify("dr5", {PnlcReset}, PnlcPins \ {PnlcReset})

\* Takes the pins of the PNLC too to their level in reset.
OpenCscWide ==
  Modify("gdir5", CscPins, {}) \o Modify("dr5", {}, CscPins \union PnlcPins)
    \o Modify("dr5", {CscReset}, {CscBoot})

\* wing_init_csc_transport
OpenCsc ==
  Modify("gdir5", CscPins, {}) \o Modify("dr5", {}, CscPins)
    \o Modify("dr5", {CscReset}, {CscBoot})

\* Leaves the shared line to the direction that a flash read gives it.
LatchInitHalf ==
  Modify("dr2", {26, 27, Creset}, {}) \o Modify("gdir2", {26, 27, Creset}, {})
    \o Modify("dr3", {}, Selects) \o Modify("gdir3", {24}, {})

\* wing_csc_latch_gpio_init
LatchInit ==
  Modify("dr2", {26, 27, Creset}, {}) \o Modify("gdir2", {26, 27, Creset}, {})
    \o Modify("dr3", {}, Selects) \o Modify("gdir3", Selects, {})

LatchSelect == Modify("dr2", {27}, {26}) \o Modify("dr3", Selects, {})
LatchDeselect == Modify("dr2", {26, 27}, {}) \o Modify("dr3", Selects, {})

\* One wing_csc_latch_update, from mmio_open to mmio_close.
LatchUpdate == LatchInit \o LatchSelect \o <<Device("exchange")>> \o LatchDeselect

\* One bit of bb_spi_xfer_byte.
FlashBit ==
  Modify("dr3", {Mosi}, {}) \o Modify("dr3", {Sclk}, {}) \o <<Device("sample")>>
    \o Modify("dr3", {}, {Sclk})

\* Leaves /HOLD as it is.
FlashPinsLoose ==
  <<Read("dr3"), Read("gdir3"),
    Write("dr3", {Wp}, {Sclk, Mosi}), Write("gdir3", {Sclk, Mosi, Wp, Hold}, {Miso})>>

FlashPins ==
  <<Read("dr3"), Read("gdir3"),
    Write("dr3", {Wp, Hold}, {Sclk, Mosi}), Write("gdir3", {Sclk, Mosi, Wp, Hold}, {Miso})>>

\* read_spi_flash_config, with one bit in place of its bytes.
FlashRead ==
  Modify("dr2", {FlashCs}, {}) \o Modify("gdir2", {FlashCs}, {}) \o FlashPins
    \o Modify("dr2", {}, {FlashCs}) \o FlashBit \o Modify("dr2", {FlashCs}, {})

\* upload_bitstream up to the reset of the FPGA.
Upload ==
  Modify("dr2", {26}, {}) \o Modify("dr2", {27}, {})
    \o Modify("dr3", {24}, {}) \o Modify("dr3", {25}, {})
    \o Modify("dr2", {}, {Creset}) \o Modify("dr2", {Creset}, {})

Program ==
  [panel |-> PanelInit, open |-> OpenCsc, latch |-> LatchUpdate,
   flash |-> FlashRead, upload |-> Upload]

-----------------------------------------------------------------------------
VARIABLES reg,            \* the registers
          pc,             \* number of the next access of a process; 0: none
          seen,           \* what a process read last from each register
          starts,         \* how many have been started
          pnlc, csc,      \* what the panels run: "off", "loader" or "app"
          clocks,         \* clock edges the flash has taken since it was selected
          fpga,           \* whether an upload has reset the FPGA
          torn,           \* processes since whose start something was undone
          met             \* jobs of others since a process was started

vars == <<reg, pc, seen, starts, pnlc, csc, clocks, fpga, torn, met>>
devices == <<pnlc, csc, clocks, fpga>>

Steps(p) == Program[Job[p]]
Running == {p \in Procs : pc[p] > 0}
At(p, do) == pc[p] \in DOMAIN Steps(p) /\ Steps(p)[pc[p]].do = do
Done(p) == pc[p] = Len(Steps(p)) + 1

Chip == {"off", "loader", "app"}

TypeOK ==
  /\ reg \in [Registers -> SUBSET Pins]
  /\ pc \in [Procs -> Nat] /\ \A p \in Procs : pc[p] <= Len(Steps(p)) + 1
  /\ seen \in [Procs -> [Registers -> SUBSET Pins]]
  /\ starts \in 0 .. MaxStarts
  /\ pnlc \in Chip /\ csc \in Chip
  /\ clocks \in Nat /\ fpga \in {"old", "held", "blank"}
  /\ torn \subseteq Procs /\ met \in [Procs -> SUBSET Jobs]

Nothing == [r \in Registers |-> {}]

Init ==
  /\ reg = Nothing
  /\ pc = [p \in Procs |-> 0] /\ seen = [p \in Procs |-> Nothing]
  /\ starts = 0
  /\ pnlc = "off" /\ csc = "off" /\ clocks = 0 /\ fpga = "old"
  /\ torn = {} /\ met = [p \in Procs |-> {}]

Start(p) ==
  /\ pc[p] = 0 /\ starts < MaxStarts /\ Cardinality(Running) < MaxTogether
  /\ pc' = [pc EXCEPT ![p] = 1]
  /\ starts' = starts + 1
  /\ torn' = torn \ {p}
  /\ met' = [q \in Procs |->
               IF q = p THEN {Job[o] : o \in Running}
               ELSE IF q \in Running THEN met[q] \union {Job[p]} ELSE {}]
  /\ UNCHANGED <<reg, seen, devices>>

\* It ends, or it is killed; right after a read is as good as before it.
Stop(p) ==
  /\ pc[p] > 0 /\ (pc[p] > 1 => Steps(p)[pc[p] - 1].do # "read")
  /\ pc' = [pc EXCEPT ![p] = 0]
  /\ seen' = [seen EXCEPT ![p] = Nothing]
  /\ torn' = torn \ {p}
  /\ met' = [met EXCEPT ![p] = {}]
  /\ UNCHANGED <<reg, starts, devices>>

ReadRegister(p) ==
  /\ At(p, "read")
  /\ LET r == Steps(p)[pc[p]].reg IN seen' = [seen EXCEPT ![p][r] = reg[r]]
  /\ pc' = [pc EXCEPT ![p] = @ + 1]
  /\ UNCHANGED <<reg, starts, devices, torn, met>>

\* A panel's processor after a change of its two lines: it starts when its
\* reset line rises, with the boot line as it is then.
ChipAfter(chip, was, is, reset, boot) ==
  IF reset \notin is.gdir5 THEN chip
  ELSE IF reset \notin is.dr5 THEN "off"
  ELSE IF reset \in was.dr5 /\ reset \in was.gdir5 THEN chip
  ELSE IF boot \in is.dr5 /\ boot \in is.gdir5 THEN "loader"
  ELSE "app"

High(banks, dr, pin) == pin \in banks[dr]

\* Clock edges count while the flash is selected and not on hold.
ClocksAfter(was, is) ==
  IF High(is, "dr2", FlashCs) THEN 0
  ELSE IF /\ ~High(was, "dr3", Sclk) /\ High(is, "dr3", Sclk)
          /\ Sclk \in is.gdir3 /\ (High(is, "dr3", Hold) \/ Hold \notin is.gdir3)
         THEN clocks + 1
  ELSE clocks

FpgaAfter(is) ==
  IF Creset \notin is.gdir2 THEN fpga
  ELSE IF ~High(is, "dr2", Creset) THEN "held"
  ELSE IF fpga = "held" THEN "blank"
  ELSE fpga

\* A write puts back what was read, with the pins of the program changed;
\* what others have changed since is undone.
WriteRegister(p) ==
  LET op == Steps(p)[pc[p]]
      r  == op.reg
      is == [reg EXCEPT ![r] = (seen[p][r] \union op.up) \ op.down]
  IN  /\ At(p, "write")
      /\ reg' = is
      /\ seen' = [seen EXCEPT ![p][r] = {}]
      /\ pc' = [pc EXCEPT ![p] = @ + 1]
      /\ torn' = IF seen[p][r] # reg[r] THEN Running ELSE torn
      /\ pnlc' = ChipAfter(pnlc, reg, is, PnlcReset, PnlcBoot)
      /\ csc' = ChipAfter(csc, reg, is, CscReset, CscBoot)
      /\ clocks' = ClocksAfter(reg, is)
      /\ fpga' = FpgaAfter(is)
      /\ UNCHANGED <<starts, met>>

\* The transfer to the latch, and the sample of a bit of the flash.
UseDevice(p) ==
  /\ At(p, "exchange") \/ At(p, "sample")
  /\ pc' = [pc EXCEPT ![p] = @ + 1]
  /\ UNCHANGED <<reg, seen, starts, devices, torn, met>>

Next ==
  \E p \in Procs :
    \/ Start(p) \/ Stop(p)
    \/ ReadRegister(p) \/ WriteRegister(p) \/ UseDevice(p)

Spec == Init /\ [][Next]_vars

-----------------------------------------------------------------------------
\* No write since p was started undid another.
Whole(p) == p \in Running /\ p \notin torn
Met(p, jobs) == met[p] \intersect jobs # {}

(* When the boot-time init, an opening of the surface or an upload is      *)
(* through and no write undid another meanwhile, the PNLC runs its         *)
(* application, the CSC runs its own, and the FPGA has been reset: from    *)
(* any state that killed programs leave the registers in, with others at   *)
(* work on the same banks.  An upload needs the direction of CRESET that   *)
(* only a latch update sets.                                               *)
ResetsWork ==
  \A p \in Procs : Done(p) /\ Whole(p) /\ ~Met(p, {Job[p]}) =>
    CASE Job[p] = "panel" -> pnlc = "app"
      [] Job[p] = "open" -> csc = "app"
      [] Job[p] = "upload" -> Creset \in reg.gdir2 /\ ~Met(p, {"latch"}) => fpga = "blank"
      [] OTHER -> TRUE

(* A word for the latch is clocked out with the latch, and nothing else,   *)
(* selected, whatever a flash read does to the line that they share.       *)
LatchIsAddressed ==
  \A p \in Procs : At(p, "exchange") /\ Whole(p) /\ ~Met(p, {"latch", "upload"}) =>
    /\ 26 \notin reg.dr2 /\ 27 \in reg.dr2 /\ Selects \subseteq reg.dr3
    /\ {26, 27} \subseteq reg.gdir2 /\ Selects \subseteq reg.gdir3

(* The flash takes every clock edge of a read, so that a bit that is       *)
(* sampled is the one the program counts: as long as no latch update, whose*)
(* first accesses put the flash on hold, and no second read runs beside it.*)
FlashKeepsCount ==
  \A p \in Procs : At(p, "sample") /\ Whole(p) /\ ~Met(p, {"latch", "flash"}) =>
    clocks = Cardinality({k \in 1 .. pc[p] : Steps(p)[k].do = "sample"})
=============================================================================
