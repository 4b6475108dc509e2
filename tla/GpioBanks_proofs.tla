-------------------------- MODULE GpioBanks_proofs --------------------------
(***************************************************************************)
(* The programs that share the GPIO banks, for any number of processes and *)
(* any jobs: proofs about module GpioBanks.  A program can rely on a pin   *)
(* from the access that sets it to the one that changes it, as long as no  *)
(* write undoes another and no program that uses the pin runs beside it.   *)
(***************************************************************************)
EXTENDS GpioBanks, FiniteSetTheorems, TLAPS

\* What runs beside a process was started before it or after it.
Bystanders == \A p, q \in Running : p # q => Job[q] \in met[p]

\* What each program has reached when it is about to make access pc[p].
PanelAt(p) ==
  /\ pc[p] >= 3 => PnlcReset \in reg["gdir5"]
  /\ pc[p] \in 5 .. 6 =>
       PnlcReset \notin reg["dr5"] /\ PnlcBoot \notin reg["dr5"] /\ pnlc = "off"
  /\ pc[p] = 7 => PnlcReset \in reg["dr5"] /\ pnlc = "app"

OpenAt(p) ==
  /\ pc[p] >= 3 => CscReset \in reg["gdir5"]
  /\ pc[p] \in 5 .. 6 =>
       CscReset \notin reg["dr5"] /\ CscBoot \notin reg["dr5"] /\ csc = "off"
  /\ pc[p] = 7 => CscReset \in reg["dr5"] /\ csc = "app"

LatchAt(p) ==
  /\ pc[p] \in 5 .. 13 => 26 \in reg["gdir2"] /\ 27 \in reg["gdir2"]
  /\ pc[p] \in 9 .. 13 => 24 \in reg["gdir3"] /\ 25 \in reg["gdir3"]
  /\ pc[p] \in 11 .. 13 => 26 \notin reg["dr2"] /\ 27 \in reg["dr2"]
  /\ pc[p] = 13 => 24 \in reg["dr3"] /\ 25 \in reg["dr3"]

FlashAt(p) ==
  /\ pc[p] \in 3 .. 10 => FlashCs \in reg["dr2"]
  /\ pc[p] \in 3 .. 14 => clocks = 0
  /\ pc[p] \in 8 .. 14 => Sclk \notin reg["dr3"] /\ Hold \in reg["dr3"]
  /\ pc[p] \in 9 .. 14 => Sclk \in reg["gdir3"]
  /\ pc[p] \in 11 .. 15 => FlashCs \notin reg["dr2"]
  /\ pc[p] = 15 => clocks = 1 /\ Sclk \in reg["dr3"]

UploadAt(p) ==
  /\ pc[p] \in 11 .. 12 =>
       Creset \notin reg["dr2"] /\ (Creset \in reg["gdir2"] => fpga = "held")
  /\ pc[p] = 13 =>
       Creset \in reg["dr2"] /\ (Creset \in reg["gdir2"] => fpga = "blank")

\* The jobs whose pins a program needs for itself.
Rivals(job) ==
  CASE job = "panel" -> {"panel"}
    [] job = "open" -> {"open"}
    [] job = "latch" -> {"latch", "upload"}
    [] job = "flash" -> {"latch", "flash"}
    [] job = "upload" -> {"latch", "upload"}

Reached(p) ==
  CASE Job[p] = "panel" -> PanelAt(p)
    [] Job[p] = "open" -> OpenAt(p)
    [] Job[p] = "latch" -> LatchAt(p)
    [] Job[p] = "flash" -> FlashAt(p)
    [] Job[p] = "upload" -> UploadAt(p)

Alone(p) == Whole(p) /\ ~Met(p, Rivals(Job[p]))

IInv == TypeOK /\ Bystanders /\ \A p \in Procs : Alone(p) => Reached(p)

-----------------------------------------------------------------------------
(* The programs, access by access.                                         *)

Accesses == [do : {"read", "write", "exchange", "sample"}, reg : Registers,
             up : SUBSET Pins, down : SUBSET Pins]

LEMMA AccessFields ==
  ASSUME NEW r \in Registers, NEW up \in SUBSET Pins, NEW down \in SUBSET Pins
  PROVE  /\ Read(r) \in Accesses /\ Read(r).do = "read" /\ Read(r).reg = r
         /\ Write(r, up, down) \in Accesses /\ Write(r, up, down).do = "write"
         /\ Write(r, up, down).reg = r
         /\ Write(r, up, down).up = up /\ Write(r, up, down).down = down
BY DEF Read, Write, Access, Accesses

LEMMA DeviceFields ==
  /\ Device("exchange") \in Accesses /\ Device("exchange").do = "exchange"
  /\ Device("sample") \in Accesses /\ Device("sample").do = "sample"
BY DEF Device, Access, Accesses, Registers

LEMMA WriteFields ==
  \A r, up, down : /\ Write(r, up, down).do = "write" /\ Write(r, up, down).reg = r
                    /\ Write(r, up, down).up = up /\ Write(r, up, down).down = down
BY DEF Write, Access

LEMMA OtherFields ==
  /\ \A r : Read(r).do = "read" /\ Read(r).reg = r
  /\ Device("exchange").do = "exchange" /\ Device("sample").do = "sample"
BY DEF Read, Device, Access

LEMMA PanelSteps ==
  LET s == Program["panel"] IN
  /\ s \in Seq(Accesses) /\ Len(s) = 6
  /\ s[1] = Read("gdir5") /\ s[2] = Write("gdir5", PnlcPins, {})
  /\ s[3] = Read("dr5")   /\ s[4] = Write("dr5", {}, PnlcPins)
  /\ s[5] = Read("dr5")   /\ s[6] = Write("dr5", {PnlcReset}, PnlcPins \ {PnlcReset})
<1>1. /\ PnlcPins \in SUBSET Pins /\ {PnlcReset} \in SUBSET Pins
      /\ PnlcPins \ {PnlcReset} \in SUBSET Pins
      /\ "gdir5" \in Registers /\ "dr5" \in Registers
  BY DEF PnlcPins, PnlcReset, PnlcBoot, Pins, Registers
<1>2. /\ Read("gdir5") \in Accesses /\ Read("dr5") \in Accesses
      /\ Write("gdir5", PnlcPins, {}) \in Accesses
      /\ Write("dr5", {}, PnlcPins) \in Accesses
      /\ Write("dr5", {PnlcReset}, PnlcPins \ {PnlcReset}) \in Accesses
  BY <1>1, AccessFields
<1> QED BY <1>2 DEF Program, PanelInit, Modify

LEMMA OpenSteps ==
  LET s == Program["open"] IN
  /\ s \in Seq(Accesses) /\ Len(s) = 6
  /\ s[1] = Read("gdir5") /\ s[2] = Write("gdir5", CscPins, {})
  /\ s[3] = Read("dr5")   /\ s[4] = Write("dr5", {}, CscPins)
  /\ s[5] = Read("dr5")   /\ s[6] = Write("dr5", {CscReset}, {CscBoot})
<1>1. /\ CscPins \in SUBSET Pins /\ {CscReset} \in SUBSET Pins /\ {CscBoot} \in SUBSET Pins
      /\ "gdir5" \in Registers /\ "dr5" \in Registers
  BY DEF CscPins, CscReset, CscBoot, Pins, Registers
<1>2. /\ Read("gdir5") \in Accesses /\ Read("dr5") \in Accesses
      /\ Write("gdir5", CscPins, {}) \in Accesses
      /\ Write("dr5", {}, CscPins) \in Accesses
      /\ Write("dr5", {CscReset}, {CscBoot}) \in Accesses
  BY <1>1, AccessFields
<1>3. Program["open"] = OpenCsc
  BY DEF Program
<1> QED BY <1>2, <1>3 DEF OpenCsc, Modify, CscReset, CscBoot

LEMMA LatchSteps ==
  LET s == Program["latch"] IN
  /\ s \in Seq(Accesses) /\ Len(s) = 17
  /\ s[1] = Read("dr2")    /\ s[2] = Write("dr2", {26, 27, Creset}, {})
  /\ s[3] = Read("gdir2")  /\ s[4] = Write("gdir2", {26, 27, Creset}, {})
  /\ s[5] = Read("dr3")    /\ s[6] = Write("dr3", {}, Selects)
  /\ s[7] = Read("gdir3")  /\ s[8] = Write("gdir3", Selects, {})
  /\ s[9] = Read("dr2")    /\ s[10] = Write("dr2", {27}, {26})
  /\ s[11] = Read("dr3")   /\ s[12] = Write("dr3", Selects, {})
  /\ s[13] = Device("exchange")
  /\ s[14] = Read("dr2")   /\ s[15] = Write("dr2", {26, 27}, {})
  /\ s[16] = Read("dr3")   /\ s[17] = Write("dr3", Selects, {})
<1>1. /\ {26, 27, Creset} \in SUBSET Pins /\ Selects \in SUBSET Pins
      /\ {26} \in SUBSET Pins /\ {27} \in SUBSET Pins /\ {26, 27} \in SUBSET Pins
      /\ "dr2" \in Registers /\ "gdir2" \in Registers
      /\ "dr3" \in Registers /\ "gdir3" \in Registers
  BY DEF Creset, Selects, Pins, Registers
<1>2. /\ Read("dr2") \in Accesses /\ Read("gdir2") \in Accesses
      /\ Read("dr3") \in Accesses /\ Read("gdir3") \in Accesses
      /\ Write("dr2", {26, 27, Creset}, {}) \in Accesses
      /\ Write("gdir2", {26, 27, Creset}, {}) \in Accesses
      /\ Write("dr3", {}, Selects) \in Accesses
      /\ Write("gdir3", Selects, {}) \in Accesses
      /\ Write("dr2", {27}, {26}) \in Accesses
      /\ Write("dr3", Selects, {}) \in Accesses
      /\ Write("dr2", {26, 27}, {}) \in Accesses
  BY <1>1, AccessFields
<1> QED
  BY <1>2, DeviceFields DEF Program, LatchUpdate, LatchInit, LatchSelect, LatchDeselect, Modify

LEMMA FlashSteps ==
  LET s == Program["flash"] IN
  /\ s \in Seq(Accesses) /\ Len(s) = 19
  /\ s[1] = Read("dr2")    /\ s[2] = Write("dr2", {FlashCs}, {})
  /\ s[3] = Read("gdir2")  /\ s[4] = Write("gdir2", {FlashCs}, {})
  /\ s[5] = Read("dr3")    /\ s[6] = Read("gdir3")
  /\ s[7] = Write("dr3", {Wp, Hold}, {Sclk, Mosi})
  /\ s[8] = Write("gdir3", {Sclk, Mosi, Wp, Hold}, {Miso})
  /\ s[9] = Read("dr2")    /\ s[10] = Write("dr2", {}, {FlashCs})
  /\ s[11] = Read("dr3")   /\ s[12] = Write("dr3", {Mosi}, {})
  /\ s[13] = Read("dr3")   /\ s[14] = Write("dr3", {Sclk}, {})
  /\ s[15] = Device("sample")
  /\ s[16] = Read("dr3")   /\ s[17] = Write("dr3", {}, {Sclk})
  /\ s[18] = Read("dr2")   /\ s[19] = Write("dr2", {FlashCs}, {})
<1>1. /\ {FlashCs} \in SUBSET Pins /\ {Wp, Hold} \in SUBSET Pins
      /\ {Sclk, Mosi} \in SUBSET Pins /\ {Sclk, Mosi, Wp, Hold} \in SUBSET Pins
      /\ {Miso} \in SUBSET Pins /\ {Mosi} \in SUBSET Pins /\ {Sclk} \in SUBSET Pins
      /\ "dr2" \in Registers /\ "gdir2" \in Registers
      /\ "dr3" \in Registers /\ "gdir3" \in Registers
  BY DEF FlashCs, Wp, Hold, Sclk, Mosi, Miso, Pins, Registers
<1>2. /\ Read("dr2") \in Accesses /\ Read("gdir2") \in Accesses
      /\ Read("dr3") \in Accesses /\ Read("gdir3") \in Accesses
      /\ Write("dr2", {FlashCs}, {}) \in Accesses
      /\ Write("gdir2", {FlashCs}, {}) \in Accesses
      /\ Write("dr3", {Wp, Hold}, {Sclk, Mosi}) \in Accesses
      /\ Write("gdir3", {Sclk, Mosi, Wp, Hold}, {Miso}) \in Accesses
      /\ Write("dr2", {}, {FlashCs}) \in Accesses
      /\ Write("dr3", {Mosi}, {}) \in Accesses
      /\ Write("dr3", {Sclk}, {}) \in Accesses
      /\ Write("dr3", {}, {Sclk}) \in Accesses
  BY <1>1, AccessFields
<1>3. Program["flash"] = FlashRead
  BY DEF Program
<1> QED
  BY <1>2, <1>3, DeviceFields
     DEF FlashRead, FlashPins, FlashBit, Modify, FlashCs, Wp, Hold, Sclk, Mosi, Miso

LEMMA UploadSteps ==
  LET s == Program["upload"] IN
  /\ s \in Seq(Accesses) /\ Len(s) = 12
  /\ s[1] = Read("dr2")   /\ s[2] = Write("dr2", {26}, {})
  /\ s[3] = Read("dr2")   /\ s[4] = Write("dr2", {27}, {})
  /\ s[5] = Read("dr3")   /\ s[6] = Write("dr3", {24}, {})
  /\ s[7] = Read("dr3")   /\ s[8] = Write("dr3", {25}, {})
  /\ s[9] = Read("dr2")   /\ s[10] = Write("dr2", {}, {Creset})
  /\ s[11] = Read("dr2")  /\ s[12] = Write("dr2", {Creset}, {})
<1>1. /\ {26} \in SUBSET Pins /\ {27} \in SUBSET Pins /\ {24} \in SUBSET Pins
      /\ {25} \in SUBSET Pins /\ {Creset} \in SUBSET Pins
      /\ "dr2" \in Registers /\ "dr3" \in Registers
  BY DEF Creset, Pins, Registers
<1>2. /\ Read("dr2") \in Accesses /\ Read("dr3") \in Accesses
      /\ Write("dr2", {26}, {}) \in Accesses /\ Write("dr2", {27}, {}) \in Accesses
      /\ Write("dr3", {24}, {}) \in Accesses /\ Write("dr3", {25}, {}) \in Accesses
      /\ Write("dr2", {}, {Creset}) \in Accesses /\ Write("dr2", {Creset}, {}) \in Accesses
  BY <1>1, AccessFields
<1> QED BY <1>2 DEF Program, Upload, Modify

(* Which of the accesses are no writes.                                    *)
LEMMA LatchReads ==
  \A k \in {1, 3, 5, 7, 9, 11, 13, 14, 16} : Program["latch"][k].do # "write"
<1> DEFINE s == Program["latch"]
<1>1. /\ s[1] = Read("dr2") /\ s[3] = Read("gdir2") /\ s[5] = Read("dr3")
      /\ s[7] = Read("gdir3") /\ s[9] = Read("dr2") /\ s[11] = Read("dr3")
      /\ s[13] = Device("exchange") /\ s[14] = Read("dr2") /\ s[16] = Read("dr3")
  BY LatchSteps, Zenon
<1> HIDE DEF s
<1>2. /\ s[1].do = "read" /\ s[3].do = "read" /\ s[5].do = "read" /\ s[7].do = "read"
      /\ s[9].do = "read" /\ s[11].do = "read" /\ s[13].do = "exchange"
      /\ s[14].do = "read" /\ s[16].do = "read"
  BY <1>1, OtherFields, ZenonT(60)
<1> QED BY <1>2 DEF s

LEMMA FlashReads ==
  \A k \in {1, 3, 5, 6, 9, 11, 13, 15, 16, 18} : Program["flash"][k].do # "write"
<1> DEFINE s == Program["flash"]
<1>1. /\ s[1] = Read("dr2") /\ s[3] = Read("gdir2") /\ s[5] = Read("dr3")
      /\ s[6] = Read("gdir3") /\ s[9] = Read("dr2") /\ s[11] = Read("dr3")
      /\ s[13] = Read("dr3") /\ s[15] = Device("sample") /\ s[16] = Read("dr3")
      /\ s[18] = Read("dr2")
  BY FlashSteps, Zenon
<1> HIDE DEF s
<1>2. /\ s[1].do = "read" /\ s[3].do = "read" /\ s[5].do = "read" /\ s[6].do = "read"
      /\ s[9].do = "read" /\ s[11].do = "read" /\ s[13].do = "read" /\ s[15].do = "sample"
      /\ s[16].do = "read" /\ s[18].do = "read"
  BY <1>1, OtherFields, ZenonT(60)
<1> QED BY <1>2 DEF s

LEMMA UploadReads ==
  \A k \in {1, 3, 5, 7, 9, 11} : Program["upload"][k].do = "read"
<1> DEFINE s == Program["upload"]
<1>1. /\ s[1] = Read("dr2") /\ s[3] = Read("dr2") /\ s[5] = Read("dr3")
      /\ s[7] = Read("dr3") /\ s[9] = Read("dr2") /\ s[11] = Read("dr2")
  BY UploadSteps, Zenon
<1> HIDE DEF s
<1>2. /\ s[1].do = "read" /\ s[3].do = "read" /\ s[5].do = "read" /\ s[7].do = "read"
      /\ s[9].do = "read" /\ s[11].do = "read"
  BY <1>1, OtherFields, Zenon
<1> QED BY <1>2 DEF s

-----------------------------------------------------------------------------
(* What the writes of a program leave alone.                               *)

Changes(op) == op.up \union op.down

MayWrite(job, op) ==
  CASE job = "panel" -> op.reg \in {"gdir5", "dr5"} /\ Changes(op) \subseteq {21, 22, 30}
    [] job = "open" -> op.reg \in {"gdir5", "dr5"} /\ Changes(op) \subseteq {20, 23}
    [] job = "latch" -> op.reg \in {"dr2", "gdir2", "dr3", "gdir3"}
    [] job = "flash" ->
         \/ op.reg \in {"dr2", "gdir2"} /\ Changes(op) \subseteq {30}
         \/ op.reg = "dr3" /\ 24 \notin Changes(op) /\ 25 \notin op.down
         \/ op.reg = "gdir3" /\ op.down \subseteq {17}
    [] job = "upload" ->
         \/ op.reg = "dr2" /\ Changes(op) \subseteq {17, 26, 27}
         \/ op.reg = "dr3" /\ op.up \subseteq {24, 25} /\ op.down = {}

LEMMA MayWriteCases ==
  ASSUME NEW op
  PROVE  /\ MayWrite("panel", op) =>
              op.reg \in {"gdir5", "dr5"} /\ Changes(op) \subseteq {21, 22, 30}
         /\ MayWrite("open", op) =>
              op.reg \in {"gdir5", "dr5"} /\ Changes(op) \subseteq {20, 23}
         /\ MayWrite("latch", op) => op.reg \in {"dr2", "gdir2", "dr3", "gdir3"}
         /\ MayWrite("flash", op) =>
              \/ op.reg \in {"dr2", "gdir2"} /\ Changes(op) \subseteq {30}
              \/ op.reg = "dr3" /\ 24 \notin Changes(op) /\ 25 \notin op.down
              \/ op.reg = "gdir3" /\ op.down \subseteq {17}
         /\ MayWrite("upload", op) =>
              \/ op.reg = "dr2" /\ Changes(op) \subseteq {17, 26, 27}
              \/ op.reg = "dr3" /\ op.up \subseteq {24, 25} /\ op.down = {}
BY DEF MayWrite

LEMMA PanelWrites ==
  ASSUME NEW k \in 1 .. Len(Program["panel"]), Program["panel"][k].do = "write"
  PROVE  MayWrite("panel", Program["panel"][k])
<1> DEFINE s == Program["panel"]
<1>1. k \in {1, 2, 3, 4, 5, 6}
  BY PanelSteps
<1>2. CASE k \in {1, 3, 5}
  BY <1>2, PanelSteps, OtherFields, ZenonT(60)
<1>3. CASE k \in {2, 4, 6}
  <2>1. s[k].reg \in {"gdir5", "dr5"} /\ s[k].up \subseteq {21, 22, 30}
        /\ s[k].down \subseteq {21, 22, 30}
    BY <1>3, PanelSteps, WriteFields, SMTT(60) DEF PnlcPins, PnlcReset, PnlcBoot
  <2> QED BY <2>1 DEF MayWrite, Changes
<1> QED BY <1>1, <1>2, <1>3

LEMMA OpenWrites ==
  ASSUME NEW k \in 1 .. Len(Program["open"]), Program["open"][k].do = "write"
  PROVE  MayWrite("open", Program["open"][k])
<1> DEFINE s == Program["open"]
<1>1. k \in {1, 2, 3, 4, 5, 6}
  BY OpenSteps
<1>2. CASE k \in {1, 3, 5}
  BY <1>2, OpenSteps, OtherFields, ZenonT(60)
<1>3. CASE k \in {2, 4, 6}
  <2>1. \/ s[k] = Write("gdir5", {23, 20}, {}) \/ s[k] = Write("dr5", {}, {23, 20})
        \/ s[k] = Write("dr5", {23}, {20})
    BY <1>3, OpenSteps, SMTT(60) DEF CscPins, CscReset, CscBoot
  <2> QED BY <2>1, WriteFields DEF MayWrite, Changes
<1> QED BY <1>1, <1>2, <1>3

LEMMA LatchWrites ==
  ASSUME NEW k \in 1 .. Len(Program["latch"]), Program["latch"][k].do = "write"
  PROVE  MayWrite("latch", Program["latch"][k])
<1> DEFINE s == Program["latch"]
<1>1. k \in 1 .. 17
  BY LatchSteps
<1>2. CASE k \in {1, 3, 5, 7, 9, 11, 13, 14, 16}
  BY <1>2, LatchReads
<1>3. CASE k \in {2, 4, 6, 8, 10, 12, 15, 17}
  <2>1. /\ s[2] = Write("dr2", {26, 27, Creset}, {}) /\ s[4] = Write("gdir2", {26, 27, Creset}, {})
        /\ s[6] = Write("dr3", {}, Selects) /\ s[8] = Write("gdir3", Selects, {})
        /\ s[10] = Write("dr2", {27}, {26}) /\ s[12] = Write("dr3", Selects, {})
        /\ s[15] = Write("dr2", {26, 27}, {}) /\ s[17] = Write("dr3", Selects, {})
    BY LatchSteps, Zenon
  <2> HIDE DEF s
  <2>2. /\ s[2].reg = "dr2" /\ s[4].reg = "gdir2" /\ s[6].reg = "dr3" /\ s[8].reg = "gdir3"
        /\ s[10].reg = "dr2" /\ s[12].reg = "dr3" /\ s[15].reg = "dr2" /\ s[17].reg = "dr3"
    BY <2>1, WriteFields
  <2>3. s[k].reg \in {"dr2", "gdir2", "dr3", "gdir3"}
    BY <1>3, <2>2
  <2> QED BY <2>3 DEF MayWrite, s
<1> QED BY <1>1, <1>2, <1>3

LEMMA FlashWrites ==
  ASSUME NEW k \in 1 .. Len(Program["flash"]), Program["flash"][k].do = "write"
  PROVE  MayWrite("flash", Program["flash"][k])
<1> DEFINE s == Program["flash"]
<1>1. k \in 1 .. 19
  BY FlashSteps
<1>2. CASE k \in {1, 3, 5, 6, 9, 11, 13, 15, 16, 18}
  BY <1>2, FlashReads
<1>3. CASE k \in {2, 4, 10, 19}
  <2>1. \/ s[k] = Write("dr2", {30}, {}) \/ s[k] = Write("gdir2", {30}, {})
        \/ s[k] = Write("dr2", {}, {30})
    BY <1>3, FlashSteps, ZenonT(60) DEF FlashCs
  <2> QED BY <2>1, WriteFields DEF MayWrite, Changes
<1>4. CASE k \in {7, 12, 14, 17}
  <2>1. \/ s[k] = Write("dr3", {19, 25}, {16, 18}) \/ s[k] = Write("dr3", {18}, {})
        \/ s[k] = Write("dr3", {16}, {}) \/ s[k] = Write("dr3", {}, {16})
    BY <1>4, FlashSteps, ZenonT(60) DEF Wp, Hold, Sclk, Mosi
  <2> QED BY <2>1, WriteFields, SMTT(60) DEF MayWrite, Changes
<1>5. CASE k = 8
  <2>1. s[k] = Write("gdir3", {16, 18, 19, 25}, {17})
    BY <1>5, FlashSteps DEF Wp, Hold, Sclk, Mosi, Miso
  <2> QED BY <2>1, WriteFields DEF MayWrite
<1> QED BY <1>1, <1>2, <1>3, <1>4, <1>5

LEMMA UploadWrites ==
  ASSUME NEW k \in 1 .. Len(Program["upload"]), Program["upload"][k].do = "write"
  PROVE  MayWrite("upload", Program["upload"][k])
<1> DEFINE s == Program["upload"]
<1>1. k \in 1 .. 12
  BY UploadSteps
<1>2. CASE k \in {1, 3, 5, 7, 9, 11}
  BY <1>2, UploadReads
<1>3. CASE k \in {2, 4, 10, 12}
  <2>1. \/ s[k] = Write("dr2", {26}, {}) \/ s[k] = Write("dr2", {27}, {})
        \/ s[k] = Write("dr2", {}, {17}) \/ s[k] = Write("dr2", {17}, {})
    BY <1>3, UploadSteps, ZenonT(60) DEF Creset
  <2> QED BY <2>1, WriteFields DEF MayWrite, Changes
<1>4. CASE k \in {6, 8}
  <2>1. s[k] = Write("dr3", {24}, {}) \/ s[k] = Write("dr3", {25}, {})
    BY <1>4, UploadSteps
  <2> QED BY <2>1, WriteFields DEF MayWrite
<1> QED BY <1>1, <1>2, <1>3, <1>4

LEMMA ProgramLengths ==
  /\ Len(Program["panel"]) = 6 /\ Len(Program["open"]) = 6
  /\ Len(Program["latch"]) = 17 /\ Len(Program["flash"]) = 19
  /\ Len(Program["upload"]) = 12
BY PanelSteps, OpenSteps, LatchSteps, FlashSteps, UploadSteps

(* A process is at an access of its program until it has made them all.    *)
LEMMA StepTypes ==
  ASSUME TypeOK, NEW p \in Procs
  PROVE  /\ Job[p] \in Jobs
         /\ Steps(p) \in Seq(Accesses)
         /\ pc[p] \in 0 .. Len(Steps(p)) + 1
         /\ \A do : At(p, do) => pc[p] \in 1 .. Len(Steps(p)) /\ Steps(p)[pc[p]] \in Accesses
         /\ At(p, "write") => MayWrite(Job[p], Steps(p)[pc[p]])
<1>1. Job[p] \in Jobs
  BY ProcsAssumption
<1>2. \A job \in Jobs : Program[job] \in Seq(Accesses)
  BY PanelSteps, OpenSteps, LatchSteps, FlashSteps, UploadSteps DEF Jobs
<1>3. Steps(p) \in Seq(Accesses)
  BY <1>1, <1>2 DEF Steps
<1>4. pc[p] \in Nat /\ pc[p] <= Len(Steps(p)) + 1
  BY DEF TypeOK
<1>5. pc[p] \in 0 .. Len(Steps(p)) + 1
  BY <1>3, <1>4
<1>6. ASSUME NEW do, At(p, do)
      PROVE  pc[p] \in 1 .. Len(Steps(p)) /\ Steps(p)[pc[p]] \in Accesses
  <2>1. pc[p] \in 1 .. Len(Steps(p))
    BY <1>3, <1>6 DEF At
  <2> QED BY <1>3, <2>1
<1>7. ASSUME At(p, "write")
      PROVE  MayWrite(Job[p], Steps(p)[pc[p]])
  <2>1. pc[p] \in 1 .. Len(Program[Job[p]]) /\ Program[Job[p]][pc[p]].do = "write"
    BY <1>6, <1>7 DEF At, Steps
  <2>2. MayWrite(Job[p], Program[Job[p]][pc[p]])
    BY <1>1, <2>1, PanelWrites, OpenWrites, LatchWrites, FlashWrites, UploadWrites DEF Jobs
  <2> QED BY <2>2 DEF Steps
<1> QED BY <1>1, <1>3, <1>5, <1>6, <1>7

\* The access of a write.
LEMMA WriteTaken ==
  ASSUME TypeOK, NEW p \in Procs, WriteRegister(p)
  PROVE  /\ Steps(p) \in Seq(Accesses) /\ pc[p] \in 1 .. Len(Steps(p)) /\ pc[p] > 0
         /\ Steps(p)[pc[p]] \in Accesses /\ Steps(p)[pc[p]].do = "write"
<1>1. At(p, "write")
  BY Zenon DEF WriteRegister
<1>2. Steps(p)[pc[p]].do = "write"
  BY <1>1, Zenon DEF At
<1>3. /\ Steps(p) \in Seq(Accesses) /\ pc[p] \in 1 .. Len(Steps(p))
      /\ Steps(p)[pc[p]] \in Accesses
  BY <1>1, StepTypes, Zenon
<1>4. pc[p] > 0
  BY <1>3
<1> QED BY <1>2, <1>3, <1>4

-----------------------------------------------------------------------------
(* What a write that undoes nothing does to a pin.                         *)

After(op, r, pin) ==
  IF op.reg = r THEN (pin \in reg[r] \/ pin \in op.up) /\ pin \notin op.down
  ELSE pin \in reg[r]

LEMMA WriteEffect ==
  ASSUME TypeOK, NEW q \in Procs, WriteRegister(q), NEW p \in Procs, Whole(p)'
  PROVE  /\ Whole(p)
         /\ \A r \in Registers : \A pin : pin \in reg'[r] <=> After(Steps(q)[pc[q]], r, pin)
<1> DEFINE op == Steps(q)[pc[q]]
<1>1. op \in Accesses /\ op.do = "write" /\ pc[q] > 0
  BY WriteTaken, Zenon
<1>2. /\ reg' = [reg EXCEPT ![op.reg] = (seen[q][op.reg] \union op.up) \ op.down]
      /\ pc' = [pc EXCEPT ![q] = @ + 1]
      /\ torn' = IF seen[q][op.reg] # reg[op.reg] THEN Running ELSE torn
  BY DEF WriteRegister
<1> HIDE DEF op
<1>3. pc \in [Procs -> Nat] /\ reg \in [Registers -> SUBSET Pins] /\ op.reg \in Registers
  BY <1>1 DEF TypeOK, Accesses
<1>4. p \in Running
  BY <1>1, <1>2, <1>3 DEF Whole, Running
<1>5. seen[q][op.reg] = reg[op.reg] /\ p \notin torn
  BY <1>2, <1>4 DEF Whole
<1>6. \A r \in Registers :
        reg'[r] = IF r = op.reg THEN (reg[r] \union op.up) \ op.down ELSE reg[r]
  BY <1>2, <1>3, <1>5
<1>7. ASSUME NEW r \in Registers, NEW pin
      PROVE  pin \in reg'[r] <=> After(op, r, pin)
  BY <1>6 DEF After
<1> QED BY <1>4, <1>5, <1>7, SMTT(60) DEF Whole, op

(* A panel's processor, by its lines before and after a write.             *)
LEMMA ChipCases ==
  ASSUME NEW chip, NEW was, NEW is, NEW reset, NEW boot
  PROVE  LET c == ChipAfter(chip, was, is, reset, boot) IN
         /\ reset \in is["gdir5"] /\ reset \notin is["dr5"] => c = "off"
         /\ /\ reset \in was["gdir5"] /\ reset \in was["dr5"]
            /\ reset \in is["gdir5"] /\ reset \in is["dr5"]
            => c = chip
         /\ /\ reset \in is["gdir5"] /\ reset \in is["dr5"] /\ boot \notin is["dr5"]
            /\ reset \notin was["dr5"]
            => c = "app"
BY SMTT(60) DEF ChipAfter

LEMMA ChipWrites ==
  ASSUME NEW q \in Procs, WriteRegister(q)
  PROVE  /\ pnlc' = ChipAfter(pnlc, reg, reg', PnlcReset, PnlcBoot)
         /\ csc' = ChipAfter(csc, reg, reg', CscReset, CscBoot)
         /\ clocks' = ClocksAfter(reg, reg')
         /\ fpga' = FpgaAfter(reg')
         /\ met' = met /\ starts' = starts /\ pc' = [pc EXCEPT ![q] = @ + 1]
BY DEF WriteRegister

(* A program that runs beside p is none of its rivals.                     *)
LEMMA NoRival ==
  ASSUME IInv, NEW p \in Procs, NEW q \in Procs, p # q, Alone(p), At(q, "write")
  PROVE  Job[q] \in Jobs \ Rivals(Job[p]) /\ MayWrite(Job[q], Steps(q)[pc[q]])
<1>1. p \in Running /\ q \in Running
  <2>1. pc[q] \in 1 .. Len(Steps(q)) /\ Steps(q) \in Seq(Accesses)
    BY StepTypes DEF IInv
  <2> QED BY <2>1 DEF Alone, Whole, Running
<1>2. Job[q] \in met[p]
  BY <1>1 DEF IInv, Bystanders
<1>3. Job[q] \notin Rivals(Job[p])
  BY <1>2 DEF Alone, Met
<1> QED BY <1>3, StepTypes DEF IInv

-----------------------------------------------------------------------------
(* One lemma per program: a write, by the program or by one that runs      *)
(* beside it, keeps what the program has reached.                          *)

LEMMA PanelWrite ==
  ASSUME IInv, NEW p \in Procs, NEW q \in Procs, Job[p] = "panel",
         Alone(p), Whole(p)', WriteRegister(q)
  PROVE  PanelAt(p)'
<1> DEFINE op == Steps(q)[pc[q]]
<1>1. PanelAt(p) /\ pc[p] \in Nat /\ pc \in [Procs -> Nat]
  BY DEF IInv, Reached, TypeOK
<1>2. /\ pc' = [pc EXCEPT ![q] = @ + 1] /\ At(q, "write")
      /\ pnlc' = ChipAfter(pnlc, reg, reg', PnlcReset, PnlcBoot)
  BY ChipWrites DEF WriteRegister
<1>3. \A r \in Registers : \A pin : pin \in reg'[r] <=> After(op, r, pin)
  BY WriteEffect DEF IInv
<1>4. /\ 22 \in reg'["gdir5"] <=> After(op, "gdir5", 22)
      /\ 22 \in reg'["dr5"] <=> After(op, "dr5", 22)
      /\ 21 \in reg'["dr5"] <=> After(op, "dr5", 21)
  BY <1>3 DEF Registers
<1>5. /\ 22 \in reg'["gdir5"] /\ 22 \notin reg'["dr5"] => pnlc' = "off"
      /\ /\ 22 \in reg["gdir5"] /\ 22 \in reg["dr5"]
         /\ 22 \in reg'["gdir5"] /\ 22 \in reg'["dr5"]
         => pnlc' = pnlc
      /\ /\ 22 \in reg'["gdir5"] /\ 22 \in reg'["dr5"] /\ 21 \notin reg'["dr5"]
         /\ 22 \notin reg["dr5"]
         => pnlc' = "app"
  BY <1>2, ChipCases DEF PnlcReset, PnlcBoot
<1> HIDE DEF op
<1>6. CASE q # p
  <2>1. /\ Job[q] \in Jobs \ Rivals("panel") /\ MayWrite(Job[q], op)
    BY <1>2, <1>6, NoRival DEF op
  <2>2. Job[q] \in {"open", "latch", "flash", "upload"}
    BY <2>1 DEF Jobs, Rivals
  <2>3. op.reg \in {"gdir5", "dr5"} =>
          {21, 22} \intersect op.up = {} /\ {21, 22} \intersect op.down = {}
    BY <2>1, <2>2, MayWriteCases DEF Changes
  <2>4. /\ 22 \in reg'["gdir5"] <=> 22 \in reg["gdir5"]
        /\ 22 \in reg'["dr5"] <=> 22 \in reg["dr5"]
        /\ 21 \in reg'["dr5"] <=> 21 \in reg["dr5"]
    BY <1>4, <2>3 DEF After
  <2>5. pc'[p] = pc[p]
    BY <1>1, <1>2, <1>6
  <2> QED BY <1>1, <1>5, <2>4, <2>5 DEF PanelAt, PnlcReset, PnlcBoot
<1>7. CASE q = p
  <2>1. /\ pc[p] \in 1 .. 6 /\ Program["panel"][pc[p]].do = "write"
        /\ op = Program["panel"][pc[p]]
    BY <1>2, <1>7, PanelSteps, SMTT(60) DEF At, Steps, op
  <2>2. pc[p] \notin {1, 3, 5}
    BY <2>1, PanelSteps, OtherFields, SMTT(60)
  <2>3. pc'[p] = pc[p] + 1
    BY <1>1, <1>2, <1>7
  <2>4. CASE pc[p] = 2
    <3>1. op = Write("gdir5", {21, 22, 30}, {})
      BY <2>1, <2>4, PanelSteps DEF PnlcPins, PnlcReset, PnlcBoot
    <3>2. 22 \in reg'["gdir5"]
      BY <1>4, <3>1, WriteFields DEF After
    <3> QED BY <2>3, <2>4, <3>2 DEF PanelAt, PnlcReset
  <2>5. CASE pc[p] = 4
    <3>1. op = Write("dr5", {}, {21, 22, 30})
      BY <2>1, <2>5, PanelSteps DEF PnlcPins, PnlcReset, PnlcBoot
    <3>2. /\ 22 \in reg'["gdir5"] <=> 22 \in reg["gdir5"]
          /\ 22 \notin reg'["dr5"] /\ 21 \notin reg'["dr5"]
      BY <1>4, <3>1, WriteFields DEF After
    <3> QED BY <1>1, <1>5, <2>3, <2>5, <3>2 DEF PanelAt, PnlcReset, PnlcBoot
  <2>6. CASE pc[p] = 6
    <3>1. op = Write("dr5", {22}, {21, 30})
      <4>1. PnlcPins \ {PnlcReset} = {21, 30} /\ PnlcReset = 22
        BY DEF PnlcPins, PnlcReset, PnlcBoot
      <4> QED BY <2>1, <2>6, <4>1, PanelSteps
    <3>2. /\ 22 \in reg'["gdir5"] <=> 22 \in reg["gdir5"]
          /\ 22 \in reg'["dr5"] /\ 21 \notin reg'["dr5"]
      BY <1>4, <3>1, WriteFields DEF After
    <3> QED BY <1>1, <1>5, <2>3, <2>6, <3>2 DEF PanelAt, PnlcReset, PnlcBoot
  <2> QED BY <2>1, <2>2, <2>4, <2>5, <2>6
<1> QED BY <1>6, <1>7

LEMMA OpenWrite ==
  ASSUME IInv, NEW p \in Procs, NEW q \in Procs, Job[p] = "open",
         Alone(p), Whole(p)', WriteRegister(q)
  PROVE  OpenAt(p)'
<1> DEFINE op == Steps(q)[pc[q]]
<1>1. OpenAt(p) /\ pc[p] \in Nat /\ pc \in [Procs -> Nat]
  BY DEF IInv, Reached, TypeOK
<1>2. /\ pc' = [pc EXCEPT ![q] = @ + 1] /\ At(q, "write")
      /\ csc' = ChipAfter(csc, reg, reg', CscReset, CscBoot)
  BY ChipWrites DEF WriteRegister
<1>3. \A r \in Registers : \A pin : pin \in reg'[r] <=> After(op, r, pin)
  BY WriteEffect DEF IInv
<1>4. /\ 23 \in reg'["gdir5"] <=> After(op, "gdir5", 23)
      /\ 23 \in reg'["dr5"] <=> After(op, "dr5", 23)
      /\ 20 \in reg'["dr5"] <=> After(op, "dr5", 20)
  BY <1>3 DEF Registers
<1>5. /\ 23 \in reg'["gdir5"] /\ 23 \notin reg'["dr5"] => csc' = "off"
      /\ /\ 23 \in reg["gdir5"] /\ 23 \in reg["dr5"]
         /\ 23 \in reg'["gdir5"] /\ 23 \in reg'["dr5"]
         => csc' = csc
      /\ /\ 23 \in reg'["gdir5"] /\ 23 \in reg'["dr5"] /\ 20 \notin reg'["dr5"]
         /\ 23 \notin reg["dr5"]
         => csc' = "app"
  BY <1>2, ChipCases DEF CscReset, CscBoot
<1> HIDE DEF op
<1>6. CASE q # p
  <2>1. /\ Job[q] \in Jobs \ Rivals("open") /\ MayWrite(Job[q], op)
    BY <1>2, <1>6, NoRival DEF op
  <2>2. Job[q] \in {"panel", "latch", "flash", "upload"}
    BY <2>1 DEF Jobs, Rivals
  <2>3. op.reg \in {"gdir5", "dr5"} =>
          {20, 23} \intersect op.up = {} /\ {20, 23} \intersect op.down = {}
    BY <2>1, <2>2, MayWriteCases DEF Changes
  <2>4. /\ 23 \in reg'["gdir5"] <=> 23 \in reg["gdir5"]
        /\ 23 \in reg'["dr5"] <=> 23 \in reg["dr5"]
        /\ 20 \in reg'["dr5"] <=> 20 \in reg["dr5"]
    BY <1>4, <2>3 DEF After
  <2>5. pc'[p] = pc[p]
    BY <1>1, <1>2, <1>6
  <2> QED BY <1>1, <1>5, <2>4, <2>5 DEF OpenAt, CscReset, CscBoot
<1>7. CASE q = p
  <2>1. /\ pc[p] \in 1 .. 6 /\ Program["open"][pc[p]].do = "write"
        /\ op = Program["open"][pc[p]]
    BY <1>2, <1>7, OpenSteps, SMTT(60) DEF At, Steps, op
  <2>2. pc[p] \notin {1, 3, 5}
    BY <2>1, OpenSteps, OtherFields, SMTT(60)
  <2>3. pc'[p] = pc[p] + 1
    BY <1>1, <1>2, <1>7
  <2>4. CASE pc[p] = 2
    <3>1. op = Write("gdir5", {23, 20}, {})
      BY <2>1, <2>4, OpenSteps DEF CscPins, CscReset, CscBoot
    <3>2. 23 \in reg'["gdir5"]
      BY <1>4, <3>1, WriteFields DEF After
    <3> QED BY <2>3, <2>4, <3>2 DEF OpenAt, CscReset
  <2>5. CASE pc[p] = 4
    <3>1. op = Write("dr5", {}, {23, 20})
      BY <2>1, <2>5, OpenSteps DEF CscPins, CscReset, CscBoot
    <3>2. /\ 23 \in reg'["gdir5"] <=> 23 \in reg["gdir5"]
          /\ 23 \notin reg'["dr5"] /\ 20 \notin reg'["dr5"]
      BY <1>4, <3>1, WriteFields DEF After
    <3> QED BY <1>1, <1>5, <2>3, <2>5, <3>2 DEF OpenAt, CscReset, CscBoot
  <2>6. CASE pc[p] = 6
    <3>1. op = Write("dr5", {23}, {20})
      BY <2>1, <2>6, OpenSteps DEF CscReset, CscBoot
    <3>2. /\ 23 \in reg'["gdir5"] <=> 23 \in reg["gdir5"]
          /\ 23 \in reg'["dr5"] /\ 20 \notin reg'["dr5"]
      BY <1>4, <3>1, WriteFields DEF After
    <3> QED BY <1>1, <1>5, <2>3, <2>6, <3>2 DEF OpenAt, CscReset, CscBoot
  <2> QED BY <2>1, <2>2, <2>4, <2>5, <2>6
<1> QED BY <1>6, <1>7

LEMMA LatchWrite ==
  ASSUME IInv, NEW p \in Procs, NEW q \in Procs, Job[p] = "latch",
         Alone(p), Whole(p)', WriteRegister(q)
  PROVE  LatchAt(p)'
<1> DEFINE op == Steps(q)[pc[q]]
<1>1. LatchAt(p) /\ pc[p] \in Nat /\ pc \in [Procs -> Nat]
  BY DEF IInv, Reached, TypeOK
<1>2. pc' = [pc EXCEPT ![q] = @ + 1] /\ At(q, "write")
  BY ChipWrites DEF WriteRegister
<1>3. \A r \in Registers : \A pin : pin \in reg'[r] <=> After(op, r, pin)
  BY WriteEffect DEF IInv
<1>4. /\ 26 \in reg'["gdir2"] <=> After(op, "gdir2", 26)
      /\ 27 \in reg'["gdir2"] <=> After(op, "gdir2", 27)
      /\ 24 \in reg'["gdir3"] <=> After(op, "gdir3", 24)
      /\ 25 \in reg'["gdir3"] <=> After(op, "gdir3", 25)
      /\ 26 \in reg'["dr2"] <=> After(op, "dr2", 26)
      /\ 27 \in reg'["dr2"] <=> After(op, "dr2", 27)
      /\ 24 \in reg'["dr3"] <=> After(op, "dr3", 24)
      /\ 25 \in reg'["dr3"] <=> After(op, "dr3", 25)
  BY <1>3 DEF Registers
<1> HIDE DEF op
<1>5. CASE q # p
  <2>1. /\ Job[q] \in Jobs \ Rivals("latch") /\ MayWrite(Job[q], op)
    BY <1>2, <1>5, NoRival DEF op
  <2>2. Job[q] \in {"panel", "open", "flash"}
    BY <2>1 DEF Jobs, Rivals
  <2>3. /\ op.reg = "dr2" => {26, 27} \intersect op.up = {} /\ {26, 27} \intersect op.down = {}
        /\ op.reg = "gdir2" => {26, 27} \intersect op.down = {}
        /\ op.reg \in {"dr3", "gdir3"} => {24, 25} \intersect op.down = {}
    BY <2>1, <2>2, MayWriteCases DEF Changes
  <2>4. /\ 26 \in reg["gdir2"] => 26 \in reg'["gdir2"]
        /\ 27 \in reg["gdir2"] => 27 \in reg'["gdir2"]
        /\ 24 \in reg["gdir3"] => 24 \in reg'["gdir3"]
        /\ 25 \in reg["gdir3"] => 25 \in reg'["gdir3"]
        /\ 26 \in reg'["dr2"] <=> 26 \in reg["dr2"]
        /\ 27 \in reg'["dr2"] <=> 27 \in reg["dr2"]
        /\ 24 \in reg["dr3"] => 24 \in reg'["dr3"]
        /\ 25 \in reg["dr3"] => 25 \in reg'["dr3"]
    BY <1>4, <2>3 DEF After
  <2>5. pc'[p] = pc[p]
    BY <1>1, <1>2, <1>5
  <2> QED BY <1>1, <2>4, <2>5 DEF LatchAt
<1>6. CASE q = p
  <2>1. /\ pc[p] \in 1 .. 17 /\ Program["latch"][pc[p]].do = "write"
        /\ op = Program["latch"][pc[p]]
    <3>1. pc[p] \in 1 .. Len(Steps(p))
      BY <1>2, <1>6, StepTypes DEF IInv
    <3> QED BY <1>2, <1>6, <3>1, ProgramLengths DEF At, Steps, op
  <2>2. pc[p] \notin {1, 3, 5, 7, 9, 11, 13, 14, 16}
    BY <2>1, LatchReads
  <2>3. pc'[p] = pc[p] + 1
    BY <1>1, <1>2, <1>6
  <2>4. CASE pc[p] \in {2, 15, 17}
    BY <2>3, <2>4 DEF LatchAt
  <2>5. CASE pc[p] = 4
    <3>1. op = Write("gdir2", {26, 27, 17}, {})
      BY <2>1, <2>5, LatchSteps DEF Creset
    <3>2. 26 \in reg'["gdir2"] /\ 27 \in reg'["gdir2"]
      BY <1>4, <3>1, WriteFields DEF After
    <3> QED BY <2>3, <2>5, <3>2 DEF LatchAt
  <2>6. CASE pc[p] = 6
    <3>1. op = Write("dr3", {}, Selects)
      BY <2>1, <2>6, LatchSteps
    <3>2. /\ 26 \in reg'["gdir2"] <=> 26 \in reg["gdir2"]
          /\ 27 \in reg'["gdir2"] <=> 27 \in reg["gdir2"]
      BY <1>4, <3>1, WriteFields DEF After
    <3> QED BY <1>1, <2>3, <2>6, <3>2 DEF LatchAt
  <2>7. CASE pc[p] = 8
    <3>1. op = Write("gdir3", {24, 25}, {})
      BY <2>1, <2>7, LatchSteps DEF Selects
    <3>2. /\ 26 \in reg'["gdir2"] <=> 26 \in reg["gdir2"]
          /\ 27 \in reg'["gdir2"] <=> 27 \in reg["gdir2"]
          /\ 24 \in reg'["gdir3"] /\ 25 \in reg'["gdir3"]
      BY <1>4, <3>1, WriteFields DEF After
    <3> QED BY <1>1, <2>3, <2>7, <3>2 DEF LatchAt
  <2>8. CASE pc[p] = 10
    <3>1. op = Write("dr2", {27}, {26})
      BY <2>1, <2>8, LatchSteps
    <3>2. /\ 26 \in reg'["gdir2"] <=> 26 \in reg["gdir2"]
          /\ 27 \in reg'["gdir2"] <=> 27 \in reg["gdir2"]
          /\ 24 \in reg'["gdir3"] <=> 24 \in reg["gdir3"]
          /\ 25 \in reg'["gdir3"] <=> 25 \in reg["gdir3"]
          /\ 26 \notin reg'["dr2"] /\ 27 \in reg'["dr2"]
      BY <1>4, <3>1, WriteFields DEF After
    <3> QED BY <1>1, <2>3, <2>8, <3>2 DEF LatchAt
  <2>9. CASE pc[p] = 12
    <3>1. op = Write("dr3", {24, 25}, {})
      BY <2>1, <2>9, LatchSteps DEF Selects
    <3>2. /\ 26 \in reg'["gdir2"] <=> 26 \in reg["gdir2"]
          /\ 27 \in reg'["gdir2"] <=> 27 \in reg["gdir2"]
          /\ 24 \in reg'["gdir3"] <=> 24 \in reg["gdir3"]
          /\ 25 \in reg'["gdir3"] <=> 25 \in reg["gdir3"]
          /\ 26 \in reg'["dr2"] <=> 26 \in reg["dr2"]
          /\ 27 \in reg'["dr2"] <=> 27 \in reg["dr2"]
          /\ 24 \in reg'["dr3"] /\ 25 \in reg'["dr3"]
      BY <1>4, <3>1, WriteFields DEF After
    <3> QED BY <1>1, <2>3, <2>9, <3>2 DEF LatchAt
  <2> QED BY <2>1, <2>2, <2>4, <2>5, <2>6, <2>7, <2>8, <2>9
<1> QED BY <1>5, <1>6

LEMMA FlashWrite ==
  ASSUME IInv, NEW p \in Procs, NEW q \in Procs, Job[p] = "flash",
         Alone(p), Whole(p)', WriteRegister(q)
  PROVE  FlashAt(p)'
<1> DEFINE op == Steps(q)[pc[q]]
<1>1. FlashAt(p) /\ pc[p] \in Nat /\ pc \in [Procs -> Nat]
  BY DEF IInv, Reached, TypeOK
<1>2. /\ pc' = [pc EXCEPT ![q] = @ + 1] /\ At(q, "write")
      /\ clocks' = ClocksAfter(reg, reg')
  BY ChipWrites DEF WriteRegister
<1>3. \A r \in Registers : \A pin : pin \in reg'[r] <=> After(op, r, pin)
  BY WriteEffect DEF IInv
<1>4. /\ 30 \in reg'["dr2"] <=> After(op, "dr2", 30)
      /\ 16 \in reg'["dr3"] <=> After(op, "dr3", 16)
      /\ 25 \in reg'["dr3"] <=> After(op, "dr3", 25)
      /\ 16 \in reg'["gdir3"] <=> After(op, "gdir3", 16)
  BY <1>3 DEF Registers
<1>5. /\ 30 \in reg'["dr2"] => clocks' = 0
      /\ 30 \notin reg'["dr2"] /\ (16 \in reg["dr3"] \/ 16 \notin reg'["dr3"])
           => clocks' = clocks
      /\ /\ 30 \notin reg'["dr2"] /\ 16 \notin reg["dr3"] /\ 16 \in reg'["dr3"]
         /\ 16 \in reg'["gdir3"] /\ 25 \in reg'["dr3"]
         => clocks' = clocks + 1
  BY <1>2 DEF ClocksAfter, High, FlashCs, Sclk, Hold
<1> HIDE DEF op
<1>6. CASE q # p
  <2>1. /\ Job[q] \in Jobs \ Rivals("flash") /\ MayWrite(Job[q], op)
    BY <1>2, <1>6, NoRival DEF op
  <2>2. Job[q] \in {"panel", "open", "upload"}
    BY <2>1 DEF Jobs, Rivals
  <2>3. /\ op.reg = "dr2" => 30 \notin op.up /\ 30 \notin op.down
        /\ op.reg = "dr3" => 16 \notin op.up /\ 16 \notin op.down /\ 25 \notin op.down
        /\ op.reg # "gdir3"
    BY <2>1, <2>2, MayWriteCases DEF Changes
  <2>4. /\ 30 \in reg'["dr2"] <=> 30 \in reg["dr2"]
        /\ 16 \in reg'["dr3"] <=> 16 \in reg["dr3"]
        /\ 25 \in reg["dr3"] => 25 \in reg'["dr3"]
        /\ 16 \in reg'["gdir3"] <=> 16 \in reg["gdir3"]
    BY <1>4, <2>3 DEF After
  <2>5. pc'[p] = pc[p]
    BY <1>1, <1>2, <1>6
  <2> QED BY <1>1, <1>5, <2>4, <2>5 DEF FlashAt, FlashCs, Sclk, Hold
<1>7. CASE q = p
  <2>1. /\ pc[p] \in 1 .. 19 /\ Program["flash"][pc[p]].do = "write"
        /\ op = Program["flash"][pc[p]]
    <3>1. pc[p] \in 1 .. Len(Steps(p))
      BY <1>2, <1>7, StepTypes DEF IInv
    <3> QED BY <1>2, <1>7, <3>1, ProgramLengths DEF At, Steps, op
  <2>2. pc[p] \notin {1, 3, 5, 6, 9, 11, 13, 15, 16, 18}
    BY <2>1, FlashReads
  <2>3. pc'[p] = pc[p] + 1
    BY <1>1, <1>2, <1>7
  <2>4. CASE pc[p] \in {17, 19}
    BY <2>3, <2>4 DEF FlashAt
  <2>5. CASE pc[p] = 2
    <3>1. op = Write("dr2", {30}, {})
      BY <2>1, <2>5, FlashSteps DEF FlashCs
    <3>2. /\ 30 \in reg'["dr2"]
      BY <1>4, <3>1, WriteFields DEF After
    <3> QED
      BY <1>1, <1>5, <2>3, <2>5, <3>2
      DEF FlashAt, FlashCs, Sclk, Hold
  <2>6. CASE pc[p] = 4
    <3>1. op = Write("gdir2", {30}, {})
      BY <2>1, <2>6, FlashSteps DEF FlashCs
    <3>2. /\ 30 \in reg'["dr2"] <=> 30 \in reg["dr2"]
      BY <1>4, <3>1, WriteFields DEF After
    <3> QED
      BY <1>1, <1>5, <2>3, <2>6, <3>2
      DEF FlashAt, FlashCs, Sclk, Hold
  <2>7. CASE pc[p] = 7
    <3>1. op = Write("dr3", {19, 25}, {16, 18})
      BY <2>1, <2>7, FlashSteps DEF Wp, Hold, Sclk, Mosi
    <3>2. /\ 30 \in reg'["dr2"] <=> 30 \in reg["dr2"]
          /\ 16 \notin reg'["dr3"]
          /\ 25 \in reg'["dr3"]
      BY <1>4, <3>1, WriteFields DEF After
    <3> QED
      BY <1>1, <1>5, <2>3, <2>7, <3>2
      DEF FlashAt, FlashCs, Sclk, Hold
  <2>8. CASE pc[p] = 8
    <3>1. op = Write("gdir3", {16, 18, 19, 25}, {17})
      BY <2>1, <2>8, FlashSteps DEF Wp, Hold, Sclk, Mosi, Miso
    <3>2. /\ 30 \in reg'["dr2"] <=> 30 \in reg["dr2"]
          /\ 16 \in reg'["dr3"] <=> 16 \in reg["dr3"]
          /\ 25 \in reg'["dr3"] <=> 25 \in reg["dr3"]
          /\ 16 \in reg'["gdir3"]
      BY <1>4, <3>1, WriteFields DEF After
    <3> QED
      BY <1>1, <1>5, <2>3, <2>8, <3>2
      DEF FlashAt, FlashCs, Sclk, Hold
  <2>9. CASE pc[p] = 10
    <3>1. op = Write("dr2", {}, {30})
      BY <2>1, <2>9, FlashSteps DEF FlashCs
    <3>2. /\ 30 \notin reg'["dr2"]
          /\ 16 \in reg'["dr3"] <=> 16 \in reg["dr3"]
          /\ 25 \in reg'["dr3"] <=> 25 \in reg["dr3"]
          /\ 16 \in reg'["gdir3"] <=> 16 \in reg["gdir3"]
      BY <1>4, <3>1, WriteFields DEF After
    <3> QED
      BY <1>1, <1>5, <2>3, <2>9, <3>2
      DEF FlashAt, FlashCs, Sclk, Hold
  <2>10. CASE pc[p] = 12
    <3>1. op = Write("dr3", {18}, {})
      BY <2>1, <2>10, FlashSteps DEF Mosi
    <3>2. /\ 30 \in reg'["dr2"] <=> 30 \in reg["dr2"]
          /\ 16 \in reg'["dr3"] <=> 16 \in reg["dr3"]
          /\ 25 \in reg["dr3"] => 25 \in reg'["dr3"]
          /\ 16 \in reg'["gdir3"] <=> 16 \in reg["gdir3"]
      BY <1>4, <3>1, WriteFields DEF After
    <3> QED
      BY <1>1, <1>5, <2>3, <2>10, <3>2
      DEF FlashAt, FlashCs, Sclk, Hold
  <2>11. CASE pc[p] = 14
    <3>1. op = Write("dr3", {16}, {})
      BY <2>1, <2>11, FlashSteps DEF Sclk
    <3>2. /\ 30 \in reg'["dr2"] <=> 30 \in reg["dr2"]
          /\ 16 \in reg'["dr3"]
          /\ 25 \in reg["dr3"] => 25 \in reg'["dr3"]
          /\ 16 \in reg'["gdir3"] <=> 16 \in reg["gdir3"]
      BY <1>4, <3>1, WriteFields DEF After
    <3> QED
      BY <1>1, <1>5, <2>3, <2>11, <3>2
      DEF FlashAt, FlashCs, Sclk, Hold
  <2> QED BY <2>1, <2>2, <2>4, <2>5, <2>6, <2>7, <2>8, <2>9, <2>10, <2>11
<1> QED BY <1>6, <1>7

LEMMA UploadWrite ==
  ASSUME IInv, NEW p \in Procs, NEW q \in Procs, Job[p] = "upload",
         Alone(p), Whole(p)', WriteRegister(q)
  PROVE  UploadAt(p)'
<1> DEFINE op == Steps(q)[pc[q]]
<1>1. UploadAt(p) /\ pc[p] \in Nat /\ pc \in [Procs -> Nat]
  BY DEF IInv, Reached, TypeOK
<1>2. /\ pc' = [pc EXCEPT ![q] = @ + 1] /\ At(q, "write")
      /\ fpga' = FpgaAfter(reg')
  BY ChipWrites DEF WriteRegister
<1>3. \A r \in Registers : \A pin : pin \in reg'[r] <=> After(op, r, pin)
  BY WriteEffect DEF IInv
<1>4. /\ 17 \in reg'["dr2"] <=> After(op, "dr2", 17)
      /\ 17 \in reg'["gdir2"] <=> After(op, "gdir2", 17)
  BY <1>3 DEF Registers
<1>5. 17 \in reg'["gdir2"] =>
        /\ 17 \notin reg'["dr2"] => fpga' = "held"
        /\ 17 \in reg'["dr2"] => fpga' = IF fpga = "held" THEN "blank" ELSE fpga
  BY <1>2 DEF FpgaAfter, High, Creset
<1> HIDE DEF op
<1>6. CASE q # p
  <2>1. /\ Job[q] \in Jobs \ Rivals("upload") /\ MayWrite(Job[q], op)
    BY <1>2, <1>6, NoRival DEF op
  <2>2. Job[q] \in {"panel", "open", "flash"}
    BY <2>1 DEF Jobs, Rivals
  <2>3. op.reg \in {"dr2", "gdir2"} => 17 \notin op.up /\ 17 \notin op.down
    BY <2>1, <2>2, MayWriteCases DEF Changes
  <2>4. /\ 17 \in reg'["dr2"] <=> 17 \in reg["dr2"]
        /\ 17 \in reg'["gdir2"] <=> 17 \in reg["gdir2"]
    BY <1>4, <2>3 DEF After
  <2>5. pc'[p] = pc[p]
    BY <1>1, <1>2, <1>6
  <2> QED BY <1>1, <1>5, <2>4, <2>5 DEF UploadAt, Creset
<1>7. CASE q = p
  <2>1. /\ pc[p] \in 1 .. 12 /\ Program["upload"][pc[p]].do = "write"
        /\ op = Program["upload"][pc[p]]
    <3>1. pc[p] \in 1 .. Len(Steps(p))
      BY <1>2, <1>7, StepTypes DEF IInv
    <3> QED BY <1>2, <1>7, <3>1, ProgramLengths DEF At, Steps, op
  <2>2. pc[p] \notin {1, 3, 5, 7, 9, 11}
    BY <2>1, UploadReads
  <2>3. pc'[p] = pc[p] + 1
    BY <1>1, <1>2, <1>7
  <2>4. CASE pc[p] \in {2, 4, 6, 8}
    BY <2>3, <2>4 DEF UploadAt
  <2>5. CASE pc[p] = 10
    <3>1. op = Write("dr2", {}, {17})
      BY <2>1, <2>5, UploadSteps DEF Creset
    <3>2. /\ 17 \notin reg'["dr2"]
      BY <1>4, <3>1, WriteFields DEF After
    <3> QED
      BY <1>1, <1>5, <2>3, <2>5, <3>2
      DEF UploadAt, Creset
  <2>6. CASE pc[p] = 12
    <3>1. op = Write("dr2", {17}, {})
      BY <2>1, <2>6, UploadSteps DEF Creset
    <3>2. /\ 17 \in reg'["dr2"]
          /\ 17 \in reg'["gdir2"] <=> 17 \in reg["gdir2"]
      BY <1>4, <3>1, WriteFields, SMTT(60) DEF After
    <3> QED
      BY <1>1, <1>5, <2>3, <2>6, <3>2
      DEF UploadAt, Creset
  <2> QED BY <2>1, <2>2, <2>4, <2>5, <2>6
<1> QED BY <1>6, <1>7

-----------------------------------------------------------------------------
LEMMA WriteTypes ==
  ASSUME TypeOK, NEW q \in Procs, WriteRegister(q)
  PROVE  TypeOK'
<1> DEFINE op == Steps(q)[pc[q]]
           is == [reg EXCEPT ![op.reg] = (seen[q][op.reg] \union op.up) \ op.down]
<1>1. /\ op \in Accesses /\ pc[q] \in 1 .. Len(Steps(q)) /\ Steps(q) \in Seq(Accesses)
  BY WriteTaken, Zenon
<1>2. /\ reg' = is /\ seen' = [seen EXCEPT ![q][op.reg] = {}]
      /\ pc' = [pc EXCEPT ![q] = @ + 1]
      /\ torn' = IF seen[q][op.reg] # reg[op.reg] THEN Running ELSE torn
      /\ pnlc' = ChipAfter(pnlc, reg, is, PnlcReset, PnlcBoot)
      /\ csc' = ChipAfter(csc, reg, is, CscReset, CscBoot)
      /\ clocks' = ClocksAfter(reg, is) /\ fpga' = FpgaAfter(is)
      /\ starts' = starts /\ met' = met
  BY DEF WriteRegister
<1>3. op.reg \in Registers /\ op.up \in SUBSET Pins /\ op.down \in SUBSET Pins
  BY <1>1 DEF Accesses
<1> HIDE DEF op
<1>4. /\ reg \in [Registers -> SUBSET Pins] /\ seen \in [Procs -> [Registers -> SUBSET Pins]]
      /\ pc \in [Procs -> Nat] /\ \A p \in Procs : pc[p] <= Len(Steps(p)) + 1
      /\ torn \subseteq Procs /\ pnlc \in Chip /\ csc \in Chip
      /\ clocks \in Nat /\ fpga \in {"old", "held", "blank"}
  BY DEF TypeOK
<1>5. reg' \in [Registers -> SUBSET Pins]
  <2>1. seen[q][op.reg] \in SUBSET Pins
    BY <1>3, <1>4
  <2>2. (seen[q][op.reg] \union op.up) \ op.down \in SUBSET Pins
    BY <1>3, <2>1
  <2> QED BY <1>2, <1>3, <1>4, <2>2
<1>6. seen' \in [Procs -> [Registers -> SUBSET Pins]]
  BY <1>2, <1>3, <1>4
<1>7. pc' \in [Procs -> Nat] /\ \A p \in Procs : pc'[p] <= Len(Steps(p)) + 1
  BY <1>1, <1>2, <1>4 DEF Steps
<1>8. pnlc' \in Chip /\ csc' \in Chip
  BY <1>2, <1>4 DEF ChipAfter, Chip
<1>9. clocks' \in Nat /\ fpga' \in {"old", "held", "blank"}
  BY <1>2, <1>4 DEF ClocksAfter, FpgaAfter
<1>10. torn' \subseteq Procs
  BY <1>2, <1>4 DEF Running
<1> QED BY <1>2, <1>5, <1>6, <1>7, <1>8, <1>9, <1>10, SMTT(60) DEF TypeOK, Steps

(* What a program has reached depends on its counter, the registers and    *)
(* the devices alone.                                                      *)
LEMMA ReachedStays ==
  ASSUME NEW p, pc'[p] = pc[p], UNCHANGED <<reg, devices>>, Reached(p)
  PROVE  Reached(p)'
BY ZenonT(60) DEF Reached, PanelAt, OpenAt, LatchAt, FlashAt, UploadAt, devices

LEMMA ReachedAtStart ==
  ASSUME NEW p \in Procs, pc'[p] = 1
  PROVE  Reached(p)'
<1>1. Job[p] \in Jobs
  BY ProcsAssumption
<1>2. CASE Job[p] = "panel"
  <2>1. PanelAt(p)'
    BY DEF PanelAt
  <2> QED BY <1>2, <2>1 DEF Reached
<1>3. CASE Job[p] = "open"
  <2>1. OpenAt(p)'
    BY DEF OpenAt
  <2> QED BY <1>3, <2>1 DEF Reached
<1>4. CASE Job[p] = "latch"
  <2>1. LatchAt(p)'
    BY DEF LatchAt
  <2> QED BY <1>4, <2>1 DEF Reached
<1>5. CASE Job[p] = "flash"
  <2>1. FlashAt(p)'
    BY DEF FlashAt
  <2> QED BY <1>5, <2>1 DEF Reached
<1>6. CASE Job[p] = "upload"
  <2>1. UploadAt(p)'
    BY DEF UploadAt
  <2> QED BY <1>6, <2>1 DEF Reached
<1> QED BY <1>1, <1>2, <1>3, <1>4, <1>5, <1>6 DEF Jobs

(* The accesses that are writes. *)
LEMMA LatchWriteSteps ==
  \A k \in {2, 4, 6, 8, 10, 12, 15, 17} : Program["latch"][k].do = "write"
<1>1. Program["latch"][2].do = "write"
  BY LatchSteps, WriteFields
<1>2. Program["latch"][4].do = "write"
  BY LatchSteps, WriteFields
<1>3. Program["latch"][6].do = "write"
  BY LatchSteps, WriteFields
<1>4. Program["latch"][8].do = "write"
  BY LatchSteps, WriteFields
<1>5. Program["latch"][10].do = "write"
  BY LatchSteps, WriteFields
<1>6. Program["latch"][12].do = "write"
  BY LatchSteps, WriteFields
<1>7. Program["latch"][15].do = "write"
  BY LatchSteps, WriteFields
<1>8. Program["latch"][17].do = "write"
  BY LatchSteps, WriteFields
<1> QED BY <1>1, <1>2, <1>3, <1>4, <1>5, <1>6, <1>7, <1>8

LEMMA FlashWriteSteps ==
  \A k \in {2, 4, 7, 8, 10, 12, 14, 17, 19} : Program["flash"][k].do = "write"
<1>1. Program["flash"][2].do = "write"
  BY FlashSteps, WriteFields
<1>2. Program["flash"][4].do = "write"
  BY FlashSteps, WriteFields
<1>3. Program["flash"][7].do = "write"
  BY FlashSteps, WriteFields
<1>4. Program["flash"][8].do = "write"
  BY FlashSteps, WriteFields
<1>5. Program["flash"][10].do = "write"
  BY FlashSteps, WriteFields
<1>6. Program["flash"][12].do = "write"
  BY FlashSteps, WriteFields
<1>7. Program["flash"][14].do = "write"
  BY FlashSteps, WriteFields
<1>8. Program["flash"][17].do = "write"
  BY FlashSteps, WriteFields
<1>9. Program["flash"][19].do = "write"
  BY FlashSteps, WriteFields
<1> QED BY <1>1, <1>2, <1>3, <1>4, <1>5, <1>6, <1>7, <1>8, <1>9

LEMMA UploadWriteSteps ==
  \A k \in {2, 4, 6, 8, 10, 12} : Program["upload"][k].do = "write"
<1>1. Program["upload"][2].do = "write"
  BY UploadSteps, WriteFields
<1>2. Program["upload"][4].do = "write"
  BY UploadSteps, WriteFields
<1>3. Program["upload"][6].do = "write"
  BY UploadSteps, WriteFields
<1>4. Program["upload"][8].do = "write"
  BY UploadSteps, WriteFields
<1>5. Program["upload"][10].do = "write"
  BY UploadSteps, WriteFields
<1>6. Program["upload"][12].do = "write"
  BY UploadSteps, WriteFields
<1> QED BY <1>1, <1>2, <1>3, <1>4, <1>5, <1>6

(* Reading a register and using a device change nothing a program relies on.*)
LEMMA ReachedByReading ==
  ASSUME TypeOK, NEW p \in Procs, Reached(p), UNCHANGED <<reg, devices>>,
         pc'[p] = pc[p] + 1, At(p, "read") \/ At(p, "exchange") \/ At(p, "sample")
  PROVE  Reached(p)'
<1> DEFINE k == pc[p]
           j == Job[p]
<1>1. /\ j \in Jobs /\ k \in 1 .. Len(Program[j])
      /\ Program[j][k].do \in {"read", "exchange", "sample"} /\ Program[j][k].do # "write"
  BY StepTypes DEF At, Steps
<1>2. /\ reg' = reg /\ pnlc' = pnlc /\ csc' = csc /\ clocks' = clocks /\ fpga' = fpga
      /\ pc'[p] = k + 1 /\ Job[p] = j
  BY DEF devices
<1>3. CASE j = "panel"
  <2>1. k \in {1, 3, 5}
    <3>1. k \in 1 .. 6
      BY <1>1, <1>3, ProgramLengths
    <3>2. k \notin {2, 4, 6}
      BY <1>1, <1>3, PanelSteps, WriteFields, SMTT(60)
    <3> QED BY <3>1, <3>2
  <2>2. PanelAt(p)
    BY <1>3 DEF Reached
  <2>3. PanelAt(p)'
    BY <1>2, <2>1, <2>2 DEF PanelAt
  <2> QED BY <1>3, <2>3 DEF Reached
<1>4. CASE j = "open"
  <2>1. k \in {1, 3, 5}
    <3>1. k \in 1 .. 6
      BY <1>1, <1>4, ProgramLengths
    <3>2. k \notin {2, 4, 6}
      BY <1>1, <1>4, OpenSteps, WriteFields, SMTT(60)
    <3> QED BY <3>1, <3>2
  <2>2. OpenAt(p)
    BY <1>4 DEF Reached
  <2>3. OpenAt(p)'
    BY <1>2, <2>1, <2>2 DEF OpenAt
  <2> QED BY <1>4, <2>3 DEF Reached
<1>5. CASE j = "latch"
  <2>1. k \in {1, 3, 5, 7, 9, 11, 13, 14, 16}
    <3>1. k \in 1 .. 17
      BY <1>1, <1>5, ProgramLengths
    <3>2. k \notin {2, 4, 6, 8, 10, 12, 15, 17}
      BY <1>1, <1>5, LatchWriteSteps, ZenonT(60)
    <3> QED BY <3>1, <3>2
  <2>2. LatchAt(p)
    BY <1>5 DEF Reached
  <2>3. LatchAt(p)'
    BY <1>2, <2>1, <2>2 DEF LatchAt
  <2> QED BY <1>5, <2>3 DEF Reached
<1>6. CASE j = "flash"
  <2>1. k \in {1, 3, 5, 6, 9, 11, 13, 15, 16, 18}
    <3>1. k \in 1 .. 19
      BY <1>1, <1>6, ProgramLengths
    <3>2. k \notin {2, 4, 7, 8, 10, 12, 14, 17, 19}
      BY <1>1, <1>6, FlashWriteSteps, ZenonT(60)
    <3> QED BY <3>1, <3>2
  <2>2. FlashAt(p)
    BY <1>6 DEF Reached
  <2>3. FlashAt(p)'
    BY <1>2, <2>1, <2>2 DEF FlashAt
  <2> QED BY <1>6, <2>3 DEF Reached
<1>7. CASE j = "upload"
  <2>1. k \in {1, 3, 5, 7, 9, 11}
    <3>1. k \in 1 .. 12
      BY <1>1, <1>7, ProgramLengths
    <3>2. k \notin {2, 4, 6, 8, 10, 12}
      BY <1>1, <1>7, UploadWriteSteps
    <3> QED BY <3>1, <3>2
  <2>2. UploadAt(p)
    BY <1>7 DEF Reached
  <2>3. UploadAt(p)'
    BY <1>2, <2>1, <2>2 DEF UploadAt
  <2> QED BY <1>7, <2>3 DEF Reached
<1> QED BY <1>1, <1>3, <1>4, <1>5, <1>6, <1>7, SMTT(60) DEF Jobs

-----------------------------------------------------------------------------
(* One lemma per action.                                                   *)

LEMMA StartInv ==
  ASSUME IInv, NEW p \in Procs, Start(p)
  PROVE  IInv'
<1>1. /\ pc[p] = 0 /\ starts < MaxStarts
      /\ pc' = [pc EXCEPT ![p] = 1] /\ starts' = starts + 1 /\ torn' = torn \ {p}
      /\ met' = [q \in Procs |->
                   IF q = p THEN {Job[o] : o \in Running}
                   ELSE IF q \in Running THEN met[q] \union {Job[p]} ELSE {}]
      /\ reg' = reg /\ seen' = seen /\ UNCHANGED devices
  BY DEF Start
<1>2. /\ pc \in [Procs -> Nat] /\ \A q \in Procs : pc[q] <= Len(Steps(q)) + 1
      /\ met \in [Procs -> SUBSET Jobs] /\ starts \in 0 .. MaxStarts
      /\ torn \subseteq Procs
  BY DEF IInv, TypeOK
<1>3. Running' = Running \union {p} /\ p \notin Running
  BY <1>1, <1>2 DEF Running
<1>4. TypeOK'
  <2>1. pc' \in [Procs -> Nat] /\ \A q \in Procs : pc'[q] <= Len(Steps(q)) + 1
    <3>1. Len(Steps(p)) \in Nat
      BY StepTypes DEF IInv
    <3> QED BY <1>1, <1>2, <3>1
  <2>2. \A q \in Procs : Job[q] \in Jobs
    BY ProcsAssumption
  <2>3. met' \in [Procs -> SUBSET Jobs]
    BY <1>1, <1>2, <2>2 DEF Running
  <2>4. starts' \in 0 .. MaxStarts
    BY <1>1, <1>2, ProcsAssumption
  <2> QED BY <1>1, <1>2, <2>1, <2>3, <2>4 DEF IInv, TypeOK, devices, Steps
<1>5. Bystanders'
  BY <1>1, <1>3 DEF IInv, Bystanders, Running
<1>6. ASSUME NEW x \in Procs, Alone(x)'
      PROVE  Reached(x)'
  <2>1. CASE x = p
    BY <1>1, <1>2, <2>1, ReachedAtStart
  <2>2. CASE x # p
    <3>1. x \in Running /\ x \notin torn
      BY <1>1, <1>3, <1>6, <2>2 DEF Alone, Whole
    <3>2. met[x] \subseteq met'[x]
      BY <1>1, <2>2, <3>1
    <3>3. Alone(x)
      BY <1>6, <3>1, <3>2 DEF Alone, Whole, Met
    <3>4. pc'[x] = pc[x]
      BY <1>1, <1>2, <2>2
    <3> QED BY <1>1, <3>3, <3>4, ReachedStays DEF IInv
  <2> QED BY <2>1, <2>2
<1> QED BY <1>4, <1>5, <1>6 DEF IInv

LEMMA StopInv ==
  ASSUME IInv, NEW p \in Procs, Stop(p)
  PROVE  IInv'
<1>1. /\ pc' = [pc EXCEPT ![p] = 0] /\ seen' = [seen EXCEPT ![p] = Nothing]
      /\ torn' = torn \ {p} /\ met' = [met EXCEPT ![p] = {}]
      /\ reg' = reg /\ starts' = starts /\ UNCHANGED devices
  BY DEF Stop
<1>2. /\ pc \in [Procs -> Nat] /\ \A q \in Procs : pc[q] <= Len(Steps(q)) + 1
      /\ met \in [Procs -> SUBSET Jobs] /\ torn \subseteq Procs
      /\ seen \in [Procs -> [Registers -> SUBSET Pins]]
  BY DEF IInv, TypeOK
<1>3. Running' = Running \ {p}
  BY <1>1, <1>2 DEF Running
<1>4. TypeOK'
  <2>1. pc' \in [Procs -> Nat] /\ \A q \in Procs : pc'[q] <= Len(Steps(q)) + 1
    <3>1. Len(Steps(p)) \in Nat
      BY StepTypes DEF IInv
    <3> QED BY <1>1, <1>2, <3>1
  <2>2. seen' \in [Procs -> [Registers -> SUBSET Pins]] /\ met' \in [Procs -> SUBSET Jobs]
    BY <1>1, <1>2 DEF Nothing
  <2> QED BY <1>1, <1>2, <2>1, <2>2 DEF IInv, TypeOK, devices, Steps
<1>5. Bystanders'
  BY <1>1, <1>2, <1>3 DEF IInv, Bystanders, Running
<1>6. ASSUME NEW x \in Procs, Alone(x)'
      PROVE  Reached(x)'
  <2>1. x # p /\ x \in Running /\ x \notin torn
    BY <1>1, <1>3, <1>6 DEF Alone, Whole
  <2>2. met'[x] = met[x] /\ pc'[x] = pc[x]
    BY <1>1, <1>2, <2>1
  <2>3. Alone(x)
    BY <1>6, <2>1, <2>2 DEF Alone, Whole, Met
  <2> QED BY <1>1, <2>2, <2>3, ReachedStays DEF IInv
<1> QED BY <1>4, <1>5, <1>6 DEF IInv

LEMMA ReadInv ==
  ASSUME IInv, NEW p \in Procs, ReadRegister(p) \/ UseDevice(p)
  PROVE  IInv'
<1>1. /\ At(p, "read") \/ At(p, "exchange") \/ At(p, "sample")
      /\ pc' = [pc EXCEPT ![p] = @ + 1]
      /\ reg' = reg /\ starts' = starts /\ torn' = torn /\ met' = met
      /\ UNCHANGED devices
  BY DEF ReadRegister, UseDevice
<1>2. /\ pc \in [Procs -> Nat] /\ \A q \in Procs : pc[q] <= Len(Steps(q)) + 1
      /\ seen \in [Procs -> [Registers -> SUBSET Pins]] /\ reg \in [Registers -> SUBSET Pins]
  BY DEF IInv, TypeOK
<1>3. pc[p] \in 1 .. Len(Steps(p)) /\ Steps(p)[pc[p]] \in Accesses /\ Len(Steps(p)) \in Nat
  BY <1>1, StepTypes DEF IInv
<1>4. Running' = Running
  BY <1>1, <1>2, <1>3 DEF Running
<1>5. seen' \in [Procs -> [Registers -> SUBSET Pins]]
  <2>1. CASE UseDevice(p)
    BY <1>2, <2>1 DEF UseDevice
  <2>2. CASE ReadRegister(p)
    <3> DEFINE r == Steps(p)[pc[p]].reg
    <3>1. seen' = [seen EXCEPT ![p][r] = reg[r]]
      BY <2>2 DEF ReadRegister
    <3>2. r \in Registers
      BY <1>3 DEF Accesses
    <3> HIDE DEF r
    <3> QED BY <1>2, <3>1, <3>2
  <2> QED BY <2>1, <2>2
<1>6. pc' \in [Procs -> Nat] /\ \A q \in Procs : pc'[q] <= Len(Steps(q)) + 1
  BY <1>1, <1>2, <1>3
<1>7. TypeOK'
  BY <1>1, <1>5, <1>6 DEF IInv, TypeOK, devices, Steps
<1>8. Bystanders'
  BY <1>1, <1>4 DEF IInv, Bystanders
<1>9. ASSUME NEW x \in Procs, Alone(x)'
      PROVE  Reached(x)'
  <2>1. Alone(x)
    BY <1>1, <1>4, <1>9 DEF Alone, Whole, Met
  <2>2. Reached(x)
    BY <2>1 DEF IInv
  <2>3. CASE x = p
    <3>1. pc'[p] = pc[p] + 1
      BY <1>1, <1>2
    <3> QED BY <1>1, <2>2, <2>3, <3>1, ReachedByReading DEF IInv
  <2>4. CASE x # p
    <3>1. pc'[x] = pc[x]
      BY <1>1, <1>2, <2>4
    <3> QED BY <1>1, <2>2, <3>1, ReachedStays
  <2> QED BY <2>3, <2>4
<1> QED BY <1>7, <1>8, <1>9 DEF IInv

LEMMA WriteInv ==
  ASSUME IInv, NEW q \in Procs, WriteRegister(q)
  PROVE  IInv'
<1>1. TypeOK'
  BY WriteTypes DEF IInv
<1>2. pc' = [pc EXCEPT ![q] = @ + 1] /\ met' = met
  BY ChipWrites, SMTT(60)
<1>3. pc \in [Procs -> Nat] /\ pc[q] > 0
  BY WriteTaken, Zenon DEF IInv, TypeOK
<1>4. Running' = Running
  BY <1>2, <1>3 DEF Running
<1>5. Bystanders'
  BY <1>2, <1>4 DEF IInv, Bystanders
<1>6. ASSUME NEW p \in Procs, Alone(p)'
      PROVE  Reached(p)'
  <2>1. Whole(p)'
    BY <1>6 DEF Alone
  <2>2. Whole(p)
    BY <2>1, WriteEffect DEF IInv
  <2>3. Alone(p)
    BY <1>2, <1>6, <2>2 DEF Alone, Met
  <2>4. Job[p] \in Jobs
    BY ProcsAssumption
  <2>5. CASE Job[p] = "panel"
    BY <2>1, <2>3, <2>5, PanelWrite DEF Reached
  <2>6. CASE Job[p] = "open"
    BY <2>1, <2>3, <2>6, OpenWrite DEF Reached
  <2>7. CASE Job[p] = "latch"
    BY <2>1, <2>3, <2>7, LatchWrite DEF Reached
  <2>8. CASE Job[p] = "flash"
    BY <2>1, <2>3, <2>8, FlashWrite DEF Reached
  <2>9. CASE Job[p] = "upload"
    BY <2>1, <2>3, <2>9, UploadWrite DEF Reached
  <2> QED BY <2>4, <2>5, <2>6, <2>7, <2>8, <2>9 DEF Jobs
<1> QED BY <1>1, <1>5, <1>6 DEF IInv

-----------------------------------------------------------------------------
(* The only accesses that are no register's: the transfer of a latch update*)
(* and the sample of a flash read.                                         *)
LEMMA DeviceSteps ==
  ASSUME NEW j \in Jobs, NEW k \in 1 .. Len(Program[j])
  PROVE  /\ Program[j][k].do = "exchange" => j = "latch" /\ k = 13
         /\ Program[j][k].do = "sample" <=> j = "flash" /\ k = 15
<1>1. CASE j = "panel"
  <2>1. k \in 1 .. 6
    BY <1>1, ProgramLengths
  <2>2. CASE k \in {1, 3, 5}
    BY <1>1, <2>2, PanelSteps, OtherFields, SMTT(60)
  <2>3. CASE k \in {2, 4, 6}
    BY <1>1, <2>3, PanelSteps, WriteFields, SMTT(60)
  <2> QED BY <2>1, <2>2, <2>3
<1>2. CASE j = "open"
  <2>1. k \in 1 .. 6
    BY <1>2, ProgramLengths
  <2>2. CASE k \in {1, 3, 5}
    BY <1>2, <2>2, OpenSteps, OtherFields, SMTT(60)
  <2>3. CASE k \in {2, 4, 6}
    BY <1>2, <2>3, OpenSteps, WriteFields, SMTT(60)
  <2> QED BY <2>1, <2>2, <2>3
<1>3. CASE j = "latch"
  <2>1. k \in 1 .. 17
    BY <1>3, ProgramLengths
  <2>2. CASE k \in {1, 3, 5, 7, 9, 11, 14, 16}
    <3>1. \E r : Program["latch"][k] = Read(r)
      <4>1. \/ Program["latch"][k] = Read("dr2") \/ Program["latch"][k] = Read("gdir2")
            \/ Program["latch"][k] = Read("dr3") \/ Program["latch"][k] = Read("gdir3")
        BY <2>2, LatchSteps, ZenonT(60)
      <4> QED BY <4>1
    <3> QED BY <1>3, <2>2, <3>1, OtherFields
  <2>3. CASE k \in {2, 4, 6, 8, 10, 12, 15, 17}
    BY <1>3, <2>3, LatchWriteSteps, ZenonT(60)
  <2>4. CASE k = 13
    BY <1>3, <2>4, LatchSteps, OtherFields
  <2> QED BY <2>1, <2>2, <2>3, <2>4
<1>4. CASE j = "flash"
  <2>1. k \in 1 .. 19
    BY <1>4, ProgramLengths
  <2>2. CASE k \in {1, 3, 5, 6, 9, 11, 13, 16, 18}
    <3>1. \E r : Program["flash"][k] = Read(r)
      <4>1. \/ Program["flash"][k] = Read("dr2") \/ Program["flash"][k] = Read("gdir2")
            \/ Program["flash"][k] = Read("dr3") \/ Program["flash"][k] = Read("gdir3")
        BY <2>2, FlashSteps
      <4> QED BY <4>1
    <3> QED BY <1>4, <2>2, <3>1, OtherFields
  <2>3. CASE k \in {2, 4, 7, 8, 10, 12, 14, 17, 19}
    <3>1. Program["flash"][k].do = "write"
      BY <2>3, FlashWriteSteps
    <3> QED BY <1>4, <2>3, <3>1
  <2>4. CASE k = 15
    BY <1>4, <2>4, FlashSteps, OtherFields
  <2> QED BY <2>1, <2>2, <2>3, <2>4
<1>5. CASE j = "upload"
  <2>1. k \in 1 .. 12
    BY <1>5, ProgramLengths
  <2>2. CASE k \in {1, 3, 5, 7, 9, 11}
    BY <1>5, <2>2, UploadReads
  <2>3. CASE k \in {2, 4, 6, 8, 10, 12}
    BY <1>5, <2>3, UploadWriteSteps
  <2> QED BY <2>1, <2>2, <2>3
<1> QED BY <1>1, <1>2, <1>3, <1>4, <1>5 DEF Jobs

LEMMA InitInv == Init => IInv
<1> SUFFICES ASSUME Init
             PROVE  IInv
  OBVIOUS
<1>1. Nothing \in [Registers -> SUBSET Pins]
  BY DEF Nothing
<1>2. \A p \in Procs : Len(Steps(p)) \in Nat
  <2>1. \A j \in Jobs : Len(Program[j]) \in Nat
    BY ProgramLengths DEF Jobs
  <2> QED BY <2>1, ProcsAssumption DEF Steps
<1>3. TypeOK
  BY <1>1, <1>2, ProcsAssumption DEF Init, TypeOK, Chip
<1>4. Running = {}
  BY DEF Init, Running
<1> QED BY <1>3, <1>4 DEF IInv, Bystanders, Alone, Whole

LEMMA NextInv == IInv /\ [Next]_vars => IInv'
<1> SUFFICES ASSUME IInv, [Next]_vars
             PROVE  IInv'
  OBVIOUS
<1>1. CASE Next
  <2>1. PICK p \in Procs :
          \/ Start(p) \/ Stop(p) \/ ReadRegister(p) \/ WriteRegister(p) \/ UseDevice(p)
    BY <1>1 DEF Next
  <2>2. CASE Start(p)
    BY <2>2, StartInv
  <2>3. CASE Stop(p)
    BY <2>3, StopInv
  <2>4. CASE ReadRegister(p) \/ UseDevice(p)
    BY <2>4, ReadInv
  <2>5. CASE WriteRegister(p)
    BY <2>5, WriteInv
  <2> QED BY <2>1, <2>2, <2>3, <2>4, <2>5
<1>2. CASE UNCHANGED vars
  <2>1. /\ pc' = pc /\ reg' = reg /\ seen' = seen /\ starts' = starts /\ torn' = torn
        /\ met' = met /\ pnlc' = pnlc /\ csc' = csc /\ clocks' = clocks /\ fpga' = fpga
    BY <1>2 DEF vars
  <2>2. TypeOK'
    BY <2>1 DEF IInv, TypeOK, Steps
  <2>3. Running' = Running
    BY <2>1 DEF Running
  <2>4. Bystanders'
    BY <2>1, <2>3 DEF IInv, Bystanders
  <2>5. ASSUME NEW p \in Procs, Alone(p)'
        PROVE  Reached(p)'
    <3>1. Alone(p)
      BY <2>1, <2>3, <2>5 DEF Alone, Whole, Met
    <3> QED BY <2>1, <3>1, ReachedStays DEF IInv, devices
  <2> QED BY <2>2, <2>4, <2>5 DEF IInv
<1> QED BY <1>1, <1>2

(* The registers hold pins, a process stands inside its program, and the   *)
(* devices are in one of their states, whatever the programs, their number *)
(* and the moments at which they are killed.                               *)
THEOREM GpioTypeCorrect == Spec => []TypeOK
<1>1. IInv => TypeOK
  BY DEF IInv
<1> QED BY <1>1, InitInv, NextInv, PTL DEF Spec

(* Whatever state killed programs left the registers in, the boot-time init*)
(* ends with the PNLC in its application, an opening of the surface with   *)
(* the CSC in its own and an upload with the FPGA reset, if no write undid *)
(* another and no second program of that kind ran beside it.               *)
THEOREM ResetsWorkHolds == Spec => []ResetsWork
<1>1. IInv => ResetsWork
  <2> SUFFICES ASSUME IInv, NEW p \in Procs, Done(p), Whole(p), ~Met(p, {Job[p]})
               PROVE  CASE Job[p] = "panel" -> pnlc = "app"
                        [] Job[p] = "open" -> csc = "app"
                        [] Job[p] = "upload" ->
                             Creset \in reg.gdir2 /\ ~Met(p, {"latch"}) => fpga = "blank"
                        [] OTHER -> TRUE
    BY DEF ResetsWork
  <2>1. CASE Job[p] = "panel"
    <3>1. pc[p] = 7
      BY <2>1, ProgramLengths DEF Done, Steps
    <3>2. Alone(p)
      BY <2>1 DEF Alone, Rivals
    <3>3. PanelAt(p)
      BY <2>1, <3>2 DEF IInv, Reached
    <3> QED BY <2>1, <3>1, <3>3 DEF PanelAt
  <2>2. CASE Job[p] = "open"
    <3>1. pc[p] = 7
      BY <2>2, ProgramLengths DEF Done, Steps
    <3>2. Alone(p)
      BY <2>2 DEF Alone, Rivals
    <3>3. OpenAt(p)
      BY <2>2, <3>2 DEF IInv, Reached
    <3> QED BY <2>2, <3>1, <3>3 DEF OpenAt
  <2>3. CASE Job[p] = "upload"
    <3> SUFFICES ASSUME Creset \in reg.gdir2, ~Met(p, {"latch"})
                 PROVE  fpga = "blank"
      BY <2>3
    <3>1. pc[p] = 13
      BY <2>3, ProgramLengths DEF Done, Steps
    <3>2. Alone(p)
      BY <2>3 DEF Alone, Rivals, Met
    <3>3. UploadAt(p)
      BY <2>3, <3>2 DEF IInv, Reached
    <3> QED BY <3>1, <3>3 DEF UploadAt
  <2> QED BY <2>1, <2>2, <2>3
<1> QED BY <1>1, InitInv, NextInv, PTL DEF Spec

(* When a latch update clocks its word out, the latch is selected and its  *)
(* select lines are driven high, though a flash read beside it may change  *)
(* the direction of the line they share.                                   *)
THEOREM LatchIsAddressedHolds == Spec => []LatchIsAddressed
<1>1. IInv => LatchIsAddressed
  <2> SUFFICES ASSUME IInv, NEW p \in Procs, At(p, "exchange"), Whole(p),
                      ~Met(p, {"latch", "upload"})
               PROVE  /\ 26 \notin reg.dr2 /\ 27 \in reg.dr2 /\ Selects \subseteq reg.dr3
                      /\ {26, 27} \subseteq reg.gdir2 /\ Selects \subseteq reg.gdir3
    BY DEF LatchIsAddressed
  <2>1. Job[p] = "latch" /\ pc[p] = 13
    BY StepTypes, DeviceSteps DEF IInv, At, Steps
  <2>2. Alone(p)
    BY <2>1 DEF Alone, Rivals
  <2>3. LatchAt(p)
    BY <2>1, <2>2 DEF IInv, Reached
  <2> QED BY <2>1, <2>3 DEF LatchAt, Selects
<1> QED BY <1>1, InitInv, NextInv, PTL DEF Spec

(* The flash has taken exactly the clock edges that the read has given when*)
(* it samples, as long as no latch update, whose first accesses put it on  *)
(* hold, and no second read runs beside it.                                *)
THEOREM FlashKeepsCountHolds == Spec => []FlashKeepsCount
<1>1. IInv => FlashKeepsCount
  <2> SUFFICES ASSUME IInv, NEW p \in Procs, At(p, "sample"), Whole(p),
                      ~Met(p, {"latch", "flash"})
               PROVE  clocks = Cardinality({k \in 1 .. pc[p] : Steps(p)[k].do = "sample"})
    BY DEF FlashKeepsCount
  <2>1. Job[p] = "flash" /\ pc[p] = 15
    BY StepTypes, DeviceSteps DEF IInv, At, Steps
  <2>2. Alone(p)
    BY <2>1 DEF Alone, Rivals
  <2>3. FlashAt(p)
    BY <2>1, <2>2 DEF IInv, Reached
  <2>4. clocks = 1
    BY <2>1, <2>3 DEF FlashAt
  <2>5. {k \in 1 .. pc[p] : Steps(p)[k].do = "sample"} = {15}
    <3>1. \A k \in 1 .. 19 : Program["flash"][k].do = "sample" <=> k = 15
      BY DeviceSteps, ProgramLengths DEF Jobs
    <3> QED BY <2>1, <3>1 DEF Steps
  <2>6. Cardinality({15}) = 1
    BY FS_Singleton, Zenon
  <2> QED BY <2>4, <2>5, <2>6, Zenon
<1> QED BY <1>1, InitInv, NextInv, PTL DEF Spec
=============================================================================
