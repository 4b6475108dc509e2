------------------------------- MODULE SysCfg -------------------------------
(***************************************************************************)
(* linux-tools/wing_syscfg.c: find the mixer's key-value configuration (in *)
(* the SPI NOR flash, else on a list of storage devices), answer --get, and *)
(* with --apply-mac give the network interfaces their hardware addresses.  *)
(* The init script runs it once, to completion, at every boot.             *)
(*                                                                         *)
(* A configuration text is a sequence of tokens [key, val], with a Gap     *)
(* where it has NUL or 0xFF bytes; a block device is a sequence of chunks, *)
(* the texts that one read() each brings.  A hardware address is its upper *)
(* five bytes, as one number, and its last byte; a value that is no address*)
(* has 256 for a last byte.                                                *)
(***************************************************************************)
EXTENDS Integers, SequencesExt

CONSTANTS Interfaces,   \* function: interface name -> "ether" or another type
          Machines,     \* possible storage: the flash [answers, factory, user]
                        \* and the disk, the scanned paths in order
          Gets,         \* the keys --get may be called with
          MaxEntries,   \* MAX_ENTRIES of the store
          HiMax         \* the upper five bytes when all are 0xFF

NoKey == "none"
Signature == ":NGC"     \* key of a token that starts with a colon
BadKey == "bad"         \* key with a character no key may have, or oversize
Gap == "gap"            \* "key" of the bytes between two blocks
Absent == << >>         \* a path that cannot be opened has no chunk to read

VARIABLES pc,           \* "flash", "block", "scan", "file", "chunk", "loaded",
                        \* "apply", "done"
          flash, disk,  \* the storage of this machine
          get, apply,   \* the options --get and --apply-mac
          path,         \* index of the next path to scan
          file,         \* the chunks of the open file that are still to be read
          text,         \* what parse_config_stream still has before it
          before,       \* entries when the chunk was read, initial_count
          store,        \* wing_config_store_t
          links,        \* the kernel's interfaces: [mac, up]
          todo,         \* directory entries readdir has not returned yet
          cur,          \* the interface in apply_interface_mac, and its stage
          applied,      \* interfaces whose address was set, applied_count
          rc, printed,  \* exit status and the value --get printed
          fed, lost     \* history: tokens parsed; interfaces not raised again

vars == <<pc, flash, disk, get, apply, path, file, text, before, store, links,
          todo, cur, applied, rc, printed, fed, lost>>
machine == <<flash, disk, get, apply>>
reading == <<path, file, text, before, store, fed>>
loading == <<machine, reading, printed>>
running == <<links, todo, cur, applied, lost>>

-----------------------------------------------------------------------------
(* The store.                                                              *)

Mac(hi, lo) == [hi |-> hi, lo |-> lo]
Text(n) == Mac(n, 256)          \* a value that is not an address
IsAddress(val) == val.lo < 256
NoValue == Text(0)              \* of a key that is not there
InvalidMacs == {Mac(0, 0), Mac(HiMax, 255)}

Tokens == [key : STRING, val : [hi : Nat, lo : 0..256] \ {NoValue}]

ASSUME MachinesAssumption ==
    /\ MaxEntries \in Nat \ {0} /\ HiMax \in Nat
    /\ \A m \in Machines : /\ m.flash.factory \in Seq(Tokens) /\ m.flash.user \in Seq(Tokens)
                          /\ m.disk \in Seq(Seq(Seq(Tokens)))

EmptyStore == [entries |-> << >>, mac |-> Mac(0, 0), has_mac |-> FALSE]

EntriesOf(s, key) == {i \in DOMAIN s.entries : s.entries[i].key = key}

(* A plausible slip: an erased flash is not told from an address.           *)
ParseMacUnchecked(s, val) ==
    IF ~IsAddress(val) THEN s
    ELSE [s EXCEPT !.mac = val, !.has_mac = TRUE]

(* parse_mac_string writes its result before it refuses all-0 and all-F.    *)
ParseMac(s, val) ==
    IF ~IsAddress(val) THEN s
    ELSE [s EXCEPT !.mac = val, !.has_mac = @ \/ val \notin InvalidMacs]

(* A plausible slip: the first value of a key is kept.                      *)
AddOnce(s, key, val) ==
    IF EntriesOf(s, key) # {} \/ Len(s.entries) >= MaxEntries THEN s
    ELSE LET t == [s EXCEPT !.entries = Append(@, [key |-> key, val |-> val])]
         IN  IF key = "MAC" THEN ParseMac(t, val) ELSE t

(* store_add_kv: a key that is already there only has its value replaced.   *)
AddKv(s, key, val) ==
    LET room  == Len(s.entries) < MaxEntries
        added == IF room THEN [s EXCEPT !.entries = Append(@, [key |-> key, val |-> val])]
                 ELSE s
    IN  IF EntriesOf(s, key) # {}
        THEN [s EXCEPT !.entries = [i \in DOMAIN @ |->
                  IF @[i].key = key THEN [key |-> key, val |-> val] ELSE @[i]]]
        ELSE IF key = "MAC" THEN ParseMac(added, val) ELSE added

KeyOf(token) == IF token.key = Signature THEN "DEVTYPE" ELSE token.key

IsEntry(token) == token.key \notin {BadKey, Gap}

Parsed(s, token) == IF IsEntry(token) THEN AddKv(s, KeyOf(token), token.val) ELSE s

Lookup(s, key) ==
    IF EntriesOf(s, key) = {} THEN NoValue
    ELSE s.entries[Min(EntriesOf(s, key))].val

-----------------------------------------------------------------------------
(* load_config_from_file: the block of the first MAC=, else of the first    *)
(* :NGC, else of the first SN=; from there to the end of the chunk.         *)

With(chunk, key) == {i \in DOMAIN chunk : chunk[i].key = key}

Signed(chunk) ==
    IF With(chunk, "MAC") # {} THEN With(chunk, "MAC")
    ELSE IF With(chunk, Signature) # {} THEN With(chunk, Signature)
    ELSE With(chunk, "SN")

(* Block starts with no gap from there to the signature.                    *)
Starts(chunk, sig) == {i \in 1..sig : \A k \in i..sig : chunk[k].key # Gap}

ConfigText(chunk) ==
    IF Signed(chunk) = {} THEN << >>
    ELSE SubSeq(chunk, Min(Starts(chunk, Min(Signed(chunk)))), Len(chunk))

-----------------------------------------------------------------------------
(* No interface is in apply_interface_mac.                                  *)
Idle == [name |-> NoKey, stage |-> "idle", orig |-> FALSE, res |-> FALSE]

Init == /\ pc = "flash" /\ path = 1 /\ store = EmptyStore /\ cur = Idle
        /\ file = << >> /\ text = << >> /\ before = 0
        /\ \E m \in Machines : flash = m.flash /\ disk = m.disk
        /\ get \in Gets \cup {NoKey} /\ apply \in BOOLEAN
        /\ \E up \in [DOMAIN Interfaces -> BOOLEAN] :
              links = [i \in DOMAIN Interfaces |-> [mac |-> NoValue, up |-> up[i]]]
        /\ todo = {} /\ applied = {} /\ rc = 0 /\ printed = NoValue
        /\ fed = << >> /\ lost = {}

(* read_spi_flash_config: the factory block, then the user block.  The      *)
(* flash that does not answer covers a missing /dev/mem as well.            *)
ReadFlash ==
    /\ pc = "flash" /\ pc' = "block"
    /\ text' = IF flash.answers THEN flash.factory \o flash.user ELSE << >>
    /\ UNCHANGED <<machine, path, file, before, store, fed, printed, rc, running>>

(* parse_config_stream, one token a step.                                   *)
ParseToken ==
    /\ pc \in {"block", "chunk"} /\ text # << >>
    /\ store' = Parsed(store, Head(text))
    /\ fed' = Append(fed, Head(text)) /\ text' = Tail(text)
    /\ UNCHANGED <<pc, machine, path, file, before, printed, rc, running>>

FlashDone ==
    /\ pc = "block" /\ text = << >>
    /\ pc' = IF store.entries # << >> THEN "loaded" ELSE "scan"
    /\ UNCHANGED <<machine, reading, printed, rc, running>>

(* auto_discover_config: the storage devices, until one has a config.       *)
OpenPath ==
    /\ pc = "scan" /\ path <= Len(disk)
    /\ pc' = "file" /\ file' = disk[path] /\ path' = path + 1
    /\ UNCHANGED <<machine, text, before, store, fed, printed, rc, running>>

ReadChunk ==
    /\ pc = "file" /\ file # << >>
    /\ pc' = "chunk" /\ text' = ConfigText(Head(file)) /\ file' = Tail(file)
    /\ before' = Len(store.entries)
    /\ UNCHANGED <<machine, path, store, fed, printed, rc, running>>

ChunkDone ==
    /\ pc = "chunk" /\ text = << >>
    /\ pc' = IF Len(store.entries) > before THEN "loaded" ELSE "file"
    /\ UNCHANGED <<machine, reading, printed, rc, running>>

EndOfFile ==
    /\ pc = "file" /\ file = << >>
    /\ pc' = "scan"
    /\ UNCHANGED <<machine, reading, printed, rc, running>>

NothingFound ==
    /\ pc = "scan" /\ path > Len(disk)
    /\ pc' = "done" /\ rc' = 1
    /\ UNCHANGED <<loading, running>>

(* main: --get first, then --apply-mac, whose status replaces --get's.      *)
Answer ==
    /\ pc = "loaded"
    /\ printed' = IF get = NoKey THEN NoValue ELSE Lookup(store, get)
    /\ rc' = IF get # NoKey /\ printed' = NoValue THEN 1 ELSE 0
    /\ pc' = IF apply THEN "apply" ELSE "done"
    /\ todo' = IF apply /\ store.has_mac THEN DOMAIN Interfaces ELSE {}
    /\ UNCHANGED <<machine, reading, links, cur, applied, lost>>

-----------------------------------------------------------------------------
(* apply_all_macs and apply_interface_mac, one ioctl a step.                *)

Skipped == {"lo", "usb0", "dummy0"}    \* by name; every other type as well

Eligible(i) == i \notin Skipped /\ Interfaces[i] = "ether"

Wanted(i) ==
    IF i = "lan2" THEN Mac(store.mac.hi, (store.mac.lo + 1) % 256) ELSE store.mac

Refuse ==      \* no valid address, or /sys/class/net cannot be opened
    /\ pc = "apply" /\ cur = Idle /\ applied = {}
    /\ todo = IF store.has_mac THEN DOMAIN Interfaces ELSE {}
    /\ pc' = "done" /\ rc' = 1
    /\ todo' = {}
    /\ UNCHANGED <<loading, links, cur, applied, lost>>

Skip(i) ==
    /\ pc = "apply" /\ cur = Idle /\ i \in todo /\ ~Eligible(i)
    /\ todo' = todo \ {i}
    /\ UNCHANGED <<pc, rc, loading, links, cur, applied, lost>>

(* The direct SIOCSIFHWADDR, which a driver may refuse while it is up.      *)
SetDirect(i) ==
    /\ pc = "apply" /\ cur = Idle /\ i \in todo /\ Eligible(i)
    /\ todo' = todo \ {i}
    /\ \/ /\ links' = [links EXCEPT ![i].mac = Wanted(i)]
          /\ applied' = applied \cup {i}
          /\ UNCHANGED cur
       \/ /\ cur' = [name |-> i, stage |-> "flags", orig |-> FALSE, res |-> FALSE]
          /\ UNCHANGED <<links, applied>>
    /\ UNCHANGED <<pc, rc, loading, lost>>

GetFlags ==
    /\ cur.stage = "flags"
    /\ \/ cur' = Idle                                 \* SIOCGIFFLAGS failed
       \/ cur' = [cur EXCEPT !.stage = "down", !.orig = links[cur.name].up]
    /\ UNCHANGED <<pc, rc, loading, links, todo, applied, lost>>

TakeDown ==                                           \* its result is ignored
    /\ cur.stage = "down"
    /\ \/ links' = [links EXCEPT ![cur.name].up = FALSE]
       \/ UNCHANGED links
    /\ cur' = [cur EXCEPT !.stage = "set"]
    /\ UNCHANGED <<pc, rc, loading, todo, applied, lost>>

SetDown ==
    /\ cur.stage = "set"
    /\ \/ /\ links' = [links EXCEPT ![cur.name].mac = Wanted(cur.name)]
          /\ cur' = [cur EXCEPT !.stage = "restore", !.res = TRUE]
       \/ /\ cur' = [cur EXCEPT !.stage = "restore"]
          /\ UNCHANGED links
    /\ UNCHANGED <<pc, rc, loading, todo, applied, lost>>

(* A plausible slip: the early return of a failed set comes first.          *)
RaisesIfSet(c) == c.orig /\ c.res

Raises(c) == c.orig

(* A plausible slip: an interface that could be toggled counts as set.      *)
CountsAlways(c) == TRUE

Counts(c) == c.res

Restore ==
    /\ cur.stage = "restore"
    /\ \/ /\ Raises(cur)
          /\ links' = [links EXCEPT ![cur.name].up = TRUE]
          /\ UNCHANGED lost
       \/ /\ Raises(cur)                              \* SIOCSIFFLAGS failed
          /\ lost' = lost \cup {cur.name}
          /\ UNCHANGED links
       \/ ~Raises(cur) /\ UNCHANGED <<links, lost>>
    /\ applied' = IF Counts(cur) THEN applied \cup {cur.name} ELSE applied
    /\ cur' = Idle
    /\ UNCHANGED <<pc, rc, loading, todo>>

Finish ==
    /\ pc = "apply" /\ cur = Idle /\ todo = {} /\ store.has_mac
    /\ pc' = "done"
    /\ rc' = IF applied # {} THEN 0 ELSE 2
    /\ UNCHANGED <<loading, running>>

Next == \/ ReadFlash \/ ParseToken \/ FlashDone
        \/ OpenPath \/ ReadChunk \/ ChunkDone \/ EndOfFile
        \/ NothingFound \/ Answer \/ Refuse
        \/ \E i \in DOMAIN Interfaces : Skip(i) \/ SetDirect(i)
        \/ GetFlags \/ TakeDown \/ SetDown \/ Restore \/ Finish

Spec == Init /\ [][Next]_vars

-----------------------------------------------------------------------------
Values == UNION {{t.val : t \in Range(fed)}, {NoValue}}
MacNow == Lookup(store, "MAC")
Given(key) == {n \in DOMAIN fed : IsEntry(fed[n]) /\ KeyOf(fed[n]) = key}
Ran == pc = "done" /\ apply /\ store.entries # << >>

TypeOK ==
    /\ pc \in {"flash", "block", "scan", "file", "chunk", "loaded", "apply", "done"}
    /\ path \in 1..(Len(disk) + 1) /\ rc \in 0..2 /\ printed \in Values
    /\ Len(store.entries) <= MaxEntries /\ store.has_mac \in BOOLEAN
    /\ \A i \in DOMAIN links : links[i].up \in BOOLEAN
    /\ todo \subseteq DOMAIN Interfaces /\ applied \subseteq DOMAIN Interfaces
    /\ cur.stage \in {"idle", "flags", "down", "set", "restore"}
    /\ lost \subseteq DOMAIN Interfaces

(* --get prints the value the configuration text gives the key last, the    *)
(* user block's over the factory block's; it prints none only if the text   *)
(* has none or the store was full (store_add_kv, store_get_val).            *)
GetAnswersLast ==
    pc \in {"apply", "done"} /\ get # NoKey =>
        IF Given(get) = {} THEN printed = NoValue
        ELSE \/ printed = fed[Max(Given(get))].val
             \/ printed = NoValue /\ Len(store.entries) = MaxEntries

(* The exit status of --apply-mac is the truth about the interfaces: 0 when *)
(* one really has the address the store asks for, 2 when none was touched   *)
(* (apply_all_macs, applied_count).                                         *)
StatusIsTrue ==
    Ran => /\ rc = 0 => \E i \in DOMAIN links : Eligible(i) /\ links[i].mac = Wanted(i)
           /\ rc # 0 => \A i \in DOMAIN links : links[i].mac = NoValue

(* An interface taken down to set its address comes up again, whatever the  *)
(* ioctls in between answered, unless raising it is what fails; and none    *)
(* that was down is raised (apply_interface_mac, orig_flags).               *)
ComesUpAgain ==
    [][\A i \in DOMAIN links :
          /\ cur'.name # i /\ cur.name = i /\ cur.orig => links'[i].up \/ i \in lost'
          /\ ~links[i].up /\ links'[i].up => cur.name = i /\ cur.orig]_vars

(* While the store has room, no interface gets the all-0 or all-F pattern of*)
(* an erased flash, although parse_mac_string leaves it in the store when it*)
(* refuses it: but for lan2, whose address is one more than the base in its *)
(* last byte only (wing_syscfg.c:539), and so all-0 or all-F when the base  *)
(* is 00:..:00:FF or FF:..:FF:FE.                                           *)
AddressesAreGood ==
    Len(store.entries) < MaxEntries =>
        \A i \in DOMAIN links : links[i].mac \in InvalidMacs =>
            i = "lan2" /\ store.mac \in {Mac(0, 255), Mac(HiMax, 254)}

(* "No valid MAC address found in config store" (wing_syscfg.c:501): the    *)
(* tool gives up only when the store's MAC entry is not a valid address.    *)
RefusalIsTrue ==
    Ran /\ ~store.has_mac => ~IsAddress(MacNow) \/ MacNow \in InvalidMacs

(* "lan2 gets base MAC + 1" (wing_syscfg.c:537): the address after the base *)
(* address, as a 48-bit number.                                             *)
Lan2IsNext ==
    "lan2" \in applied =>
        links["lan2"].mac.hi * 256 + links["lan2"].mac.lo
            = store.mac.hi * 256 + store.mac.lo + 1
=============================================================================
