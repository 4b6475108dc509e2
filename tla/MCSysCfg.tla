------------------------------ MODULE MCSysCfg ------------------------------
(* Four interfaces, and storage built from the values that parse apart:     *)
(* an address, the erased pattern, the two addresses that lan2's increment  *)
(* makes into one, and texts.                                               *)
EXTENDS SysCfg

MCInterfaces == [i \in {"lan1", "lan2", "usb0", "can0"} |->
                    IF i = "can0" THEN "can" ELSE "ether"]

Tok(key, val) == [key |-> key, val |-> val]
Addresses == {Tok("MAC", Mac(1, 16)), Tok("MAC", Mac(9, 255)),
              Tok("MAC", Mac(0, 255)), Tok("MAC", Mac(9, 254))}
Others == {Tok(Signature, Text(2)), Tok("SN", Text(3)), Tok(BadKey, Text(4))}
Texts(n) == UNION {[1..k -> Addresses \cup Others] : k \in 0..n}

(* A configuration in the flash: up to two tokens and one of the user's.    *)
InFlash == {[flash |-> [answers |-> TRUE, factory |-> f, user |-> u], disk |-> <<Absent>>] :
                f \in Texts(2), u \in {<< >>} \cup {<<t>> : t \in {Tok("MAC", Mac(1, 16)), Tok("MAC", Mac(9, 255))}}}

(* A flash that is silent, or blank, and files of one or two chunks.        *)
NoFlash == [answers |-> FALSE, factory |-> << >>, user |-> << >>]
BlankFlash == [answers |-> TRUE, factory |-> << >>, user |-> <<Tok(BadKey, Text(4))>>]
Blocks == {<< >>, <<Tok("MODEL", Text(1))>>, <<Tok("SN", Text(3)), Tok("MAC", Mac(1, 16))>>}
              \cup {<<t>> : t \in Others}
Chunks == {a \o <<Tok(Gap, Text(5))>> \o b : a, b \in Blocks}
InFiles == {[flash |-> f, disk |-> <<Absent, <<c, <<Tok("SN", Text(6))>>>>>>] :
                f \in {NoFlash, BlankFlash}, c \in Chunks}
               \cup {[flash |-> NoFlash, disk |-> <<<<c>>, <<d>>>>] : c, d \in Blocks}

MCMachines == InFlash \cup InFiles
=============================================================================
