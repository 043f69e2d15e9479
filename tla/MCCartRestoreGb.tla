--------------------------- MODULE MCCartRestoreGb ---------------------------
(* Two banks of two bytes.  The cartridge starts blank; the staged image      *)
(* differs from it in every byte, and from one bank to the other.             *)
EXTENDS CartRestoreGbInv

Blank == [c \in Cell |-> 0]
Data == [c \in Cell |-> 1 + ((c[1] + c[2]) % 2)]
MCImage == {Blank, Data}

MCInit == Init /\ ram = Blank /\ staged = Data
MCSpec == MCInit /\ [][Next]_vars
MCFairSpec == MCSpec /\ Fairness

\* A run that follows another one starts from a cartridge that is blank or
\* fully restored; what an interrupted run left behind is not a new start.
RestartBound == busy => original \in MCImage
=============================================================================
