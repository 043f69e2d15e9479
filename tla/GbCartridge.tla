----------------------------- MODULE GbCartridge -----------------------------
(***************************************************************************)
(* A Game Boy cartridge with battery RAM behind an MBC1, MBC3 or MBC5, as  *)
(* the cartridge engines under src/fpga/services address it: a RAM gate    *)
(* opened by 0x0A, a bank register, the mode register of MBC1, and RAM     *)
(* reached only through the open gate.  External: hardware on the other    *)
(* side of the connector.                                                  *)
(***************************************************************************)
EXTENDS GbCartBus

CONSTANTS
  Byte,        \* values a RAM cell can hold
  BankBytes,   \* bytes in one RAM bank (8192 in the hardware)
  MaxBanks     \* banks in the largest supported RAM (4)

ASSUME CartAssumption ==
  /\ Byte \subseteq Nat
  /\ BankBytes \in Nat \ {0}
  /\ MaxBanks \in Nat \ {0}

VARIABLES
  gate,     \* RAM enabled
  bankReg,  \* RAM bank register
  modeReg,  \* MBC1 mode register
  ram       \* battery RAM

cartVars == <<gate, bankReg, modeReg, ram>>

\* A byte of the save: the pair that source_offset[14:13], source_offset[12:0]
\* is.
Cell == (0 .. MaxBanks - 1) \X (0 .. BankBytes - 1)

\* The save organisations: an MBC1 has one bank, an MBC3 or MBC5 may have more.
Geometry == {g \in [mbc1 : BOOLEAN, banks : 1 .. MaxBanks] : g.mbc1 => g.banks = 1}

CellsOf(g) == {c \in Cell : c[1] < g.banks}

\* The bank lines of a one-bank RAM are not connected, and an MBC1 drives them
\* in mode 1 only.
Selected(g) == IF g.banks = 1 \/ (g.mbc1 /\ modeReg = 0) THEN 0 ELSE bankReg

\* The cartridge latches a write.
CartLatch(g, t) ==
  /\ gate' = IF t.addr = Gate THEN t.data % 16 = 10 ELSE gate
  /\ bankReg' = IF t.addr = Bank THEN t.data ELSE bankReg
  /\ modeReg' = IF t.addr = Mode THEN t.data ELSE modeReg
  /\ ram' = IF t.addr[1] = "ram" /\ gate
            THEN [ram EXCEPT ![<<Selected(g), t.addr[2]>>] = t.data]
            ELSE ram

\* The supply goes.  The mapper comes back with its gate shut; a RAM byte
\* whose strobe was cut is undefined, every other byte is on battery.
CartPowerLoss(g) ==
  /\ gate' = FALSE
  /\ bankReg' = 0
  /\ modeReg' = 0
  /\ IF busState = "STROBE" /\ bus.wr /\ bus.addr[1] = "ram" /\ gate
     THEN \E b \in Byte : ram' = [ram EXCEPT ![<<Selected(g), bus.addr[2]>>] = b]
     ELSE ram' = ram

CartClock(g, powered) ==
  IF ~powered THEN CartPowerLoss(g)
  ELSE IF WriteEdge THEN CartLatch(g, bus)
  ELSE UNCHANGED cartVars

=============================================================================
