--------------------------- MODULE CartRestoreGbInv ---------------------------
(* The inductive invariant behind the safety of CartRestoreGb: what the       *)
(* writer, the bus and the cartridge know of each other in every state.       *)
EXTENDS CartRestoreGb

Opening == {"DISABLE_INITIAL", "MODE_INITIAL", "BANK_INITIAL", "ENABLE"}
Sourcing == {"SOURCE_WAIT", "SOURCE_CAPTURE", "WRITE"}
Closing == {"DISABLE_FINAL", "MODE_FINAL", "DONE"}
Sending == {"ACCEPT", "WAIT"}

First == <<0, 0>>

\* The transaction under way has had its write edge.
Latched == state = "WAIT" /\ (busState \in {"HOLD", "DONE"} \/ busDone)

\* Types, with what the cartridge's own types need: a byte goes to RAM, a bank
\* number to the bank register, and the offset stays inside the save.
WellFormed(t) ==
  /\ t.addr[1] = "ram" => t.data \in Byte
  /\ t.addr = Bank => t.data \in 0 .. MaxBanks - 1

TypeInv ==
  /\ TypeOK
  /\ WellFormed(transfer) /\ WellFormed(bus)
  /\ bankReg \in 0 .. MaxBanks - 1
  /\ sourceOffset \in CellsOf(geom)
  /\ busy /\ state = "WRITE" => sourceByte \in Byte

\* The bus works for the waiting writer and for nobody else.
BusInv ==
  /\ busRefuse = busDone
  /\ busDone => busState = "IDLE"
  /\ BusBusy \/ busDone => busy /\ state = "WAIT" /\ bus = transfer
  /\ WaitHasTransaction
  /\ pending <=> busy /\ state = "ACCEPT"

\* What is in the transfer registers while it is offered or carried out.
Carries(address, payload, continuation) ==
  /\ transfer = [wr |-> TRUE, addr |-> address, data |-> payload]
  /\ afterTransfer = continuation

OpeningTransfer ==
  /\ ~cleanup /\ ~dataTransfer /\ sourceOffset = First
  /\ \/ Carries(Gate, 0, IF geom.mbc1 THEN "MODE_INITIAL" ELSE "BANK_INITIAL")
     \/ Carries(Mode, 0, "BANK_INITIAL")
     \/ Carries(Bank, 0, "ENABLE") /\ (Latched => bankReg = 0)
     \/ Carries(Gate, 10, "SOURCE_WAIT") /\ bankReg = 0 /\ (Latched => gate)

ByteTransfer ==
  /\ ~cleanup /\ dataTransfer
  /\ Carries(Ram(sourceOffset[2]), staged[sourceOffset],
             IF AtLast THEN "DISABLE_FINAL"
             ELSE IF sourceOffset[2] = BankBytes - 1 THEN "BANK_NEXT"
             ELSE "SOURCE_WAIT")
  /\ gate /\ bankReg = sourceOffset[1]
  /\ Latched => ram[sourceOffset] = staged[sourceOffset]

BankTransfer ==
  /\ ~cleanup /\ ~dataTransfer
  /\ Carries(Bank, sourceOffset[1], "SOURCE_WAIT")
  /\ gate
  /\ Latched => bankReg = sourceOffset[1]

ClosingTransfer ==
  /\ cleanup /\ ~dataTransfer
  /\ \/ /\ Carries(Gate, 0, IF geom.mbc1 THEN "MODE_FINAL" ELSE "DONE")
        /\ Latched => ~gate
     \/ /\ Carries(Mode, 0, "DONE")
        /\ ~gate
        /\ Latched => modeReg = 0

SequenceInv ==
  busy =>
    /\ geom = chip
    /\ state \in Opening => sourceOffset = First
    /\ state = "ENABLE" => bankReg = 0
    /\ state \in Sourcing => gate /\ bankReg = sourceOffset[1]
    /\ state = "BANK_NEXT" => gate
    /\ state \in Sending =>
         OpeningTransfer \/ ByteTransfer \/ BankTransfer \/ ClosingTransfer
    /\ state \in Closing => cleanup
    /\ state \notin Closing \cup Sending => ~cleanup
    /\ state \in {"MODE_FINAL", "DONE"} => ~gate
    /\ state = "DONE" => (geom.mbc1 => modeReg = 0)

DataInv ==
  /\ busy /\ state = "SOURCE_CAPTURE" => sourceQ = staged[sourceOffset]
  /\ busy /\ state = "WRITE" => sourceByte = staged[sourceOffset]
  /\ busy /\ allWritten => cleanup /\ AtLast /\ ram[sourceOffset] = staged[sourceOffset]
  /\ BytesInOrder
  /\ SuccessIsComplete

\* Everything the safety of a run rests on.
Inv == TypeInv /\ BusInv /\ SequenceInv /\ DataInv

=============================================================================
