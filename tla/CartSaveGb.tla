------------------------------ MODULE CartSaveGb ------------------------------
(***************************************************************************)
(* The reader of a Game Boy cartridge's battery RAM,                       *)
(* src/fpga/services/dump/cart_save_gb.sv: read a few bytes with the gate  *)
(* shut, open it, put an MBC1 in mode 1, read every bank, put the mode     *)
(* back and shut the gate.  SaveClock is one clock of it.                  *)
(*                                                                         *)
(* The two sums, the blank flags and the first four bytes are evidence for *)
(* the screen and are left out; so are type_l and size_l, which hold what  *)
(* `chip' does.                                                            *)
(***************************************************************************)
EXTENDS GbCartridge

CONSTANT
  ProbeBytes   \* PROBE_BYTES: bytes read before the gate is opened

ASSUME ProbeAssumption == ProbeBytes \in 1 .. BankBytes

VARIABLES
  save   \* the reader's registers

SaveStates ==
  {"IDLE", "PROBE_RD", "PROBE_W", "ENABLE", "ENABLE_W", "MODE", "MODE_W",
   "BANK", "BANK_W", "READ", "READ_W", "EMIT", "NEXT", "DISABLE", "DISABLE_W",
   "DONE"}

\* An MBC1 with more than one bank is read too.
SaveGeometry == [mbc1 : BOOLEAN, banks : 1 .. MaxBanks]

SaveType ==
  [state : SaveStates, offset : 0 .. BankBytes - 1, bank : 0 .. MaxBanks - 1,
   restore : BOOLEAN, abort : BOOLEAN, data : Byte, valid : BOOLEAN,
   req : BOOLEAN,
   transfer : [wr : BOOLEAN, addr : {Gate, Mode, Bank} \cup {Ram(o) : o \in 0 .. BankBytes - 1},
               data : Nat]]

SaveInit ==
  save = [state |-> "IDLE", offset |-> 0, bank |-> 0, restore |-> FALSE,
          abort |-> FALSE, data |-> 0, valid |-> FALSE, req |-> FALSE,
          transfer |-> NoTransfer]

SaveBusy == save.state # "IDLE"

\* What a byte read from the RAM window returns.
RamRead(g, off, openBus) == IF gate THEN ram[<<Selected(g), off>>] ELSE openBus

-----------------------------------------------------------------------------
(* Every clock drops the request and latches an abort of a running save. *)
Latching(abort) ==
  [save EXCEPT !.req = FALSE, !.abort = @ \/ (abort /\ SaveBusy)]

SaveGoes(abort, next) == save' = [Latching(abort) EXCEPT !.state = next]

SaveWrites(abort, addr, data, next) ==
  save' = [Latching(abort) EXCEPT
             !.state = next, !.req = TRUE,
             !.transfer = [wr |-> TRUE, addr |-> addr, data |-> data]]

\* bus_wr is still that of the write before.
SaveReadsStale(abort, next) ==
  save' = [Latching(abort) EXCEPT
             !.state = next, !.req = TRUE, !.transfer.addr = Ram(save.offset)]

\* A read leaves the write data where they were.
SaveReads(abort, next) ==
  save' = [Latching(abort) EXCEPT
             !.state = next, !.req = TRUE,
             !.transfer.wr = FALSE, !.transfer.addr = Ram(save.offset)]

SaveStarts(start) ==
  /\ save.state = "IDLE"
  /\ save' = IF start
             THEN [save EXCEPT !.state = "PROBE_RD", !.req = FALSE, !.valid = FALSE,
                               !.bank = 0, !.restore = FALSE, !.offset = 0,
                               !.abort = FALSE]
             ELSE [save EXCEPT !.req = FALSE, !.valid = FALSE]

\* The disabled pass.
ProbeAsks(abort) == save.state = "PROBE_RD" /\ SaveReads(abort, "PROBE_W")

ProbeAnswered(abort, busDoneNow) ==
  /\ save.state = "PROBE_W" /\ busDoneNow
  /\ save' = IF save.offset = ProbeBytes - 1
             THEN [Latching(abort) EXCEPT
                     !.offset = 0,
                     !.state = IF save.abort THEN "DISABLE" ELSE "ENABLE"]
             ELSE [Latching(abort) EXCEPT !.offset = @ + 1, !.state = "PROBE_RD"]

\* Opening the gate, the mode, the bank.
OpenGate(abort) == save.state = "ENABLE" /\ SaveWrites(abort, Gate, 10, "ENABLE_W")

\* An MBC1 is left in mode 0.
GateOpenedUnmoded(g, abort, busDoneNow) ==
  save.state = "ENABLE_W" /\ busDoneNow /\ SaveGoes(abort, "BANK")
GateOpened(g, abort, busDoneNow) ==
  /\ save.state = "ENABLE_W" /\ busDoneNow
  /\ SaveGoes(abort, IF g.mbc1 THEN "MODE" ELSE "BANK")

SetMode(abort) ==
  /\ save.state = "MODE"
  /\ SaveWrites(abort, Mode, IF save.restore THEN 0 ELSE 1, "MODE_W")

ModeSet(abort, busDoneNow) ==
  /\ save.state = "MODE_W" /\ busDoneNow
  /\ SaveGoes(abort, IF save.restore THEN "DISABLE" ELSE "BANK")

SelectBank(g, abort) ==
  /\ save.state = "BANK"
  /\ IF g.banks = 1 THEN SaveGoes(abort, "READ")
     ELSE SaveWrites(abort, Bank, save.bank, "BANK_W")

BankSelected(abort, busDoneNow) ==
  save.state = "BANK_W" /\ busDoneNow /\ SaveGoes(abort, "READ")

\* The way out: through the mode on an MBC1, and through the disable.
Leaving(g, s) ==
  IF g.mbc1 /\ ~s.restore
  THEN [s EXCEPT !.restore = TRUE, !.state = "MODE"]
  ELSE [s EXCEPT !.state = "DISABLE"]

\* The data pass; the one place of it where an abort is looked at.
SaveRead(g, abort) ==
  /\ save.state = "READ"
  /\ IF save.abort THEN save' = Leaving(g, Latching(abort))
     ELSE SaveReads(abort, "READ_W")

SaveHeard(abort, busDoneNow, rdata) ==
  /\ save.state = "READ_W" /\ busDoneNow
  /\ save' = [Latching(abort) EXCEPT !.data = rdata, !.valid = TRUE, !.state = "EMIT"]

SaveTaken(abort, outReady) ==
  /\ save.state = "EMIT" /\ outReady
  /\ save' = [Latching(abort) EXCEPT !.valid = FALSE, !.state = "NEXT"]

SaveNext(g, abort) ==
  /\ save.state = "NEXT"
  /\ save' =
       LET s == Latching(abort) IN
       IF save.offset # BankBytes - 1
       THEN [s EXCEPT !.offset = @ + 1, !.state = "READ"]
       ELSE IF save.bank + 1 # g.banks
       THEN [s EXCEPT !.offset = 0, !.bank = @ + 1, !.state = "BANK"]
       ELSE Leaving(g, [s EXCEPT !.offset = 0])

ShutGate(abort) == save.state = "DISABLE" /\ SaveWrites(abort, Gate, 0, "DISABLE_W")

GateShut(abort, busDoneNow) ==
  save.state = "DISABLE_W" /\ busDoneNow /\ SaveGoes(abort, "DONE")

SaveEnds(abort) == save.state = "DONE" /\ SaveGoes(abort, "IDLE")

SaveWaits(abort, busDoneNow, outReady) ==
  /\ \/ save.state \in {"PROBE_W", "ENABLE_W", "MODE_W", "BANK_W", "READ_W", "DISABLE_W"} /\ ~busDoneNow
     \/ save.state = "EMIT" /\ ~outReady
  /\ save' = Latching(abort)

SaveClock(g, start, abort, busDoneNow, rdata, outReady) ==
  \/ SaveStarts(start)
  \/ ProbeAsks(abort)
  \/ ProbeAnswered(abort, busDoneNow)
  \/ OpenGate(abort)
  \/ GateOpened(g, abort, busDoneNow)
  \/ SetMode(abort)
  \/ ModeSet(abort, busDoneNow)
  \/ SelectBank(g, abort)
  \/ BankSelected(abort, busDoneNow)
  \/ SaveRead(g, abort)
  \/ SaveHeard(abort, busDoneNow, rdata)
  \/ SaveTaken(abort, outReady)
  \/ SaveNext(g, abort)
  \/ ShutGate(abort)
  \/ GateShut(abort, busDoneNow)
  \/ SaveEnds(abort)
  \/ SaveWaits(abort, busDoneNow, outReady)

=============================================================================
