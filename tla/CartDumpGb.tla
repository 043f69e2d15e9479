------------------------------ MODULE CartDumpGb ------------------------------
(***************************************************************************)
(* The reader of a Game Boy cartridge's ROM,                               *)
(* src/fpga/services/dump/cart_dump_gb.sv with PAIR_READS: for every bank  *)
(* select it, and for every byte read twice and hold the first reading     *)
(* until it is taken.  RomClock is one clock of it.                        *)
(*                                                                         *)
(* The pair counters are evidence for the screen and are left out, the two *)
(* gap clocks are one state, and the mapper is an MBC1 or an MBC5 of fewer *)
(* than 32 banks: an MBC2's other register address and the ninth bank bit  *)
(* of an MBC5 make no difference here.                                     *)
(***************************************************************************)
EXTENDS GbCartridge

CONSTANTS
  RomBanks,   \* bank_count
  RomBytes    \* bytes in one of them (16384)

ASSUME RomAssumption == RomBanks \in 1 .. 32 /\ RomBytes \in Nat \ {0}

VARIABLES
  romRd,    \* the reader's registers
  romReg    \* the cartridge's ROM bank register

RomStates ==
  {"IDLE", "BANK_LO", "BANK_LO_W", "BANK_HI", "BANK_HI_W", "READ", "READ_W",
   "GAP", "REREAD", "COMPARE_W", "EMIT", "NEXT", "DONE"}

RomBank == <<"rombank", 0>>
RomFixed(off) == <<"rom0", off>>      \* 0x0000-0x3FFF
RomSwitched(off) == <<"romx", off>>   \* 0x4000-0x7FFF

RomAddresses ==
  {RomBank, Bank} \cup {RomFixed(o) : o \in 0 .. RomBytes - 1}
                  \cup {RomSwitched(o) : o \in 0 .. RomBytes - 1}

RomType ==
  [state : RomStates, bank : 0 .. RomBanks - 1, offset : 0 .. RomBytes - 1,
   data : Byte, valid : BOOLEAN, req : BOOLEAN,
   transfer : [wr : BOOLEAN, addr : RomAddresses \cup {Gate}, data : Nat]]

RomIdle ==
  [state |-> "IDLE", bank |-> 0, offset |-> 0, data |-> 0, valid |-> FALSE,
   req |-> FALSE, transfer |-> NoTransfer]

RomInit == romRd = RomIdle /\ romReg = 1

RomBusy == romRd.state # "IDLE"

RomReadAddr ==
  IF romRd.bank = 0 THEN RomFixed(romRd.offset) ELSE RomSwitched(romRd.offset)

\* The byte the cartridge drives for a read of its ROM.
RomRead(rom, addr) ==
  IF addr[1] = "rom0" THEN rom[<<0, addr[2]>>] ELSE rom[<<romReg % RomBanks, addr[2]>>]

RomLatch(powered) ==
  romReg' = IF ~powered THEN 1
            ELSE IF WriteEdge /\ bus.addr = RomBank THEN bus.data ELSE romReg

-----------------------------------------------------------------------------
RomGoes(next) == romRd' = [romRd EXCEPT !.req = FALSE, !.state = next]

RomWrites(addr, data, next) ==
  romRd' = [romRd EXCEPT !.req = TRUE, !.state = next,
                         !.transfer = [wr |-> TRUE, addr |-> addr, data |-> data]]

RomAsks(next) ==
  romRd' = [romRd EXCEPT !.req = TRUE, !.state = next,
                         !.transfer.wr = FALSE, !.transfer.addr = RomReadAddr]

\* An abort holds the reader in reset.
RomReset(abort) == abort /\ romRd' = RomIdle

RomStarts(start) ==
  /\ romRd.state = "IDLE"
  /\ romRd' = IF start
              THEN [romRd EXCEPT !.req = FALSE, !.valid = FALSE, !.bank = 0,
                                 !.offset = 0, !.state = "READ"]
              ELSE [romRd EXCEPT !.req = FALSE, !.valid = FALSE]

RomBankLow ==
  /\ romRd.state = "BANK_LO"
  /\ IF romRd.bank = 0 THEN RomGoes("READ")
     ELSE RomWrites(RomBank, romRd.bank, "BANK_LO_W")

RomBankHigh(g) ==
  /\ romRd.state = "BANK_HI"
  /\ IF g.mbc1 THEN RomWrites(Bank, 0, "BANK_HI_W") ELSE RomGoes("READ")

RomRequests ==
  \/ romRd.state = "READ" /\ RomAsks("READ_W")
  \/ romRd.state = "REREAD" /\ RomAsks("COMPARE_W")

RomAnswered(busDoneNow, rdata) ==
  /\ busDoneNow
  /\ \/ romRd.state = "BANK_LO_W" /\ RomGoes("BANK_HI")
     \/ romRd.state = "BANK_HI_W" /\ RomGoes("READ")
     \/ romRd.state = "READ_W"
        /\ romRd' = [romRd EXCEPT !.req = FALSE, !.data = rdata, !.state = "GAP"]
     \/ romRd.state = "COMPARE_W"
        /\ romRd' = [romRd EXCEPT !.req = FALSE, !.valid = TRUE, !.state = "EMIT"]

RomGap == romRd.state = "GAP" /\ RomGoes("REREAD")

RomTaken(outReady) ==
  /\ romRd.state = "EMIT" /\ outReady
  /\ romRd' = [romRd EXCEPT !.req = FALSE, !.valid = FALSE, !.state = "NEXT"]

RomNext ==
  /\ romRd.state = "NEXT"
  /\ romRd' =
       IF romRd.offset # RomBytes - 1
       THEN [romRd EXCEPT !.req = FALSE, !.offset = @ + 1, !.state = "READ"]
       ELSE IF romRd.bank + 1 # RomBanks
       THEN [romRd EXCEPT !.req = FALSE, !.offset = 0, !.bank = @ + 1, !.state = "BANK_LO"]
       ELSE [romRd EXCEPT !.req = FALSE, !.offset = 0, !.state = "DONE"]

RomEnds == romRd.state = "DONE" /\ RomGoes("IDLE")

RomWaits(busDoneNow, outReady) ==
  /\ \/ romRd.state \in {"BANK_LO_W", "BANK_HI_W", "READ_W", "COMPARE_W"} /\ ~busDoneNow
     \/ romRd.state = "EMIT" /\ ~outReady
  /\ romRd' = [romRd EXCEPT !.req = FALSE]

RomClock(g, start, abort, busDoneNow, rdata, outReady) ==
  \/ RomReset(abort)
  \/ /\ ~abort
     /\ \/ RomStarts(start)
        \/ RomBankLow
        \/ RomBankHigh(g)
        \/ RomRequests
        \/ RomAnswered(busDoneNow, rdata)
        \/ RomGap
        \/ RomTaken(outReady)
        \/ RomNext
        \/ RomEnds
        \/ RomWaits(busDoneNow, outReady)

=============================================================================
