---------------------------- MODULE CartRestoreGb ----------------------------
(***************************************************************************)
(* The cartridge save writer, src/fpga/services/restore/cart_restore_gb.sv,*)
(* on the Game Boy bus and a cartridge.  A step is one clock of all three: *)
(* every register of the writer and of the bus takes its next value        *)
(* together, from the values both had before, so a wire between the two    *)
(* (bus_req, bus_busy, bus_done) is a state function.                      *)
(*                                                                         *)
(* `in' holds the inputs of the current clock; the environment may change  *)
(* any of them at every clock.                                             *)
(***************************************************************************)
EXTENDS GbCartridge

CONSTANTS
  Image      \* save images: staged data and cartridge contents

ASSUME ImageAssumption == Image \subseteq [Cell -> Byte]

VARIABLES
  state, afterTransfer, sourceOffset, sourceByte, transfer,
  pending, cleanup, dataTransfer, cancelled, allWritten,
  busy, done, failed,
  geom,      \* mbc1_l and ram8k_l, the geometry latched at start
  sourceQ,   \* output register of the caller's synchronous staging RAM
  in,        \* inputs of this clock
  staged,    \* contents of the staging RAM
  chip,      \* organisation of the cartridge in the slot
  original   \* its RAM when the last run began

writerVars == <<state, afterTransfer, sourceOffset, sourceByte, transfer,
                pending, cleanup, dataTransfer, cancelled, allWritten,
                busy, done, failed, geom>>
\* Registers that move together.
queued == <<afterTransfer, transfer, dataTransfer>>
progress == <<sourceOffset, sourceByte, allWritten>>
envVars == <<sourceQ, in, staged, chip, original>>
vars == <<writerVars, envVars, busVars, cartVars>>

WriterStates ==
  {"DISABLE_INITIAL", "MODE_INITIAL", "BANK_INITIAL", "ENABLE", "SOURCE_WAIT",
   "SOURCE_CAPTURE", "WRITE", "ACCEPT", "WAIT", "DISABLE_FINAL", "MODE_FINAL",
   "DONE", "BANK_NEXT"}

\* The continuations queue_write is given.
Continuations ==
  {"MODE_INITIAL", "BANK_INITIAL", "ENABLE", "SOURCE_WAIT", "BANK_NEXT",
   "DISABLE_FINAL", "MODE_FINAL", "DONE"}

\* `permit' is supported && authorized && !abort: the three inputs are read
\* nowhere else.  The caller has identified the cartridge before it raises
\* start, so a supported start names the organisation of the chip.
Input == [start : BOOLEAN, reset : BOOLEAN, permit : BOOLEAN, powered : BOOLEAN]

-----------------------------------------------------------------------------
(* Wires *)

CancelNow == in.reset \/ ~in.permit
CancelRun == cancelled \/ CancelNow

BusAvailable == ~BusBusy /\ ~busDone

\* Withdrawn one clock late, on the registered cancellation.
BusReqLate == busy /\ in.powered /\ pending /\ BusAvailable /\ (cleanup \/ ~cancelled)
BusReq ==
  /\ busy
  /\ in.powered
  /\ pending
  /\ BusAvailable
  /\ cleanup \/ ~CancelRun

\* One byte short.
LastEarly == <<geom.banks - 1, IF BankBytes > 1 THEN BankBytes - 2 ELSE 0>>
Last == <<geom.banks - 1, BankBytes - 1>>
AtLast == sourceOffset = Last

Following(c) == IF c[2] = BankBytes - 1 THEN <<c[1] + 1, 0>> ELSE <<c[1], c[2] + 1>>

-----------------------------------------------------------------------------
(* The writer's clock: one action per branch and per state *)

Running == busy /\ in.powered
Diverted == CancelRun /\ ~cleanup /\ state \notin {"ACCEPT", "WAIT"}

\* What every clock of a powered run does before it looks at the state.
RunClock ==
  /\ Running
  /\ done' = FALSE
  /\ busy' = TRUE
  /\ cancelled' = (cancelled \/ CancelNow)
  /\ failed' = (failed \/ CancelNow)
  /\ UNCHANGED geom

Step(st) == RunClock /\ ~Diverted /\ state = st

\* Cancellation anywhere but in a transaction goes straight to the cleanup.
CancelIntoCleanup ==
  /\ RunClock
  /\ Diverted
  /\ pending' = FALSE
  /\ cleanup' = TRUE
  /\ state' = "DISABLE_FINAL"
  /\ UNCHANGED <<queued, progress>>

\* queue_write, taken when the bus is free; otherwise the state waits.
QueueWrite(address, payload, continuation, isData) ==
  /\ UNCHANGED progress
  /\ IF BusAvailable
     THEN /\ transfer' = [wr |-> TRUE, addr |-> address, data |-> payload]
          /\ afterTransfer' = continuation
          /\ dataTransfer' = isData
          /\ pending' = TRUE
          /\ state' = "ACCEPT"
     ELSE UNCHANGED <<queued, pending, state>>

DisableInitial ==
  /\ Step("DISABLE_INITIAL")
  /\ QueueWrite(Gate, 0, IF geom.mbc1 THEN "MODE_INITIAL" ELSE "BANK_INITIAL", FALSE)
  /\ UNCHANGED cleanup

ModeInitial ==
  /\ Step("MODE_INITIAL")
  /\ QueueWrite(Mode, 0, "BANK_INITIAL", FALSE)
  /\ UNCHANGED cleanup

BankInitial ==
  /\ Step("BANK_INITIAL")
  /\ QueueWrite(Bank, 0, "ENABLE", FALSE)
  /\ UNCHANGED cleanup

Enable ==
  /\ Step("ENABLE")
  /\ QueueWrite(Gate, 10, "SOURCE_WAIT", FALSE)
  /\ UNCHANGED cleanup

SourceWait ==
  /\ Step("SOURCE_WAIT")
  /\ state' = "SOURCE_CAPTURE"
  /\ UNCHANGED <<queued, progress, pending, cleanup>>

SourceCapture ==
  /\ Step("SOURCE_CAPTURE")
  /\ sourceByte' = sourceQ
  /\ state' = "WRITE"
  /\ UNCHANGED <<queued, sourceOffset, allWritten, pending, cleanup>>

WriteByte ==
  /\ Step("WRITE")
  /\ QueueWrite(Ram(sourceOffset[2]), sourceByte,
                IF AtLast THEN "DISABLE_FINAL"
                ELSE IF sourceOffset[2] = BankBytes - 1 THEN "BANK_NEXT"
                ELSE "SOURCE_WAIT", TRUE)
  /\ UNCHANGED cleanup

\* The bank the offset has just left.
BankNextStale ==
  /\ Step("BANK_NEXT")
  /\ QueueWrite(Bank, sourceOffset[1] - 1, "SOURCE_WAIT", FALSE)
  /\ UNCHANGED cleanup

BankNext ==
  /\ Step("BANK_NEXT")
  /\ QueueWrite(Bank, sourceOffset[1], "SOURCE_WAIT", FALSE)
  /\ UNCHANGED cleanup

\* The request is taken for accepted although it was withdrawn.
AcceptUnheard ==
  /\ Step("ACCEPT")
  /\ pending' = FALSE
  /\ state' = "WAIT"
  /\ UNCHANGED <<queued, progress, cleanup>>

\* The request is on the wires: the bus takes it, or a cancellation that
\* arrived first withdraws it.
Accept ==
  /\ Step("ACCEPT")
  /\ UNCHANGED <<queued, progress>>
  /\ IF BusReq
     THEN pending' = FALSE /\ state' = "WAIT" /\ UNCHANGED cleanup
     ELSE IF CancelRun /\ ~cleanup
     THEN pending' = FALSE /\ state' = "DISABLE_FINAL" /\ cleanup' = TRUE
     ELSE UNCHANGED <<pending, state, cleanup>>

WaitForBus ==
  /\ Step("WAIT")
  /\ ~busDone
  /\ UNCHANGED <<state, queued, progress, pending, cleanup>>

TransferDone ==
  /\ Step("WAIT")
  /\ busDone
  /\ allWritten' = (allWritten \/ (dataTransfer /\ AtLast))
  /\ sourceOffset' = IF dataTransfer /\ ~AtLast THEN Following(sourceOffset)
                     ELSE sourceOffset
  /\ IF CancelRun /\ ~cleanup
     THEN cleanup' = TRUE /\ state' = "DISABLE_FINAL"
     ELSE /\ state' = afterTransfer
          /\ cleanup' = (cleanup \/ afterTransfer = "DISABLE_FINAL")
  /\ UNCHANGED <<queued, sourceByte, pending>>

\* The mode is left as the first writes found it.
DisableFinalKeepsMode ==
  /\ Step("DISABLE_FINAL")
  /\ cleanup' = TRUE
  /\ QueueWrite(Gate, 0, "DONE", FALSE)

DisableFinal ==
  /\ Step("DISABLE_FINAL")
  /\ cleanup' = TRUE
  /\ QueueWrite(Gate, 0, IF geom.mbc1 THEN "MODE_FINAL" ELSE "DONE", FALSE)

ModeFinal ==
  /\ Step("MODE_FINAL")
  /\ QueueWrite(Mode, 0, "DONE", FALSE)
  /\ UNCHANGED cleanup

Finish ==
  /\ Running
  /\ ~Diverted
  /\ state = "DONE"
  /\ pending' = FALSE
  /\ busy' = FALSE
  /\ done' = TRUE
  /\ failed' = (CancelRun \/ ~allWritten)
  /\ cancelled' = (cancelled \/ CancelNow)
  /\ transfer' = [transfer EXCEPT !.wr = FALSE]
  /\ UNCHANGED <<state, afterTransfer, dataTransfer, progress, cleanup, geom>>

ResetWriter ==
  /\ ~Running
  /\ in.reset
  /\ state' = "DISABLE_INITIAL" /\ afterTransfer' = "DONE"
  /\ sourceOffset' = <<0, 0>> /\ sourceByte' = 0
  /\ transfer' = NoTransfer
  /\ geom' = [mbc1 |-> TRUE, banks |-> 1]
  /\ pending' = FALSE /\ cleanup' = FALSE /\ dataTransfer' = FALSE
  /\ cancelled' = FALSE /\ allWritten' = FALSE
  /\ busy' = FALSE /\ done' = FALSE /\ failed' = FALSE

PowerLost ==
  /\ busy
  /\ ~in.powered
  /\ ~in.reset
  /\ pending' = FALSE
  /\ busy' = FALSE
  /\ done' = TRUE
  /\ failed' = TRUE
  /\ cancelled' = TRUE
  /\ UNCHANGED <<state, queued, progress, cleanup, geom>>

StartAllowed == in.permit /\ in.powered /\ BusAvailable

StartRun ==
  /\ ~busy
  /\ ~in.reset
  /\ in.start
  /\ StartAllowed
  /\ busy' = TRUE
  /\ done' = FALSE
  /\ failed' = FALSE
  /\ sourceOffset' = <<0, 0>>
  /\ geom' = chip
  /\ cancelled' = FALSE
  /\ allWritten' = FALSE
  /\ pending' = FALSE
  /\ cleanup' = FALSE
  /\ dataTransfer' = FALSE
  /\ state' = "DISABLE_INITIAL"
  /\ UNCHANGED <<afterTransfer, sourceByte, transfer>>

RefuseStart ==
  /\ ~busy
  /\ ~in.reset
  /\ in.start
  /\ ~StartAllowed
  /\ done' = TRUE
  /\ failed' = TRUE
  /\ UNCHANGED <<state, queued, progress, pending, cleanup, cancelled, busy, geom>>

IdleClock ==
  /\ ~busy
  /\ ~in.reset
  /\ ~in.start
  /\ done' = FALSE
  /\ UNCHANGED <<state, queued, progress, pending, cleanup, cancelled, busy,
                 failed, geom>>

WriterClock ==
  \/ CancelIntoCleanup
  \/ DisableInitial \/ ModeInitial \/ BankInitial \/ Enable
  \/ SourceWait \/ SourceCapture \/ WriteByte \/ BankNext
  \/ Accept \/ WaitForBus \/ TransferDone
  \/ DisableFinal \/ ModeFinal \/ Finish
  \/ ResetWriter \/ PowerLost
  \/ StartRun \/ RefuseStart \/ IdleClock

-----------------------------------------------------------------------------
(* The system *)

\* The staging RAM presents the addressed byte one clock later and does not
\* change while the writer uses it (restore_engine leaves LOAD long before).
SourceClock ==
  /\ sourceQ' = staged[sourceOffset]
  /\ UNCHANGED <<staged, chip>>
  /\ original' = IF ~busy THEN ram' ELSE original

Init ==
  /\ chip \in Geometry
  /\ staged \in Image
  /\ ram \in Image
  /\ original = ram
  /\ gate \in BOOLEAN
  /\ bankReg \in 0 .. MaxBanks - 1
  /\ modeReg \in {0, 1}
  /\ BusInit
  /\ state = "DISABLE_INITIAL" /\ afterTransfer = "DONE"
  /\ sourceOffset = <<0, 0>> /\ sourceByte = 0
  /\ transfer = NoTransfer
  /\ geom = [mbc1 |-> TRUE, banks |-> 1]
  /\ pending = FALSE /\ cleanup = FALSE /\ dataTransfer = FALSE
  /\ cancelled = FALSE /\ allWritten = FALSE
  /\ busy = FALSE /\ done = FALSE /\ failed = FALSE
  /\ sourceQ = staged[<<0, 0>>]
  /\ in \in Input

\* GB mode is held for the whole of a powered run, as the writer's header asks
\* of its caller; it goes with the power.
Next ==
  /\ WriterClock
  /\ BusClock(in.powered, BusReq, transfer)
  /\ CartClock(chip, in.powered)
  /\ SourceClock
  /\ in' \in Input

\* The clock runs, and each bus phase has a finite count.
Fairness ==
  /\ WF_vars(Next)
  /\ WF_vars(Next /\ BusAdvance)

Spec == Init /\ [][Next]_vars
FairSpec == Spec /\ Fairness

-----------------------------------------------------------------------------
(* Properties *)

Address == {Gate, Mode, Bank} \cup {Ram(o) : o \in 0 .. BankBytes - 1}
Transfer == [wr : BOOLEAN, addr : Address, data : Nat]

RegisterType ==
  /\ state \in WriterStates
  /\ afterTransfer \in Continuations
  /\ sourceOffset \in Cell
  /\ sourceByte \in Nat
  /\ transfer \in Transfer
  /\ pending \in BOOLEAN /\ cleanup \in BOOLEAN /\ dataTransfer \in BOOLEAN
  /\ cancelled \in BOOLEAN /\ allWritten \in BOOLEAN
  /\ busy \in BOOLEAN /\ done \in BOOLEAN /\ failed \in BOOLEAN
  /\ geom \in Geometry

\* Every register keeps its type.
TypeOK ==
  /\ RegisterType
  /\ busState \in {"IDLE", "SETUP", "STROBE", "HOLD", "DONE"}
  /\ busDone \in BOOLEAN /\ busRefuse \in BOOLEAN /\ gate \in BOOLEAN
  /\ bus \in Transfer
  /\ bankReg \in Nat
  /\ modeReg \in Nat
  /\ ram \in [Cell -> Byte]
  /\ original \in [Cell -> Byte]
  /\ staged \in Image
  /\ sourceQ \in Byte
  /\ chip \in Geometry
  /\ in \in Input

Precedes(c, d) == c[1] < d[1] \/ (c[1] = d[1] /\ c[2] < d[2])

\* While a run is powered the cartridge holds the staged bytes up to the
\* writer's offset and its own bytes beyond it, in every bank: no byte is
\* skipped, repeated elsewhere, or sent to the wrong bank, however the run is
\* cut short (source_offset, BANK_NEXT and the accepted transfer agree).
BytesInOrder ==
  busy =>
    /\ \A c \in CellsOf(chip) : Precedes(c, sourceOffset) => ram[c] = staged[c]
    /\ \A c \in Cell : Precedes(sourceOffset, c) => ram[c] = original[c]

\* A run that reports success has put every staged byte in the cartridge.
SuccessIsComplete ==
  done /\ ~failed => \A c \in CellsOf(chip) : ram[c] = staged[c]

\* In a run, the writer waits only for a transaction the bus really has, or
\* whose done it is looking at: bus_req and the bus's refuse never disagree.
WaitHasTransaction ==
  busy /\ state = "WAIT" => BusBusy \/ busDone

\* "Requests remain revocable until gb_cart_bus accepts them": the bus never
\* takes a save byte in a clock in which permission is withdrawn, or after.
NoByteAfterRevocation ==
  [][busState = "IDLE" /\ busState' = "SETUP" /\ bus'.addr[1] = "ram"
       => ~CancelRun]_vars

\* A run that ends with the cartridge powered, for whatever reason, leaves the
\* RAM gate shut, an MBC1 in mode 0 and the bus idle.
CleanExit ==
  [][busy /\ ~busy' /\ in.powered =>
       ~gate' /\ (chip.mbc1 => modeReg' = 0) /\ busState' = "IDLE"]_vars

\* Every run terminates, cancelled or not.
RunEnds == busy ~> ~busy

=============================================================================
