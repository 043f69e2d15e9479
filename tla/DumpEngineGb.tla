----------------------------- MODULE DumpEngineGb -----------------------------
(***************************************************************************)
(* A dump of a Game Boy cartridge, its ROM or its save: the sequencer of   *)
(* src/fpga/services/dump/dump_engine.sv with the two Game Boy readers,    *)
(* the chunk source, the file writer, the bus and the cartridge.           *)
(*                                                                         *)
(* Clock is one clock of clk_sys: sequencer, readers, chunk source, bus    *)
(* and cartridge take their next values together.  The file writer runs in *)
(* clk_74a and interleaves with it.  What crosses - the go and fin         *)
(* toggles, the chunk request and its answer, the abort - is seen by the   *)
(* other side some clocks later: `go' and `fin' are edges on their way.    *)
(*                                                                         *)
(* Left out: the Game Boy Advance and Game Gear branches, the evidence for *)
(* the screen, and the remembered path style.                              *)
(***************************************************************************)
EXTENDS CartSaveGb, CartDumpGb, DumpChunkSrc, ApfFileWriter

CONSTANTS
  Chip,        \* organisation of the save RAM
  Save, Rom,   \* contents of the cartridge
  OpenBus,     \* what a bus nobody drives reads as
  Combos,      \* COMBO_COUNT: path styles an open is tried with (64)
  Kinds,       \* dumps the user starts: a subset of {"rom", "save"}
  Faults,      \* what may go wrong: a subset of {"refused", "card", "cancel", "power"}
  MaxDumps     \* bound on the dumps started

ASSUME DumpAssumption ==
  /\ Chip \in SaveGeometry
  /\ BankBytes > 1          \* total_bytes of a save is 2048 or more
  /\ Save \in [CellsOf(Chip) -> Byte]
  /\ Rom \in [(0 .. RomBanks - 1) \X (0 .. RomBytes - 1) -> Byte]
  /\ OpenBus \in Byte /\ 0 \in Byte
  /\ Combos \in Nat \ {0} /\ MaxDumps \in Nat
  /\ Kinds \subseteq {"rom", "save"}
  /\ Faults \subseteq {"refused", "card", "cancel", "power"}

VARIABLES
  eng,      \* ss, save_l, failed, skip_open, tries, rd_start
  abortL,   \* abort_l
  go, fin,  \* start and finish on their way to the other clock
  mode,     \* the connector is in Game Boy mode
  powered,  \* cart_powered
  dumps     \* dumps started

vars == <<eng, abortL, go, fin, mode, powered, dumps, save, romRd, romReg, chunkVars,
          writerVars, busVars, cartVars>>

EngineStates == {"IDLE", "MODE", "WAKE", "PATH", "GO", "RUN", "END"}

Busy == eng.ss # "IDLE"

\* The bytes of a dump, in the order of the file.
SaveBytes == [i \in 1 .. Chip.banks * BankBytes |->
                Save[<<(i - 1) \div BankBytes, (i - 1) % BankBytes>>]]
RomImage == [i \in 1 .. RomBanks * RomBytes |->
                Rom[<<(i - 1) \div RomBytes, (i - 1) % RomBytes>>]]
Expected == IF eng.save THEN SaveBytes ELSE RomImage
TotalBytes == Len(Expected)

-----------------------------------------------------------------------------
(* Wires *)

BusReq == IF eng.save THEN save.req ELSE romRd.req
BusTransfer == IF eng.save THEN save.transfer ELSE romRd.transfer

\* bus_rdata, the byte sampled by the transaction that is over.
BusRead ==
  IF ~powered \/ bus.wr THEN OpenBus
  ELSE IF bus.addr[1] = "ram" THEN RamRead(Chip, bus.addr[2], OpenBus)
  ELSE RomRead(Rom, bus.addr)

SrcData == IF eng.save THEN save.data ELSE romRd.data
SrcValid == IF eng.save THEN save.valid ELSE romRd.valid

\* rd_start is high for the clock after WAKE.
RdStart == eng.ss = "PATH" /\ eng.rdStart

-----------------------------------------------------------------------------
(* The sequencer *)

Ended(failed) == [eng EXCEPT !.ss = "END", !.failed = failed, !.rdStart = FALSE]

EngineIdle(start) ==
  /\ eng.ss = "IDLE"
  /\ eng' = IF start = "none" THEN eng
            ELSE [ss |-> "MODE", save |-> start = "save",
                  failed |-> FALSE, skip |-> FALSE, tries |-> 0, rdStart |-> FALSE]
  /\ UNCHANGED <<go, fin>>

\* MODE waits for the connector, WAKE for a time.
EngineMode ==
  /\ eng.ss \in {"MODE", "WAKE"}
  /\ \/ abortL /\ eng' = Ended(TRUE)
     \/ ~abortL /\ eng.ss = "MODE" /\ mode /\ eng' = [eng EXCEPT !.ss = "WAKE"]
     \/ ~abortL /\ eng.ss = "MODE" /\ ~mode /\ eng' = eng
     \/ ~abortL /\ eng.ss = "WAKE"
        /\ eng' \in {eng, [eng EXCEPT !.ss = "PATH", !.rdStart = TRUE, !.tries = 1]}
  /\ UNCHANGED <<go, fin>>

\* PATH and HOLD: the path is written and has settled.
EnginePath ==
  /\ eng.ss = "PATH"
  /\ eng' \in {[eng EXCEPT !.rdStart = FALSE], [eng EXCEPT !.rdStart = FALSE, !.ss = "GO"]}
  /\ UNCHANGED <<go, fin>>

EngineGo ==
  /\ eng.ss = "GO"
  /\ eng' = [eng EXCEPT !.ss = "RUN"]
  /\ go' = TRUE
  /\ UNCHANGED fin

\* An abort does not wait for the writer to finish.
EngineFinishesAborted ==
  /\ eng.ss = "RUN" /\ (fin \/ abortL)
  /\ fin' = FALSE
  /\ eng' = Ended(TRUE)
  /\ UNCHANGED go
\* A refused open is tried again with the next path style, then without an
\* open; nothing else is tried twice.
EngineFinishes ==
  /\ eng.ss = "RUN" /\ fin
  /\ fin' = FALSE
  /\ eng' = IF fw.failed /\ fw.failedOpen /\ ~abortL /\ eng.tries # Combos
            THEN [eng EXCEPT !.ss = "PATH", !.tries = @ + 1]
            ELSE IF fw.failed /\ fw.failedOpen /\ ~abortL /\ ~eng.skip
            THEN [eng EXCEPT !.ss = "PATH", !.tries = @ + 1, !.skip = TRUE]
            ELSE Ended(fw.failed)
  /\ UNCHANGED go

EngineRuns ==
  /\ eng.ss = "RUN"
  /\ UNCHANGED <<eng, go, fin>>

\* The bus and the save reader are waited for.  The backstop is 65535 clocks,
\* more than the 259 transactions of some 80 clocks a reader can have left:
\* it runs out on a reader that nothing moves.
Stranded == save.state = "EMIT" /\ ~chunk.ready /\ ~BusBusy

EngineEnd ==
  /\ eng.ss = "END"
  /\ \/ /\ (~BusBusy /\ ~(eng.save /\ SaveBusy)) \/ Stranded
        /\ eng' = [eng EXCEPT !.ss = "IDLE"]
     \/ /\ BusBusy \/ (eng.save /\ SaveBusy)
        /\ eng' = eng
  /\ UNCHANGED <<go, fin>>

\* abort_l, next to whatever the sequencer does.
AbortLatch(cancel) == abortL' = (Busy /\ (abortL \/ ~powered \/ cancel))

Sequence(start) ==
  \/ EngineIdle(start)
  \/ EngineMode
  \/ EnginePath
  \/ EngineGo
  \/ EngineFinishes
  \/ EngineRuns
  \/ EngineEnd

-----------------------------------------------------------------------------
(* The clock of clk_sys *)

Cancels == IF "cancel" \in Faults THEN BOOLEAN ELSE {FALSE}

\* cart_action_guard starts a dump of a cartridge it has just identified.
Starts == {"none"} \cup IF ~Busy /\ powered /\ dumps < MaxDumps THEN Kinds ELSE {}

Clock(cancel, start, req) ==
  /\ Sequence(start)
  /\ AbortLatch(cancel)
  /\ SaveClock(Chip, RdStart /\ eng.save, abortL, busDone, BusRead, chunk.ready)
  /\ RomClock(Chip, RdStart /\ ~eng.save, abortL, busDone, BusRead, chunk.ready)
  /\ ChunkClock(abortL, req, ChunkLen(TotalBytes), SrcValid, SrcData)
  /\ BusClock(mode, BusReq, BusTransfer)
  /\ CartClock(Chip, powered)
  /\ RomLatch(powered)
  /\ mode' \in IF Busy THEN {mode, TRUE} ELSE {FALSE}
  /\ dumps' = dumps + (IF start = "none" THEN 0 ELSE 1)
  /\ UNCHANGED <<writerVars, powered>>

\* The chunk request is seen as it is or, for a while, as it was.
SysClock ==
  \E cancel \in Cancels, start \in Starts, req \in {fw.req, chunk.state = "ACK"} :
    Clock(cancel, start, req)

-----------------------------------------------------------------------------
(* The other clock, the host and the supply *)

sysVars == <<eng, abortL, mode, powered, dumps, save, romRd, romReg, chunkVars,
             busVars, cartVars>>

WriterClock ==
  /\ UNCHANGED sysVars
  /\ \/ go /\ go' = FALSE /\ WriterStarts(eng.skip) /\ UNCHANGED fin
     \/ OpenIssued(abortL) /\ UNCHANGED <<go, fin>>
     \/ Ask(abortL) /\ UNCHANGED <<go, fin>>
     \/ ChunkAwaited(abortL, chunk.ack) /\ UNCHANGED <<go, fin>>
     \/ WriteIssued(abortL) /\ UNCHANGED <<go, fin>>
     \/ WriterReports /\ fin' = TRUE /\ UNCHANGED go

\* A command to the host outlasts the way back of the chunk handshake.
HostAnswers ==
  /\ UNCHANGED <<sysVars, go, fin>>
  /\ \/ \E ok \in IF "refused" \in Faults THEN BOOLEAN ELSE {TRUE} :
          OpenAnswered(ok, abortL, TotalBytes)
     \/ /\ ~chunk.ack
        /\ \E ok \in IF "card" \in Faults THEN BOOLEAN ELSE {TRUE} :
             WriteAnswered(ok, abortL, TotalBytes, buffer)

Supply ==
  /\ "power" \in Faults
  /\ powered' = ~powered
  /\ UNCHANGED <<eng, abortL, go, fin, mode, dumps, save, romRd, romReg, chunkVars,
                 writerVars, busVars, cartVars>>

Init ==
  /\ eng = [ss |-> "IDLE", save |-> FALSE, failed |-> FALSE, skip |-> FALSE,
            tries |-> 0, rdStart |-> FALSE]
  /\ abortL = FALSE /\ go = FALSE /\ fin = FALSE /\ mode = FALSE
  /\ powered = TRUE /\ dumps = 0
  /\ SaveInit /\ RomInit /\ ChunkInit /\ FileWriterInit /\ BusInit
  /\ gate = FALSE /\ bankReg = 0 /\ modeReg = 0
  /\ ram = [c \in Cell |-> IF c \in CellsOf(Chip) THEN Save[c] ELSE 0]

Next == SysClock \/ WriterClock \/ HostAnswers \/ Supply

Spec == Init /\ [][Next]_vars

\* Nothing that may take any number of clocks takes another one.
Prompt ==
  /\ busState # "IDLE" => busState' # busState
  /\ chunk.state = "FLUSH" => chunk'.state # "FLUSH"
  /\ eng.ss \in {"WAKE", "PATH"} => eng'.ss # eng.ss
  /\ Stranded /\ eng.ss = "END" => eng'.ss = "IDLE"
  /\ mode' = Busy

\* The clocks run, the waits are counted down, and the host answers.
Fairness ==
  /\ WF_vars(\E cancel \in Cancels, start \in Starts :
               Clock(cancel, start, fw.req) /\ Prompt)
  /\ WF_vars(WriterClock)
  /\ WF_vars(HostAnswers)

FairSpec == Spec /\ Fairness

-----------------------------------------------------------------------------
(* Properties *)

Longest == IF Len(SaveBytes) > Len(RomImage) THEN Len(SaveBytes) ELSE Len(RomImage)

\* Every register keeps its type, and no dump makes the file longer than the
\* longest dump is.
TypeOK ==
  /\ eng \in [ss : EngineStates, save : BOOLEAN, failed : BOOLEAN, skip : BOOLEAN,
              tries : 0 .. Combos + 1, rdStart : BOOLEAN]
  /\ {abortL, go, fin, mode, powered} \subseteq BOOLEAN
  /\ save \in SaveType /\ romRd \in RomType
  /\ chunk.left \in 0 .. ChunkBytes /\ Len(buffer) <= ChunkBytes
  /\ fw.state \in WriterStates /\ fw.written \in 0 .. Longest
  /\ Len(file) <= Longest
  /\ ram \in [Cell -> Byte]

Ends == eng.ss = "END" /\ eng'.ss = "IDLE"

\* A dump reported complete has put the cartridge's bytes, all of them and in
\* their order, at the head of the file, whatever was refused, cancelled or
\* unplugged before it (dump_engine.sv:671-740, apf_file_writer.sv:36-37).  A
\* file written without an open keeps what it has beyond them.
FileIsRight == [][Ends /\ ~eng.failed => SubSeq(file, 1, TotalBytes) = Expected]_vars

\* A dump leaves the cartridge as it found it: it never changes a byte of the
\* save (cart_save_gb.sv:18-24), and one of a save that completes has the gate
\* shut, an MBC1 in mode 0 and the bus idle before the connector is let go
\* (cart_save_gb.sv:59-63, 409-445).
LeftAsFound ==
  [][/\ ram' = ram
     /\ Ends /\ eng.save /\ ~eng.failed /\ powered => ~gate /\ modeReg = 0 /\ ~BusBusy]_vars

\* An edge sent to the other clock finds the other side listening: the writer
\* samples start only when idle and the sequencer the finish only in RUN.
EdgesHeard == (fin => eng.ss = "RUN") /\ (go => fw.state = "IDLE" /\ eng.ss = "RUN")

\* A dump ends, completed or not (dump_engine.sv:765-815).
EveryDumpEnds == Busy ~> ~Busy

\* "the disable happens on every exit including an abort"
\* (cart_save_gb.sv:27): a save dump never lets go of a powered cartridge with
\* its gate open.
ShutOnEveryExit == [][Ends /\ eng.save /\ powered => ~gate]_vars

=============================================================================
