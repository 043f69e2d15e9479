--------------------------- MODULE DumpEngineGb_proofs ---------------------------
(***************************************************************************)
(* Proofs about DumpEngineGb: a dump of any Game Boy cartridge, whatever   *)
(* its size, the chunk, the host's answers, the number of dumps and the    *)
(* moments at which it is refused, cancelled or unplugged.                 *)
(*                                                                         *)
(* The invariant counts bytes.  A dump that runs is exact - what its       *)
(* reader has before it and what has left the reader make up the file, and *)
(* both are right so far - or short: the reader cannot hand over enough    *)
(* any more, so the writer can only fail.                                  *)
(***************************************************************************)
EXTENDS DumpEngineGb, TLAPS

-----------------------------------------------------------------------------
(* The inductive invariant *)

SaveTotal == Chip.banks * BankBytes
RomTotal == RomBanks * RomBytes

\* The states in which a reader waits for the bus.
SaveWaiting ==
  {"PROBE_W", "ENABLE_W", "MODE_W", "BANK_W", "READ_W", "DISABLE_W"}
RomWaiting == {"BANK_LO_W", "BANK_HI_W", "READ_W", "COMPARE_W"}

\* The save reader before, in and after the pass over the data.
SaveProbing == {"PROBE_RD", "PROBE_W"}
SaveOpening == {"ENABLE", "ENABLE_W"}
SavePassing == {"BANK", "BANK_W", "READ", "READ_W", "EMIT", "NEXT"}
SaveClosing == {"DISABLE", "DISABLE_W", "DONE", "IDLE"}

SavePos == save.bank * BankBytes + save.offset
RomPos == romRd.bank * RomBytes + romRd.offset

\* Bytes a reader has before it, if nobody aborts it.
SaveRest ==
  IF save.restore \/ save.state \in SaveClosing THEN 0
  ELSE IF save.state \in SavePassing
       THEN IF save.state = "NEXT" THEN SaveTotal - (SavePos + 1) ELSE SaveTotal - SavePos
       ELSE SaveTotal
RomRest ==
  IF romRd.state \in {"IDLE", "DONE"} THEN 0
  ELSE IF romRd.state = "NEXT" THEN RomTotal - (RomPos + 1) ELSE RomTotal - RomPos

\* Bytes it can still hand over: an aborted save reader has the one in its hand.
SaveLeft ==
  IF ~save.abort THEN SaveRest
  ELSE IF save.state \in {"READ_W", "EMIT"} THEN 1 ELSE 0

BusAddrs == RomAddresses \cup {Gate, Mode, Bank} \cup {Ram(o) : o \in 0 .. BankBytes - 1}

-----------------------------------------------------------------------------
(* Each part by itself *)

SaveTransferOK ==
  /\ save.transfer.wr => save.transfer.addr[1] # "ram"
  /\ save.transfer.addr = Mode => Chip.mbc1
  /\ save.transfer.wr /\ save.transfer.addr = Bank => save.transfer.data \in 0 .. MaxBanks - 1
  /\ save.state \in {"PROBE_W", "READ_W"} =>
       ~save.transfer.wr /\ save.transfer.addr = Ram(save.offset)
  /\ save.state = "ENABLE_W" =>
       save.transfer.wr /\ save.transfer.addr = Gate /\ save.transfer.data = 10
  /\ save.state = "DISABLE_W" =>
       save.transfer.wr /\ save.transfer.addr = Gate /\ save.transfer.data = 0
  /\ save.state = "MODE_W" =>
       /\ save.transfer.wr /\ save.transfer.addr = Mode
       /\ save.transfer.data = IF save.restore THEN 0 ELSE 1
  /\ save.state = "BANK_W" =>
       save.transfer.wr /\ save.transfer.addr = Bank /\ save.transfer.data = save.bank

SaveOK ==
  /\ save \in SaveType
  /\ save.req => save.state \in SaveWaiting
  /\ save.valid <=> save.state = "EMIT"
  /\ save.state \in SavePassing => save.bank < Chip.banks /\ ~save.restore
  /\ save.state \in {"BANK", "BANK_W"} => save.offset = 0
  /\ save.state \in SaveProbing \cup SaveOpening => save.bank = 0 /\ ~save.restore
  /\ save.state \in SaveProbing => save.offset < ProbeBytes
  /\ save.state \in SaveOpening => save.offset = 0
  /\ save.state \in {"MODE", "MODE_W"} =>
       Chip.mbc1 /\ (~save.restore => save.bank = 0 /\ save.offset = 0)
  /\ SaveTransferOK

RomTransferOK ==
  /\ romRd.transfer.wr => romRd.transfer.addr \in {RomBank, Bank}
  /\ romRd.transfer.wr /\ romRd.transfer.addr = Bank => romRd.transfer.data = 0
  /\ romRd.state = "BANK_LO_W" =>
       romRd.transfer.wr /\ romRd.transfer.addr = RomBank /\ romRd.transfer.data = romRd.bank
  /\ romRd.state = "BANK_HI_W" => romRd.transfer.wr /\ romRd.transfer.addr = Bank
  /\ romRd.state \in {"READ_W", "COMPARE_W"} =>
       ~romRd.transfer.wr /\ romRd.transfer.addr = RomReadAddr

RomOK ==
  /\ romRd \in RomType
  /\ romRd.req => romRd.state \in RomWaiting
  /\ romRd.valid <=> romRd.state = "EMIT"
  /\ RomTransferOK

\* A transfer either reader may ask for: the save is never written.
TransferOK(t) ==
  /\ t \in [wr : BOOLEAN, addr : BusAddrs, data : Nat]
  /\ t.wr => t.addr[1] # "ram"
  /\ t.addr = Mode => Chip.mbc1
  /\ t.wr /\ t.addr = Bank => t.data \in 0 .. MaxBanks - 1

BusOK ==
  /\ busState \in {"IDLE", "SETUP", "STROBE", "HOLD", "DONE"}
  /\ busDone \in BOOLEAN /\ busRefuse = busDone
  /\ busDone => busState = "IDLE"
  /\ TransferOK(bus)

CartOK ==
  /\ gate \in BOOLEAN /\ bankReg \in 0 .. MaxBanks - 1 /\ modeReg \in Nat /\ romReg \in Nat
  /\ ram = [c \in Cell |-> IF c \in CellsOf(Chip) THEN Save[c] ELSE 0]
  /\ ~Chip.mbc1 => modeReg = 0

ChunkOK ==
  /\ chunk \in [state : {"IDLE", "FILL", "FLUSH", "ACK"}, left : 0 .. ChunkBytes,
                ready : BOOLEAN, ack : BOOLEAN]
  /\ buffer \in Seq(Byte) /\ Len(buffer) <= ChunkBytes
  /\ chunk.ready => chunk.state = "FILL" /\ chunk.left > 0
  /\ chunk.ack => chunk.state = "ACK"

WriterOK ==
  /\ fw \in [state : WriterStates, written : Nat, aborting : BOOLEAN, req : BOOLEAN,
             failed : BOOLEAN, failedOpen : BOOLEAN]
  /\ fw.req <=> fw.state = "ASK_WAIT"
  /\ fw.written <= Longest
  /\ file \in Seq(Byte) /\ Len(file) <= Longest

EngOK ==
  /\ eng \in [ss : EngineStates, save : BOOLEAN, failed : BOOLEAN, skip : BOOLEAN,
              tries : 0 .. Combos + 1, rdStart : BOOLEAN]
  /\ abortL \in BOOLEAN /\ go \in BOOLEAN /\ fin \in BOOLEAN
  /\ mode \in BOOLEAN /\ powered \in BOOLEAN
  /\ eng.rdStart => eng.ss = "PATH"
  /\ eng.ss \in {"PATH", "GO", "RUN"} => eng.skip \/ eng.tries <= Combos
  /\ eng.ss \in {"WAKE", "PATH", "GO", "RUN"} \/ (eng.ss = "END" /\ ~eng.failed) => mode

\* Start and finish between the two clocks.
Edges ==
  IF eng.ss = "RUN" THEN /\ go => ~fin
                         /\ (go \/ fin) <=> fw.state = "IDLE"
  ELSE fw.state = "IDLE" /\ ~go /\ ~fin

\* The writer is at work on this dump, or has reported.
Running == eng.ss = "RUN" /\ ~go

-----------------------------------------------------------------------------
(* The writer and the chunk source *)

Handing == fw.state \in {"WRITE", "WRITE_WAIT"}

Handshake ==
  /\ chunk.state # "IDLE" =>
       /\ Running
       /\ abortL \/ fw.state = "ASK_WAIT" \/ Handing
       /\ Len(buffer) + (IF chunk.state = "FILL" THEN chunk.left ELSE 0) = ChunkLen(TotalBytes)
  /\ Handing /\ chunk.state # "IDLE" => chunk.ack
  /\ Handing => Len(buffer) = ChunkLen(TotalBytes)

RunOK ==
  Running =>
    /\ fw.written <= TotalBytes /\ fw.written <= Len(file)
    /\ fw.state \in {"OPEN", "OPEN_WAIT"} => fw.written = 0
    /\ eng.skip => fw.state \notin {"OPEN", "OPEN_WAIT"} /\ ~fw.failedOpen
    /\ fw.state \in {"ASK", "ASK_WAIT"} \/ Handing => fw.written < TotalBytes
    /\ fw.state = "DONE" => fw.written = TotalBytes
    /\ fw.state = "IDLE" /\ ~fw.failed => fw.written = TotalBytes
    /\ fw.state # "IDLE" /\ fw.aborting => abortL

-----------------------------------------------------------------------------
(* The reader, the bus and the cartridge *)

Connected == Busy /\ mode

\* What is on the bus is what the reader of this dump waits for.
Coupled ==
  /\ Connected /\ eng.save =>
       /\ save.req => ~BusBusy /\ ~busDone
       /\ BusBusy \/ busDone => save.state \in SaveWaiting /\ bus = save.transfer
  /\ Connected /\ ~eng.save /\ ~abortL =>
       /\ romRd.req => ~BusBusy /\ ~busDone
       /\ BusBusy \/ busDone => romRd.state \in RomWaiting /\ bus = romRd.transfer

\* A write that has passed its edge is in the cartridge.
Landed == bus.wr /\ (busState \in {"HOLD", "DONE"} \/ busDone)
Latched ==
  Connected /\ Landed =>
    /\ bus.addr = Gate /\ bus.data = 0 => ~gate
    /\ bus.addr = Mode /\ bus.data = 0 => modeReg = 0
    /\ ~abortL =>
         /\ bus.addr = Gate => gate = (bus.data % 16 = 10)
         /\ bus.addr = Mode => modeReg = bus.data
         /\ bus.addr = Bank => bankReg = bus.data
         /\ bus.addr = RomBank => romReg = bus.data

-----------------------------------------------------------------------------
(* The bytes of a dump *)

InDump == eng.ss \in {"PATH", "GO", "RUN"}

\* Bytes of this dump that have left the reader for good.
Sent ==
  IF eng.ss # "RUN" \/ go THEN 0
  ELSE fw.written + (IF Handing \/ chunk.state # "IDLE" THEN Len(buffer) ELSE 0)

OwnRest == IF eng.save THEN SaveRest ELSE RomRest
OwnLeft == IF eng.save THEN SaveLeft ELSE RomRest

\* The dump cannot complete any more.
Short == OwnLeft + Sent < TotalBytes

\* What the cartridge has latched is what the reader believes, and what the
\* reader holds is the byte it is at.
SaveRight ==
  /\ ~save.abort
  /\ save.state \in {"MODE", "MODE_W"} \cup SavePassing /\ ~save.restore => gate
  /\ save.state \in SavePassing /\ Chip.mbc1 => modeReg = 1
  /\ save.state \in {"READ", "READ_W", "EMIT", "NEXT"} /\ Chip.banks # 1 => bankReg = save.bank
  /\ save.state = "EMIT" => save.data = Save[<<save.bank, save.offset>>]
RomRight ==
  /\ romRd.state \notin {"IDLE", "BANK_LO", "BANK_LO_W", "DONE"} /\ romRd.bank # 0 =>
       romReg = romRd.bank
  /\ romRd.state \in {"GAP", "REREAD", "COMPARE_W", "EMIT"} =>
       romRd.data = Rom[<<romRd.bank, romRd.offset>>]
ReaderRight == ~abortL => IF eng.save THEN SaveRight ELSE RomRight

FileRight ==
  Running =>
    /\ \A i \in 1 .. fw.written : file[i] = Expected[i]
    /\ Handing \/ chunk.state # "IDLE" =>
         \A i \in 1 .. Len(buffer) : buffer[i] = Expected[fw.written + i]

\* A save reader past the last byte undoes what it did.
SaveUndone ==
  eng.save /\ SaveRest = 0 /\ save.state # "NEXT" =>
    /\ Chip.mbc1 => save.restore
    /\ save.state \in SaveClosing => modeReg = 0
    /\ save.state \in {"DONE", "IDLE"} => ~gate

Exact ==
  /\ OwnRest + Sent = TotalBytes
  /\ ReaderRight
  /\ FileRight
  /\ SaveUndone

Books ==
  /\ ~(InDump /\ eng.save) => SaveLeft < SaveTotal
  /\ ~(InDump /\ ~eng.save) => RomRest < RomTotal
  /\ InDump => Short \/ (~eng.rdStart /\ Exact)
  /\ Running /\ (fw.state = "FAIL" \/ (fw.state = "IDLE" /\ fw.failed)) =>
       fw.failedOpen \/ abortL \/ Short
  /\ eng.ss = "END" /\ ~eng.failed =>
       /\ SubSeq(file, 1, TotalBytes) = Expected
       /\ eng.save => SaveRest = 0 /\ SaveUndone

Inv ==
  /\ SaveOK /\ RomOK /\ BusOK /\ CartOK /\ ChunkOK /\ WriterOK /\ EngOK
  /\ Edges /\ Handshake /\ RunOK
  /\ Coupled /\ Latched
  /\ Books

-----------------------------------------------------------------------------
(* Addresses *)

SaveAddrs == {Gate, Mode, Bank} \cup {Ram(o) : o \in 0 .. BankBytes - 1}

\* The type of the save reader, its addresses named.
LEMMA SaveTypeIs ==
  SaveType =
    [state : SaveStates, offset : 0 .. BankBytes - 1, bank : 0 .. MaxBanks - 1,
     restore : BOOLEAN, abort : BOOLEAN, data : Byte, valid : BOOLEAN, req : BOOLEAN,
     transfer : [wr : BOOLEAN, addr : SaveAddrs, data : Nat]]
BY Zenon DEF SaveType, SaveAddrs

\* The addresses the save reader uses.
LEMMA SaveAddrsHas ==
  /\ {Gate, Mode, Bank} \subseteq SaveAddrs
  /\ \A o \in 0 .. BankBytes - 1 : Ram(o) \in SaveAddrs
BY Zenon DEF SaveAddrs

\* An address is a place and an offset.
LEMMA Addresses ==
  /\ Gate[1] = "gate" /\ Mode[1] = "mode" /\ Bank[1] = "bank" /\ RomBank[1] = "rombank"
  /\ \A o : Ram(o)[1] = "ram" /\ Ram(o)[2] = o
  /\ \A o : RomFixed(o)[1] = "rom0" /\ RomFixed(o)[2] = o
  /\ \A o : RomSwitched(o)[1] = "romx" /\ RomSwitched(o)[2] = o
BY DEF Gate, Mode, Bank, RomBank, Ram, RomFixed, RomSwitched

\* Places differ.
LEMMA AddressesDiffer ==
  /\ Gate # Mode /\ Gate # Bank /\ Gate # RomBank
  /\ Mode # Bank /\ Mode # RomBank /\ Bank # RomBank
  /\ \A o : Ram(o) # Gate /\ Ram(o) # Mode /\ Ram(o) # Bank /\ Ram(o) # RomBank
BY DEF Gate, Mode, Bank, RomBank, Ram

-----------------------------------------------------------------------------
(* The save reader *)

\* The registers of the reader after a clock, but for abort_l and the transfer.
SaveBecomes(st, off, bk, rs, da, va, rq) ==
  /\ save'.state = st /\ save'.offset = off /\ save'.bank = bk
  /\ save'.restore = rs /\ save'.data = da /\ save'.valid = va /\ save'.req = rq

\* It goes on with the address it has, and makes no request.
SaveSteps(st) ==
  /\ SaveBecomes(st, save.offset, save.bank, save.restore, save.data, save.valid, FALSE)
  /\ save'.transfer = save.transfer
SaveSends(st, w, a, d) ==
  /\ SaveBecomes(st, save.offset, save.bank, save.restore, save.data, save.valid, TRUE)
  /\ save'.transfer.wr = w /\ save'.transfer.addr = a /\ save'.transfer.data = d
\* It goes to another byte.
SaveMoves(st, off, bk) ==
  /\ SaveBecomes(st, off, bk, save.restore, save.data, save.valid, FALSE)
  /\ save'.transfer = save.transfer
SaveLeaves(off) ==
  /\ IF Chip.mbc1 /\ ~save.restore
     THEN SaveBecomes("MODE", off, save.bank, TRUE, save.data, save.valid, FALSE)
     ELSE SaveBecomes("DISABLE", off, save.bank, save.restore, save.data, save.valid, FALSE)
  /\ save'.transfer = save.transfer

SaveFxIdle(start) ==
  /\ save.state = "IDLE"
  /\ save'.transfer = save.transfer
  /\ IF start THEN ~save'.abort /\ SaveBecomes("PROBE_RD", 0, 0, FALSE, save.data, FALSE, FALSE)
     ELSE /\ save'.abort = save.abort
          /\ SaveBecomes("IDLE", save.offset, save.bank, save.restore, save.data, FALSE, FALSE)
SaveFxProbe(done) ==
  \/ save.state = "PROBE_RD"
     /\ SaveSends("PROBE_W", FALSE, Ram(save.offset), save.transfer.data)
  \/ save.state = "PROBE_W" /\ done
     /\ IF save.offset = ProbeBytes - 1
        THEN SaveMoves(IF save.abort THEN "DISABLE" ELSE "ENABLE", 0, save.bank)
        ELSE SaveMoves("PROBE_RD", save.offset + 1, save.bank)
SaveFxOpen(done) ==
  \/ save.state = "ENABLE" /\ SaveSends("ENABLE_W", TRUE, Gate, 10)
  \/ save.state = "ENABLE_W" /\ done /\ SaveSteps(IF Chip.mbc1 THEN "MODE" ELSE "BANK")
SaveFxMode(done) ==
  \/ save.state = "MODE"
     /\ SaveSends("MODE_W", TRUE, Mode, IF save.restore THEN 0 ELSE 1)
  \/ save.state = "MODE_W" /\ done /\ SaveSteps(IF save.restore THEN "DISABLE" ELSE "BANK")
SaveFxBank(done) ==
  \/ save.state = "BANK" /\ Chip.banks = 1 /\ SaveSteps("READ")
  \/ save.state = "BANK" /\ Chip.banks # 1 /\ SaveSends("BANK_W", TRUE, Bank, save.bank)
  \/ save.state = "BANK_W" /\ done /\ SaveSteps("READ")
SaveFxRead(done, rdata) ==
  \/ save.state = "READ" /\ save.abort /\ SaveLeaves(save.offset)
  \/ save.state = "READ" /\ ~save.abort
     /\ SaveSends("READ_W", FALSE, Ram(save.offset), save.transfer.data)
  \/ save.state = "READ_W" /\ done
     /\ SaveBecomes("EMIT", save.offset, save.bank, save.restore, rdata, TRUE, FALSE)
     /\ save'.transfer = save.transfer
SaveFxEmit(ready) ==
  \/ save.state = "EMIT" /\ ready
     /\ SaveBecomes("NEXT", save.offset, save.bank, save.restore, save.data, FALSE, FALSE)
     /\ save'.transfer = save.transfer
  \/ save.state = "NEXT" /\ save.offset # BankBytes - 1
     /\ SaveMoves("READ", save.offset + 1, save.bank)
  \/ save.state = "NEXT" /\ save.offset = BankBytes - 1 /\ save.bank + 1 # Chip.banks
     /\ SaveMoves("BANK", 0, save.bank + 1)
  \/ save.state = "NEXT" /\ save.offset = BankBytes - 1 /\ save.bank + 1 = Chip.banks
     /\ SaveLeaves(0)
SaveFxShut(done) ==
  \/ save.state = "DISABLE" /\ SaveSends("DISABLE_W", TRUE, Gate, 0)
  \/ save.state = "DISABLE_W" /\ done /\ SaveSteps("DONE")
  \/ save.state = "DONE" /\ SaveSteps("IDLE")
SaveFxWait(done, ready) ==
  /\ (save.state \in SaveWaiting /\ ~done) \/ (save.state = "EMIT" /\ ~ready)
  /\ SaveSteps(save.state)

\* One clock of the reader, register by register.
SaveFx(start, abort, done, rdata, ready) ==
  \/ SaveFxIdle(start)
  \/ /\ save.state # "IDLE" /\ save'.abort = (save.abort \/ abort)
     /\ \/ SaveFxProbe(done) \/ SaveFxOpen(done) \/ SaveFxMode(done)
        \/ SaveFxBank(done) \/ SaveFxRead(done, rdata) \/ SaveFxEmit(ready)
        \/ SaveFxShut(done) \/ SaveFxWait(done, ready)

\* The save reader between two operations, with the abort latched.
LEMMA SaveLatches ==
  ASSUME save \in SaveType, NEW abort \in BOOLEAN
  PROVE  /\ Latching(abort) \in SaveType
         /\ Latching(abort).state = save.state /\ Latching(abort).offset = save.offset
         /\ Latching(abort).bank = save.bank /\ Latching(abort).restore = save.restore
         /\ Latching(abort).data = save.data /\ Latching(abort).valid = save.valid
         /\ Latching(abort).req = FALSE /\ Latching(abort).transfer = save.transfer
         /\ save.state # "IDLE" => Latching(abort).abort = (save.abort \/ abort)
BY SaveTypeIs DEF Latching, SaveBusy

\* What the assumptions say of the numbers of the save reader.
LEMMA SaveBounds ==
  /\ Chip.mbc1 \in BOOLEAN /\ Chip.banks \in 1 .. MaxBanks
  /\ BankBytes \in Nat /\ BankBytes > 1 /\ MaxBanks \in Nat /\ MaxBanks > 0
  /\ ProbeBytes \in 1 .. BankBytes /\ 0 \in Byte
BY CartAssumption, ProbeAssumption, DumpAssumption DEF SaveGeometry

\* The updates the save reader makes keep its type.
LEMMA SaveRecords ==
  /\ \A r \in SaveType, st \in SaveStates : [r EXCEPT !.state = st] \in SaveType
  /\ \A r \in SaveType, st \in SaveStates, a \in SaveAddrs :
       [r EXCEPT !.state = st, !.req = TRUE,
                 !.transfer.wr = FALSE, !.transfer.addr = a] \in SaveType
  /\ \A r \in SaveType, st \in SaveStates, a \in SaveAddrs, w \in BOOLEAN, d \in Nat :
       [r EXCEPT !.state = st, !.req = TRUE,
                 !.transfer = [wr |-> w, addr |-> a, data |-> d]] \in SaveType
  /\ \A r \in SaveType, st \in SaveStates, o \in 0 .. BankBytes - 1 :
       [r EXCEPT !.offset = o, !.state = st] \in SaveType
  /\ \A r \in SaveType, st \in SaveStates, o \in 0 .. BankBytes - 1, b \in 0 .. MaxBanks - 1 :
       [r EXCEPT !.offset = o, !.bank = b, !.state = st] \in SaveType
  /\ \A r \in SaveType : [r EXCEPT !.req = FALSE, !.valid = FALSE] \in SaveType
  /\ \A r \in SaveType, st \in SaveStates, o \in 0 .. BankBytes - 1, b \in 0 .. MaxBanks - 1 :
       [r EXCEPT !.state = st, !.req = FALSE, !.valid = FALSE, !.bank = b,
                 !.restore = FALSE, !.offset = o, !.abort = FALSE] \in SaveType
<1>1. \A r \in SaveType, st \in SaveStates : [r EXCEPT !.state = st] \in SaveType
  BY SaveTypeIs
<1>2. \A r \in SaveType, st \in SaveStates, a \in SaveAddrs :
       [r EXCEPT !.state = st, !.req = TRUE,
                 !.transfer.wr = FALSE, !.transfer.addr = a] \in SaveType
  BY SaveTypeIs
<1>3. \A r \in SaveType, st \in SaveStates, a \in SaveAddrs, w \in BOOLEAN, d \in Nat :
       [r EXCEPT !.state = st, !.req = TRUE,
                 !.transfer = [wr |-> w, addr |-> a, data |-> d]] \in SaveType
  BY SaveTypeIs
<1>4. \A r \in SaveType, st \in SaveStates, o \in 0 .. BankBytes - 1 :
       [r EXCEPT !.offset = o, !.state = st] \in SaveType
  BY SaveTypeIs
<1>5. \A r \in SaveType, st \in SaveStates, o \in 0 .. BankBytes - 1, b \in 0 .. MaxBanks - 1 :
       [r EXCEPT !.offset = o, !.bank = b, !.state = st] \in SaveType
  BY SaveTypeIs
<1>6. \A r \in SaveType : [r EXCEPT !.req = FALSE, !.valid = FALSE] \in SaveType
  BY SaveTypeIs
<1>7. \A r \in SaveType, st \in SaveStates, o \in 0 .. BankBytes - 1, b \in 0 .. MaxBanks - 1 :
       [r EXCEPT !.state = st, !.req = FALSE, !.valid = FALSE, !.bank = b,
                 !.restore = FALSE, !.offset = o, !.abort = FALSE] \in SaveType
  BY SaveTypeIs
<1> QED BY <1>1, <1>2, <1>3, <1>4, <1>5, <1>6, <1>7, Zenon

\* Its states.
LEMMA SaveStatesHas ==
  /\ {"IDLE", "PROBE_RD", "PROBE_W", "ENABLE", "ENABLE_W", "MODE", "MODE_W"} \subseteq SaveStates
  /\ {"BANK", "BANK_W", "READ", "READ_W", "EMIT", "NEXT"} \subseteq SaveStates
  /\ {"DISABLE", "DISABLE_W", "DONE"} \subseteq SaveStates
BY DEF SaveStates

\* What the save reader does on its way out.
LEMMA SaveLeavingFx ==
  ASSUME NEW r \in SaveType, r.state = save.state, r.bank = save.bank,
         r.restore = save.restore, r.data = save.data, r.valid = save.valid,
         r.req = FALSE, r.transfer = save.transfer,
         save' = Leaving(Chip, r)
  PROVE  save' \in SaveType /\ SaveLeaves(r.offset) /\ save'.abort = r.abort
<1>1. CASE Chip.mbc1 /\ ~r.restore
  <2>1. save' = [r EXCEPT !.restore = TRUE, !.state = "MODE"]
    BY <1>1 DEF Leaving
  <2> QED BY <2>1, <1>1, SaveTypeIs DEF SaveLeaves, SaveBecomes, SaveStates
<1>2. CASE ~(Chip.mbc1 /\ ~r.restore)
  <2>1. save' = [r EXCEPT !.state = "DISABLE"]
    BY <1>2 DEF Leaving
  <2> QED BY <2>1, <1>2, SaveTypeIs DEF SaveLeaves, SaveBecomes, SaveStates
<1> QED BY <1>1, <1>2

\* Every clock of the reader is one of those, and keeps its registers typed.
LEMMA SaveClockFx ==
  ASSUME SaveOK,
         NEW start \in BOOLEAN, NEW abort \in BOOLEAN, NEW done \in BOOLEAN,
         NEW rdata \in Byte, NEW ready \in BOOLEAN,
         SaveClock(Chip, start, abort, done, rdata, ready)
  PROVE  save' \in SaveType /\ SaveFx(start, abort, done, rdata, ready)
<1>t. save \in SaveType /\ (save.state \in SavePassing => save.bank < Chip.banks)
  BY DEF SaveOK
<1>z. 0 \in 0 .. BankBytes - 1 /\ 0 \in 0 .. MaxBanks - 1 /\ SaveStates = SaveStates
  BY SaveBounds
<1>1. CASE SaveStarts(start)
  <2>1. save' \in SaveType
    BY <1>t, <1>z, <1>1, SaveRecords, SaveStatesHas DEF SaveStarts
  <2>2. SaveFxIdle(start)
    BY <1>t, <1>1, SaveLatches, SaveTypeIs, SaveBounds
    DEF SaveStarts, SaveFxIdle, SaveBecomes
  <2> QED BY <2>1, <2>2, Zenon DEF SaveFx
<1>2. CASE ProbeAsks(abort)
  <2>1. save' \in SaveType
    <3>1. Ram(save.offset) \in SaveAddrs
      BY <1>t, SaveTypeIs, SaveAddrsHas
    <3> QED BY <3>1, <1>t, <1>z, <1>2, SaveLatches, SaveRecords, SaveStatesHas DEF ProbeAsks, SaveReads
  <2>2. SaveFxProbe(done) /\ save.state # "IDLE" /\ save'.abort = (save.abort \/ abort)
    BY <1>t, <1>2, SaveLatches, SaveTypeIs, SaveBounds
    DEF ProbeAsks, SaveReads, SaveFxProbe, SaveSends, SaveBecomes
  <2> QED BY <2>1, <2>2, Zenon DEF SaveFx
<1>3. CASE ProbeAnswered(abort, done)
  <2>1. save' \in SaveType
    <3>1. save.offset # ProbeBytes - 1 => save.offset + 1 \in 0 .. BankBytes - 1
      BY <1>t, <1>3, SaveTypeIs, SaveBounds DEF ProbeAnswered, SaveOK, SaveProbing
    <3>2. CASE save.offset = ProbeBytes - 1
      <4> DEFINE st == IF save.abort THEN "DISABLE" ELSE "ENABLE"
      <4>1. save' = [Latching(abort) EXCEPT !.offset = 0, !.state = st]
        BY <3>2, <1>3 DEF ProbeAnswered
      <4>2. st \in SaveStates
        BY SaveStatesHas
      <4> HIDE DEF st
      <4> QED BY <4>1, <4>2, <1>t, <1>z, SaveLatches, SaveRecords
    <3>3. CASE save.offset # ProbeBytes - 1
      <4>1. save' = [Latching(abort) EXCEPT !.offset = save.offset + 1, !.state = "PROBE_RD"]
        BY <3>3, <1>3, <1>t, SaveLatches DEF ProbeAnswered
      <4> QED BY <4>1, <3>1, <3>3, <1>t, <1>z, SaveLatches, SaveRecords, SaveStatesHas
    <3> QED BY <3>2, <3>3
  <2>2. SaveFxProbe(done) /\ save.state # "IDLE" /\ save'.abort = (save.abort \/ abort)
    BY <1>t, <1>3, SaveLatches, SaveTypeIs, SaveBounds
    DEF ProbeAnswered, SaveFxProbe, SaveMoves, SaveBecomes
  <2> QED BY <2>1, <2>2, Zenon DEF SaveFx
<1>4. CASE OpenGate(abort)
  <2>1. save' \in SaveType
    BY <1>t, <1>4, SaveLatches, SaveTypeIs, SaveAddrsHas, SaveBounds
    DEF OpenGate, SaveWrites, SaveStates, SavePassing
  <2>2. SaveFxOpen(done) /\ save.state # "IDLE" /\ save'.abort = (save.abort \/ abort)
    BY <1>t, <1>4, SaveLatches, SaveTypeIs, SaveBounds
    DEF OpenGate, SaveWrites, SaveFxOpen, SaveSends, SaveBecomes
  <2> QED BY <2>1, <2>2, Zenon DEF SaveFx
<1>5. CASE GateOpened(Chip, abort, done)
  <2>1. save' \in SaveType
    BY <1>t, <1>5, SaveLatches, SaveTypeIs, SaveAddrsHas, SaveBounds
    DEF GateOpened, SaveGoes, SaveStates, SavePassing
  <2>2. SaveFxOpen(done) /\ save.state # "IDLE" /\ save'.abort = (save.abort \/ abort)
    BY <1>t, <1>5, SaveLatches, SaveTypeIs, SaveBounds
    DEF GateOpened, SaveGoes, SaveFxOpen, SaveSteps, SaveBecomes
  <2> QED BY <2>1, <2>2, Zenon DEF SaveFx
<1>6. CASE SetMode(abort)
  <2>1. save' \in SaveType
    BY <1>t, <1>6, SaveLatches, SaveTypeIs, SaveAddrsHas, SaveBounds
    DEF SetMode, SaveWrites, SaveStates, SavePassing
  <2>2. SaveFxMode(done) /\ save.state # "IDLE" /\ save'.abort = (save.abort \/ abort)
    BY <1>t, <1>6, SaveLatches, SaveTypeIs, SaveBounds
    DEF SetMode, SaveWrites, SaveFxMode, SaveSends, SaveBecomes
  <2> QED BY <2>1, <2>2, Zenon DEF SaveFx
<1>7. CASE ModeSet(abort, done)
  <2>1. save' \in SaveType
    BY <1>t, <1>7, SaveLatches, SaveTypeIs, SaveAddrsHas, SaveBounds
    DEF ModeSet, SaveGoes, SaveStates, SavePassing
  <2>2. SaveFxMode(done) /\ save.state # "IDLE" /\ save'.abort = (save.abort \/ abort)
    BY <1>t, <1>7, SaveLatches, SaveTypeIs, SaveBounds
    DEF ModeSet, SaveGoes, SaveFxMode, SaveSteps, SaveBecomes
  <2> QED BY <2>1, <2>2, Zenon DEF SaveFx
<1>8. CASE SelectBank(Chip, abort)
  <2>0. CASE Chip.banks = 1
    <3>1. save.state = "BANK" /\ save' = [Latching(abort) EXCEPT !.state = "READ"]
      BY <2>0, <1>8, Zenon DEF SelectBank, SaveGoes
    <3>2. save' \in SaveType
      BY <3>1, <1>t, <1>z, SaveLatches, SaveRecords, SaveStatesHas
    <3>3. SaveFxBank(done) /\ save'.abort = (save.abort \/ abort)
      BY <3>1, <2>0, <1>t, SaveLatches, SaveTypeIs DEF SaveFxBank, SaveSteps, SaveBecomes
    <3> QED BY <3>1, <3>2, <3>3 DEF SaveFx
  <2>00. CASE Chip.banks # 1
    <3>1. save.state = "BANK" /\ SaveWrites(abort, Bank, save.bank, "BANK_W")
      BY <2>00, <1>8, Zenon DEF SelectBank
    <3>2. save' \in SaveType
      <4>1. save.bank \in Nat /\ Bank \in SaveAddrs
        BY <1>t, SaveTypeIs, SaveBounds, SaveAddrsHas
      <4> QED BY <3>1, <4>1, <1>t, SaveLatches, SaveRecords, SaveStatesHas DEF SaveWrites
    <3>3. SaveFxBank(done) /\ save'.abort = (save.abort \/ abort)
      BY <3>1, <2>00, <1>t, SaveLatches, SaveTypeIs DEF SaveWrites, SaveFxBank, SaveSends, SaveBecomes
    <3> QED BY <3>1, <3>2, <3>3 DEF SaveFx
  <2> QED BY <2>0, <2>00
<1>9. CASE BankSelected(abort, done)
  <2>1. save' \in SaveType
    BY <1>t, <1>9, SaveLatches, SaveTypeIs, SaveAddrsHas, SaveBounds
    DEF BankSelected, SaveGoes, SaveStates, SavePassing
  <2>2. SaveFxBank(done) /\ save.state # "IDLE" /\ save'.abort = (save.abort \/ abort)
    BY <1>t, <1>9, SaveLatches, SaveTypeIs, SaveBounds
    DEF BankSelected, SaveGoes, SaveFxBank, SaveSteps, SaveBecomes
  <2> QED BY <2>1, <2>2, Zenon DEF SaveFx
<1>10. CASE SaveRead(Chip, abort)
  <2>0. CASE save.abort
    <3>1. save.state = "READ" /\ save' = Leaving(Chip, Latching(abort))
      BY <2>0, <1>10, Zenon DEF SaveRead
    <3>2. save' \in SaveType /\ SaveLeaves(save.offset) /\ save'.abort = (save.abort \/ abort)
      BY <3>1, <1>t, SaveLatches, SaveLeavingFx
    <3> QED BY <3>1, <3>2, <2>0 DEF SaveFx, SaveFxRead
  <2>00. CASE ~save.abort
    <3>1. save.state = "READ" /\ SaveReads(abort, "READ_W")
      BY <2>00, <1>10, Zenon DEF SaveRead
    <3>2. save' \in SaveType
      <4>1. Ram(save.offset) \in SaveAddrs
        BY <1>t, SaveTypeIs, SaveAddrsHas
      <4> QED BY <4>1, <3>1, <1>t, <1>z, SaveLatches, SaveRecords, SaveStatesHas DEF SaveReads
    <3>3. SaveFxRead(done, rdata) /\ save'.abort = (save.abort \/ abort)
      BY <3>1, <2>00, <1>t, SaveLatches, SaveTypeIs DEF SaveReads, SaveFxRead, SaveSends, SaveBecomes
    <3> QED BY <3>1, <3>2, <3>3 DEF SaveFx
  <2> QED BY <2>0, <2>00
<1>11. CASE SaveHeard(abort, done, rdata)
  <2>1. save' \in SaveType
    BY <1>t, <1>11, SaveLatches, SaveTypeIs, SaveAddrsHas, SaveBounds
    DEF SaveHeard, SaveStates, SavePassing
  <2>2. SaveFxRead(done, rdata) /\ save.state # "IDLE" /\ save'.abort = (save.abort \/ abort)
    BY <1>t, <1>11, SaveLatches, SaveTypeIs, SaveBounds
    DEF SaveHeard, SaveFxRead, SaveBecomes
  <2> QED BY <2>1, <2>2, Zenon DEF SaveFx
<1>12. CASE SaveTaken(abort, ready)
  <2>1. save' \in SaveType
    BY <1>t, <1>12, SaveLatches, SaveTypeIs, SaveAddrsHas, SaveBounds
    DEF SaveTaken, SaveStates, SavePassing
  <2>2. SaveFxEmit(ready) /\ save.state # "IDLE" /\ save'.abort = (save.abort \/ abort)
    BY <1>t, <1>12, SaveLatches, SaveTypeIs, SaveBounds
    DEF SaveTaken, SaveFxEmit, SaveBecomes
  <2> QED BY <2>1, <2>2, Zenon DEF SaveFx
<1>13. CASE SaveNext(Chip, abort)
  <2>s. save.state = "NEXT" /\ save.state # "IDLE"
    BY <1>13 DEF SaveNext
  <2>0. CASE save.offset # BankBytes - 1
    <3>0. save.offset + 1 \in 0 .. BankBytes - 1
      BY <2>0, <1>t, SaveTypeIs, SaveBounds
    <3>1. save' = [Latching(abort) EXCEPT !.offset = save.offset + 1, !.state = "READ"]
      BY <2>0, <1>13, <1>t, SaveLatches DEF SaveNext
    <3>2. save' \in SaveType
      BY <3>0, <3>1, <1>t, <1>z, SaveLatches, SaveRecords, SaveStatesHas
    <3>3. SaveFxEmit(ready) /\ save'.abort = (save.abort \/ abort)
      BY <2>s, <3>1, <2>0, <1>t, SaveLatches, SaveTypeIs DEF SaveFxEmit, SaveMoves, SaveBecomes
    <3> QED BY <2>s, <3>2, <3>3 DEF SaveFx
  <2>1. CASE save.offset = BankBytes - 1 /\ save.bank + 1 # Chip.banks
    <3>0. save.bank + 1 \in 0 .. MaxBanks - 1
      BY <2>1, <2>s, <1>t, SaveTypeIs, SaveBounds DEF SavePassing
    <3>1. save' = [Latching(abort) EXCEPT !.offset = 0, !.bank = save.bank + 1, !.state = "BANK"]
      BY <2>1, <1>13, <1>t, SaveLatches DEF SaveNext
    <3>2. save' \in SaveType
      BY <3>0, <3>1, <1>t, <1>z, SaveLatches, SaveRecords, SaveStatesHas
    <3>3. SaveFxEmit(ready) /\ save'.abort = (save.abort \/ abort)
      BY <2>s, <3>1, <2>1, <1>t, SaveLatches, SaveTypeIs DEF SaveFxEmit, SaveMoves, SaveBecomes
    <3> QED BY <2>s, <3>2, <3>3 DEF SaveFx
  <2>2. CASE save.offset = BankBytes - 1 /\ save.bank + 1 = Chip.banks
    <3> DEFINE r == [Latching(abort) EXCEPT !.offset = 0]
    <3>1. save' = Leaving(Chip, r)
      BY <2>2, <1>13, <1>t, SaveLatches DEF SaveNext
    <3>2. /\ r \in SaveType /\ r.state = save.state /\ r.offset = 0 /\ r.bank = save.bank
          /\ r.restore = save.restore /\ r.data = save.data /\ r.valid = save.valid
          /\ r.req = FALSE /\ r.transfer = save.transfer
          /\ r.abort = (save.abort \/ abort)
      BY <2>s, <1>t, <1>z, SaveLatches, SaveTypeIs
    <3> HIDE DEF r
    <3>3. save' \in SaveType /\ SaveLeaves(0) /\ save'.abort = (save.abort \/ abort)
      BY <3>1, <3>2, SaveLeavingFx
    <3> QED BY <2>s, <2>2, <3>3 DEF SaveFx, SaveFxEmit
  <2> QED BY <2>0, <2>1, <2>2
<1>14. CASE ShutGate(abort)
  <2>1. save' \in SaveType
    BY <1>t, <1>14, SaveLatches, SaveTypeIs, SaveAddrsHas, SaveBounds
    DEF ShutGate, SaveWrites, SaveStates, SavePassing
  <2>2. SaveFxShut(done) /\ save.state # "IDLE" /\ save'.abort = (save.abort \/ abort)
    BY <1>t, <1>14, SaveLatches, SaveTypeIs, SaveBounds
    DEF ShutGate, SaveWrites, SaveFxShut, SaveSends, SaveBecomes
  <2> QED BY <2>1, <2>2, Zenon DEF SaveFx
<1>15. CASE GateShut(abort, done)
  <2>1. save' \in SaveType
    BY <1>t, <1>15, SaveLatches, SaveTypeIs, SaveAddrsHas, SaveBounds
    DEF GateShut, SaveGoes, SaveStates, SavePassing
  <2>2. SaveFxShut(done) /\ save.state # "IDLE" /\ save'.abort = (save.abort \/ abort)
    BY <1>t, <1>15, SaveLatches, SaveTypeIs, SaveBounds
    DEF GateShut, SaveGoes, SaveFxShut, SaveSteps, SaveBecomes
  <2> QED BY <2>1, <2>2, Zenon DEF SaveFx
<1>16. CASE SaveEnds(abort)
  <2>1. save' \in SaveType
    BY <1>t, <1>16, SaveLatches, SaveTypeIs, SaveAddrsHas, SaveBounds
    DEF SaveEnds, SaveGoes, SaveStates, SavePassing
  <2>2. SaveFxShut(done) /\ save.state # "IDLE" /\ save'.abort = (save.abort \/ abort)
    BY <1>t, <1>16, SaveLatches, SaveTypeIs, SaveBounds
    DEF SaveEnds, SaveGoes, SaveFxShut, SaveSteps, SaveBecomes
  <2> QED BY <2>1, <2>2, Zenon DEF SaveFx
<1>17. CASE SaveWaits(abort, done, ready)
  <2>1. /\ save' = Latching(abort) /\ save.state # "IDLE"
        /\ (save.state \in SaveWaiting /\ ~done) \/ (save.state = "EMIT" /\ ~ready)
    BY <1>17 DEF SaveWaits, SaveWaiting
  <2>2. save' \in SaveType /\ save'.abort = (save.abort \/ abort) /\ SaveSteps(save.state)
    BY <2>1, <1>t, SaveLatches DEF SaveSteps, SaveBecomes
  <2> QED BY <2>1, <2>2, Zenon DEF SaveFx, SaveFxWait
<1> QED BY <1>1, <1>2, <1>3, <1>4, <1>5, <1>6, <1>7, <1>8, <1>9, <1>10, <1>11, <1>12, <1>13, <1>14, <1>15, <1>16, <1>17, Zenon DEF SaveClock

\* The type of the save reader, field by field.
LEMMA SaveFields ==
  ASSUME save \in SaveType
  PROVE  /\ save.state \in SaveStates /\ save.offset \in 0 .. BankBytes - 1
         /\ save.bank \in 0 .. MaxBanks - 1 /\ save.restore \in BOOLEAN
         /\ save.abort \in BOOLEAN /\ save.data \in Byte /\ save.valid \in BOOLEAN
         /\ save.req \in BOOLEAN /\ save.transfer.wr \in BOOLEAN
         /\ save.transfer.addr \in SaveAddrs /\ save.transfer.data \in Nat
BY SaveTypeIs

\* A clock keeps the save reader consistent.
LEMMA SaveKept ==
  ASSUME SaveOK, save' \in SaveType,
         NEW start \in BOOLEAN, NEW abort \in BOOLEAN, NEW done \in BOOLEAN,
         NEW rdata \in Byte, NEW ready \in BOOLEAN,
         SaveFx(start, abort, done, rdata, ready)
  PROVE  SaveOK'
<1> USE SaveBounds, Addresses, AddressesDiffer
       DEF SaveOK, SaveTransferOK, SaveBecomes, SaveSteps, SaveSends, SaveMoves, SaveLeaves,
           SaveWaiting, SavePassing, SaveProbing, SaveOpening
<1>t. /\ save.state \in SaveStates /\ save.offset \in 0 .. BankBytes - 1
      /\ save.bank \in 0 .. MaxBanks - 1 /\ save.restore \in BOOLEAN
      /\ save.abort \in BOOLEAN /\ save.valid \in BOOLEAN
      /\ save.req \in BOOLEAN /\ save.transfer.wr \in BOOLEAN
  BY SaveFields
<1>u. /\ save'.restore \in BOOLEAN /\ save'.valid \in BOOLEAN
      /\ save'.req \in BOOLEAN /\ save'.transfer.wr \in BOOLEAN
  BY SaveTypeIs
<1>1. CASE SaveFxIdle(start)
  BY <1>t, <1>u, <1>1 DEF SaveFxIdle
<1>2. CASE SaveFxProbe(done)
  BY <1>t, <1>u, <1>2 DEF SaveFxProbe
<1>3. CASE SaveFxOpen(done)
  BY <1>t, <1>u, <1>3 DEF SaveFxOpen
<1>4. CASE SaveFxMode(done)
  BY <1>t, <1>u, <1>4 DEF SaveFxMode
<1>5. CASE SaveFxBank(done)
  BY <1>t, <1>u, <1>5 DEF SaveFxBank
<1>6. CASE SaveFxRead(done, rdata)
  BY <1>t, <1>u, <1>6 DEF SaveFxRead
<1>7. CASE SaveFxEmit(ready)
  BY <1>t, <1>u, <1>7 DEF SaveFxEmit
<1>8. CASE SaveFxShut(done)
  BY <1>t, <1>u, <1>8 DEF SaveFxShut
<1>9. CASE SaveFxWait(done, ready)
  BY <1>t, <1>u, <1>9 DEF SaveFxWait
<1> QED BY <1>1, <1>2, <1>3, <1>4, <1>5, <1>6, <1>7, <1>8, <1>9, Zenon DEF SaveFx

-----------------------------------------------------------------------------
(* Positions in a dump *)

\* A byte of a bank of B bytes, in a memory of n of them.
LEMMA Place ==
  ASSUME NEW B \in Nat \ {0}, NEW n \in Nat, NEW b \in Nat, b < n, NEW o \in 0 .. B - 1
  PROVE  b * B + o \in Nat /\ b * B + o < n * B /\ n * B \in Nat
OBVIOUS

\* The first position of the next bank.
LEMMA NextPlace ==
  ASSUME NEW B \in Nat \ {0}, NEW b \in Nat
  PROVE  (b + 1) * B = b * B + B /\ b * B \in Nat
OBVIOUS

\* What the save reader has before it is bounded by the size of the save.
LEMMA SaveRange ==
  ASSUME SaveOK
  PROVE  /\ SaveTotal \in Nat /\ SaveTotal > 1
         /\ SaveRest \in 0 .. SaveTotal
         /\ SaveLeft \in 0 .. SaveRest
         /\ SavePos \in Nat
         /\ save.state \in SavePassing => SavePos < SaveTotal
<1>t. /\ save.offset \in 0 .. BankBytes - 1 /\ save.bank \in 0 .. MaxBanks - 1
      /\ save.restore \in BOOLEAN /\ save.abort \in BOOLEAN
      /\ save.bank < Chip.banks \/ save.state \notin SavePassing
      /\ save.state \in SavePassing => ~save.restore
  BY SaveFields DEF SaveOK
<1>1. SaveTotal \in Nat /\ SaveTotal > 1
  <2>1. /\ 0 * BankBytes + (BankBytes - 1) < Chip.banks * BankBytes
        /\ Chip.banks * BankBytes \in Nat
    BY SaveBounds, Place
  <2> QED BY <2>1, SaveBounds DEF SaveTotal
<1>2. SavePos \in Nat
  <2>1. save.bank * BankBytes \in Nat
    BY <1>t, SaveBounds, NextPlace
  <2> QED BY <2>1, <1>t, SaveBounds DEF SavePos
<1>3. save.state \in SavePassing => SavePos < SaveTotal
  BY <1>t, SaveBounds, Place DEF SavePos, SaveTotal
<1>4. SaveRest \in 0 .. SaveTotal /\ SaveLeft \in 0 .. SaveRest
  BY <1>1, <1>2, <1>3, <1>t DEF SaveRest, SaveLeft, SavePassing, SaveClosing
<1> QED BY <1>1, <1>2, <1>3, <1>4

\* What a clock does to the bytes that are left.
LEMMA SaveCounts ==
  ASSUME SaveOK, SaveOK',
         NEW start \in BOOLEAN, NEW abort \in BOOLEAN, NEW done \in BOOLEAN,
         NEW rdata \in Byte, NEW ready \in BOOLEAN,
         SaveFx(start, abort, done, rdata, ready)
  PROVE  /\ save.state = "IDLE" /\ start => SaveRest' = SaveTotal /\ ~save'.abort
         /\ ~(save.state = "IDLE" /\ start) =>
              /\ SaveLeft' <= SaveLeft
              /\ save.state = "EMIT" /\ ready => SaveLeft' < SaveLeft
              /\ abort => SaveLeft' <= 1
              /\ \/ SaveRest' = SaveRest - (IF save.state = "EMIT" /\ ready THEN 1 ELSE 0)
                 \/ save.abort /\ SaveRest # 0 /\ SaveLeft' = 0
<1>t. /\ save.offset \in 0 .. BankBytes - 1 /\ save.bank \in 0 .. MaxBanks - 1
      /\ save.restore \in BOOLEAN /\ save.abort \in BOOLEAN
      /\ save'.abort \in BOOLEAN
  BY SaveFields, SaveTypeIs DEF SaveOK
<1>r. /\ SaveTotal \in Nat /\ SaveTotal > 1
      /\ SaveRest \in 0 .. SaveTotal /\ SaveLeft \in 0 .. SaveRest /\ SavePos \in Nat
      /\ save.state \in SavePassing => SavePos < SaveTotal
  BY SaveRange
<1>p. /\ save'.bank = save.bank /\ save'.offset = save.offset => SavePos' = SavePos
      /\ save'.bank = 0 /\ save'.offset = 0 => SavePos' = 0
      /\ save'.bank = save.bank /\ save'.offset = save.offset + 1 => SavePos' = SavePos + 1
      /\ save.offset = BankBytes - 1 =>
           /\ save'.bank = save.bank + 1 /\ save'.offset = 0 => SavePos' = SavePos + 1
           /\ save.bank + 1 = Chip.banks => SavePos + 1 = SaveTotal
  <2>1. (save.bank + 1) * BankBytes = save.bank * BankBytes + BankBytes /\ save.bank * BankBytes \in Nat
    BY <1>t, NextPlace, SaveBounds
  <2> DEFINE m == save.bank * BankBytes
  <2>2. save'.bank = save.bank => save'.bank * BankBytes = m
    OBVIOUS
  <2>3. save'.bank = save.bank + 1 => save'.bank * BankBytes = m + BankBytes
    BY <2>1
  <2>4. save'.bank = 0 => save'.bank * BankBytes = 0
    BY SaveBounds
  <2>5. save.bank + 1 = Chip.banks => SaveTotal = m + BankBytes
    BY <2>1 DEF SaveTotal
  <2>6. SavePos = m + save.offset /\ m \in Nat
    BY <2>1 DEF SavePos
  <2>7. SavePos' = save'.bank * BankBytes + save'.offset
    BY DEF SavePos
  <2> HIDE DEF m
  <2> QED BY <2>2, <2>3, <2>4, <2>5, <2>6, <2>7, <1>t, SaveBounds
<1>s. SaveTotal' = SaveTotal
  BY DEF SaveTotal
<1> USE DEF SaveBecomes, SaveSteps, SaveSends, SaveMoves, SaveLeaves,
            SaveRest, SaveLeft, SaveWaiting, SavePassing, SaveClosing, SaveOK, SaveProbing, SaveOpening
<1> HIDE DEF SaveTotal
<1>1. CASE SaveFxIdle(start)
  BY <1>t, <1>r, <1>p, <1>s, <1>1, SaveBounds DEF SaveFxIdle
<1>2. CASE SaveFxProbe(done) /\ save.state # "IDLE" /\ save'.abort = (save.abort \/ abort)
  BY <1>t, <1>r, <1>p, <1>s, <1>2, SaveBounds DEF SaveFxProbe
<1>3. CASE SaveFxOpen(done) /\ save.state # "IDLE" /\ save'.abort = (save.abort \/ abort)
  BY <1>t, <1>r, <1>p, <1>s, <1>3, SaveBounds DEF SaveFxOpen
<1>4. CASE SaveFxMode(done) /\ save.state # "IDLE" /\ save'.abort = (save.abort \/ abort)
  BY <1>t, <1>r, <1>p, <1>s, <1>4, SaveBounds DEF SaveFxMode
<1>5. CASE SaveFxBank(done) /\ save.state # "IDLE" /\ save'.abort = (save.abort \/ abort)
  BY <1>t, <1>r, <1>p, <1>s, <1>5, SaveBounds DEF SaveFxBank
<1>6. CASE SaveFxRead(done, rdata) /\ save.state # "IDLE" /\ save'.abort = (save.abort \/ abort)
  BY <1>t, <1>r, <1>p, <1>s, <1>6, SaveBounds DEF SaveFxRead
<1>7. CASE SaveFxEmit(ready) /\ save.state # "IDLE" /\ save'.abort = (save.abort \/ abort)
  BY <1>t, <1>r, <1>p, <1>s, <1>7, SaveBounds DEF SaveFxEmit
<1>8. CASE SaveFxShut(done) /\ save.state # "IDLE" /\ save'.abort = (save.abort \/ abort)
  BY <1>t, <1>r, <1>p, <1>s, <1>8, SaveBounds DEF SaveFxShut
<1>9. CASE SaveFxWait(done, ready) /\ save.state # "IDLE" /\ save'.abort = (save.abort \/ abort)
  BY <1>t, <1>r, <1>p, <1>s, <1>9, SaveBounds DEF SaveFxWait
<1> QED BY <1>1, <1>2, <1>3, <1>4, <1>5, <1>6, <1>7, <1>8, <1>9, Zenon DEF SaveFx

-----------------------------------------------------------------------------
(* The bus and the cartridge *)

\* The save reader asks only for transfers that cannot write the save.
LEMMA SaveTransfer == SaveOK => TransferOK(save.transfer)
<1> SUFFICES ASSUME SaveOK PROVE TransferOK(save.transfer)
  OBVIOUS
<1>1. save.transfer \in [wr : BOOLEAN, addr : SaveAddrs, data : Nat]
  BY SaveTypeIs DEF SaveOK
<1>2. SaveAddrs \subseteq BusAddrs
  BY DEF SaveAddrs, BusAddrs
<1>3. save.transfer \in [wr : BOOLEAN, addr : BusAddrs, data : Nat]
  BY <1>1, <1>2
<1> QED BY <1>3, Zenon DEF TransferOK, SaveOK, SaveTransferOK

\* The addresses of the ROM reader are addresses of the bus.
LEMMA RomAddrs ==
  /\ RomAddresses \cup {Gate} \subseteq BusAddrs
  /\ \A a \in RomAddresses \cup {Gate} : a # Mode /\ a[1] # "ram"
<1>1. \A a \in RomAddresses \cup {Gate} : a # Mode /\ a[1] # "ram"
  BY DEF RomAddresses, Gate, Mode, Bank, RomBank, RomFixed, RomSwitched
<1> QED BY <1>1 DEF BusAddrs

\* The ROM reader asks only for transfers that cannot write the save.
LEMMA RomTransfer == RomOK => TransferOK(romRd.transfer)
<1> SUFFICES ASSUME RomOK PROVE TransferOK(romRd.transfer)
  OBVIOUS
<1>1. romRd.transfer \in [wr : BOOLEAN, addr : RomAddresses \cup {Gate}, data : Nat]
  BY DEF RomOK, RomType
<1>2. romRd.transfer.addr \in RomAddresses \cup {Gate}
  BY <1>1
<1>3. romRd.transfer \in [wr : BOOLEAN, addr : BusAddrs, data : Nat]
  BY <1>1, RomAddrs
<1>4. romRd.transfer.addr # Mode /\ romRd.transfer.addr[1] # "ram"
  BY <1>2, RomAddrs
<1>5. 0 \in 0 .. MaxBanks - 1
  BY SaveBounds
<1> QED BY <1>3, <1>4, <1>5, Zenon DEF TransferOK, RomOK, RomTransferOK

\* Nor can what the latches of the bus hold out of reset.
LEMMA NoTransferOK == TransferOK(NoTransfer)
BY Addresses, AddressesDiffer DEF TransferOK, NoTransfer, BusAddrs

\* A clock keeps the bus consistent.
LEMMA BusKept ==
  ASSUME BusOK, NEW gbMode \in BOOLEAN, NEW req \in BOOLEAN, NEW t, TransferOK(t),
         BusClock(gbMode, req, t)
  PROVE  BusOK'
<1>1. CASE BusDrop
  BY <1>1, NoTransferOK DEF BusOK, BusDrop, TransferOK
<1>2. CASE BusListen(req, t)
  BY <1>2 DEF BusOK, BusListen, TransferOK
<1>3. CASE BusDwell \/ BusAdvance \/ BusFinish
  BY <1>3 DEF BusOK, BusDwell, BusAdvance, BusFinish, TransferOK
<1> QED BY <1>1, <1>2, <1>3, Zenon DEF BusClock

\* What a clock does to the cartridge: a write reaches the register it is for,
\* a supply that is gone takes the registers with it, and the save stays.
CartFx ==
  /\ ram' = ram
  /\ IF ~powered THEN gate' = FALSE /\ bankReg' = 0 /\ modeReg' = 0 /\ romReg' = 1
     ELSE IF ~WriteEdge
     THEN gate' = gate /\ bankReg' = bankReg /\ modeReg' = modeReg /\ romReg' = romReg
     ELSE /\ bus.wr
          /\ gate' = IF bus.addr = Gate THEN bus.data % 16 = 10 ELSE gate
          /\ bankReg' = IF bus.addr = Bank THEN bus.data ELSE bankReg
          /\ modeReg' = IF bus.addr = Mode THEN bus.data ELSE modeReg
          /\ romReg' = IF bus.addr = RomBank THEN bus.data ELSE romReg

\* A cartridge that no transfer writes keeps its save through a clock,
\* powered or not.
LEMMA CartClockFx ==
  ASSUME BusOK, CartOK, powered \in BOOLEAN, CartClock(Chip, powered), RomLatch(powered)
  PROVE  CartFx
<1>1. CASE ~powered
  <2>1. ~(busState = "STROBE" /\ bus.wr /\ bus.addr[1] = "ram" /\ gate)
    BY Zenon DEF BusOK, TransferOK
  <2> QED BY <1>1, <2>1 DEF CartClock, CartPowerLoss, RomLatch, CartFx
<1>2. CASE powered /\ ~WriteEdge
  BY <1>2, Zenon DEF CartClock, RomLatch, CartFx, cartVars
<1>3. CASE powered /\ WriteEdge
  <2>1. bus.wr /\ ~(bus.addr[1] = "ram" /\ gate)
    BY <1>3, Zenon DEF WriteEdge, BusOK, TransferOK
  <2>2. CartLatch(Chip, bus)
    BY <1>3, Zenon DEF CartClock
  <2> QED BY <1>3, <2>1, <2>2, Zenon DEF RomLatch, CartFx, CartLatch
<1> QED BY <1>1, <1>2, <1>3

\* A clock keeps the cartridge consistent.
LEMMA CartKept ==
  ASSUME BusOK, CartOK, CartFx, powered \in BOOLEAN
  PROVE  CartOK'
<1>1. /\ bus.wr /\ bus.addr = Bank => bus.data \in 0 .. MaxBanks - 1
      /\ bus.addr = Mode => Chip.mbc1
      /\ bus.data \in Nat
  BY DEF BusOK, TransferOK
<1>2. 0 \in 0 .. MaxBanks - 1
  BY SaveBounds
<1>3. gate' \in BOOLEAN
  <2> DEFINE opens == bus.data % 16 = 10
  <2>1. opens \in BOOLEAN
    OBVIOUS
  <2>2. gate' = FALSE \/ gate' = gate \/ gate' = opens
    BY Zenon DEF CartFx
  <2> HIDE DEF opens
  <2> QED BY <2>1, <2>2, Zenon DEF CartOK
<1>4. bankReg' \in 0 .. MaxBanks - 1
  BY <1>1, <1>2 DEF CartOK, CartFx
<1>5. modeReg' \in Nat /\ romReg' \in Nat /\ (~Chip.mbc1 => modeReg' = 0)
  BY <1>1 DEF CartOK, CartFx
<1> QED BY <1>3, <1>4, <1>5 DEF CartOK, CartFx

-----------------------------------------------------------------------------
(* The save reader on the bus *)

SaveOnBus ==
  /\ save.req => ~BusBusy /\ ~busDone
  /\ BusBusy \/ busDone => save.state \in SaveWaiting /\ bus = save.transfer

\* A reader that waits keeps its transfer; one that does not has asked for
\* nothing.
LEMMA SaveHolds ==
  ASSUME SaveOK, SaveOK',
         NEW start \in BOOLEAN, NEW abort \in BOOLEAN, NEW done \in BOOLEAN,
         NEW rdata \in Byte, NEW ready \in BOOLEAN,
         SaveFx(start, abort, done, rdata, ready)
  PROVE  /\ save.state \in SaveWaiting /\ ~done =>
              save'.state = save.state /\ save'.transfer = save.transfer /\ ~save'.req
         /\ save.state \in SaveWaiting /\ done => save'.state \notin SaveWaiting /\ ~save'.req
BY DEF SaveFx, SaveFxIdle, SaveFxProbe, SaveFxOpen, SaveFxMode, SaveFxBank, SaveFxRead,
       SaveFxEmit, SaveFxShut, SaveFxWait, SaveBecomes, SaveSteps, SaveSends, SaveMoves,
       SaveLeaves, SaveWaiting

\* The save reader stays in step with the bus.
LEMMA SaveCoupled ==
  ASSUME SaveOK, SaveOK', BusOK, mode \in BOOLEAN,
         SaveOnBus \/ ~mode,
         save.state \in SaveWaiting /\ ~busDone =>
              save'.state = save.state /\ save'.transfer = save.transfer /\ ~save'.req,
         save.state \in SaveWaiting /\ busDone => save'.state \notin SaveWaiting /\ ~save'.req,
         BusClock(mode, save.req, save.transfer)
  PROVE  SaveOnBus'
<1>1. CASE BusDrop
  BY <1>1 DEF BusDrop, SaveOnBus, BusBusy, SaveOK
<1>2. CASE mode /\ BusListen(save.req, save.transfer)
  BY <1>2 DEF BusListen, SaveOnBus, BusBusy, SaveOK, BusOK
<1>3. CASE mode /\ (BusDwell \/ BusAdvance \/ BusFinish)
  BY <1>3 DEF BusDwell, BusAdvance, BusFinish, SaveOnBus, BusBusy, SaveOK, BusOK
<1> QED BY <1>1, <1>2, <1>3, Zenon DEF BusClock

\* The byte a read of the RAM returns when the cartridge is as the reader
\* believes.
LEMMA SaveByteRead ==
  ASSUME SaveOK, CartOK, powered, bus = save.transfer, save.state = "READ_W", SaveRight
  PROVE  BusRead = Save[<<save.bank, save.offset>>]
<1>1. ~bus.wr /\ bus.addr = Ram(save.offset)
  BY DEF SaveOK, SaveTransferOK
<1>2. BusRead = RamRead(Chip, save.offset, OpenBus)
  <2>1. bus.addr[1] = "ram" /\ bus.addr[2] = save.offset
    BY <1>1, Addresses
  <2> QED BY <1>1, <2>1, Zenon DEF BusRead
<1>3. gate /\ ~save.restore /\ save.bank < Chip.banks
  BY DEF SaveRight, SaveOK, SavePassing
<1>4. Selected(Chip) = save.bank
  BY <1>3, SaveFields, SaveBounds DEF Selected, SaveRight, SaveOK, SavePassing
<1>5. <<save.bank, save.offset>> \in CellsOf(Chip) /\ <<save.bank, save.offset>> \in Cell
  BY <1>3, SaveFields DEF SaveOK, CellsOf, Cell
<1>6. BusRead = ram[<<save.bank, save.offset>>]
  BY <1>2, <1>3, <1>4, Zenon DEF RamRead
<1> QED BY <1>5, <1>6 DEF CartOK

\* What the reader believes of the cartridge stays right while nobody pulls
\* the plug.
LEMMA SaveRightKept ==
  ASSUME SaveOK, SaveOK', BusOK, CartOK, CartFx, powered, SaveOnBus, SaveRight,
         NEW start \in BOOLEAN, NEW rdata \in Byte, NEW ready \in BOOLEAN,
         busDone => rdata = BusRead,
         ~start,
         SaveFx(start, FALSE, busDone, rdata, ready),
         Landed =>
           /\ bus.addr = Gate => gate = (bus.data % 16 = 10)
           /\ bus.addr = Mode => modeReg = bus.data
           /\ bus.addr = Bank => bankReg = bus.data
  PROVE  SaveRight'
<1>t. /\ save.state \in SaveStates /\ save.restore \in BOOLEAN
      /\ save.abort \in BOOLEAN /\ busDone \in BOOLEAN /\ gate \in BOOLEAN
  BY SaveFields DEF SaveOK, BusOK, CartOK
<1>a. ~save.abort /\ ~save'.abort
  BY <1>t DEF SaveRight, SaveFx, SaveFxIdle
<1>1. CASE WriteEdge
  <2>1. /\ ~busDone /\ BusBusy /\ bus.wr
    BY <1>1 DEF WriteEdge, BusOK, BusBusy
  <2>2. save.state \in SaveWaiting /\ bus = save.transfer
    BY <2>1 DEF SaveOnBus
  <2>3. /\ save'.state = save.state /\ save'.bank = save.bank /\ save'.restore = save.restore
    BY <2>1, <2>2
    DEF SaveFx, SaveFxIdle, SaveFxProbe, SaveFxOpen, SaveFxMode, SaveFxBank, SaveFxRead,
        SaveFxEmit, SaveFxShut, SaveFxWait, SaveBecomes, SaveSteps, SaveSends, SaveMoves,
        SaveLeaves, SaveWaiting
  <2>4. /\ gate' = IF bus.addr = Gate THEN bus.data % 16 = 10 ELSE gate
        /\ bankReg' = IF bus.addr = Bank THEN bus.data ELSE bankReg
        /\ modeReg' = IF bus.addr = Mode THEN bus.data ELSE modeReg
    BY <1>1, Zenon DEF CartFx
  <2>5. save.state \notin {"PROBE_W", "READ_W"}
    BY <2>1, <2>2 DEF SaveOK, SaveTransferOK
  <2>6. CASE save.state \in {"ENABLE_W", "DISABLE_W"}
    BY <2>3, <2>6, <1>a DEF SaveRight, SavePassing
  <2>7. CASE save.state = "MODE_W"
    BY <2>2, <2>3, <2>4, <2>7, <1>a, AddressesDiffer
    DEF SaveRight, SavePassing, SaveOK, SaveTransferOK
  <2>8. CASE save.state = "BANK_W"
    BY <2>2, <2>3, <2>4, <2>8, <1>a, AddressesDiffer
    DEF SaveRight, SavePassing, SaveOK, SaveTransferOK
  <2> QED BY <2>2, <2>5, <2>6, <2>7, <2>8 DEF SaveWaiting
<1>2. CASE ~WriteEdge
  <2>1. gate' = gate /\ bankReg' = bankReg /\ modeReg' = modeReg
    BY <1>2, Zenon DEF CartFx
  <2>2. busDone /\ save.state \in {"ENABLE_W", "MODE_W", "BANK_W"} =>
          /\ save.state = "ENABLE_W" => gate
          /\ save.state = "MODE_W" => modeReg = IF save.restore THEN 0 ELSE 1
          /\ save.state = "BANK_W" => bankReg = save.bank
    <3>1. ASSUME busDone, save.state \in {"ENABLE_W", "MODE_W", "BANK_W"}
          PROVE  Landed /\ bus = save.transfer
      BY <3>1 DEF SaveOnBus, SaveOK, SaveTransferOK, Landed
    <3>2. ASSUME busDone, save.state = "ENABLE_W" PROVE gate
      <4>1. bus.addr = Gate /\ bus.data = 10
        BY <3>1, <3>2 DEF SaveOK, SaveTransferOK
      <4>2. 10 % 16 = 10
        OBVIOUS
      <4> QED BY <3>1, <3>2, <4>1, <4>2
    <3>3. ASSUME busDone, save.state = "MODE_W"
          PROVE  modeReg = IF save.restore THEN 0 ELSE 1
      BY <3>1, <3>3 DEF SaveOK, SaveTransferOK
    <3>4. ASSUME busDone, save.state = "BANK_W" PROVE bankReg = save.bank
      BY <3>1, <3>4 DEF SaveOK, SaveTransferOK
    <3> QED BY <3>2, <3>3, <3>4
  <2>3. busDone /\ save.state = "READ_W" => rdata = Save[<<save.bank, save.offset>>]
    BY SaveByteRead, Zenon DEF SaveOnBus
  <2> USE DEF SaveRight, SavePassing, SaveBecomes, SaveSteps, SaveSends, SaveMoves, SaveLeaves
  <2>a. CASE SaveFxIdle(start)
    BY <1>t, <1>a, <2>1, <2>a DEF SaveFxIdle
  <2>b. CASE SaveFxProbe(busDone)
    BY <1>t, <1>a, <2>1, <2>b DEF SaveFxProbe
  <2>c. CASE SaveFxOpen(busDone)
    BY <1>t, <1>a, <2>1, <2>2, <2>c DEF SaveFxOpen, SaveOK, SaveOpening
  <2>d. CASE SaveFxMode(busDone)
    BY <1>t, <1>a, <2>1, <2>2, <2>d DEF SaveFxMode
  <2>e. CASE SaveFxBank(busDone)
    BY <1>t, <1>a, <2>1, <2>2, <2>e DEF SaveFxBank
  <2>f. CASE SaveFxRead(busDone, rdata)
    BY <1>t, <1>a, <2>1, <2>3, <2>f DEF SaveFxRead
  <2>g. CASE SaveFxEmit(ready)
    BY <1>t, <1>a, <2>1, <2>g DEF SaveFxEmit
  <2>h. CASE SaveFxShut(busDone)
    BY <1>t, <1>a, <2>1, <2>h DEF SaveFxShut
  <2>i. CASE SaveFxWait(busDone, ready)
    BY <1>t, <1>a, <2>1, <2>i DEF SaveFxWait, SaveWaiting
  <2> QED BY <2>a, <2>b, <2>c, <2>d, <2>e, <2>f, <2>g, <2>h, <2>i, Zenon DEF SaveFx
<1> QED BY <1>1, <1>2

SaveBack ==
  SaveRest = 0 /\ save.state # "NEXT" =>
    /\ Chip.mbc1 => save.restore
    /\ save.state \in SaveClosing => modeReg = 0
    /\ save.state \in {"DONE", "IDLE"} => ~gate

\* A reader that has handed over its last byte undoes what it did.
LEMMA SaveBackKept ==
  ASSUME SaveOK, SaveOK', BusOK, CartOK, CartOK', CartFx, SaveOnBus, SaveBack,
         NEW abort \in BOOLEAN, NEW rdata \in Byte, NEW ready \in BOOLEAN,
         SaveFx(FALSE, abort, busDone, rdata, ready),
         SaveRest' = SaveRest - (IF save.state = "EMIT" /\ ready THEN 1 ELSE 0),
         Landed =>
           /\ bus.addr = Gate /\ bus.data = 0 => ~gate
           /\ bus.addr = Mode /\ bus.data = 0 => modeReg = 0
  PROVE  SaveBack'
<1> SUFFICES ASSUME SaveRest' = 0, save'.state # "NEXT"
             PROVE  /\ Chip.mbc1 => save'.restore
                    /\ save'.state \in SaveClosing => modeReg' = 0
                    /\ save'.state \in {"DONE", "IDLE"} => ~gate'
  BY Zenon DEF SaveBack
<1>t. /\ save.state \in SaveStates /\ save.restore \in BOOLEAN
      /\ busDone \in BOOLEAN /\ gate \in BOOLEAN /\ gate' \in BOOLEAN
      /\ SaveRest \in Nat /\ SaveTotal \in Nat /\ SaveTotal > 1
      /\ save.state \in SavePassing => SavePos < SaveTotal
      /\ save'.state \in SavePassing => SavePos' < SaveTotal
      /\ SavePos \in Nat /\ SavePos' \in Nat
  <2>1. save'.offset \in 0 .. BankBytes - 1 /\ save'.bank \in 0 .. MaxBanks - 1
    BY SaveTypeIs DEF SaveOK
  <2>2. SavePos' \in Nat
    <3>1. save'.bank * BankBytes \in Nat
      BY <2>1, SaveBounds, NextPlace
    <3> QED BY <3>1, <2>1, SaveBounds DEF SavePos
  <2>3. save'.state \in SavePassing => SavePos' < SaveTotal
    BY <2>1, SaveBounds, Place DEF SavePos, SaveTotal, SaveOK
  <2> QED BY <2>2, <2>3, SaveFields, SaveRange DEF SaveOK, BusOK, CartOK
<1>e. ~(save.state = "EMIT" /\ ready)
  BY DEF SaveFx, SaveFxIdle, SaveFxProbe, SaveFxOpen, SaveFxMode, SaveFxBank, SaveFxRead,
         SaveFxEmit, SaveFxShut, SaveFxWait, SaveBecomes, SaveWaiting
<1>0. SaveRest = 0
  BY <1>e, <1>t
<1>s. save.state \in SaveClosing \/ (save.state \in {"MODE", "MODE_W"} /\ save.restore)
      \/ save.state = "NEXT"
  BY <1>0, <1>t DEF SaveRest, SaveClosing, SavePassing, SaveStates, SaveOK, SaveProbing, SaveOpening
<1>u. save.state # "NEXT" =>
        /\ Chip.mbc1 => save.restore
        /\ save.state \in SaveClosing => modeReg = 0
        /\ save.state \in {"DONE", "IDLE"} => ~gate
  BY <1>0, Zenon DEF SaveBack
<1>w. WriteEdge => /\ ~busDone /\ save.state \in SaveWaiting /\ bus = save.transfer
                   /\ bus.wr
  BY DEF WriteEdge, BusOK, BusBusy, SaveOnBus
<1>m. save.state # "MODE_W" /\ modeReg = 0 => modeReg' = 0
  <2>1. CASE WriteEdge
    <3>1. save.state # "MODE_W" => bus.addr # Mode
      BY <1>w, <2>1, AddressesDiffer DEF SaveOK, SaveTransferOK, SaveWaiting
    <3> QED BY <3>1, <2>1, Zenon DEF CartFx
  <2>2. CASE ~WriteEdge
    BY <2>2, Zenon DEF CartFx
  <2> QED BY <2>1, <2>2
<1>g. save.state \in {"DONE", "IDLE"} /\ ~gate => ~gate'
  <2>1. save.state \in {"DONE", "IDLE"} => ~WriteEdge
    BY <1>w DEF SaveWaiting
  <2> QED BY <2>1 DEF CartFx
<1>1. CASE save.state = "NEXT"
  <2>1. SaveFxEmit(ready)
    BY <1>1 DEF SaveFx, SaveFxIdle, SaveFxProbe, SaveFxOpen, SaveFxMode, SaveFxBank,
                SaveFxRead, SaveFxShut, SaveFxWait, SaveWaiting
  <2>2. save'.state \notin SavePassing
    <3>1. ASSUME save'.state \in {"READ", "BANK"} PROVE FALSE
      <4>1. ~save'.restore
        BY <3>1 DEF SaveOK, SavePassing
      <4> QED BY <3>1, <4>1, <1>t DEF SaveRest, SavePassing, SaveClosing, SaveTotal
    <3> QED BY <3>1, <1>1, <2>1 DEF SaveFxEmit, SaveMoves, SaveLeaves, SaveBecomes, SavePassing
  <2>3. SaveLeaves(0) /\ ~save.restore
    BY <1>1, <2>1, <2>2 DEF SaveFxEmit, SaveMoves, SaveBecomes, SavePassing, SaveOK
  <2>4. CASE Chip.mbc1
    BY <2>3, <2>4 DEF SaveLeaves, SaveBecomes, SaveClosing
  <2>5. CASE ~Chip.mbc1
    BY <2>3, <2>5 DEF SaveLeaves, SaveBecomes, SaveClosing, CartOK
  <2> QED BY <2>4, <2>5
<1>2. CASE save.state \in {"MODE", "MODE_W"} /\ save.restore
  <2>1. SaveFxMode(busDone) \/ SaveFxWait(busDone, ready)
    BY <1>2 DEF SaveFx, SaveFxIdle, SaveFxProbe, SaveFxOpen, SaveFxEmit, SaveFxBank,
                SaveFxRead, SaveFxShut
  <2>2. save'.restore
    BY <1>2, <2>1 DEF SaveFxMode, SaveFxWait, SaveSends, SaveSteps, SaveBecomes
  <2>3. CASE busDone /\ save.state = "MODE_W"
    <3>1. Landed /\ bus = save.transfer
      BY <2>3 DEF Landed, SaveOnBus, SaveOK, SaveTransferOK
    <3>2. modeReg = 0
      BY <3>1, <2>3, <1>2 DEF SaveOK, SaveTransferOK
    <3>3. modeReg' = 0
      BY <3>2, <2>3, <1>w, Zenon DEF CartFx
    <3>4. save'.state = "DISABLE"
      BY <1>2, <2>1, <2>3 DEF SaveFxMode, SaveFxWait, SaveSteps, SaveBecomes, SaveWaiting
    <3> QED BY <2>2, <3>3, <3>4
  <2>4. CASE ~(busDone /\ save.state = "MODE_W")
    BY <1>2, <2>1, <2>2, <2>4 DEF SaveFxMode, SaveFxWait, SaveSends, SaveSteps, SaveBecomes, SaveClosing
  <2> QED BY <2>3, <2>4
<1>3. CASE save.state \in SaveClosing
  <2>1. SaveFxIdle(FALSE) \/ SaveFxShut(busDone) \/ SaveFxWait(busDone, ready)
    BY <1>3 DEF SaveFx, SaveFxProbe, SaveFxOpen, SaveFxEmit, SaveFxBank, SaveFxMode,
                SaveFxRead, SaveClosing
  <2>2. save'.restore = save.restore
    BY <2>1 DEF SaveFxIdle, SaveFxShut, SaveFxWait, SaveSends, SaveSteps, SaveBecomes
  <2>3. modeReg' = 0
    BY <1>u, <1>m, <1>3 DEF SaveClosing
  <2>4. CASE busDone /\ save.state = "DISABLE_W"
    <3>1. Landed /\ bus = save.transfer
      BY <2>4 DEF Landed, SaveOnBus, SaveOK, SaveTransferOK
    <3>2. ~gate
      BY <3>1, <2>4 DEF SaveOK, SaveTransferOK
    <3>3. ~gate'
      BY <3>2, <2>4, <1>w, Zenon DEF CartFx
    <3> QED BY <2>2, <2>3, <3>3, <1>u, <1>3, <2>4
  <2>5. CASE ~(busDone /\ save.state = "DISABLE_W")
    <3>1. save'.state \in {"DONE", "IDLE"} => save.state \in {"DONE", "IDLE"}
      BY <1>3, <2>1, <2>5 DEF SaveFxIdle, SaveFxShut, SaveFxWait, SaveSends, SaveSteps,
         SaveBecomes, SaveClosing, SaveWaiting
    <3> QED BY <3>1, <2>2, <2>3, <1>u, <1>g, <1>3 DEF SaveClosing
  <2> QED BY <2>4, <2>5
<1> QED BY <1>s, <1>1, <1>2, <1>3

-----------------------------------------------------------------------------
(* The ROM reader *)

RomBecomes(st, bk, off, da, va, rq) ==
  /\ romRd'.state = st /\ romRd'.bank = bk /\ romRd'.offset = off
  /\ romRd'.data = da /\ romRd'.valid = va /\ romRd'.req = rq
RomSteps(st) ==
  /\ RomBecomes(st, romRd.bank, romRd.offset, romRd.data, romRd.valid, FALSE)
  /\ romRd'.transfer = romRd.transfer
RomSends(st, w, a, d) ==
  /\ RomBecomes(st, romRd.bank, romRd.offset, romRd.data, romRd.valid, TRUE)
  /\ romRd'.transfer.wr = w /\ romRd'.transfer.addr = a /\ romRd'.transfer.data = d
RomGoesTo(st, bk, off) ==
  /\ RomBecomes(st, bk, off, romRd.data, romRd.valid, FALSE)
  /\ romRd'.transfer = romRd.transfer

RomFxIdle(start) ==
  /\ romRd.state = "IDLE"
  /\ romRd'.transfer = romRd.transfer
  /\ IF start THEN RomBecomes("READ", 0, 0, romRd.data, FALSE, FALSE)
     ELSE RomBecomes("IDLE", romRd.bank, romRd.offset, romRd.data, FALSE, FALSE)
RomFxBank(done) ==
  \/ romRd.state = "BANK_LO" /\ romRd.bank = 0 /\ RomSteps("READ")
  \/ romRd.state = "BANK_LO" /\ romRd.bank # 0
     /\ RomSends("BANK_LO_W", TRUE, RomBank, romRd.bank)
  \/ romRd.state = "BANK_LO_W" /\ done /\ RomSteps("BANK_HI")
  \/ romRd.state = "BANK_HI" /\ Chip.mbc1 /\ RomSends("BANK_HI_W", TRUE, Bank, 0)
  \/ romRd.state = "BANK_HI" /\ ~Chip.mbc1 /\ RomSteps("READ")
  \/ romRd.state = "BANK_HI_W" /\ done /\ RomSteps("READ")
RomFxRead(done, rdata) ==
  \/ romRd.state = "READ" /\ RomSends("READ_W", FALSE, RomReadAddr, romRd.transfer.data)
  \/ romRd.state = "REREAD" /\ RomSends("COMPARE_W", FALSE, RomReadAddr, romRd.transfer.data)
  \/ romRd.state = "READ_W" /\ done
     /\ RomBecomes("GAP", romRd.bank, romRd.offset, rdata, romRd.valid, FALSE)
     /\ romRd'.transfer = romRd.transfer
  \/ romRd.state = "GAP" /\ RomSteps("REREAD")
  \/ romRd.state = "COMPARE_W" /\ done
     /\ RomBecomes("EMIT", romRd.bank, romRd.offset, romRd.data, TRUE, FALSE)
     /\ romRd'.transfer = romRd.transfer
RomFxEmit(ready) ==
  \/ romRd.state = "EMIT" /\ ready
     /\ RomBecomes("NEXT", romRd.bank, romRd.offset, romRd.data, FALSE, FALSE)
     /\ romRd'.transfer = romRd.transfer
  \/ romRd.state = "NEXT" /\ romRd.offset # RomBytes - 1
     /\ RomGoesTo("READ", romRd.bank, romRd.offset + 1)
  \/ romRd.state = "NEXT" /\ romRd.offset = RomBytes - 1 /\ romRd.bank + 1 # RomBanks
     /\ RomGoesTo("BANK_LO", romRd.bank + 1, 0)
  \/ romRd.state = "NEXT" /\ romRd.offset = RomBytes - 1 /\ romRd.bank + 1 = RomBanks
     /\ RomGoesTo("DONE", romRd.bank, 0)
  \/ romRd.state = "DONE" /\ RomSteps("IDLE")
RomFxWait(done, ready) ==
  /\ (romRd.state \in RomWaiting /\ ~done) \/ (romRd.state = "EMIT" /\ ~ready)
  /\ RomSteps(romRd.state)

RomFx(start, abort, done, rdata, ready) ==
  \/ abort /\ romRd' = RomIdle
  \/ /\ ~abort
     /\ \/ RomFxIdle(start) \/ RomFxBank(done) \/ RomFxRead(done, rdata)
        \/ RomFxEmit(ready) \/ RomFxWait(done, ready)

RomAddrSet == RomAddresses \cup {Gate}

\* The type of the ROM reader, its addresses named.
LEMMA RomTypeIs ==
  RomType =
    [state : RomStates, bank : 0 .. RomBanks - 1, offset : 0 .. RomBytes - 1,
     data : Byte, valid : BOOLEAN, req : BOOLEAN,
     transfer : [wr : BOOLEAN, addr : RomAddrSet, data : Nat]]
BY Zenon DEF RomType, RomAddrSet

\* What the assumptions say of the numbers of the ROM reader.
LEMMA RomBounds ==
  /\ RomBanks \in Nat /\ RomBanks > 0 /\ RomBytes \in Nat /\ RomBytes > 0
  /\ 0 \in Byte /\ Chip.mbc1 \in BOOLEAN
  /\ 0 \in 0 .. RomBanks - 1 /\ 0 \in 0 .. RomBytes - 1
BY RomAssumption, DumpAssumption DEF SaveGeometry

\* The type of the ROM reader, field by field.
LEMMA RomFields ==
  ASSUME romRd \in RomType
  PROVE  /\ romRd.state \in RomStates /\ romRd.bank \in 0 .. RomBanks - 1
         /\ romRd.offset \in 0 .. RomBytes - 1 /\ romRd.data \in Byte
         /\ romRd.valid \in BOOLEAN /\ romRd.req \in BOOLEAN
         /\ romRd.transfer.wr \in BOOLEAN /\ romRd.transfer.addr \in RomAddrSet
         /\ romRd.transfer.data \in Nat
BY RomTypeIs

\* The addresses the ROM reader uses.
LEMMA RomAddrSetHas ==
  /\ {RomBank, Bank, Gate} \subseteq RomAddrSet
  /\ \A o \in 0 .. RomBytes - 1 : RomFixed(o) \in RomAddrSet /\ RomSwitched(o) \in RomAddrSet
BY Zenon DEF RomAddrSet, RomAddresses

\* Its states.
LEMMA RomStatesHas ==
  /\ {"IDLE", "BANK_LO", "BANK_LO_W", "BANK_HI", "BANK_HI_W", "READ", "READ_W"} \subseteq RomStates
  /\ {"GAP", "REREAD", "COMPARE_W", "EMIT", "NEXT", "DONE"} \subseteq RomStates
BY DEF RomStates

\* The updates the ROM reader makes keep its type.
LEMMA RomRecords ==
  /\ RomIdle \in RomType
  /\ \A r \in RomType, st \in RomStates, v \in BOOLEAN :
       [r EXCEPT !.req = FALSE, !.state = st] \in RomType
       /\ [r EXCEPT !.req = FALSE, !.valid = v, !.state = st] \in RomType
  /\ \A r \in RomType, st \in RomStates, d \in Byte :
       [r EXCEPT !.req = FALSE, !.data = d, !.state = st] \in RomType
  /\ \A r \in RomType, st \in RomStates, a \in RomAddrSet :
       [r EXCEPT !.req = TRUE, !.state = st,
                 !.transfer.wr = FALSE, !.transfer.addr = a] \in RomType
  /\ \A r \in RomType, st \in RomStates, a \in RomAddrSet, d \in Nat :
       [r EXCEPT !.req = TRUE, !.state = st,
                 !.transfer = [wr |-> TRUE, addr |-> a, data |-> d]] \in RomType
  /\ \A r \in RomType, st \in RomStates, o \in 0 .. RomBytes - 1 :
       [r EXCEPT !.req = FALSE, !.offset = o, !.state = st] \in RomType
  /\ \A r \in RomType, st \in RomStates, o \in 0 .. RomBytes - 1, b \in 0 .. RomBanks - 1 :
       [r EXCEPT !.req = FALSE, !.offset = o, !.bank = b, !.state = st] \in RomType
  /\ \A r \in RomType : [r EXCEPT !.req = FALSE, !.valid = FALSE] \in RomType
                        /\ [r EXCEPT !.req = FALSE] \in RomType
  /\ \A r \in RomType, st \in RomStates, o \in 0 .. RomBytes - 1, b \in 0 .. RomBanks - 1 :
       [r EXCEPT !.req = FALSE, !.valid = FALSE, !.bank = b, !.offset = o,
                 !.state = st] \in RomType
<1>1. RomIdle \in RomType
  BY RomTypeIs, RomBounds, RomAddrSetHas, RomStatesHas DEF RomIdle, NoTransfer
<1>2. \A r \in RomType, st \in RomStates, v \in BOOLEAN :
       [r EXCEPT !.req = FALSE, !.state = st] \in RomType
       /\ [r EXCEPT !.req = FALSE, !.valid = v, !.state = st] \in RomType
  BY RomTypeIs
<1>3. \A r \in RomType, st \in RomStates, d \in Byte :
       [r EXCEPT !.req = FALSE, !.data = d, !.state = st] \in RomType
  BY RomTypeIs
<1>4. \A r \in RomType, st \in RomStates, a \in RomAddrSet :
       [r EXCEPT !.req = TRUE, !.state = st,
                 !.transfer.wr = FALSE, !.transfer.addr = a] \in RomType
  BY RomTypeIs
<1>5. \A r \in RomType, st \in RomStates, a \in RomAddrSet, d \in Nat :
       [r EXCEPT !.req = TRUE, !.state = st,
                 !.transfer = [wr |-> TRUE, addr |-> a, data |-> d]] \in RomType
  BY RomTypeIs
<1>6. \A r \in RomType, st \in RomStates, o \in 0 .. RomBytes - 1 :
       [r EXCEPT !.req = FALSE, !.offset = o, !.state = st] \in RomType
  BY RomTypeIs
<1>7. \A r \in RomType, st \in RomStates, o \in 0 .. RomBytes - 1, b \in 0 .. RomBanks - 1 :
       [r EXCEPT !.req = FALSE, !.offset = o, !.bank = b, !.state = st] \in RomType
  BY RomTypeIs
<1>8. \A r \in RomType : [r EXCEPT !.req = FALSE, !.valid = FALSE] \in RomType
                        /\ [r EXCEPT !.req = FALSE] \in RomType
  BY RomTypeIs
<1>9. \A r \in RomType, st \in RomStates, o \in 0 .. RomBytes - 1, b \in 0 .. RomBanks - 1 :
       [r EXCEPT !.req = FALSE, !.valid = FALSE, !.bank = b, !.offset = o,
                 !.state = st] \in RomType
  BY RomTypeIs
<1> QED BY <1>1, <1>2, <1>3, <1>4, <1>5, <1>6, <1>7, <1>8, <1>9, Zenon

\* One clock of the ROM reader, register by register.
LEMMA RomClockFx ==
  ASSUME RomOK,
         NEW start \in BOOLEAN, NEW abort \in BOOLEAN, NEW done \in BOOLEAN,
         NEW rdata \in Byte, NEW ready \in BOOLEAN,
         RomClock(Chip, start, abort, done, rdata, ready)
  PROVE  romRd' \in RomType /\ RomFx(start, abort, done, rdata, ready)
<1>t. romRd \in RomType
  BY DEF RomOK
<1>f. /\ romRd.state \in RomStates /\ romRd.bank \in 0 .. RomBanks - 1
      /\ romRd.offset \in 0 .. RomBytes - 1 /\ romRd.bank \in Nat
  BY <1>t, RomFields, RomBounds
<1>a. RomReadAddr \in RomAddrSet
  BY <1>f, RomAddrSetHas DEF RomReadAddr
<1>1. CASE RomReset(abort)
  BY <1>1, RomRecords DEF RomReset, RomFx
<1>2. CASE ~abort /\ RomStarts(start)
  <2>1. romRd' \in RomType
    BY <1>2, <1>t, RomRecords, RomStatesHas, RomBounds DEF RomStarts
  <2>2. RomFxIdle(start)
    BY <1>2, <1>t, RomTypeIs, RomBounds DEF RomStarts, RomFxIdle, RomBecomes
  <2> QED BY <1>2, <2>1, <2>2, Zenon DEF RomFx
<1>3. CASE ~abort /\ RomBankLow
  <2>1. CASE romRd.bank = 0
    <3>1. romRd.state = "BANK_LO" /\ RomGoes("READ")
      BY <1>3, <2>1, Zenon DEF RomBankLow
    <3>2. romRd' \in RomType
      BY <3>1, <1>t, RomRecords, RomStatesHas, RomBounds DEF RomGoes
    <3>3. RomFxBank(done)
      BY <3>1, <2>1, <1>t, RomTypeIs, RomBounds DEF RomGoes, RomFxBank, RomSteps, RomBecomes
    <3> QED BY <1>3, <3>2, <3>3, Zenon DEF RomFx
  <2>2. CASE romRd.bank # 0
    <3>1. romRd.state = "BANK_LO" /\ RomWrites(RomBank, romRd.bank, "BANK_LO_W")
      BY <1>3, <2>2, Zenon DEF RomBankLow
    <3>2. romRd' \in RomType
      BY <3>1, <1>t, <1>f, RomAddrSetHas, RomRecords, RomStatesHas, RomBounds DEF RomWrites
    <3>3. RomFxBank(done)
      BY <3>1, <2>2, <1>t, RomTypeIs, RomBounds DEF RomWrites, RomFxBank, RomSends, RomBecomes
    <3> QED BY <1>3, <3>2, <3>3, Zenon DEF RomFx
  <2> QED BY <2>1, <2>2
<1>4. CASE ~abort /\ RomBankHigh(Chip)
  <2>1. CASE ~Chip.mbc1
    <3>1. romRd.state = "BANK_HI" /\ RomGoes("READ")
      BY <1>4, <2>1, Zenon DEF RomBankHigh
    <3>2. romRd' \in RomType
      BY <3>1, <1>t, RomRecords, RomStatesHas, RomBounds DEF RomGoes
    <3>3. RomFxBank(done)
      BY <3>1, <2>1, <1>t, RomTypeIs, RomBounds DEF RomGoes, RomFxBank, RomSteps, RomBecomes
    <3> QED BY <1>4, <3>2, <3>3, Zenon DEF RomFx
  <2>2. CASE Chip.mbc1
    <3>1. romRd.state = "BANK_HI" /\ RomWrites(Bank, 0, "BANK_HI_W")
      BY <1>4, <2>2, Zenon DEF RomBankHigh
    <3>2. romRd' \in RomType
      BY <3>1, <1>t, <1>f, RomAddrSetHas, RomRecords, RomStatesHas, RomBounds DEF RomWrites
    <3>3. RomFxBank(done)
      BY <3>1, <2>2, <1>t, RomTypeIs, RomBounds DEF RomWrites, RomFxBank, RomSends, RomBecomes
    <3> QED BY <1>4, <3>2, <3>3, Zenon DEF RomFx
  <2> QED BY <2>1, <2>2
<1>5. CASE ~abort /\ RomRequests
  <2>0. PICK st \in {"READ_W", "COMPARE_W"} :
          /\ romRd.state = (IF st = "READ_W" THEN "READ" ELSE "REREAD")
          /\ romRd' = [romRd EXCEPT !.req = TRUE, !.state = st,
                                    !.transfer.wr = FALSE, !.transfer.addr = RomReadAddr]
    BY <1>5 DEF RomRequests, RomAsks
  <2>1. romRd' \in RomType
    BY <2>0, <1>t, <1>a, RomRecords, RomStatesHas
  <2>2. RomSends(st, FALSE, RomReadAddr, romRd.transfer.data)
    BY <2>0, <1>t, RomTypeIs DEF RomSends, RomBecomes
  <2>3. RomFxRead(done, rdata)
    BY <2>0, <2>2 DEF RomFxRead
  <2> QED BY <1>5, <2>1, <2>3, Zenon DEF RomFx
<1>6. CASE ~abort /\ RomAnswered(done, rdata)
  <2>1. CASE romRd.state \in {"BANK_LO_W", "BANK_HI_W"}
    <3>0. PICK st \in {"BANK_HI", "READ"} :
            /\ st = IF romRd.state = "BANK_LO_W" THEN "BANK_HI" ELSE "READ"
            /\ romRd' = [romRd EXCEPT !.req = FALSE, !.state = st]
      BY <1>6, <2>1 DEF RomAnswered, RomGoes
    <3>1. romRd' \in RomType
      BY <3>0, <1>t, RomRecords, RomStatesHas
    <3>2. RomSteps(st)
      BY <3>0, <1>t, RomTypeIs DEF RomSteps, RomBecomes
    <3>3. RomFxBank(done)
      BY <1>6, <2>1, <3>0, <3>2 DEF RomFxBank, RomAnswered
    <3> QED BY <1>6, <3>1, <3>3, Zenon DEF RomFx
  <2>2. CASE romRd.state = "READ_W"
    <3>0. romRd' = [romRd EXCEPT !.req = FALSE, !.data = rdata, !.state = "GAP"]
      BY <1>6, <2>2 DEF RomAnswered, RomGoes
    <3>1. romRd' \in RomType
      BY <3>0, <1>t, RomRecords, RomStatesHas
    <3>2. RomFxRead(done, rdata)
      BY <1>6, <2>2, <3>0, <1>t, RomTypeIs DEF RomFxRead, RomBecomes, RomAnswered
    <3> QED BY <1>6, <3>1, <3>2, Zenon DEF RomFx
  <2>3. CASE romRd.state = "COMPARE_W"
    <3>0. romRd' = [romRd EXCEPT !.req = FALSE, !.valid = TRUE, !.state = "EMIT"]
      BY <1>6, <2>3 DEF RomAnswered, RomGoes
    <3>1. romRd' \in RomType
      BY <3>0, <1>t, RomRecords, RomStatesHas
    <3>2. RomFxRead(done, rdata)
      BY <1>6, <2>3, <3>0, <1>t, RomTypeIs DEF RomFxRead, RomBecomes, RomAnswered
    <3> QED BY <1>6, <3>1, <3>2, Zenon DEF RomFx
  <2> QED BY <1>6, <2>1, <2>2, <2>3 DEF RomAnswered
<1>7. CASE ~abort /\ RomGap
  <2>1. romRd' \in RomType
    BY <1>7, <1>t, RomRecords, RomStatesHas, RomBounds DEF RomGap, RomGoes
  <2>2. RomFxRead(done, rdata)
    BY <1>7, <1>t, RomTypeIs, RomBounds DEF RomGap, RomGoes, RomFxRead, RomSteps, RomBecomes
  <2> QED BY <1>7, <2>1, <2>2, Zenon DEF RomFx
<1>8. CASE ~abort /\ RomTaken(ready)
  <2>1. romRd' \in RomType
    BY <1>8, <1>t, RomRecords, RomStatesHas, RomBounds DEF RomTaken
  <2>2. RomFxEmit(ready)
    BY <1>8, <1>t, RomTypeIs, RomBounds DEF RomTaken, RomFxEmit, RomBecomes
  <2> QED BY <1>8, <2>1, <2>2, Zenon DEF RomFx
<1>9. CASE ~abort /\ RomNext
  <2>s. romRd.state = "NEXT"
    BY <1>9 DEF RomNext
  <2>1. CASE romRd.offset # RomBytes - 1
    <3>0. romRd.offset + 1 \in 0 .. RomBytes - 1
      BY <2>1, <1>f, RomBounds
    <3>1. romRd' = [romRd EXCEPT !.req = FALSE, !.offset = romRd.offset + 1, !.state = "READ"]
      BY <1>9, <2>1, <1>t DEF RomNext
    <3>2. romRd' \in RomType
      BY <3>0, <3>1, <1>t, RomRecords, RomStatesHas, RomBounds
    <3>3. RomFxEmit(ready)
      BY <2>s, <3>1, <2>1, <1>t, RomTypeIs, RomBounds DEF RomFxEmit, RomGoesTo, RomBecomes
    <3> QED BY <1>9, <3>2, <3>3, Zenon DEF RomFx
  <2>2. CASE romRd.offset = RomBytes - 1 /\ romRd.bank + 1 # RomBanks
    <3>0. romRd.bank + 1 \in 0 .. RomBanks - 1
      BY <2>2, <1>f, RomBounds
    <3>1. romRd' = [romRd EXCEPT !.req = FALSE, !.offset = 0, !.bank = romRd.bank + 1,
                                 !.state = "BANK_LO"]
      BY <1>9, <2>2, <1>t DEF RomNext
    <3>2. romRd' \in RomType
      BY <3>0, <3>1, <1>t, RomRecords, RomStatesHas, RomBounds
    <3>3. RomFxEmit(ready)
      BY <2>s, <3>1, <2>2, <1>t, RomTypeIs, RomBounds DEF RomFxEmit, RomGoesTo, RomBecomes
    <3> QED BY <1>9, <3>2, <3>3, Zenon DEF RomFx
  <2>3. CASE romRd.offset = RomBytes - 1 /\ romRd.bank + 1 = RomBanks
    <3>1. romRd' = [romRd EXCEPT !.req = FALSE, !.offset = 0, !.state = "DONE"]
      BY <1>9, <2>3, <1>t DEF RomNext
    <3>2. romRd' \in RomType
      BY <3>1, <1>t, RomRecords, RomStatesHas, RomBounds
    <3>3. RomFxEmit(ready)
      BY <2>s, <3>1, <2>3, <1>t, RomTypeIs, RomBounds DEF RomFxEmit, RomGoesTo, RomBecomes
    <3> QED BY <1>9, <3>2, <3>3, Zenon DEF RomFx
  <2> QED BY <2>1, <2>2, <2>3
<1>10. CASE ~abort /\ RomEnds
  <2>1. romRd' \in RomType
    BY <1>10, <1>t, RomRecords, RomStatesHas, RomBounds DEF RomEnds, RomGoes
  <2>2. RomFxEmit(ready)
    BY <1>10, <1>t, RomTypeIs, RomBounds DEF RomEnds, RomGoes, RomFxEmit, RomSteps, RomBecomes
  <2> QED BY <1>10, <2>1, <2>2, Zenon DEF RomFx
<1>11. CASE ~abort /\ RomWaits(done, ready)
  <2>1. romRd' \in RomType
    BY <1>11, <1>t, RomRecords, RomStatesHas, RomBounds DEF RomWaits
  <2>2. RomFxWait(done, ready)
    BY <1>11, <1>t, RomTypeIs, RomBounds DEF RomWaits, RomFxWait, RomWaiting, RomSteps, RomBecomes
  <2> QED BY <1>11, <2>1, <2>2, Zenon DEF RomFx
<1> QED BY <1>1, <1>2, <1>3, <1>4, <1>5, <1>6, <1>7, <1>8, <1>9, <1>10, <1>11, Zenon DEF RomClock

\* A clock keeps the ROM reader consistent.
LEMMA RomKept ==
  ASSUME RomOK, romRd' \in RomType,
         NEW start \in BOOLEAN, NEW abort \in BOOLEAN, NEW done \in BOOLEAN,
         NEW rdata \in Byte, NEW ready \in BOOLEAN,
         RomFx(start, abort, done, rdata, ready)
  PROVE  RomOK'
<1>t. /\ romRd.state \in RomStates /\ romRd.bank \in 0 .. RomBanks - 1
      /\ romRd.valid \in BOOLEAN /\ romRd.req \in BOOLEAN /\ romRd.transfer.wr \in BOOLEAN
      /\ romRd'.valid \in BOOLEAN /\ romRd'.req \in BOOLEAN /\ romRd'.transfer.wr \in BOOLEAN
  BY RomFields, RomTypeIs DEF RomOK
<1>r. romRd'.bank = romRd.bank /\ romRd'.offset = romRd.offset => RomReadAddr' = RomReadAddr
  BY DEF RomReadAddr
<1>i. RomIdle.state = "IDLE" /\ ~RomIdle.valid /\ ~RomIdle.req /\ ~RomIdle.transfer.wr
  BY DEF RomIdle, NoTransfer
<1> USE DEF RomOK, RomTransferOK, RomBecomes, RomSteps, RomSends, RomGoesTo, RomWaiting
<1>0. CASE romRd' = RomIdle
  BY <1>0, <1>i
<1>1. CASE RomFxIdle(start)
  BY <1>t, <1>r, <1>1 DEF RomFxIdle
<1>2. CASE RomFxBank(done)
  BY <1>t, <1>r, <1>2, AddressesDiffer, RomBounds DEF RomFxBank
<1>3. CASE RomFxRead(done, rdata)
  BY <1>t, <1>r, <1>3 DEF RomFxRead
<1>4. CASE RomFxEmit(ready)
  BY <1>t, <1>r, <1>4 DEF RomFxEmit
<1>5. CASE RomFxWait(done, ready)
  BY <1>t, <1>r, <1>5 DEF RomFxWait
<1> QED BY <1>0, <1>1, <1>2, <1>3, <1>4, <1>5, Zenon DEF RomFx

\* What the ROM reader has before it is bounded by the size of the ROM.
LEMMA RomRange ==
  ASSUME RomOK
  PROVE  /\ RomTotal \in Nat /\ RomTotal > 0
         /\ RomRest \in 0 .. RomTotal
         /\ RomPos \in Nat /\ RomPos < RomTotal
<1>t. /\ romRd.offset \in 0 .. RomBytes - 1 /\ romRd.bank \in 0 .. RomBanks - 1
  BY RomFields DEF RomOK
<1>1. RomPos \in Nat /\ RomPos < RomTotal /\ RomTotal \in Nat
  BY <1>t, RomBounds, Place DEF RomPos, RomTotal
<1> QED BY <1>1 DEF RomRest

\* The ROM reader has one byte less before it for every byte it hands over.
LEMMA RomCounts ==
  ASSUME RomOK, RomOK',
         NEW start \in BOOLEAN, NEW abort \in BOOLEAN, NEW done \in BOOLEAN,
         NEW rdata \in Byte, NEW ready \in BOOLEAN,
         RomFx(start, abort, done, rdata, ready)
  PROVE  /\ abort => RomRest' = 0
         /\ ~abort /\ romRd.state = "IDLE" /\ start => RomRest' = RomTotal
         /\ ~abort /\ ~(romRd.state = "IDLE" /\ start) =>
              RomRest' = RomRest - (IF romRd.state = "EMIT" /\ ready THEN 1 ELSE 0)
<1>t. /\ romRd.offset \in 0 .. RomBytes - 1 /\ romRd.bank \in 0 .. RomBanks - 1
  BY RomFields DEF RomOK
<1>r. /\ RomTotal \in Nat /\ RomTotal > 0 /\ RomRest \in 0 .. RomTotal
      /\ RomPos \in Nat /\ RomPos < RomTotal
  BY RomRange
<1>p. /\ romRd'.bank = romRd.bank /\ romRd'.offset = romRd.offset => RomPos' = RomPos
      /\ romRd'.bank = 0 /\ romRd'.offset = 0 => RomPos' = 0
      /\ romRd'.bank = romRd.bank /\ romRd'.offset = romRd.offset + 1 => RomPos' = RomPos + 1
      /\ romRd.offset = RomBytes - 1 =>
           /\ romRd'.bank = romRd.bank + 1 /\ romRd'.offset = 0 => RomPos' = RomPos + 1
           /\ romRd.bank + 1 = RomBanks => RomPos + 1 = RomTotal
  <2>1. (romRd.bank + 1) * RomBytes = romRd.bank * RomBytes + RomBytes /\ romRd.bank * RomBytes \in Nat
    BY <1>t, NextPlace, RomBounds
  <2> DEFINE m == romRd.bank * RomBytes
  <2>2. romRd'.bank = romRd.bank => romRd'.bank * RomBytes = m
    OBVIOUS
  <2>3. romRd'.bank = romRd.bank + 1 => romRd'.bank * RomBytes = m + RomBytes
    BY <2>1
  <2>4. romRd'.bank = 0 => romRd'.bank * RomBytes = 0
    BY RomBounds
  <2>5. romRd.bank + 1 = RomBanks => RomTotal = m + RomBytes
    BY <2>1 DEF RomTotal
  <2>6. RomPos = m + romRd.offset /\ m \in Nat
    BY <2>1 DEF RomPos
  <2>7. RomPos' = romRd'.bank * RomBytes + romRd'.offset
    BY DEF RomPos
  <2> HIDE DEF m
  <2> QED BY <2>2, <2>3, <2>4, <2>5, <2>6, <2>7, <1>t, RomBounds
<1>s. RomTotal' = RomTotal
  BY DEF RomTotal
<1> USE DEF RomRest, RomBecomes, RomSteps, RomSends, RomGoesTo, RomWaiting
<1>0. CASE abort /\ romRd' = RomIdle
  BY <1>0 DEF RomIdle
<1>1. CASE ~abort /\ RomFxIdle(start)
  BY <1>r, <1>p, <1>s, <1>1, RomBounds DEF RomFxIdle
<1>2. CASE ~abort /\ RomFxBank(done)
  BY <1>r, <1>p, <1>s, <1>2, RomBounds DEF RomFxBank
<1>3. CASE ~abort /\ RomFxRead(done, rdata)
  BY <1>r, <1>p, <1>s, <1>3, RomBounds DEF RomFxRead
<1>4. CASE ~abort /\ RomFxEmit(ready)
  BY <1>r, <1>p, <1>s, <1>4, RomBounds DEF RomFxEmit
<1>5. CASE ~abort /\ RomFxWait(done, ready)
  BY <1>r, <1>p, <1>s, <1>5, RomBounds DEF RomFxWait
<1> QED BY <1>0, <1>1, <1>2, <1>3, <1>4, <1>5, Zenon DEF RomFx

RomOnBus ==
  /\ romRd.req => ~BusBusy /\ ~busDone
  /\ BusBusy \/ busDone => romRd.state \in RomWaiting /\ bus = romRd.transfer

\* While it waits for the bus the ROM reader stays where it is.
LEMMA RomHolds ==
  ASSUME RomOK, RomOK',
         NEW start \in BOOLEAN, NEW done \in BOOLEAN,
         NEW rdata \in Byte, NEW ready \in BOOLEAN,
         RomFx(start, FALSE, done, rdata, ready)
  PROVE  /\ romRd.state \in RomWaiting /\ ~done =>
              /\ romRd'.state = romRd.state /\ romRd'.transfer = romRd.transfer /\ ~romRd'.req
              /\ romRd'.bank = romRd.bank /\ romRd'.offset = romRd.offset
              /\ romRd'.data = romRd.data
         /\ romRd.state \in RomWaiting /\ done => romRd'.state \notin RomWaiting /\ ~romRd'.req
BY DEF RomFx, RomFxIdle, RomFxBank, RomFxRead, RomFxEmit, RomFxWait, RomBecomes, RomSteps,
       RomSends, RomGoesTo, RomWaiting

\* The ROM reader stays in step with the bus.
LEMMA RomCoupled ==
  ASSUME RomOK, RomOK', BusOK, mode \in BOOLEAN,
         RomOnBus \/ ~mode,
         romRd.state \in RomWaiting /\ ~busDone =>
              romRd'.state = romRd.state /\ romRd'.transfer = romRd.transfer /\ ~romRd'.req,
         romRd.state \in RomWaiting /\ busDone => romRd'.state \notin RomWaiting /\ ~romRd'.req,
         BusClock(mode, romRd.req, romRd.transfer)
  PROVE  RomOnBus'
<1>1. CASE BusDrop
  BY <1>1 DEF BusDrop, RomOnBus, BusBusy, RomOK
<1>2. CASE mode /\ BusListen(romRd.req, romRd.transfer)
  BY <1>2 DEF BusListen, RomOnBus, BusBusy, RomOK, BusOK
<1>3. CASE mode /\ (BusDwell \/ BusAdvance \/ BusFinish)
  BY <1>3 DEF BusDwell, BusAdvance, BusFinish, RomOnBus, BusBusy, RomOK, BusOK
<1> QED BY <1>1, <1>2, <1>3, Zenon DEF BusClock

\* The byte a read of the ROM returns when its bank is selected.
LEMMA RomByteRead ==
  ASSUME RomOK, CartOK, powered, bus = romRd.transfer,
         romRd.state \in {"READ_W", "COMPARE_W"}, RomRight
  PROVE  BusRead = Rom[<<romRd.bank, romRd.offset>>]
<1>1. ~bus.wr /\ bus.addr = RomReadAddr
  BY DEF RomOK, RomTransferOK
<1>2. romRd.bank \in 0 .. RomBanks - 1 /\ romRd.bank % RomBanks = romRd.bank
  BY RomFields, RomBounds DEF RomOK
<1>3. CASE romRd.bank = 0
  <2>1. bus.addr[1] = "rom0" /\ bus.addr[2] = romRd.offset
    BY <1>1, <1>3, Addresses DEF RomReadAddr
  <2>2. BusRead = RomRead(Rom, bus.addr)
    BY <1>1, <2>1, Zenon DEF BusRead
  <2> QED BY <2>1, <2>2, <1>3 DEF RomRead
<1>4. CASE romRd.bank # 0
  <2>1. bus.addr[1] = "romx" /\ bus.addr[2] = romRd.offset
    BY <1>1, <1>4, Addresses DEF RomReadAddr
  <2>2. BusRead = RomRead(Rom, bus.addr)
    BY <1>1, <2>1, Zenon DEF BusRead
  <2>3. romReg = romRd.bank
    BY <1>4 DEF RomRight
  <2> QED BY <2>1, <2>2, <2>3, <1>2 DEF RomRead
<1> QED BY <1>3, <1>4

\* The ROM reader keeps the bank it selected and the byte it read.
LEMMA RomRightKept ==
  ASSUME RomOK, RomOK', BusOK, CartOK, CartFx, powered, RomOnBus, RomRight,
         NEW rdata \in Byte, NEW ready \in BOOLEAN,
         busDone => rdata = BusRead,
         RomFx(FALSE, FALSE, busDone, rdata, ready),
         Landed => (bus.addr = RomBank => romReg = bus.data)
  PROVE  RomRight'
<1>t. busDone \in BOOLEAN
  BY DEF BusOK
<1>1. CASE WriteEdge
  <2>1. /\ ~busDone /\ BusBusy /\ bus.wr
    BY <1>1 DEF WriteEdge, BusOK, BusBusy
  <2>2. romRd.state \in RomWaiting /\ bus = romRd.transfer
    BY <2>1 DEF RomOnBus
  <2>3. /\ romRd'.state = romRd.state /\ romRd'.bank = romRd.bank
        /\ romRd'.offset = romRd.offset /\ romRd'.data = romRd.data
    BY <2>1, <2>2, RomHolds, <1>t
  <2>4. romReg' = IF bus.addr = RomBank THEN bus.data ELSE romReg
    BY <1>1, Zenon DEF CartFx
  <2>5. romRd.state \in {"BANK_LO_W", "BANK_HI_W"}
    BY <2>1, <2>2 DEF RomOK, RomTransferOK, RomWaiting
  <2>6. romRd.state = "BANK_HI_W" => bus.addr # RomBank
    BY <2>2, AddressesDiffer DEF RomOK, RomTransferOK
  <2> QED BY <2>3, <2>4, <2>5, <2>6 DEF RomRight
<1>2. CASE ~WriteEdge
  <2>1. romReg' = romReg
    BY <1>2, Zenon DEF CartFx
  <2>2. busDone /\ romRd.state = "BANK_LO_W" => romReg = romRd.bank
    BY DEF RomOnBus, RomOK, RomTransferOK, Landed
  <2>3. busDone /\ romRd.state = "READ_W" => rdata = Rom[<<romRd.bank, romRd.offset>>]
    BY RomByteRead DEF RomOnBus
  <2> USE DEF RomRight, RomBecomes, RomSteps, RomSends, RomGoesTo
  <2>a. CASE RomFxIdle(FALSE)
    BY <2>1, <2>a DEF RomFxIdle
  <2>b. CASE RomFxBank(busDone)
    BY <2>1, <2>2, <2>b DEF RomFxBank
  <2>c. CASE RomFxRead(busDone, rdata)
    BY <2>1, <2>3, <2>c DEF RomFxRead
  <2>d. CASE RomFxEmit(ready)
    BY <2>1, <2>d DEF RomFxEmit
  <2>e. CASE RomFxWait(busDone, ready)
    BY <2>1, <2>e DEF RomFxWait, RomWaiting
  <2> QED BY <2>a, <2>b, <2>c, <2>d, <2>e, Zenon DEF RomFx
<1> QED BY <1>1, <1>2

-----------------------------------------------------------------------------
(* Writes that have reached the cartridge *)

LatchedZero ==
  /\ bus.addr = Gate /\ bus.data = 0 => ~gate
  /\ bus.addr = Mode /\ bus.data = 0 => modeReg = 0
LatchedAll ==
  /\ bus.addr = Gate => gate = (bus.data % 16 = 10)
  /\ bus.addr = Mode => modeReg = bus.data
  /\ bus.addr = Bank => bankReg = bus.data
  /\ bus.addr = RomBank => romReg = bus.data

\* A write that has passed its edge stays in the cartridge while the dump
\* keeps it powered.
LEMMA LatchedKept ==
  ASSUME BusOK, CartFx, mode \in BOOLEAN, powered \in BOOLEAN,
         NEW req, NEW t, BusClock(mode, req, t),
         mode /\ Landed => LatchedZero
  PROVE  Landed' => /\ LatchedZero'
                    /\ powered /\ (mode /\ Landed => LatchedAll) => LatchedAll'
<1> SUFFICES ASSUME Landed'
             PROVE  /\ LatchedZero'
                    /\ powered /\ (mode /\ Landed => LatchedAll) => LatchedAll'
  OBVIOUS
<1>1. /\ mode /\ bus' = bus /\ bus.wr
      /\ WriteEdge \/ (Landed /\ ~WriteEdge)
  <2>1. ~BusDrop
    BY DEF BusDrop, Landed, NoTransfer
  <2>2. ~BusListen(req, t)
    BY DEF BusListen, Landed
  <2>3. mode /\ (BusDwell \/ BusAdvance \/ BusFinish)
    BY <2>1, <2>2, Zenon DEF BusClock
  <2> QED BY <2>3 DEF BusDwell, BusAdvance, BusFinish, Landed, BusOK, WriteEdge
<1>2. CASE WriteEdge
  <2>1. ~powered => gate' = FALSE /\ modeReg' = 0
    BY Zenon DEF CartFx
  <2>2. powered => /\ gate' = IF bus.addr = Gate THEN bus.data % 16 = 10 ELSE gate
                   /\ bankReg' = IF bus.addr = Bank THEN bus.data ELSE bankReg
                   /\ modeReg' = IF bus.addr = Mode THEN bus.data ELSE modeReg
                   /\ romReg' = IF bus.addr = RomBank THEN bus.data ELSE romReg
    BY <1>2, Zenon DEF CartFx
  <2>3. 0 % 16 # 10
    OBVIOUS
  <2>4. LatchedZero'
    BY <1>1, <2>1, <2>2, <2>3 DEF LatchedZero
  <2>5. powered => LatchedAll'
    BY <1>1, <2>2, Zenon DEF LatchedAll
  <2> QED BY <2>4, <2>5
<1>3. CASE Landed /\ ~WriteEdge
  <2>1. ~powered => gate' = FALSE /\ modeReg' = 0
    BY Zenon DEF CartFx
  <2>2. powered => gate' = gate /\ bankReg' = bankReg /\ modeReg' = modeReg /\ romReg' = romReg
    BY <1>3, Zenon DEF CartFx
  <2>3. LatchedZero
    BY <1>1, <1>3
  <2>4. LatchedZero'
    BY <1>1, <2>1, <2>2, <2>3 DEF LatchedZero
  <2>5. powered /\ LatchedAll => LatchedAll'
    BY <1>1, <2>2, Zenon DEF LatchedAll
  <2> QED BY <1>1, <1>3, <2>4, <2>5
<1> QED BY <1>1, <1>2, <1>3

-----------------------------------------------------------------------------
(* The chunk source *)

ChunkBecomes(st, left, ready, ack) ==
  /\ chunk'.state = st /\ chunk'.left = left /\ chunk'.ready = ready /\ chunk'.ack = ack

\* One clock of the chunk source, register by register.
ChunkFx(abort, req, len, valid, data) ==
  \/ abort /\ chunk.state # "IDLE" /\ ChunkBecomes("IDLE", chunk.left, FALSE, FALSE) /\ buffer' = buffer
  \/ chunk.state = "IDLE" /\ ~req /\ ChunkBecomes("IDLE", chunk.left, FALSE, FALSE) /\ buffer' = buffer
  \/ chunk.state = "IDLE" /\ req /\ ChunkBecomes("FILL", len, FALSE, FALSE) /\ buffer' = <<>>
  \/ ~abort /\ chunk.state = "FILL" /\ chunk.left = 0
     /\ ChunkBecomes("FLUSH", chunk.left, FALSE, chunk.ack) /\ buffer' = buffer
  \/ ~abort /\ chunk.state = "FILL" /\ chunk.left # 0 /\ valid /\ chunk.ready
     /\ ChunkBecomes("FILL", chunk.left - 1, chunk.left # 1, chunk.ack)
     /\ buffer' = Append(buffer, data)
  \/ ~abort /\ chunk.state = "FILL" /\ chunk.left # 0 /\ ~(valid /\ chunk.ready)
     /\ ChunkBecomes("FILL", chunk.left, TRUE, chunk.ack) /\ buffer' = buffer
  \/ ~abort /\ chunk.state = "FLUSH" /\ buffer' = buffer
     /\ \/ ChunkBecomes("FLUSH", chunk.left, chunk.ready, chunk.ack)
        \/ ChunkBecomes("ACK", chunk.left, chunk.ready, chunk.ack)
  \/ ~abort /\ chunk.state = "ACK" /\ req /\ buffer' = buffer
     /\ ChunkBecomes("ACK", chunk.left, chunk.ready, TRUE)
  \/ ~abort /\ chunk.state = "ACK" /\ ~req /\ buffer' = buffer
     /\ ChunkBecomes("IDLE", chunk.left, chunk.ready, FALSE)

\* One clock of the chunk source, register by register.
LEMMA ChunkClockFx ==
  ASSUME ChunkOK, NEW abort \in BOOLEAN, NEW req \in BOOLEAN, NEW valid \in BOOLEAN,
         NEW len \in 0 .. ChunkBytes, NEW data \in Byte,
         ChunkClock(abort, req, len, valid, data)
  PROVE  /\ ChunkFx(abort, req, len, valid, data)
         /\ chunk' \in [state : {"IDLE", "FILL", "FLUSH", "ACK"}, left : 0 .. ChunkBytes,
                        ready : BOOLEAN, ack : BOOLEAN]
<1>t. /\ chunk \in [state : {"IDLE", "FILL", "FLUSH", "ACK"}, left : 0 .. ChunkBytes,
                    ready : BOOLEAN, ack : BOOLEAN]
      /\ ChunkBytes \in Nat
  BY ChunkAssumption DEF ChunkOK
<1>1. CASE ChunkAbort(abort)
  BY <1>t, <1>1 DEF ChunkAbort, ChunkFx, ChunkBecomes
<1>2. CASE ~(abort /\ chunk.state # "IDLE") /\ ChunkRequested(req, len)
  <2>1. CASE req
    <3>1. /\ chunk.state = "IDLE" /\ buffer' = <<>>
          /\ chunk' = [state |-> "FILL", left |-> len, ready |-> FALSE, ack |-> FALSE]
      BY <1>2, <2>1, Zenon DEF ChunkRequested
    <3> QED BY <3>1, <2>1 DEF ChunkFx, ChunkBecomes
  <2>2. CASE ~req
    <3>1. /\ chunk.state = "IDLE" /\ buffer' = buffer
          /\ chunk' = [chunk EXCEPT !.ready = FALSE, !.ack = FALSE]
      BY <1>2, <2>2, Zenon DEF ChunkRequested
    <3>2. ChunkBecomes("IDLE", chunk.left, FALSE, FALSE)
      BY <3>1, <1>t DEF ChunkBecomes
    <3>3. chunk' \in [state : {"IDLE", "FILL", "FLUSH", "ACK"}, left : 0 .. ChunkBytes,
                      ready : BOOLEAN, ack : BOOLEAN]
      BY <3>1, <1>t
    <3> QED BY <3>1, <3>2, <3>3, <2>2, Zenon DEF ChunkFx
  <2> QED BY <2>1, <2>2
<1>3. CASE ~(abort /\ chunk.state # "IDLE") /\ ChunkFills(valid, data)
  <2>0. chunk.state = "FILL" /\ ~abort
    BY <1>3 DEF ChunkFills
  <2>1. CASE chunk.left = 0
    <3>1. chunk' = [chunk EXCEPT !.ready = FALSE, !.state = "FLUSH"] /\ buffer' = buffer
      BY <1>3, <2>1, Zenon DEF ChunkFills
    <3> QED BY <3>1, <2>0, <2>1, <1>t DEF ChunkFx, ChunkBecomes
  <2>2. CASE chunk.left # 0 /\ valid /\ chunk.ready
    <3>1. /\ chunk' = [chunk EXCEPT !.left = chunk.left - 1, !.ready = chunk.left # 1]
          /\ buffer' = Append(buffer, data)
      BY <1>3, <2>2, <1>t DEF ChunkFills, Takes
    <3>2. chunk.left - 1 \in 0 .. ChunkBytes /\ (chunk.left # 1) \in BOOLEAN
      BY <1>t, <2>2
    <3>3. ChunkBecomes("FILL", chunk.left - 1, chunk.left # 1, chunk.ack)
      BY <3>1, <2>0, <1>t DEF ChunkBecomes
    <3>4. chunk' \in [state : {"IDLE", "FILL", "FLUSH", "ACK"}, left : 0 .. ChunkBytes,
                      ready : BOOLEAN, ack : BOOLEAN]
      BY <3>1, <3>2, <1>t
    <3> QED BY <3>1, <3>3, <3>4, <2>0, <2>2, Zenon DEF ChunkFx
  <2>3. CASE chunk.left # 0 /\ ~(valid /\ chunk.ready)
    <3>1. chunk' = [chunk EXCEPT !.ready = TRUE] /\ buffer' = buffer
      BY <1>3, <2>3, Zenon DEF ChunkFills, Takes
    <3> QED BY <3>1, <2>0, <2>3, <1>t DEF ChunkFx, ChunkBecomes
  <2> QED BY <2>1, <2>2, <2>3
<1>4. CASE ~(abort /\ chunk.state # "IDLE") /\ ChunkSettles
  BY <1>t, <1>4 DEF ChunkSettles, ChunkFx, ChunkBecomes
<1>5. CASE ~(abort /\ chunk.state # "IDLE") /\ ChunkAcknowledges(req)
  BY <1>t, <1>5 DEF ChunkAcknowledges, ChunkFx, ChunkBecomes
<1> QED BY <1>1, <1>2, <1>3, <1>4, <1>5, Zenon DEF ChunkClock

-----------------------------------------------------------------------------
(* What the bus reads *)

\* An address on the bus names a register, a byte of the RAM or a byte of the
\* ROM.
LEMMA BusAddrSplit ==
  ASSUME NEW a \in BusAddrs
  PROVE  IF a[1] = "ram" THEN a[2] \in 0 .. BankBytes - 1 ELSE a[2] \in 0 .. RomBytes - 1
<1>1. CASE a \in {Gate, Mode, Bank, RomBank}
  BY <1>1, RomBounds DEF Gate, Mode, Bank, RomBank
<1>2. CASE \E o \in 0 .. RomBytes - 1 : a = RomFixed(o) \/ a = RomSwitched(o)
  BY <1>2 DEF RomFixed, RomSwitched
<1>3. CASE \E o \in 0 .. BankBytes - 1 : a = Ram(o)
  BY <1>3 DEF Ram
<1> QED BY <1>1, <1>2, <1>3 DEF BusAddrs, RomAddresses

\* Whatever is on the bus, it reads a byte.
LEMMA BusReadByte ==
  ASSUME BusOK, CartOK
  PROVE  BusRead \in Byte
<1>t. /\ bus.addr \in BusAddrs /\ bankReg \in 0 .. MaxBanks - 1 /\ romReg \in Nat
      /\ OpenBus \in Byte /\ 0 \in Byte
  BY DumpAssumption DEF BusOK, TransferOK, CartOK
<1>1. CASE ~powered \/ bus.wr
  BY <1>1, <1>t, Zenon DEF BusRead
<1>2. CASE ~(~powered \/ bus.wr) /\ bus.addr[1] = "ram"
  <2>1. bus.addr[2] \in 0 .. BankBytes - 1
    BY <1>2, <1>t, BusAddrSplit
  <2>2. Selected(Chip) \in 0 .. MaxBanks - 1
    BY <1>t, SaveBounds DEF Selected
  <2> DEFINE c == <<Selected(Chip), bus.addr[2]>>
  <2>3. c \in Cell
    BY <2>1, <2>2 DEF Cell
  <2> HIDE DEF c
  <2>4. ram[c] \in Byte
    BY <2>3, <1>t, DumpAssumption DEF CartOK
  <2>5. BusRead = IF gate THEN ram[c] ELSE OpenBus
    BY <1>2, Zenon DEF BusRead, RamRead, c
  <2> QED BY <2>4, <2>5, <1>t
<1>3. CASE ~(~powered \/ bus.wr) /\ bus.addr[1] # "ram"
  <2>1. bus.addr[2] \in 0 .. RomBytes - 1
    BY <1>3, <1>t, BusAddrSplit
  <2>2. romReg % RomBanks \in 0 .. RomBanks - 1 /\ 0 \in 0 .. RomBanks - 1
    BY <1>t, RomBounds
  <2>3. <<romReg % RomBanks, bus.addr[2]>> \in (0 .. RomBanks - 1) \X (0 .. RomBytes - 1)
        /\ <<0, bus.addr[2]>> \in (0 .. RomBanks - 1) \X (0 .. RomBytes - 1)
    BY <2>1, <2>2, Zenon
  <2>4. Rom[<<romReg % RomBanks, bus.addr[2]>>] \in Byte /\ Rom[<<0, bus.addr[2]>>] \in Byte
    BY <2>3, DumpAssumption
  <2>5. BusRead = RomRead(Rom, bus.addr)
    BY <1>3, Zenon DEF BusRead
  <2> QED BY <2>4, <2>5, Zenon DEF RomRead
<1> QED BY <1>1, <1>2, <1>3, Zenon

-----------------------------------------------------------------------------
(* The sequencer *)

EngBecomes(ss, sv, fl, sk, tr, rd) ==
  /\ eng'.ss = ss /\ eng'.save = sv /\ eng'.failed = fl
  /\ eng'.skip = sk /\ eng'.tries = tr /\ eng'.rdStart = rd
EngEnds(fl) == EngBecomes("END", eng.save, fl, eng.skip, eng.tries, FALSE)
EngSame == EngBecomes(eng.ss, eng.save, eng.failed, eng.skip, eng.tries, eng.rdStart)

\* One clock of the sequencer, register by register.
EngFx(start) ==
  \/ eng.ss = "IDLE" /\ go' = go /\ fin' = fin /\ start = "none" /\ EngSame
  \/ eng.ss = "IDLE" /\ go' = go /\ fin' = fin /\ start # "none"
     /\ EngBecomes("MODE", start = "save", FALSE, FALSE, 0, FALSE)
  \/ eng.ss \in {"MODE", "WAKE"} /\ go' = go /\ fin' = fin
     /\ \/ abortL /\ EngEnds(TRUE)
        \/ ~abortL /\ eng.ss = "MODE" /\ mode
           /\ EngBecomes("WAKE", eng.save, eng.failed, eng.skip, eng.tries, eng.rdStart)
        \/ ~abortL /\ EngSame
        \/ ~abortL /\ eng.ss = "WAKE"
           /\ EngBecomes("PATH", eng.save, eng.failed, eng.skip, 1, TRUE)
  \/ eng.ss = "PATH" /\ go' = go /\ fin' = fin
     /\ \/ EngBecomes("PATH", eng.save, eng.failed, eng.skip, eng.tries, FALSE)
        \/ EngBecomes("GO", eng.save, eng.failed, eng.skip, eng.tries, FALSE)
  \/ eng.ss = "GO" /\ go' = TRUE /\ fin' = fin
     /\ EngBecomes("RUN", eng.save, eng.failed, eng.skip, eng.tries, eng.rdStart)
  \/ eng.ss = "RUN" /\ fin /\ go' = go /\ fin' = FALSE
     /\ \/ /\ fw.failed /\ fw.failedOpen /\ ~abortL /\ eng.tries # Combos
           /\ EngBecomes("PATH", eng.save, eng.failed, eng.skip, eng.tries + 1, eng.rdStart)
        \/ /\ fw.failed /\ fw.failedOpen /\ ~abortL /\ eng.tries = Combos /\ ~eng.skip
           /\ EngBecomes("PATH", eng.save, eng.failed, TRUE, eng.tries + 1, eng.rdStart)
        \/ /\ ~(fw.failed /\ fw.failedOpen /\ ~abortL /\ (eng.tries # Combos \/ ~eng.skip))
           /\ EngEnds(fw.failed)
  \/ eng.ss = "RUN" /\ go' = go /\ fin' = fin /\ EngSame
  \/ eng.ss = "END" /\ go' = go /\ fin' = fin
     /\ \/ EngSame
        \/ /\ (~BusBusy /\ ~(eng.save /\ SaveBusy)) \/ Stranded
           /\ EngBecomes("IDLE", eng.save, eng.failed, eng.skip, eng.tries, eng.rdStart)

EngType ==
  [ss : EngineStates, save : BOOLEAN, failed : BOOLEAN, skip : BOOLEAN,
   tries : 0 .. Combos + 1, rdStart : BOOLEAN]

\* One clock of the sequencer, register by register.
LEMMA SequenceFx ==
  ASSUME EngOK, RunOK, Edges, WriterOK, NEW start \in {"none", "rom", "save"}, Sequence(start)
  PROVE  EngFx(start) /\ eng' \in EngType
<1>t. eng \in EngType /\ Combos \in Nat /\ Combos > 0 /\ eng.tries \in Nat
  BY DumpAssumption DEF EngOK, EngType
<1>s. {"IDLE", "MODE", "WAKE", "PATH", "GO", "RUN", "END"} \subseteq EngineStates
  BY DEF EngineStates
<1>w. fw.failed \in BOOLEAN
  BY DEF WriterOK
<1>r. /\ \A r \in EngType, st \in EngineStates : [r EXCEPT !.ss = st] \in EngType
      /\ \A r \in EngType, st \in EngineStates :
           [r EXCEPT !.ss = st, !.rdStart = TRUE, !.tries = 1] \in EngType
      /\ \A r \in EngType, st \in EngineStates :
           [r EXCEPT !.rdStart = FALSE, !.ss = st] \in EngType
      /\ \A r \in EngType : [r EXCEPT !.rdStart = FALSE] \in EngType
      /\ \A r \in EngType, st \in EngineStates, n \in 0 .. Combos + 1 :
           [r EXCEPT !.ss = st, !.tries = n] \in EngType
      /\ \A r \in EngType, st \in EngineStates, n \in 0 .. Combos + 1 :
           [r EXCEPT !.ss = st, !.tries = n, !.skip = TRUE] \in EngType
  <2>0. 1 \in 0 .. Combos + 1
    BY <1>t
  <2>1. \A r \in EngType, st \in EngineStates : [r EXCEPT !.ss = st] \in EngType
    BY DEF EngType
  <2>2. \A r \in EngType, st \in EngineStates :
          [r EXCEPT !.ss = st, !.rdStart = TRUE, !.tries = 1] \in EngType
    BY <2>0 DEF EngType
  <2>3. \A r \in EngType, st \in EngineStates :
          [r EXCEPT !.rdStart = FALSE, !.ss = st] \in EngType
    BY DEF EngType
  <2>4. \A r \in EngType : [r EXCEPT !.rdStart = FALSE] \in EngType
    BY DEF EngType
  <2>5. \A r \in EngType, st \in EngineStates, n \in 0 .. Combos + 1 :
          [r EXCEPT !.ss = st, !.tries = n] \in EngType
    BY DEF EngType
  <2>6. \A r \in EngType, st \in EngineStates, n \in 0 .. Combos + 1 :
          [r EXCEPT !.ss = st, !.tries = n, !.skip = TRUE] \in EngType
    BY DEF EngType
  <2> QED BY <2>1, <2>2, <2>3, <2>4, <2>5, <2>6, Zenon
<1>e. \A f \in BOOLEAN : /\ Ended(f) \in EngType
                         /\ Ended(f).ss = "END" /\ Ended(f).save = eng.save
                         /\ Ended(f).failed = f /\ Ended(f).skip = eng.skip
                         /\ Ended(f).tries = eng.tries /\ Ended(f).rdStart = FALSE
  BY <1>t, <1>s DEF Ended, EngType
<1>1. CASE EngineIdle(start)
  <2>1. CASE start = "none"
    BY <1>1, <2>1, <1>t DEF EngineIdle, EngFx, EngSame, EngBecomes
  <2>2. CASE start # "none"
    <3>1. eng' = [ss |-> "MODE", save |-> start = "save",
                  failed |-> FALSE, skip |-> FALSE, tries |-> 0, rdStart |-> FALSE]
      BY <1>1, <2>2, Zenon DEF EngineIdle
    <3>2. eng' \in EngType
      BY <3>1, <1>t, <1>s DEF EngType
    <3> QED BY <1>1, <2>2, <3>1, <3>2 DEF EngineIdle, EngFx, EngBecomes
  <2> QED BY <2>1, <2>2
<1>2. CASE EngineMode
  <2>0. eng.ss \in {"MODE", "WAKE"} /\ go' = go /\ fin' = fin
    BY <1>2 DEF EngineMode
  <2>1. CASE abortL
    <3>1. eng' = Ended(TRUE)
      BY <1>2, <2>1 DEF EngineMode
    <3> QED BY <3>1, <1>e, <2>0, <2>1 DEF EngFx, EngEnds, EngBecomes
  <2>2. CASE ~abortL /\ eng' = eng
    BY <2>0, <2>2, <1>t DEF EngFx, EngSame, EngBecomes
  <2>3. CASE ~abortL /\ eng.ss = "MODE" /\ mode /\ eng' = [eng EXCEPT !.ss = "WAKE"]
    BY <2>0, <2>3, <1>t, <1>r, <1>s DEF EngFx, EngBecomes, EngType
  <2>4. CASE ~abortL /\ eng.ss = "WAKE" /\ eng' = [eng EXCEPT !.ss = "PATH", !.rdStart = TRUE, !.tries = 1]
    <3>1. eng' \in EngType
      BY <2>4, <1>t, <1>r, <1>s
    <3>2. EngBecomes("PATH", eng.save, eng.failed, eng.skip, 1, TRUE)
      BY <2>4, <1>t DEF EngBecomes, EngType
    <3> QED BY <2>0, <2>4, <3>1, <3>2 DEF EngFx
  <2> QED BY <1>2, <2>1, <2>2, <2>3, <2>4 DEF EngineMode
<1>3. CASE EnginePath
  <2>0. eng.ss = "PATH" /\ go' = go /\ fin' = fin
    BY <1>3 DEF EnginePath
  <2>1. CASE eng' = [eng EXCEPT !.rdStart = FALSE]
    <3>1. EngBecomes("PATH", eng.save, eng.failed, eng.skip, eng.tries, FALSE)
      BY <2>0, <2>1, <1>t DEF EngBecomes, EngType
    <3> QED BY <2>0, <2>1, <3>1, <1>t, <1>r DEF EngFx
  <2>2. CASE eng' = [eng EXCEPT !.rdStart = FALSE, !.ss = "GO"]
    <3>1. EngBecomes("GO", eng.save, eng.failed, eng.skip, eng.tries, FALSE)
      BY <2>0, <2>2, <1>t DEF EngBecomes, EngType
    <3> QED BY <2>0, <2>2, <3>1, <1>t, <1>r, <1>s DEF EngFx
  <2> QED BY <1>3, <2>1, <2>2 DEF EnginePath
<1>4. CASE EngineGo
  <2>1. eng' \in EngType
    BY <1>4, <1>t, <1>r, <1>s DEF EngineGo
  <2>2. EngFx(start)
    BY <1>4, <1>t DEF EngineGo, EngFx, EngBecomes, EngType
  <2> QED BY <2>1, <2>2
<1>5. CASE EngineFinishes
  <2>0. eng.ss = "RUN" /\ fin /\ go' = go /\ fin' = FALSE
    BY <1>5 DEF EngineFinishes
  <2>a. ~go
    BY <2>0 DEF Edges
  <2>b. eng.skip => ~fw.failedOpen
    BY <2>0, <2>a DEF RunOK, Running
  <2>c. eng.skip \/ eng.tries <= Combos
    BY <2>0 DEF EngOK
  <2>1. CASE fw.failed /\ fw.failedOpen /\ ~abortL /\ eng.tries # Combos
    <3>1. eng' = [eng EXCEPT !.ss = "PATH", !.tries = eng.tries + 1]
      BY <1>5, <2>1, <1>t DEF EngineFinishes
    <3>2. eng.tries + 1 \in 0 .. Combos + 1
      BY <2>1, <2>b, <2>c, <1>t
    <3>3. eng' \in EngType
      BY <3>1, <3>2, <1>t, <1>r, <1>s
    <3>4. EngBecomes("PATH", eng.save, eng.failed, eng.skip, eng.tries + 1, eng.rdStart)
      BY <3>1, <1>t DEF EngBecomes, EngType
    <3> QED BY <2>0, <2>1, <3>3, <3>4 DEF EngFx
  <2>2. CASE fw.failed /\ fw.failedOpen /\ ~abortL /\ eng.tries = Combos /\ ~eng.skip
    <3>1. eng' = [eng EXCEPT !.ss = "PATH", !.tries = eng.tries + 1, !.skip = TRUE]
      BY <1>5, <2>2, <1>t DEF EngineFinishes
    <3>2. eng.tries + 1 \in 0 .. Combos + 1
      BY <2>2, <1>t
    <3>3. eng' \in EngType
      BY <3>1, <3>2, <1>t, <1>r, <1>s
    <3>4. EngBecomes("PATH", eng.save, eng.failed, TRUE, eng.tries + 1, eng.rdStart)
      BY <3>1, <1>t DEF EngBecomes, EngType
    <3> QED BY <2>0, <2>2, <3>3, <3>4 DEF EngFx
  <2>3. CASE ~(fw.failed /\ fw.failedOpen /\ ~abortL /\ (eng.tries # Combos \/ ~eng.skip))
    <3>1. eng' = Ended(fw.failed)
      BY <1>5, <2>3, Zenon DEF EngineFinishes
    <3>2. eng' \in EngType /\ EngEnds(fw.failed)
      BY <3>1, <1>e, <1>w DEF EngEnds, EngBecomes
    <3> QED BY <2>0, <2>3, <3>2, Zenon DEF EngFx
  <2> QED BY <2>1, <2>2, <2>3
<1>6. CASE EngineRuns
  BY <1>6, <1>t DEF EngineRuns, EngFx, EngSame, EngBecomes
<1>7. CASE EngineEnd
  <2>1. eng' \in EngType
    BY <1>7, <1>t, <1>r, <1>s DEF EngineEnd
  <2>2. EngFx(start)
    BY <1>7, <1>t DEF EngineEnd, EngFx, EngSame, EngBecomes, EngType
  <2> QED BY <2>1, <2>2
<1> QED BY <1>1, <1>2, <1>3, <1>4, <1>5, <1>6, <1>7, Zenon DEF Sequence

-----------------------------------------------------------------------------
(* The image of a dump *)

\* A position gives back its bank and its offset.
LEMMA DivMod ==
  ASSUME NEW B \in Nat \ {0}, NEW b \in Nat, NEW o \in 0 .. B - 1
  PROVE  (b * B + o) \div B = b /\ (b * B + o) % B = o
OBVIOUS

\* A position below the total lies in a bank there is.
LEMMA DivRange ==
  ASSUME NEW B \in Nat \ {0}, NEW n \in Nat, NEW i \in 0 .. n * B - 1
  PROVE  i \div B \in 0 .. n - 1 /\ i % B \in 0 .. B - 1
<1>1. i \in Nat /\ i < n * B /\ n * B \in Nat
  BY NextPlace
<1>2. i = B * (i \div B) + (i % B) /\ i % B \in 0 .. B - 1 /\ i \div B \in Nat
  BY <1>1
<1>3. ASSUME i \div B >= n PROVE FALSE
  <2>1. B * (i \div B) >= n * B
    BY <1>2, <1>3
  <2> QED BY <2>1, <1>1, <1>2
<1> QED BY <1>2, <1>3

\* The byte of the save at an address is in its place in the file.
LEMMA SaveImage ==
  /\ SaveBytes \in Seq(Byte) /\ Len(SaveBytes) = SaveTotal
  /\ \A b \in 0 .. Chip.banks - 1, o \in 0 .. BankBytes - 1 :
       SaveBytes[(b * BankBytes + o) + 1] = Save[<<b, o>>]
<1>t. /\ BankBytes \in Nat \ {0} /\ Chip.banks \in Nat /\ MaxBanks \in Nat
      /\ Chip.banks <= MaxBanks
  BY SaveBounds
<1>1. ASSUME NEW i \in 1 .. SaveTotal
      PROVE  Save[<<(i - 1) \div BankBytes, (i - 1) % BankBytes>>] \in Byte
  <2>1. i - 1 \in 0 .. Chip.banks * BankBytes - 1
    BY <1>t, NextPlace DEF SaveTotal
  <2>2. /\ (i - 1) \div BankBytes \in 0 .. Chip.banks - 1
        /\ (i - 1) % BankBytes \in 0 .. BankBytes - 1
    BY <2>1, <1>t, DivRange
  <2> DEFINE c == <<(i - 1) \div BankBytes, (i - 1) % BankBytes>>
  <2>3. c \in CellsOf(Chip)
    BY <2>2, <1>t DEF CellsOf, Cell
  <2> HIDE DEF c
  <2>4. Save[c] \in Byte
    BY <2>3, DumpAssumption
  <2> QED BY <2>4 DEF c
<1>2. SaveTotal \in Nat
  BY <1>t, NextPlace DEF SaveTotal
<1>3. SaveBytes = [i \in 1 .. SaveTotal |->
                     Save[<<(i - 1) \div BankBytes, (i - 1) % BankBytes>>]]
  BY Zenon DEF SaveBytes, SaveTotal
<1>4. SaveBytes \in Seq(Byte) /\ Len(SaveBytes) = SaveTotal
  BY <1>1, <1>2, <1>3
<1>5. ASSUME NEW b \in 0 .. Chip.banks - 1, NEW o \in 0 .. BankBytes - 1
      PROVE  SaveBytes[(b * BankBytes + o) + 1] = Save[<<b, o>>]
  <2> DEFINE p == b * BankBytes + o
  <2>1. p \in Nat /\ p < SaveTotal
    BY <1>t, Place DEF SaveTotal
  <2>0. b \in Nat
    BY <1>t
  <2>2. p \div BankBytes = b /\ p % BankBytes = o
    BY <2>0, <1>t, DivMod
  <2> HIDE DEF p
  <2>3. p + 1 \in 1 .. SaveTotal /\ (p + 1) - 1 = p
    BY <2>1, <1>2
  <2>4. SaveBytes[p + 1] = Save[<<p \div BankBytes, p % BankBytes>>]
    BY <2>3, <1>3
  <2>5. SaveBytes[p + 1] = Save[<<b, o>>]
    BY <2>4, <2>2
  <2> QED BY <2>5 DEF p
<1> QED BY <1>4, <1>5

\* The image of the ROM, byte by byte.
LEMMA RomImageIs ==
  /\ RomImage \in Seq(Byte) /\ Len(RomImage) = RomTotal
  /\ \A b \in 0 .. RomBanks - 1, o \in 0 .. RomBytes - 1 :
       RomImage[(b * RomBytes + o) + 1] = Rom[<<b, o>>]
<1>t. RomBytes \in Nat \ {0} /\ RomBanks \in Nat
  BY RomBounds
<1>1. ASSUME NEW i \in 1 .. RomTotal
      PROVE  Rom[<<(i - 1) \div RomBytes, (i - 1) % RomBytes>>] \in Byte
  <2>1. i - 1 \in 0 .. RomBanks * RomBytes - 1
    BY <1>t, NextPlace DEF RomTotal
  <2>2. /\ (i - 1) \div RomBytes \in 0 .. RomBanks - 1
        /\ (i - 1) % RomBytes \in 0 .. RomBytes - 1
    BY <2>1, <1>t, DivRange
  <2> DEFINE c == <<(i - 1) \div RomBytes, (i - 1) % RomBytes>>
  <2>3. c \in (0 .. RomBanks - 1) \X (0 .. RomBytes - 1)
    BY <2>2
  <2> HIDE DEF c
  <2>4. Rom[c] \in Byte
    BY <2>3, DumpAssumption
  <2> QED BY <2>4 DEF c
<1>2. RomTotal \in Nat
  BY <1>t, NextPlace DEF RomTotal
<1>3. RomImage = [i \in 1 .. RomTotal |->
                    Rom[<<(i - 1) \div RomBytes, (i - 1) % RomBytes>>]]
  BY Zenon DEF RomImage, RomTotal
<1>4. RomImage \in Seq(Byte) /\ Len(RomImage) = RomTotal
  BY <1>1, <1>2, <1>3
<1>5. ASSUME NEW b \in 0 .. RomBanks - 1, NEW o \in 0 .. RomBytes - 1
      PROVE  RomImage[(b * RomBytes + o) + 1] = Rom[<<b, o>>]
  <2> DEFINE p == b * RomBytes + o
  <2>1. p \in Nat /\ p < RomTotal
    BY <1>t, Place DEF RomTotal
  <2>2. p \div RomBytes = b /\ p % RomBytes = o
    BY <1>t, DivMod
  <2> HIDE DEF p
  <2>3. p + 1 \in 1 .. RomTotal /\ (p + 1) - 1 = p
    BY <2>1, <1>2
  <2>4. RomImage[p + 1] = Rom[<<p \div RomBytes, p % RomBytes>>]
    BY <2>3, <1>3
  <2>5. RomImage[p + 1] = Rom[<<b, o>>]
    BY <2>4, <2>2
  <2> QED BY <2>5 DEF p
<1> QED BY <1>4, <1>5

\* The length of a dump, and what bounds it.
LEMMA Totals ==
  /\ Expected \in Seq(Byte) /\ TotalBytes = Len(Expected)
  /\ TotalBytes = IF eng.save THEN SaveTotal ELSE RomTotal
  /\ TotalBytes \in Nat /\ TotalBytes > 0
  /\ SaveTotal \in Nat /\ SaveTotal > 1 /\ RomTotal \in Nat /\ RomTotal > 0
  /\ Longest \in Nat /\ TotalBytes <= Longest
<1>1. SaveTotal \in Nat /\ SaveTotal > 1
  <2>1. /\ 0 * BankBytes + (BankBytes - 1) < Chip.banks * BankBytes
        /\ Chip.banks * BankBytes \in Nat
    BY SaveBounds, Place
  <2> QED BY <2>1, SaveBounds DEF SaveTotal
<1>2. RomTotal \in Nat /\ RomTotal > 0
  <2>1. 0 * RomBytes + 0 < RomBanks * RomBytes /\ RomBanks * RomBytes \in Nat
    BY RomBounds, Place
  <2> QED BY <2>1, RomBounds DEF RomTotal
<1>3. Longest = IF SaveTotal > RomTotal THEN SaveTotal ELSE RomTotal
  BY SaveImage, RomImageIs DEF Longest
<1>4. /\ Expected = IF eng.save THEN SaveBytes ELSE RomImage
      /\ TotalBytes = Len(Expected)
  BY Zenon DEF Expected, TotalBytes
<1> QED BY <1>1, <1>2, <1>3, <1>4, SaveImage, RomImageIs

\* The byte in the reader's hand is the one the file needs at its place.
LEMMA HandIsRight ==
  ASSUME SaveOK, RomOK, ReaderRight, ~abortL, eng.save \in BOOLEAN
  PROVE  /\ eng.save /\ save.state = "EMIT" =>
              SaveRest = SaveTotal - SavePos /\ save.data = Expected[SavePos + 1]
         /\ ~eng.save /\ romRd.state = "EMIT" =>
              RomRest = RomTotal - RomPos /\ romRd.data = Expected[RomPos + 1]
<1>1. CASE eng.save /\ save.state = "EMIT"
  <2>1. save.bank \in 0 .. Chip.banks - 1 /\ save.offset \in 0 .. BankBytes - 1 /\ ~save.restore
    BY <1>1, SaveFields, SaveBounds DEF SaveOK, SavePassing
  <2>2. Expected[SavePos + 1] = Save[<<save.bank, save.offset>>]
    BY <1>1, <2>1, SaveImage DEF Expected, SavePos
  <2>3. save.data = Save[<<save.bank, save.offset>>]
    BY <1>1, Zenon DEF ReaderRight, SaveRight
  <2>4. SaveRest = SaveTotal - SavePos
    BY <1>1, <2>1 DEF SaveRest, SavePassing, SaveClosing
  <2> QED BY <1>1, <2>2, <2>3, <2>4
<1>2. CASE ~eng.save /\ romRd.state = "EMIT"
  <2>1. romRd.bank \in 0 .. RomBanks - 1 /\ romRd.offset \in 0 .. RomBytes - 1
    BY RomFields DEF RomOK
  <2>2. Expected[RomPos + 1] = Rom[<<romRd.bank, romRd.offset>>]
    BY <1>2, <2>1, RomImageIs DEF Expected, RomPos
  <2>3. romRd.data = Rom[<<romRd.bank, romRd.offset>>]
    BY <1>2, Zenon DEF ReaderRight, RomRight
  <2>4. RomRest = RomTotal - RomPos
    BY <1>2 DEF RomRest
  <2> QED BY <1>2, <2>2, <2>3, <2>4
<1> QED BY <1>1, <1>2

-----------------------------------------------------------------------------
(* One clock, unit by unit *)

ClockFx(start, req) ==
  /\ EngFx(start) /\ eng' \in EngType
  /\ save' \in SaveType /\ romRd' \in RomType
  /\ chunk' \in [state : {"IDLE", "FILL", "FLUSH", "ACK"}, left : 0 .. ChunkBytes,
                 ready : BOOLEAN, ack : BOOLEAN]
  /\ SaveFx(RdStart /\ eng.save, abortL, busDone, BusRead, chunk.ready)
  /\ RomFx(RdStart /\ ~eng.save, abortL, busDone, BusRead, chunk.ready)
  /\ ChunkFx(abortL, req, ChunkLen(TotalBytes), SrcValid, SrcData)
  /\ BusClock(mode, BusReq, BusTransfer) /\ CartFx
  /\ abortL' \in BOOLEAN /\ mode' \in BOOLEAN
  /\ Busy /\ (abortL \/ ~powered) => abortL' = TRUE
  /\ Busy /\ mode => mode' = TRUE
  /\ ~Busy => mode' = FALSE
  /\ fw' = fw /\ file' = file /\ powered' = powered
  /\ req = fw.req \/ req = (chunk.state = "ACK")

\* What the units see of each other.
LEMMA Wires ==
  ASSUME Inv
  PROVE  /\ busDone \in BOOLEAN /\ BusRead \in Byte /\ chunk.ready \in BOOLEAN
         /\ abortL \in BOOLEAN /\ mode \in BOOLEAN /\ powered \in BOOLEAN
         /\ (RdStart /\ eng.save) \in BOOLEAN /\ (RdStart /\ ~eng.save) \in BOOLEAN
         /\ SrcValid \in BOOLEAN /\ SrcData \in Byte
         /\ BusReq \in BOOLEAN /\ TransferOK(BusTransfer)
         /\ fw.req \in BOOLEAN /\ fw.written \in Nat /\ eng.save \in BOOLEAN
<1>t. SaveOK /\ RomOK /\ BusOK /\ CartOK /\ ChunkOK /\ WriterOK /\ EngOK
  BY Zenon DEF Inv
<1>1. busDone \in BOOLEAN /\ BusRead \in Byte
  BY <1>t, BusReadByte DEF BusOK
<1>2. chunk.ready \in BOOLEAN /\ fw.req \in BOOLEAN /\ fw.written \in Nat /\ eng.save \in BOOLEAN
  BY <1>t DEF ChunkOK, WriterOK, EngOK
<1>3. SrcValid \in BOOLEAN /\ SrcData \in Byte /\ BusReq \in BOOLEAN
  BY <1>t, SaveFields, RomFields DEF SaveOK, RomOK, SrcValid, SrcData, BusReq
<1>4. TransferOK(BusTransfer)
  BY <1>t, SaveTransfer, RomTransfer, Zenon DEF BusTransfer
<1>5. abortL \in BOOLEAN /\ mode \in BOOLEAN /\ powered \in BOOLEAN
  BY <1>t DEF EngOK
<1>6. (RdStart /\ eng.save) \in BOOLEAN /\ (RdStart /\ ~eng.save) \in BOOLEAN
  OBVIOUS
<1> QED BY <1>1, <1>2, <1>3, <1>4, <1>5, <1>6, Zenon

\* A chunk is asked for by a writer at work, so its length is one.
LEMMA LengthAsked ==
  ASSUME Inv, fw.state # "IDLE"
  PROVE  /\ Running /\ fw.written <= TotalBytes
         /\ ChunkLen(TotalBytes) \in 0 .. ChunkBytes
<1>1. Running
  BY DEF Inv, Edges, Running
<1>2. fw.written <= TotalBytes /\ fw.written \in Nat
  BY <1>1, Wires DEF Inv, RunOK
<1> QED BY <1>1, <1>2, Totals, ChunkAssumption DEF ChunkLen

\* A chunk source that is not asked does not look at the length.
LEMMA ChunkIgnores ==
  ASSUME NEW abort, NEW req, NEW valid, NEW data, NEW m, NEW n, ~(chunk.state = "IDLE" /\ req)
  PROVE  /\ ChunkClock(abort, req, m, valid, data) => ChunkClock(abort, req, n, valid, data)
         /\ ChunkFx(abort, req, m, valid, data) => ChunkFx(abort, req, n, valid, data)
<1>1. ChunkRequested(req, m) => ChunkRequested(req, n)
  BY Zenon DEF ChunkRequested
<1> QED BY <1>1, Zenon DEF ChunkClock, ChunkFx

\* A clock of clk_sys is a clock of every unit.
LEMMA ClockParts ==
  ASSUME Inv, NEW cancel \in Cancels, NEW start \in Starts,
         NEW req \in {fw.req, chunk.state = "ACK"}, Clock(cancel, start, req)
  PROVE  ClockFx(start, req)
<1>t. SaveOK /\ RomOK /\ BusOK /\ CartOK /\ ChunkOK /\ WriterOK /\ EngOK /\ RunOK /\ Edges
  BY Zenon DEF Inv
<1>w. /\ busDone \in BOOLEAN /\ BusRead \in Byte /\ chunk.ready \in BOOLEAN
      /\ abortL \in BOOLEAN /\ mode \in BOOLEAN /\ powered \in BOOLEAN
      /\ (RdStart /\ eng.save) \in BOOLEAN /\ (RdStart /\ ~eng.save) \in BOOLEAN
      /\ SrcValid \in BOOLEAN /\ SrcData \in Byte
      /\ fw.req \in BOOLEAN
  BY Wires, Zenon
<1>1. EngFx(start) /\ eng' \in EngType
  <2>1. start \in {"none", "rom", "save"}
    BY DumpAssumption DEF Starts
  <2>2. Sequence(start)
    BY Zenon DEF Clock
  <2> QED BY <2>1, <2>2, <1>t, SequenceFx
<1>2. save' \in SaveType /\ SaveFx(RdStart /\ eng.save, abortL, busDone, BusRead, chunk.ready)
  <2>1. SaveClock(Chip, RdStart /\ eng.save, abortL, busDone, BusRead, chunk.ready)
    BY Zenon DEF Clock
  <2> QED BY <2>1, <1>t, <1>w, SaveClockFx, Zenon
<1>3. romRd' \in RomType /\ RomFx(RdStart /\ ~eng.save, abortL, busDone, BusRead, chunk.ready)
  <2>1. RomClock(Chip, RdStart /\ ~eng.save, abortL, busDone, BusRead, chunk.ready)
    BY Zenon DEF Clock
  <2> QED BY <2>1, <1>t, <1>w, RomClockFx, Zenon
<1>4. ChunkFx(abortL, req, ChunkLen(TotalBytes), SrcValid, SrcData)
      /\ chunk' \in [state : {"IDLE", "FILL", "FLUSH", "ACK"}, left : 0 .. ChunkBytes,
                     ready : BOOLEAN, ack : BOOLEAN]
  <2>0. ChunkClock(abortL, req, ChunkLen(TotalBytes), SrcValid, SrcData)
    BY Zenon DEF Clock
  <2>r. req \in BOOLEAN
    BY <1>w
  <2>1. CASE chunk.state = "IDLE" /\ req
    <3>1. fw.state # "IDLE"
      BY <2>1, <1>t DEF WriterOK
    <3>2. ChunkLen(TotalBytes) \in 0 .. ChunkBytes
      BY <3>1, LengthAsked
    <3> QED BY <3>2, <2>0, <2>r, <1>t, <1>w, ChunkClockFx
  <2>2. CASE ~(chunk.state = "IDLE" /\ req)
    <3>1. ChunkClock(abortL, req, 0, SrcValid, SrcData)
      BY <2>0, <2>2, ChunkIgnores
    <3>2. 0 \in 0 .. ChunkBytes
      BY ChunkAssumption
    <3>3. ChunkFx(abortL, req, 0, SrcValid, SrcData)
          /\ chunk' \in [state : {"IDLE", "FILL", "FLUSH", "ACK"}, left : 0 .. ChunkBytes,
                         ready : BOOLEAN, ack : BOOLEAN]
      BY <3>1, <3>2, <2>r, <1>t, <1>w, ChunkClockFx
    <3> QED BY <3>3, <2>2, ChunkIgnores
  <2> QED BY <2>1, <2>2
<1>5. BusClock(mode, BusReq, BusTransfer)
  BY Zenon DEF Clock
<1>6. CartFx
  <2>1. CartClock(Chip, powered) /\ RomLatch(powered)
    BY Zenon DEF Clock
  <2> QED BY <2>1, <1>t, <1>w, CartClockFx
<1>7. abortL' \in BOOLEAN /\ (Busy /\ (abortL \/ ~powered) => abortL' = TRUE)
  BY Zenon DEF Clock, AbortLatch
<1>8. /\ mode' \in BOOLEAN /\ (Busy /\ mode => mode' = TRUE) /\ (~Busy => mode' = FALSE)
  BY <1>w DEF Clock
<1>9. fw' = fw /\ file' = file /\ powered' = powered
  BY DEF Clock, writerVars
<1>10. req = fw.req \/ req = (chunk.state = "ACK")
  OBVIOUS
<1> QED BY <1>1, <1>2, <1>3, <1>4, <1>5, <1>6, <1>7, <1>8, <1>9, <1>10, Zenon DEF ClockFx

-----------------------------------------------------------------------------
(* A clock keeps the parts *)

\* A clock keeps the sequencer and the edges it sends.
LEMMA SequencerKept ==
  ASSUME Inv, NEW start, NEW req, ClockFx(start, req)
  PROVE  EngOK' /\ Edges'
<1>t. EngOK /\ Edges /\ eng \in EngType /\ Combos \in Nat /\ Combos > 0 /\ eng' \in EngType
  BY DumpAssumption DEF Inv, EngOK, EngType, ClockFx
<1>m. /\ abortL' \in BOOLEAN /\ mode' \in BOOLEAN /\ powered' \in BOOLEAN /\ fw' = fw
      /\ (Busy /\ mode => mode' = TRUE) /\ (~Busy => mode' = FALSE)
  BY <1>t DEF ClockFx, EngOK
<1>e. EngFx(start)
  BY DEF ClockFx
<1>0. go' \in BOOLEAN /\ fin' \in BOOLEAN
  BY <1>t, <1>e DEF EngFx, EngOK
<1>1. eng'.rdStart => eng'.ss = "PATH"
  BY <1>t, <1>e DEF EngFx, EngOK, EngSame, EngEnds, EngBecomes
<1>2. eng'.ss \in {"PATH", "GO", "RUN"} => eng'.skip \/ eng'.tries <= Combos
  BY <1>t, <1>e DEF EngFx, EngOK, EngType, EngSame, EngEnds, EngBecomes
<1>3. eng'.ss \in {"WAKE", "PATH", "GO", "RUN"} \/ (eng'.ss = "END" /\ ~eng'.failed) => mode'
  BY <1>t, <1>e, <1>m DEF EngFx, EngOK, EngSame, EngEnds, EngBecomes, Busy
<1>4. EngOK'
  BY <1>t, <1>m, <1>0, <1>1, <1>2, <1>3, Zenon DEF EngOK, EngType
<1>5. Edges'
  BY <1>t, <1>e, <1>m, <1>0 DEF EngFx, EngOK, Edges, EngSame, EngEnds, EngBecomes
<1> QED BY <1>4, <1>5

\* What a dump has is kept while the writer is at it.
LEMMA RunHolds ==
  ASSUME Inv, NEW start, NEW req, ClockFx(start, req)
  PROVE  /\ Running' => /\ Running /\ eng'.save = eng.save /\ eng'.skip = eng.skip
                        /\ TotalBytes' = TotalBytes /\ Expected' = Expected
                        /\ ChunkLen(TotalBytes)' = ChunkLen(TotalBytes)
         /\ InDump' /\ eng.ss # "WAKE" => InDump /\ eng'.save = eng.save
         /\ InDump' => Busy /\ eng'.save = eng.save /\ TotalBytes' = TotalBytes
         /\ Busy' => Busy \/ mode' = FALSE
         /\ Busy => eng'.save = eng.save
<1>t. Edges /\ fw' = fw /\ EngFx(start) /\ (~Busy => mode' = FALSE) /\ go \in BOOLEAN
  BY DEF Inv, ClockFx, EngOK
<1>1. Running' => Running /\ eng'.save = eng.save /\ eng'.skip = eng.skip
  BY <1>t DEF EngFx, EngSame, EngEnds, EngBecomes, Running
<1>2. eng'.save = eng.save => /\ TotalBytes' = TotalBytes /\ Expected' = Expected
                              /\ ChunkLen(TotalBytes)' = ChunkLen(TotalBytes)
  <2> SUFFICES ASSUME eng'.save = eng.save
               PROVE  /\ TotalBytes' = TotalBytes /\ Expected' = Expected
                      /\ ChunkLen(TotalBytes)' = ChunkLen(TotalBytes)
    OBVIOUS
  <2>1. Expected' = Expected
    BY DEF Expected, SaveBytes, RomImage
  <2>2. TotalBytes' = TotalBytes
    BY <2>1 DEF TotalBytes
  <2>3. ChunkLen(TotalBytes)' = ChunkLen(TotalBytes)
    BY <2>2, <1>t DEF ChunkLen
  <2> QED BY <2>1, <2>2, <2>3
<1>3. InDump' /\ eng.ss # "WAKE" => InDump /\ eng'.save = eng.save
  BY <1>t DEF EngFx, EngSame, EngEnds, EngBecomes, InDump
<1>4. InDump' => Busy /\ eng'.save = eng.save
  BY <1>t DEF EngFx, EngSame, EngEnds, EngBecomes, InDump, Busy
<1>5. Busy' => Busy \/ mode' = FALSE
  BY <1>t DEF Busy
<1>6. Busy => eng'.save = eng.save
  BY <1>t DEF EngFx, EngSame, EngEnds, EngBecomes, Busy
<1> QED BY <1>1, <1>2, <1>3, <1>4, <1>5, <1>6, Zenon

\* A clock keeps the chunk handshake and what the writer relies on.
LEMMA HandshakeKept ==
  ASSUME Inv, NEW start, NEW req, ClockFx(start, req)
  PROVE  Handshake' /\ RunOK' /\ ChunkOK' /\ WriterOK'
<1>t. /\ ChunkOK /\ WriterOK /\ Edges /\ Handshake /\ RunOK /\ EngOK
      /\ fw' = fw /\ file' = file /\ abortL \in BOOLEAN /\ abortL' \in BOOLEAN
      /\ EngFx(start) /\ (Busy /\ abortL => abortL' = TRUE)
      /\ ChunkFx(abortL, req, ChunkLen(TotalBytes), SrcValid, SrcData)
      /\ req = fw.req \/ req = (chunk.state = "ACK")
      /\ chunk' \in [state : {"IDLE", "FILL", "FLUSH", "ACK"}, left : 0 .. ChunkBytes,
                     ready : BOOLEAN, ack : BOOLEAN]
  BY DEF Inv, ClockFx, EngOK
<1>c. /\ buffer \in Seq(Byte) /\ Len(buffer) <= ChunkBytes /\ Len(buffer) \in Nat
      /\ chunk.state \in {"IDLE", "FILL", "FLUSH", "ACK"} /\ chunk.left \in 0 .. ChunkBytes
      /\ chunk.ready \in BOOLEAN /\ chunk.ack \in BOOLEAN
      /\ chunk.ready => chunk.state = "FILL" /\ chunk.left > 0
      /\ chunk.ack => chunk.state = "ACK"
      /\ ChunkBytes \in Nat /\ SrcData \in Byte
      /\ fw.req <=> fw.state = "ASK_WAIT"
  BY <1>t, Wires, ChunkAssumption DEF ChunkOK, WriterOK
<1>n. fw.state # "IDLE" => Running /\ ChunkLen(TotalBytes) \in 0 .. ChunkBytes
  BY LengthAsked
<1>h. /\ chunk.state # "IDLE" => Running /\ (abortL \/ fw.state = "ASK_WAIT" \/ Handing)
      /\ chunk.state # "IDLE" =>
           Len(buffer) + (IF chunk.state = "FILL" THEN chunk.left ELSE 0) = ChunkLen(TotalBytes)
      /\ Handing /\ chunk.state # "IDLE" => chunk.ack
      /\ Handing => Len(buffer) = ChunkLen(TotalBytes)
  BY <1>t DEF Handshake
<1>g. Handing' = Handing
  BY <1>t DEF Handing
<1>k. /\ Running' => Running /\ eng'.save = eng.save /\ eng'.skip = eng.skip
      /\ Running' => TotalBytes' = TotalBytes /\ ChunkLen(TotalBytes)' = ChunkLen(TotalBytes)
  BY <1>t, RunHolds DEF ClockFx
<1>b. Busy /\ abortL => abortL'
  BY <1>t
<1>s. Running => Busy
  BY DEF Running, Busy
\* The chunk source in the next clock.
<1>1. chunk'.state # "IDLE" => /\ (fw.state # "IDLE" /\ ~abortL) \/ chunk.state = "IDLE"
                               /\ fw.state = "ASK_WAIT" \/ Handing
                               /\ Len(buffer') + (IF chunk'.state = "FILL" THEN chunk'.left ELSE 0)
                                    = ChunkLen(TotalBytes)
                               /\ buffer' \in Seq(Byte)
  <2>1. Len(<<>>) = 0 /\ <<>> \in Seq(Byte)
    OBVIOUS
  <2>2. Append(buffer, SrcData) \in Seq(Byte) /\ Len(Append(buffer, SrcData)) = Len(buffer) + 1
    BY <1>c
  <2>3. CASE chunk.state = "IDLE" /\ chunk'.state # "IDLE"
    <3>1. /\ fw.state = "ASK_WAIT" /\ buffer' = <<>>
          /\ chunk'.state = "FILL" /\ chunk'.left = ChunkLen(TotalBytes)
      BY <2>3, <1>t, <1>c DEF ChunkFx, ChunkBecomes
    <3> QED BY <2>3, <3>1, <2>1, <1>n
  <2>4. CASE chunk.state # "IDLE" /\ chunk'.state # "IDLE"
    <3>1. ~abortL /\ (fw.state = "ASK_WAIT" \/ Handing)
      BY <2>4, <1>t, <1>h DEF ChunkFx, ChunkBecomes
    <3>2. fw.state # "IDLE"
      BY <3>1 DEF Handing
    <3>3. Len(buffer) + (IF chunk.state = "FILL" THEN chunk.left ELSE 0) = ChunkLen(TotalBytes)
      BY <2>4, <1>h
    <3>4. /\ Len(buffer') + (IF chunk'.state = "FILL" THEN chunk'.left ELSE 0)
               = Len(buffer) + (IF chunk.state = "FILL" THEN chunk.left ELSE 0)
          /\ buffer' \in Seq(Byte)
      <4>1. CASE chunk.state = "FILL" /\ chunk.left # 0 /\ SrcValid /\ chunk.ready
        <5>1. /\ chunk'.state = "FILL" /\ chunk'.left = chunk.left - 1
              /\ buffer' = Append(buffer, SrcData)
          BY <4>1, <3>1, <1>t DEF ChunkFx, ChunkBecomes
        <5>2. Len(buffer') = Len(buffer) + 1 /\ buffer' \in Seq(Byte)
          BY <5>1, <2>2, Zenon
        <5>3. chunk'.left + 1 = chunk.left /\ chunk'.left \in Nat
          BY <5>1, <4>1, <1>c
        <5>4. Len(buffer') + chunk'.left = Len(buffer) + chunk.left
          BY <5>2, <5>3, <1>c
        <5> QED BY <5>1, <5>2, <5>4, <4>1
      <4>2. CASE ~(chunk.state = "FILL" /\ chunk.left # 0 /\ SrcValid /\ chunk.ready)
        <5>1. /\ buffer' = buffer
              /\ chunk'.state = "FILL" /\ chunk.state = "FILL" => chunk'.left = chunk.left
              /\ chunk.state = "FILL" /\ chunk'.state # "FILL" => chunk.left = 0
              /\ chunk.state # "FILL" => chunk'.state # "FILL"
          BY <4>2, <2>4, <3>1, <1>t, <1>c, Zenon DEF ChunkFx, ChunkBecomes
        <5> QED BY <5>1, <1>c
      <4> QED BY <4>1, <4>2
    <3> QED BY <2>4, <3>1, <3>2, <3>3, <3>4
  <2> QED BY <2>3, <2>4
<1>2. /\ Handing /\ chunk'.state # "IDLE" => chunk'.ack
      /\ Handing => buffer' = buffer
  BY <1>t, <1>c, <1>h DEF ChunkFx, ChunkBecomes, Handing
<1>3. /\ chunk'.ready => chunk'.state = "FILL" /\ chunk'.left > 0
      /\ chunk'.ack => chunk'.state = "ACK"
  BY <1>t, <1>c DEF ChunkFx, ChunkBecomes
<1>4. buffer' \in Seq(Byte) /\ Len(buffer') <= ChunkBytes
  <2>1. CASE chunk'.state # "IDLE"
    <3>1. fw.state # "IDLE"
      BY <2>1, <1>1 DEF Handing
    <3>2. Len(buffer') \in Nat /\ ChunkLen(TotalBytes) \in 0 .. ChunkBytes
      BY <2>1, <3>1, <1>1, <1>n
    <3> QED BY <2>1, <3>2, <1>1, <1>t, <1>c
  <2>2. CASE chunk'.state = "IDLE"
    BY <2>2, <1>t, <1>c DEF ChunkFx, ChunkBecomes
  <2> QED BY <2>1, <2>2
<1>5. Edges'
  BY SequencerKept, Zenon DEF ClockFx
<1>6. fw.state # "IDLE" => Running'
  BY <1>5, <1>t DEF Edges, Running
<1>7. Handshake'
  <2>1. chunk'.state # "IDLE" =>
          /\ Running'
          /\ abortL' \/ fw'.state = "ASK_WAIT" \/ Handing'
          /\ Len(buffer') + (IF chunk'.state = "FILL" THEN chunk'.left ELSE 0) = ChunkLen(TotalBytes)'
    BY <1>1, <1>6, <1>k, <1>g, <1>t DEF Handing
  <2>2. Handing' /\ chunk'.state # "IDLE" => chunk'.ack
    BY <1>2, <1>g
  <2>3. Handing' => Len(buffer') = ChunkLen(TotalBytes)'
    BY <1>2, <1>g, <1>h, <1>6, <1>k DEF Handing
  <2> QED BY <2>1, <2>2, <2>3, Zenon DEF Handshake
<1>8. RunOK'
  <2> SUFFICES ASSUME Running' PROVE RunOK'
    BY Zenon DEF RunOK
  <2>1. Running /\ Busy /\ TotalBytes' = TotalBytes /\ eng'.skip = eng.skip
    BY <1>k, <1>s
  <2> QED BY <2>1, <1>t, <1>b, <1>g DEF RunOK
<1>9. ChunkOK'
  BY <1>t, <1>3, <1>4, Zenon DEF ChunkOK
<1>10. WriterOK'
  <2>1. Longest' = Longest
    BY DEF Longest, SaveBytes, RomImage
  <2> QED BY <2>1, <1>t DEF WriterOK
<1> QED BY <1>7, <1>8, <1>9, <1>10

\* A clock keeps the readers, the bus and the cartridge consistent.
LEMMA UnitsKept ==
  ASSUME Inv, NEW start, NEW req, ClockFx(start, req)
  PROVE  SaveOK' /\ RomOK' /\ BusOK' /\ CartOK'
<1>t. SaveOK /\ RomOK /\ BusOK /\ CartOK
  BY Zenon DEF Inv
<1>w. /\ busDone \in BOOLEAN /\ BusRead \in Byte /\ chunk.ready \in BOOLEAN
      /\ abortL \in BOOLEAN /\ mode \in BOOLEAN /\ powered \in BOOLEAN
      /\ (RdStart /\ eng.save) \in BOOLEAN /\ (RdStart /\ ~eng.save) \in BOOLEAN
      /\ BusReq \in BOOLEAN /\ TransferOK(BusTransfer)
  BY Wires, Zenon
<1>f. /\ SaveFx(RdStart /\ eng.save, abortL, busDone, BusRead, chunk.ready)
      /\ RomFx(RdStart /\ ~eng.save, abortL, busDone, BusRead, chunk.ready)
      /\ BusClock(mode, BusReq, BusTransfer) /\ CartFx
  BY Zenon DEF ClockFx
<1>1. SaveOK'
  <2>1. save' \in SaveType
    BY Zenon DEF ClockFx
  <2> QED BY <2>1, <1>t, <1>w, <1>f, SaveKept, Zenon
<1>2. RomOK'
  <2>1. romRd' \in RomType
    BY Zenon DEF ClockFx
  <2> QED BY <2>1, <1>t, <1>w, <1>f, RomKept, Zenon
<1>3. BusOK'
  BY <1>t, <1>w, <1>f, BusKept, Zenon
<1>4. CartOK'
  BY <1>t, <1>w, <1>f, CartKept, Zenon
<1> QED BY <1>1, <1>2, <1>3, <1>4

\* The reader of a dump and the bus stay together, and so do the bus and the
\* cartridge.
LEMMA BusHeld ==
  ASSUME Inv, NEW start, NEW req, ClockFx(start, req)
  PROVE  Coupled' /\ Latched'
<1>t. /\ SaveOK /\ RomOK /\ BusOK /\ CartOK /\ Coupled /\ Latched /\ EngOK
      /\ SaveOK' /\ RomOK' /\ BusOK'
  BY UnitsKept, Zenon DEF Inv
<1>w. /\ busDone \in BOOLEAN /\ BusRead \in Byte /\ chunk.ready \in BOOLEAN
      /\ abortL \in BOOLEAN /\ mode \in BOOLEAN /\ powered \in BOOLEAN
      /\ (RdStart /\ eng.save) \in BOOLEAN /\ (RdStart /\ ~eng.save) \in BOOLEAN
      /\ BusReq \in BOOLEAN /\ TransferOK(BusTransfer) /\ eng.save \in BOOLEAN
  BY Wires, Zenon
<1>f. /\ SaveFx(RdStart /\ eng.save, abortL, busDone, BusRead, chunk.ready)
      /\ RomFx(RdStart /\ ~eng.save, abortL, busDone, BusRead, chunk.ready)
      /\ BusClock(mode, BusReq, BusTransfer) /\ CartFx
      /\ (Busy /\ (abortL \/ ~powered) => abortL' = TRUE)
      /\ mode' \in BOOLEAN /\ (~Busy => mode' = FALSE)
  BY Zenon DEF ClockFx
<1>b. Connected' => Busy /\ mode' = TRUE /\ eng'.save = eng.save
  BY <1>f, RunHolds DEF Connected
<1>1. Connected' /\ eng'.save => SaveOnBus'
  <2> SUFFICES ASSUME Connected', eng'.save PROVE SaveOnBus'
    OBVIOUS
  <2>1. eng.save /\ Busy
    BY <1>b
  <2>2. SaveOnBus \/ ~mode
    BY <2>1, <1>t DEF Coupled, Connected, SaveOnBus
  <2>3. BusClock(mode, save.req, save.transfer)
    BY <1>f, <2>1, Zenon DEF BusReq, BusTransfer
  <2>4. /\ save.state \in SaveWaiting /\ ~busDone =>
              save'.state = save.state /\ save'.transfer = save.transfer /\ ~save'.req
        /\ save.state \in SaveWaiting /\ busDone => save'.state \notin SaveWaiting /\ ~save'.req
    BY <1>t, <1>w, <1>f, SaveHolds, Zenon
  <2> QED BY <2>2, <2>3, <2>4, <1>t, <1>w, SaveCoupled, Zenon
<1>2. Connected' /\ ~eng'.save /\ ~abortL' => RomOnBus'
  <2> SUFFICES ASSUME Connected', ~eng'.save, ~abortL' PROVE RomOnBus'
    OBVIOUS
  <2>1. ~eng.save /\ Busy /\ abortL = FALSE
    BY <1>b, <1>f, <1>w
  <2>2. RomOnBus \/ ~mode
    BY <2>1, <1>t DEF Coupled, Connected, RomOnBus
  <2>3. BusClock(mode, romRd.req, romRd.transfer)
    BY <1>f, <2>1, Zenon DEF BusReq, BusTransfer
  <2>4. RomFx(RdStart /\ ~eng.save, FALSE, busDone, BusRead, chunk.ready)
    BY <1>f, <2>1, Zenon
  <2>5. /\ romRd.state \in RomWaiting /\ ~busDone =>
              romRd'.state = romRd.state /\ romRd'.transfer = romRd.transfer /\ ~romRd'.req
        /\ romRd.state \in RomWaiting /\ busDone => romRd'.state \notin RomWaiting /\ ~romRd'.req
    BY <2>4, <1>t, <1>w, RomHolds, Zenon
  <2> QED BY <2>2, <2>3, <2>5, <1>t, <1>w, RomCoupled, Zenon
<1>3. Coupled'
  BY <1>1, <1>2, Zenon DEF Coupled, SaveOnBus, RomOnBus
<1>4. Latched'
  <2> SUFFICES ASSUME Connected', Landed'
               PROVE  LatchedZero' /\ (~abortL' => LatchedAll')
    BY DEF Latched, LatchedZero, LatchedAll
  <2>1. Busy /\ (~abortL' => powered /\ ~abortL)
    BY <1>b, <1>f, <1>w
  <2>2. /\ mode /\ Landed => LatchedZero
        /\ mode /\ Landed /\ ~abortL => LatchedAll
    BY <2>1, <1>t DEF Latched, LatchedZero, LatchedAll, Connected
  <2> QED BY <2>1, <2>2, <1>t, <1>w, <1>f, LatchedKept, Zenon
<1> QED BY <1>3, <1>4

-----------------------------------------------------------------------------
(* The bytes on their way *)

\* A byte goes from the reader to the chunk source.
Given == IF SrcValid /\ chunk.ready THEN 1 ELSE 0

OwnOK == SaveOK /\ RomOK /\ eng.save \in BOOLEAN
OwnBounds ==
  /\ OwnRest \in Nat /\ OwnLeft \in Nat /\ OwnLeft <= OwnRest /\ OwnRest <= TotalBytes
  /\ SaveLeft \in Nat /\ SaveRest \in Nat /\ SaveLeft <= SaveRest /\ SaveRest <= SaveTotal
  /\ RomRest \in Nat /\ RomRest <= RomTotal
  /\ save.state = "EMIT" => SaveRest > 0
  /\ romRd.state = "EMIT" => RomRest > 0

\* The bytes before the reader of this dump.
LEMMA OwnRange == OwnOK => OwnBounds
<1> SUFFICES ASSUME OwnOK PROVE OwnBounds
  OBVIOUS
<1>t. SaveOK /\ RomOK /\ eng.save \in BOOLEAN
  BY DEF OwnOK
<1>1. /\ SaveLeft \in Nat /\ SaveRest \in Nat /\ SaveLeft <= SaveRest /\ SaveRest <= SaveTotal
      /\ RomRest \in Nat /\ RomRest <= RomTotal
  BY <1>t, SaveRange, RomRange
<1>2. save.state = "EMIT" => SaveRest > 0
  <2> SUFFICES ASSUME save.state = "EMIT" PROVE SaveRest > 0
    OBVIOUS
  <2>1. SavePos \in Nat /\ SavePos < SaveTotal /\ SaveTotal \in Nat /\ ~save.restore
    BY <1>t, SaveRange DEF SavePassing, SaveOK
  <2> QED BY <2>1 DEF SaveRest, SavePassing, SaveClosing
<1>3. romRd.state = "EMIT" => RomRest > 0
  <2>1. RomPos \in Nat /\ RomPos < RomTotal /\ RomTotal \in Nat
    BY <1>t, RomRange
  <2> QED BY <2>1 DEF RomRest
<1>4. CASE eng.save
  BY <1>1, <1>2, <1>3, <1>4, Totals DEF OwnRest, OwnLeft, OwnBounds
<1>5. CASE ~eng.save
  BY <1>1, <1>2, <1>3, <1>5, Totals DEF OwnRest, OwnLeft, OwnBounds
<1> QED BY <1>4, <1>5

\* The same of the next state.
LEMMA OwnRangeNext == OwnOK' => OwnBounds'
BY OwnRange, PTL

\* They are bounded before a clock and after it.
LEMMA OwnBoth ==
  ASSUME Inv, NEW start, NEW req, ClockFx(start, req)
  PROVE  OwnBounds /\ OwnBounds'
<1>1. OwnOK
  BY Wires, Zenon DEF OwnOK, Inv
<1>2. OwnOK'
  <2>1. eng'.save \in BOOLEAN
    BY DEF ClockFx, EngType
  <2> QED BY <2>1, UnitsKept, Zenon DEF OwnOK
<1> QED BY <1>1, <1>2, OwnRange, OwnRangeNext

\* The bytes of the save reader through one clock of the dump.
LEMMA SaveFlow ==
  ASSUME Inv, NEW start, NEW req, ClockFx(start, req)
  PROVE  /\ save.state = "IDLE" /\ RdStart /\ eng.save =>
              SaveRest' = SaveTotal /\ ~save'.abort
         /\ ~(save.state = "IDLE" /\ RdStart /\ eng.save) =>
              /\ SaveLeft' <= SaveLeft
              /\ save.state = "EMIT" /\ chunk.ready => SaveLeft' < SaveLeft
              /\ abortL => SaveLeft' <= 1
              /\ \/ SaveRest' = SaveRest - (IF save.state = "EMIT" /\ chunk.ready THEN 1 ELSE 0)
                 \/ save.abort /\ SaveRest # 0 /\ SaveLeft' = 0
<1> DEFINE st == RdStart /\ eng.save
<1>1. /\ SaveFx(st, abortL, busDone, BusRead, chunk.ready) /\ SaveOK /\ SaveOK'
      /\ busDone \in BOOLEAN /\ BusRead \in Byte /\ chunk.ready \in BOOLEAN
      /\ abortL \in BOOLEAN /\ st \in BOOLEAN
  BY Wires, UnitsKept, Zenon DEF ClockFx, Inv
<1>2. st <=> RdStart /\ eng.save
  OBVIOUS
<1> HIDE DEF st
<1>3. /\ save.state = "IDLE" /\ st => SaveRest' = SaveTotal /\ ~save'.abort
      /\ ~(save.state = "IDLE" /\ st) =>
           /\ SaveLeft' <= SaveLeft
           /\ save.state = "EMIT" /\ chunk.ready => SaveLeft' < SaveLeft
           /\ abortL => SaveLeft' <= 1
           /\ \/ SaveRest' = SaveRest - (IF save.state = "EMIT" /\ chunk.ready THEN 1 ELSE 0)
              \/ save.abort /\ SaveRest # 0 /\ SaveLeft' = 0
  BY <1>1, SaveCounts, Zenon
<1> QED BY <1>2, <1>3, Zenon

\* The bytes of the ROM reader through one clock of the dump.
LEMMA RomFlow ==
  ASSUME Inv, NEW start, NEW req, ClockFx(start, req)
  PROVE  /\ abortL => RomRest' = 0
         /\ ~abortL /\ romRd.state = "IDLE" /\ RdStart /\ ~eng.save => RomRest' = RomTotal
         /\ ~abortL /\ ~(romRd.state = "IDLE" /\ RdStart /\ ~eng.save) =>
              RomRest' = RomRest - (IF romRd.state = "EMIT" /\ chunk.ready THEN 1 ELSE 0)
<1> DEFINE st == RdStart /\ ~eng.save
<1>1. /\ RomFx(st, abortL, busDone, BusRead, chunk.ready) /\ RomOK /\ RomOK'
      /\ busDone \in BOOLEAN /\ BusRead \in Byte /\ chunk.ready \in BOOLEAN
      /\ abortL \in BOOLEAN /\ st \in BOOLEAN
  BY Wires, UnitsKept, Zenon DEF ClockFx, Inv
<1>2. st <=> RdStart /\ ~eng.save
  OBVIOUS
<1> HIDE DEF st
<1>3. /\ abortL => RomRest' = 0
      /\ ~abortL /\ romRd.state = "IDLE" /\ st => RomRest' = RomTotal
      /\ ~abortL /\ ~(romRd.state = "IDLE" /\ st) =>
           RomRest' = RomRest - (IF romRd.state = "EMIT" /\ chunk.ready THEN 1 ELSE 0)
  BY <1>1, RomCounts, Zenon
<1> QED BY <1>2, <1>3, Zenon

\* What a reader has left shrinks by the byte it gives, or is lost.
LEMMA OwnFlow ==
  ASSUME Inv, NEW start, NEW req, ClockFx(start, req), eng'.save = eng.save, ~RdStart
  PROVE  /\ OwnLeft' <= OwnLeft - Given
         /\ \/ OwnRest' = OwnRest - Given
            \/ OwnRest # 0 /\ OwnLeft' = 0 /\ (abortL \/ (eng.save /\ save.abort))
<1>t. /\ SaveOK /\ RomOK /\ eng.save \in BOOLEAN /\ chunk.ready \in BOOLEAN
      /\ abortL \in BOOLEAN
  BY Wires, Zenon DEF Inv
<1>b. OwnBounds /\ OwnBounds'
  BY OwnBoth
<1>1. CASE eng.save
  <2>1. Given = IF save.state = "EMIT" /\ chunk.ready THEN 1 ELSE 0
    BY <1>1, <1>t DEF Given, SrcValid, SaveOK
  <2>2. /\ OwnLeft = SaveLeft /\ OwnLeft' = SaveLeft'
        /\ OwnRest = SaveRest /\ OwnRest' = SaveRest'
    BY <1>1 DEF OwnLeft, OwnRest
  <2>3. SaveLeft \in Nat /\ SaveLeft' \in Nat /\ SaveRest \in Nat /\ SaveRest' \in Nat
    BY <1>b DEF OwnBounds
  <2>4. /\ SaveLeft' <= SaveLeft
        /\ save.state = "EMIT" /\ chunk.ready => SaveLeft' < SaveLeft
        /\ \/ SaveRest' = SaveRest - (IF save.state = "EMIT" /\ chunk.ready THEN 1 ELSE 0)
           \/ save.abort /\ SaveRest # 0 /\ SaveLeft' = 0
    BY SaveFlow, Zenon
  <2>5. OwnLeft' <= OwnLeft - Given
    <3>1. CASE save.state = "EMIT" /\ chunk.ready
      <4>1. Given = 1 /\ SaveLeft' < SaveLeft
        BY <3>1, <2>1, <2>4, Zenon
      <4> QED BY <4>1, <2>2, <2>3
    <3>2. CASE ~(save.state = "EMIT" /\ chunk.ready)
      <4>1. Given = 0
        BY <3>2, <2>1, Zenon
      <4> QED BY <4>1, <2>2, <2>3, <2>4
    <3> QED BY <3>1, <3>2
  <2>6. OwnRest' = OwnRest - Given \/ (save.abort /\ OwnRest # 0 /\ OwnLeft' = 0)
    BY <2>1, <2>2, <2>4, Zenon
  <2> QED BY <2>5, <2>6, <1>1, Zenon
<1>2. CASE ~eng.save
  <2>1. Given = IF romRd.state = "EMIT" /\ chunk.ready THEN 1 ELSE 0
    BY <1>2, <1>t DEF Given, SrcValid, RomOK
  <2>2. /\ OwnLeft = RomRest /\ OwnLeft' = RomRest'
        /\ OwnRest = RomRest /\ OwnRest' = RomRest'
    BY <1>2 DEF OwnLeft, OwnRest
  <2>3. RomRest \in Nat /\ RomRest' \in Nat /\ (romRd.state = "EMIT" => RomRest > 0)
    BY <1>b DEF OwnBounds
  <2>4. /\ abortL => RomRest' = 0
        /\ ~abortL => RomRest' = RomRest - (IF romRd.state = "EMIT" /\ chunk.ready THEN 1 ELSE 0)
    BY RomFlow, Zenon
  <2>5. OwnLeft' <= OwnLeft - Given
    <3>1. CASE romRd.state = "EMIT" /\ chunk.ready
      <4>1. Given = 1 /\ RomRest > 0 /\ (~abortL => RomRest' = RomRest - 1)
        BY <3>1, <2>1, <2>3, <2>4, Zenon
      <4> QED BY <4>1, <2>2, <2>3, <2>4, <1>t
    <3>2. CASE ~(romRd.state = "EMIT" /\ chunk.ready)
      <4>1. Given = 0 /\ (~abortL => RomRest' = RomRest - 0)
        BY <3>2, <2>1, <2>4, Zenon
      <4> QED BY <4>1, <2>2, <2>3, <2>4, <1>t
    <3> QED BY <3>1, <3>2
  <2>6. \/ OwnRest' = OwnRest - Given
        \/ OwnRest # 0 /\ OwnLeft' = 0 /\ abortL
    BY <2>1, <2>2, <2>3, <2>4, <1>t
  <2> QED BY <2>5, <2>6, Zenon
<1> QED BY <1>1, <1>2

\* The bytes that have left the reader are a number.
LEMMA SentIs ==
  ASSUME Inv
  PROVE  /\ Sent \in Nat /\ fw.written \in Nat /\ Len(buffer) \in Nat
         /\ eng.ss = "RUN" /\ ~go => fw.written <= Sent
<1>1. fw.written \in Nat /\ Len(buffer) \in Nat
  BY DEF Inv, WriterOK, ChunkOK
<1> QED BY <1>1 DEF Sent

\* The bytes that have left it grow by no more than the byte it gives, and
\* not at all under an abort.
LEMMA SentFlow ==
  ASSUME Inv, NEW start, NEW req, ClockFx(start, req), InDump, InDump'
  PROVE  /\ Sent \in Nat /\ Sent' \in Nat /\ Given \in {0, 1}
         /\ Sent' <= Sent + Given
         /\ abortL => Sent' <= Sent
<1>t. /\ Edges /\ Handshake /\ EngOK /\ fw' = fw /\ EngFx(start) /\ abortL \in BOOLEAN
      /\ ChunkFx(abortL, req, ChunkLen(TotalBytes), SrcValid, SrcData)
      /\ req = fw.req \/ req = (chunk.state = "ACK")
  BY Zenon DEF Inv, ClockFx, EngOK
<1>c. /\ buffer \in Seq(Byte) /\ Len(buffer) \in Nat /\ SrcData \in Byte
      /\ chunk.state \in {"IDLE", "FILL", "FLUSH", "ACK"}
      /\ fw.req \in BOOLEAN /\ fw.written \in Nat
      /\ fw.req <=> fw.state = "ASK_WAIT"
  BY Wires DEF Inv, ChunkOK, WriterOK
<1>0. Sent \in Nat
  BY SentIs
<1>1. CASE ~Running'
  <2>1. Sent' = 0
    BY <1>1 DEF Sent, Running
  <2> QED BY <2>1, <1>0 DEF Given
<1>2. CASE Running'
  <2>1. Running /\ eng'.ss = "RUN" /\ ~go' /\ eng.ss = "RUN" /\ ~go
    BY <1>2, RunHolds DEF Running
  <2>2. Handing' = Handing
    BY <1>t DEF Handing
  <2>3. /\ Sent = fw.written + (IF Handing \/ chunk.state # "IDLE" THEN Len(buffer) ELSE 0)
        /\ Sent' = fw.written + (IF Handing \/ chunk'.state # "IDLE" THEN Len(buffer') ELSE 0)
    BY <2>1, <2>2, <1>t DEF Sent
  <2>4. \/ buffer' = buffer /\ (chunk.state = "IDLE" => chunk'.state = "IDLE")
        \/ buffer' = <<>>
        \/ buffer' = Append(buffer, SrcData) /\ ~abortL /\ SrcValid /\ chunk.ready /\ chunk.state # "IDLE"
    BY <1>t, Zenon DEF ChunkFx, ChunkBecomes
  <2>5. CASE buffer' = buffer /\ (chunk.state = "IDLE" => chunk'.state = "IDLE")
    BY <2>5, <2>3, <1>c DEF Given
  <2>6. CASE buffer' = <<>>
    <3>1. Len(buffer') = 0
      BY <2>6
    <3> QED BY <3>1, <2>3, <1>c DEF Given
  <2>7. CASE buffer' = Append(buffer, SrcData) /\ ~abortL /\ SrcValid /\ chunk.ready /\ chunk.state # "IDLE"
    <3>1. Len(buffer') = Len(buffer) + 1
      BY <2>7, <1>c
    <3> QED BY <3>1, <2>7, <2>3, <1>c DEF Given
  <2> QED BY <2>4, <2>5, <2>6, <2>7
<1> QED BY <1>1, <1>2

-----------------------------------------------------------------------------
(* A clock of a dump *)

\* The byte a reader offers is the next one of the file.
LEMMA NextByte ==
  ASSUME Inv, Exact, ~abortL, SrcValid
  PROVE  SrcData = Expected[Sent + 1]
<1>t. /\ SaveOK /\ RomOK /\ ReaderRight /\ eng.save \in BOOLEAN /\ Sent \in Nat
      /\ OwnRest + Sent = TotalBytes
  BY Wires, SentIs, Zenon DEF Inv, Exact
<1>h. /\ eng.save /\ save.state = "EMIT" =>
           SaveRest = SaveTotal - SavePos /\ save.data = Expected[SavePos + 1]
      /\ ~eng.save /\ romRd.state = "EMIT" =>
           RomRest = RomTotal - RomPos /\ romRd.data = Expected[RomPos + 1]
  BY <1>t, HandIsRight
<1>1. CASE eng.save
  <2>1. save.state = "EMIT"
    BY <1>1, <1>t DEF SrcValid, SaveOK
  <2>2. SavePos \in Nat /\ SaveTotal \in Nat
    BY <1>t, SaveRange
  <2>3. SavePos = Sent
    BY <2>1, <2>2, <1>1, <1>t, <1>h, Totals DEF OwnRest
  <2> QED BY <2>1, <2>3, <1>1, <1>h, Zenon DEF SrcData
<1>2. CASE ~eng.save
  <2>1. romRd.state = "EMIT"
    BY <1>2, <1>t DEF SrcValid, RomOK
  <2>2. RomPos \in Nat /\ RomTotal \in Nat
    BY <1>t, RomRange
  <2>3. RomPos = Sent
    BY <2>1, <2>2, <1>2, <1>t, <1>h, Totals DEF OwnRest
  <2> QED BY <2>1, <2>3, <1>2, <1>h, Zenon DEF SrcData
<1> QED BY <1>1, <1>2

\* The file and the buffer stay right: the byte that comes is the next one.
LEMMA FileKept ==
  ASSUME Inv, Exact, NEW start, NEW req, ClockFx(start, req)
  PROVE  FileRight'
<1> SUFFICES ASSUME Running'
             PROVE  /\ \A i \in 1 .. fw'.written : file'[i] = Expected'[i]
                    /\ Handing' \/ chunk'.state # "IDLE" =>
                         \A i \in 1 .. Len(buffer') : buffer'[i] = Expected'[fw'.written + i]
  BY Zenon DEF FileRight
<1>t. /\ fw' = fw /\ file' = file /\ abortL \in BOOLEAN /\ FileRight
      /\ ChunkFx(abortL, req, ChunkLen(TotalBytes), SrcValid, SrcData)
      /\ buffer \in Seq(Byte) /\ Len(buffer) \in Nat /\ SrcData \in Byte /\ fw.written \in Nat
  BY Wires, SentIs DEF Inv, ClockFx, EngOK, ChunkOK, Exact
<1>r. Running /\ Expected' = Expected
  BY RunHolds
<1>1. /\ \A i \in 1 .. fw.written : file[i] = Expected[i]
      /\ Handing \/ chunk.state # "IDLE" =>
           \A i \in 1 .. Len(buffer) : buffer[i] = Expected[fw.written + i]
  BY <1>t, <1>r, Zenon DEF FileRight
<1>2. Handing' = Handing
  BY <1>t DEF Handing
<1>3. \/ buffer' = buffer /\ (chunk.state = "IDLE" => chunk'.state = "IDLE")
      \/ buffer' = <<>>
      \/ buffer' = Append(buffer, SrcData) /\ ~abortL /\ SrcValid /\ chunk.state # "IDLE"
  BY <1>t, Zenon DEF ChunkFx, ChunkBecomes
<1>4. ASSUME Handing' \/ chunk'.state # "IDLE"
      PROVE  \A i \in 1 .. Len(buffer') : buffer'[i] = Expected[fw.written + i]
  <2>1. CASE buffer' = buffer /\ (chunk.state = "IDLE" => chunk'.state = "IDLE")
    BY <2>1, <1>4, <1>1, <1>2
  <2>2. CASE buffer' = <<>>
    BY <2>2
  <2>3. CASE buffer' = Append(buffer, SrcData) /\ ~abortL /\ SrcValid /\ chunk.state # "IDLE"
    <3>1. SrcData = Expected[Sent + 1]
      BY <2>3, NextByte
    <3>2. Sent = fw.written + Len(buffer)
      BY <2>3, <1>r DEF Sent, Running
    <3>3. \A i \in 1 .. Len(buffer) : buffer[i] = Expected[fw.written + i]
      BY <2>3, <1>1
    <3>4. Len(buffer') = Len(buffer) + 1 /\ buffer'[Len(buffer) + 1] = SrcData
          /\ \A i \in 1 .. Len(buffer) : buffer'[i] = buffer[i]
      BY <2>3, <1>t
    <3>5. Expected[fw.written + (Len(buffer) + 1)] = SrcData
      BY <3>1, <3>2, <1>t
    <3> QED BY <3>3, <3>4, <3>5, <1>t
  <2> QED BY <1>3, <2>1, <2>2, <2>3
<1> QED BY <1>1, <1>4, <1>t, <1>r, Zenon

\* A reader that is right stays right.
LEMMA ReaderKept ==
  ASSUME Inv, ReaderRight, NEW start, NEW req, ClockFx(start, req),
         Busy, mode, eng'.save = eng.save, ~RdStart
  PROVE  ReaderRight'
<1> SUFFICES ASSUME ~abortL' PROVE IF eng.save THEN SaveRight' ELSE RomRight'
  BY Zenon DEF ReaderRight
<1>t. /\ SaveOK /\ RomOK /\ BusOK /\ CartOK /\ Coupled /\ Latched
      /\ SaveOK' /\ RomOK' /\ eng.save \in BOOLEAN
      /\ busDone \in BOOLEAN /\ BusRead \in Byte /\ chunk.ready \in BOOLEAN
  BY UnitsKept, Wires, Zenon DEF Inv
<1>f. /\ SaveFx(RdStart /\ eng.save, abortL, busDone, BusRead, chunk.ready)
      /\ RomFx(RdStart /\ ~eng.save, abortL, busDone, BusRead, chunk.ready)
      /\ CartFx /\ (Busy /\ (abortL \/ ~powered) => abortL' = TRUE)
  BY Zenon DEF ClockFx
<1>1. powered /\ abortL = FALSE /\ Connected
  BY <1>f, Wires DEF Connected
<1>2. (RdStart /\ eng.save) = FALSE /\ (RdStart /\ ~eng.save) = FALSE
  OBVIOUS
<1>3. SaveFx(FALSE, FALSE, busDone, BusRead, chunk.ready)
      /\ RomFx(FALSE, FALSE, busDone, BusRead, chunk.ready)
  BY <1>f, <1>1, <1>2
<1>4. Landed => LatchedAll
  BY <1>t, <1>1 DEF Latched, LatchedAll
<1>5. ReaderRight /\ ~abortL
  BY <1>1
<1>6. CASE eng.save
  <2>1. SaveOnBus /\ SaveRight
    BY <1>6, <1>t, <1>1, <1>5 DEF Coupled, SaveOnBus, ReaderRight
  <2>2. SaveRight'
    BY <2>1, <1>t, <1>f, <1>1, <1>3, <1>4, SaveRightKept, Zenon DEF LatchedAll
  <2> QED BY <2>2, <1>6
<1>7. CASE ~eng.save
  <2>1. RomOnBus /\ RomRight
    BY <1>7, <1>t, <1>1, <1>5 DEF Coupled, RomOnBus, ReaderRight
  <2>2. RomRight'
    BY <2>1, <1>t, <1>f, <1>1, <1>3, <1>4, RomRightKept, Zenon DEF LatchedAll
  <2> QED BY <2>2, <1>7
<1> QED BY <1>6, <1>7

\* A save reader past its last byte undoes what it did.
LEMMA UndoneKept ==
  ASSUME Inv, SaveUndone, NEW start, NEW req, ClockFx(start, req),
         Busy, mode, eng'.save = eng.save, ~RdStart,
         eng.save => SaveRest' = SaveRest - (IF save.state = "EMIT" /\ chunk.ready THEN 1 ELSE 0)
  PROVE  SaveUndone'
<1> SUFFICES ASSUME eng.save PROVE SaveBack'
  BY Zenon DEF SaveUndone, SaveBack
<1>t. /\ SaveOK /\ BusOK /\ CartOK /\ Coupled /\ Latched
      /\ SaveOK' /\ CartOK'
      /\ busDone \in BOOLEAN /\ BusRead \in Byte /\ chunk.ready \in BOOLEAN /\ abortL \in BOOLEAN
  BY UnitsKept, Wires, Zenon DEF Inv
<1>f. /\ SaveFx(RdStart /\ eng.save, abortL, busDone, BusRead, chunk.ready) /\ CartFx
  BY Zenon DEF ClockFx
<1>2. (RdStart /\ eng.save) = FALSE
  OBVIOUS
<1>3. SaveFx(FALSE, abortL, busDone, BusRead, chunk.ready)
  BY <1>f, <1>2
<1>4. SaveOnBus /\ (Landed => LatchedZero)
  BY <1>t DEF Coupled, Latched, Connected, SaveOnBus, LatchedZero
<1>5. SaveBack
  BY DEF SaveUndone, SaveBack
<1>6. SaveRest' = SaveRest - (IF save.state = "EMIT" /\ chunk.ready THEN 1 ELSE 0)
  OBVIOUS
<1> QED BY <1>t, <1>f, <1>3, <1>4, <1>5, <1>6, SaveBackKept, Zenon DEF LatchedZero

-----------------------------------------------------------------------------
(* A clock keeps the books *)

\* What a clock does to the sum of what is left and what has left.
LEMMA Sum ==
  ASSUME Inv, NEW start, NEW req, ClockFx(start, req), InDump, InDump', ~RdStart
  PROVE  /\ OwnLeft + Sent < TotalBytes => OwnLeft' + Sent' < TotalBytes
         /\ OwnRest + Sent = TotalBytes /\ OwnRest' = OwnRest - Given =>
              OwnRest' + Sent' = TotalBytes \/ OwnLeft' + Sent' < TotalBytes
         /\ OwnRest + Sent = TotalBytes /\ OwnRest # 0 /\ OwnLeft' = 0 /\ abortL =>
              OwnLeft' + Sent' < TotalBytes
<1> DEFINE l1 == OwnLeft' r1 == OwnRest' s1 == Sent'
<1>1. eng'.save = eng.save
  BY RunHolds, Zenon
<1>2. /\ OwnBounds /\ OwnBounds' /\ Sent \in Nat /\ s1 \in Nat /\ Given \in {0, 1}
      /\ s1 <= Sent + Given /\ (abortL => s1 <= Sent)
      /\ l1 <= OwnLeft - Given /\ TotalBytes \in Nat
  BY <1>1, OwnBoth, OwnFlow, SentFlow, Totals, Zenon
<1>3. /\ OwnLeft \in Nat /\ l1 \in Nat /\ OwnRest \in Nat /\ r1 \in Nat /\ l1 <= r1
  BY <1>2, Zenon DEF OwnBounds
<1> HIDE DEF l1, r1, s1
<1>4. OwnLeft + Sent < TotalBytes => l1 + s1 < TotalBytes
  BY <1>2, <1>3
<1>5. OwnRest + Sent = TotalBytes /\ r1 = OwnRest - Given =>
        r1 + s1 = TotalBytes \/ l1 + s1 < TotalBytes
  BY <1>2, <1>3
<1>6. OwnRest + Sent = TotalBytes /\ OwnRest # 0 /\ l1 = 0 /\ abortL => l1 + s1 < TotalBytes
  BY <1>2, <1>3
<1> QED BY <1>4, <1>5, <1>6, Zenon DEF l1, r1, s1

\* A dump that is short stays so.
LEMMA ShortKept ==
  ASSUME Inv, Short, NEW start, NEW req, ClockFx(start, req), InDump, InDump', ~RdStart
  PROVE  Short'
<1>1. eng'.save = eng.save /\ TotalBytes' = TotalBytes
  BY RunHolds, Zenon
<1>4. OwnLeft' + Sent' < TotalBytes
  BY Sum, Zenon DEF Short
<1> QED BY <1>1, <1>4, Zenon DEF Short

\* An exact dump stays exact or becomes short.
LEMMA ExactKept ==
  ASSUME Inv, Exact, NEW start, NEW req, ClockFx(start, req), InDump, InDump', ~RdStart
  PROVE  Short' \/ Exact'
<1>1. eng'.save = eng.save /\ TotalBytes' = TotalBytes /\ Busy
  BY RunHolds, Zenon
<1>2. \/ OwnRest' = OwnRest - Given
      \/ OwnRest # 0 /\ OwnLeft' = 0 /\ (abortL \/ (eng.save /\ save.abort))
  BY <1>1, OwnFlow, Zenon
<1>3. OwnRest + Sent = TotalBytes
  BY Zenon DEF Exact
<1>m. mode = TRUE
  BY DEF InDump, Inv, EngOK
<1>4. CASE OwnRest' = OwnRest - Given
  <2>1. OwnRest' + Sent' = TotalBytes \/ OwnLeft' + Sent' < TotalBytes
    BY <1>3, <1>4, Sum, Zenon
  <2>2. CASE OwnLeft' + Sent' < TotalBytes
    BY <2>2, <1>1, Zenon DEF Short
  <2>3. CASE OwnRest' + Sent' = TotalBytes
    <3>1. FileRight'
      BY FileKept, Zenon
    <3>2. ReaderRight'
      BY ReaderKept, <1>1, <1>m DEF Exact
    <3>3. SaveUndone'
      <4>1. eng.save => SaveRest' = SaveRest - (IF save.state = "EMIT" /\ chunk.ready THEN 1 ELSE 0)
        <5> SUFFICES ASSUME eng.save
                     PROVE  SaveRest' = SaveRest - (IF save.state = "EMIT" /\ chunk.ready THEN 1 ELSE 0)
          OBVIOUS
        <5>1. OwnRest = SaveRest /\ OwnRest' = SaveRest'
          BY <1>1 DEF OwnRest
        <5>2. SrcValid <=> save.state = "EMIT"
          BY DEF SrcValid, Inv, SaveOK
        <5>3. Given = IF save.state = "EMIT" /\ chunk.ready THEN 1 ELSE 0
          BY <5>2, Zenon DEF Given
        <5> QED BY <5>1, <5>3, <1>4, Zenon
      <4> QED BY <4>1, UndoneKept, <1>1, <1>m DEF Exact
    <3> QED BY <2>3, <3>1, <3>2, <3>3, <1>1, Zenon DEF Exact
  <2> QED BY <2>1, <2>2, <2>3
<1>5. CASE OwnRest # 0 /\ OwnLeft' = 0 /\ (abortL \/ (eng.save /\ save.abort))
  <2>1. abortL
    BY <1>5 DEF Exact, ReaderRight, SaveRight
  <2>2. OwnLeft' + Sent' < TotalBytes
    BY <2>1, <1>3, <1>5, Sum, Zenon
  <2> QED BY <2>2, <1>1, Zenon DEF Short
<1> QED BY <1>2, <1>4, <1>5, Zenon

\* The reader starts, in the clock after WAKE.
LEMMA DumpBegins ==
  ASSUME Inv, NEW start, NEW req, ClockFx(start, req), RdStart
  PROVE  Short' \/ Exact'
<1>1. /\ eng.ss = "PATH" /\ eng.rdStart /\ InDump /\ ~Running
      /\ eng'.ss \in {"PATH", "GO"} /\ eng'.rdStart = FALSE /\ eng'.save = eng.save
  BY DEF RdStart, ClockFx, EngFx, EngBecomes, EngSame, EngEnds, InDump, Running
<1>2. ~Running' /\ InDump' /\ TotalBytes' = TotalBytes
  BY <1>1, RunHolds DEF Running, InDump
<1>3. Sent = 0 /\ Sent' = 0
  BY <1>1 DEF Sent
<1>4. Short
  BY <1>1 DEF Inv, Books
<1>b. OwnBounds /\ OwnBounds' /\ TotalBytes \in Nat /\ abortL \in BOOLEAN
  BY OwnBoth, Totals, Wires, Zenon
<1>f. /\ FileRight'
      /\ (RdStart /\ eng.save) \in BOOLEAN
  BY <1>2, Zenon DEF FileRight
<1>5. OwnLeft < TotalBytes
  <2>1. OwnLeft \in Nat
    BY <1>b DEF OwnBounds
  <2> QED BY <2>1, <1>3, <1>4 DEF Short
<1>6. ASSUME OwnLeft' < TotalBytes PROVE Short'
  <2>1. OwnLeft' \in Nat
    BY <1>b DEF OwnBounds
  <2>2. OwnLeft' + 0 < TotalBytes
    <3> DEFINE l == OwnLeft'
    <3>1. l \in Nat /\ l < TotalBytes
      BY <2>1, <1>6
    <3> HIDE DEF l
    <3>2. l + 0 < TotalBytes
      BY <3>1, <1>b
    <3> QED BY <3>2 DEF l
  <2> QED BY <2>2, <1>2, <1>3, Zenon DEF Short
<1>7. ASSUME OwnRest' = TotalBytes PROVE OwnRest' + Sent' = TotalBytes'
  <2>1. TotalBytes + 0 = TotalBytes
    BY <1>b
  <2> QED BY <2>1, <1>7, <1>2, <1>3, Zenon
<1>8. CASE eng.save
  <2>1. OwnLeft = SaveLeft /\ OwnLeft' = SaveLeft' /\ OwnRest' = SaveRest'
        /\ TotalBytes = SaveTotal
    BY <1>8, <1>1, Totals DEF OwnLeft, OwnRest
  <2>2. CASE save.state = "IDLE"
    <3>1. SaveRest' = SaveTotal /\ ~save'.abort
      BY <2>2, <1>8, SaveFlow, Zenon
    <3>2. save'.state = "PROBE_RD"
      BY <2>2, <1>8 DEF ClockFx, SaveFx, SaveFxIdle, SaveBecomes
    <3>3. SaveUndone'
      <4>1. SaveRest' # 0
        BY <3>1, Totals
      <4> QED BY <4>1, Zenon DEF SaveUndone
    <3>4. ReaderRight'
      BY <3>1, <3>2, <1>8, <1>1 DEF ReaderRight, SaveRight, SavePassing
    <3> QED BY <3>1, <3>3, <3>4, <2>1, <1>7, <1>f, Zenon DEF Exact
  <2>3. CASE save.state # "IDLE"
    <3>1. SaveLeft' <= SaveLeft
      BY <2>3, SaveFlow, Zenon
    <3>2. SaveLeft' \in Nat /\ SaveLeft \in Nat
      BY <1>b DEF OwnBounds
    <3>3. OwnLeft' < TotalBytes
      BY <3>1, <3>2, <2>1, <1>5, <1>b
    <3> QED BY <3>3, <1>6
  <2> QED BY <2>2, <2>3
<1>9. CASE ~eng.save
  <2>1. OwnLeft = RomRest /\ OwnLeft' = RomRest' /\ OwnRest' = RomRest'
        /\ TotalBytes = RomTotal
    BY <1>9, <1>1, Totals DEF OwnLeft, OwnRest
  <2>2. CASE ~abortL /\ romRd.state = "IDLE"
    <3>1. RomRest' = RomTotal
      BY <2>2, <1>9, RomFlow, Zenon
    <3>2. romRd'.state = "READ" /\ romRd'.bank = 0
      BY <2>2, <1>9 DEF ClockFx, RomFx, RomFxIdle, RomBecomes, RomFxBank, RomFxRead, RomFxEmit,
                        RomFxWait, RomWaiting
    <3>3. SaveUndone'
      BY <1>1, <1>9, Zenon DEF SaveUndone
    <3>4. ReaderRight'
      BY <3>2, <1>9, <1>1 DEF ReaderRight, RomRight
    <3> QED BY <3>1, <3>3, <3>4, <2>1, <1>7, <1>f, Zenon DEF Exact
  <2>3. CASE abortL
    <3>1. RomRest' = 0
      BY <2>3, RomFlow, Zenon
    <3>2. OwnLeft' < TotalBytes
      BY <3>1, <2>1, Totals
    <3> QED BY <3>2, <1>6
  <2>4. CASE ~abortL /\ romRd.state # "IDLE"
    <3>1. RomRest' = RomRest - (IF romRd.state = "EMIT" /\ chunk.ready THEN 1 ELSE 0)
      BY <2>4, RomFlow, Zenon
    <3>2. RomRest' \in Nat /\ RomRest \in Nat
      BY <1>b DEF OwnBounds
    <3>3. OwnLeft' < TotalBytes
      BY <3>1, <3>2, <2>1, <1>5, <1>b
    <3> QED BY <3>3, <1>6
  <2> QED BY <2>2, <2>3, <2>4
<1> QED BY <1>8, <1>9

\* A dump that is over has been reported by its writer.
LEMMA DumpEnds ==
  ASSUME Inv, NEW start, NEW req, ClockFx(start, req), InDump, ~InDump'
  PROVE  /\ eng.ss = "RUN" /\ Running /\ ~RdStart /\ Busy /\ mode
         /\ eng'.ss = "END" /\ eng'.failed = fw.failed /\ eng'.save = eng.save
         /\ ~fw.failed => fw.written = TotalBytes /\ fw.written <= Len(file)
         /\ fw.failed => abortL \/ Short
<1>t. Edges /\ EngOK /\ RunOK /\ Books /\ EngFx(start)
  BY Zenon DEF Inv, ClockFx
<1>1. /\ eng.ss = "RUN" /\ fin /\ EngEnds(fw.failed)
      /\ ~(fw.failed /\ fw.failedOpen /\ ~abortL /\ (eng.tries # Combos \/ ~eng.skip))
  BY <1>t DEF EngFx, EngBecomes, EngSame, InDump
<1>2. Running /\ fw.state = "IDLE"
  BY <1>1, <1>t DEF Edges, Running
<1>3. /\ eng'.ss = "END" /\ eng'.failed = fw.failed /\ eng'.save = eng.save
      /\ ~RdStart /\ Busy /\ mode
  BY <1>1, <1>t DEF EngEnds, EngBecomes, RdStart, Busy, EngOK
<1>4. /\ eng.skip => ~fw.failedOpen
      /\ ~fw.failed => fw.written = TotalBytes /\ fw.written <= Len(file)
  BY <1>2, <1>t DEF RunOK
<1>5. fw.failed => fw.failedOpen \/ abortL \/ Short
  BY <1>2, <1>t, Zenon DEF Books
<1>6. fw.failed => abortL \/ Short
  BY <1>1, <1>4, <1>5, Zenon
<1> QED BY <1>1, <1>2, <1>3, <1>4, <1>6

\* Its reader has not all of the save or of the ROM before it any more.
LEMMA EndedShort ==
  ASSUME Inv, NEW start, NEW req, ClockFx(start, req), InDump, ~InDump'
  PROVE  abortL \/ OwnLeft < TotalBytes
<1>1. /\ Running /\ ~RdStart
      /\ ~fw.failed => fw.written = TotalBytes
      /\ fw.failed => abortL \/ Short
  BY DumpEnds, Zenon
<1>2. OwnBounds /\ TotalBytes \in Nat /\ TotalBytes > 0 /\ Sent \in Nat /\ fw.written <= Sent
      /\ fw.written \in Nat
  BY <1>1, OwnBoth, Totals, SentIs DEF Running
<1>3. Short \/ Exact
  BY DEF Inv, Books
<1>4. CASE Short
  BY <1>4, <1>2 DEF Short, OwnBounds
<1>5. CASE Exact /\ ~fw.failed
  <2>1. OwnRest + Sent = TotalBytes /\ fw.written = TotalBytes
    BY <1>5, <1>1 DEF Exact
  <2> QED BY <2>1, <1>2 DEF OwnBounds
<1> QED BY <1>1, <1>3, <1>4, <1>5

\* A reader that is not the one of this dump has less than a whole dump
\* before it.
LEMMA OthersIdle ==
  ASSUME Inv, NEW start, NEW req, ClockFx(start, req)
  PROVE  /\ ~(InDump' /\ eng'.save) => SaveLeft' < SaveTotal
         /\ ~(InDump' /\ ~eng'.save) => RomRest' < RomTotal
<1>b. /\ OwnBounds /\ OwnBounds' /\ SaveTotal \in Nat /\ SaveTotal > 1
      /\ RomTotal \in Nat /\ RomTotal > 0 /\ eng.save \in BOOLEAN
  BY OwnBoth, Totals, Wires, Zenon
<1>c. /\ SaveLeft \in Nat /\ SaveLeft' \in Nat /\ RomRest \in Nat /\ RomRest' \in Nat
  BY <1>b DEF OwnBounds
<1>h. InDump' => eng'.save = eng.save
  BY RunHolds, Zenon
<1>r. RdStart => InDump
  BY DEF RdStart, InDump
<1>i. /\ ~(InDump /\ eng.save) => SaveLeft < SaveTotal
      /\ ~(InDump /\ ~eng.save) => RomRest < RomTotal
  BY Zenon DEF Inv, Books
<1>1. ASSUME ~(InDump' /\ eng'.save) PROVE SaveLeft' < SaveTotal
  <2>1. CASE ~(InDump /\ eng.save)
    <3>1. SaveLeft' <= SaveLeft
      BY <2>1, <1>r, SaveFlow, Zenon
    <3>2. SaveLeft < SaveTotal
      BY <2>1, <1>i, Zenon
    <3> QED BY <3>1, <3>2, <1>c, <1>b
  <2>2. CASE InDump /\ eng.save
    <3>1. ~InDump'
      BY <2>2, <1>1, <1>h
    <3>2. ~RdStart /\ (abortL \/ OwnLeft < TotalBytes)
      BY <2>2, <3>1, DumpEnds, EndedShort, Zenon
    <3>3. SaveLeft' <= SaveLeft /\ (abortL => SaveLeft' <= 1)
      BY <3>2, SaveFlow, Zenon
    <3>4. OwnLeft = SaveLeft /\ TotalBytes = SaveTotal
      BY <2>2, Totals DEF OwnLeft
    <3> QED BY <3>2, <3>3, <3>4, <1>c, <1>b
  <2> QED BY <2>1, <2>2
<1>2. ASSUME ~(InDump' /\ ~eng'.save) PROVE RomRest' < RomTotal
  <2>0. ~RdStart \/ eng.save => \/ abortL /\ RomRest' = 0
                                \/ RomRest' <= RomRest
    <3>1. CASE abortL
      <4>1. RomRest' = 0
        BY <3>1, RomFlow, Zenon
      <4> QED BY <3>1, <4>1
    <3>2. CASE ~abortL /\ (~RdStart \/ eng.save)
      <4>1. RomRest' = RomRest - (IF romRd.state = "EMIT" /\ chunk.ready THEN 1 ELSE 0)
        BY <3>2, RomFlow, Zenon
      <4> QED BY <4>1, <1>c
    <3> QED BY <3>1, <3>2
  <2>1. CASE ~(InDump /\ ~eng.save)
    <3>1. ~RdStart \/ eng.save
      BY <2>1, <1>r
    <3>2. RomRest < RomTotal
      BY <2>1, <1>i, Zenon
    <3> QED BY <2>0, <3>1, <3>2, <1>c, <1>b
  <2>2. CASE InDump /\ ~eng.save
    <3>1. ~InDump'
      BY <2>2, <1>2, <1>h
    <3>2. ~RdStart /\ (abortL \/ OwnLeft < TotalBytes)
      BY <2>2, <3>1, DumpEnds, EndedShort, Zenon
    <3>3. abortL => RomRest' = 0
      BY RomFlow, Zenon
    <3>4. OwnLeft = RomRest /\ TotalBytes = RomTotal
      BY <2>2, Totals DEF OwnLeft
    <3> QED BY <2>0, <3>2, <3>3, <3>4, <1>c, <1>b
  <2> QED BY <2>1, <2>2
<1> QED BY <1>1, <1>2

\* A reader of the other kind, or of no dump, before WAKE is left.
LEMMA DumpWakes ==
  ASSUME Inv, NEW start, NEW req, ClockFx(start, req), ~InDump, InDump'
  PROVE  Short'
<1>1. eng.ss = "WAKE" /\ eng'.ss = "PATH" /\ eng'.save = eng.save /\ ~RdStart /\ TotalBytes' = TotalBytes
  <2>1. EngFx(start)
    BY Zenon DEF ClockFx
  <2>2. eng.ss = "WAKE" /\ eng'.ss = "PATH" /\ ~RdStart
    BY <2>1 DEF EngFx, EngBecomes, EngSame, EngEnds, InDump, RdStart
  <2> QED BY <2>2, RunHolds, Zenon
<1>2. Sent' = 0
  BY <1>1 DEF Sent
<1>b. /\ OwnBounds /\ OwnBounds' /\ Given \in {0, 1} /\ eng.save \in BOOLEAN
      /\ OwnLeft' <= OwnLeft - Given
  BY <1>1, OwnBoth, OwnFlow, Wires, Zenon DEF Given
<1>3. OwnLeft < TotalBytes
  <2>1. SaveLeft < SaveTotal /\ RomRest < RomTotal
    BY Zenon DEF Inv, Books
  <2> QED BY <2>1, <1>b, Totals DEF OwnLeft
<1> DEFINE l == OwnLeft'
<1>4. l \in Nat /\ OwnLeft \in Nat /\ l <= OwnLeft - Given
  BY <1>b, Zenon DEF OwnBounds
<1>5. TotalBytes \in Nat
  BY Totals
<1> HIDE DEF l
<1>6. l + 0 < TotalBytes
  BY <1>3, <1>4, <1>5, <1>b
<1> QED BY <1>1, <1>2, <1>6, Zenon DEF Short, l

\* A dump that has ended well: the file is right, and the reader is done.
LEMMA EndKept ==
  ASSUME Inv, NEW start, NEW req, ClockFx(start, req), eng'.ss = "END", ~eng'.failed
  PROVE  /\ SubSeq(file', 1, TotalBytes') = Expected'
         /\ eng'.save => SaveRest' = 0 /\ SaveUndone'
<1>f. EngFx(start) /\ file' = file
  BY Zenon DEF ClockFx
<1>b. OwnBounds /\ OwnBounds' /\ TotalBytes \in Nat /\ eng.save \in BOOLEAN
  BY OwnBoth, Totals, Wires, Zenon
<1>0. eng'.save = eng.save /\ ~RdStart /\ Busy /\ ((eng.ss = "END" /\ ~eng.failed) \/ (eng.ss = "RUN" /\ InDump /\ ~InDump'))
  BY <1>f DEF EngFx, EngBecomes, EngSame, EngEnds, InDump, RdStart, Busy
<1>1. TotalBytes' = TotalBytes /\ Expected' = Expected
  BY <1>0 DEF TotalBytes, Expected, SaveBytes, RomImage
<1>2. /\ SubSeq(file, 1, TotalBytes) = Expected
      /\ eng.save => SaveRest = 0 /\ SaveUndone
      /\ mode
  <2>1. CASE eng.ss = "END" /\ ~eng.failed
    BY <2>1 DEF Inv, Books, EngOK
  <2>2. CASE eng.ss = "RUN" /\ InDump /\ ~InDump'
    <3>1. /\ Running /\ mode /\ ~fw.failed /\ fw.written = TotalBytes /\ fw.written <= Len(file)
      BY <2>2, DumpEnds
    <3>2. Sent \in Nat /\ fw.written <= Sent
      BY <3>1, SentIs DEF Running
    <3>3. Short \/ Exact
      BY <2>2 DEF Inv, Books
    <3>4. ~Short
      BY <3>1, <3>2, <1>b DEF Short, OwnBounds
    <3>5. OwnRest = 0
      BY <3>1, <3>2, <3>3, <3>4, <1>b DEF Exact, OwnBounds
    <3>6. \A i \in 1 .. TotalBytes : file[i] = Expected[i]
      BY <3>1, <3>3, <3>4, Zenon DEF Exact, FileRight
    <3>7. file \in Seq(Byte) /\ Expected \in Seq(Byte) /\ TotalBytes = Len(Expected)
      BY Totals DEF Inv, WriterOK
    <3>8. SubSeq(file, 1, TotalBytes) = Expected
      <4>1. TotalBytes <= Len(file)
        BY <3>1
      <4>2. SubSeq(file, 1, TotalBytes) \in Seq(Byte)
            /\ Len(SubSeq(file, 1, TotalBytes)) = TotalBytes
            /\ \A i \in 1 .. TotalBytes : SubSeq(file, 1, TotalBytes)[i] = file[i]
        BY <4>1, <3>7, <1>b
      <4> QED BY <4>2, <3>6, <3>7
    <3> QED BY <3>1, <3>3, <3>4, <3>5, <3>8 DEF Exact, OwnRest
  <2> QED BY <1>0, <2>1, <2>2
<1>3. ASSUME eng.save PROVE SaveRest' = 0 /\ SaveUndone'
  <2>1. SaveRest = 0 /\ SaveUndone
    BY <1>2, <1>3
  <2>2. save.state # "EMIT"
    BY <2>1, <1>b DEF OwnBounds
  <2>3. SaveRest' = SaveRest - (IF save.state = "EMIT" /\ chunk.ready THEN 1 ELSE 0)
    BY <2>1, <1>0, SaveFlow, Zenon
  <2>4. SaveRest' = 0
    <3>1. SaveRest' = 0 - 0
      BY <2>1, <2>2, <2>3, Zenon
    <3> QED BY <3>1
  <2>5. SaveUndone'
    BY <2>1, <2>3, <1>0, <1>2, UndoneKept
  <2> QED BY <2>4, <2>5
<1> QED BY <1>0, <1>1, <1>2, <1>3, <1>f, Zenon

\* A clock keeps the books.
LEMMA BooksKept ==
  ASSUME Inv, NEW start, NEW req, ClockFx(start, req)
  PROVE  Books'
<1>f. EngFx(start) /\ fw' = fw /\ EngOK /\ Books /\ (Busy /\ (abortL \/ ~powered) => abortL' = TRUE)
  BY Zenon DEF ClockFx, Inv
<1>1. InDump' => Short' \/ (~eng'.rdStart /\ Exact')
  <2> SUFFICES ASSUME InDump' PROVE Short' \/ (~eng'.rdStart /\ Exact')
    OBVIOUS
  <2>1. CASE ~InDump
    BY <2>1, DumpWakes
  <2>2. CASE InDump
    <3>1. ~eng'.rdStart
      BY <2>2, <1>f DEF EngFx, EngBecomes, EngSame, EngEnds, InDump, EngOK
    <3>2. CASE RdStart
      BY <3>1, <3>2, DumpBegins
    <3>3. CASE ~RdStart
      <4>1. Short \/ Exact
        BY <2>2, <1>f DEF Books
      <4> QED BY <2>2, <3>1, <3>3, <4>1, ShortKept, ExactKept
    <3> QED BY <3>2, <3>3
  <2> QED BY <2>1, <2>2
<1>2. Running' /\ (fw'.state = "FAIL" \/ (fw'.state = "IDLE" /\ fw'.failed)) =>
        fw'.failedOpen \/ abortL' \/ Short'
  <2> SUFFICES ASSUME Running', fw.state = "FAIL" \/ (fw.state = "IDLE" /\ fw.failed)
               PROVE  fw.failedOpen \/ abortL' \/ Short'
    BY <1>f
  <2>1. Running
    BY RunHolds, Zenon
  <2>2. InDump /\ InDump' /\ ~RdStart /\ Busy
    BY <2>1 DEF Running, InDump, RdStart, Busy
  <2>3. fw.failedOpen \/ abortL \/ Short
    BY <2>1, <1>f, Zenon DEF Books
  <2> QED BY <2>2, <2>3, <1>f, ShortKept
<1>3. eng'.ss = "END" /\ ~eng'.failed =>
        /\ SubSeq(file', 1, TotalBytes') = Expected'
        /\ eng'.save => SaveRest' = 0 /\ SaveUndone'
  BY EndKept, Zenon
<1>4. /\ ~(InDump' /\ eng'.save) => SaveLeft' < SaveTotal'
      /\ ~(InDump' /\ ~eng'.save) => RomRest' < RomTotal'
  <2>1. SaveTotal' = SaveTotal /\ RomTotal' = RomTotal
    BY DEF SaveTotal, RomTotal
  <2> QED BY <2>1, OthersIdle, Zenon
<1> QED BY <1>1, <1>2, <1>3, <1>4, Zenon DEF Books

\* A clock of clk_sys keeps the invariant.
LEMMA ClockKept ==
  ASSUME Inv, SysClock
  PROVE  Inv'
<1> PICK cancel \in Cancels, start \in Starts, req \in {fw.req, chunk.state = "ACK"} :
      Clock(cancel, start, req)
  BY Zenon DEF SysClock
<1>1. ClockFx(start, req)
  BY ClockParts, Zenon
<1>2. SaveOK' /\ RomOK' /\ BusOK' /\ CartOK'
  BY <1>1, UnitsKept, Zenon
<1>3. ChunkOK' /\ WriterOK' /\ Handshake' /\ RunOK'
  BY <1>1, HandshakeKept, Zenon
<1>4. EngOK' /\ Edges'
  BY <1>1, SequencerKept, Zenon
<1>5. Coupled' /\ Latched'
  BY <1>1, BusHeld, Zenon
<1>6. Books'
  BY <1>1, BooksKept, Zenon
<1> QED BY <1>2, <1>3, <1>4, <1>5, <1>6, Zenon DEF Inv

-----------------------------------------------------------------------------
(* The writer and the host *)

FwType ==
  [state : WriterStates, written : Nat, aborting : BOOLEAN, req : BOOLEAN,
   failed : BOOLEAN, failedOpen : BOOLEAN]

FwBecomes(st, wr, ab, rq, fl, fo) ==
  /\ fw'.state = st /\ fw'.written = wr /\ fw'.aborting = ab
  /\ fw'.req = rq /\ fw'.failed = fl /\ fw'.failedOpen = fo
\* It goes on, and latches an abort.
FwMoves(st, rq, fo) ==
  FwBecomes(st, fw.written, fw.aborting \/ abortL, rq, fw.failed, fo)

\* One step of the writer in its clock, register by register.
WriterFx ==
  \/ /\ go /\ go' = FALSE /\ fin' = fin /\ fw.state = "IDLE"
     /\ FwBecomes(IF eng.skip THEN "ASK" ELSE "OPEN", 0, FALSE, FALSE, FALSE, FALSE)
  \/ /\ go' = go /\ fin' = fin
     /\ \/ fw.state = "OPEN" /\ FwMoves("OPEN_WAIT", fw.req, fw.failedOpen)
        \/ fw.state = "ASK" /\ fw.aborting /\ FwMoves("FAIL", fw.req, fw.failedOpen)
        \/ fw.state = "ASK" /\ ~fw.aborting /\ FwMoves("ASK_WAIT", TRUE, fw.failedOpen)
        \/ fw.state = "ASK_WAIT" /\ fw.aborting /\ FwMoves("FAIL", FALSE, fw.failedOpen)
        \/ fw.state = "ASK_WAIT" /\ chunk.ack /\ FwMoves("WRITE", FALSE, fw.failedOpen)
        \/ fw.state = "ASK_WAIT" /\ FwMoves("ASK_WAIT", fw.req, fw.failedOpen)
        \/ fw.state = "WRITE" /\ FwMoves("WRITE_WAIT", fw.req, fw.failedOpen)
  \/ /\ fw.state \in {"DONE", "FAIL"} /\ go' = go /\ fin' = TRUE
     /\ FwBecomes("IDLE", fw.written, fw.aborting, fw.req, fw.state = "FAIL", fw.failedOpen)

\* The states of the writer.
LEMMA WriterStatesHas ==
  {"IDLE", "OPEN", "OPEN_WAIT", "ASK", "ASK_WAIT", "WRITE", "WRITE_WAIT", "DONE", "FAIL"}
    \subseteq WriterStates
BY DEF WriterStates

\* Latching an abort changes one register.
LEMMA HeedingFx ==
  ASSUME fw \in FwType, abortL \in BOOLEAN
  PROVE  /\ Heeding(abortL) \in FwType
         /\ Heeding(abortL).state = fw.state /\ Heeding(abortL).written = fw.written
         /\ Heeding(abortL).aborting = (fw.aborting \/ abortL) /\ Heeding(abortL).req = fw.req
         /\ Heeding(abortL).failed = fw.failed /\ Heeding(abortL).failedOpen = fw.failedOpen
BY DEF Heeding, FwType

\* The updates the writer makes keep its type.
LEMMA FwRecords ==
  /\ \A r \in FwType, st \in WriterStates : [r EXCEPT !.state = st] \in FwType
  /\ \A r \in FwType, st \in WriterStates, b \in BOOLEAN :
       [r EXCEPT !.req = b, !.state = st] \in FwType
  /\ \A r \in FwType, st \in WriterStates :
       [r EXCEPT !.failedOpen = TRUE, !.state = st] \in FwType
  /\ \A r \in FwType, st \in WriterStates, b \in BOOLEAN :
       [r EXCEPT !.state = st, !.failed = b] \in FwType
  /\ \A r \in FwType, st \in WriterStates, n \in Nat :
       [r EXCEPT !.written = n, !.state = st] \in FwType
<1>1. \A r \in FwType, st \in WriterStates : [r EXCEPT !.state = st] \in FwType
  BY DEF FwType
<1>2. \A r \in FwType, st \in WriterStates, b \in BOOLEAN :
        [r EXCEPT !.req = b, !.state = st] \in FwType
  BY DEF FwType
<1>3. \A r \in FwType, st \in WriterStates :
        [r EXCEPT !.failedOpen = TRUE, !.state = st] \in FwType
  BY DEF FwType
<1>4. \A r \in FwType, st \in WriterStates, b \in BOOLEAN :
        [r EXCEPT !.state = st, !.failed = b] \in FwType
  BY DEF FwType
<1>5. \A r \in FwType, st \in WriterStates, n \in Nat :
        [r EXCEPT !.written = n, !.state = st] \in FwType
  BY DEF FwType
<1> QED BY <1>1, <1>2, <1>3, <1>4, <1>5, Zenon

\* A clock of the writer, register by register.
LEMMA WriterClockFx ==
  ASSUME fw \in FwType, abortL \in BOOLEAN, WriterClock
  PROVE  WriterFx /\ fw' \in FwType /\ file' = file /\ UNCHANGED sysVars
<1> DEFINE h == Heeding(abortL)
<1>h. /\ h \in FwType
      /\ h.state = fw.state /\ h.written = fw.written
      /\ h.aborting = (fw.aborting \/ abortL) /\ h.req = fw.req
      /\ h.failed = fw.failed /\ h.failedOpen = fw.failedOpen
  BY HeedingFx
<1>s. {"IDLE", "OPEN", "OPEN_WAIT", "ASK", "ASK_WAIT", "WRITE", "WRITE_WAIT", "DONE", "FAIL"}
        \subseteq WriterStates
  BY WriterStatesHas
<1>v. UNCHANGED sysVars
  BY Zenon DEF WriterClock
<1> USE DEF FwBecomes, FwMoves
<1>1. CASE go /\ go' = FALSE /\ WriterStarts(eng.skip) /\ UNCHANGED fin
  <2>1. /\ fw' = [state |-> IF eng.skip THEN "ASK" ELSE "OPEN", written |-> 0,
                  aborting |-> FALSE, req |-> FALSE, failed |-> FALSE, failedOpen |-> FALSE]
        /\ fw.state = "IDLE" /\ file' = file
    BY <1>1 DEF WriterStarts
  <2>2. fw' \in FwType
    BY <2>1, <1>s DEF FwType
  <2> QED BY <1>1, <1>v, <2>1, <2>2 DEF WriterFx
<1> HIDE DEF h
<1>2. CASE OpenIssued(abortL) /\ UNCHANGED <<go, fin>>
  <2>1. fw.state = "OPEN" /\ fw' = [h EXCEPT !.state = "OPEN_WAIT"] /\ file' = file
    BY <1>2 DEF OpenIssued, h
  <2>2. fw' \in FwType
    BY <2>1, <1>h, <1>s, FwRecords
  <2>3. FwMoves("OPEN_WAIT", fw.req, fw.failedOpen)
    BY <2>1, <1>h DEF FwType
  <2> HIDE DEF FwBecomes, FwMoves
  <2> QED BY <1>2, <1>v, <2>1, <2>2, <2>3 DEF WriterFx
<1>3. CASE Ask(abortL) /\ UNCHANGED <<go, fin>>
  <2>1. CASE fw.aborting
    <3>1. fw.state = "ASK" /\ fw' = [h EXCEPT !.state = "FAIL"] /\ file' = file
      BY <1>3, <2>1 DEF Ask, h
    <3>2. fw' \in FwType
      BY <3>1, <1>h, <1>s, FwRecords
    <3>3. FwMoves("FAIL", fw.req, fw.failedOpen)
      BY <3>1, <1>h DEF FwType
    <3> HIDE DEF FwBecomes, FwMoves
    <3> QED BY <1>3, <1>v, <2>1, <3>1, <3>2, <3>3 DEF WriterFx
  <2>2. CASE ~fw.aborting
    <3>1. fw.state = "ASK" /\ fw' = [h EXCEPT !.req = TRUE, !.state = "ASK_WAIT"] /\ file' = file
      BY <1>3, <2>2 DEF Ask, h
    <3>2. fw' \in FwType
      BY <3>1, <1>h, <1>s, FwRecords
    <3>3. FwMoves("ASK_WAIT", TRUE, fw.failedOpen)
      BY <3>1, <1>h DEF FwType
    <3> HIDE DEF FwBecomes, FwMoves
    <3> QED BY <1>3, <1>v, <2>2, <3>1, <3>2, <3>3 DEF WriterFx
  <2> QED BY <2>1, <2>2
<1>4. CASE ChunkAwaited(abortL, chunk.ack) /\ UNCHANGED <<go, fin>>
  <2>0. fw.state = "ASK_WAIT" /\ file' = file
    BY <1>4 DEF ChunkAwaited
  <2>1. CASE fw.aborting
    <3>1. fw' = [h EXCEPT !.req = FALSE, !.state = "FAIL"]
      BY <1>4, <2>1 DEF ChunkAwaited, h
    <3>2. fw' \in FwType
      BY <3>1, <1>h, <1>s, FwRecords
    <3>3. FwMoves("FAIL", FALSE, fw.failedOpen)
      BY <3>1, <1>h DEF FwType
    <3> HIDE DEF FwBecomes, FwMoves
    <3> QED BY <1>4, <1>v, <2>0, <2>1, <3>1, <3>2, <3>3 DEF WriterFx
  <2>2. CASE ~fw.aborting /\ chunk.ack
    <3>1. fw' = [h EXCEPT !.req = FALSE, !.state = "WRITE"]
      BY <1>4, <2>2 DEF ChunkAwaited, h
    <3>2. fw' \in FwType
      BY <3>1, <1>h, <1>s, FwRecords
    <3>3. FwMoves("WRITE", FALSE, fw.failedOpen)
      BY <3>1, <1>h DEF FwType
    <3> HIDE DEF FwBecomes, FwMoves
    <3> QED BY <1>4, <1>v, <2>0, <2>2, <3>1, <3>2, <3>3 DEF WriterFx
  <2>3. CASE ~fw.aborting /\ ~chunk.ack
    <3>1. fw' = h
      BY <1>4, <2>3, Zenon DEF ChunkAwaited, h
    <3>2. FwMoves("ASK_WAIT", fw.req, fw.failedOpen)
      BY <3>1, <1>h, <2>0
    <3> HIDE DEF FwBecomes, FwMoves
    <3> QED BY <1>4, <1>v, <1>h, <2>0, <2>3, <3>1, <3>2 DEF WriterFx
  <2> QED BY <2>1, <2>2, <2>3
<1>5. CASE WriteIssued(abortL) /\ UNCHANGED <<go, fin>>
  <2>1. fw.state = "WRITE" /\ fw' = [h EXCEPT !.state = "WRITE_WAIT"] /\ file' = file
    BY <1>5 DEF WriteIssued, h
  <2>2. fw' \in FwType
    BY <2>1, <1>h, <1>s, FwRecords
  <2>3. FwMoves("WRITE_WAIT", fw.req, fw.failedOpen)
    BY <2>1, <1>h DEF FwType
  <2> HIDE DEF FwBecomes, FwMoves
  <2> QED BY <1>5, <1>v, <2>1, <2>2, <2>3 DEF WriterFx
<1>6. CASE WriterReports /\ fin' = TRUE /\ UNCHANGED go
  <2>1. /\ fw.state \in {"DONE", "FAIL"} /\ file' = file
        /\ fw' = [fw EXCEPT !.state = "IDLE", !.failed = fw.state = "FAIL"]
    BY <1>6 DEF WriterReports
  <2>2. (fw.state = "FAIL") \in BOOLEAN
    OBVIOUS
  <2>3. fw' \in FwType
    BY <2>1, <2>2, <1>s, FwRecords
  <2>4. FwBecomes("IDLE", fw.written, fw.aborting, fw.req, fw.state = "FAIL", fw.failedOpen)
    BY <2>1 DEF FwType
  <2> HIDE DEF FwBecomes, FwMoves
  <2> QED BY <1>6, <1>v, <2>1, <2>3, <2>4 DEF WriterFx
<1> QED BY <1>1, <1>2, <1>3, <1>4, <1>5, <1>6, Zenon DEF WriterClock

-----------------------------------------------------------------------------
(* The host *)

\* What the host does, register by register.
HostFx ==
  /\ go' = go /\ fin' = fin
  /\ \/ /\ fw.state = "OPEN_WAIT" /\ file' \in {file, <<>>}
        /\ \/ fw.aborting /\ FwMoves("FAIL", fw.req, fw.failedOpen)
           \/ FwMoves("FAIL", fw.req, TRUE)
           \/ FwMoves("ASK", fw.req, fw.failedOpen)
     \/ /\ fw.state = "WRITE_WAIT" /\ ~chunk.ack
        /\ file' \in {file, PutAt(file, fw.written, buffer)}
        /\ FwMoves("FAIL", fw.req, fw.failedOpen)
     \/ /\ fw.state = "WRITE_WAIT" /\ ~chunk.ack
        /\ file' = PutAt(file, fw.written, buffer)
        /\ FwBecomes(IF fw.written + ChunkLen(TotalBytes) = TotalBytes THEN "DONE" ELSE "ASK",
                     fw.written + ChunkLen(TotalBytes), fw.aborting \/ abortL, fw.req,
                     fw.failed, fw.failedOpen)

\* An answer of the host, register by register.
LEMMA HostFxIs ==
  ASSUME Inv, HostAnswers
  PROVE  HostFx /\ fw' \in FwType /\ UNCHANGED sysVars
<1>t. fw \in FwType /\ abortL \in BOOLEAN
  BY Wires DEF Inv, WriterOK, FwType
<1> DEFINE h == Heeding(abortL)
<1>h. /\ h \in FwType
      /\ h.state = fw.state /\ h.written = fw.written
      /\ h.aborting = (fw.aborting \/ abortL) /\ h.req = fw.req
      /\ h.failed = fw.failed /\ h.failedOpen = fw.failedOpen
  BY <1>t, HeedingFx
<1>s. {"IDLE", "OPEN", "OPEN_WAIT", "ASK", "ASK_WAIT", "WRITE", "WRITE_WAIT", "DONE", "FAIL"}
        \subseteq WriterStates
  BY WriterStatesHas
<1>v. UNCHANGED sysVars /\ go' = go /\ fin' = fin
  BY DEF HostAnswers
<1>z. TotalBytes # 0
  BY Totals
<1> HIDE DEF h
<1>1. ASSUME NEW ok \in BOOLEAN, OpenAnswered(ok, abortL, TotalBytes)
      PROVE  HostFx /\ fw' \in FwType
  <2>0. fw.state = "OPEN_WAIT" /\ file' \in {file, <<>>}
    BY <1>1 DEF OpenAnswered
  <2>1. CASE fw.aborting
    <3>1. fw' = [h EXCEPT !.state = "FAIL"]
      BY <1>1, <2>1 DEF OpenAnswered, h
    <3>2. fw' \in FwType
      BY <3>1, <1>h, <1>s, FwRecords
    <3>3. FwMoves("FAIL", fw.req, fw.failedOpen)
      BY <3>1, <1>h DEF FwType, FwBecomes, FwMoves
    <3> QED BY <1>v, <2>0, <2>1, <3>2, <3>3 DEF HostFx
  <2>2. CASE ~fw.aborting /\ ~ok
    <3>1. fw' = [h EXCEPT !.failedOpen = TRUE, !.state = "FAIL"]
      BY <1>1, <2>2 DEF OpenAnswered, h
    <3>2. fw' \in FwType
      BY <3>1, <1>h, <1>s, FwRecords
    <3>3. FwMoves("FAIL", fw.req, TRUE)
      BY <3>1, <1>h DEF FwType, FwBecomes, FwMoves
    <3> QED BY <1>v, <2>0, <2>2, <3>2, <3>3 DEF HostFx
  <2>3. CASE ~fw.aborting /\ ok
    <3>1. fw' = [h EXCEPT !.state = "ASK"]
      BY <1>1, <2>3, <1>z DEF OpenAnswered, h
    <3>2. fw' \in FwType
      BY <3>1, <1>h, <1>s, FwRecords
    <3>3. FwMoves("ASK", fw.req, fw.failedOpen)
      BY <3>1, <1>h DEF FwType, FwBecomes, FwMoves
    <3> QED BY <1>v, <2>0, <2>3, <3>2, <3>3 DEF HostFx
  <2> QED BY <2>1, <2>2, <2>3
<1>2. ASSUME ~chunk.ack, NEW ok \in BOOLEAN, WriteAnswered(ok, abortL, TotalBytes, buffer)
      PROVE  HostFx /\ fw' \in FwType
  <2>0. fw.state = "WRITE_WAIT" /\ file' = IF ok THEN PutAt(file, fw.written, buffer) ELSE file
    BY <1>2 DEF WriteAnswered
  <2>1. CASE fw.aborting \/ ~ok
    <3>1. fw' = [h EXCEPT !.state = "FAIL"]
      BY <1>2, <2>1 DEF WriteAnswered, h
    <3>2. fw' \in FwType
      BY <3>1, <1>h, <1>s, FwRecords
    <3>3. FwMoves("FAIL", fw.req, fw.failedOpen)
      BY <3>1, <1>h DEF FwType, FwBecomes, FwMoves
    <3>4. file' \in {file, PutAt(file, fw.written, buffer)}
      BY <2>0
    <3> QED BY <1>v, <1>2, <2>0, <3>2, <3>3, <3>4 DEF HostFx
  <2>2. CASE ~fw.aborting /\ ok
    <3> DEFINE st == IF fw.written + ChunkLen(TotalBytes) = TotalBytes THEN "DONE" ELSE "ASK"
               wr == fw.written + ChunkLen(TotalBytes)
    <3>0. wr \in Nat /\ st \in WriterStates
      <4>1. fw.written \in Nat /\ ChunkLen(TotalBytes) \in 0 .. ChunkBytes /\ ChunkBytes \in Nat
        BY <2>0, LengthAsked, SentIs, ChunkAssumption
      <4> QED BY <4>1, <1>s
    <3>1. fw' = [h EXCEPT !.written = h.written + ChunkLen(TotalBytes), !.state = st]
      BY <1>2, <2>2 DEF WriteAnswered, h
    <3>2. fw' = [h EXCEPT !.written = wr, !.state = st]
      BY <3>1, <1>h
    <3> HIDE DEF st, wr
    <3>3. fw' \in FwType
      BY <3>0, <3>2, <1>h, FwRecords
    <3>4. FwBecomes(st, wr, fw.aborting \/ abortL, fw.req, fw.failed, fw.failedOpen)
      BY <3>2, <1>h DEF FwType, FwBecomes
    <3>5. file' = PutAt(file, fw.written, buffer)
      BY <2>0, <2>2
    <3> QED BY <1>v, <1>2, <2>0, <3>3, <3>4, <3>5 DEF HostFx, st, wr
  <2> QED BY <2>1, <2>2
<1>3. \/ \E ok \in BOOLEAN : OpenAnswered(ok, abortL, TotalBytes)
      \/ ~chunk.ack /\ \E ok \in BOOLEAN : WriteAnswered(ok, abortL, TotalBytes, buffer)
  BY DEF HostAnswers
<1> QED BY <1>1, <1>2, <1>3, <1>v

-----------------------------------------------------------------------------
(* The file *)

\* What a write leaves in the file: the old head, the new bytes, the old tail.
LEMMA Put ==
  ASSUME NEW f \in Seq(Byte), NEW b \in Seq(Byte), NEW n \in 0 .. Len(f)
  PROVE  /\ PutAt(f, n, b) \in Seq(Byte)
         /\ Len(PutAt(f, n, b)) = IF n + Len(b) > Len(f) THEN n + Len(b) ELSE Len(f)
         /\ \A i \in 1 .. n : PutAt(f, n, b)[i] = f[i]
         /\ \A i \in 1 .. Len(b) : PutAt(f, n, b)[n + i] = b[i]
<1> DEFINE p == SubSeq(f, 1, n)
           q == SubSeq(f, n + Len(b) + 1, Len(f))
<1>1. Len(f) \in Nat /\ Len(b) \in Nat /\ n \in Nat /\ n <= Len(f)
  OBVIOUS
<1>2. p \in Seq(Byte) /\ Len(p) = n /\ \A i \in 1 .. n : p[i] = f[i]
  BY <1>1
<1>3. q \in Seq(Byte) /\ Len(q) = IF n + Len(b) > Len(f) THEN 0 ELSE Len(f) - (n + Len(b))
  BY <1>1
<1>4. PutAt(f, n, b) = (p \o b) \o q
  BY DEF PutAt
<1> HIDE DEF p, q
<1> DEFINE pb == p \o b
<1>5. pb \in Seq(Byte) /\ Len(pb) = n + Len(b)
  BY <1>1, <1>2
<1>6. /\ \A i \in 1 .. n : pb[i] = p[i]
      /\ \A i \in 1 .. Len(b) : pb[n + i] = b[i]
  BY <1>1, <1>2
<1> HIDE DEF pb
<1>7. /\ pb \o q \in Seq(Byte) /\ Len(pb \o q) = Len(pb) + Len(q)
      /\ \A i \in 1 .. Len(pb) : (pb \o q)[i] = pb[i]
  <2>1. pb \in Seq(Byte) /\ q \in Seq(Byte)
    BY <1>3, <1>5
  <2>2. pb \o q \in Seq(Byte)
    BY <2>1
  <2>3. Len(pb \o q) = Len(pb) + Len(q)
    BY <2>1
  <2>4. \A i \in 1 .. Len(pb) : (pb \o q)[i] = pb[i]
    BY <2>1
  <2> QED BY <2>2, <2>3, <2>4
<1>8. PutAt(f, n, b) = pb \o q
  BY <1>4 DEF pb
<1>9. Len(PutAt(f, n, b)) = IF n + Len(b) > Len(f) THEN n + Len(b) ELSE Len(f)
  BY <1>1, <1>3, <1>5, <1>7, <1>8
<1>10. \A i \in 1 .. n : PutAt(f, n, b)[i] = f[i]
  BY <1>1, <1>2, <1>5, <1>6, <1>7, <1>8
<1>11. \A i \in 1 .. Len(b) : PutAt(f, n, b)[n + i] = b[i]
  BY <1>1, <1>5, <1>6, <1>7, <1>8
<1> QED BY <1>7, <1>8, <1>9, <1>10, <1>11

-----------------------------------------------------------------------------
(* The writer and the host keep the invariant *)

\* What belongs to clk_sys does not move.
SysStill ==
  /\ eng' = eng /\ abortL' = abortL /\ mode' = mode /\ powered' = powered
  /\ save' = save /\ romRd' = romRd /\ romReg' = romReg
  /\ chunk' = chunk /\ buffer' = buffer
  /\ busState' = busState /\ busDone' = busDone /\ busRefuse' = busRefuse /\ bus' = bus
  /\ gate' = gate /\ bankReg' = bankReg /\ modeReg' = modeReg /\ ram' = ram

\* A step of the other clock or of the host leaves clk_sys alone.
LEMMA Stills == UNCHANGED sysVars => SysStill
BY DEF sysVars, SysStill, chunkVars, busVars, cartVars

\* Such a step keeps all that is about clk_sys only.
LEMMA UnitsStill ==
  ASSUME Inv, SysStill
  PROVE  /\ SaveOK' /\ RomOK' /\ BusOK' /\ CartOK' /\ ChunkOK' /\ Coupled' /\ Latched'
         /\ SaveRest' = SaveRest /\ RomRest' = RomRest /\ SaveLeft' = SaveLeft
         /\ OwnRest' = OwnRest /\ OwnLeft' = OwnLeft
         /\ Expected' = Expected /\ TotalBytes' = TotalBytes
         /\ ReaderRight' = ReaderRight /\ SaveUndone' = SaveUndone
<1>t. SaveOK /\ RomOK /\ BusOK /\ CartOK /\ ChunkOK /\ Coupled /\ Latched
  BY Zenon DEF Inv
<1>1. SaveOK'
  BY <1>t, Zenon DEF SaveOK, SaveTransferOK, SysStill
<1>2. RomOK'
  <2>1. RomReadAddr' = RomReadAddr
    BY DEF RomReadAddr, SysStill
  <2> QED BY <1>t, <2>1, Zenon DEF RomOK, RomTransferOK, SysStill
<1>3. BusOK' /\ CartOK' /\ ChunkOK'
  BY <1>t, Zenon DEF BusOK, TransferOK, CartOK, ChunkOK, SysStill
<1>4. Coupled'
  BY <1>t DEF Coupled, Connected, Busy, BusBusy, SysStill
<1>5. Latched'
  BY <1>t DEF Latched, Connected, Busy, Landed, SysStill
<1>6. /\ SavePos' = SavePos /\ RomPos' = RomPos
      /\ SaveTotal' = SaveTotal /\ RomTotal' = RomTotal
  BY DEF SavePos, RomPos, SaveTotal, RomTotal, SysStill
<1>7. SaveRest' = SaveRest /\ RomRest' = RomRest
  BY <1>6, Zenon DEF SaveRest, RomRest, SysStill
<1>8. SaveLeft' = SaveLeft
  BY <1>7, Zenon DEF SaveLeft, SysStill
<1>9. OwnRest' = OwnRest /\ OwnLeft' = OwnLeft
  BY <1>7, <1>8, Zenon DEF OwnRest, OwnLeft, SysStill
<1>10. Expected' = Expected
  BY DEF Expected, SaveBytes, RomImage, SysStill
<1>11. TotalBytes' = TotalBytes
  BY <1>10 DEF TotalBytes
<1>12. ReaderRight' = ReaderRight
  BY DEF ReaderRight, SaveRight, RomRight, SysStill
<1>13. SaveUndone' = SaveUndone
  BY <1>7 DEF SaveUndone, SysStill
<1> QED BY <1>1, <1>2, <1>3, <1>4, <1>5, <1>7, <1>8, <1>9, <1>10, <1>11, <1>12, <1>13

\* A step of the writer or of the host is one of a dump that runs.
LEMMA Runs ==
  ASSUME Inv, WriterFx \/ HostFx
  PROVE  eng.ss = "RUN" /\ InDump /\ ~eng.rdStart /\ (fw.state # "IDLE" => Running)
<1>1. eng.ss = "RUN"
  BY DEF Inv, Edges, WriterFx, HostFx
<1> QED BY <1>1, LengthAsked DEF Inv, EngOK, InDump

\* A step after which the sums and the file are as good as before keeps the
\* books.
LEMMA BooksStill ==
  ASSUME Inv, SysStill, eng.ss = "RUN", Sent' = Sent, FileRight => FileRight',
         Running' /\ (fw'.state = "FAIL" \/ (fw'.state = "IDLE" /\ fw'.failed)) =>
           fw'.failedOpen \/ abortL \/ Short
  PROVE  Books'
<1>1. /\ eng' = eng /\ abortL' = abortL /\ InDump /\ ~eng.rdStart
  BY DEF SysStill, InDump, Inv, EngOK
<1>2. /\ SaveLeft' = SaveLeft /\ RomRest' = RomRest
      /\ OwnRest' = OwnRest /\ OwnLeft' = OwnLeft /\ TotalBytes' = TotalBytes
      /\ ReaderRight' = ReaderRight /\ SaveUndone' = SaveUndone
      /\ SaveTotal' = SaveTotal /\ RomTotal' = RomTotal
  <2>1. SaveTotal' = SaveTotal /\ RomTotal' = RomTotal
    BY DEF SaveTotal, RomTotal
  <2> QED BY <2>1, UnitsStill, Zenon
<1>3. Short' = Short
  BY <1>2, Zenon DEF Short
<1>4. Exact => Exact'
  BY <1>2, Zenon DEF Exact
<1>5. Short \/ Exact
  BY <1>1 DEF Inv, Books
<1>6. /\ ~(InDump /\ eng.save) => SaveLeft < SaveTotal
      /\ ~(InDump /\ ~eng.save) => RomRest < RomTotal
  BY Zenon DEF Inv, Books
<1>7. InDump' = InDump
  BY <1>1 DEF InDump
<1> QED BY <1>1, <1>2, <1>3, <1>4, <1>5, <1>6, <1>7 DEF Books

\* A clock of the writer keeps its part of the invariant.
LEMMA WriterKept ==
  ASSUME Inv, WriterFx, fw' \in FwType, file' = file, SysStill
  PROVE  WriterOK' /\ Edges' /\ Handshake' /\ RunOK' /\ Books' /\ go' \in BOOLEAN /\ fin' \in BOOLEAN
<1>t. /\ WriterOK /\ Edges /\ Handshake /\ RunOK /\ ChunkOK
      /\ go \in BOOLEAN /\ fin \in BOOLEAN /\ abortL \in BOOLEAN
      /\ fw \in FwType
  BY DEF Inv, EngOK, WriterOK, FwType
<1>e. /\ eng.ss = "RUN" /\ ~eng.rdStart /\ (fw.state # "IDLE" => Running)
      /\ eng' = eng /\ chunk' = chunk /\ buffer' = buffer /\ abortL' = abortL
      /\ TotalBytes' = TotalBytes /\ Expected' = Expected /\ TotalBytes \in Nat /\ TotalBytes > 0
      /\ Len(buffer) \in Nat /\ Len(file) \in Nat
  BY <1>t, Runs, UnitsStill, Totals DEF SysStill, ChunkOK, WriterOK
<1>l. fw'.written = fw.written => ChunkLen(TotalBytes)' = ChunkLen(TotalBytes)
  BY <1>e DEF ChunkLen
<1>f. fw.aborting \in BOOLEAN /\ fw'.aborting \in BOOLEAN /\ fw.written \in Nat
      /\ fw.failed \in BOOLEAN /\ fw.failedOpen \in BOOLEAN
  BY <1>t DEF FwType
<1>1. Edges' /\ go' \in BOOLEAN /\ fin' \in BOOLEAN
  <2>0. /\ go => ~fin
        /\ (go \/ fin) <=> fw.state = "IDLE"
    BY <1>t, <1>e DEF Edges
  <2>1. CASE go
    <3>1. go' = FALSE /\ fin' = FALSE /\ fw'.state # "IDLE"
      BY <1>t, <2>0, <2>1 DEF WriterFx, FwBecomes, FwMoves
    <3> QED BY <3>1, <1>e DEF Edges
  <2>2. CASE ~go /\ fw.state \in {"DONE", "FAIL"}
    <3>1. go' = FALSE /\ fin' = TRUE /\ fw'.state = "IDLE"
      BY <1>t, <2>2 DEF WriterFx, FwBecomes, FwMoves
    <3> QED BY <3>1, <1>e DEF Edges
  <2>3. CASE ~go /\ fw.state \notin {"DONE", "FAIL"}
    <3>1. fw.state # "IDLE" /\ fw'.state # "IDLE" /\ go' = go /\ fin' = fin
      BY <2>3 DEF WriterFx, FwBecomes, FwMoves
    <3>2. go' = FALSE /\ fin' = FALSE
      BY <3>1, <2>0, <1>t
    <3> QED BY <3>1, <3>2, <1>e DEF Edges
  <2> QED BY <2>1, <2>2, <2>3
<1>2. WriterOK'
  <2>1. Longest' = Longest
    BY DEF Longest, SaveBytes, RomImage
  <2>2. fw'.req <=> fw'.state = "ASK_WAIT"
    BY <1>t, <1>e DEF WriterFx, WriterOK, FwBecomes, FwMoves
  <2>3. fw'.written <= Longest
    <3>1. Longest \in Nat /\ fw.written <= Longest
      BY <1>t, Totals DEF WriterOK
    <3> QED BY <3>1, <1>f DEF WriterFx, FwBecomes, FwMoves
  <2> QED BY <2>1, <2>2, <2>3, <1>t DEF WriterOK, FwType
<1>3. CASE go
  <2>1. /\ fw.state = "IDLE" /\ go' = FALSE
        /\ FwBecomes(IF eng.skip THEN "ASK" ELSE "OPEN", 0, FALSE, FALSE, FALSE, FALSE)
    BY <1>3, <1>t, <1>e DEF WriterFx, Edges
  <2>2. ~Running /\ chunk.state = "IDLE" /\ Running'
    BY <1>3, <2>1, <1>t, <1>e DEF Running, Handshake
  <2>3. Handshake'
    BY <2>1, <2>2, <1>e DEF Handshake, Handing, FwBecomes
  <2>4. RunOK'
    BY <2>1, <1>e DEF RunOK, Handing, FwBecomes
  <2>5. Sent = 0 /\ Sent' = 0
    <3>1. Sent' = 0 + 0
      BY <2>1, <2>2, <1>e DEF Sent, Handing, FwBecomes
    <3> QED BY <1>3, <3>1 DEF Sent
  <2>6. FileRight'
    BY <2>1, <2>2, <1>e DEF FileRight, Handing, FwBecomes
  <2>7. Books'
    BY <2>1, <2>5, <2>6, <1>e, BooksStill DEF FwBecomes
  <2> QED BY <1>1, <1>2, <2>3, <2>4, <2>7
<1>4. CASE ~go
  <2>0. fw.state # "IDLE" /\ Running /\ Running' /\ fw'.written = fw.written
    BY <1>4, <1>e DEF WriterFx, Running, FwBecomes, FwMoves
  <2>a. fw.aborting => abortL
    BY <2>0, <1>t DEF RunOK
  <2>h. /\ chunk.state # "IDLE" => abortL \/ fw.state = "ASK_WAIT" \/ Handing
        /\ chunk.state # "IDLE" =>
             Len(buffer) + (IF chunk.state = "FILL" THEN chunk.left ELSE 0) = ChunkLen(TotalBytes)
        /\ Handing /\ chunk.state # "IDLE" => chunk.ack
        /\ Handing => Len(buffer) = ChunkLen(TotalBytes)
        /\ chunk.ack => chunk.state = "ACK"
    BY <1>t DEF Handshake, ChunkOK
  <2>w. /\ Handing' => Handing \/ (fw.state = "ASK_WAIT" /\ chunk.ack)
        /\ Handing => Handing'
    BY <1>4, <1>e, <2>0 DEF WriterFx, Handing, FwBecomes, FwMoves
  <2>3. Handshake'
    <3>1. fw.state = "ASK_WAIT" => abortL \/ fw'.state = "ASK_WAIT" \/ Handing'
      BY <2>0, <2>a, <1>4 DEF WriterFx, Handing, FwBecomes, FwMoves
    <3>2. chunk.ack => Len(buffer) = ChunkLen(TotalBytes)
      BY <2>h, <1>e
    <3>3. chunk'.state # "IDLE" =>
            /\ Running'
            /\ abortL' \/ fw'.state = "ASK_WAIT" \/ Handing'
            /\ Len(buffer') + (IF chunk'.state = "FILL" THEN chunk'.left ELSE 0)
                 = ChunkLen(TotalBytes)'
      BY <2>0, <2>h, <2>w, <3>1, <1>e, <1>l
    <3>4. /\ Handing' /\ chunk'.state # "IDLE" => chunk'.ack
          /\ Handing' => Len(buffer') = ChunkLen(TotalBytes)'
      BY <2>0, <2>h, <2>w, <3>2, <1>e, <1>l
    <3> QED BY <3>3, <3>4, Zenon DEF Handshake
  <2>4. RunOK'
    <3>1. /\ fw.written <= TotalBytes /\ fw.written <= Len(file)
          /\ fw.state \in {"OPEN", "OPEN_WAIT"} => fw.written = 0
          /\ eng.skip => fw.state \notin {"OPEN", "OPEN_WAIT"} /\ ~fw.failedOpen
          /\ fw.state \in {"ASK", "ASK_WAIT"} \/ Handing => fw.written < TotalBytes
          /\ fw.state = "DONE" => fw.written = TotalBytes
      BY <2>0, <1>t DEF RunOK
    <3> QED BY <2>0, <2>a, <3>1, <1>e, <1>f, <1>4 DEF RunOK, WriterFx, Handing, FwBecomes, FwMoves
  <2>5. Sent' = Sent
    <3>1. (Handing' \/ chunk'.state # "IDLE") <=> (Handing \/ chunk.state # "IDLE")
      BY <2>h, <2>w, <1>e
    <3>2. /\ Sent = fw.written + (IF Handing \/ chunk.state # "IDLE" THEN Len(buffer) ELSE 0)
          /\ Sent' = fw'.written + (IF Handing' \/ chunk'.state # "IDLE" THEN Len(buffer') ELSE 0)
      BY <2>0, Zenon DEF Sent, Running
    <3> QED BY <2>0, <3>1, <3>2, <1>e, Zenon
  <2>6. FileRight => FileRight'
    <3>1. (Handing' \/ chunk'.state # "IDLE") => (Handing \/ chunk.state # "IDLE")
      BY <2>h, <2>w, <1>e
    <3> QED BY <2>0, <3>1, <1>e, Zenon DEF FileRight
  <2>7. Running' /\ (fw'.state = "FAIL" \/ (fw'.state = "IDLE" /\ fw'.failed)) =>
           fw'.failedOpen \/ abortL \/ Short
    <3>1. fw.state = "FAIL" => fw.failedOpen \/ abortL \/ Short
      BY <2>0, Zenon DEF Inv, Books
    <3> QED BY <2>0, <2>a, <3>1, <1>4 DEF WriterFx, FwBecomes, FwMoves
  <2>8. Books'
    BY <2>5, <2>6, <2>7, <1>e, BooksStill, Zenon
  <2> QED BY <1>1, <1>2, <2>3, <2>4, <2>8
<1> QED BY <1>3, <1>4

-----------------------------------------------------------------------------
(* The host keeps the invariant *)

\* An answered open keeps it, whatever became of the old file.
LEMMA HostOpenKept ==
  ASSUME Inv, SysStill, fw' \in FwType, go' = go, fin' = fin,
         fw.state = "OPEN_WAIT", file' \in {file, <<>>},
         \/ fw.aborting /\ FwMoves("FAIL", fw.req, fw.failedOpen)
         \/ FwMoves("FAIL", fw.req, TRUE)
         \/ FwMoves("ASK", fw.req, fw.failedOpen)
  PROVE  WriterOK' /\ Edges' /\ Handshake' /\ RunOK' /\ Books'
<1>t. /\ WriterOK /\ Edges /\ Handshake /\ RunOK /\ ChunkOK
      /\ go \in BOOLEAN /\ fin \in BOOLEAN /\ abortL \in BOOLEAN
      /\ fw \in FwType
  BY DEF Inv, EngOK, WriterOK, FwType
<1>e. /\ Running /\ Running' /\ eng.ss = "RUN" /\ ~eng.rdStart
      /\ eng' = eng /\ chunk' = chunk /\ buffer' = buffer /\ abortL' = abortL
      /\ TotalBytes' = TotalBytes /\ Expected' = Expected /\ TotalBytes \in Nat /\ TotalBytes > 0
      /\ Len(buffer) \in Nat /\ Len(file) \in Nat /\ Len(file') \in Nat /\ file' \in Seq(Byte)
      /\ Len(file') <= Len(file)
  <2>1. Running
    BY LengthAsked
  <2>2. eng.ss = "RUN" /\ ~eng.rdStart
    BY <2>1 DEF Running, Inv, EngOK
  <2>3. <<>> \in Seq(Byte) /\ Len(<<>>) = 0
    OBVIOUS
  <2>4. file \in Seq(Byte) /\ Len(file) \in Nat /\ Len(buffer) \in Nat
    BY <1>t DEF ChunkOK, WriterOK
  <2>5. file' \in Seq(Byte) /\ Len(file') \in Nat /\ Len(file') <= Len(file)
    <3>1. CASE file' = file
      BY <3>1, <2>4
    <3>2. CASE file' = <<>>
      BY <3>2, <2>3, <2>4
    <3> QED BY <3>1, <3>2
  <2>6. /\ eng' = eng /\ chunk' = chunk /\ buffer' = buffer /\ abortL' = abortL /\ go' = go
        /\ TotalBytes' = TotalBytes /\ Expected' = Expected
    BY UnitsStill, Zenon DEF SysStill
  <2>7. Running'
    BY <2>1, <2>6 DEF Running
  <2> QED BY <2>1, <2>2, <2>4, <2>5, <2>6, <2>7, Totals
<1>m. /\ fw'.written = fw.written /\ fw.written = 0 /\ ~eng.skip /\ (fw.aborting => abortL)
      /\ fw'.state \in {"FAIL", "ASK"} /\ fw'.req = fw.req /\ fw'.aborting = (fw.aborting \/ abortL)
      /\ fw'.failed = fw.failed
  BY <1>e, <1>t DEF RunOK, FwMoves, FwBecomes
<1>f. fw.aborting \in BOOLEAN /\ fw'.aborting \in BOOLEAN /\ fw.written \in Nat
  BY <1>t DEF FwType
<1>h. /\ chunk.state # "IDLE" => abortL
      /\ chunk.state # "IDLE" =>
           Len(buffer) + (IF chunk.state = "FILL" THEN chunk.left ELSE 0) = ChunkLen(TotalBytes)
      /\ ~Handing /\ ~Handing' /\ ChunkLen(TotalBytes)' = ChunkLen(TotalBytes)
  BY <1>t, <1>e, <1>m DEF Handshake, Handing, ChunkLen
<1>1. Edges'
  BY <1>t, <1>e, <1>m DEF Edges
<1>2. WriterOK'
  <2>1. Longest' = Longest /\ Longest \in Nat
    BY Totals DEF Longest, SaveBytes, RomImage
  <2>2. Len(file') <= Longest
    BY <1>t, <1>e, <2>1 DEF WriterOK
  <2> QED BY <2>1, <2>2, <1>t, <1>e, <1>m DEF WriterOK, FwType
<1>3. Handshake'
  BY <1>h, <1>e DEF Handshake
<1>4. RunOK'
  BY <1>e, <1>m, <1>h, <1>f DEF RunOK
<1>5. Sent' = Sent
  BY <1>e, <1>m, <1>h, Zenon DEF Sent
<1>6. FileRight => FileRight'
  <2>1. \A i \in 1 .. fw'.written : file'[i] = Expected'[i]
    BY <1>m
  <2> QED BY <2>1, <1>e, <1>m, <1>h, Zenon DEF FileRight
<1>7. fw'.state = "FAIL" => fw'.failedOpen \/ abortL
  BY <1>m DEF FwMoves, FwBecomes
<1>8. Books'
  BY <1>5, <1>6, <1>7, <1>e, <1>m, BooksStill
<1> QED BY <1>1, <1>2, <1>3, <1>4, <1>8

\* The host's answer to a write: the chunk goes, and counts or is lost.
LEMMA HostWriteIs ==
  ASSUME Inv, SysStill, fw.state = "WRITE_WAIT", ~chunk.ack
  PROVE  /\ Running /\ eng.ss = "RUN" /\ ~eng.rdStart /\ InDump /\ chunk.state = "IDLE"
         /\ Len(buffer) = ChunkLen(TotalBytes) /\ Len(buffer) \in Nat /\ Len(buffer) > 0
         /\ fw.written + Len(buffer) <= TotalBytes /\ fw.written < TotalBytes
         /\ fw.written \in Nat /\ fw.written <= Len(file) /\ Len(file) \in Nat
         /\ TotalBytes \in Nat /\ Longest \in Nat /\ TotalBytes <= Longest
         /\ Sent = fw.written + Len(buffer)
         /\ buffer \in Seq(Byte) /\ file \in Seq(Byte)
<1>1. Running
  BY LengthAsked
<1>2. eng.ss = "RUN" /\ ~eng.rdStart /\ InDump
  BY <1>1 DEF Running, Inv, EngOK, InDump
<1>3. chunk.state = "IDLE" /\ Len(buffer) = ChunkLen(TotalBytes)
  BY DEF Inv, Handshake, Handing
<1>4. fw.written < TotalBytes /\ fw.written <= Len(file)
  BY <1>1 DEF Inv, RunOK, Handing
<1>5. /\ buffer \in Seq(Byte) /\ file \in Seq(Byte) /\ Len(buffer) \in Nat /\ Len(file) \in Nat
      /\ fw.written \in Nat
  BY DEF Inv, WriterOK, ChunkOK
<1>6. Len(buffer) > 0 /\ fw.written + Len(buffer) <= TotalBytes
  BY <1>3, <1>4, <1>5, Totals, ChunkAssumption DEF ChunkLen
<1>7. Sent = fw.written + Len(buffer)
  BY <1>1, Zenon DEF Sent, Running, Handing
<1> QED BY <1>1, <1>2, <1>3, <1>4, <1>5, <1>6, <1>7, Totals

\* A write that fails keeps it: the chunk is lost and the dump short.
LEMMA HostLostKept ==
  ASSUME Inv, SysStill, fw' \in FwType, go' = go, fin' = fin,
         fw.state = "WRITE_WAIT", ~chunk.ack,
         file' \in {file, PutAt(file, fw.written, buffer)},
         FwMoves("FAIL", fw.req, fw.failedOpen)
  PROVE  WriterOK' /\ Edges' /\ Handshake' /\ RunOK' /\ Books'
<1>t. /\ WriterOK /\ Edges /\ Handshake /\ RunOK
      /\ go \in BOOLEAN /\ fin \in BOOLEAN /\ abortL \in BOOLEAN
      /\ fw \in FwType
  BY DEF Inv, EngOK, WriterOK, FwType
<1>w. /\ Running /\ eng.ss = "RUN" /\ ~eng.rdStart /\ InDump /\ chunk.state = "IDLE"
      /\ Len(buffer) = ChunkLen(TotalBytes) /\ Len(buffer) \in Nat /\ Len(buffer) > 0
      /\ fw.written + Len(buffer) <= TotalBytes /\ fw.written < TotalBytes
      /\ fw.written \in Nat /\ fw.written <= Len(file) /\ Len(file) \in Nat
      /\ TotalBytes \in Nat /\ Longest \in Nat /\ TotalBytes <= Longest
      /\ Sent = fw.written + Len(buffer)
      /\ buffer \in Seq(Byte) /\ file \in Seq(Byte)
  BY HostWriteIs
<1>u. /\ eng' = eng /\ chunk' = chunk /\ buffer' = buffer /\ abortL' = abortL
      /\ TotalBytes' = TotalBytes /\ Expected' = Expected /\ Running'
  BY <1>w, UnitsStill DEF SysStill, Running
<1>m. /\ fw'.written = fw.written /\ fw'.state = "FAIL" /\ (fw.aborting => abortL)
      /\ fw'.req = fw.req /\ fw'.aborting = (fw.aborting \/ abortL)
      /\ fw'.failed = fw.failed /\ fw'.failedOpen = fw.failedOpen /\ ~Handing'
      /\ (eng.skip => ~fw.failedOpen)
  BY <1>w, <1>t DEF RunOK, FwMoves, FwBecomes, Handing
<1>f. fw.aborting \in BOOLEAN /\ fw'.aborting \in BOOLEAN
  BY <1>t DEF FwType
<1>p. /\ file' \in Seq(Byte) /\ Len(file') >= fw.written /\ Len(file') <= Longest
      /\ Len(file') \in Nat
  <2>1. Len(file) <= Longest
    BY <1>t DEF WriterOK
  <2>2. fw.written \in 0 .. Len(file)
    BY <1>w
  <2>3. /\ PutAt(file, fw.written, buffer) \in Seq(Byte)
        /\ Len(PutAt(file, fw.written, buffer)) =
             IF fw.written + Len(buffer) > Len(file) THEN fw.written + Len(buffer) ELSE Len(file)
    BY <2>2, <1>w, Put
  <2>4. CASE file' = file
    BY <2>1, <2>4, <1>w
  <2>5. CASE file' = PutAt(file, fw.written, buffer)
    <3> DEFINE f == PutAt(file, fw.written, buffer)
    <3>1. /\ f \in Seq(Byte)
          /\ Len(f) = IF fw.written + Len(buffer) > Len(file) THEN fw.written + Len(buffer) ELSE Len(file)
          /\ file' = f
      BY <2>3, <2>5
    <3> HIDE DEF f
    <3> QED BY <3>1, <2>1, <1>w
  <2> QED BY <2>4, <2>5
<1>1. Edges'
  BY <1>t, <1>w, <1>u, <1>m DEF Edges
<1>2. WriterOK'
  <2>1. Longest' = Longest
    BY DEF Longest, SaveBytes, RomImage
  <2> QED BY <2>1, <1>t, <1>p, <1>m DEF WriterOK, FwType
<1>3. Handshake'
  BY <1>w, <1>u, <1>m DEF Handshake
<1>4. RunOK'
  BY <1>w, <1>u, <1>m, <1>p, <1>f DEF RunOK
<1>5. Short'
  <2>1. Sent' = fw.written + 0
    BY <1>w, <1>u, <1>m, Zenon DEF Sent, Running
  <2>2. Short \/ Exact
    BY <1>w DEF Inv, Books
  <2>3. OwnBounds
    BY OwnRange, Wires, Zenon DEF Inv, OwnOK
  <2>4. OwnLeft + (fw.written + 0) < TotalBytes
    BY <2>2, <2>3, <1>w DEF Short, Exact, OwnBounds
  <2>5. OwnLeft' = OwnLeft
    BY UnitsStill, Zenon
  <2> QED BY <2>1, <2>4, <2>5, <1>u, Zenon DEF Short
<1>6. /\ SaveLeft' = SaveLeft /\ RomRest' = RomRest /\ InDump' /\ InDump
      /\ SaveTotal' = SaveTotal /\ RomTotal' = RomTotal
  BY <1>w, <1>u, UnitsStill DEF SaveTotal, RomTotal, InDump
<1>7. /\ ~(InDump /\ eng.save) => SaveLeft < SaveTotal
      /\ ~(InDump /\ ~eng.save) => RomRest < RomTotal
  BY Zenon DEF Inv, Books
<1>8. Books'
  BY <1>5, <1>6, <1>7, <1>w, <1>u DEF Books
<1> QED BY <1>1, <1>2, <1>3, <1>4, <1>8

\* A write that succeeds keeps it: the chunk moves from the buffer to the file.
LEMMA HostWrittenKept ==
  ASSUME Inv, SysStill, fw' \in FwType, go' = go, fin' = fin,
         fw.state = "WRITE_WAIT", ~chunk.ack,
         file' = PutAt(file, fw.written, buffer),
         FwBecomes(IF fw.written + ChunkLen(TotalBytes) = TotalBytes THEN "DONE" ELSE "ASK",
                   fw.written + ChunkLen(TotalBytes), fw.aborting \/ abortL, fw.req,
                   fw.failed, fw.failedOpen)
  PROVE  WriterOK' /\ Edges' /\ Handshake' /\ RunOK' /\ Books'
<1>t. /\ WriterOK /\ Edges /\ Handshake /\ RunOK
      /\ go \in BOOLEAN /\ fin \in BOOLEAN /\ abortL \in BOOLEAN
      /\ fw \in FwType
  BY DEF Inv, EngOK, WriterOK, FwType
<1>w. /\ Running /\ eng.ss = "RUN" /\ ~eng.rdStart /\ InDump /\ chunk.state = "IDLE"
      /\ Len(buffer) = ChunkLen(TotalBytes) /\ Len(buffer) \in Nat /\ Len(buffer) > 0
      /\ fw.written + Len(buffer) <= TotalBytes /\ fw.written < TotalBytes
      /\ fw.written \in Nat /\ fw.written <= Len(file) /\ Len(file) \in Nat
      /\ TotalBytes \in Nat /\ Longest \in Nat /\ TotalBytes <= Longest
      /\ Sent = fw.written + Len(buffer)
      /\ buffer \in Seq(Byte) /\ file \in Seq(Byte)
  BY HostWriteIs
<1>u. /\ eng' = eng /\ chunk' = chunk /\ buffer' = buffer /\ abortL' = abortL
      /\ TotalBytes' = TotalBytes /\ Expected' = Expected /\ Running'
  BY <1>w, UnitsStill DEF SysStill, Running
<1> DEFINE n == fw.written + Len(buffer)
<1>m. /\ fw'.written = n /\ fw'.state = (IF n = TotalBytes THEN "DONE" ELSE "ASK")
      /\ (fw.aborting => abortL)
      /\ fw'.req = fw.req /\ fw'.aborting = (fw.aborting \/ abortL)
      /\ fw'.failed = fw.failed /\ fw'.failedOpen = fw.failedOpen /\ ~Handing'
      /\ (eng.skip => ~fw.failedOpen)
  BY <1>w, <1>t DEF RunOK, FwBecomes, Handing
<1>f. fw.aborting \in BOOLEAN /\ fw'.aborting \in BOOLEAN
  BY <1>t DEF FwType
<1>q. fw.written \in 0 .. Len(file)
  BY <1>w
<1>r. /\ PutAt(file, fw.written, buffer) \in Seq(Byte)
      /\ Len(PutAt(file, fw.written, buffer)) =
           IF fw.written + Len(buffer) > Len(file) THEN fw.written + Len(buffer) ELSE Len(file)
      /\ \A i \in 1 .. fw.written : PutAt(file, fw.written, buffer)[i] = file[i]
      /\ \A i \in 1 .. Len(buffer) : PutAt(file, fw.written, buffer)[fw.written + i] = buffer[i]
  BY <1>q, <1>w, Put
<1> DEFINE f == PutAt(file, fw.written, buffer)
<1>s. /\ f \in Seq(Byte) /\ file' = f
      /\ Len(f) = IF n > Len(file) THEN n ELSE Len(file)
      /\ \A i \in 1 .. fw.written : f[i] = file[i]
      /\ \A i \in 1 .. Len(buffer) : f[fw.written + i] = buffer[i]
  BY <1>r, Zenon
<1>n. n \in Nat /\ n <= TotalBytes /\ n = fw.written + Len(buffer)
  BY <1>w
<1> HIDE DEF f, n
<1>p. Len(f) >= n /\ Len(f) <= Longest /\ Len(f) \in Nat
  <2>1. Len(file) <= Longest
    BY <1>t DEF WriterOK
  <2> QED BY <2>1, <1>s, <1>n, <1>w
<1>1. Edges'
  BY <1>t, <1>w, <1>u, <1>m DEF Edges
<1>2. WriterOK'
  <2>1. Longest' = Longest
    BY DEF Longest, SaveBytes, RomImage
  <2>2. n <= Longest
    BY <1>n, <1>w
  <2> QED BY <2>1, <2>2, <1>t, <1>s, <1>p, <1>m DEF WriterOK, FwType
<1>3. Handshake'
  BY <1>w, <1>u, <1>m DEF Handshake
<1>4. RunOK'
  BY <1>w, <1>u, <1>m, <1>n, <1>s, <1>p, <1>f DEF RunOK
<1>5. Sent' = Sent
  <2>1. Sent' = n + 0
    BY <1>w, <1>u, <1>m, Zenon DEF Sent, Running
  <2>2. n + 0 = Sent
    BY <1>n, <1>w
  <2> QED BY <2>1, <2>2, Zenon
<1>6. FileRight => FileRight'
  <2> SUFFICES ASSUME FileRight PROVE FileRight'
    OBVIOUS
  <2>1. /\ \A i \in 1 .. fw.written : file[i] = Expected[i]
        /\ \A i \in 1 .. Len(buffer) : buffer[i] = Expected[fw.written + i]
    BY <1>w, Zenon DEF FileRight, Handing
  <2>2. \A i \in 1 .. n : f[i] = Expected[i]
    <3> TAKE i \in 1 .. n
    <3>1. CASE i <= fw.written
      BY <3>1, <2>1, <1>s, <1>w, <1>n
    <3>2. CASE i > fw.written
      <4>1. i - fw.written \in 1 .. Len(buffer) /\ fw.written + (i - fw.written) = i
        BY <3>2, <1>n, <1>w
      <4>2. f[fw.written + (i - fw.written)] = Expected[fw.written + (i - fw.written)]
        BY <4>1, <2>1, <1>s
      <4> QED BY <4>1, <4>2
    <3> QED BY <3>1, <3>2, <1>n, <1>w
  <2> QED BY <2>2, <1>w, <1>u, <1>m, <1>s, Zenon DEF FileRight
<1>7. fw'.state # "FAIL" /\ fw'.state # "IDLE"
  BY <1>m
<1>8. Books'
  BY <1>5, <1>6, <1>7, <1>w, BooksStill
<1> QED BY <1>1, <1>2, <1>3, <1>4, <1>8

\* A step that leaves clk_sys alone and keeps the other clock's share keeps
\* the invariant.
LEMMA StillKept ==
  ASSUME Inv, SysStill, go' \in BOOLEAN, fin' \in BOOLEAN,
         WriterOK' /\ Edges' /\ Handshake' /\ RunOK' /\ Books'
  PROVE  Inv'
<1>1. /\ SaveOK' /\ RomOK' /\ BusOK' /\ CartOK' /\ ChunkOK' /\ Coupled' /\ Latched'
  BY UnitsStill, Zenon
<1>2. EngOK'
  BY Zenon DEF Inv, EngOK, SysStill
<1> QED BY <1>1, <1>2, Zenon DEF Inv

\* A clock of the writer keeps the invariant.
LEMMA WriterClockKept ==
  ASSUME Inv, WriterClock
  PROVE  Inv'
<1>1. fw \in FwType /\ abortL \in BOOLEAN
  BY DEF Inv, WriterOK, EngOK, FwType
<1>2. WriterFx /\ fw' \in FwType /\ file' = file /\ SysStill
  BY <1>1, WriterClockFx, Stills
<1>3. WriterOK' /\ Edges' /\ Handshake' /\ RunOK' /\ Books' /\ go' \in BOOLEAN /\ fin' \in BOOLEAN
  BY <1>2, WriterKept
<1> QED BY <1>2, <1>3, StillKept

\* An answer of the host keeps the invariant.
LEMMA HostKept ==
  ASSUME Inv, HostAnswers
  PROVE  Inv'
<1>1. HostFx /\ fw' \in FwType /\ SysStill
  BY HostFxIs, Stills
<1>2. go' = go /\ fin' = fin
  BY <1>1 DEF HostFx
<1>6. WriterOK' /\ Edges' /\ Handshake' /\ RunOK' /\ Books'
  <2>1. CASE /\ fw.state = "OPEN_WAIT" /\ file' \in {file, <<>>}
             /\ \/ fw.aborting /\ FwMoves("FAIL", fw.req, fw.failedOpen)
                \/ FwMoves("FAIL", fw.req, TRUE)
                \/ FwMoves("ASK", fw.req, fw.failedOpen)
    BY <1>1, <1>2, <2>1, HostOpenKept, Zenon
  <2>2. CASE /\ fw.state = "WRITE_WAIT" /\ ~chunk.ack
             /\ file' \in {file, PutAt(file, fw.written, buffer)}
             /\ FwMoves("FAIL", fw.req, fw.failedOpen)
    BY <1>1, <1>2, <2>2, HostLostKept, Zenon
  <2>3. CASE /\ fw.state = "WRITE_WAIT" /\ ~chunk.ack
             /\ file' = PutAt(file, fw.written, buffer)
             /\ FwBecomes(IF fw.written + ChunkLen(TotalBytes) = TotalBytes THEN "DONE" ELSE "ASK",
                          fw.written + ChunkLen(TotalBytes), fw.aborting \/ abortL, fw.req,
                          fw.failed, fw.failedOpen)
    BY <1>1, <1>2, <2>3, HostWrittenKept, Zenon
  <2> QED BY <1>1, <2>1, <2>2, <2>3, Zenon DEF HostFx
<1>7. go \in BOOLEAN /\ fin \in BOOLEAN
  BY DEF Inv, EngOK
<1> QED BY <1>1, <1>2, <1>6, <1>7, StillKept

-----------------------------------------------------------------------------
(* The supply *)


\* A supply that comes or goes changes nothing the invariant is about.
LEMMA SupplyKept ==
  ASSUME Inv, powered' \in BOOLEAN,
         UNCHANGED <<eng, abortL, go, fin, mode, dumps, save, romRd, romReg, chunkVars,
                     writerVars, busVars, cartVars>>
  PROVE  Inv'
<1>s. /\ eng' = eng /\ abortL' = abortL /\ go' = go /\ fin' = fin /\ mode' = mode
      /\ save' = save /\ romRd' = romRd /\ romReg' = romReg
      /\ chunk' = chunk /\ buffer' = buffer /\ fw' = fw /\ file' = file
      /\ busState' = busState /\ busDone' = busDone /\ busRefuse' = busRefuse /\ bus' = bus
      /\ gate' = gate /\ bankReg' = bankReg /\ modeReg' = modeReg /\ ram' = ram
  BY DEF chunkVars, writerVars, busVars, cartVars
<1>t. /\ SaveOK /\ RomOK /\ BusOK /\ CartOK /\ ChunkOK /\ WriterOK /\ EngOK
      /\ Edges /\ Handshake /\ RunOK /\ Coupled /\ Latched /\ Books
  BY Zenon DEF Inv
<1>1. SaveOK' /\ RomOK' /\ BusOK' /\ CartOK' /\ ChunkOK'
  <2>1. RomReadAddr' = RomReadAddr
    BY <1>s DEF RomReadAddr
  <2>2. SaveOK'
    BY <1>s, <1>t, Zenon DEF SaveOK, SaveTransferOK
  <2>3. RomOK'
    BY <1>s, <1>t, <2>1, Zenon DEF RomOK, RomTransferOK
  <2>4. BusOK' /\ CartOK' /\ ChunkOK'
    BY <1>s, <1>t, Zenon DEF BusOK, TransferOK, CartOK, ChunkOK
  <2> QED BY <2>2, <2>3, <2>4
<1>2. WriterOK' /\ EngOK'
  <2>1. Longest' = Longest
    BY DEF Longest, SaveBytes, RomImage
  <2>2. WriterOK'
    BY <1>s, <1>t, <2>1 DEF WriterOK
  <2>3. EngOK'
    BY <1>s, <1>t DEF EngOK
  <2> QED BY <2>2, <2>3
<1>3. /\ Expected' = Expected /\ TotalBytes' = TotalBytes /\ Running' = Running /\ Handing' = Handing
      /\ InDump' = InDump
  <2>1. Expected' = Expected
    BY <1>s DEF Expected, SaveBytes, RomImage
  <2> QED BY <1>s, <2>1 DEF TotalBytes, Running, Handing, InDump
<1>4. Edges' /\ Handshake' /\ RunOK'
  <2>1. ChunkLen(TotalBytes)' = ChunkLen(TotalBytes)
    BY <1>s, <1>3 DEF ChunkLen
  <2>2. Edges'
    BY <1>s, <1>t DEF Edges
  <2>3. Handshake'
    BY <1>s, <1>t, <1>3, <2>1 DEF Handshake
  <2>4. RunOK'
    BY <1>s, <1>t, <1>3 DEF RunOK
  <2> QED BY <2>2, <2>3, <2>4
<1>5. Coupled' /\ Latched'
  <2>1. Coupled'
    BY <1>s, <1>t DEF Coupled, Connected, Busy, BusBusy
  <2>2. Latched'
    BY <1>s, <1>t DEF Latched, Connected, Busy, Landed
  <2> QED BY <2>1, <2>2
<1>6. Books'
  <2>1. /\ SavePos' = SavePos /\ RomPos' = RomPos
        /\ SaveTotal' = SaveTotal /\ RomTotal' = RomTotal
    BY <1>s DEF SavePos, RomPos, SaveTotal, RomTotal
  <2>2. SaveRest' = SaveRest /\ RomRest' = RomRest
    BY <1>s, <2>1, Zenon DEF SaveRest, RomRest
  <2>3. SaveLeft' = SaveLeft
    BY <1>s, <2>2, Zenon DEF SaveLeft
  <2>4. OwnRest' = OwnRest /\ OwnLeft' = OwnLeft
    BY <1>s, <2>2, <2>3, Zenon DEF OwnRest, OwnLeft
  <2>5. Sent' = Sent
    BY <1>s, <1>3 DEF Sent
  <2>6. ReaderRight' = ReaderRight
    BY <1>s DEF ReaderRight, SaveRight, RomRight
  <2>7. SaveUndone' = SaveUndone
    BY <1>s, <2>2 DEF SaveUndone
  <2>8. FileRight' = FileRight
    BY <1>s, <1>3 DEF FileRight
  <2>9. Short' = Short /\ Exact' = Exact
    BY <2>4, <2>5, <2>6, <2>7, <2>8, <1>3, Zenon DEF Short, Exact
  <2> QED BY <1>s, <1>t, <1>3, <2>1, <2>2, <2>3, <2>7, <2>9 DEF Books
<1> QED BY <1>1, <1>2, <1>4, <1>5, <1>6, Zenon DEF Inv

-----------------------------------------------------------------------------
(* The invariant *)

\* What the latches hold out of reset fits every type.
LEMMA NoTransferFits ==
  /\ NoTransfer \in [wr : BOOLEAN, addr : BusAddrs, data : Nat]
  /\ NoTransfer \in [wr : BOOLEAN, addr : SaveAddrs, data : Nat]
  /\ NoTransfer \in [wr : BOOLEAN, addr : RomAddrSet, data : Nat]
  /\ NoTransfer.wr = FALSE /\ NoTransfer.addr = Gate /\ NoTransfer.data = 0
  /\ Gate # Mode
<1>1. Gate \in BusAddrs /\ Gate \in SaveAddrs /\ Gate \in RomAddrSet
  BY RomAddrSetHas DEF BusAddrs, SaveAddrs
<1> QED BY <1>1 DEF NoTransfer, Gate, Mode

\* The invariant holds out of reset.
LEMMA InitHolds == Init => Inv
<1> SUFFICES ASSUME Init PROVE Inv
  OBVIOUS
<1>e. /\ eng.ss = "IDLE" /\ eng.save = FALSE /\ eng.rdStart = FALSE
      /\ eng \in EngType
      /\ abortL = FALSE /\ go = FALSE /\ fin = FALSE /\ mode = FALSE /\ powered = TRUE
  <2>1. "IDLE" \in EngineStates /\ 0 \in 0 .. Combos + 1
    BY DumpAssumption DEF EngineStates
  <2> QED BY <2>1 DEF Init, EngType
<1>1. SaveOK /\ save.state = "IDLE" /\ save.abort = FALSE
  <2>1. /\ save = [state |-> "IDLE", offset |-> 0, bank |-> 0, restore |-> FALSE,
                   abort |-> FALSE, data |-> 0, valid |-> FALSE, req |-> FALSE,
                   transfer |-> NoTransfer]
    BY DEF Init, SaveInit
  <2>2. save \in SaveType
    <3>1. 0 \in 0 .. BankBytes - 1 /\ 0 \in 0 .. MaxBanks - 1 /\ 0 \in Byte /\ "IDLE" \in SaveStates
      BY SaveBounds DEF SaveStates
    <3> QED BY <2>1, <3>1, NoTransferFits, SaveTypeIs
  <2>3. /\ save.state = "IDLE" /\ save.abort = FALSE /\ save.req = FALSE /\ save.valid = FALSE
        /\ save.transfer = NoTransfer
    BY <2>1
  <2>4. SaveTransferOK
    BY <2>3, NoTransferFits DEF SaveTransferOK
  <2> QED BY <2>2, <2>3, <2>4 DEF SaveOK, SavePassing, SaveProbing, SaveOpening, SaveWaiting
<1>2. RomOK /\ romRd.state = "IDLE"
  <2>1. /\ romRd \in RomType /\ romRd.state = "IDLE" /\ romRd.req = FALSE /\ romRd.valid = FALSE
        /\ romRd.transfer = NoTransfer
    BY RomRecords DEF Init, RomInit, RomIdle
  <2>2. RomTransferOK
    BY <2>1, NoTransferFits DEF RomTransferOK
  <2> QED BY <2>1, <2>2 DEF RomOK
<1>3. BusOK /\ busState = "IDLE" /\ busDone = FALSE
  <2>1. bus = NoTransfer /\ busState = "IDLE" /\ busDone = FALSE /\ busRefuse = FALSE
    BY DEF Init, BusInit
  <2> QED BY <2>1, NoTransferFits DEF BusOK, TransferOK
<1>4. CartOK
  <2>1. 0 \in 0 .. MaxBanks - 1
    BY SaveBounds
  <2> QED BY <2>1 DEF Init, CartOK, RomInit
<1>5. ChunkOK /\ chunk.state = "IDLE"
  <2>1. chunk = [state |-> "IDLE", left |-> 0, ready |-> FALSE, ack |-> FALSE] /\ buffer = <<>>
    BY DEF Init, ChunkInit, ChunkIdle
  <2>2. <<>> \in Seq(Byte) /\ Len(<<>>) = 0
    OBVIOUS
  <2> QED BY <2>1, <2>2, ChunkAssumption DEF ChunkOK
<1>6. WriterOK /\ fw.state = "IDLE"
  <2>1. /\ fw = [state |-> "IDLE", written |-> 0, aborting |-> FALSE, req |-> FALSE,
                 failed |-> FALSE, failedOpen |-> FALSE]
        /\ file = <<>>
    BY DEF Init, FileWriterInit
  <2>2. <<>> \in Seq(Byte) /\ Len(<<>>) = 0 /\ Longest \in Nat
    BY Totals
  <2> QED BY <2>1, <2>2, WriterStatesHas DEF WriterOK
<1>7. EngOK
  BY <1>e DEF EngOK, EngType
<1>8. Edges /\ Handshake /\ RunOK
  BY <1>e, <1>5, <1>6 DEF Edges, Handshake, RunOK, Running, Handing
<1>9. Coupled /\ Latched
  BY <1>e DEF Coupled, Latched, Connected
<1>10. Books
  <2>1. SaveLeft = 0 /\ RomRest = 0
    BY <1>1, <1>2 DEF SaveLeft, SaveRest, RomRest, SaveClosing
  <2> QED BY <2>1, <1>e, Totals DEF Books, InDump, Running
<1> QED BY <1>1, <1>2, <1>3, <1>4, <1>5, <1>6, <1>7, <1>8, <1>9, <1>10, Zenon DEF Inv

\* Every step keeps the invariant.
LEMMA NextKept == Inv /\ [Next]_vars => Inv'
<1> SUFFICES ASSUME Inv, [Next]_vars PROVE Inv'
  OBVIOUS
<1>1. CASE SysClock
  BY <1>1, ClockKept
<1>2. CASE WriterClock
  BY <1>2, WriterClockKept
<1>3. CASE HostAnswers
  BY <1>3, HostKept
<1>4. CASE Supply
  BY <1>4, SupplyKept DEF Supply
<1>5. CASE UNCHANGED vars
  <2>1. powered \in BOOLEAN
    BY DEF Inv, EngOK
  <2> QED BY <1>5, <2>1, SupplyKept DEF vars
<1> QED BY <1>1, <1>2, <1>3, <1>4, <1>5 DEF Next

\* The invariant holds in every reachable state.
THEOREM InvAlways == Spec => []Inv
BY InitHolds, NextKept, PTL DEF Spec

-----------------------------------------------------------------------------
(* The theorems *)

\* Every register of sequencer, readers, chunk source and writer keeps its
\* type, and no dump makes the file longer than the longest dump is.
THEOREM TypeKept == Spec => []TypeOK
<1>1. Inv => TypeOK
  <2> SUFFICES ASSUME Inv PROVE TypeOK
    OBVIOUS
  <2>1. ram \in [Cell -> Byte]
    BY DumpAssumption DEF Inv, CartOK
  <2>2. fw.state \in WriterStates /\ fw.written \in 0 .. Longest /\ Len(file) <= Longest
    BY Totals DEF Inv, WriterOK
  <2>3. chunk.left \in 0 .. ChunkBytes /\ Len(buffer) <= ChunkBytes
    BY DEF Inv, ChunkOK
  <2> QED BY <2>1, <2>2, <2>3 DEF Inv, EngOK, SaveOK, RomOK, TypeOK
<1> QED BY <1>1, InvAlways, PTL

\* The writer samples the start only when it is idle and the sequencer the
\* finish only in SS_RUN (dump_engine.sv:672-673): neither edge is on its way
\* while the other side is elsewhere, so none is lost and none is heard by the
\* next dump.
THEOREM EdgesHeardAlways == Spec => []EdgesHeard
<1>1. Inv => EdgesHeard
  BY DEF Inv, EngOK, Edges, EdgesHeard
<1> QED BY <1>1, InvAlways, PTL

\* A dump reported complete (dump_engine.sv:721-739) has put every byte of the
\* cartridge, in order, at the head of the file, whatever was refused,
\* cancelled or unplugged before it and however often a path was tried.
THEOREM CompleteIsRight == Spec => FileIsRight
<1>1. Inv /\ [Next]_vars => [Ends /\ ~eng.failed => SubSeq(file, 1, TotalBytes) = Expected]_vars
  BY DEF Inv, Books, Ends
<1> QED BY <1>1, InvAlways, PTL DEF Spec, FileIsRight

\* How a save dump that is not failed ends: past its last byte, with the
\* cartridge put back.
LEMMA EndsPutBack ==
  ASSUME Inv, SysClock, Ends, eng.save, ~eng.failed
  PROVE  ~gate /\ modeReg = 0 /\ ~BusBusy
<1>1. SaveRest = 0 /\ SaveUndone /\ SaveOK /\ CartOK /\ eng.ss = "END"
  BY DEF Inv, Books, Ends
<1>2. save.state # "EMIT"
  <2>1. OwnBounds
    BY OwnRange, Wires, <1>1, Zenon DEF Inv, OwnOK
  <2> QED BY <2>1, <1>1 DEF OwnBounds
<1>3. ~BusBusy /\ save.state = "IDLE"
  <2>1. PICK cancel \in Cancels, start \in Starts, req \in {fw.req, chunk.state = "ACK"} :
          Clock(cancel, start, req)
    BY Zenon DEF SysClock
  <2>2. EngFx(start)
    BY <2>1, ClockParts, Zenon DEF ClockFx
  <2>3. (~BusBusy /\ ~(eng.save /\ SaveBusy)) \/ Stranded
    BY <2>2, <1>1 DEF EngFx, EngSame, EngBecomes, Ends
  <2> QED BY <2>3, <1>2 DEF Stranded, SaveBusy
<1>4. gate \in BOOLEAN /\ gate = FALSE /\ modeReg = 0
  BY <1>1, <1>3 DEF SaveUndone, SaveClosing, CartOK
<1> QED BY <1>3, <1>4

\* Nothing a dump does changes a byte of the save (cart_save_gb.sv:18-24), and
\* a save dump that completes leaves the gate shut, an MBC1 in mode 0 and the
\* bus idle (cart_save_gb.sv:409-445).
THEOREM CartridgeAsFound == Spec => LeftAsFound
<1>1. ASSUME Inv, [Next]_vars
      PROVE  [/\ ram' = ram
              /\ Ends /\ eng.save /\ ~eng.failed /\ powered => ~gate /\ modeReg = 0 /\ ~BusBusy]_vars
  <2>1. CASE SysClock
    <3>1. ram' = ram
      <4>1. PICK cancel \in Cancels, start \in Starts, req \in {fw.req, chunk.state = "ACK"} :
              Clock(cancel, start, req)
        BY <2>1, Zenon DEF SysClock
      <4> QED BY <4>1, <1>1, ClockParts, Zenon DEF ClockFx, CartFx
    <3>2. Ends /\ eng.save /\ ~eng.failed /\ powered => ~gate /\ modeReg = 0 /\ ~BusBusy
      BY <1>1, <2>1, EndsPutBack
    <3> QED BY <3>1, <3>2
  <2>2. CASE WriterClock \/ HostAnswers
    <3>1. SysStill
      BY <2>2, Stills DEF WriterClock, HostAnswers
    <3> QED BY <3>1 DEF SysStill, Ends
  <2>3. CASE Supply
    BY <2>3 DEF Supply, cartVars, Ends
  <2>4. CASE UNCHANGED vars
    BY <2>4
  <2> QED BY <1>1, <2>1, <2>2, <2>3, <2>4 DEF Next
<1> QED BY <1>1, InvAlways, PTL DEF Spec, LeftAsFound

=============================================================================
