---------------------------- MODULE RestoreEngine ----------------------------
(***************************************************************************)
(* The restore transaction, src/fpga/services/restore/restore_engine.sv.   *)
(*                                                                         *)
(* EngineClock(i) is one clock of the engine under the inputs i; its       *)
(* registers are the fields of `eng' and its memories those of `mem'.  The *)
(* engine's subordinates (the control writes, the ROM reader, the save     *)
(* reader, the writer and the SD file service) are seen through what they  *)
(* report: i.event, with the bytes they delivered in i.meta, i.image and   *)
(* i.rom.  A pass that takes many clocks is the event that ends it.        *)
(*                                                                         *)
(* A save, a ROM and a header are values compared for equality; a CRC is   *)
(* the value it is computed from, so a CRC collision is outside the model. *)
(***************************************************************************)
EXTENDS Naturals

CONSTANTS
  Image,    \* contents of a cartridge save
  Rom,      \* contents of a cartridge ROM
  Header,   \* what identification latches from a header
  HeaderOf, \* the header of a ROM
  WriteEnabled

ASSUME EngineAssumption ==
  /\ Image # {}
  /\ HeaderOf \in [Rom -> Header]
  /\ WriteEnabled \in BOOLEAN

VARIABLES eng, mem

\* The prepared metadata record: which game, and which save.
Meta == [valid : BOOLEAN, header : Header, rom : Rom, save : Image]

Phases ==
  {"IDLE", "META", "META_CHECK", "LOAD", "SAVE_CRC", "WAKE", "NORMALIZE",
   "ROM", "CAPTURE", "COMPARE", "BACKUP", "BACKUP_CHECK", "READY",
   "FINAL_ROM", "FINAL_SAVE", "PROGRAM", "VERIFY1", "VERIFY2", "COMPLETE",
   "FAIL", "CLEAN", "FINAL_PROBE"}

SavePhases == {"CAPTURE", "COMPARE", "FINAL_SAVE", "VERIFY1", "VERIFY2"}

\* A subordinate the engine has started and that has not reported yet.
Units == {"none", "ctl", "rom", "save", "writer"}

Events ==
  {"none",
   "scanned",             \* an internal scan or wait of the engine has ended
   "io_ok", "io_failed",  \* restore_file_io answers
   "ctl_done", "rom_done", "save_done", "writer_ok", "writer_failed",
   "probe_ok", "probe_failed"}

-----------------------------------------------------------------------------
Working == eng.phase \notin {"IDLE", "COMPLETE", "FAIL"}

\* Registers that hold for one clock.
Pulsed == [eng EXCEPT !.preflightDone = FALSE, !.done = FALSE,
                      !.reprobeStart = FALSE]

\* fail_with
Failed(e, reason) ==
  [e EXCEPT !.failed = TRUE, !.error = reason, !.aborting = TRUE,
            !.preflightOk = FALSE]

Report(e) ==
  [e EXCEPT !.phase = "FAIL", !.modeOwned = FALSE, !.aborting = FALSE,
            !.preflightDone = ~e.committing, !.done = e.committing]

BeginRom(e, final) ==
  [e EXCEPT !.phase = IF final THEN "FINAL_ROM" ELSE "ROM", !.unit = "rom"]

BeginSave(e, next) == [e EXCEPT !.phase = next, !.unit = "save"]

\* A reader or a writer does not notice that its cartridge lost power.
AnsweredWhenPowered(i) ==
  [Pulsed EXCEPT
     !.ioPending = @ /\ i.event \notin {"io_ok", "io_failed"},
     !.unit = IF i.event \in {"ctl_done", "rom_done", "save_done", "writer_ok",
                              "writer_failed"}
              THEN "none" ELSE @]

\* io_done clears io_pending, and a subordinate that reports is idle again,
\* whatever the sequencer makes of it.
Answered(i) ==
  [Pulsed EXCEPT
     !.ioPending = @ /\ i.event \notin {"io_ok", "io_failed"},
     !.unit = IF i.event \in {"ctl_done", "rom_done", "save_done", "writer_ok",
                              "writer_failed"} \/ ~i.powered
              THEN "none" ELSE @]

\* READY stops the timer and WAKE uses it for its own wait.
TimedOut(i) == i.timeout /\ eng.phase \notin {"READY", "WAKE"}
Stopped(i) == i.cancel \/ ~i.powered

FsmRuns(i) ==
  /\ ~eng.aborting
  /\ ~i.cancel
  /\ i.powered \/ ~Working
  /\ ~Working \/ ~TimedOut(i)

-----------------------------------------------------------------------------
(* Starting, stopping and draining *)

Restarted(e) ==
  [e EXCEPT !.failed = FALSE, !.error = 0, !.preflightOk = FALSE,
            !.committing = FALSE, !.aborting = FALSE, !.phase = "META"]

StartPreflight(i) ==
  /\ ~Working
  /\ FsmRuns(i)
  /\ i.start
  /\ i.powered /\ i.targetOk
  /\ eng' = [Restarted(Answered(i)) EXCEPT !.io = "meta", !.ioPending = TRUE]
  /\ mem' = [mem EXCEPT !.target = i.header]

RefusePreflight(i) ==
  /\ ~Working
  /\ FsmRuns(i)
  /\ i.start
  /\ ~(i.powered /\ i.targetOk)
  /\ eng' = Failed(Restarted(Answered(i)), 2)
  /\ UNCHANGED mem

\* Reported on the spot, with the reader or the writer still at work.
StopUndrained(i) ==
  /\ Working
  /\ ~eng.aborting
  /\ Stopped(i) \/ TimedOut(i)
  /\ eng' = Report(Failed(Answered(i), IF Stopped(i) THEN 10 ELSE 11))
  /\ UNCHANGED mem

\* A timeout, a cancellation or the loss of power while the engine works.
Stop(i) ==
  /\ Working
  /\ ~eng.aborting
  /\ Stopped(i) \/ TimedOut(i)
  /\ eng' = Failed(Answered(i), IF Stopped(i) THEN 10 ELSE 11)
  /\ UNCHANGED mem

\* Wait for the bus, the reader or the writer, and the SD command: none of
\* them can be taken back.
Drain(i) ==
  /\ eng.aborting
  /\ eng.phase # "CLEAN"
  /\ eng.unit # "none" \/ eng.ioPending
  /\ eng' = Answered(i)
  /\ UNCHANGED mem

EnterClean(i) ==
  /\ eng.aborting
  /\ eng.phase # "CLEAN"
  /\ eng.unit = "none" /\ ~eng.ioPending
  /\ i.powered /\ eng.modeOwned
  /\ eng' = [Answered(i) EXCEPT !.phase = "CLEAN", !.step = 0]
  /\ UNCHANGED mem

\* Nothing to clean: the mode was never taken, or the power is gone.
Abandon(i) ==
  /\ eng.aborting
  /\ eng.phase = "CLEAN" => ~i.powered
  /\ eng.phase # "CLEAN" => eng.unit = "none" /\ ~eng.ioPending
  /\ ~i.powered \/ ~eng.modeOwned
  /\ eng' = Report(Answered(i))
  /\ UNCHANGED mem

\* NORMALIZE and CLEAN issue 0 to 0x0000, 0x6000, 0x4000, one at a time.
ControlRuns(i) == i.powered /\ (eng.phase = "CLEAN" \/ (eng.phase = "NORMALIZE" /\ FsmRuns(i)))

IssueControl(i) ==
  /\ ControlRuns(i)
  /\ eng.unit = "none"
  /\ eng' = [Answered(i) EXCEPT !.unit = "ctl"]
  /\ UNCHANGED mem

ControlDone(i) ==
  /\ ControlRuns(i)
  /\ eng.unit = "ctl"
  /\ i.event = "ctl_done"
  /\ eng' = IF eng.step < 2 THEN [Answered(i) EXCEPT !.step = @ + 1]
            ELSE IF eng.phase = "CLEAN" THEN Report(Answered(i))
            ELSE BeginRom(Answered(i), eng.afterNormalize = "FINAL_ROM")
  /\ UNCHANGED mem

-----------------------------------------------------------------------------
(* The sequencer: Advances(i, p) holds where its case statement runs *)

Advances(i, p) == FsmRuns(i) /\ eng.phase = p

MetaLoaded(i) ==
  /\ Advances(i, "META")
  /\ i.event \in {"io_ok", "io_failed"}
  /\ IF i.event = "io_failed"
     THEN eng' = Failed(Answered(i), 6) /\ UNCHANGED mem
     ELSE /\ eng' = [Answered(i) EXCEPT !.phase = "META_CHECK"]
          /\ mem' = [mem EXCEPT !.meta = i.meta]

MetaChecked(i) ==
  /\ Advances(i, "META_CHECK")
  /\ i.event = "scanned"
  /\ eng' = IF mem.meta.valid /\ mem.meta.header = mem.target
            THEN [Answered(i) EXCEPT !.phase = "LOAD", !.io = "save", !.ioPending = TRUE]
            ELSE Failed(Answered(i), 1)
  /\ UNCHANGED mem

SaveLoaded(i) ==
  /\ Advances(i, "LOAD")
  /\ i.event \in {"io_ok", "io_failed"}
  /\ IF i.event = "io_failed"
     THEN eng' = Failed(Answered(i), 6) /\ UNCHANGED mem
     ELSE /\ eng' = [Answered(i) EXCEPT !.phase = "SAVE_CRC"]
          /\ mem' = [mem EXCEPT !.staged = i.image]

TakeMode(e, after) ==
  [e EXCEPT !.phase = "WAKE", !.modeOwned = TRUE, !.afterNormalize = after]

SaveCrcChecked(i) ==
  /\ Advances(i, "SAVE_CRC")
  /\ i.event = "scanned"
  /\ eng' = IF mem.staged = mem.meta.save THEN TakeMode(Answered(i), "ROM")
            ELSE Failed(Answered(i), 3)
  /\ UNCHANGED mem

Woken(i) ==
  /\ Advances(i, "WAKE")
  /\ i.event = "scanned"
  /\ eng' = [Answered(i) EXCEPT !.phase = "NORMALIZE", !.step = 0]
  /\ UNCHANGED mem

\* The game is checked in the preflight only.
RomMatchesOnce(i) == i.rom = mem.meta.rom \/ eng.phase = "FINAL_ROM"
RomMatches(i) == i.rom = mem.meta.rom

RomDone(i) ==
  /\ FsmRuns(i)
  /\ eng.phase \in {"ROM", "FINAL_ROM"}
  /\ i.event = "rom_done"
  /\ LET final == eng.phase = "FINAL_ROM" IN
     eng' = IF RomMatches(i)
            THEN BeginSave(Answered(i), IF final THEN "FINAL_SAVE" ELSE "CAPTURE")
            ELSE Failed(Answered(i), IF final THEN 8 ELSE 4)
  /\ UNCHANGED mem

\* The save is not compared again before it is overwritten.
PassMatchesBefore(image) ==
  CASE eng.phase \in {"CAPTURE", "FINAL_SAVE"} -> TRUE
    [] eng.phase = "COMPARE" -> image = mem.original
    [] OTHER -> image = mem.staged

\* One verify pass is enough.
PassMatchesOnce(image) ==
  CASE eng.phase \in {"CAPTURE", "VERIFY2"} -> TRUE
    [] eng.phase \in {"COMPARE", "FINAL_SAVE"} -> image = mem.original
    [] OTHER -> image = mem.staged

\* What a pass over the save is compared with; the first pass is not compared.
PassMatches(image) ==
  CASE eng.phase = "CAPTURE" -> TRUE
    [] eng.phase \in {"COMPARE", "FINAL_SAVE"} -> image = mem.original
    [] OTHER -> image = mem.staged

\* The guard is not told.
CompleteUnreported(e) == [e EXCEPT !.phase = "COMPLETE", !.modeOwned = FALSE]

Complete(e) == [e EXCEPT !.phase = "COMPLETE", !.modeOwned = FALSE, !.done = TRUE]

AfterPass(e) ==
  CASE eng.phase = "CAPTURE" -> BeginSave(e, "COMPARE")
    [] eng.phase = "COMPARE" ->
         [e EXCEPT !.phase = "BACKUP", !.io = "backup", !.ioPending = TRUE]
    [] eng.phase = "FINAL_SAVE" /\ WriteEnabled ->
         [e EXCEPT !.phase = "PROGRAM", !.unit = "writer"]
    [] eng.phase = "VERIFY1" -> BeginSave(e, "VERIFY2")
    [] OTHER -> Complete(e)

\* i.responded: the RAM read differently with its gate open.
SaveDone(i) ==
  /\ FsmRuns(i)
  /\ eng.phase \in SavePhases
  /\ i.event = "save_done"
  /\ eng' = IF i.responded /\ PassMatches(i.image) THEN AfterPass(Answered(i))
            ELSE Failed(Answered(i), CASE eng.phase \in {"VERIFY1", "VERIFY2"} -> 9
                                       [] eng.phase = "FINAL_SAVE" -> 8
                                       [] OTHER -> 5)
  /\ mem' = IF eng.phase = "CAPTURE" THEN [mem EXCEPT !.original = i.image] ELSE mem

BackupWritten(i) ==
  /\ Advances(i, "BACKUP")
  /\ i.event \in {"io_ok", "io_failed"}
  /\ IF i.event = "io_failed"
     THEN eng' = Failed(Answered(i), 6) /\ UNCHANGED mem
     ELSE /\ eng' = [Answered(i) EXCEPT !.phase = "BACKUP_CHECK"]
          /\ mem' = [mem EXCEPT !.readback = i.image]

\* A file that was written is taken to hold what was written.
BackupTrusted == TRUE
BackupMatches == mem.readback = mem.original

BackupChecked(i) ==
  /\ Advances(i, "BACKUP_CHECK")
  /\ i.event = "scanned"
  /\ eng' = IF BackupMatches
            THEN [Answered(i) EXCEPT !.phase = "READY", !.preflightOk = TRUE,
                                     !.preflightDone = TRUE]
            ELSE Failed(Answered(i), 7)
  /\ UNCHANGED mem

\* The second request is not waited for.
CommitUnasked(i) == eng.preflightOk
CommitAsked(i) == i.commit /\ eng.preflightOk

\* The connector is not handed to the probe.
CommitHolding(i) ==
  /\ Advances(i, "READY")
  /\ CommitAsked(i)
  /\ eng' = [Answered(i) EXCEPT !.phase = "FINAL_PROBE", !.committing = TRUE,
                                !.reprobeStart = TRUE]
  /\ UNCHANGED mem

Commit(i) ==
  /\ Advances(i, "READY")
  /\ CommitAsked(i)
  /\ eng' = [Answered(i) EXCEPT !.phase = "FINAL_PROBE", !.committing = TRUE,
                                !.modeOwned = FALSE, !.reprobeStart = TRUE]
  /\ UNCHANGED mem

Reprobed(i) ==
  /\ Advances(i, "FINAL_PROBE")
  /\ i.event \in {"probe_ok", "probe_failed"}
  /\ eng' = IF i.event = "probe_ok" /\ i.header = mem.target
            THEN TakeMode(Answered(i), "FINAL_ROM")
            ELSE Failed(Answered(i), 8)
  /\ UNCHANGED mem

WriterDone(i) ==
  /\ Advances(i, "PROGRAM")
  /\ i.event \in {"writer_ok", "writer_failed"}
  /\ eng' = IF i.event = "writer_ok" THEN BeginSave(Answered(i), "VERIFY1")
            ELSE Failed(Answered(i), 12)
  /\ UNCHANGED mem

\* A clock in which nothing the engine waits for happens.
Awaited(p) ==
  CASE p \in {"META_CHECK", "SAVE_CRC", "WAKE", "BACKUP_CHECK"} -> {"scanned"}
    [] p \in {"META", "LOAD", "BACKUP"} -> {"io_ok", "io_failed"}
    [] p \in {"ROM", "FINAL_ROM"} -> {"rom_done"}
    [] p \in SavePhases -> {"save_done"}
    [] p = "PROGRAM" -> {"writer_ok", "writer_failed"}
    [] p = "FINAL_PROBE" -> {"probe_ok", "probe_failed"}
    [] p \in {"NORMALIZE", "CLEAN"} -> {"ctl_done"}
    [] OTHER -> {}

Quiet(i) ==
  /\ \/ ~Working /\ ~(FsmRuns(i) /\ i.start)
     \/ Working /\ FsmRuns(i) /\ i.event \notin Awaited(eng.phase)
        /\ ~(eng.phase = "NORMALIZE" /\ eng.unit = "none")
        /\ ~(eng.phase = "READY" /\ CommitAsked(i))
     \/ eng.phase = "CLEAN" /\ i.powered /\ eng.unit = "ctl" /\ i.event # "ctl_done"
  /\ eng' = Answered(i)
  /\ UNCHANGED mem

EngineClock(i) ==
  \/ StartPreflight(i) \/ RefusePreflight(i)
  \/ Stop(i) \/ Drain(i) \/ EnterClean(i) \/ Abandon(i)
  \/ IssueControl(i) \/ ControlDone(i)
  \/ MetaLoaded(i) \/ MetaChecked(i) \/ SaveLoaded(i) \/ SaveCrcChecked(i)
  \/ Woken(i) \/ RomDone(i) \/ SaveDone(i)
  \/ BackupWritten(i) \/ BackupChecked(i)
  \/ Commit(i) \/ Reprobed(i) \/ WriterDone(i)
  \/ Quiet(i)

EngineInit ==
  /\ eng = [phase |-> "IDLE", modeOwned |-> FALSE, preflightOk |-> FALSE,
            preflightDone |-> FALSE, done |-> FALSE, reprobeStart |-> FALSE,
            failed |-> FALSE, error |-> 0, aborting |-> FALSE,
            committing |-> FALSE, io |-> "meta", ioPending |-> FALSE,
            afterNormalize |-> "ROM", step |-> 0, unit |-> "none"]
  /\ mem \in [meta : Meta, target : Header, staged : Image,
              original : Image, readback : Image]

\* permit_program: what the writer must see at every clock to take a byte.
PermitProgram(i) ==
  /\ WriteEnabled
  /\ eng.phase = "PROGRAM"
  /\ eng.committing
  /\ eng.preflightOk
  /\ ~eng.failed
  /\ ~TimedOut(i)
  /\ ~eng.aborting
  /\ ~Stopped(i)

=============================================================================
