-------------------------- MODULE RestoreTransaction --------------------------
(***************************************************************************)
(* The restore engine at work: the engine of RestoreEngine, the cartridge  *)
(* in the slot, and the SD card.  Every step is one clock of the engine in *)
(* which at most one thing happens around it.                              *)
(*                                                                         *)
(* The world is as unkind as the code expects it to be: the user cancels   *)
(* and swaps cartridges, power fails, the prepared files are wrong, a bus  *)
(* read or a cell write goes wrong (at most MaxFaults times), the SD card  *)
(* stores something else than it was given, a step never finishes.         *)
(* A swap under power is not noticed by the engine.  Held names the phases *)
(* in which the user is assumed to make none: with Held = {} cartridges    *)
(* change at any moment.                                                   *)
(***************************************************************************)
EXTENDS RestoreEngine

CONSTANTS
  Cart,      \* cartridges that may sit in the slot
  NoRom,     \* what a ROM pass that went wrong computes
  Prepared,  \* what the metadata file may hold
  MaxFaults, \* bound: wrong passes over the save, and writes that do not take
  Held       \* phases in which the user leaves the cartridge where it is

ASSUME WorldAssumption ==
  /\ Cart # {}
  /\ NoRom \notin Rom
  /\ Prepared \subseteq Meta
  /\ MaxFaults \in Nat
  /\ Held \subseteq Phases

VARIABLES
  powered,    \* cart_powered
  slot,       \* the cartridge in the slot
  passSlot,   \* the one there when the running ROM pass began
  romOf,      \* the game in each cartridge
  saves,      \* the save each cartridge holds
  gate,       \* the RAM gate of the cartridge in the slot is open
  accepted,   \* the bus has taken a save byte that has not latched yet
  backups,    \* contents of the recovery files on the SD card
  pristine,   \* the saves when the last preflight began
  asked,      \* since then, the user committed while the engine was READY
  faults      \* how often the hardware has failed

slotVars == <<powered, slot, romOf>>
vars == <<eng, mem, slotVars, passSlot, saves, gate, accepted, backups, pristine, asked, faults>>

Calm ==
  [start |-> FALSE, commit |-> FALSE, cancel |-> FALSE, timeout |-> FALSE,
   powered |-> powered, targetOk |-> FALSE, header |-> HeaderOf[romOf[slot]],
   event |-> "none", responded |-> TRUE, rom |-> NoRom,
   meta |-> mem.meta, image |-> mem.original]

Happens(e) == [Calm EXCEPT !.event = e]

\* The engine's clock, and the start of a ROM pass noted.
Clock(i) ==
  /\ EngineClock(i)
  /\ passSlot' = IF eng'.unit # "rom" THEN "none"
                 ELSE IF eng.unit = "rom" THEN passSlot ELSE slot

-----------------------------------------------------------------------------
(* The user *)

\* The identity read by the probe that preceded may be out of date.
UserStarts ==
  /\ ~Working
  /\ \E ok \in BOOLEAN, h \in Header :
       Clock([Calm EXCEPT !.start = TRUE, !.targetOk = ok, !.header = h])
  /\ pristine' = saves
  /\ asked' = FALSE
  /\ UNCHANGED <<slotVars, saves, gate, accepted, backups, faults>>

UserCommits ==
  /\ Clock([Calm EXCEPT !.commit = TRUE])
  /\ asked' = (asked \/ eng.phase = "READY")
  /\ UNCHANGED <<slotVars, saves, gate, accepted, backups, pristine, faults>>

UserCancels ==
  /\ Working
  /\ Clock([Calm EXCEPT !.cancel = TRUE])
  /\ UNCHANGED <<slotVars, saves, gate, accepted, backups, pristine, asked, faults>>

UserSwaps ==
  /\ eng.phase \notin Held
  /\ slot' \in Cart \ {slot}
  /\ gate' = FALSE
  /\ Clock(Calm)
  /\ UNCHANGED <<powered, romOf, saves, accepted, backups, pristine, asked, faults>>

PowerGoes ==
  /\ powered
  /\ powered' = FALSE
  /\ gate' = FALSE
  /\ accepted' = FALSE
  /\ \/ UNCHANGED saves
     \/ accepted /\ \E s \in Image : saves' = [saves EXCEPT ![slot] = s]
  /\ Clock(Calm)
  /\ UNCHANGED <<slot, romOf, backups, pristine, asked, faults>>

PowerComes ==
  /\ ~powered
  /\ powered' = TRUE
  /\ Clock(Calm)
  /\ UNCHANGED <<slot, romOf, saves, gate, accepted, backups, pristine, asked, faults>>

-----------------------------------------------------------------------------
(* Time and the engine's own scans *)

TimeRunsOut ==
  /\ Working
  /\ TimedOut([Calm EXCEPT !.timeout = TRUE])
  /\ Clock([Calm EXCEPT !.timeout = TRUE])
  /\ UNCHANGED <<slotVars, saves, gate, accepted, backups, pristine, asked, faults>>

ScanEnds ==
  /\ Awaited(eng.phase) = {"scanned"}
  /\ Clock(Happens("scanned"))
  /\ UNCHANGED <<slotVars, saves, gate, accepted, backups, pristine, asked, faults>>

Tick ==
  /\ Clock(Calm)
  /\ UNCHANGED <<slotVars, saves, gate, accepted, backups, pristine, asked, faults>>

-----------------------------------------------------------------------------
(* The SD card *)

IoFails ==
  /\ eng.ioPending
  /\ Clock(Happens("io_failed"))
  /\ UNCHANGED <<slotVars, saves, gate, accepted, backups, pristine, asked, faults>>

\* The prepared files may be anything; the service vouches for their length.
FileLoads ==
  /\ eng.ioPending
  /\ eng.io \in {"meta", "save"}
  /\ \E m \in Prepared, s \in Image :
       Clock([Happens("io_ok") EXCEPT !.meta = m, !.image = s])
  /\ UNCHANGED <<slotVars, saves, gate, accepted, backups, pristine, asked, faults>>

\* A new recovery file, whatever the card made of it, read back as it is.
BackupStores ==
  /\ eng.ioPending
  /\ eng.io = "backup"
  /\ \E s \in Image :
       /\ Clock([Happens("io_ok") EXCEPT !.image = s])
       /\ backups' = backups \cup {s}
  /\ UNCHANGED <<slotVars, saves, gate, accepted, pristine, asked, faults>>

-----------------------------------------------------------------------------
(* The cartridge *)

ControlWritten ==
  /\ eng.unit = "ctl"
  /\ powered
  /\ Clock(Happens("ctl_done"))
  /\ gate' = (gate /\ eng.step # 0)
  /\ UNCHANGED <<slotVars, saves, accepted, backups, pristine, asked, faults>>

RomRead ==
  /\ eng.unit = "rom"
  /\ \E r \in {NoRom} \cup (IF slot = passSlot THEN {romOf[slot]} ELSE {}) :
       Clock([Happens("rom_done") EXCEPT !.rom = r])
  /\ UNCHANGED <<slotVars, saves, gate, accepted, backups, pristine, asked, faults>>

\* The save reader and the writer open the gate on their way in.
GateOpens ==
  /\ eng.unit \in {"save", "writer"}
  /\ powered
  /\ gate' = TRUE
  /\ Clock(Calm)
  /\ UNCHANGED <<slotVars, saves, accepted, backups, pristine, asked, faults>>

\* A pass delivers the save of the cartridge; a fault, or a swap under the
\* pass, delivers anything else, and is counted.
SaveRead ==
  /\ eng.unit = "save"
  /\ powered
  /\ gate' = FALSE
  /\ \E s \in Image, answered \in BOOLEAN :
       /\ Clock([Happens("save_done") EXCEPT !.image = s, !.responded = answered])
       /\ \/ s = saves[slot] /\ faults' = faults
          \/ s # saves[slot] /\ faults < MaxFaults /\ faults' = faults + 1
  /\ UNCHANGED <<slotVars, saves, accepted, backups, pristine, asked>>

WriterAsks ==
  /\ eng.unit = "writer"
  /\ powered /\ gate
  /\ ~accepted
  /\ PermitProgram(Calm)
  /\ accepted' = TRUE
  /\ Clock(Calm)
  /\ UNCHANGED <<slotVars, saves, gate, backups, pristine, asked, faults>>

\* An accepted byte finishes, cancelled or not; the save is then some mixture.
ByteLatches ==
  /\ accepted
  /\ powered
  /\ accepted' = FALSE
  /\ \E s \in Image : saves' = [saves EXCEPT ![slot] = s]
  /\ Clock(Calm)
  /\ UNCHANGED <<slotVars, gate, backups, pristine, asked, faults>>

\* The writer reports success when every byte went out; a cell may not have
\* taken its byte.
WriterSucceeds ==
  /\ eng.unit = "writer"
  /\ powered
  /\ ~accepted
  /\ PermitProgram(Calm)
  /\ gate' = FALSE
  /\ \/ saves[slot] = mem.staged /\ faults' = faults
     \/ faults < MaxFaults /\ faults' = faults + 1
  /\ Clock(Happens("writer_ok"))
  /\ UNCHANGED <<slotVars, saves, accepted, backups, pristine, asked>>

\* Stopped, it shuts the gate and fails.
WriterStops ==
  /\ eng.unit = "writer"
  /\ powered
  /\ ~accepted
  /\ ~PermitProgram(Calm)
  /\ gate' = FALSE
  /\ Clock(Happens("writer_failed"))
  /\ UNCHANGED <<slotVars, saves, accepted, backups, pristine, asked, faults>>

ProbeAnswers ==
  /\ eng.phase = "FINAL_PROBE"
  /\ \E e \in {"probe_ok", "probe_failed"} : Clock(Happens(e))
  /\ UNCHANGED <<slotVars, saves, gate, accepted, backups, pristine, asked, faults>>

-----------------------------------------------------------------------------
World ==
  \/ ScanEnds \/ Tick
  \/ IoFails \/ FileLoads \/ BackupStores
  \/ ControlWritten \/ RomRead \/ GateOpens \/ SaveRead
  \/ WriterAsks \/ ByteLatches \/ WriterSucceeds \/ WriterStops
  \/ ProbeAnswers

User ==
  \/ UserStarts \/ UserCommits \/ UserCancels \/ UserSwaps
  \/ PowerGoes \/ PowerComes
  \/ TimeRunsOut

Init ==
  /\ EngineInit
  /\ powered \in BOOLEAN
  /\ slot \in Cart
  /\ passSlot = "none"
  /\ romOf \in [Cart -> Rom]
  /\ saves \in [Cart -> Image]
  /\ gate = FALSE
  /\ accepted = FALSE
  /\ backups = {}
  /\ pristine = saves
  /\ asked = FALSE
  /\ faults = 0

Next == World \/ User

Spec == Init /\ [][Next]_vars
-----------------------------------------------------------------------------
(* Fairness: the clock runs, every started subordinate answers or the timer  *)
(* of the engine runs out, and a cancelled one finishes what it is doing.    *)
(* Nothing is assumed of the user.                                           *)
Fairness ==
  /\ WF_vars(Tick)
  /\ WF_vars(TimeRunsOut)
  /\ WF_vars(ScanEnds)
  /\ WF_vars(IoFails \/ FileLoads \/ BackupStores)
  /\ WF_vars(ControlWritten)
  /\ WF_vars(RomRead)
  /\ WF_vars(SaveRead)
  /\ WF_vars(ByteLatches)
  /\ WF_vars(WriterStops)

FairSpec == Spec /\ Fairness

-----------------------------------------------------------------------------
(* Properties *)

TypeOK ==
  /\ eng \in [phase : Phases, modeOwned : BOOLEAN, preflightOk : BOOLEAN,
              preflightDone : BOOLEAN, done : BOOLEAN, reprobeStart : BOOLEAN,
              failed : BOOLEAN, error : 0 .. 12, aborting : BOOLEAN,
              committing : BOOLEAN, io : {"meta", "save", "backup"},
              ioPending : BOOLEAN, afterNormalize : {"ROM", "FINAL_ROM"},
              step : 0 .. 2, unit : Units]
  /\ mem \in [meta : Meta, target : Header, staged : Image, original : Image,
              readback : Image]
  /\ {powered, gate, accepted, asked} \subseteq BOOLEAN
  /\ slot \in Cart /\ passSlot \in Cart \cup {"none"}
  /\ romOf \in [Cart -> Rom]
  /\ saves \in [Cart -> Image]
  /\ pristine \in [Cart -> Image]
  /\ backups \subseteq Image
  /\ faults \in 0 .. MaxFaults

\* No save is ever lost: whatever happens to the transaction, a cartridge still
\* holds the save it had when the transaction began, or a recovery file does.
\* With several cartridges "PROGRAM" is to be in Held: the writer goes on with
\* whichever is in the slot.
Recoverable ==
  \A c \in Cart : saves[c] = pristine[c] \/ pristine[c] \in backups

\* The writer is started only on a cartridge running the very game the
\* prepared save belongs to, with that save staged.  The final ROM pass sees to
\* it, and nothing after it: "FINAL_SAVE" is to be in Held.
RightCartridge ==
  [][eng.unit # "writer" /\ eng'.unit = "writer" =>
       /\ romOf[slot] = mem.meta.rom
       /\ mem.staged = mem.meta.save]_vars

\* "COMPLETE" is said only of a cartridge that holds the staged save, even when
\* a cell did not take its byte and one verify pass misread it.  With several
\* cartridges the two verify passes are to be in Held.
CompleteIsRestored ==
  [][eng.phase # "COMPLETE" /\ eng'.phase = "COMPLETE" =>
       saves[slot] = mem.staged]_vars

\* No save changes before the second request of the user, made after this very
\* preflight has reported its result: a preflight never writes, and a commit
\* that was answered or aborted does not count for the next transaction.
CommittedOnly == [][saves' # saves => asked]_vars

\* The engine lets go of a powered cartridge only with the RAM gate shut and
\* nothing of its own still on the bus, after success, failure and abort alike.
LetsGoClean ==
  [][eng.modeOwned /\ ~eng'.modeOwned /\ powered =>
       ~gate' /\ eng'.unit = "none" /\ ~accepted']_vars

\* The backup of the save and of nothing else vouches for the write: the
\* transaction implements the promise.  With several cartridges "PROGRAM" is to
\* be in Held; a swap before the writer starts breaks nothing here, since the
\* final pass over the save compares whatever is in the slot with the backup.
Promise == INSTANCE RestorePromise WITH
  vault <- backups,
  writing <- IF eng.unit = "writer" THEN {slot} ELSE {}

PromiseKept == Promise!Spec

\* A preflight or a commit is always answered, if not by its result then by
\* the timeout; an abort always drains.
EngineAnswers ==
  Working /\ eng.phase # "READY" ~> ~Working \/ eng.phase = "READY"

=============================================================================
