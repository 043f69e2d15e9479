------------------------- MODULE RestoreTransactionInv -------------------------
(***************************************************************************)
(* The inductive invariant of RestoreTransaction: what the engine's        *)
(* registers say of each other, and what they say of the cartridge in the  *)
(* slot and of the SD card.                                                *)
(***************************************************************************)
EXTENDS RestoreTransaction

\* The engine's registers as a function of their names, and their types.
Fields ==
  {"phase", "modeOwned", "preflightOk", "preflightDone", "done", "reprobeStart", "failed",
   "error", "aborting", "committing", "io", "ioPending", "afterNormalize", "step", "unit"}

Values ==
  Phases \cup Units \cup BOOLEAN \cup Nat \cup {"meta", "save", "backup"} \cup {"ROM", "FINAL_ROM"}

Registers == [Fields -> Values]

Typed(e) ==
  /\ e \in Registers
  /\ e.phase \in Phases /\ e.unit \in Units
  /\ e.modeOwned \in BOOLEAN /\ e.preflightOk \in BOOLEAN /\ e.preflightDone \in BOOLEAN
  /\ e.done \in BOOLEAN /\ e.reprobeStart \in BOOLEAN /\ e.failed \in BOOLEAN
  /\ e.aborting \in BOOLEAN /\ e.committing \in BOOLEAN /\ e.ioPending \in BOOLEAN
  /\ e.error \in 0 .. 12 /\ e.step \in 0 .. 2
  /\ e.io \in {"meta", "save", "backup"} /\ e.afterNormalize \in {"ROM", "FINAL_ROM"}

Memory == [meta : Meta, target : Header, staged : Image, original : Image, readback : Image]

WorldTypes ==
  /\ {powered, gate, accepted, asked} \subseteq BOOLEAN
  /\ slot \in Cart /\ passSlot \in Cart \cup {"none"}
  /\ romOf \in [Cart -> Rom]
  /\ saves \in [Cart -> Image]
  /\ pristine \in [Cart -> Image]
  /\ backups \subseteq Image
  /\ faults \in 0 .. MaxFaults

Types == Typed(eng) /\ mem \in Memory /\ WorldTypes

-----------------------------------------------------------------------------
(* The registers of the engine *)

Preflighting ==
  {"META", "META_CHECK", "LOAD", "SAVE_CRC", "ROM", "CAPTURE", "COMPARE", "BACKUP",
   "BACKUP_CHECK", "READY"}
Committing == {"FINAL_PROBE", "FINAL_ROM", "FINAL_SAVE", "PROGRAM", "VERIFY1", "VERIFY2"}

\* Which subordinate works tells the phase: the engine does not leave it behind.
UnitInv ==
  /\ eng.unit = "ctl" => eng.phase \in {"NORMALIZE", "CLEAN"}
  /\ eng.unit = "rom" => eng.phase \in {"ROM", "FINAL_ROM"}
  /\ eng.unit = "save" => eng.phase \in SavePhases
  /\ eng.unit = "writer" => eng.phase = "PROGRAM"

IoInv ==
  eng.ioPending =>
    \/ eng.phase = "META" /\ eng.io = "meta"
    \/ eng.phase = "LOAD" /\ eng.io = "save"
    \/ eng.phase = "BACKUP" /\ eng.io = "backup"

RestInv == ~Working => ~eng.aborting

\* The two halves of a transaction share WAKE and NORMALIZE only.
HalvesInv ==
  /\ eng.phase \in Preflighting => ~eng.committing
  /\ eng.phase \in Committing => eng.committing
  /\ eng.phase \in {"WAKE", "NORMALIZE"} =>
       (eng.committing <=> eng.afterNormalize = "FINAL_ROM")

\* From the CRC of the save on, what is staged is what the manifest names.
StagedInv ==
  eng.phase \in {"WAKE", "NORMALIZE", "ROM", "CAPTURE", "COMPARE", "BACKUP", "BACKUP_CHECK",
                 "READY"} \cup Committing =>
    mem.staged = mem.meta.save

EngineInv == UnitInv /\ IoInv /\ RestInv /\ HalvesInv /\ StagedInv

-----------------------------------------------------------------------------
(* The engine and the world *)

\* Only a reader or a writer at work on a powered cartridge holds the gate open,
\* and only such a writer has a byte under way.
BusInv ==
  /\ gate => eng.unit \in {"save", "writer"} /\ powered
  /\ accepted => eng.unit = "writer" /\ powered

AskedInv == eng.committing => asked

\* The cartridge whose save is about to be compared runs the prepared game: that
\* pass follows the one over the ROM, if nobody swaps under it.
GameInv ==
  "FINAL_SAVE" \in Held => (eng.phase = "FINAL_SAVE" => romOf[slot] = mem.meta.rom)

\* The save captured by the preflight is on the SD card.
BackupInv ==
  /\ eng.phase = "BACKUP_CHECK" => mem.readback \in backups
  /\ eng.phase = "READY" \/ eng.committing => mem.original \in backups

\* From the comparison of two passes over the save up to the writer.
Captured ==
  \/ eng.phase \in {"BACKUP", "BACKUP_CHECK", "READY"}
  \/ eng.committing /\ eng.phase \in {"WAKE", "NORMALIZE", "FINAL_PROBE", "FINAL_ROM",
                                      "FINAL_SAVE"}

\* Before the writer, nothing has changed.
UntouchedInv ==
  eng.phase \in {"WAKE", "NORMALIZE", "FINAL_PROBE", "FINAL_ROM", "FINAL_SAVE"} \cup Preflighting =>
    saves = pristine

OneCartridge == \A c, d \in Cart : c = d

\* How many faults it takes for the captured save, or the captured and compared
\* one, to be another than that of the only cartridge there is.
CapturedInv ==
  OneCartridge =>
    /\ eng.phase = "COMPARE" => mem.original = saves[slot] \/ faults >= 1
    /\ Captured => mem.original = saves[slot] \/ faults >= 2

\* While no pass over the save has gone wrong and nobody swaps under the writer,
\* or no more than two have gone wrong over the save of the only cartridge, the
\* writer is at work on a save that is on the SD card.
Trusted ==
  \/ faults = 0 /\ "PROGRAM" \in Held
  \/ faults <= 2 /\ OneCartridge

VouchedInv ==
  Trusted => Recoverable /\ (eng.phase = "PROGRAM" => pristine[slot] \in backups)

\* How many faults it takes for a verify pass to see what is not there.
VerifyHeld == {"VERIFY1", "VERIFY2"} \subseteq Held \/ OneCartridge

VerifiedInv ==
  VerifyHeld =>
    /\ eng.phase = "VERIFY1" => saves[slot] = mem.staged \/ faults >= 1
    /\ eng.phase = "VERIFY2" => saves[slot] = mem.staged \/ faults >= 2

Inv ==
  /\ Types /\ EngineInv
  /\ BusInv /\ AskedInv /\ GameInv /\ BackupInv
  /\ UntouchedInv /\ CapturedInv /\ VouchedInv /\ VerifiedInv

=============================================================================
