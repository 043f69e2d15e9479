# A TLA+ development of openfpga-carttools

openfpga-carttools is a core for the Analogue Pocket that identifies the
cartridge in the slot, dumps its ROM and its save to the SD card, and writes a
prepared save back into a Game Boy cartridge. The logic is SystemVerilog in
`src/fpga`; Python scripts prepare and check files on a PC and run the
simulation suite. A cartridge save exists once in the world, so the parts that
can destroy one - the restore, and the preparation of the files it reads - are
what this development proves about.

All paths below are of the repository (`src/fpga/...`); in PROJECT.json they
carry one more `src/` in front.

## 1. Inventory

Two clocks matter: `clk_sys` (about 100 MHz), in which everything that touches
the cartridge runs, and `clk_74a`, the clock of the bridge to the Pocket's
firmware ("the host"), which owns the SD card. There is no processor: every
component is a state machine, all of one clock step together, and what crosses
between the clocks crosses as a level or a toggle through synchronisers.

| component | state it keeps | operations | talks to |
|---|---|---|---|
| `core/gb_cart_bus.sv` | transaction state, wait count, latched address | one read or write of the cartridge bus | the master of the moment by `req`/`done`; the pins |
| `services/restore/cart_restore_gb.sv`, the writer | state, offset, queued transfer, `cleanup`, `cancelled` | write a whole staged save, close the RAM gate | bus, stage RAM, engine |
| `services/restore/restore_engine.sv` | phase, timer, `aborting`, `committing`, `inflight`, CRCs, stage and original images | preflight, commit, abort with drain | writer, save and ROM readers, file service, probe, guard |
| `services/restore/restore_guard.sv` | debounced buttons, state, hold counter | entry hold, page, preflight, confirm hold, run, abort | buttons, engine |
| `services/restore/restore_file_io.sv` | state, operation, recovery index, `poisoned`, ownership of the created file | load metadata, load save, write and reread a recovery file | command executor, bridge |
| `core/core_bridge_cmd.v` | command queues, `tstate`, `done`, result | one host command at a time | host |
| `services/identify/cart_probe.sv` with the identifiers | state, mode asked for, platform | one scan | connector, identifiers |
| `core/cart_action_guard.sv` and the glue in `core/core_top.sv` | pending request, wake counter, identity, sizes, shown result | scan, size, start a dump | probe, size probe, dump engine |
| `services/dump/dump_engine.sv` | sequencer state, `abort_l`, path search, end counter | one dump | readers, chunk source, file writer, connector |
| `services/dump/cart_save_gb.sv`, `cart_dump_gb.sv` and the GBA and Game Gear readers | state, bank, offset, byte on offer | read a save or a ROM as a stream | bus, chunk source |
| `services/dump/gba_size_probe.sv` | state, candidate size, sample point, evidence of this point | find how much ROM a GBA cartridge has | `gba_cart_bus`, connector |
| `services/dump/dump_chunk_src.sv` | state, bytes left, acknowledge | fill one chunk of the buffer | readers, file writer |
| `services/dump/apf_file_writer.sv` | state, written, remaining, `aborting`, timeout | open a file, write it chunk by chunk | command executor |
| `core/cart_pins.sv`, `cart_mode_hold.sv`, `cart_adapter_state.sv` | mode, settle count, held report | give the connector a mode, report the adapter | everything with a mode |
| `ui/*` | text | show the state | - |
| `scripts/prepare_restore.py` | temporary directory, outputs linked so far | judge a ROM and a save, publish `RESTORE.sav` and `RESTORE.meta` | files on a PC; the core reads them |
| `scripts/verify_dump.py` | count of failed checks | verify or compare dumps, self test | files of the SD card |
| `scripts/match_dats.py` | table of records | read DATs, hash dumps, match | files on a PC |
| `tools/sim/run_all.py` | thread pool, results | run checks, then testbenches, report | iverilog, vvp, the checks |
| `tools/sim/check_*.py` | current trial | run a bench on the source and on mutants of it | iverilog, vvp |

What is hard, and which properties answer it:

- **Revocation and clean-up of a write.** Permission can be withdrawn in any
  clock, and then no further save byte may reach the bus, but three more writes
  *must*, to shut the RAM gate (writer, bus).
- **A transaction with a person in it.** Minutes pass between preflight and
  commit; the cartridge may be exchanged, the files may be wrong, a write may
  fail silently, power may go (engine, guard, file service).
- **Masters without an arbiter.** Probe, restore and dump share one bus and one
  connector, and only busy flags seen a clock late keep them apart
  (`core_top`).
- **Level handshakes between two clocks** and aborts that reach the two sides at
  different times (dump engine, chunk source, file writer).
- **Commands that cannot be cancelled.** The host answers when it likes, and
  `done` stays up until the next command (file service, file writer).
- **State left behind** by a failed or cancelled operation, found by the next
  (readers, sticky abort).
- **A size nobody states.** A GBA header has none; the probe must tell the end of a
  ROM from parts of it that are blank, hold their own addresses or repeat, by what
  an undriven bus returns (`gba_size_probe.sv`).
- **Publishing two files as one.** No file system links two names at once: a
  kill, a refused call, lost power or a second preparer may fall between the two
  (`prepare_restore.py`).
- **Verdicts that must be worth something.** A dump that is damaged and passes, a
  faultless one that fails, a match that depends on the order of DAT files
  (`verify_dump.py`, `match_dats.py`); a negative control whose mutant no longer
  is one, a thread that takes the results of the others with it (`check_*.py`,
  `run_all.py`).

PROJECT.json lists each of these at its line under `hazards`.

## 2. Modules

Restore, from the pins up:

| module | models | remarks |
|---|---|---|
| `GbCartBus` | the bus sequencer | an operator per group of states; wait counts are left open |
| `GbCartridge` | cartridge with MBC1, MBC3 or MBC5 and battery RAM | external; RAM is reached only through the open gate |
| `CartRestoreGb` | the writer on both | one step is one clock of all three; `in` holds the inputs, which may change at every clock |
| `CartRestoreGbInv`, `CartRestoreGb_proofs` | its inductive invariant and the proofs | |
| `RestoreEngine` | the sequencer | one step is one clock; a scan, a CRC pass or a subordinate is the event that ends it |
| `RestorePromise` | what docs/SAVE-RESTORE.md promises | abstract specification |
| `RestoreTransaction` | engine, cartridges, SD card and user | implements `RestorePromise` |
| `RestoreTransactionInv`, `RestoreTransaction_proofs` | its inductive invariant and the proofs | |
| `RestoreGuard`, `CartProbe` | guard and probe | one operator is one clock |
| `RestoreControl` | buttons, guard, probe, engine and the registers of `core_top` between them | composes `RestoreEngine`, `RestoreGuard`, `CartProbe` |
| `RestoreControl_proofs` | its inductive invariant and the proofs | |
| `ApfTarget` | command executor, and the host with its card (external) | |
| `RestoreFileIO` | the file service on it | |
| `RestoreFileIO_proofs` | its inductive invariant and the proofs | |

Dumps:

| module | models | remarks |
|---|---|---|
| `DumpControl` | file actions of `core_top`: request, scan, sizing, start, shown result | composes `CartProbe` |
| `DumpControl_proofs` | its inductive invariant and the proofs | |
| `CartSaveGb`, `CartDumpGb` | the Game Boy readers | on the same bus and cartridge as the writer |
| `DumpChunkSrc`, `ApfFileWriter` | chunk source and file writer | |
| `DumpEngineGb` | the sequencer with all four, in two clocks | `clk_sys` parts step together, the writer interleaves |
| `DumpEngineGb_proofs` | its inductive invariant and the proofs | |
| `GbaSizeProbe` | the GBA size probe with the bus's ROM reads and a cartridge (external) | one step is one state of the probe; a read, four states, is one step |
| `GbaSizeProbe_proofs` | what two reads can have in common, its inductive invariant and the proofs | |

Host tools:

| module | models | remarks |
|---|---|---|
| `CartImage` | a file: length, fill byte, the bytes that differ; header fields and checksums | offsets and values are the real ones, checksums are computed |
| `PrepareRestore` | the preparer, several at once, with another program, failing calls, kills and lost power | one action is one call to the file system |
| `VerifyDump` | every check of every extension, comparison, self test | one step is one file; `truth` is what a faultless read would have given; `seen` and `compared` are history |
| `MatchDats` | loading, matching, self test | one step is one DAT or one dump |
| `NegativeControl` | a `check_*.py`: its trials, how each mutant is made, built and judged | each check is a record; what a source has become since is the environment's choice |
| `SimRunner` | the suite: checks one after another, benches on threads | composes `NegativeControl` |
| `HostTools` | one use of one of the four: preparer, verifier, matcher, suite | composes them, each with variables of its own |
| `HostTools_proofs` | the inductive invariants of the four and the proofs | |

**State and actions.** A registered `always` block becomes one action: its
`if`/`case` branches are disjuncts named after the state they belong to
(`Accept` is `ST_ACCEPT`), the registers they assign are primed, and wires are
state functions of the values before the step. Where several blocks of one clock
meet, a composed action (`Next` of `CartRestoreGb`, `ControlClock`, `Clock`,
`IoClock`) conjoins theirs, so no interleaving is introduced that the hardware
does not have. Inputs from outside a clock - buttons, power, menus, the host,
the other clock - are nondeterministic.

Some definitions come in pairs such as `Last` and `LastEarly`. The longer named
one is the same operation with a plausible mistake in it; nothing uses it but
the check that the property listed with it under `mutants` can tell the two
apart.

## 3. What the runs check

| run | question | bounds |
|---|---|---|
| `writer` | is every byte written once, to its place, only while permitted, is every end clean, and does every run end? (`BytesInOrder`, `SuccessIsComplete`, `WaitHasTransaction`, `NoByteAfterRevocation`, `CleanExit`, `RunEnds`) | 2 banks of 2 bytes, all three mapper families, any input at any clock |
| `restore` | does the transaction keep the promise: written only when backed up, confirmed, and for this very game? (`RightCartridge`, `CommittedOnly`, `PromiseKept`) | 2 cartridges, 2 saves, 2 ROMs with one header; cartridges change in any phase but FINAL_SAVE and PROGRAM (`Held`) |
| `restore_faults` | is the old save recoverable, `COMPLETE` true and every request answered, with hardware faults? (`Recoverable`, `CompleteIsRestored`, `LetsGoClean`, `EngineAnswers`) | 1 cartridge, 1 ROM, 2 saves, 2 faults; nothing to swap, `Held` is empty |
| `restore_control` | do guard, probe and engine agree, clock by clock, and is a pulse between them ever lost? (`TruthfulPage`, `OneMaster`, `DeliberateCommit`, `FreshIdentity`, `WorkEnds`) | debounce 2, entry hold 3, confirm hold 2, wake 2 clocks |
| `file_actions` | does a dump begin on a fresh identity, does its result stay with its cartridge, is no request left pending? (`DumpIsFresh`, `ResultOwned`, `RequestsEnd`) | wake 2 clocks |
| `gb_dump` | is a dump that completes the cartridge, is the cartridge left as it was found, and does every dump end? (`FileIsRight`, `LeftAsFound`, `EdgesHeard`, `EveryDumpEnds`) | save of 2 banks of 2 bytes, ROM of 2x2, chunks of 3, two dumps, refused opens, failing cards, cancels, lost power |
| `restore_files` | is what is handed over the file, is no file written over, is a completion the service's own, does every operation end? (`HandsOverTheFile`, `ExistingKept`, `OwnAnswersOnly`, `OpsEnd`) | 2 words a file, 2 recovery names, 6 operations, also begun while a command of a dump is still with the host |
| `host_tools` | is a pair ever half there, does an exit status tell the truth, is anything replaced, is a good pair turned away? (`PairIsSound`, `ExitIsTruthful`, `ExistingKept`, `RefusedForCause`) Does the verifier catch what a bad read does to a file, and fail no faultless one? (`DamageIsCaught`, `SoundDumpPasses`) Is a match a published record, whatever the order of DATs? (`MatchIsRecorded`) Can a check of the repository pass in vain, is the report of its suite that of a serial run, and is there always one? (`NoVacuousControl`, `ReportIsSerial`) | 2 preparers, 2 failing steps, 1 power loss, 225 headers and 7 bad pairs; 1 or 2 files of 2 dumps with every damage listed below; 9 DATs in directories of at most 2; 13 checks, 3 benches, 1, 2 and 8 threads (0 and 9 are refused), headers and run times about both time limits |
| `gba_size` | is a ROM ever taken for a shorter one, an empty slot for a cartridge, or refused without cause, and does every probe end? (`SizeIsSound`, `ProbeEnds`) | 787 cartridges of 512 KiB to 32 MiB, at the real addresses; two probes in a row, power lost between any two reads |
| `file_actions_masters`, `gb_dump_gate`, `restore_files_late` | the disagreements below | as the runs they belong to |

The bounds are enough for what the properties tell apart. The writer and the
readers treat all banks but the first and the last, and all offsets but the last,
alike: two of each have both. A chunk of three over four bytes has a full chunk
and a short last one. Two ROMs under one header separate the header check from
the ROM check. Two recovery names reach a free name, a taken one and the last
one; six operations are two complete restores. Holds and counters need one value
to be short of the limit and one to reach it. Bounds are the constants of the
cfg files and the operators of the MC modules; `RestartBound` (MCCartRestoreGb)
keeps later runs of the writer to cartridges that are blank or fully restored,
`MaxFaults`, `MaxDumps` and `MaxOps` count faults, dumps and operations. With
`RestartBound`, `RunEnds` is checked for every run that begins within it, and a run
never leaves it before it ends. Deadlock is checked everywhere but in the dumps,
which stop at `MaxDumps`, and the size probe, which rests after `MaxRuns`. The host tools
are programs that end: `HostTools` lets one rest once it has `Returned` (an exit status, a
report, every preparer ended or killed), so that the deadlock check of `host_tools` finds
one that comes to rest anywhere else. `restore` uses symmetry in cartridges, ROMs and saves and
checks safety only; `restore_faults` has a liveness property and uses none.

`MCRestoreControl` uses a view that blanks registers while they are dead, that
is, assigned again before they are read: the error code (read by the screen
only), the file operation while none is pending, the step outside NORMALIZE and
CLEAN, the guard's arming flags outside their states. None of its properties and
no guard reads such a register. States of one view therefore have the same steps
to states of one view, and the fair step `Progress` is possible in all of them or
in none, so neither the safety nor the liveness of the run depends on which of
them TLC keeps.

The data of the host tools is not cut down to a few values but built from real
headers. The preparer is given every combination of five cartridge types, three
RAM codes, five ROM codes and three CGB flags, which crosses every edge of
`GEOMETRIES` and of the core's `geometry_ok`; the other preparer a good pair,
missing files, short and truncated files, both checksums wrong, a save too short.
The verifier sees a dump cut short, a wrong byte at every place a check looks at
and at one where none looks, each data line stuck high and low, a save whose banks
are all the first bank, a save cut to another legal length, Lynx blocks that fold, and is
given each reference alone and all three; for comparisons also pairs of bits
in one and in two places. The DAT files agree, contradict each other on one
SHA-1, lack a hash or a name, hold two documents, are torn, not XML, or too large.
`host_tools` is four specifications side by side (`HostInit` picks one), since
the tools and the suite share no state. `HostMCInit` only keeps the second preparer to the
first few files.

The size probe reads at most 4 places of 4 halfwords beyond each of 5 sizes, at
addresses fixed in the code, so its instance needs no smaller address space: it has
the real one, and content is abstracted to what two reads can have in common. The
cartridges are every power of two from 512 KiB to 32 MiB, floating or wrapping, and
each of these with one of: a run of blank halfwords, or of halfwords holding their own
addresses, at each place looked at, long enough for three or for all four of the
halfwords there; large parts of either kind; ROMs of equal halves or quarters, or
with every 4 KiB alike; one live address beyond the end at each place; a bus that
loses its charge at once or between two beats; and the empty slot.

The type invariants of the writer, the transaction, the file service, the restore control,
the file actions and the preparer are proved (section 5) and have no run; the other
modules state theirs for the reader.

### Disagreements between the code and what it says

Three runs look for a violation and find it; PROJECT.json quotes the lines.

1. `file_actions_masters` (`OneMaster`): a press of A, or the wake pulse, in the
   clock in which the action guard starts a dump starts a scan as well, since
   `dump_busy` rises one clock later. Probe and dump then share the bus.
2. `gb_dump_gate` (`ShutOnEveryExit`): a save dump cancelled while a byte is on
   offer ends with the cartridge's RAM gate open: the reader waits for a ready
   that an aborted chunk source never gives. It is still there, with its abort,
   when the next save dump starts, whose start it does not hear
   (`cart_save_gb.sv:228-231`) and which its abort then ends.
3. `restore_files_late` (`OwnAnswer`): a dump that times out leaves its command with
   the host and poisons nothing; a restore takes the late completion for its own.
   `restore_files` starts in the same states and shows that it ends in a failed
   operation, never in a wrong or overwritten file (`HandsOverTheFile`,
   `ExistingKept`), and that once the executor is found at rest, no completion
   is taken for another's (`OwnAnswersOnly`).

Other observations have no run of their own. After a write the card refuses,
which is a failure and not an abort, the reader is not reset
(`dump_engine.sv:871`, `912`) and may be at work beside the next dump's; `gb_dump`
has both (two dumps, fault `card`). A dump whose opens were all refused
writes into the file the slot has (`dump_engine.sv:717`). A 32 KB save of nothing
but FF is a warning to the blank check of `verify_dump.py` and a failure to its
check for identical banks. A ZIP member that does not inflate raises `zlib.error`,
which `match_dats.py:127` does not list, and ends the program instead of skipping
the file. The comment at `gba_size_probe.sv:93-103` says that no test fails without the rule
on open references (`!pt_ref_open`) and that the case it excludes is out of reach,
since offset 0 has to hold real data. It need not: the presence pass looks at six places,
and a ROM whose halfwords hold their own addresses everywhere but in the title passes it.
Without the rule `gba_size` finds such a 2 MiB ROM taken for one of 1 MiB. `run_all.py` accepts a `TB PASS` on any line of a bench's output.

## 4. Fairness

Only what the hardware does by itself is fair: the clock runs, a counted wait
ends (`WF` on the step with `BusAdvance` for bus phases; `Prompt` in the dump; the
timer of the engine, `TimeRunsOut`; the timer of the file service, `IoClock(TRUE)`),
a subordinate answers, the writer's clock runs. Nothing is assumed of the user,
of power or of a cancel. Two assumptions go beyond clocks, and the properties
are worth as much as they are:

- a connector mode that is asked for is reached (`mode_ready`). WAKE of the engine
  reloads its timer until then (`restore_engine.sv:423`), so without it neither
  `EngineAnswers` nor `WorkEnds` could hold. `cart_pins` settles in a fixed count.
- in `gb_dump` the host answers every command. The file writer has a timeout,
  which is left to the module planned for it; `OpsEnd` assumes nothing of the host.

The size probe (`ProbeEnds`) assumes only its clock: nothing of the connector, which may
never carry GBA mode.

The host tools have no liveness property and need no fairness: they are loops over
finitely many files. That none comes to rest before it has returned, the suite not without
a report, whatever simulation hangs, is what `host_tools` checks as freedom from deadlock;
the compiler and a check as a whole are trusted to end by themselves, as `run_all.py:141`
and `:177` give them no limit.

## 5. What is proved

### The writer

`CartRestoreGb_proofs` proves, for every byte set, bank size, number of banks,
supported geometry and staged image, and any inputs at any clock:

| theorem | says |
|---|---|
| `TypeCorrect` | every register keeps its type, the offset stays in the save |
| `RunWritesInOrder` | `BytesInOrder` |
| `RunSuccessIsComplete` | `SuccessIsComplete` |
| `RunNeverWaitsInVain` | `WaitHasTransaction` |
| `RequestsAreRevocable` | `NoByteAfterRevocation` |
| `RunExitsClean` | `CleanExit` |

The assumptions are those the modules name: at least one byte a bank and one
bank, and `Image` a set of functions from cells to bytes.

None of the properties is inductive. That the cartridge holds the staged bytes up
to the offset is kept by a step of the bus only if the transaction on the bus is
the one the writer queued, and that only if the two agree who has it. The
invariant `Inv` of `CartRestoreGbInv` therefore has four parts, each used in the
proof of the next:

- `TypeInv`: types, and what a cartridge register may be given;
- `BusInv`: the bus works for the waiting writer and for nobody else;
- `SequenceInv`: which transfer is queued in which stage (opening, a byte, a bank
  change, closing), and what gate, bank and mode registers are by then;
- `DataInv`: the cartridge is the staged save before the offset and the original
  beyond it, with the byte under way counted once its write edge has passed.

`Init => Inv` and `Inv /\ [Next]_vars => Inv'` are proved with a lemma per group of
actions, and each theorem follows from `Inv`. TLC checks the
properties themselves in `writer`.

### The transaction

`RestoreTransaction_proofs` proves, for any number of cartridges, games, headers and
saves, any prepared files, any faults, and cartridges swapped at any clock, but where the
table says otherwise:

| theorem | says | if |
|---|---|---|
| `TransactionTypes` | every register, buffer and variable keeps its type | |
| `NothingUnasked` | `CommittedOnly` | |
| `OnlyThePreparedGame` | `RightCartridge` | no swap in FINAL_SAVE |
| `LetGoClean` | `LetsGoClean` | |
| `NoSaveLost` | `Recoverable` | `FaultsAreSurvived` |
| `PromiseHolds` | `PromiseKept`: the transaction implements `RestorePromise` | `FaultsAreSurvived` |
| `CompleteMeansRestored` | `CompleteIsRestored` | `WriteEnabled`, at most two faults; one cartridge, or no swap in VERIFY1 and VERIFY2 |

What is assumed of the user is the constant `Held`, the phases in which the cartridge stays
where it is; a theorem that needs one says which. The engine notices a swap by what a pass
reads (`restore_engine.sv:454-482`), by the identity it probes again before the commit
(`:535-544`) and by the loss of power, never by itself, so each of these is needed. A cartridge put in with the power on while the final pass over the save
runs, between the ROM pass and the writer, is written if what is still to be read of its
save is what was captured: another game may then receive the prepared save, and its own is in the recovery
file (`PromiseHolds` asks nothing of FINAL_SAVE). One put in under the writer is written
from the middle on, with nothing backed up. One put in under the verify passes is reported
complete if it holds what they want to see. FINAL_SAVE is one pass over the save and
PROGRAM one run of the writer, both short beside the hold of three seconds on A that
begins the commit (`restore_guard.sv:18` at 100.66 MHz); the screen asks for the power to be off before a cartridge
is changed (`ui_screen.sv:653`), and what a change under power does to the hardware is not
known (`docs/HARDWARE-NOTES.md:734`). TLC finds `RightCartridge` violated with `Held = {}` or
`{"PROGRAM"}` in `MCRestoreTransaction.cfg`, and `PromiseKept` with `{}` or
`{"FINAL_SAVE"}`; `CommittedOnly` holds with `{}`, as its theorem says.

`FaultsAreSurvived` is: no pass over the save goes wrong and no cartridge is swapped in
PROGRAM, or at most two go wrong and there is one cartridge. It cannot be weakened. With two cartridges one wrong pass is too
much: the final pass over the second may read what was captured from the first.
With one cartridge three wrong passes may agree on a save that is not there. TLC
finds the first with `MaxFaults = 1` and `INVARIANTS Recoverable` in
`MCRestoreTransaction.cfg`, the second with `MaxFaults = 3` in
`MCRestoreTransaction_faults.cfg`. Also assumed (`WorldAssumption`): `MaxFaults`
is a natural number, and the module's assumptions on its sets.

The invariant of `RestoreTransactionInv` speaks first of the engine's registers
alone (`EngineInv`): which subordinate and which file request belong to which phase,
which phases are of the preflight and which of the commit, and from which phase on the
staged save is the one the manifest names. Then it ties the registers to the world:
who may hold the gate open (`BusInv`), which game is in the slot when the save is
compared for the last time, if it stays there (`GameInv`), which buffer is on the SD card (`BackupInv`),
that nothing has changed before the writer (`UntouchedInv`). `CapturedInv` and
`VerifiedInv` count how many faults it takes for a captured, compared or verified save
to be another than the cartridge's; `VouchedInv`, which gives `NoSaveLost`, says
that the save the writer is about to replace is on the SD card.

The proof has two halves. One lemma per branch of the engine shows which registers a
clock leaves (`Kept`: a phase is entered only from the one before it and by the
answer waited for, every buffer is written in one phase only); one lemma per action
of the world shows what happens around that clock (`Around`). One lemma per part of the
invariant then needs these two facts only, and no definition of the engine.
TLC checks the properties themselves in `restore` and `restore_faults`.

### The file service

`RestoreFileIO_proofs` proves, for files of any length, any number of recovery
names, any number of operations and every host of `ApfTarget` (slow, failing,
garbling, with a file that turns up between probe and create):

| theorem | says |
|---|---|
| `Invariance` | the invariant the next two rest on |
| `NothingWrittenOver` | `ExistingKept` |
| `OwnAnswersHeard` | `OwnAnswersOnly` |
| `FilesHandedOver` | `HandsOverTheFile` |

Assumed (`TargetAssumption`, `FileAssumption`): a file has at least one word; an
image and the contents of the files that are there are not those of a new file;
only an open or a write of a dump may still be with the host at the start.

The executor has one `done` for every command, and the service looks at nothing else,
so each theorem needs to know which command an answer is to. The invariant has
three cases (`PipeInv`). The service is `InStep`: the one command on its way, as
strobe, in a queue, with the host or answered, is the one the service waits for.
Or it is `Behind`, as a dump's abandoned command leaves it: what it hears is the
answer to the command before, it gets no further than the metadata, and is in step
again when it has failed and the executor rests. Or it is `Poisoned`: a command has timed
out, and it gives no other. With the executor at rest in the beginning the second case
never arises, which is `OwnAnswersOnly`; the run `restore_files_late` shows what it is
like otherwise.

`ExistingKept` holds in all three. The only command that changes a file is a write,
and the service gives it only after an open answered with "created" (`CreatedInv`), and
after the name and the length of that file have been checked, still unwritten
(`CheckedInv`); from there until the host takes it no other command is on its way
(`WriteInv`).

`HandsOverTheFile` rests on the first invariant and on one about data (`FileInv`): what
the host has yet to send is the name or words of the file in the slot of its command, each
word with its place (`SentInv`, `SlotInv`); past the checks of name and length, both are
right (`PathInv`, `SizeInv`); and while no bad word has been received, the words
delivered are a beginning of that file (`ReadInv`). It needs no assumption beyond the two: a
host that garbles a word makes the operation fail. TLC checks the properties themselves in
`restore_files`.

### The restore control

`RestoreControl_proofs` proves, for any buttons, cartridges, failures and losses of
power, clock by clock, and for every length of the debounce, of the two holds and of the
wake count:

| theorem | says |
|---|---|
| `TypesKept` | every register of buttons, guard, probe, engine and glue keeps its type |
| `PageIsTruthful` | `TruthfulPage` |
| `BusHasOneMaster` | `OneMaster` |
| `CommitIsDeliberate` | `DeliberateCommit` |
| `IdentityIsFresh` | `FreshIdentity` |

Assumed (`ControlAssumption` and those of guard and engine): the counts are natural
numbers, and the wake count is not 0 and shorter than the entry hold, as the parameters
of `core_top` are (2 s and 3 s).

Nothing arbitrates between guard, probe and engine, so the invariant says why it is not
needed. A request is a pulse of the guard, then a pending probe, then the start of the
engine, and it is in one of the three places at a time, while the engine rests
(`RequestInStep`); a pulse lasts for the clock after the one that made it
(`PulsesInStep`). The probe rests wherever the engine works, but for FINAL_PROBE, where
the engine asks for a scan (`ProbeRests`). What could start one behind its back is the
wake pulse after power-up. `PoweredUp` excludes it: the two counters run side by
side from the first clock of the entry hold, and the hold is the longer one. Without the
assumption `BusHasOneMaster` is false. `HoldCounted` ties the counter
of the guard to the clocks for which A alone has been down, `IdentityFresh` a request on its way
to a scan that began after it, `EngineInStep` and `PageInStep` what the engine says
of itself to its phase and to the page.

One lemma per unit says what one clock of it does, for each branch of its
`always` block (`ProbeEffect` and its like); the lemma of a part of the invariant uses
these effects and no definition of a unit.

### The file actions

`DumpControl_proofs` proves, for any cartridges, adapters, buttons and disturbances:

| theorem | says |
|---|---|
| `TypesKept` | every register keeps its type |
| `ResultIsOwned` | `ResultOwned` |
| `DumpsAreFresh` | `DumpIsFresh` |

An answer carries no mark of the request it is to. That a late one of an older scan is
not taken for it is `RequestAnswered`: a pending request has had a scan of its own, or
nothing an older scan may still say is left (`NoOldAnswer`). It needs the order in which
probe, size probe and save scan follow each other and clear what the one before has
said (`SizingInStep`), and that there is one request, and none beside a running dump
(`OneRequest`). The other theorem follows from `DumpOwned`, which says of a running dump
what `ResultOwned` says of a finished one. `OneMaster` is false here; see section 3.

### The Game Boy dump

`DumpEngineGb_proofs` proves, for a ROM and a save of any size behind any of the mappers
modelled, any chunk size, any number of path styles and of dumps, and with opens refused,
writes failing, cancels and losses of power at any clock of either domain:

| theorem | says |
|---|---|
| `InvAlways` | the invariant the others rest on |
| `TypeKept` | every register keeps its type, and no file grows beyond the longest dump |
| `EdgesHeardAlways` | `EdgesHeard` |
| `CompleteIsRight` | `FileIsRight` |
| `CartridgeAsFound` | `LeftAsFound` |

Assumed (`DumpAssumption` and those of the leaves): contents of the cartridge are bytes;
there is a bank of ROM and a byte in it, a chunk has a byte, a path style is tried; a
bank of RAM has more than one byte (the smallest save the reader takes has 2048).

Nobody tells the writer that the reader has stopped. After an abort the readers, the
chunk source and the writer each go their own way home, in two clocks, and a save reader
stranded by one dump does not hear the start of the next and offers it the byte in its
hand. That the writer counts none that is not this dump's is bookkeeping (`Books`) over what
the reader has still to hand over (`OwnRest`) and what is in the buffer or written (`Sent`).
While nothing has gone wrong the dump is `Exact`: the two make up the length of the file,
file and buffer are the cartridge's bytes so far, the reader holds the byte it is at, and
the mapper is set as the reader believes (`SaveRight`, `RomRight`). Once anything has -
an abort that stops the reader, a chunk lost on the card, a start that was not heard -
it is `Short`: the two fall short of the length, the sum never grows again, and `DONE` is
out of the writer's reach. The one byte a stopping save reader can still hand over is why
a save must have two.

The two readers and the bus are tied by `Coupled` (what is on the bus is what the reader of
this dump waits for) and `Latched` (a write past its edge is in the cartridge), the two
clocks by `Edges`, `Handshake` and `RunOK`. `SaveUndone` says what a reader past its last
byte has put back, which with `SaveRest = 0` at the end gives `CartridgeAsFound`; of a dump that
fails it says nothing, and `gb_dump_gate` shows why it cannot.

One lemma per unit says what one clock does to each register (`SaveFx`, `RomFx`, `ChunkFx`,
`EngFx`, `WriterFx`, `HostFx`); `ClockKept` puts them together for a clock of `clk_sys`,
`WriterClockKept` and `HostKept` are the other side. The case that costs most is the byte
that leaves the reader in the same clock in which the chunk source takes it (`Sum`,
`NextByte`). TLC has checked `Inv` as an invariant of the instance of `gb_dump`, and checks the
properties themselves there.

### The host tools

`HostTools_proofs` proves the properties of the run `host_tools` but one, for any number of
preparers, any stock of ROMs and saves of any size and any number of failing calls and
power losses; any card and command line of the verifier; any library and DAT directory;
any well-formed checks, any benches and any number of threads:

| theorem | says |
|---|---|
| `Invariance`, `PreparerTypes` | the preparer's invariant, and its types |
| `NeverHalfAPair` | `PairIsSound` |
| `StatusTellsWhatIsThere` | `ExitIsTruthful` |
| `NothingReplaced` | `ExistingKept` |
| `RefusedOnlyForCause` | `RefusedForCause` |
| `HostInvariance` | `HostInv`: the invariant of whichever tool is used |
| `PreparerIsPartOfIt` | `HostSpec => Spec`: the five above hold in `HostTools` as well |
| `ClearedIsUndamaged` | `DamageIsCaught`: every file was there, is undamaged, of the length its ROM names and as every reference says |
| `SavesAreSizedAlike` | verifier and core agree on the length of every save |
| `MatchesArePublished` | `MatchIsRecorded` |
| `ControlsAreNotVacuous` | `NoVacuousControl` |
| `ReportsAreSerial` | `ReportIsSerial` |

**The preparer.** Assumed (`PrepareAssumption`): the other program is no preparer, "no
file" is not a file, a file has a length.
That a pair is never of two preparers is a race between processes that look, link
and take back by name. Its invariant says why nobody loses
it: where a process is determines what it has linked (`ControlInv`); what it links
is whole, synced and its own (`StagedInv`); until its loop over the links is past,
every name it linked is still its own, so an undo by name takes nothing else
(`DirInv`); and a manifest stands beside the save of its process, or power took
that save and no process is past its look, nor gets past it while the manifest is
there (`MetaInv`). `ExitInv` ties exit status and directory. A step of one process
keeps what the invariant says of every other one by one lemma (`OthersKeep`),
so the lemma of an action speaks of the acting process and of the directory.
That the preparer refuses no pair the core would take, and prepares none it would
refuse, rests on `PreparesWhatIsTaken`: the table of the script and the case
statement of `restore_engine.sv` admit the same headers with the same save sizes.

**The verifier.** Assumed of a session (`IsSession`): anything may be on the card under any
name. Under the names the user gives there should be what a cartridge has: a Game Boy ROM
has its logo, a size code its length agrees with, and the right global checksum, and a Lynx
file is as long as the core reads it (`WellMade`); of a save nothing is assumed. A file, on
the card or as it should be, is one that `CartImage` can say: more than half of its bytes are
one value (`IsImage`), so that an image is one record and two with the same content are equal.
The files the tool is for (padded ROMs, saves, blank reads) are so, but a ROM without
padding need not be, and of such the theorem says nothing.

The sums are the difficult part. A wrong byte moves the sum or, as one of the two
bytes that hold it, what is stored of it, by less than 65536, so the two part
(`GlobalSumCatches`); that needs that any element may be taken out of a sum over a
finite set (`SumTakesOut`), which is an induction over the sum's own definition: the smallest
set for which it fails is looked at (`WFMin`, `NatLessThanWellFounded`). A line of
the cartridge that is stuck shows in the four bytes of the logo (`LogoCatches`), each line
being low in one of them and high in another. The line a comparison names is the one that
differs, and no other does (`NamedIsStuck`). The invariant `VInv` then follows main:
the card only loses files (`CardIsRead`), how many files are done (`WhereMainIs`), each of
them was there and clear when it was read while nothing has failed (`SeenIsRead`,
`DoneAreClear`), and what was said of a comparison was said of the two files that were read
(`ComparedAreRead`, `ComparedAreSame`, `SaidIsCompared`). What was read is history (`seen`,
`compared`): no step depends on it. That a save that passes has the length the core reads
of a cartridge with the ROM beside it (`SaveFits`) rests on the two tables agreeing
(`SavesAreTabled`).

**The matcher.** Assumed (`HashesAreReal`, `IsUse`): there is an image, an image is not
"no file", none is empty; a file given by name exists. `MInv`: the entries are what the DATs
read so far publish (`Published`), whole files or none of them, and none of them
raised; what is missed has been reported. `MatchIsRecorded` follows for the step that reports.

**The suite.** Assumed (`SuiteAssumption`, which the run evaluates for the thirteen checks): no trial
that wants a failure is the shipped text as it stands; one whose text is replaced
without a look (the last four of `check_restore_bridge.py`) comes after a trial of the
shipped text; a check without trials judges the sources; a simulation takes at least
a second.
The invariant has two halves that touch only where a check ends. `CheckInv`: the trials
before the present one have been run, in order (`OneByOne`); the mutant of the present one,
or with `ahead` every mutant, is one (`MutantsMade`), since every way of making it that
looks refuses a text that is not there. That leaves the mutants nobody looks for: such
a one may be the shipped text, and then, since the shipped text has passed before, it
cannot fail as it should (`ShippedCannotFail`). `SuiteInv`: the verdict of a thread is
about its own bench, and what has been collected is done (`OwnVerdicts`, `Collected`).

The library operators a tool uses are other operators under its instance
(`V!SumFunction`); lemmas at the head of the verifier's part say that they are the same.

### The size probe

`GbaSizeProbe_proofs` proves, for any cartridge, any number of probes and a connector that
comes and goes as it likes:

| theorem | says |
|---|---|
| `SizeProbeInvariance` | `Inv`: the registers hold what a look at the places so far gives |
| `SizesAreSound` | `SizeIsSound` |

Assumed of a cartridge (`IsCartridge`; of those of the run TLC evaluates it): its ROM is a power of two
from 512 KiB to 32 MiB, or there is none. Parts of it, any number of any length at any
place, may be blank, or may hold their own addresses, but not some the one and some the
other. The first so many bytes of every period may be those of the first period, the
period being of more than one halfword; if these are not all of it, no part is blank or
its own address, and the rest shows at one of the eight halfwords of the first two points.
Any addresses beyond its end may be alive, and the floating bus may lose its charge. A ROM
outside of this, one half blank and half filled with its own addresses, say, may read
like a shorter one at all sixteen halfwords of a size, and then nothing the probe does
could tell it.

The first half of the module is about two reads. Below its end a ROM never floats: the 32-bit
read that confirms a floating point finds the very halfword it should not
(`NoFloatBelow`). So a size that ends a ROM too early has been seen as a mirror, and a
mirror has data in it: were all of it blank it would not vary, were all of it its own
addresses the reference would look like the bus (`MirrorHoldsData`). The same data in two
places means that the ROM starts over between them (`SameData`), at two points
that it does so everywhere (`TwoPointsTell`). At and beyond its end, a ROM that shows it is seen
to end at each of the four points (`EndIsSeen`): the next halfword on a floating bus is
another one, no point is at the end of a page of 128 KiB, where the second beat
would be addressed anew, and the first two words of a point are never on both sides of
where a ROM starts over (`NoSeam`). What is refused has no data at the five presence
addresses within the smallest ROM, since no period divides both
distances between them that a header has, 160 and 178 bytes (`NotThereIsFeatureless`,
`NoPeriod`).

The second half ties the registers to that. `PresInv`, `LookInv` and `WordInv` say for the
three nested loops what the registers are after so many addresses, points or words;
`LookInv` also that a size beyond that of a ROM which shows its end is never tried,
`DoneInv` that the result is sound. `ReadsStay` carries what was seen over a step:
only `Start` changes the cartridge, and it forgets everything.

### Only model-checked

- All liveness (fairness is out of the prover's reach), and that a host tool never rests
  before it has returned, which is deadlock.
- `SoundDumpPasses` of the verifier. Half of it is the self test, a fixed computation on
  dumps it builds itself, which TLC evaluates as it stands. The other half, for every
  cartridge, would have to assume of a sound one just what the tool checks of it, and a
  theorem would repeat the assumption. What of it is not the tool's own say, that its table
  has the lengths the core reads, is `SavesAreSizedAlike`.

## 6. Not modelled, and simplifications to know of

Not modelled, and why:

- the GBA, Game Gear and Lynx readers and buses, but for the control of `core_top` and
  what a ROM read of the GBA size probe returns:
  the Game Boy path came first, since it is the one that is written to as well;
- identifiers, CRC, checksum and path generator: arithmetic and look-ups without
  control;
- pins and electrical timing, which TLA+ does not see; `mode_ready` is an input;
- the crossings of `cart_adapter_state.sv` and of the restore's request and result
  (`core_top.sv:2019-2056`): still to do;
- the timeout of the file writer and its strict path for Game Gear;
- the host commands of the bridge that are not file commands; screens;
- of the Python code: `check_*.py` that look for text in sources or are unit tests
  of the tools above (to the runner each is a process that passes or fails:
  `PlainCheck`), the SystemVerilog that checks carry as text, and the two
  converters, which write a table of bits in another order.

Simplifications:

- A hash (CRC32, SHA-1) of a file is the file itself; `MatchDats` gives two images
  one CRC32, since it looks for matches by SHA-1 first.
- A file on a card is read at once. Other programs create files in the output
  directory of the preparer, and never remove or change one.
- A signal to the preparer ends it. One that Python turns into an exception removes
  the temporary directory, not what is linked: `except OSError` at
  `prepare_restore.py:106` does not take `KeyboardInterrupt`.
- A negative control finds its text in one, two or no places, once per trial; a
  bench or mutant that compiles ends in one of the ways its check tells apart.
- A CRC or checksum is the value it is computed from: a collision is outside.
- Two cartridges with the same ROM and the same save are one to the code as well.
- What is found nowhere else in a GBA ROM is never a halfword that an undriven bus or
  a blank part would show by chance; the bus keeps its charge or loses all of it.
- `RestoreTransaction` has swaps under power at any clock but in the phases of `Held`,
  which section 5 names for each property: the engine does not notice a swap after the
  final ROM pass. In these phases one begun with the power off is left out as well, since the
  engine, stopped by the loss of power, leaves them within a few clocks. A swap under
  a pass over the save, or under the writer, counts as a fault of `MaxFaults`
  when it makes the pass read, or leaves the cartridge with, anything else.
- In `RestoreTransaction` the subordinates are events; that the writer's event is
  right is what `CartRestoreGb` shows.
- `Stranded` in `DumpEngineGb`: the end counter of SS_END, 65535 clocks, outlasts any
  exit that can still happen (at some 80 clocks a transaction), so it fires only
  when the reader can no longer move.
- A host command outlasts the synchronisers of the chunk handshake, so the chunk
  source sees a request fall before the next one rises.
- A file the dump did not open keeps its tail beyond the dump; `FileIsRight` speaks
  of its head.

## 7. Plan

Done: the writer with its proofs, the transaction with its promise and its proofs, the
restore and file action control with their proofs, the Game Boy dump with its proofs, the
GBA size probe with its proofs, the file service with its proofs, the host tools with their proofs.

Left, in this order. A leaf joins the run of the module that composes it.

1. The GBA branch: `gba_cart_bus`, `cart_dump_gba`, `cart_save_gba`, the EEPROM
   serialiser, its reader and its size probe composed as one protocol with the chunk
   source.
2. `ApfFileWriter` on `ApfTarget`, with its timeout: the open that stalls, the
   write without an open that follows it, the strict path of Game Gear dumps and
   its poisoning; then dump and restore on one executor in one module. The path
   search of `dump_engine` with the names it tries.
3. The crossing of the file service's request and result and of
   `cart_adapter_state`.
4. The Game Gear reader and bus.
