---------------------------- MODULE PrepareRestore ----------------------------
(***************************************************************************)
(* scripts/prepare_restore.py: from a ROM and a save it publishes the pair *)
(* RESTORE.sav and RESTORE.meta that the restore of the core reads.  One   *)
(* action is one call to the file system.                                  *)
(*                                                                         *)
(* Several preparers may run at once on one directory, beside a program    *)
(* that creates files of these names; each may be killed, the disk may     *)
(* fail, and power may go, which takes from a file what was not synced and *)
(* from the directory what no one ever syncs.                              *)
(***************************************************************************)
EXTENDS CartImage

CONSTANTS
  Preparer,      \* the processes
  Source,        \* the pairs of files a user may pass, by name
  Files(_),      \* what they hold: a ROM and a save
  NoFile,        \* a source that cannot be read, and a name that is free
  Other,         \* the program that is no preparer
  MaxFaults,     \* bound: steps in which a call to the file system fails
  MaxPowerLosses \* bound

Name == {"sav", "meta"}

\* A file of the output directory: whose it is, is it all there, is it synced?
Output == [by : Preparer \cup {Other}, whole : BOOLEAN, synced : BOOLEAN]

ASSUME PrepareAssumption ==
  /\ Other \notin Preparer
  /\ NoFile \notin Output
  /\ \A s \in Source : Files(s).rom # NoFile => Files(s).rom.len \in Nat
  /\ MaxFaults \in Nat /\ MaxPowerLosses \in Nat

VARIABLES
  source,  \* the arguments of each process
  pc,      \* where it is
  name,    \* the file its loop is at
  staged,  \* its temporary directory: a file under each name
  linked,  \* `published`, the outputs it has linked
  exit,    \* its exit status
  failing, \* it is on its way out with an exception
  dir,     \* the output directory: a file under each name
  faults,      \* the steps at which a call failed
  powerLosses

proc == <<source, pc, name, staged, linked, exit, failing>>
vars == <<proc, dir, faults, powerLosses>>

-----------------------------------------------------------------------------
(* What is prepared *)

\* An MBC5 no larger than an MBC3.
GEOMETRIESSmall ==
  {[type |-> \h03, ram |-> \h02, save |-> 8192,  cgb |-> {0}, code |-> 4],
   [type |-> \h10, ram |-> \h03, save |-> 32768, cgb |-> {0, \h80}, code |-> 6],
   [type |-> \h13, ram |-> \h03, save |-> 32768, cgb |-> {0, \h80}, code |-> 6],
   [type |-> \h1B, ram |-> \h02, save |-> 8192,  cgb |-> {0, \h80, \hC0}, code |-> 6],
   [type |-> \h1B, ram |-> \h03, save |-> 32768, cgb |-> {0, \h80, \hC0}, code |-> 6]}

\* (cartridge type, RAM code) -> save bytes, CGB flags, largest ROM code
GEOMETRIES ==
  {[type |-> \h03, ram |-> \h02, save |-> 8192,  cgb |-> {0}, code |-> 4],
   [type |-> \h10, ram |-> \h03, save |-> 32768, cgb |-> {0, \h80}, code |-> 6],
   [type |-> \h13, ram |-> \h03, save |-> 32768, cgb |-> {0, \h80}, code |-> 6],
   [type |-> \h1B, ram |-> \h02, save |-> 8192,  cgb |-> {0, \h80, \hC0}, code |-> 7],
   [type |-> \h1B, ram |-> \h03, save |-> 32768, cgb |-> {0, \h80, \hC0}, code |-> 7]}

GeometryOf(rom) == {g \in GEOMETRIES : g.type = CartType(rom) /\ g.ram = RamCode(rom)}

save_bytes_for(rom) == (CHOOSE g \in GeometryOf(rom) : TRUE).save

validate_rom(rom) ==
  /\ rom.len >= \h150
  /\ \E g \in GeometryOf(rom) : CgbFlag(rom) \in g.cgb /\ RomCode(rom) <= g.code
  /\ rom.len = 32768 * 2 ^ RomCode(rom)
  /\ gb_header_sum(rom) = ByteAt(rom, \h14D)
  /\ gb_global_sum(rom) = StoredGlobal(rom)

\* The ValueErrors of make_manifest.
Preparable(s) == validate_rom(s.rom) /\ s.save.len = save_bytes_for(s.rom)

make_manifest(s) ==
  [saveBytes |-> s.save.len, saveCrc |-> s.save, romBytes |-> s.rom.len, romCrc |-> s.rom,
   flags |-> <<CartType(s.rom), RamCode(s.rom), RomCode(s.rom), CgbFlag(s.rom)>>,
   revision |-> <<ByteAt(s.rom, \h14D), ByteAt(s.rom, \h14C)>>]

Payload(s, n) == IF n = "sav" THEN s.save ELSE make_manifest(s)

-----------------------------------------------------------------------------
(* The cartridge and the core that read the pair *)

geometry_ok(rom) ==
  LET type == CartType(rom)  ram == RamCode(rom)  cgb == CgbFlag(rom)  code == RomCode(rom)
  IN \/ type = \h03 /\ ram = \h02 /\ cgb = 0 /\ code <= 4
     \/ type \in {\h10, \h13} /\ ram = \h03 /\ cgb \in {0, \h80} /\ code <= 6
     \/ type = \h1B /\ ram \in {\h02, \h03} /\ cgb \in {0, \h80, \hC0} /\ code <= 7

CoreSaveBytes(rom) ==
  IF CartType(rom) \in {\h03, \h1B} /\ RamCode(rom) = \h02 THEN 8192 ELSE 32768

\* Preflight of the files sav and meta with a cartridge that holds rom.
CoreAccepts(rom, sav, meta) ==
  /\ geometry_ok(rom)
  /\ meta.saveBytes = CoreSaveBytes(rom)
  /\ meta.romBytes = 32768 * 2 ^ RomCode(rom)
  /\ meta.flags = <<CartType(rom), RamCode(rom), RomCode(rom), CgbFlag(rom)>>
  /\ meta.revision = <<ByteAt(rom, \h14D), ByteAt(rom, \h14C)>>
  /\ sav.len = CoreSaveBytes(rom)
  /\ meta.saveCrc = sav
  /\ meta.romCrc = rom

-----------------------------------------------------------------------------
(* One process *)

Goes(p, to) == pc' = [pc EXCEPT ![p] = to]
Raises(p, to) == Goes(p, to) /\ failing' = [failing EXCEPT ![p] = TRUE]
Exits(p, status) == Goes(p, "ended") /\ exit' = [exit EXCEPT ![p] = status]

\* A loop over the two files: round again, or after the last one.
NextFile(p, again, after) ==
  IF name[p] = "sav"
  THEN Goes(p, again) /\ name' = [name EXCEPT ![p] = "meta"]
  ELSE Goes(p, after) /\ name' = [name EXCEPT ![p] = "sav"]

\* A call the file system refuses of its own accord.
DiskFails(p) ==
  /\ faults' = faults \cup {pc[p]}
  /\ Cardinality(faults') <= MaxFaults

\* Both sources are read and judged before the output is looked at.
Read(p) ==
  /\ pc[p] = "read"
  /\ LET s == Files(source[p])
     IN IF s.rom # NoFile /\ s.save # NoFile /\ Preparable(s)
        THEN Goes(p, "look") /\ UNCHANGED exit
        ELSE Exits(p, 1)
  /\ UNCHANGED <<source, name, staged, linked, failing, dir, faults, powerLosses>>

\* exists() or is_symlink(): whatever has the name.
Look(p) ==
  /\ pc[p] = "look"
  /\ IF dir[name[p]] # NoFile
     THEN Exits(p, 1) /\ UNCHANGED name
     ELSE NextFile(p, "look", "mkdir") /\ UNCHANGED exit
  /\ UNCHANGED <<source, staged, linked, failing, dir, faults, powerLosses>>

\* The output directory, and the temporary one in it.
MakeDirectories(p) ==
  /\ pc[p] = "mkdir"
  /\ \/ Goes(p, "write") /\ UNCHANGED <<exit, faults>>
     \/ DiskFails(p) /\ Exits(p, 1)
  /\ UNCHANGED <<source, name, staged, linked, failing, dir, powerLosses>>

File(p, whole) == [by |-> p, whole |-> whole, synced |-> FALSE]

Write(p) ==
  /\ pc[p] = "write"
  /\ \/ /\ staged' = [staged EXCEPT ![p][name[p]] = File(p, TRUE)]
        /\ Goes(p, "sync")
        /\ UNCHANGED <<failing, faults>>
     \/ /\ DiskFails(p)
        /\ staged' = [staged EXCEPT ![p][name[p]] = File(p, FALSE)]
        /\ Raises(p, "cleanup")
  /\ UNCHANGED <<source, name, linked, exit, dir, powerLosses>>

\* The data stays in the cache.
SyncForgotten(p) ==
  /\ pc[p] = "sync"
  /\ NextFile(p, "write", "link")
  /\ UNCHANGED <<source, staged, linked, exit, failing, dir, faults, powerLosses>>

Sync(p) ==
  /\ pc[p] = "sync"
  /\ \/ /\ staged' = [staged EXCEPT ![p][name[p]].synced = TRUE]
        /\ NextFile(p, "write", "link")
        /\ UNCHANGED <<failing, faults>>
     \/ DiskFails(p) /\ Raises(p, "cleanup") /\ UNCHANGED <<name, staged>>
  /\ UNCHANGED <<source, linked, exit, dir, powerLosses>>

\* rename instead of link.
LinkReplaces(p) ==
  /\ pc[p] = "link"
  /\ dir' = [dir EXCEPT ![name[p]] = staged[p][name[p]]]
  /\ linked' = [linked EXCEPT ![p] = @ \cup {name[p]}]
  /\ NextFile(p, "link", "cleanup")
  /\ UNCHANGED <<source, staged, exit, failing, faults, powerLosses>>

\* os.link takes a name that is free, and no other.
LinkMade(p) ==
  /\ pc[p] = "link"
  /\ dir[name[p]] = NoFile
  /\ dir' = [dir EXCEPT ![name[p]] = staged[p][name[p]]]
  /\ linked' = [linked EXCEPT ![p] = @ \cup {name[p]}]
  /\ NextFile(p, "link", "cleanup")
  /\ UNCHANGED <<source, staged, exit, failing, faults, powerLosses>>

LinkRefused(p) ==
  /\ pc[p] = "link"
  /\ \/ dir[name[p]] # NoFile /\ UNCHANGED faults
     \/ DiskFails(p)
  /\ Raises(p, "undo")
  /\ UNCHANGED <<source, name, staged, linked, exit, dir, powerLosses>>

\* The file that was linked is left.
UndoForgotten(p) ==
  /\ pc[p] = "undo"
  /\ Goes(p, "cleanup")
  /\ UNCHANGED <<source, name, staged, linked, exit, failing, dir, faults, powerLosses>>

\* The outputs linked so far are unlinked, by name.
Undo(p) ==
  /\ pc[p] = "undo"
  /\ Goes(p, "cleanup")
  /\ \/ /\ dir' = [n \in Name |-> IF n \in linked[p] THEN NoFile ELSE dir[n]]
        /\ linked' = [linked EXCEPT ![p] = {}]
        /\ UNCHANGED faults
     \/ linked[p] # {} /\ DiskFails(p) /\ UNCHANGED <<dir, linked>>
  /\ UNCHANGED <<source, name, staged, exit, failing, powerLosses>>

Cleanup(p) ==
  /\ pc[p] = "cleanup"
  /\ \/ /\ staged' = [staged EXCEPT ![p] = [n \in Name |-> NoFile]]
        /\ Exits(p, IF failing[p] THEN 1 ELSE 0)
        /\ UNCHANGED faults
     \/ DiskFails(p) /\ Exits(p, 1) /\ UNCHANGED staged
  /\ UNCHANGED <<source, name, linked, failing, dir, powerLosses>>

Prepare(p) ==
  \/ Read(p) \/ Look(p) \/ MakeDirectories(p) \/ Write(p) \/ Sync(p)
  \/ LinkMade(p) \/ LinkRefused(p) \/ Undo(p) \/ Cleanup(p)

-----------------------------------------------------------------------------
(* The world *)

OtherCreates(n) ==
  /\ dir[n] = NoFile
  /\ dir' = [dir EXCEPT ![n] = [by |-> Other, whole |-> TRUE, synced |-> TRUE]]
  /\ UNCHANGED <<proc, faults, powerLosses>>

Running(p) == pc[p] \notin {"read", "ended", "killed"}

\* A signal; one that Python turns into an exception still removes the
\* temporary directory.
Kill(p) ==
  /\ Running(p)
  /\ Goes(p, "killed")
  /\ staged' \in {staged, [staged EXCEPT ![p] = [n \in Name |-> NoFile]]}
  /\ UNCHANGED <<source, name, linked, exit, failing, dir, faults, powerLosses>>

AfterPowerLoss(f) == IF f = NoFile \/ f.synced THEN f ELSE [f EXCEPT !.whole = FALSE]

\* The directory is not synced: any name a preparer linked may be gone again.
PowerLoss ==
  /\ powerLosses < MaxPowerLosses
  /\ powerLosses' = powerLosses + 1
  /\ pc' = [p \in Preparer |-> IF Running(p) THEN "killed" ELSE pc[p]]
  /\ \E gone \in SUBSET {n \in Name : dir[n] # NoFile /\ dir[n].by # Other} :
       dir' = [n \in Name |-> IF n \in gone THEN NoFile ELSE AfterPowerLoss(dir[n])]
  /\ staged' = [p \in Preparer |-> [n \in Name |-> AfterPowerLoss(staged[p][n])]]
  /\ UNCHANGED <<source, name, linked, exit, failing, faults>>

Init ==
  /\ source \in [Preparer -> Source]
  /\ pc = [p \in Preparer |-> "read"]
  /\ name = [p \in Preparer |-> "sav"]
  /\ staged = [p \in Preparer |-> [n \in Name |-> NoFile]]
  /\ linked = [p \in Preparer |-> {}]
  /\ exit = [p \in Preparer |-> -1]
  /\ failing = [p \in Preparer |-> FALSE]
  /\ dir = [n \in Name |-> NoFile]
  /\ faults = {} /\ powerLosses = 0

Next ==
  \/ \E p \in Preparer : Prepare(p) \/ Kill(p)
  \/ \E n \in Name : OtherCreates(n)
  \/ PowerLoss

Spec == Init /\ [][Next]_vars

-----------------------------------------------------------------------------
(* Properties *)

Stages == {"read", "look", "mkdir", "write", "sync", "link", "undo", "cleanup", "ended", "killed"}

\* The variables have their types.
TypeOK ==
  /\ source \in [Preparer -> Source]
  /\ pc \in [Preparer -> Stages]
  /\ name \in [Preparer -> Name]
  /\ staged \in [Preparer -> [Name -> Output \cup {NoFile}]]
  /\ linked \in [Preparer -> SUBSET Name]
  /\ exit \in [Preparer -> {-1, 0, 1}]
  /\ failing \in [Preparer -> BOOLEAN]
  /\ dir \in [Name -> Output \cup {NoFile}]
  /\ faults \subseteq Stages /\ powerLosses \in 0 .. MaxPowerLosses

Mine(p, n) == dir[n] # NoFile /\ dir[n].by = p

\* Prepared files are one process's, and complete: RESTORE.sav and RESTORE.meta
\* are never of two preparers, and neither is ever cut short, whatever was
\* killed, refused or lost in between ("Publish only fully written files").
PairIsSound ==
  /\ \A n \in Name : dir[n] # NoFile => dir[n].whole
  /\ \A p, q \in Preparer : Mine(p, "sav") /\ Mine(q, "meta") => p = q

\* The exit status tells what is there: after 0, a pair the core will take for
\* the cartridge the ROM is of; after 1, nothing of this process, not even its
\* temporary directory, unless removing a file is what failed.
ExitIsTruthful ==
  powerLosses = 0 =>
    \A p \in Preparer :
      /\ exit[p] = 0 =>
           /\ Mine(p, "sav") /\ Mine(p, "meta")
           /\ LET s == Files(source[p])
              IN CoreAccepts(s.rom, Payload(s, "sav"), Payload(s, "meta"))
      /\ exit[p] = 1 /\ faults \cap {"undo", "cleanup"} = {} =>
           \A n \in Name : staged[p][n] = NoFile /\ ~Mine(p, n)

\* A file that is there is never replaced, by anyone, and is taken away only by
\* the process that made it, on its way out with an error ("refuse to replace
\* either output file").
ExistingKept ==
  [][\A n \in Name :
       dir[n] # NoFile /\ dir'[n] # dir[n] =>
         \/ powerLosses' # powerLosses
         \/ dir'[n] = NoFile /\ pc[dir[n].by] = "undo"]_vars

\* The preparer turns away no pair the core would take: what it refuses on its
\* contents has wrong checksums, or the core would refuse it as well.
RefusedForCause ==
  [][\A p \in Preparer :
       pc[p] = "read" /\ exit'[p] = 1 =>
         LET s == Files(source[p])
         IN \/ NoFile \in {s.rom, s.save}
            \/ s.rom.len < \h150
            \/ gb_header_sum(s.rom) # ByteAt(s.rom, \h14D)
            \/ gb_global_sum(s.rom) # StoredGlobal(s.rom)
            \/ ~CoreAccepts(s.rom, s.save, make_manifest(s))]_vars

=============================================================================
