--------------------------- MODULE HostTools_proofs ---------------------------
(***************************************************************************)
(* Proofs about the tools for the host: the preparer for any number of     *)
(* processes and files, the verifier for any card and command line, the    *)
(* matcher for any library, the runner for any checks, benches and number  *)
(* of threads.  For each its inductive invariant, in parts each of which   *)
(* the proof of the next uses, and the properties it carries.              *)
(***************************************************************************)
EXTENDS HostTools, FiniteSetTheorems, SequenceTheorems, WellFoundedInduction, TLAPS

-----------------------------------------------------------------------------
(* The preparer: the inductive invariant *)

Early == {"read", "look", "mkdir", "write", "sync"}
Judged == Stages \ {"read", "ended", "killed"}

\* Where a process is tells which file it is at and what it has linked.
Control(p) ==
  /\ pc[p] = "mkdir" => name[p] = "sav"
  /\ pc[p] \in Early => linked[p] = {} /\ ~failing[p]
  /\ pc[p] = "link" => linked[p] = (IF name[p] = "sav" THEN {} ELSE {"sav"}) /\ ~failing[p]
  /\ pc[p] = "undo" => linked[p] \subseteq {"sav"} /\ failing[p]
  /\ pc[p] # "ended" => exit[p] = -1

ControlInv == \A p \in Preparer : Control(p)

Entire(p, n) == staged[p][n] \in Output /\ staged[p][n].whole
Ready(p, n) == Entire(p, n) /\ staged[p][n].synced

\* What is staged is the process's own, and whole and synced when it is linked.
Staging(p) ==
  /\ \A n \in Name : staged[p][n] # NoFile => staged[p][n].by = p
  /\ pc[p] \in {"read", "look", "mkdir"} => \A n \in Name : staged[p][n] = NoFile
  /\ pc[p] \in {"write", "sync"} /\ name[p] = "meta" => Ready(p, "sav")
  /\ pc[p] = "sync" => Entire(p, name[p])
  /\ pc[p] = "link" => \A n \in Name : Ready(p, n)

StagedInv == \A p \in Preparer : Staging(p)

\* The directory holds whole files only, and those a process linked; as long as
\* it may take them back, all of them.
DirInv ==
  /\ \A n \in Name : dir[n] # NoFile => dir[n].whole /\ dir[n].synced
  /\ \A p \in Preparer : \A n \in Name : Mine(p, n) => n \in linked[p]
  /\ \A p \in Preparer : pc[p] \in {"link", "undo"} => \A n \in linked[p] : Mine(p, n)

\* A manifest is there with the save of its own process; or power took the save
\* from it, and no process gets past it ever after.
MetaInv ==
  \A q \in Preparer :
    Mine(q, "meta") =>
      /\ pc[q] \in {"cleanup", "ended", "killed"}
      /\ \/ Mine(q, "sav")
         \/ \A p \in Preparer : pc[p] \in {"read", "look", "ended", "killed"} /\ ~Mine(p, "sav")

\* What an exit status will have to say of files and directory.
Exiting(p) ==
  /\ pc[p] \in Judged \/ exit[p] = 0 =>
       Preparable(Files(source[p])) /\ Files(source[p]).rom # NoFile
  /\ powerLosses = 0 /\ ((pc[p] = "cleanup" /\ ~failing[p]) \/ exit[p] = 0) =>
       \A n \in Name : Mine(p, n)
  /\ pc[p] = "cleanup" /\ failing[p] /\ "undo" \notin faults => linked[p] = {}
  /\ exit[p] = 1 /\ faults \cap {"undo", "cleanup"} = {} =>
       linked[p] = {} /\ \A n \in Name : staged[p][n] = NoFile

ExitInv == \A p \in Preparer : Exiting(p)

Inv == TypeOK /\ ControlInv /\ StagedInv /\ DirInv /\ MetaInv /\ ExitInv

-----------------------------------------------------------------------------
(* It holds in the beginning *)

LEMMA InitInv == Init => Inv
  <1> SUFFICES ASSUME Init PROVE Inv
    OBVIOUS
  <1> USE PrepareAssumption
  <1>1. TypeOK
    BY SMT DEF Init, TypeOK, Stages, Name
  <1>2. ControlInv
    BY DEF Init, ControlInv, Control, Early, Name
  <1>3. StagedInv
    BY DEF Init, StagedInv, Staging, Name
  <1>4. DirInv
    BY DEF Init, DirInv, Mine
  <1>5. MetaInv
    BY DEF Init, MetaInv, Mine, Name
  <1>6. ExitInv
    BY SMT DEF Init, ExitInv, Exiting, Judged, Stages
  <1> QED
    BY <1>1, <1>2, <1>3, <1>4, <1>5, <1>6 DEF Inv

-----------------------------------------------------------------------------
(* What a step of one process leaves to the others *)

\* A step of p leaves the variables of every other process alone.
LEMMA OthersRest ==
  ASSUME TypeOK, NEW p \in Preparer, Prepare(p) \/ Kill(p), NEW q \in Preparer, q # p
  PROVE  /\ source' = source /\ powerLosses' = powerLosses
         /\ pc'[q] = pc[q] /\ name'[q] = name[q] /\ staged'[q] = staged[q]
         /\ linked'[q] = linked[q] /\ exit'[q] = exit[q] /\ failing'[q] = failing[q]
  <1> USE DEF TypeOK, Goes, Raises, Exits, NextFile
  <1>1. CASE Read(p) \/ Look(p) \/ MakeDirectories(p)
    BY <1>1 DEF Read, Look, MakeDirectories
  <1>2. CASE Write(p)
    BY <1>2 DEF Write
  <1>3. CASE Sync(p)
    BY <1>3 DEF Sync
  <1>4. CASE LinkMade(p) \/ LinkRefused(p)
    BY <1>4 DEF LinkMade, LinkRefused
  <1>5. CASE Undo(p)
    BY <1>5 DEF Undo
  <1>6. CASE Cleanup(p)
    BY <1>6 DEF Cleanup
  <1>7. CASE Kill(p)
    BY <1>7 DEF Kill
  <1> QED
    BY <1>1, <1>2, <1>3, <1>4, <1>5, <1>6, <1>7 DEF Prepare

\* A fault that happened stays on record.
LEMMA FaultsGrow ==
  ASSUME NEW p \in Preparer, Prepare(p) \/ Kill(p)
  PROVE  faults \subseteq faults'
  BY DEF Prepare, Read, Look, MakeDirectories, Write, Sync, LinkMade, LinkRefused, Undo,
         Cleanup, Kill, DiskFails

\* A process puts its own file at a free name, or takes its own files away.
LEMMA OwnFilesOnly ==
  ASSUME Inv, NEW p \in Preparer, Prepare(p) \/ Kill(p), NEW n \in Name, dir'[n] # dir[n]
  PROVE  \/ pc[p] = "link" /\ dir[n] = NoFile /\ Mine(p, n)' /\ n = name[p]
         \/ pc[p] = "undo" /\ dir'[n] = NoFile /\ Mine(p, n)
  <1> USE PrepareAssumption DEF Inv, TypeOK
  <1>1. CASE LinkMade(p)
    <2>1. pc[p] = "link" /\ dir' = [dir EXCEPT ![name[p]] = staged[p][name[p]]] /\ n = name[p]
      BY <1>1 DEF LinkMade
    <2>2. staged[p][n] \in Output /\ staged[p][n].by = p
      BY <2>1 DEF StagedInv, Staging, Ready, Entire
    <2>3. dir'[n].by = p /\ dir'[n] \in Output
      BY <2>1, <2>2
    <2> QED
      BY <1>1, <2>1, <2>3 DEF LinkMade, Mine
  <1>2. CASE Undo(p)
    <2>1. pc[p] = "undo" /\ n \in linked[p] /\ dir'[n] = NoFile
      BY <1>2 DEF Undo
    <2> QED
      BY <2>1 DEF DirInv
  <1> QED
    BY <1>1, <1>2 DEF Prepare, Read, Look, MakeDirectories, Write, Sync, LinkRefused, Cleanup, Kill

\* So no step of p gives another process a file or takes one from it.
LEMMA OthersFiles ==
  ASSUME Inv, NEW p \in Preparer, Prepare(p) \/ Kill(p),
         NEW q \in Preparer, q # p, NEW n \in Name
  PROVE  Mine(q, n)' <=> Mine(q, n)
  <1>1. CASE dir'[n] = dir[n]
    BY <1>1 DEF Mine
  <1>2. CASE dir'[n] # dir[n]
    BY <1>2, OwnFilesOnly DEF Mine
  <1> QED
    BY <1>1, <1>2

\* Hence what the invariant says of another process survives the step.
LEMMA OthersKeep ==
  ASSUME Inv, NEW p \in Preparer, Prepare(p) \/ Kill(p), NEW q \in Preparer, q # p
  PROVE  Control(q)' /\ Staging(q)' /\ Exiting(q)'
  <1>1. Control(q) /\ Staging(q) /\ Exiting(q)
    BY DEF Inv, ControlInv, StagedInv, ExitInv
  <1>2. Control(q)'
    BY <1>1, OthersRest DEF Inv, Control
  <1>3. Staging(q)'
    BY <1>1, OthersRest DEF Inv, Staging, Ready, Entire
  <1>4. Exiting(q)'
    BY <1>1, OthersRest, OthersFiles, FaultsGrow DEF Inv, Exiting
  <1> QED
    BY <1>2, <1>3, <1>4

-----------------------------------------------------------------------------
(* What a step keeps of its own process and of the directory, and what both *)
(* need in the next state                                                   *)

\* With the other processes as they were, the acting one decides.
LEMMA StepKeeps ==
  ASSUME Inv, NEW p \in Preparer, Prepare(p) \/ Kill(p),
         TypeOK', Control(p)', Staging(p)', Exiting(p)', DirInv', MetaInv'
  PROVE  Inv'
  <1>1. \A q \in Preparer : Control(q)' /\ Staging(q)' /\ Exiting(q)'
    BY OthersKeep
  <1> QED
    BY <1>1 DEF Inv, ControlInv, StagedInv, ExitInv

\* A step that leaves the directory alone leaves it sound, as long as the process
\* forgets no file of its own and does not go back to where it takes files away.
LEMMA QuietDirKeeps ==
  ASSUME Inv, NEW p \in Preparer, Prepare(p) \/ Kill(p), dir' = dir, linked' = linked,
         pc'[p] \in {"link", "undo"} => pc[p] = "link" \/ linked[p] = {}
  PROVE  DirInv'
  <1> USE DEF Inv, DirInv, Mine
  <1>1. \A q \in Preparer : pc'[q] \in {"link", "undo"} =>
            pc[q] \in {"link", "undo"} \/ linked[q] = {}
    BY OthersRest
  <1> QED
    BY <1>1

\* Without a step into the stages between look and link, a manifest is as good as
\* it was.
LEMMA QuietMetaKeeps ==
  ASSUME Inv, NEW p \in Preparer, Prepare(p) \/ Kill(p), dir' = dir,
         pc[p] \in {"cleanup", "ended", "killed"} => pc'[p] \in {"cleanup", "ended", "killed"},
         \/ pc'[p] \in {"look", "ended", "killed"}
         \/ pc[p] \notin {"read", "look", "ended", "killed"}
         \/ \A q \in Preparer : ~Mine(q, "meta")
  PROVE  MetaInv'
  <1> USE DEF Inv, Mine
  <1> SUFFICES ASSUME NEW q \in Preparer, Mine(q, "meta")
      PROVE  /\ pc'[q] \in {"cleanup", "ended", "killed"}
             /\ \/ Mine(q, "sav")
                \/ \A r \in Preparer : pc'[r] \in {"read", "look", "ended", "killed"} /\ ~Mine(r, "sav")
    BY DEF MetaInv
  <1>1. pc[q] \in {"cleanup", "ended", "killed"}
    BY DEF MetaInv
  <1>2. pc'[q] \in {"cleanup", "ended", "killed"}
    BY <1>1, OthersRest
  <1>3. ASSUME ~Mine(q, "sav"), NEW r \in Preparer
        PROVE  pc'[r] \in {"read", "look", "ended", "killed"} /\ ~Mine(r, "sav")
    <2>1. pc[r] \in {"read", "look", "ended", "killed"} /\ ~Mine(r, "sav")
      BY <1>3 DEF MetaInv
    <2>2. CASE r # p
      BY <2>1, <2>2, OthersRest
    <2>3. CASE r = p
      BY <2>1, <2>3
    <2> QED
      BY <2>1, <2>2, <2>3
  <1> QED
    BY <1>2, <1>3

-----------------------------------------------------------------------------
(* The steps of a process *)

\* Before anything is staged an error ends the process, with nothing to show.
LEMMA EarlyExiting ==
  ASSUME Inv, NEW p \in Preparer, pc[p] \in {"read", "look", "mkdir"},
         linked' = linked, staged' = staged,
         pc'[p] # "cleanup", exit'[p] # 0,
         pc'[p] \in Judged => Preparable(Files(source'[p])) /\ Files(source'[p]).rom # NoFile
  PROVE  Exiting(p)'
  <1>1. linked'[p] = {} /\ \A n \in Name : staged'[p][n] = NoFile
    BY DEF Inv, ControlInv, Control, StagedInv, Staging, Early
  <1> QED
    BY <1>1 DEF Exiting

LEMMA ReadKeeps == ASSUME Inv, NEW p \in Preparer, Read(p) PROVE Inv'
  <1> USE DEF Inv, TypeOK, Goes, Exits
  <1>1. Prepare(p) /\ pc[p] = "read" /\ pc'[p] \in {"look", "ended"}
    BY DEF Prepare, Read
  <1>2. TypeOK'
    BY DEF Read, Stages
  <1>3. Control(p)'
    BY DEF Read, ControlInv, Control, Early
  <1>4. Staging(p)'
    BY <1>1 DEF Read, StagedInv, Staging
  <1>5. Exiting(p)'
    <2>1. pc'[p] \in Judged => Preparable(Files(source'[p])) /\ Files(source'[p]).rom # NoFile
      BY <1>1 DEF Read, Judged
    <2>2. exit'[p] # 0
      BY <1>1 DEF Read, ControlInv, Control
    <2> QED
      BY <1>1, <2>1, <2>2, EarlyExiting DEF Read
  <1>6. DirInv' /\ MetaInv'
    BY <1>1, QuietDirKeeps, QuietMetaKeeps DEF Read
  <1> QED
    BY <1>1, <1>2, <1>3, <1>4, <1>5, <1>6, StepKeeps

\* With a manifest in the directory no process gets past its look.
LEMMA LookKeeps == ASSUME Inv, NEW p \in Preparer, Look(p) PROVE Inv'
  <1> USE DEF Inv, TypeOK, Goes, Exits, NextFile
  <1>1. /\ Prepare(p) /\ pc[p] = "look" /\ dir' = dir /\ linked' = linked
        /\ pc'[p] \in {"look", "ended"} \/ (pc'[p] = "mkdir" /\ dir["meta"] = NoFile)
    BY DEF Prepare, Look, Name
  <1>2. TypeOK'
    BY DEF Look, Stages, Name
  <1>3. Control(p)'
    BY DEF Look, ControlInv, Control, Early, Name
  <1>4. Staging(p)'
    BY <1>1 DEF Look, StagedInv, Staging
  <1>5. Exiting(p)'
    <2>1. Preparable(Files(source'[p])) /\ Files(source'[p]).rom # NoFile
      BY <1>1 DEF Look, ExitInv, Exiting, Judged, Stages
    <2>2. exit'[p] # 0
      BY <1>1 DEF Look, ControlInv, Control
    <2> QED
      BY <1>1, <2>1, <2>2, EarlyExiting DEF Look
  <1>6. DirInv' /\ MetaInv'
    BY <1>1, QuietDirKeeps, QuietMetaKeeps DEF Mine
  <1> QED
    BY <1>1, <1>2, <1>3, <1>4, <1>5, <1>6, StepKeeps

LEMMA MakeDirectoriesKeeps == ASSUME Inv, NEW p \in Preparer, MakeDirectories(p) PROVE Inv'
  <1> USE DEF Inv, TypeOK, Goes, Exits
  <1>1. /\ Prepare(p) /\ pc[p] = "mkdir" /\ pc'[p] \in {"write", "ended"}
        /\ dir' = dir /\ linked' = linked
    BY DEF Prepare, MakeDirectories
  <1>2. TypeOK'
    BY DEF MakeDirectories, Stages, DiskFails
  <1>3. Control(p)'
    BY DEF MakeDirectories, ControlInv, Control, Early
  <1>4. Staging(p)'
    BY <1>1 DEF MakeDirectories, StagedInv, Staging, ControlInv, Control
  <1>5. Exiting(p)'
    <2>1. Preparable(Files(source'[p])) /\ Files(source'[p]).rom # NoFile
      BY <1>1 DEF MakeDirectories, ExitInv, Exiting, Judged, Stages
    <2>2. exit'[p] # 0
      BY <1>1 DEF MakeDirectories, ControlInv, Control
    <2> QED
      BY <1>1, <2>1, <2>2, EarlyExiting DEF MakeDirectories
  <1>6. DirInv' /\ MetaInv'
    BY <1>1, QuietDirKeeps, QuietMetaKeeps
  <1> QED
    BY <1>1, <1>2, <1>3, <1>4, <1>5, <1>6, StepKeeps

LEMMA WriteKeeps == ASSUME Inv, NEW p \in Preparer, Write(p) PROVE Inv'
  <1> USE DEF Inv
  <1>1. /\ Prepare(p) /\ pc[p] = "write" /\ dir' = dir /\ linked' = linked
        /\ UNCHANGED <<source, name, exit, powerLosses>> /\ faults' \subseteq faults \cup {"write"}
        /\ pc' \in [Preparer -> Stages] /\ failing' \in [Preparer -> BOOLEAN]
    BY DEF Prepare, Write, TypeOK, Goes, Raises, DiskFails, Stages
  <1> DEFINE Whole == [by |-> p, whole |-> TRUE, synced |-> FALSE]
             Cut == [by |-> p, whole |-> FALSE, synced |-> FALSE]
  <1>2. PICK f \in {Whole, Cut} :
          /\ staged' = [staged EXCEPT ![p] = [@ EXCEPT ![name[p]] = f]]
          /\ \/ f = Whole /\ pc'[p] = "sync" /\ failing' = failing
             \/ pc'[p] = "cleanup" /\ failing'[p]
    BY DEF Write, File, TypeOK, Goes, Raises
  <1>3. f \in Output /\ f.by = p
    <2>1. Whole \in Output /\ Whole.by = p /\ Cut \in Output /\ Cut.by = p
      BY DEF Output
    <2> HIDE DEF Whole, Cut
    <2> QED
      BY <1>2, <2>1
  <1>4. Whole.whole
    OBVIOUS
  <1> HIDE DEF Whole, Cut
  <1>5. \/ pc'[p] = "sync" /\ f = Whole /\ failing' = failing
        \/ pc'[p] = "cleanup" /\ failing'[p]
    BY <1>2
  <1>6. staged'[p][name[p]] = f /\ \A n \in Name : n # name[p] => staged'[p][n] = staged[p][n]
    BY <1>2 DEF TypeOK
  <1>7. TypeOK'
    <2>1. [staged[p] EXCEPT ![name[p]] = f] \in [Name -> Output \cup {NoFile}]
      BY <1>3 DEF TypeOK
    <2>2. staged' \in [Preparer -> [Name -> Output \cup {NoFile}]]
      BY <1>2, <2>1 DEF TypeOK
    <2>3. faults' \subseteq Stages
      BY <1>1 DEF TypeOK, Stages
    <2> QED
      BY <1>1, <2>2, <2>3 DEF TypeOK
  <1>8. Control(p)'
    BY <1>1, <1>5 DEF ControlInv, Control, Early
  <1>9. Staging(p)'
    BY <1>1, <1>3, <1>4, <1>5, <1>6 DEF StagedInv, Staging, Ready, Entire, Name
  <1>10. Exiting(p)'
    BY <1>1, <1>5 DEF ControlInv, Control, ExitInv, Exiting, Early, Judged, Stages
  <1>11. DirInv' /\ MetaInv'
    BY <1>1, <1>5, QuietDirKeeps, QuietMetaKeeps
  <1> QED
    BY <1>1, <1>7, <1>8, <1>9, <1>10, <1>11, StepKeeps

LEMMA SyncKeeps == ASSUME Inv, NEW p \in Preparer, Sync(p) PROVE Inv'
  <1> USE DEF Inv
  <1>1. /\ Prepare(p) /\ pc[p] = "sync" /\ pc'[p] \in {"write", "link", "cleanup"}
        /\ dir' = dir /\ linked' = linked /\ UNCHANGED <<source, exit, powerLosses>>
        /\ faults' \subseteq faults \cup {"sync"}
        /\ pc' \in [Preparer -> Stages] /\ failing' \in [Preparer -> BOOLEAN]
    BY DEF Prepare, Sync, TypeOK, Goes, Raises, DiskFails, NextFile, Stages
  <1> DEFINE f == [staged[p][name[p]] EXCEPT !.synced = TRUE]
  <1>2. staged[p][name[p]] \in Output /\ staged[p][name[p]].by = p /\ staged[p][name[p]].whole
    BY <1>1, PrepareAssumption DEF StagedInv, Staging, Entire, TypeOK
  <1>3. f \in Output /\ f.by = p /\ f.whole /\ f.synced
    BY <1>2 DEF Output
  <1>4. \/ staged' = [staged EXCEPT ![p] = [@ EXCEPT ![name[p]] = f]]
        \/ staged' = staged
    BY DEF Sync
  <1> HIDE DEF f
  <1>5. \/ staged' = staged /\ name' = name /\ pc'[p] = "cleanup" /\ failing'[p]
        \/ /\ staged'[p][name[p]] = f
           /\ \A n \in Name : n # name[p] => staged'[p][n] = staged[p][n]
           /\ failing' = failing
           /\ \/ name[p] = "sav" /\ name'[p] = "meta" /\ pc'[p] = "write"
              \/ name[p] = "meta" /\ name'[p] = "sav" /\ pc'[p] = "link"
    <2>1. \/ staged' = staged /\ name' = name /\ pc'[p] = "cleanup" /\ failing'[p]
          \/ /\ staged' = [staged EXCEPT ![p] = [@ EXCEPT ![name[p]] = f]]
             /\ failing' = failing /\ NextFile(p, "write", "link")
      BY DEF Sync, TypeOK, Goes, Raises, f
    <2> QED
      BY <2>1 DEF TypeOK, NextFile, Goes, Name
  <1>6. TypeOK'
    <2>1. staged' \in [Preparer -> [Name -> Output \cup {NoFile}]]
      BY <1>3, <1>4 DEF TypeOK
    <2>2. name' \in [Preparer -> Name]
      BY DEF TypeOK, Sync, NextFile, Name
    <2>3. faults' \subseteq Stages
      BY <1>1 DEF TypeOK, Stages
    <2> QED
      BY <1>1, <2>1, <2>2, <2>3 DEF TypeOK
  <1>7. Control(p)'
    BY <1>1, <1>5 DEF ControlInv, Control, Early
  <1>8. Staging(p)'
    BY <1>1, <1>3, <1>5 DEF StagedInv, Staging, Ready, Entire, TypeOK, Name
  <1>9. Exiting(p)'
    BY <1>1, <1>5 DEF ControlInv, Control, ExitInv, Exiting, Early, Judged, Stages
  <1>10. DirInv' /\ MetaInv'
    BY <1>1, QuietDirKeeps, QuietMetaKeeps DEF ControlInv, Control, Early
  <1> QED
    BY <1>1, <1>6, <1>7, <1>8, <1>9, <1>10, StepKeeps

\* A save is linked only where no manifest is, a manifest only beside the save of
\* its own process.
LEMMA LinkMadeKeeps == ASSUME Inv, NEW p \in Preparer, LinkMade(p) PROVE Inv'
  <1> USE DEF Inv
  <1>1. /\ Prepare(p) /\ pc[p] = "link" /\ dir[name[p]] = NoFile /\ name[p] \in Name
        /\ dir' = [dir EXCEPT ![name[p]] = staged[p][name[p]]]
        /\ linked' = [linked EXCEPT ![p] = @ \cup {name[p]}]
        /\ UNCHANGED <<source, staged, exit, failing, faults, powerLosses>>
    BY DEF Prepare, LinkMade, TypeOK
  <1>2. /\ ~failing[p] /\ exit[p] = -1
        /\ \/ /\ name[p] = "sav" /\ linked'[p] = {"sav"} /\ pc'[p] = "link" /\ name'[p] = "meta"
           \/ /\ name[p] = "meta" /\ linked[p] = {"sav"} /\ linked'[p] = Name
              /\ pc'[p] = "cleanup" /\ name'[p] = "sav"
    BY <1>1 DEF LinkMade, TypeOK, NextFile, Goes, ControlInv, Control, Name
  <1>3. \A n \in Name : Ready(p, n) /\ staged[p][n].by = p
    BY <1>1, PrepareAssumption DEF StagedInv, Staging, Ready, Entire
  <1>4. /\ dir'[name[p]] = staged[p][name[p]] /\ \A n \in Name : n = name[p] => Mine(p, n)'
        /\ \A n \in Name : n # name[p] => dir'[n] = dir[n]
    <2>1. dir'[name[p]] = staged[p][name[p]] /\ \A n \in Name : n # name[p] => dir'[n] = dir[n]
      BY <1>1 DEF TypeOK
    <2> QED
      BY <1>1, <1>3, <2>1, PrepareAssumption DEF Mine, Ready, Entire
  <1>5. TypeOK'
    <2>1. dir' \in [Name -> Output \cup {NoFile}]
      BY <1>1, <1>3 DEF TypeOK, Ready, Entire
    <2>2. linked' \in [Preparer -> SUBSET Name]
      BY <1>1 DEF TypeOK
    <2>3. pc' \in [Preparer -> Stages] /\ name' \in [Preparer -> Name]
      BY DEF TypeOK, LinkMade, NextFile, Goes, Stages, Name
    <2> QED
      BY <1>1, <2>1, <2>2, <2>3 DEF TypeOK
  <1>6. Control(p)'
    BY <1>1, <1>2 DEF Control, Early, Name
  <1>7. Staging(p)'
    BY <1>1, <1>2 DEF StagedInv, Staging, Ready, Entire
  <1>8. DirInv'
    <2>1. ASSUME NEW n \in Name, dir'[n] # NoFile PROVE dir'[n].whole /\ dir'[n].synced
      BY <2>1, <1>3, <1>4 DEF DirInv, Ready, Entire
    <2>2. ASSUME NEW n \in Name, Mine(p, n)' PROVE n \in linked'[p]
      BY <2>2, <1>1, <1>2, <1>4 DEF DirInv, Mine, TypeOK
    <2>3. pc'[p] \in {"link", "undo"} => \A n \in linked'[p] : Mine(p, n)'
      <3> SUFFICES ASSUME pc'[p] \in {"link", "undo"} PROVE Mine(p, "sav")'
        BY <1>2
      <3> QED
        BY <1>2, <1>4 DEF Name
    <2>4. ASSUME NEW q \in Preparer, q # p
          PROVE  /\ \A n \in Name : Mine(q, n)' => n \in linked'[q]
                 /\ pc'[q] \in {"link", "undo"} => \A n \in linked'[q] : Mine(q, n)'
      BY <1>1, <2>4, OthersRest, OthersFiles DEF DirInv, TypeOK
    <2> QED
      BY <2>1, <2>2, <2>3, <2>4 DEF DirInv
  <1>9. MetaInv'
    <2>1. CASE name[p] = "sav"
      <3>1. \A q \in Preparer : ~Mine(q, "meta")
        BY <1>1, <2>1 DEF MetaInv, Mine
      <3>2. dir'["meta"] = dir["meta"]
        BY <1>4, <2>1 DEF Name
      <3> QED
        BY <3>1, <3>2 DEF MetaInv, Mine
    <2>2. CASE name[p] = "meta"
      <3>1. Mine(p, "sav")
        BY <1>1, <1>2, <2>2 DEF DirInv
      <3>2. Mine(p, "sav")' /\ pc'[p] = "cleanup"
        BY <1>2, <1>4, <2>2, <3>1 DEF Mine, Name
      <3>3. \A q \in Preparer : Mine(q, "meta")' => q = p
        <4>1. dir'["meta"].by = p
          BY <1>4, <2>2 DEF Mine, Name
        <4> QED
          BY <4>1 DEF Mine
      <3> QED
        BY <3>2, <3>3 DEF MetaInv
    <2> QED
      BY <1>1, <2>1, <2>2 DEF Name
  <1>10. Exiting(p)'
    <2>1. pc'[p] = "cleanup" => \A n \in Name : Mine(p, n)'
      <3>1. CASE name[p] = "meta"
        <4>1. Mine(p, "sav") /\ dir'["sav"] = dir["sav"]
          BY <1>1, <1>2, <1>4, <3>1 DEF DirInv, Name
        <4>2. Mine(p, "sav")'
          BY <4>1 DEF Mine
        <4>3. Mine(p, "meta")'
          BY <1>4, <3>1 DEF Name
        <4> QED
          BY <4>2, <4>3 DEF Name
      <3> QED
        BY <1>2, <3>1
    <2> QED
      BY <1>1, <1>2, <2>1 DEF ExitInv, Exiting, Judged, Stages
  <1> QED
    BY <1>1, <1>5, <1>6, <1>7, <1>8, <1>9, <1>10, StepKeeps

LEMMA LinkRefusedKeeps == ASSUME Inv, NEW p \in Preparer, LinkRefused(p) PROVE Inv'
  <1> USE DEF Inv
  <1>1. /\ Prepare(p) /\ pc[p] = "link" /\ pc'[p] = "undo" /\ failing'[p]
        /\ UNCHANGED <<source, name, staged, linked, exit, dir, powerLosses>>
        /\ faults' \subseteq faults \cup {"link"}
        /\ pc' \in [Preparer -> Stages] /\ failing' \in [Preparer -> BOOLEAN]
    BY DEF Prepare, LinkRefused, TypeOK, Goes, Raises, DiskFails, Stages
  <1>2. TypeOK'
    BY <1>1 DEF TypeOK, Stages
  <1>3. Control(p)' /\ Staging(p)'
    BY <1>1 DEF ControlInv, Control, Early, StagedInv, Staging
  <1>4. Exiting(p)'
    BY <1>1 DEF ControlInv, Control, ExitInv, Exiting, Judged, Stages
  <1>5. DirInv' /\ MetaInv'
    BY <1>1, QuietDirKeeps, QuietMetaKeeps
  <1> QED
    BY <1>1, <1>2, <1>3, <1>4, <1>5, StepKeeps

\* What is taken back was linked by the process that takes it, and no manifest is.
LEMMA UndoKeeps == ASSUME Inv, NEW p \in Preparer, Undo(p) PROVE Inv'
  <1> USE DEF Inv
  <1>1. /\ Prepare(p) /\ pc[p] = "undo" /\ pc'[p] = "cleanup" /\ pc' \in [Preparer -> Stages]
        /\ UNCHANGED <<source, name, staged, exit, failing, powerLosses>> /\ failing[p] /\ exit[p] = -1
        /\ faults' \subseteq faults \cup {"undo"}
    BY DEF Prepare, Undo, TypeOK, Goes, DiskFails, Stages, ControlInv, Control
  <1>2. \/ /\ linked' = [linked EXCEPT ![p] = {}] /\ linked'[p] = {}
           /\ dir' = [n \in Name |-> IF n \in linked[p] THEN NoFile ELSE dir[n]]
        \/ "undo" \in faults' /\ UNCHANGED <<dir, linked>>
    BY <1>1 DEF Undo, DiskFails, TypeOK
  <1>3. TypeOK'
    <2>1. faults' \subseteq Stages
      BY <1>1 DEF TypeOK, Stages
    <2>2. linked' \in [Preparer -> SUBSET Name] /\ dir' \in [Name -> Output \cup {NoFile}]
      BY <1>2 DEF TypeOK
    <2> QED
      BY <1>1, <2>1, <2>2 DEF TypeOK
  <1>4. Control(p)' /\ Staging(p)'
    BY <1>1 DEF ControlInv, Control, Early, StagedInv, Staging
  <1>5. Exiting(p)'
    BY <1>1, <1>2 DEF ExitInv, Exiting, Judged, Stages
  <1>6. \A q \in Preparer : ~(Mine(q, "meta") /\ ~Mine(q, "sav")) /\ (Mine(q, "meta") => q # p)
    BY <1>1 DEF MetaInv
  <1>7. \A n \in Name : dir'[n] # NoFile => dir'[n] = dir[n]
    BY <1>2 DEF TypeOK
  <1>8. DirInv'
    <2>1. \A n \in Name : dir'[n] # NoFile => dir'[n].whole /\ dir'[n].synced
      BY <1>7 DEF DirInv
    <2>2. ASSUME NEW n \in Name, Mine(p, n)' PROVE n \in linked'[p]
      BY <1>2, <1>7, <2>2 DEF DirInv, Mine, TypeOK
    <2>3. ASSUME NEW q \in Preparer, q # p
          PROVE  /\ \A n \in Name : Mine(q, n)' => n \in linked'[q]
                 /\ pc'[q] \in {"link", "undo"} => \A n \in linked'[q] : Mine(q, n)'
      BY <1>1, <2>3, OthersRest, OthersFiles DEF DirInv, TypeOK
    <2> QED
      BY <1>1, <2>1, <2>2, <2>3 DEF DirInv
  <1>9. MetaInv'
    <2> SUFFICES ASSUME NEW q \in Preparer, Mine(q, "meta")'
        PROVE  pc'[q] \in {"cleanup", "ended", "killed"} /\ Mine(q, "sav")'
      BY DEF MetaInv
    <2>1. Mine(q, "meta")
      BY <1>7 DEF Mine, Name
    <2>2. q # p /\ Mine(q, "sav") /\ pc[q] \in {"cleanup", "ended", "killed"}
      BY <1>6, <2>1 DEF MetaInv
    <2> QED
      BY <1>1, <2>2, OthersRest, OthersFiles DEF Name
  <1> QED
    BY <1>1, <1>3, <1>4, <1>5, <1>8, <1>9, StepKeeps

LEMMA CleanupKeeps == ASSUME Inv, NEW p \in Preparer, Cleanup(p) PROVE Inv'
  <1> USE DEF Inv
  <1>1. /\ Prepare(p) /\ pc[p] = "cleanup" /\ pc'[p] = "ended" /\ pc' \in [Preparer -> Stages]
        /\ UNCHANGED <<source, name, linked, failing, dir, powerLosses>>
        /\ faults' \subseteq faults \cup {"cleanup"}
    BY DEF Prepare, Cleanup, TypeOK, Goes, Exits, DiskFails, Stages
  <1>2. \/ /\ staged' = [staged EXCEPT ![p] = [n \in Name |-> NoFile]]
           /\ \/ failing[p] /\ exit' = [exit EXCEPT ![p] = 1]
              \/ ~failing[p] /\ exit' = [exit EXCEPT ![p] = 0]
        \/ staged' = staged /\ exit' = [exit EXCEPT ![p] = 1] /\ "cleanup" \in faults'
    BY <1>1 DEF Cleanup, Exits, DiskFails
  <1>3. TypeOK'
    <2>1. faults' \subseteq Stages
      BY <1>1 DEF TypeOK, Stages
    <2>2. [n \in Name |-> NoFile] \in [Name -> Output \cup {NoFile}]
      OBVIOUS
    <2>3. staged' \in [Preparer -> [Name -> Output \cup {NoFile}]]
      BY <1>2, <2>2 DEF TypeOK
    <2>4. exit' \in [Preparer -> {-1, 0, 1}]
      BY <1>2 DEF TypeOK
    <2> QED
      BY <1>1, <2>1, <2>3, <2>4 DEF TypeOK
  <1>4. Control(p)'
    BY <1>1 DEF Control, Early
  <1>5. Staging(p)'
    BY <1>1, <1>2 DEF StagedInv, Staging, TypeOK
  <1>6. Exiting(p)'
    <2>1. Exiting(p)
      BY DEF ExitInv
    <2>2. exit'[p] = 0 => ~failing[p]
      BY <1>2 DEF TypeOK
    <2>3. exit'[p] = 1 /\ "cleanup" \notin faults' =>
            failing[p] /\ \A n \in Name : staged'[p][n] = NoFile
      BY <1>2 DEF TypeOK
    <2>4. faults \subseteq faults'
      BY <1>1, FaultsGrow
    <2> QED
      BY <1>1, <2>1, <2>2, <2>3, <2>4 DEF Exiting, Judged, Stages, Mine
  <1>7. DirInv' /\ MetaInv'
    BY <1>1, QuietDirKeeps, QuietMetaKeeps
  <1> QED
    BY <1>1, <1>3, <1>4, <1>5, <1>6, <1>7, StepKeeps

LEMMA KillKeeps == ASSUME Inv, NEW p \in Preparer, Kill(p) PROVE Inv'
  <1> USE DEF Inv
  <1>1. /\ pc'[p] = "killed" /\ pc' \in [Preparer -> Stages] /\ pc[p] # "ended"
        /\ UNCHANGED <<source, name, linked, exit, failing, dir, faults, powerLosses>>
        /\ \/ staged' = staged
           \/ staged' = [staged EXCEPT ![p] = [n \in Name |-> NoFile]]
    BY DEF Kill, Running, Goes, TypeOK, Stages
  <1>2. TypeOK'
    <2>1. [n \in Name |-> NoFile] \in [Name -> Output \cup {NoFile}]
      OBVIOUS
    <2>2. staged' \in [Preparer -> [Name -> Output \cup {NoFile}]]
      BY <1>1, <2>1 DEF TypeOK
    <2> QED
      BY <1>1, <2>2 DEF TypeOK
  <1>3. Control(p)'
    BY <1>1 DEF ControlInv, Control, Early
  <1>4. Staging(p)'
    BY <1>1 DEF StagedInv, Staging, TypeOK
  <1>5. Exiting(p)'
    BY <1>1 DEF ControlInv, Control, Exiting, Judged, Stages
  <1>6. DirInv' /\ MetaInv'
    BY <1>1, QuietDirKeeps, QuietMetaKeeps
  <1> QED
    BY <1>1, <1>2, <1>3, <1>4, <1>5, <1>6, StepKeeps

-----------------------------------------------------------------------------
(* The steps of the world *)

LEMMA OtherCreatesKeeps == ASSUME Inv, NEW n \in Name, OtherCreates(n) PROVE Inv'
  <1> USE DEF Inv
  <1> DEFINE f == [by |-> Other, whole |-> TRUE, synced |-> TRUE]
  <1>1. /\ dir[n] = NoFile /\ dir' = [dir EXCEPT ![n] = f]
        /\ UNCHANGED <<source, pc, name, staged, linked, exit, failing, faults, powerLosses>>
    BY DEF OtherCreates, proc
  <1>2. f \in Output /\ f.by = Other /\ f.whole /\ f.synced
    BY DEF Output
  <1> HIDE DEF f
  <1>3. dir'[n] = f /\ \A m \in Name : m # n => dir'[m] = dir[m]
    BY <1>1 DEF TypeOK
  <1>4. \A p \in Preparer : \A m \in Name : Mine(p, m)' <=> Mine(p, m)
    BY <1>1, <1>2, <1>3, PrepareAssumption DEF Mine
  <1>5. TypeOK'
    <2>1. dir' \in [Name -> Output \cup {NoFile}]
      BY <1>1, <1>2 DEF TypeOK
    <2> QED
      BY <1>1, <2>1 DEF TypeOK
  <1>6. ControlInv' /\ StagedInv'
    BY <1>1 DEF ControlInv, Control, StagedInv, Staging, Ready, Entire
  <1>7. DirInv'
    <2>1. \A m \in Name : dir'[m] # NoFile => dir'[m].whole /\ dir'[m].synced
      BY <1>2, <1>3 DEF DirInv
    <2>2. \A p \in Preparer : linked[p] \subseteq Name
      BY DEF TypeOK
    <2> QED
      BY <1>1, <1>4, <2>1, <2>2 DEF DirInv
  <1>8. MetaInv'
    BY <1>1, <1>4 DEF MetaInv, Name
  <1>9. ExitInv'
    BY <1>1, <1>4 DEF ExitInv, Exiting
  <1> QED
    BY <1>5, <1>6, <1>7, <1>8, <1>9

\* Power takes no more than names: every file in the directory was synced.
LEMMA PowerLossKeeps == ASSUME Inv, PowerLoss PROVE Inv'
  <1> USE DEF Inv
  <1>1. /\ powerLosses' = powerLosses + 1 /\ powerLosses < MaxPowerLosses
        /\ pc' = [p \in Preparer |-> IF Running(p) THEN "killed" ELSE pc[p]]
        /\ staged' = [p \in Preparer |-> [n \in Name |-> AfterPowerLoss(staged[p][n])]]
        /\ UNCHANGED <<source, name, linked, exit, failing, faults>>
    BY DEF PowerLoss
  <1>2. \A p \in Preparer : pc'[p] \in {"read", "ended", "killed"} /\ (pc'[p] # "killed" => pc'[p] = pc[p])
    BY <1>1 DEF Running
  <1>3. \A n \in Name : dir'[n] = dir[n] \/ dir'[n] = NoFile
    BY DEF PowerLoss, AfterPowerLoss, DirInv
  <1>4. \A p \in Preparer : \A n \in Name : Mine(p, n)' => Mine(p, n)
    BY <1>3 DEF Mine
  <1>5. \A f \in Output : AfterPowerLoss(f) \in Output /\ AfterPowerLoss(f).by = f.by
    BY DEF AfterPowerLoss, Output
  <1>6. AfterPowerLoss(NoFile) = NoFile
    BY DEF AfterPowerLoss
  <1>7. TypeOK'
    <2>1. dir' \in [Name -> Output \cup {NoFile}]
      <3>1. \A n \in Name : dir'[n] \in Output \cup {NoFile}
        BY <1>3 DEF TypeOK
      <3>2. PICK gone \in SUBSET {n \in Name : dir[n] # NoFile /\ dir[n].by # Other} :
              dir' = [n \in Name |-> IF n \in gone THEN NoFile ELSE AfterPowerLoss(dir[n])]
        BY DEF PowerLoss
      <3> QED
        BY <3>1, <3>2
    <2>2. staged' \in [Preparer -> [Name -> Output \cup {NoFile}]]
      <3>1. \A p \in Preparer : \A n \in Name : AfterPowerLoss(staged[p][n]) \in Output \cup {NoFile}
        BY <1>5, <1>6 DEF TypeOK
      <3> QED
        BY <1>1, <3>1
    <2>3. pc' \in [Preparer -> Stages]
      BY <1>1 DEF TypeOK, Stages
    <2>4. powerLosses' \in 0 .. MaxPowerLosses
      BY <1>1, PrepareAssumption, SMT DEF TypeOK
    <2> QED
      BY <1>1, <2>1, <2>2, <2>3, <2>4 DEF TypeOK
  <1>8. ControlInv'
    <2>1. \A p \in Preparer : pc[p] = "ended" => pc'[p] = "ended"
      BY <1>1 DEF Running
    <2> QED
      BY <1>1, <1>2, <2>1 DEF ControlInv, Control, Early
  <1>9. StagedInv'
    <2> SUFFICES ASSUME NEW p \in Preparer PROVE Staging(p)'
      BY DEF StagedInv
    <2>1. \A n \in Name : staged'[p][n] = AfterPowerLoss(staged[p][n])
      BY <1>1
    <2>2. \A n \in Name : staged'[p][n] # NoFile => staged'[p][n].by = p
      BY <1>5, <1>6, <2>1 DEF TypeOK, StagedInv, Staging
    <2>3. pc'[p] = "read" => \A n \in Name : staged'[p][n] = NoFile
      BY <1>2, <1>6, <2>1 DEF StagedInv, Staging
    <2> QED
      BY <1>2, <2>2, <2>3 DEF Staging
  <1>10. DirInv'
    BY <1>1, <1>2, <1>3, <1>4 DEF DirInv
  <1>11. MetaInv'
    <2> SUFFICES ASSUME NEW q \in Preparer, Mine(q, "meta")', ~Mine(q, "sav")'
        PROVE  \A p \in Preparer : ~Mine(p, "sav")'
      <3>1. \A q \in Preparer : Mine(q, "meta")' => pc'[q] \in {"cleanup", "ended", "killed"}
        BY <1>1, <1>2, <1>4 DEF MetaInv, Name, Running
      <3> QED
        BY <1>2, <3>1 DEF MetaInv
    <2>1. CASE Mine(q, "sav")
      BY <1>3, <2>1 DEF Mine, Name
    <2>2. CASE ~Mine(q, "sav")
      BY <1>4, <2>2 DEF MetaInv, Name
    <2> QED
      BY <2>1, <2>2
  <1>12. ExitInv'
    <2> SUFFICES ASSUME NEW p \in Preparer PROVE Exiting(p)'
      BY DEF ExitInv
    <2>1. powerLosses' # 0
      BY <1>1, PrepareAssumption, SMT DEF TypeOK
    <2>2. exit[p] = 0 \/ exit[p] = 1 => pc[p] = "ended"
      BY SMT DEF ControlInv, Control
    <2>3. \A n \in Name : staged[p][n] = NoFile => staged'[p][n] = NoFile
      BY <1>1, <1>6
    <2> QED
      BY <1>1, <1>2, <2>1, <2>3 DEF ExitInv, Exiting, Judged, Stages
  <1> QED
    BY <1>7, <1>8, <1>9, <1>10, <1>11, <1>12

\* Nothing happens.
LEMMA StutterKeeps == ASSUME Inv, UNCHANGED vars PROVE Inv'
  BY DEF Inv, vars, proc, TypeOK, ControlInv, Control, StagedInv, Staging, Ready, Entire,
         DirInv, Mine, MetaInv, ExitInv, Exiting

LEMMA StepInv == ASSUME Inv, [Next]_vars PROVE Inv'
  BY ReadKeeps, LookKeeps, MakeDirectoriesKeeps, WriteKeeps, SyncKeeps, LinkMadeKeeps,
     LinkRefusedKeeps, UndoKeeps, CleanupKeeps, KillKeeps, OtherCreatesKeeps,
     PowerLossKeeps, StutterKeeps
     DEF Next, Prepare

\* The invariant holds in every state of every behaviour.
THEOREM Invariance == Spec => []Inv
  BY InitInv, StepInv, PTL DEF Spec

-----------------------------------------------------------------------------
(* What is prepared and what the core takes *)

\* A geometry of the preparer is one the core knows, with the same save size.
LEMMA GeometriesAgree ==
  ASSUME NEW rom
  PROVE  /\ geometry_ok(rom) <=> \E g \in GeometryOf(rom) : CgbFlag(rom) \in g.cgb /\ RomCode(rom) <= g.code
         /\ GeometryOf(rom) # {} => save_bytes_for(rom) = CoreSaveBytes(rom)
  <1> DEFINE type == CartType(rom)
             ram == RamCode(rom)
             cgb == CgbFlag(rom)
             code == RomCode(rom)
  <1>1. \A g \in GEOMETRIES :
          /\ g.type = type /\ g.ram = ram /\ cgb \in g.cgb /\ code <= g.code => geometry_ok(rom)
          /\ g.type = type /\ g.ram = ram => g.save = CoreSaveBytes(rom)
    BY SMT DEF GEOMETRIES, geometry_ok, CoreSaveBytes
  <1>2. geometry_ok(rom) =>
          \E g \in GEOMETRIES : g.type = type /\ g.ram = ram /\ cgb \in g.cgb /\ code <= g.code
    BY SMT DEF GEOMETRIES, geometry_ok
  <1>3. \A g \in GeometryOf(rom) : g \in GEOMETRIES /\ g.type = type /\ g.ram = ram
    BY DEF GeometryOf
  <1>4. \A g \in GEOMETRIES : g.type = type /\ g.ram = ram => g \in GeometryOf(rom)
    BY DEF GeometryOf
  <1>5. GeometryOf(rom) # {} => (CHOOSE g \in GeometryOf(rom) : TRUE) \in GeometryOf(rom)
    OBVIOUS
  <1> HIDE DEF type, ram, cgb, code
  <1>6. GeometryOf(rom) # {} => save_bytes_for(rom) = CoreSaveBytes(rom)
    BY <1>1, <1>3, <1>5 DEF save_bytes_for
  <1>7. geometry_ok(rom) <=> \E g \in GeometryOf(rom) : cgb \in g.cgb /\ code <= g.code
    BY <1>1, <1>2, <1>3, <1>4
  <1> QED
    BY <1>6, <1>7 DEF cgb, code

\* Of a pair whose checksums are right, the preparer prepares what the core takes.
LEMMA PreparesWhatIsTaken ==
  ASSUME NEW s, s.rom.len \in Nat
  PROVE  Preparable(s) <=>
           /\ s.rom.len >= \h150
           /\ gb_header_sum(s.rom) = ByteAt(s.rom, \h14D)
           /\ gb_global_sum(s.rom) = StoredGlobal(s.rom)
           /\ CoreAccepts(s.rom, s.save, make_manifest(s))
  <1> DEFINE meta == make_manifest(s)
  <1>1. /\ meta.saveBytes = s.save.len /\ meta.saveCrc = s.save
        /\ meta.romBytes = s.rom.len /\ meta.romCrc = s.rom
        /\ meta.flags = <<CartType(s.rom), RamCode(s.rom), RomCode(s.rom), CgbFlag(s.rom)>>
        /\ meta.revision = <<ByteAt(s.rom, \h14D), ByteAt(s.rom, \h14C)>>
    BY DEF make_manifest
  <1> HIDE DEF meta
  <1>2. CoreAccepts(s.rom, s.save, meta) <=>
          /\ geometry_ok(s.rom) /\ s.save.len = CoreSaveBytes(s.rom)
          /\ s.rom.len = 32768 * 2 ^ RomCode(s.rom)
    BY <1>1 DEF CoreAccepts
  <1>3. Preparable(s) <=>
          /\ s.rom.len >= \h150
          /\ gb_header_sum(s.rom) = ByteAt(s.rom, \h14D)
          /\ gb_global_sum(s.rom) = StoredGlobal(s.rom)
          /\ geometry_ok(s.rom) /\ s.rom.len = 32768 * 2 ^ RomCode(s.rom)
          /\ s.save.len = save_bytes_for(s.rom)
    BY GeometriesAgree DEF Preparable, validate_rom
  <1>4. geometry_ok(s.rom) => save_bytes_for(s.rom) = CoreSaveBytes(s.rom)
    BY GeometriesAgree
  <1> QED
    BY <1>2, <1>3, <1>4 DEF meta

-----------------------------------------------------------------------------
(* The properties *)

\* Every variable keeps its type.
THEOREM PreparerTypes == Spec => []TypeOK
  BY Invariance, PTL DEF Inv

\* No file that is there is ever cut short, and no save and manifest are of two
\* preparers.
THEOREM NeverHalfAPair == Spec => []PairIsSound
  <1>1. Inv => PairIsSound
    <2> SUFFICES ASSUME Inv PROVE PairIsSound
      OBVIOUS
    <2>1. \A n \in Name : dir[n] # NoFile => dir[n].whole
      BY DEF Inv, DirInv
    <2>2. ASSUME NEW p \in Preparer, NEW q \in Preparer, Mine(p, "sav"), Mine(q, "meta") PROVE p = q
      BY <2>2 DEF Inv, MetaInv, Mine
    <2> QED
      BY <2>1, <2>2 DEF PairIsSound
  <1> QED
    BY <1>1, Invariance, PTL

\* Exit 0 leaves a pair the core takes, exit 1 nothing.
THEOREM StatusTellsWhatIsThere == Spec => []ExitIsTruthful
  <1>1. Inv => ExitIsTruthful
    <2> SUFFICES ASSUME Inv, powerLosses = 0, NEW p \in Preparer
        PROVE  /\ exit[p] = 0 =>
                    /\ Mine(p, "sav") /\ Mine(p, "meta")
                    /\ CoreAccepts(Files(source[p]).rom, Payload(Files(source[p]), "sav"),
                                   Payload(Files(source[p]), "meta"))
               /\ exit[p] = 1 /\ faults \cap {"undo", "cleanup"} = {} =>
                    \A n \in Name : staged[p][n] = NoFile /\ ~Mine(p, n)
      BY DEF ExitIsTruthful
    <2>1. Exiting(p) /\ source[p] \in Source
      BY DEF Inv, ExitInv, TypeOK
    <2>2. CASE exit[p] = 0
      <3>1. Mine(p, "sav") /\ Mine(p, "meta")
        BY <2>1, <2>2 DEF Exiting, Name
      <3>2. Preparable(Files(source[p])) /\ Files(source[p]).rom.len \in Nat
        BY <2>1, <2>2, PrepareAssumption DEF Exiting
      <3>3. CoreAccepts(Files(source[p]).rom, Files(source[p]).save, make_manifest(Files(source[p])))
        BY <3>2, PreparesWhatIsTaken
      <3> QED
        BY <2>2, <3>1, <3>3, SMT DEF Payload
    <2>3. CASE exit[p] = 1
      BY <2>1, <2>3, SMT DEF Exiting, Inv, DirInv
    <2> QED
      BY <2>2, <2>3
  <1> QED
    BY <1>1, Invariance, PTL

\* No file is replaced, and none taken away but by the process that made it.
THEOREM NothingReplaced == Spec => ExistingKept
  <1>1. ASSUME Inv, [Next]_vars, NEW n \in Name, dir[n] # NoFile, dir'[n] # dir[n]
        PROVE  powerLosses' # powerLosses \/ (dir'[n] = NoFile /\ pc[dir[n].by] = "undo")
    <2>1. ASSUME NEW p \in Preparer, Prepare(p) \/ Kill(p) PROVE dir'[n] = NoFile /\ pc[dir[n].by] = "undo"
      BY <1>1, <2>1, OwnFilesOnly DEF Mine
    <2>2. ASSUME NEW m \in Name, OtherCreates(m) PROVE FALSE
      BY <1>1, <2>2 DEF OtherCreates, Inv, TypeOK
    <2>3. CASE PowerLoss
      BY <1>1, <2>3, PrepareAssumption, SMT DEF PowerLoss, Inv, TypeOK
    <2>4. CASE UNCHANGED vars
      BY <1>1, <2>4 DEF vars
    <2> QED
      BY <1>1, <2>1, <2>2, <2>3, <2>4 DEF Next
  <1>2. Inv /\ [Next]_vars =>
          [\A n \in Name :
             dir[n] # NoFile /\ dir'[n] # dir[n] =>
               \/ powerLosses' # powerLosses
               \/ dir'[n] = NoFile /\ pc[dir[n].by] = "undo"]_vars
    BY <1>1
  <1> QED
    BY <1>2, Invariance, PTL DEF Spec, ExistingKept

\* What is refused for its contents has wrong checksums, or the core refuses it too.
THEOREM RefusedOnlyForCause == Spec => RefusedForCause
  <1>1. ASSUME Inv, [Next]_vars, NEW p \in Preparer, pc[p] = "read", exit'[p] = 1
        PROVE  LET s == Files(source[p])
               IN \/ NoFile \in {s.rom, s.save}
                  \/ s.rom.len < \h150
                  \/ gb_header_sum(s.rom) # ByteAt(s.rom, \h14D)
                  \/ gb_global_sum(s.rom) # StoredGlobal(s.rom)
                  \/ ~CoreAccepts(s.rom, s.save, make_manifest(s))
    <2>1. exit[p] = -1
      BY <1>1 DEF Inv, ControlInv, Control
    <2>2. exit'[p] # exit[p]
      BY <1>1, <2>1, SMT
    <2>3. Read(p)
      <3>1. \A q \in Preparer : Prepare(q) \/ Kill(q) => q = p
        BY <1>1, <2>2, OthersRest DEF Inv
      <3>2. Prepare(p) \/ Kill(p)
        BY <1>1, <2>2, <3>1 DEF Next, OtherCreates, PowerLoss, vars, proc
      <3> QED
        BY <1>1, <2>2, <3>2 DEF Prepare, Kill, Running, Look, MakeDirectories, Write, Sync, LinkMade,
                LinkRefused, Undo, Cleanup
    <2> DEFINE s == Files(source[p])
    <2>4. s.rom = NoFile \/ s.save = NoFile \/ ~Preparable(s)
      BY <2>2, <2>3 DEF Read
    <2>5. s.rom # NoFile => s.rom.len \in Nat
      BY <1>1, PrepareAssumption DEF Inv, TypeOK
    <2> HIDE DEF s
    <2>6. s.rom.len \in Nat /\ ~(s.rom.len < \h150) => s.rom.len >= \h150
      BY SMT
    <2>7. \/ NoFile \in {s.rom, s.save}
          \/ s.rom.len < \h150
          \/ gb_header_sum(s.rom) # ByteAt(s.rom, \h14D)
          \/ gb_global_sum(s.rom) # StoredGlobal(s.rom)
          \/ ~CoreAccepts(s.rom, s.save, make_manifest(s))
      BY <2>4, <2>5, <2>6, PreparesWhatIsTaken
    <2> QED
      BY <2>7 DEF s
  <1>2. Inv /\ [Next]_vars =>
          [\A p \in Preparer :
             pc[p] = "read" /\ exit'[p] = 1 =>
               LET s == Files(source[p])
               IN \/ NoFile \in {s.rom, s.save}
                  \/ s.rom.len < \h150
                  \/ gb_header_sum(s.rom) # ByteAt(s.rom, \h14D)
                  \/ gb_global_sum(s.rom) # StoredGlobal(s.rom)
                  \/ ~CoreAccepts(s.rom, s.save, make_manifest(s))]_vars
    BY <1>1
  <1> QED
    BY <1>2, Invariance, PTL DEF Spec, RefusedForCause

-----------------------------------------------------------------------------
(* Adding up *)

\* Every non-empty set of naturals has a least element: the form in which the
\* proofs below use induction.
LEMMA LeastNat ==
  ASSUME NEW T, T \subseteq Nat, T # {}
  PROVE  \E n \in T : \A m \in T : n <= m
<1> DEFINE R == {ss \in Nat \X Nat : ss[1] < ss[2]}
<1>0. OpToRel(<, Nat) = R BY DEF OpToRel
<1>1. IsWellFoundedOn(R, Nat) BY NatLessThanWellFounded, <1>0
<1>2. \A x, y \in Nat : <<y, x>> \in R <=> y < x OBVIOUS
<1> HIDE DEF R
<1>3. PICK n \in T : \A y \in T : ~ (<<y, n>> \in R)
  BY <1>1, WFMin
<1>4. ASSUME NEW m \in T PROVE n <= m
  <2>1. ~ (m < n) BY <1>2, <1>3
  <2>. QED BY <2>1
<1>. QED BY <1>4

\* The recursion by which the library adds up the values of a function.
Pick(s) == CHOOSE x \in s : TRUE
Adding(f, D, g) == [s \in SUBSET D |-> IF s = {} THEN 0 ELSE f[Pick(s)] + g[s \ {Pick(s)}]]

\* It has a solution.
LEMMA AddingSolved ==
  ASSUME NEW D, IsFiniteSet(D), NEW f \in [D -> Int]
  PROVE  \E g \in [SUBSET D -> Int] : g = Adding(f, D, g)
<1> DEFINE Upto(n) == {s \in SUBSET D : Cardinality(s) <= n}
           Good(n, g) == \A s \in Upto(n) : g[s] = IF s = {} THEN 0 ELSE f[Pick(s)] + g[s \ {Pick(s)}]
           Bad == {n \in Nat : ~ \E g \in [SUBSET D -> Int] : Good(n, g)}
<1>0. \A s \in SUBSET D : s # {} => Pick(s) \in s BY DEF Pick
<1>1. \A s \in SUBSET D : IsFiniteSet(s) /\ Cardinality(s) \in Nat /\ (Cardinality(s) = 0 <=> s = {})
  BY FS_Subset, FS_EmptySet, FS_CardinalityType
<1>2. \A s \in SUBSET D : s # {} => /\ s \ {Pick(s)} \in SUBSET D
                                    /\ Cardinality(s \ {Pick(s)}) = Cardinality(s) - 1
  BY <1>0, <1>1, FS_RemoveElement
<1>3. 0 \notin Bad
  <2> DEFINE g == [s \in SUBSET D |-> 0]
  <2>1. g \in [SUBSET D -> Int] OBVIOUS
  <2>2. \A s \in Upto(0) : s = {} BY <1>1
  <2>3. Good(0, g) BY <2>2
  <2>. QED BY <2>1, <2>3
<1>4. ASSUME NEW n \in Nat, n \notin Bad PROVE n + 1 \notin Bad
  <2>1. PICK g \in [SUBSET D -> Int] : Good(n, g) BY <1>4
  <2> DEFINE h == [s \in SUBSET D |-> IF Cardinality(s) <= n THEN g[s]
                                      ELSE f[Pick(s)] + g[s \ {Pick(s)}]]
  <2>2. h \in [SUBSET D -> Int]
    <3>1. ASSUME NEW s \in SUBSET D PROVE h[s] \in Int
      <4>1. CASE Cardinality(s) <= n BY <4>1
      <4>2. CASE ~ (Cardinality(s) <= n)
        <5>1. s # {} BY <1>1, <4>2
        <5>. QED BY <4>2, <5>1, <1>0, <1>2
      <4>. QED BY <4>1, <4>2
    <3>. QED BY <3>1
  <2>3. ASSUME NEW s \in Upto(n + 1), s # {}
        PROVE  h[s] = f[Pick(s)] + h[s \ {Pick(s)}]
    <3>1. h[s \ {Pick(s)}] = g[s \ {Pick(s)}] BY <1>1, <1>2, <2>3
    <3>2. CASE Cardinality(s) <= n BY <2>1, <2>3, <3>1, <3>2
    <3>3. CASE ~ (Cardinality(s) <= n) BY <2>3, <3>1, <3>3
    <3>. QED BY <3>2, <3>3
  <2>4. h[{}] = 0
    <3>1. {} \in Upto(n) BY <1>1
    <3>. QED BY <3>1, <2>1
  <2>5. Good(n + 1, h) BY <2>3, <2>4
  <2>. QED BY <2>2, <2>5
<1>5. Bad = {}
  <2>. SUFFICES ASSUME Bad # {} PROVE FALSE OBVIOUS
  <2>1. PICK n \in Bad : \A m \in Bad : n <= m
    <3>. HIDE DEF Good
    <3>. QED BY LeastNat
  <2>2. n # 0 BY <1>3
  <2>3. n - 1 \in Nat /\ n - 1 \notin Bad
    <3>1. n \in Nat OBVIOUS
    <3>. HIDE DEF Bad
    <3>. QED BY <2>1, <2>2, <3>1
  <2>4. (n - 1) + 1 \notin Bad
    <3>. HIDE DEF Bad
    <3>. QED BY <1>4, <2>3
  <2>5. (n - 1) + 1 = n OBVIOUS
  <2>. HIDE DEF Bad
  <2>. QED BY <2>4, <2>5
<1>6. PICK g \in [SUBSET D -> Int] : Good(Cardinality(D), g)
  BY <1>1, <1>5
<1>7. \A s \in SUBSET D : Cardinality(s) <= Cardinality(D) BY FS_Subset
<1>8. g = Adding(f, D, g)
  BY <1>6, <1>7 DEF Adding
<1>. QED BY <1>8

\* Two such recursions agree on a set where their functions do.
LEMMA SolutionsAgree ==
  ASSUME NEW D, IsFiniteSet(D), NEW f, NEW g, g = Adding(f, D, g),
         NEW E, NEW e, NEW h, h = Adding(e, E, h),
         NEW T, T \subseteq D, T \subseteq E, \A x \in T : f[x] = e[x]
  PROVE  g[T] = h[T]
<1> DEFINE Bad == {Cardinality(s) : s \in {t \in SUBSET T : g[t] # h[t]}}
<1>1. \A s \in SUBSET T : IsFiniteSet(s) /\ Cardinality(s) \in Nat
  BY FS_Subset, FS_CardinalityType
<1>2. Bad = {}
  <2>. SUFFICES ASSUME Bad # {} PROVE FALSE OBVIOUS
  <2>0. Bad \subseteq Nat BY <1>1
  <2>1. PICK n \in Bad : \A m \in Bad : n <= m
    <3>. HIDE DEF Bad
    <3>. QED BY <2>0, LeastNat
  <2>2. PICK s \in SUBSET T : g[s] # h[s] /\ n = Cardinality(s) OBVIOUS
  <2>3. g[s] = IF s = {} THEN 0 ELSE f[Pick(s)] + g[s \ {Pick(s)}] BY DEF Adding
  <2>4. h[s] = IF s = {} THEN 0 ELSE e[Pick(s)] + h[s \ {Pick(s)}] BY DEF Adding
  <2>5. s # {} BY <2>2, <2>3, <2>4
  <2>6. Pick(s) \in s BY <2>5 DEF Pick
  <2>7. g[s \ {Pick(s)}] # h[s \ {Pick(s)}] BY <2>2, <2>3, <2>4, <2>5, <2>6
  <2>8. Cardinality(s \ {Pick(s)}) = n - 1 BY <1>1, <2>2, <2>6, FS_RemoveElement
  <2>9. n - 1 \in Bad BY <2>7, <2>8
  <2>. HIDE DEF Bad
  <2>. QED BY <2>0, <2>1, <2>9
<1>. QED BY <1>2

\* The sum of a function is what such a recursion says of its domain.
LEMMA SumIsSolution ==
  ASSUME NEW D, IsFiniteSet(D), NEW f \in [D -> Int]
  PROVE  \E g \in [SUBSET D -> Int] : g = Adding(f, D, g) /\ SumFunction(f) = g[D]
<1> DEFINE iter == CHOOSE g : g = Adding(f, D, g)
<1>0. PICK h \in [SUBSET D -> Int] : h = Adding(f, D, h) BY AddingSolved
<1>1. iter = Adding(f, D, iter)
  <2>1. \E g : g = Adding(f, D, g) BY <1>0
  <2>. HIDE DEF Adding
  <2>. QED BY <2>1, Zenon
<1>2. SumFunction(f) = iter[D]
  BY DEF SumFunction, SumFunctionOnSet, FoldFunctionOnSet, MapThenFoldSet, Adding, Pick
<1> HIDE DEF iter
<1>3. iter[D] = h[D] BY <1>0, <1>1, SolutionsAgree
<1>. QED BY <1>0, <1>2, <1>3

\* A sum is a number, and depends on the values of its function only.
LEMMA SumIsInt ==
  ASSUME NEW D, IsFiniteSet(D), NEW f \in [D -> Int]
  PROVE  SumFunction(f) \in Int
<1>1. PICK g \in [SUBSET D -> Int] : SumFunction(f) = g[D] BY SumIsSolution
<1>2. D \in SUBSET D OBVIOUS
<1>. QED BY <1>1, <1>2

\* Any element may be taken out first.
LEMMA SumTakesOut ==
  ASSUME NEW D, IsFiniteSet(D), NEW f \in [D -> Int], NEW x \in D
  PROVE  SumFunction(f) = f[x] + SumFunction([y \in D \ {x} |-> f[y]])
<1>1. PICK g \in [SUBSET D -> Int] : g = Adding(f, D, g) /\ SumFunction(f) = g[D]
  BY SumIsSolution
<1> DEFINE E == D \ {x}
           e == [y \in E |-> f[y]]
           Bad == {Cardinality(s) : s \in {t \in SUBSET D : \E y \in t : g[t] # f[y] + g[t \ {y}]}}
<1>2. IsFiniteSet(E) /\ e \in [E -> Int] BY FS_RemoveElement
<1>3. PICK h \in [SUBSET E -> Int] : h = Adding(e, E, h) /\ SumFunction(e) = h[E]
  <2>. HIDE DEF e, E
  <2>. QED BY <1>2, SumIsSolution
<1>4. g[E] = h[E]
  <2>1. E \subseteq D /\ \A y \in E : f[y] = e[y] OBVIOUS
  <2>. HIDE DEF e, E
  <2>. QED BY <1>1, <1>3, <2>1, SolutionsAgree
<1>5. \A s \in SUBSET D : IsFiniteSet(s) /\ Cardinality(s) \in Nat
  BY FS_Subset, FS_CardinalityType
<1>6. Bad = {}
  <2>. SUFFICES ASSUME Bad # {} PROVE FALSE OBVIOUS
  <2>0. Bad \subseteq Nat BY <1>5
  <2>1. PICK n \in Bad : \A m \in Bad : n <= m
    <3>. HIDE DEF Bad
    <3>. QED BY <2>0, LeastNat
  <2>2. PICK s \in SUBSET D : n = Cardinality(s) /\ \E y \in s : g[s] # f[y] + g[s \ {y}] OBVIOUS
  <2>a. PICK y \in s : g[s] # f[y] + g[s \ {y}] BY <2>2
  <2> DEFINE c == Pick(s)
  <2>3. c \in s BY <2>2 DEF Pick
  <2>4. g[s] = f[c] + g[s \ {c}] BY <1>1, <2>3 DEF Adding
  <2>5. c # y BY <2>a, <2>4
  <2>6. Cardinality(s \ {c}) = n - 1 /\ Cardinality(s \ {y}) = n - 1
    BY <1>5, <2>2, <2>3, FS_RemoveElement
  <2> HIDE DEF c
  <2>7. n - 1 \notin Bad
    <3>. HIDE DEF Bad
    <3>. QED BY <2>0, <2>1
  <2>8. g[s \ {c}] = f[y] + g[(s \ {c}) \ {y}]
    <3>1. y \in s \ {c} /\ s \ {c} \in SUBSET D BY <2>5
    <3>. QED BY <2>6, <2>7, <3>1
  <2>9. g[s \ {y}] = f[c] + g[(s \ {y}) \ {c}]
    <3>1. c \in s \ {y} /\ s \ {y} \in SUBSET D BY <2>3, <2>5
    <3>. QED BY <2>6, <2>7, <3>1
  <2>b. (s \ {y}) \ {c} = (s \ {c}) \ {y} OBVIOUS
  <2>d. g[s \ {y}] = f[c] + g[(s \ {c}) \ {y}] BY <2>9, <2>b
  <2>c. f[y] \in Int /\ f[c] \in Int /\ g[(s \ {c}) \ {y}] \in Int BY <2>3
  <2>e. g[s] = f[y] + g[s \ {y}] BY <2>4, <2>8, <2>c, <2>d
  <2>. QED BY <2>a, <2>e
<1>7. D \in SUBSET D OBVIOUS
<1>8. g[D] = f[x] + g[D \ {x}]
  <2>1. Cardinality(D) \notin Bad
    <3>. HIDE DEF Bad
    <3>. QED BY <1>6
  <2>. QED BY <2>1, <1>7
<1>. QED BY <1>1, <1>3, <1>4, <1>8

-----------------------------------------------------------------------------
(* The library's operators, as VerifyDump names them                       *)

\* A set is finite, and of one size, under either name.
LEMMA SameSets ==
  \A T : V!Cardinality(T) = Cardinality(T) /\ (V!IsFiniteSet(T) <=> IsFiniteSet(T))
BY DEF V!Cardinality, Cardinality, V!IsFiniteSet, IsFiniteSet

\* A function has one sum.
LEMMA SameSums ==
  \A f : V!SumFunction(f) = SumFunction(f)
BY DEF V!SumFunction, V!SumFunctionOnSet, V!FoldFunctionOnSet, V!MapThenFoldSet,
       SumFunction, SumFunctionOnSet, FoldFunctionOnSet, MapThenFoldSet

\* What FiniteSetTheorems says of sizes.
LEMMA VFS_CardinalityType ==
  ASSUME NEW T, V!IsFiniteSet(T)
  PROVE  V!Cardinality(T) \in Nat
BY SameSets, FS_CardinalityType

\* What it says of the empty set.
LEMMA VFS_EmptySet ==
  /\ V!IsFiniteSet({}) /\ V!Cardinality({}) = 0
  /\ \A T : V!IsFiniteSet(T) => (V!Cardinality(T) = 0 <=> T = {})
BY SameSets, FS_EmptySet

\* What it says of a set of one.
LEMMA VFS_Singleton ==
  /\ \A x : V!IsFiniteSet({x}) /\ V!Cardinality({x}) = 1
  /\ \A T : V!IsFiniteSet(T) => (V!Cardinality(T) = 1 <=> \E x : T = {x})
BY SameSets, FS_Singleton

\* What it says of a subset.
LEMMA VFS_Subset ==
  ASSUME NEW T, V!IsFiniteSet(T), NEW U \in SUBSET T
  PROVE  /\ V!IsFiniteSet(U) /\ V!Cardinality(U) <= V!Cardinality(T)
         /\ V!Cardinality(T) = V!Cardinality(U) => T = U
BY SameSets, FS_Subset

\* What it says of an interval.
LEMMA VFS_Interval ==
  ASSUME NEW a \in Int, NEW b \in Int
  PROVE  /\ V!IsFiniteSet(a .. b)
         /\ V!Cardinality(a .. b) = IF a > b THEN 0 ELSE b - a + 1
BY SameSets, FS_Interval

\* What it says of a union.
LEMMA VFS_Union ==
  ASSUME NEW T, V!IsFiniteSet(T), NEW U, V!IsFiniteSet(U)
  PROVE  /\ V!IsFiniteSet(T \cup U)
         /\ V!Cardinality(T \cup U) = V!Cardinality(T) + V!Cardinality(U) - V!Cardinality(T \cap U)
BY SameSets, FS_Union

\* A sum is a number.
LEMMA VSumIsInt ==
  ASSUME NEW D, V!IsFiniteSet(D), NEW f \in [D -> Int]
  PROVE  V!SumFunction(f) \in Int
BY SameSets, SameSums, SumIsInt

\* Any element may be taken out of a sum.
LEMMA VSumTakesOut ==
  ASSUME NEW D, V!IsFiniteSet(D), NEW f \in [D -> Int], NEW x \in D,
         NEW r \in [D \ {x} -> Int], \A y \in D \ {x} : r[y] = f[y]
  PROVE  V!SumFunction(f) = f[x] + V!SumFunction(r)
<1>1. r = [y \in D \ {x} |-> f[y]] OBVIOUS
<1>2. SumFunction(f) = f[x] + SumFunction(r) BY <1>1, SameSets, SumTakesOut
<1>. QED BY <1>2, SameSums

\* What FiniteSetTheorems says of a set without one of its elements.
LEMMA VFS_RemoveElement ==
  ASSUME NEW T, NEW x, V!IsFiniteSet(T)
  PROVE  V!IsFiniteSet(T \ {x})
BY SameSets, FS_RemoveElement

-----------------------------------------------------------------------------
(* The verifier: sums of bytes, damage and what shows it *)

\* Every byte of an image is one.
LEMMA ByteAtType ==
  ASSUME NEW img, V!IsImage(img), NEW o
  PROVE  V!ByteAt(img, o) \in V!Byte
BY DEF V!ByteAt, V!IsImage

\* One byte that differs is all that a sum of bytes can differ by.
LEMMA SliceDiffers ==
  ASSUME NEW a, V!IsImage(a), NEW b, V!IsImage(b), a.len = b.len, a.fill = b.fill,
         NEW o \in 0 .. a.len - 1, \A p : p # o => V!ByteAt(a, p) = V!ByteAt(b, p),
         NEW lo \in Nat, NEW hi \in Nat
  PROVE  /\ V!SliceSum(a, lo, hi) \in Int
         /\ V!SliceSum(b, lo, hi) = V!SliceSum(a, lo, hi)
              + (IF lo <= o /\ o < hi THEN V!ByteAt(b, o) - V!ByteAt(a, o) ELSE 0)
<1> DEFINE end == IF hi < a.len THEN hi ELSE a.len
           In(img) == {d \in DOMAIN img.at : lo <= d /\ d < end}
           f(img) == [d \in In(img) |-> img.at[d] - img.fill]
           rest(img) == [d \in In(img) \ {o} |-> f(img)[d]]
<1>1. end \in Nat /\ (o < hi <=> o < end) BY DEF V!IsImage
<1>2. ASSUME NEW img, V!IsImage(img), img.len = a.len
      PROVE  /\ V!IsFiniteSet(In(img)) /\ f(img) \in [In(img) -> Int]
             /\ V!SumFunction(rest(img)) \in Int
             /\ V!SumFunction(f(img)) = V!SumFunction(rest(img))
                  + (IF lo <= o /\ o < end THEN V!ByteAt(img, o) - img.fill ELSE 0)
  <2>1. V!IsFiniteSet(In(img))
    <3>0. 0 \in Int /\ img.len - 1 \in Int BY <1>2 DEF V!IsImage
    <3>1. V!IsFiniteSet(0 .. img.len - 1) BY <3>0, VFS_Interval
    <3>2. In(img) \in SUBSET (0 .. img.len - 1) BY <1>2 DEF V!IsImage
    <3>. HIDE DEF In
    <3>. QED BY <3>1, <3>2, VFS_Subset
  <2>2. f(img) \in [In(img) -> Int]
    <3>1. img.fill \in Int /\ \A d \in DOMAIN img.at : img.at[d] \in Int BY <1>2 DEF V!IsImage, V!Byte
    <3>2. \A d \in In(img) : img.at[d] - img.fill \in Int BY <3>1
    <3>. HIDE DEF In
    <3>. QED BY <3>2
  <2>3. V!SumFunction(rest(img)) \in Int
    <3>1. V!IsFiniteSet(In(img) \ {o}) BY <2>1, VFS_RemoveElement
    <3>2. rest(img) \in [In(img) \ {o} -> Int] BY <2>2
    <3>. HIDE DEF rest, In
    <3>. QED BY <3>1, <3>2, VSumIsInt
  <2>4. CASE o \in In(img)
    <3>1. V!SumFunction(f(img)) = f(img)[o] + V!SumFunction(rest(img))
      <4> DEFINE D == In(img)
                 g == f(img)
                 x == o
      <4> DEFINE r == rest(img)
      <4>1. V!IsFiniteSet(D) /\ g \in [D -> Int] /\ x \in D BY <2>1, <2>2, <2>4
      <4>2. r \in [D \ {x} -> Int] /\ \A d \in D \ {x} : r[d] = g[d]
        <5>. HIDE DEF In, f
        <5>. QED BY <4>1
      <4>. HIDE DEF In, f, D, g, r, x
      <4>3. V!SumFunction(g) = g[x] + V!SumFunction(r) BY <4>1, <4>2, VSumTakesOut
      <4>. QED BY <4>3 DEF D, g, r, x
    <3>2. f(img)[o] = V!ByteAt(img, o) - img.fill /\ lo <= o /\ o < end
      BY <2>4 DEF V!ByteAt
    <3>3. f(img)[o] \in Int BY <2>2, <2>4
    <3>. HIDE DEF f, rest, In, end
    <3>. QED BY <2>1, <2>2, <2>3, <3>1, <3>2, <3>3
  <2>5. CASE o \notin In(img)
    <3>1. rest(img) = f(img)
      <4>1. In(img) \ {o} = In(img) BY <2>5
      <4>2. rest(img) = [d \in In(img) |-> f(img)[d]]
        <5>. HIDE DEF In, f
        <5>. QED BY <4>1
      <4>. HIDE DEF In
      <4>. QED BY <4>2
    <3>2. lo <= o /\ o < end => V!ByteAt(img, o) = img.fill BY <2>5 DEF V!ByteAt
    <3>3. img.fill \in Int BY <1>2 DEF V!IsImage, V!Byte
    <3>4. (IF lo <= o /\ o < end THEN V!ByteAt(img, o) - img.fill ELSE 0) = 0
      BY <3>2, <3>3
    <3>5. V!SumFunction(f(img)) = V!SumFunction(rest(img))
      <4>. HIDE DEF f, rest
      <4>. QED BY <3>1
    <3> DEFINE d == IF lo <= o /\ o < end THEN V!ByteAt(img, o) - img.fill ELSE 0
               r == V!SumFunction(rest(img))
    <3>6. d = 0 /\ r \in Int /\ V!SumFunction(f(img)) = r BY <2>3, <3>4, <3>5
    <3>7. r = r + d
      <4>. HIDE DEF d, r
      <4>. QED BY <3>6
    <3>. QED BY <2>1, <2>2, <3>6, <3>7
  <2>. QED BY <2>1, <2>2, <2>3, <2>4, <2>5
<1>3. rest(a) = rest(b)
  <2>1. \A d : d # o => (d \in DOMAIN a.at <=> d \in DOMAIN b.at)
    BY DEF V!ByteAt, V!IsImage
  <2>2. In(a) \ {o} = In(b) \ {o} BY <2>1
  <2>3. \A d \in In(a) \ {o} : f(a)[d] = f(b)[d]
    <3>1. ASSUME NEW d \in In(a) \ {o} PROVE a.at[d] = b.at[d]
      BY <2>1, <2>2, <3>1 DEF V!ByteAt
    <3>. QED BY <3>1, <2>2
  <2>. HIDE DEF In, f
  <2>. QED BY <2>2, <2>3
<1>4. /\ V!SliceSum(a, lo, hi) = IF end <= lo THEN 0 ELSE (end - lo) * a.fill + V!SumFunction(f(a))
      /\ V!SliceSum(b, lo, hi) = IF end <= lo THEN 0 ELSE (end - lo) * a.fill + V!SumFunction(f(b))
  BY DEF V!SliceSum
<1>5. /\ a.fill \in Int /\ V!ByteAt(a, o) \in Int /\ V!ByteAt(b, o) \in Int
  <2>1. V!ByteAt(a, o) \in V!Byte /\ V!ByteAt(b, o) \in V!Byte BY ByteAtType
  <2>2. a.fill \in V!Byte BY DEF V!IsImage
  <2>. QED BY <2>1, <2>2 DEF V!Byte
<1> DEFINE R == V!SumFunction(rest(a))
<1>6. /\ R \in Int
      /\ V!SumFunction(f(a)) = R + (IF lo <= o /\ o < end THEN V!ByteAt(a, o) - a.fill ELSE 0)
      /\ V!SumFunction(f(b)) = R + (IF lo <= o /\ o < end THEN V!ByteAt(b, o) - a.fill ELSE 0)
  <2>. HIDE DEF rest, f
  <2>. QED BY <1>2, <1>3
<1>7. (end - lo) * a.fill \in Int BY <1>1, <1>5
<1>. HIDE DEF end, f, R
<1>. QED BY <1>1, <1>4, <1>5, <1>6, <1>7

\* One changed byte of a ROM never leaves its global checksum right, not even
\* when it is one of the two that hold it.
LEMMA GlobalSumCatches ==
  ASSUME NEW got, V!IsImage(got), NEW want, V!IsImage(want), V!OneByteOff(got, want),
         got.len >= \h150, V!gb_global_sum(want) = V!StoredGlobal(want)
  PROVE  V!gb_global_sum(got) # V!StoredGlobal(got)
<1> DEFINE off == {o \in DOMAIN got.at \cup DOMAIN want.at : V!ByteAt(got, o) # V!ByteAt(want, o)}
<1>1. got.len = want.len /\ got.fill = want.fill /\ V!Cardinality(off) = 1 BY DEF V!OneByteOff
<1>2. PICK o \in off : off = {o}
  <2>1. V!IsFiniteSet(0 .. got.len - 1)
    <3>1. 0 \in Int /\ got.len - 1 \in Int BY DEF V!IsImage
    <3>. QED BY <3>1, VFS_Interval
  <2>2. off \in SUBSET (0 .. got.len - 1) BY <1>1 DEF V!IsImage
  <2>. HIDE DEF off
  <2>3. V!IsFiniteSet(off) BY <2>1, <2>2, VFS_Subset
  <2>4. PICK o : off = {o} BY <1>1, <2>3, VFS_Singleton
  <2>. QED BY <2>4
<1>3. o \in 0 .. want.len - 1 BY <1>1, <1>2 DEF V!IsImage
<1>4. \A p : p # o => V!ByteAt(want, p) = V!ByteAt(got, p)
  <2>1. ASSUME NEW p, p # o PROVE V!ByteAt(want, p) = V!ByteAt(got, p)
    <3>1. p \notin off BY <1>2, <2>1
    <3>2. CASE p \in DOMAIN got.at \cup DOMAIN want.at BY <3>1, <3>2
    <3>3. CASE p \notin DOMAIN got.at \cup DOMAIN want.at BY <1>1, <3>3 DEF V!ByteAt
    <3>. QED BY <3>2, <3>3
  <2>. QED BY <2>1
<1> DEFINE low(img) == V!SliceSum(img, 0, \h14E)
           high(img) == V!SliceSum(img, \h150, img.len)
           x == V!ByteAt(want, o)
           y == V!ByteAt(got, o)
<1>5. /\ low(want) \in Int /\ high(want) \in Int
      /\ low(got) = low(want) + (IF o < \h14E THEN y - x ELSE 0)
      /\ high(got) = high(want) + (IF \h150 <= o THEN y - x ELSE 0)
  <2>1. want.len \in Nat /\ o \in Int BY <1>3 DEF V!IsImage
  <2>2. /\ low(want) \in Int
        /\ low(got) = low(want) + (IF 0 <= o /\ o < \h14E THEN y - x ELSE 0)
    BY <1>1, <1>3, <1>4, SliceDiffers
  <2>3. /\ high(want) \in Int
        /\ V!SliceSum(got, \h150, want.len) = high(want) + (IF \h150 <= o /\ o < want.len THEN y - x ELSE 0)
    <3> DEFINE l == want.len
    <3>1. l \in Nat /\ \h150 \in Nat BY <2>1
    <3>. HIDE DEF l
    <3>2. /\ V!SliceSum(want, \h150, l) \in Int
          /\ V!SliceSum(got, \h150, l) = V!SliceSum(want, \h150, l)
               + (IF \h150 <= o /\ o < l THEN V!ByteAt(got, o) - V!ByteAt(want, o) ELSE 0)
      BY <1>1, <1>3, <1>4, <3>1, SliceDiffers
    <3>. QED BY <3>2 DEF l
  <2>. HIDE DEF x, y
  <2>. QED BY <1>1, <1>3, <2>1, <2>2, <2>3
<1>6. x \in 0 .. 255 /\ y \in 0 .. 255 /\ x # y BY <1>2, ByteAtType DEF V!Byte
<1>7. /\ V!gb_global_sum(want) = (low(want) + high(want)) % 65536
      /\ V!gb_global_sum(got) = (low(got) + high(got)) % 65536
  BY DEF V!gb_global_sum
<1> DEFINE hi(img) == V!ByteAt(img, \h14E)
           lo(img) == V!ByteAt(img, \h14F)
<1>8. V!StoredGlobal(want) = 256 * hi(want) + lo(want) /\ V!StoredGlobal(got) = 256 * hi(got) + lo(got)
  BY DEF V!StoredGlobal
<1>9. /\ hi(want) \in 0 .. 255 /\ lo(want) \in 0 .. 255
      /\ hi(got) = IF o = \h14E THEN y ELSE hi(want)
      /\ lo(got) = IF o = \h14F THEN y ELSE lo(want)
      /\ o = \h14E => hi(want) = x
      /\ o = \h14F => lo(want) = x
  BY <1>4, ByteAtType DEF V!Byte
<1>10. o \in Int BY <1>3 DEF V!IsImage
<1> DEFINE s == low(want) + high(want)
<1>11. /\ s \in Int /\ s % 65536 = 256 * hi(want) + lo(want)
       /\ V!gb_global_sum(got) = (IF o \in {\h14E, \h14F} THEN s ELSE s + (y - x)) % 65536
  <2>1. low(got) + high(got) = IF o \in {\h14E, \h14F} THEN s ELSE s + (y - x)
    <3>. HIDE DEF low, high, x, y
    <3>. QED BY <1>5, <1>6, <1>10
  <2>2. s \in Int
    <3>. HIDE DEF low, high, x, y
    <3>. QED BY <1>5
  <2>3. s % 65536 = 256 * hi(want) + lo(want)
    <3>1. V!gb_global_sum(want) = s % 65536 BY <1>7
    <3>2. V!gb_global_sum(want) = 256 * hi(want) + lo(want) BY <1>8
    <3>. HIDE DEF s, hi, lo
    <3>. QED BY <3>1, <3>2
  <2>4. V!gb_global_sum(got) = (IF o \in {\h14E, \h14F} THEN s ELSE s + (y - x)) % 65536
    <3>. HIDE DEF low, high, x, y, s
    <3>. QED BY <1>7, <2>1
  <2>. HIDE DEF low, high, x, y, s, hi, lo
  <2>. QED BY <2>2, <2>3, <2>4
<1>. HIDE DEF low, high, x, y, s, hi, lo
<1>12. CASE o \in {\h14E, \h14F}
  <2>1. V!gb_global_sum(got) = 256 * hi(want) + lo(want) BY <1>11, <1>12
  <2>2. hi(got) # hi(want) \/ lo(got) # lo(want) BY <1>6, <1>9, <1>12
  <2>. QED BY <1>8, <1>9, <1>6, <2>1, <2>2
<1>13. CASE o \notin {\h14E, \h14F}
  <2>1. V!StoredGlobal(got) = s % 65536 BY <1>8, <1>9, <1>11, <1>13
  <2>2. V!gb_global_sum(got) = (s + (y - x)) % 65536 BY <1>11, <1>13
  <2>3. (s + (y - x)) % 65536 # s % 65536 BY <1>6, <1>11
  <2>. QED BY <2>1, <2>2, <2>3
<1>. QED BY <1>12, <1>13

\* The weights of the eight data lines.
LEMMA Weights ==
  ASSUME NEW k \in 0 .. 7
  PROVE  \/ (k = 0 /\ 2 ^ k = 1) \/ (k = 1 /\ 2 ^ k = 2) \/ (k = 2 /\ 2 ^ k = 4)
         \/ (k = 3 /\ 2 ^ k = 8) \/ (k = 4 /\ 2 ^ k = 16) \/ (k = 5 /\ 2 ^ k = 32)
         \/ (k = 6 /\ 2 ^ k = 64) \/ (k = 7 /\ 2 ^ k = 128)
<1>1. 2 ^ 0 = 1 /\ 2 ^ 1 = 2 /\ 2 ^ 2 = 4 /\ 2 ^ 3 = 8 /\ 2 ^ 4 = 16 /\ 2 ^ 5 = 32 /\ 2 ^ 6 = 64 /\ 2 ^ 7 = 128
  OBVIOUS
<1>2. k = 0 \/ k = 1 \/ k = 2 \/ k = 3 \/ k = 4 \/ k = 5 \/ k = 6 \/ k = 7 OBVIOUS
<1>3. CASE k = 0 BY <1>1, <1>3
<1>4. CASE k = 1 BY <1>1, <1>4
<1>5. CASE k = 2 BY <1>1, <1>5
<1>6. CASE k = 3 BY <1>1, <1>6
<1>7. CASE k = 4 BY <1>1, <1>7
<1>8. CASE k = 5 BY <1>1, <1>8
<1>9. CASE k = 6 BY <1>1, <1>9
<1>10. CASE k = 7 BY <1>1, <1>10
<1>. QED BY <1>2, <1>3, <1>4, <1>5, <1>6, <1>7, <1>8, <1>9, <1>10

\* The logo has every data line low in one byte and high in another.
LEMMA LogoCatches ==
  ASSUME NEW got, NEW want, V!IsImage(want), V!HasLogo(want),
         NEW k \in 0 .. 7, NEW high \in BOOLEAN, got = V!Stuck(want, k, high)
  PROVE  ~V!HasLogo(got)
<1> DEFINE By(byte) == IF high = (k \in V!Bits(byte)) THEN byte
                       ELSE IF high THEN byte + 2 ^ k ELSE byte - 2 ^ k
<1>1. ASSUME NEW o PROVE V!ByteAt(got, o) = By(V!ByteAt(want, o))
  <2>1. /\ got.fill = By(want.fill)
        /\ got.at = [p \in {d \in DOMAIN want.at : By(want.at[d]) # By(want.fill)} |-> By(want.at[p])]
    <3>1. want = [len |-> want.len, fill |-> want.fill, at |-> want.at] BY DEF V!IsImage
    <3>. QED BY <3>1 DEF V!Stuck
  <2>. HIDE DEF By
  <2>. QED BY <2>1 DEF V!ByteAt
<1>2. \A o \in V!LogoAt : V!ByteAt(want, o) = V!GB_LOGO(o) BY DEF V!HasLogo
<1>3. \E o \in V!LogoAt : By(V!GB_LOGO(o)) # V!GB_LOGO(o)
  <2> DEFINE w == 2 ^ k
  <2>1. w \in Int /\ w # 0
    <3>1. w \in {1, 2, 4, 8, 16, 32, 64, 128} BY Weights
    <3>. HIDE DEF w
    <3>. QED BY <3>1
  <2>a. \A byte : k \in V!Bits(byte) <=> (byte \div w) % 2 = 1 BY DEF V!Bits
  <2>2. CASE high
    <3>1. k \notin V!Bits(0)
      <4>1. w \in {1, 2, 4, 8, 16, 32, 64, 128} BY Weights
      <4>. HIDE DEF w
      <4>2. (0 \div w) % 2 = 0 BY <4>1
      <4>. QED BY <4>2, <2>a
    <3>2. \h10A \in V!LogoAt /\ V!GB_LOGO(\h10A) = 0 BY DEF V!LogoAt, V!GB_LOGO
    <3>3. By(0) = 0 + w BY <2>2, <3>1
    <3>. HIDE DEF w, By
    <3>. QED BY <2>1, <3>2, <3>3
  <2>3. CASE ~high
    <3>1. \E o \in {\h104, \h105, \h10D} : k \in V!Bits(V!GB_LOGO(o))
      <4>1. w \in {1, 2, 4, 8, 16, 32, 64, 128} BY Weights
      <4>. HIDE DEF w
      <4>2. \/ (\hCE \div w) % 2 = 1 \/ (\hED \div w) % 2 = 1 \/ (\h73 \div w) % 2 = 1 BY <4>1
      <4>. QED BY <4>2, <2>a DEF V!GB_LOGO
    <3>2. \A o \in {\h104, \h105, \h10D} : o \in V!LogoAt /\ V!GB_LOGO(o) \in Int BY DEF V!LogoAt, V!GB_LOGO
    <3>3. PICK o \in {\h104, \h105, \h10D} : k \in V!Bits(V!GB_LOGO(o)) BY <3>1
    <3>4. By(V!GB_LOGO(o)) = V!GB_LOGO(o) - w BY <2>3, <3>3
    <3>. HIDE DEF w, By
    <3>. QED BY <2>1, <3>2, <3>4
  <2>. QED BY <2>2, <2>3
<1>. HIDE DEF By
<1>. QED BY <1>1, <1>2, <1>3 DEF V!HasLogo

\* What is left of a file that was cut off.
LEMMA TruncatedIs ==
  ASSUME NEW img, V!IsImage(img), NEW l
  PROVE  /\ V!Truncated(img, l).fill = img.fill
         /\ V!Truncated(img, l).at = [o \in {d \in DOMAIN img.at : d < l} |-> img.at[o]]
<1>1. img = [len |-> img.len, fill |-> img.fill, at |-> img.at] BY DEF V!IsImage
<1>. QED BY <1>1 DEF V!Truncated

\* A ROM that passes is neither cut short nor a byte off nor read over a bad line.
LEMMA RomClears ==
  ASSUME NEW n, n.ext \in {".gb", ".gbc"}, NEW got, V!IsImage(got),
         NEW want, V!IsImage(want), V!WellMade(n, want),
         got.len >= \h150, V!HasLogo(got), V!gb_global_sum(got) = V!StoredGlobal(got),
         got.len = 32768 * 2 ^ V!RomCode(got)
  PROVE  /\ ~V!CutShort(got, want) /\ ~V!OneByteOff(got, want)
         /\ \A k \in 0 .. 7, high \in BOOLEAN : got # V!Stuck(want, k, high)
<1>1. /\ want.len = 32768 * 2 ^ V!RomCode(want) /\ V!HasLogo(want)
      /\ V!gb_global_sum(want) = V!StoredGlobal(want)
  BY DEF V!WellMade
<1>2. ~V!CutShort(got, want)
  <2>. SUFFICES ASSUME V!CutShort(got, want) PROVE FALSE OBVIOUS
  <2>1. got.len < want.len /\ got = V!Truncated(want, got.len) BY DEF V!CutShort
  <2>2. V!RomCode(got) = V!RomCode(want)
    <3>2. /\ got.fill = want.fill
          /\ got.at = [o \in {d \in DOMAIN want.at : d < got.len} |-> want.at[o]]
      BY <2>1, TruncatedIs
    <3>3. \h148 < got.len BY DEF V!IsImage
    <3>. QED BY <3>2, <3>3 DEF V!RomCode, V!ByteAt
  <2>3. got.len \in Int /\ want.len \in Int /\ got.len = want.len BY <1>1, <2>2 DEF V!IsImage
  <2>. QED BY <2>1, <2>3
<1>3. ~V!OneByteOff(got, want) BY <1>1, GlobalSumCatches
<1>4. \A k \in 0 .. 7, high \in BOOLEAN : got # V!Stuck(want, k, high)
  BY <1>1, LogoCatches
<1>. QED BY <1>2, <1>3, <1>4

-----------------------------------------------------------------------------
(* The lines of a report *)

\* A report is put together of small sets.
LEMMA SmallSetsAreFinite ==
  /\ V!IsFiniteSet({}) /\ \A x : V!IsFiniteSet({x})
  /\ \A T, U : V!IsFiniteSet(T) /\ V!IsFiniteSet(U) => V!IsFiniteSet(T \cup U)
BY VFS_EmptySet, VFS_Singleton, VFS_Union

\* Each of the lines.
LEMMA LinesAreFinite ==
  ASSUME NEW c, NEW x, NEW m
  PROVE  /\ V!IsFiniteSet(V!Ok(x)) /\ V!IsFiniteSet(V!Bad(x)) /\ V!IsFiniteSet(V!Warn(x))
         /\ V!IsFiniteSet(V!Note(x, m)) /\ V!IsFiniteSet(V!Judge(x, c))
         /\ \A T : V!IsFiniteSet(T) => V!IsFiniteSet(V!When(c, T))
<1>1. V!IsFiniteSet(V!Ok(x)) /\ V!IsFiniteSet(V!Bad(x)) /\ V!IsFiniteSet(V!Warn(x)) /\ V!IsFiniteSet(V!Note(x, m))
  BY SmallSetsAreFinite DEF V!Ok, V!Bad, V!Warn, V!Note
<1>2. V!IsFiniteSet(V!Judge(x, c)) BY <1>1 DEF V!Judge
<1>3. \A T : V!IsFiniteSet(T) => V!IsFiniteSet(V!When(c, T)) BY SmallSetsAreFinite DEF V!When
<1>. QED BY <1>1, <1>2, <1>3

\* The report on a file is finite.
LEMMA VerifyIsFinite ==
  ASSUME NEW files, NEW n, NEW ref
  PROVE  V!IsFiniteSet(V!verify(files, n, ref))
<1> DEFINE img == files[n]
<1> USE SmallSetsAreFinite
<1>1. V!IsFiniteSet(V!verify_reference(img, ref))
  BY DEF V!verify_reference, V!When, V!Judge, V!Ok, V!Bad
<1>2. V!IsFiniteSet(V!describe_ram(V!CartType(img), V!RamCode(img))) BY DEF V!describe_ram, V!Note
<1>3. V!IsFiniteSet(V!verify_gb(img))
  <2>1. CASE img.len < \h150
    <3>1. V!verify_gb(img) = V!Bad("too short to hold a header") BY <2>1 DEF V!verify_gb
    <3>. QED BY <3>1 DEF V!Bad
  <2>2. CASE ~(img.len < \h150)
    <3>1. \A x : V!IsFiniteSet(V!Ok(x)) /\ V!IsFiniteSet(V!Bad(x)) BY DEF V!Ok, V!Bad
    <3> DEFINE p == V!RomCode(img) <= 8 /\ img.len = 32768 * 2 ^ V!RomCode(img)
               a == V!Judge("Nintendo logo", V!HasLogo(img))
               b == V!Judge("header checksum", V!gb_header_sum(img) = V!ByteAt(img, \h14D))
               c == V!Judge("global checksum", V!gb_global_sum(img) = V!StoredGlobal(img))
               d == V!Judge("size matches header", p)
               e == V!describe_ram(V!CartType(img), V!RamCode(img))
    <3>2. V!IsFiniteSet(a) BY <3>1 DEF V!Judge
    <3>3. V!IsFiniteSet(b) BY <3>1 DEF V!Judge
    <3>4. V!IsFiniteSet(c) BY <3>1 DEF V!Judge
    <3>5. V!IsFiniteSet(d)
      <4>. HIDE DEF p
      <4>. QED BY <3>1 DEF V!Judge
    <3>6. V!verify_gb(img) = a \cup b \cup c \cup d \cup e BY <2>2 DEF V!verify_gb
    <3>7. V!IsFiniteSet(e) BY <1>2
    <3>. HIDE DEF a, b, c, d, e
    <3>. QED BY <3>2, <3>3, <3>4, <3>5, <3>6, <3>7
  <2>. QED BY <2>1, <2>2
<1>4. V!IsFiniteSet(V!verify_gba(img))
  <2>1. \A x : V!IsFiniteSet(V!Ok(x)) /\ V!IsFiniteSet(V!Bad(x)) BY DEF V!Ok, V!Bad
  <2> DEFINE a == V!Judge("Nintendo logo", V!GBA_LOGO(img))
             b == V!Judge("fixed byte", V!ByteAt(img, \hB2) = \h96)
             c == V!Judge("header complement", V!complement(img) = V!ByteAt(img, \hBD))
             d == V!Judge("size is a power of two", \E k \in 0 .. 25 : img.len = 2 ^ k)
  <2>2. V!IsFiniteSet(a) BY <2>1 DEF V!Judge
  <2>3. V!IsFiniteSet(b) BY <2>1 DEF V!Judge
  <2>4. V!IsFiniteSet(c) BY <2>1 DEF V!Judge
  <2>5. V!IsFiniteSet(d) BY <2>1 DEF V!Judge
  <2>6. V!verify_gba(img) = IF img.len < \hC0 THEN V!Bad("too short to hold a header") ELSE a \cup b \cup c \cup d
    BY DEF V!verify_gba
  <2>. HIDE DEF a, b, c, d
  <2>. QED BY <2>1, <2>2, <2>3, <2>4, <2>5, <2>6
<1>5. V!IsFiniteSet(V!verify_lyx(img))
  <2>1. \A x, m : V!IsFiniteSet(V!Ok(x)) /\ V!IsFiniteSet(V!Bad(x)) /\ V!IsFiniteSet(V!Note(x, m)) BY DEF V!Ok, V!Bad, V!Note
  <2>2. V!verify_lyx(img) \in {V!Bad("256 blocks of 2048 bytes"), V!Bad("cartridge data"),
            V!Bad("every block identical"), V!Ok("blocks differ") \cup V!Note("block size", V!BlockSize(img))}
    BY DEF V!verify_lyx
  <2>. QED BY <2>1, <2>2
<1>6. V!IsFiniteSet(V!verify_sav(files, n, img))
  <2>1. \A x, y, z : V!IsFiniteSet(V!SizeBeside(x, y, z)) BY DEF V!SizeBeside, V!Warn, V!Judge, V!Ok, V!Bad
  <2>. QED BY <2>1 DEF V!verify_sav, V!When, V!Judge, V!Ok, V!Bad, V!Warn
<1>7. V!IsFiniteSet(V!verify_gg(img))
  <2>0. \A x : V!IsFiniteSet(V!Ok(x)) /\ V!IsFiniteSet(V!Bad(x)) /\ V!IsFiniteSet(V!Warn(x)) BY DEF V!Ok, V!Bad, V!Warn
  <2>1. \A h : V!IsFiniteSet(V!gg_header(img, h)) BY DEF V!gg_header, V!When, V!Warn
  <2>2. V!IsFiniteSet(UNION {V!gg_header(img, h) : h \in V!headers(img)})
    <3> DEFINE some(h) == IF h \in V!headers(img) THEN V!gg_header(img, h) ELSE {}
    <3>0. V!headers(img) \subseteq {\h1FF0, \h3FF0, \h7FF0} BY DEF V!headers, V!GG_HEADERS
    <3>1. UNION {V!gg_header(img, h) : h \in V!headers(img)}
            = some(\h1FF0) \cup some(\h3FF0) \cup some(\h7FF0)
      BY <3>0
    <3>2. \A h : V!IsFiniteSet(some(h)) BY <2>1
    <3> DEFINE hs == UNION {V!gg_header(img, h) : h \in V!headers(img)}
    <3>3. hs = some(\h1FF0) \cup some(\h3FF0) \cup some(\h7FF0) BY <3>1
    <3>. HIDE DEF some, hs
    <3>5. V!IsFiniteSet(some(\h1FF0) \cup some(\h3FF0)) BY <3>2
    <3>6. V!IsFiniteSet(some(\h7FF0)) BY <3>2
    <3>4. V!IsFiniteSet(hs) BY <3>3, <3>5, <3>6
    <3>. QED BY <3>4 DEF hs
  <2> DEFINE p == img.len >= 8192 /\ img.len % 8192 = 0
             q == LET banks == img.len \div 16384
                  IN banks > 1 /\ V!Cardinality(V!Pieces(V!Truncated(img, banks * 16384), 16384)) # banks
             a == V!Judge("whole 8 KiB units", p)
             b == V!When(V!headers(img) = {}, V!Warn("TMR SEGA header"))
             c == V!When(V!Cardinality({V!Piece(img, h, 16) : h \in V!headers(img)}) > 1, V!Warn("conflicting headers"))
             d == UNION {V!gg_header(img, h) : h \in V!headers(img)}
             e == V!When(q, V!Warn("duplicate 16 KiB banks"))
             f == V!When(V!Cardinality(V!Values(img)) = 1, V!Warn("uniform data"))
  <2>3. V!IsFiniteSet(a)
    <3>. HIDE DEF p
    <3>. QED BY <2>0 DEF V!Judge
  <2>4. V!IsFiniteSet(b) BY <2>0, SmallSetsAreFinite, Zenon DEF V!When
  <2>5. V!IsFiniteSet(c) BY <2>0, SmallSetsAreFinite, Zenon DEF V!When
  <2>6. V!IsFiniteSet(e)
    <3>. HIDE DEF q
    <3>. QED BY <2>0 DEF V!When
  <2>7. V!IsFiniteSet(f) BY <2>0, SmallSetsAreFinite, Zenon DEF V!When
  <2>8. V!verify_gg(img) = a \cup b \cup c \cup d \cup e \cup f BY DEF V!verify_gg
  <2>9. V!IsFiniteSet(d) BY <2>2
  <2>. HIDE DEF a, b, c, d, e, f
  <2>. QED BY <2>3, <2>4, <2>5, <2>6, <2>7, <2>8, <2>9
<1>. HIDE DEF img
<1>. QED BY <1>1, <1>3, <1>4, <1>5, <1>6, <1>7 DEF V!verify, img, V!Bad, V!Warn

\* A report in which nothing failed has no line that says so.
LEMMA FailuresCount ==
  ASSUME NEW lines, V!IsFiniteSet(lines)
  PROVE  /\ V!Failures(lines) \in Nat
         /\ V!Failures(lines) = 0 => \A x : <<"FAIL", x, 0>> \notin lines
<1> DEFINE bad == {l \in lines : l[1] = "FAIL"}
<1>1. V!IsFiniteSet(bad)
  <2>1. bad \in SUBSET lines OBVIOUS
  <2>. HIDE DEF bad
  <2>. QED BY <2>1, VFS_Subset
<1>2. V!Cardinality(bad) \in Nat /\ (V!Cardinality(bad) = 0 => bad = {})
  <2>. HIDE DEF bad
  <2>. QED BY <1>1, VFS_CardinalityType, VFS_EmptySet
<1>. QED BY <1>2 DEF V!Failures

\* The verifier has the length the core reads of every save it can read.
LEMMA SavesAreTabled ==
  ASSUME NEW type, NEW code, V!supported(type, code)
  PROVE  /\ type \notin V!MBC2 /\ code \in DOMAIN V!RAM_SIZES
         /\ V!RAM_SIZES[code] = V!total_bytes(code) /\ V!total_bytes(code) \in V!LegalSizes
<1>1. type \notin V!MBC2 /\ code \in 1 .. 5
  <2>1. V!banks_of(code) # 0 /\ type \notin V!MBC2 BY DEF V!supported
  <2>. QED BY <2>1 DEF V!banks_of
<1>2. code = 1 \/ code = 2 \/ code = 3 \/ code = 4 \/ code = 5 BY <1>1
<1>3. /\ code \in DOMAIN V!RAM_SIZES /\ V!RAM_SIZES[code] = V!total_bytes(code)
      /\ V!total_bytes(code) \in V!LegalSizes
  BY <1>2, SMT DEF V!RAM_SIZES, V!total_bytes, V!banks_of, V!BANK, V!LegalSizes
<1>. QED BY <1>1, <1>3

\* A save that passes is as long as the ROM dump beside it says.
LEMMA SaveFits ==
  ASSUME NEW files, NEW n, NEW img, \A x : <<"FAIL", x, 0>> \notin V!verify_sav(files, n, img)
  PROVE  img.len \in V!LengthsBeside(files, n)
<1> DEFINE ext == V!find_rom_beside(files, n)
           rom == files[[n EXCEPT !.ext = ext]]
           type == V!CartType(rom)
           code == V!RamCode(rom)
           told == ext \in {".gb", ".gbc"} /\ ~(rom.len < \h150) /\ V!supported(type, code)
<1>1. V!LengthsBeside(files, n) = IF told THEN {V!total_bytes(code)} ELSE V!LegalSizes
  BY DEF V!LengthsBeside
<1>2. img.len \in V!LegalSizes BY DEF V!verify_sav, V!Judge, V!Bad
<1>3. ASSUME told PROVE img.len = V!total_bytes(code)
  <2>1. ext # "none" /\ ext # ".gba" /\ ~(rom.len < \h150)
    <3>. HIDE DEF ext, rom
    <3>. QED BY <1>3
  <2>2. V!SizeBeside(img, ext, rom) \subseteq V!verify_sav(files, n, img)
    BY <2>1, Zenon DEF V!verify_sav
  <2>3. /\ type \notin V!MBC2 /\ code \in DOMAIN V!RAM_SIZES
        /\ V!RAM_SIZES[code] = V!total_bytes(code)
    BY <1>3, SavesAreTabled
  <2> DEFINE want == V!RAM_SIZES[code]
  <2>4. V!SizeBeside(img, ext, rom) = V!Judge("size matches the cartridge header", img.len = want)
    BY <2>1, <2>3, Zenon DEF V!SizeBeside
  <2>5. img.len # want => V!Judge("size matches the cartridge header", img.len = want)
                            = {<<"FAIL", "size matches the cartridge header", 0>>}
    BY Zenon DEF V!Judge, V!Bad
  <2>6. img.len = want
    <3>. HIDE DEF ext, rom, want
    <3>. QED BY <2>2, <2>4, <2>5
  <2>. QED BY <2>3, <2>6
<1>. HIDE DEF told, code
<1>. QED BY <1>1, <1>2, <1>3

\* A file that passes was there, shows no damage, and is as the references say.
LEMMA PassClears ==
  ASSUME NEW files, NEW n, NEW ref, files[n] = NoFile \/ V!IsImage(files[n]),
         NEW want, V!IsImage(want), V!WellMade(n, want), V!Failures(V!verify(files, n, ref)) = 0
  PROVE  /\ files[n] # NoFile
         /\ ~V!Shows(files, n, want) /\ V!AsReferenced(files[n], ref)
<1> DEFINE img == files[n]
<1>1. \A x : <<"FAIL", x, 0>> \notin V!verify(files, n, ref) BY VerifyIsFinite, FailuresCount
<1>0. img # NoFile /\ V!IsImage(img)
  <2>1. img = NoFile => V!verify(files, n, ref) = V!Bad("unreadable") BY DEF V!verify
  <2>. QED BY <1>1, <2>1 DEF V!Bad
<1>2. V!AsReferenced(img, ref)
  <2>0. V!verify_reference(img, ref) \subseteq V!verify(files, n, ref) BY <1>0 DEF V!verify
  <2>1. NoFile # ref.sha1 => img = ref.sha1
    BY <1>1, <2>0 DEF V!verify_reference, V!When, V!Judge, V!Bad
  <2>2. NoFile # ref.crc32 => img = ref.crc32
    BY <1>1, <2>0 DEF V!verify_reference, V!When, V!Judge, V!Bad
  <2>3. ref.size # 0 => img.len = ref.size
    BY <1>1, <2>0 DEF V!verify_reference, V!When, V!Judge, V!Bad
  <2>. QED BY <2>1, <2>2, <2>3 DEF V!AsReferenced
<1>3. CASE n.ext \in {".gb", ".gbc"}
  <2>1. V!verify_gb(img) \subseteq V!verify(files, n, ref) BY <1>0, <1>3 DEF V!verify
  <2>2. /\ img.len >= \h150 /\ V!HasLogo(img) /\ V!gb_global_sum(img) = V!StoredGlobal(img)
        /\ img.len = 32768 * 2 ^ V!RomCode(img)
    <3>0. \A x : ~(V!Bad(x) \subseteq V!verify(files, n, ref)) BY <1>1 DEF V!Bad
    <3>1. ~(img.len < \h150)
      <4>. SUFFICES ASSUME img.len < \h150 PROVE FALSE OBVIOUS
      <4>1. V!verify_gb(img) = V!Bad("too short to hold a header") BY DEF V!verify_gb
      <4>. QED BY <2>1, <3>0, <4>1
    <3> DEFINE p == V!RomCode(img) <= 8 /\ img.len = 32768 * 2 ^ V!RomCode(img)
               a == V!Judge("Nintendo logo", V!HasLogo(img))
               b == V!Judge("header checksum", V!gb_header_sum(img) = V!ByteAt(img, \h14D))
               c == V!Judge("global checksum", V!gb_global_sum(img) = V!StoredGlobal(img))
               d == V!Judge("size matches header", p)
               e == V!describe_ram(V!CartType(img), V!RamCode(img))
    <3>2. V!verify_gb(img) = a \cup b \cup c \cup d \cup e BY <3>1 DEF V!verify_gb
    <3>3. V!HasLogo(img)
      <4>1. ~V!HasLogo(img) => a = V!Bad("Nintendo logo") BY DEF V!Judge
      <4>. HIDE DEF a, b, c, d, e
      <4>. QED BY <2>1, <3>0, <3>2, <4>1
    <3>4. V!gb_global_sum(img) = V!StoredGlobal(img)
      <4>1. V!gb_global_sum(img) # V!StoredGlobal(img) => c = V!Bad("global checksum") BY DEF V!Judge
      <4>. HIDE DEF a, b, c, d, e
      <4>. QED BY <2>1, <3>0, <3>2, <4>1
    <3>5. img.len = 32768 * 2 ^ V!RomCode(img)
      <4>1. ~p => d = V!Bad("size matches header")
        <5>. HIDE DEF p
        <5>. QED BY DEF V!Judge
      <4>2. p
        <5>. HIDE DEF a, b, c, d, e, p
        <5>. QED BY <2>1, <3>0, <3>2, <4>1
      <4>. QED BY <4>2
    <3>. QED BY <1>0, <3>1, <3>3, <3>4, <3>5 DEF V!IsImage
  <2>3. /\ ~V!CutShort(img, want) /\ ~V!OneByteOff(img, want)
        /\ \A k \in 0 .. 7, high \in BOOLEAN : img # V!Stuck(want, k, high)
    BY <1>0, <1>3, <2>2, RomClears
  <2>. QED BY <1>0, <1>2, <1>3, <2>3 DEF V!Shows
<1>4. CASE n.ext = ".lyx"
  <2>1. V!verify_lyx(img) \subseteq V!verify(files, n, ref) BY <1>0, <1>4 DEF V!verify
  <2>2. img.len = 256 * 2048 /\ V!Cardinality(V!Pieces(img, 2048)) # 1
    <3>0. \A x : ~(V!Bad(x) \subseteq V!verify(files, n, ref)) BY <1>1 DEF V!Bad
    <3>1. \A x : V!verify_lyx(img) # V!Bad(x) BY <2>1, <3>0
    <3>2. img.len # 256 * 2048 => V!verify_lyx(img) = V!Bad("256 blocks of 2048 bytes")
      BY DEF V!verify_lyx
    <3>3. ASSUME V!Cardinality(V!Pieces(img, 2048)) = 1
          PROVE  \E x : V!verify_lyx(img) = V!Bad(x)
      <4> DEFINE p == img.len # 256 * 2048
                 a == V!Bad("256 blocks of 2048 bytes")
                 b == V!Bad("cartridge data")
                 c == V!Bad("every block identical")
                 one == V!Cardinality(V!Values(img)) = 1
      <4>1. V!verify_lyx(img) = IF p THEN a ELSE IF one THEN b ELSE c
        BY <3>3 DEF V!verify_lyx
      <4>2. \A y \in {a, b, c} : \E x : y = V!Bad(x) OBVIOUS
      <4>. HIDE DEF a, b, c, p, one
      <4>. QED BY <4>1, <4>2
    <3>4. img.len = 256 * 2048
      <4> DEFINE a == V!Bad("256 blocks of 2048 bytes")
                 b == V!verify_lyx(img)
      <4>1. b # a BY <3>1
      <4>2. img.len # 256 * 2048 => b = a BY <3>2
      <4>. HIDE DEF a, b
      <4>. QED BY <4>1, <4>2
    <3>5. V!Cardinality(V!Pieces(img, 2048)) # 1 BY <3>1, <3>3
    <3>. QED BY <3>4, <3>5
  <2>. QED BY <1>0, <1>2, <1>4, <2>2 DEF V!Shows, V!Repeats, V!WellMade
<1>5. CASE n.ext = ".sav"
  <2>1. V!verify_sav(files, n, img) \subseteq V!verify(files, n, ref) BY <1>0, <1>5 DEF V!verify
  <2>2. img.len \in V!LengthsBeside(files, n) BY <1>1, <2>1, SaveFits
  <2>3. img.len > V!BANK => V!Cardinality(V!Pieces(img, V!BANK)) > 1
    <3>1. V!When(img.len > V!BANK, V!Judge("banks differ from each other", V!Cardinality(V!Pieces(img, V!BANK)) > 1))
            \subseteq V!verify(files, n, ref)
      BY <2>1 DEF V!verify_sav
    <3>. QED BY <1>1, <3>1 DEF V!When, V!Judge, V!Bad
  <2>. QED BY <1>0, <1>2, <1>5, <2>2, <2>3 DEF V!Shows, V!Repeats
<1>6. CASE n.ext \notin {".gb", ".gbc", ".lyx", ".sav"}
  BY <1>0, <1>2, <1>6 DEF V!Shows
<1>. QED BY <1>3, <1>4, <1>5, <1>6

\* The bits of a byte, and the byte that they make up.
Bit(x, w) == (x \div w) % 2

\* What a shift takes away.
LEMMA Halved ==
  ASSUME NEW n \in Int, NEW q \in Int, q = n \div 2, NEW r \in Int, r = n % 2
  PROVE  n = 2 * q + r
OBVIOUS

\* A bit.
LEMMA ZeroOrOne ==
  ASSUME NEW n \in Int, NEW r \in Int, r = n % 2
  PROVE  r \in {0, 1}
OBVIOUS

\* A byte is its bits.
LEMMA BitsMakeTheByte ==
  ASSUME NEW x \in V!Byte
  PROVE  /\ x = Bit(x, 1) + 2 * Bit(x, 2) + 4 * Bit(x, 4) + 8 * Bit(x, 8)
                + 16 * Bit(x, 16) + 32 * Bit(x, 32) + 64 * Bit(x, 64) + 128 * Bit(x, 128)
         /\ Bit(x, 1) \in {0, 1} /\ Bit(x, 2) \in {0, 1} /\ Bit(x, 4) \in {0, 1}
         /\ Bit(x, 8) \in {0, 1} /\ Bit(x, 16) \in {0, 1} /\ Bit(x, 32) \in {0, 1}
         /\ Bit(x, 64) \in {0, 1} /\ Bit(x, 128) \in {0, 1}
<1>0. x \in 0 .. 255 BY DEF V!Byte
<1> DEFINE x1 == x \div 2
           x2 == x \div 4
           x3 == x \div 8
           x4 == x \div 16
           x5 == x \div 32
           x6 == x \div 64
           x7 == x \div 128
           b0 == Bit(x, 1)
           b1 == Bit(x, 2)
           b2 == Bit(x, 4)
           b3 == Bit(x, 8)
           b4 == Bit(x, 16)
           b5 == Bit(x, 32)
           b6 == Bit(x, 64)
           b7 == Bit(x, 128)
<1>1. /\ x1 \in 0 .. 127 /\ x2 \in 0 .. 63 /\ x3 \in 0 .. 31 /\ x4 \in 0 .. 15
      /\ x5 \in 0 .. 7 /\ x6 \in 0 .. 3 /\ x7 \in 0 .. 1
  BY <1>0
<1>3. x \div 1 = x BY <1>0
<1>4. /\ b0 \in Int /\ b1 \in Int /\ b2 \in Int /\ b3 \in Int
      /\ b4 \in Int /\ b5 \in Int /\ b6 \in Int /\ b7 \in Int
  BY <1>0, <1>1, <1>3 DEF Bit
<1>5. /\ x \in Int /\ x1 \in Int /\ x2 \in Int /\ x3 \in Int
      /\ x4 \in Int /\ x5 \in Int /\ x6 \in Int /\ x7 \in Int
  BY <1>0, <1>1
<1>6. x = 2 * x1 + b0 /\ b0 \in {0, 1}
  <2>1. x1 = x \div 2 BY <1>0
  <2>2. b0 = x % 2 BY <1>3 DEF Bit
  <2>. HIDE DEF x1, x2, x3, x4, x5, x6, x7, b0, b1, b2, b3, b4, b5, b6, b7
  <2>. QED BY <1>4, <1>5, <2>1, <2>2, Halved, ZeroOrOne, Zenon
<1>7. x1 = 2 * x2 + b1 /\ b1 \in {0, 1}
  <2>1. x2 = x1 \div 2 BY <1>0
  <2>2. b1 = x1 % 2 BY <1>3 DEF Bit
  <2>. HIDE DEF x1, x2, x3, x4, x5, x6, x7, b0, b1, b2, b3, b4, b5, b6, b7
  <2>. QED BY <1>4, <1>5, <2>1, <2>2, Halved, ZeroOrOne, Zenon
<1>8. x2 = 2 * x3 + b2 /\ b2 \in {0, 1}
  <2>1. x3 = x2 \div 2 BY <1>0
  <2>2. b2 = x2 % 2 BY <1>3 DEF Bit
  <2>. HIDE DEF x1, x2, x3, x4, x5, x6, x7, b0, b1, b2, b3, b4, b5, b6, b7
  <2>. QED BY <1>4, <1>5, <2>1, <2>2, Halved, ZeroOrOne, Zenon
<1>9. x3 = 2 * x4 + b3 /\ b3 \in {0, 1}
  <2>1. x4 = x3 \div 2 BY <1>0
  <2>2. b3 = x3 % 2 BY <1>3 DEF Bit
  <2>. HIDE DEF x1, x2, x3, x4, x5, x6, x7, b0, b1, b2, b3, b4, b5, b6, b7
  <2>. QED BY <1>4, <1>5, <2>1, <2>2, Halved, ZeroOrOne, Zenon
<1>10. x4 = 2 * x5 + b4 /\ b4 \in {0, 1}
  <2>1. x5 = x4 \div 2 BY <1>0
  <2>2. b4 = x4 % 2 BY <1>3 DEF Bit
  <2>. HIDE DEF x1, x2, x3, x4, x5, x6, x7, b0, b1, b2, b3, b4, b5, b6, b7
  <2>. QED BY <1>4, <1>5, <2>1, <2>2, Halved, ZeroOrOne, Zenon
<1>11. x5 = 2 * x6 + b5 /\ b5 \in {0, 1}
  <2>1. x6 = x5 \div 2 BY <1>0
  <2>2. b5 = x5 % 2 BY <1>3 DEF Bit
  <2>. HIDE DEF x1, x2, x3, x4, x5, x6, x7, b0, b1, b2, b3, b4, b5, b6, b7
  <2>. QED BY <1>4, <1>5, <2>1, <2>2, Halved, ZeroOrOne, Zenon
<1>12. x6 = 2 * x7 + b6 /\ b6 \in {0, 1}
  <2>1. x7 = x6 \div 2 BY <1>0
  <2>2. b6 = x6 % 2 BY <1>3 DEF Bit
  <2>. HIDE DEF x1, x2, x3, x4, x5, x6, x7, b0, b1, b2, b3, b4, b5, b6, b7
  <2>. QED BY <1>4, <1>5, <2>1, <2>2, Halved, ZeroOrOne, Zenon
<1>13. x7 = b7 /\ b7 \in {0, 1}
  <2>1. b7 = x7 % 2 BY DEF Bit
  <2>. HIDE DEF x7, b7
  <2>. QED BY <1>1, <2>1
<1>. HIDE DEF x1, x2, x3, x4, x5, x6, x7, b0, b1, b2, b3, b4, b5, b6, b7
<1>14. x = b0 + 2 * b1 + 4 * b2 + 8 * b3 + 16 * b4 + 32 * b5 + 64 * b6 + 128 * b7
  BY <1>4, <1>5, <1>6, <1>7, <1>8, <1>9, <1>10, <1>11, <1>12, <1>13
<1>. QED
  BY <1>6, <1>7, <1>8, <1>9, <1>10, <1>11, <1>12, <1>13, <1>14, Zenon
  DEF b0, b1, b2, b3, b4, b5, b6, b7

\* The bits of a byte, by the weight of each line.
LEMMA BitsAre ==
  ASSUME NEW x \in V!Byte
  PROVE  /\ V!Bits(x) \subseteq 0 .. 7
         /\ 0 \in V!Bits(x) <=> Bit(x, 1) = 1
         /\ 1 \in V!Bits(x) <=> Bit(x, 2) = 1
         /\ 2 \in V!Bits(x) <=> Bit(x, 4) = 1
         /\ 3 \in V!Bits(x) <=> Bit(x, 8) = 1
         /\ 4 \in V!Bits(x) <=> Bit(x, 16) = 1
         /\ 5 \in V!Bits(x) <=> Bit(x, 32) = 1
         /\ 6 \in V!Bits(x) <=> Bit(x, 64) = 1
         /\ 7 \in V!Bits(x) <=> Bit(x, 128) = 1
<1>1. 2 ^ 0 = 1 /\ 2 ^ 1 = 2 /\ 2 ^ 2 = 4 /\ 2 ^ 3 = 8 /\ 2 ^ 4 = 16 /\ 2 ^ 5 = 32 /\ 2 ^ 6 = 64 /\ 2 ^ 7 = 128
  OBVIOUS
<1>2. \A k : k \in V!Bits(x) <=> k \in 0 .. 7 /\ Bit(x, 2 ^ k) = 1 BY DEF V!Bits, Bit
<1>3. /\ 0 \in 0 .. 7 /\ 1 \in 0 .. 7 /\ 2 \in 0 .. 7 /\ 3 \in 0 .. 7
      /\ 4 \in 0 .. 7 /\ 5 \in 0 .. 7 /\ 6 \in 0 .. 7 /\ 7 \in 0 .. 7 OBVIOUS
<1>4. /\ 0 \in V!Bits(x) <=> Bit(x, 2 ^ 0) = 1
      /\ 1 \in V!Bits(x) <=> Bit(x, 2 ^ 1) = 1
      /\ 2 \in V!Bits(x) <=> Bit(x, 2 ^ 2) = 1
      /\ 3 \in V!Bits(x) <=> Bit(x, 2 ^ 3) = 1
      /\ 4 \in V!Bits(x) <=> Bit(x, 2 ^ 4) = 1
      /\ 5 \in V!Bits(x) <=> Bit(x, 2 ^ 5) = 1
      /\ 6 \in V!Bits(x) <=> Bit(x, 2 ^ 6) = 1
      /\ 7 \in V!Bits(x) <=> Bit(x, 2 ^ 7) = 1
  BY <1>2, <1>3
<1>5. V!Bits(x) \subseteq 0 .. 7 BY DEF V!Bits
<1>. QED BY <1>1, <1>4, <1>5

\* With a line held high two bytes read the same when they differ on no other.
Raised(byte, k) == IF k \in V!Bits(byte) THEN byte ELSE byte + 2 ^ k

\* Two bytes differ on no line but one when they are the same with that one high.
LEMMA RaisedAgree ==
  ASSUME NEW x \in V!Byte, NEW y \in V!Byte, NEW k \in 0 .. 7
  PROVE  Raised(x, k) = Raised(y, k) <=> V!Differing(x, y) \subseteq {k}
<1> DEFINE a0 == Bit(x, 1)
           a1 == Bit(x, 2)
           a2 == Bit(x, 4)
           a3 == Bit(x, 8)
           a4 == Bit(x, 16)
           a5 == Bit(x, 32)
           a6 == Bit(x, 64)
           a7 == Bit(x, 128)
           b0 == Bit(y, 1)
           b1 == Bit(y, 2)
           b2 == Bit(y, 4)
           b3 == Bit(y, 8)
           b4 == Bit(y, 16)
           b5 == Bit(y, 32)
           b6 == Bit(y, 64)
           b7 == Bit(y, 128)
<1>1. /\ x = a0 + 2 * a1 + 4 * a2 + 8 * a3 + 16 * a4 + 32 * a5 + 64 * a6 + 128 * a7
      /\ a0 \in {0, 1} /\ a1 \in {0, 1} /\ a2 \in {0, 1} /\ a3 \in {0, 1}
      /\ a4 \in {0, 1} /\ a5 \in {0, 1} /\ a6 \in {0, 1} /\ a7 \in {0, 1}
  BY BitsMakeTheByte
<1>2. /\ y = b0 + 2 * b1 + 4 * b2 + 8 * b3 + 16 * b4 + 32 * b5 + 64 * b6 + 128 * b7
      /\ b0 \in {0, 1} /\ b1 \in {0, 1} /\ b2 \in {0, 1} /\ b3 \in {0, 1}
      /\ b4 \in {0, 1} /\ b5 \in {0, 1} /\ b6 \in {0, 1} /\ b7 \in {0, 1}
  BY BitsMakeTheByte
<1>3. /\ 0 \in V!Bits(x) <=> a0 = 1
      /\ 1 \in V!Bits(x) <=> a1 = 1
      /\ 2 \in V!Bits(x) <=> a2 = 1
      /\ 3 \in V!Bits(x) <=> a3 = 1
      /\ 4 \in V!Bits(x) <=> a4 = 1
      /\ 5 \in V!Bits(x) <=> a5 = 1
      /\ 6 \in V!Bits(x) <=> a6 = 1
      /\ 7 \in V!Bits(x) <=> a7 = 1
  BY BitsAre
<1>4. /\ 0 \in V!Bits(y) <=> b0 = 1
      /\ 1 \in V!Bits(y) <=> b1 = 1
      /\ 2 \in V!Bits(y) <=> b2 = 1
      /\ 3 \in V!Bits(y) <=> b3 = 1
      /\ 4 \in V!Bits(y) <=> b4 = 1
      /\ 5 \in V!Bits(y) <=> b5 = 1
      /\ 6 \in V!Bits(y) <=> b6 = 1
      /\ 7 \in V!Bits(y) <=> b7 = 1
  BY BitsAre
<1>. HIDE DEF a0, a1, a2, a3, a4, a5, a6, a7, b0, b1, b2, b3, b4, b5, b6, b7
<1>5. V!Differing(x, y) \subseteq 0 .. 7 BY BitsAre DEF V!Differing
<1>6. V!Differing(x, y) \subseteq {k} <=>
        /\ k = 0 \/ a0 = b0
        /\ k = 1 \/ a1 = b1
        /\ k = 2 \/ a2 = b2
        /\ k = 3 \/ a3 = b3
        /\ k = 4 \/ a4 = b4
        /\ k = 5 \/ a5 = b5
        /\ k = 6 \/ a6 = b6
        /\ k = 7 \/ a7 = b7
  <2>1. /\ 0 \in V!Differing(x, y) <=> a0 # b0
        /\ 1 \in V!Differing(x, y) <=> a1 # b1
        /\ 2 \in V!Differing(x, y) <=> a2 # b2
        /\ 3 \in V!Differing(x, y) <=> a3 # b3
        /\ 4 \in V!Differing(x, y) <=> a4 # b4
        /\ 5 \in V!Differing(x, y) <=> a5 # b5
        /\ 6 \in V!Differing(x, y) <=> a6 # b6
        /\ 7 \in V!Differing(x, y) <=> a7 # b7
    BY <1>1, <1>2, <1>3, <1>4 DEF V!Differing
  <2>2. \A d : d \in V!Differing(x, y) =>
          d = 0 \/ d = 1 \/ d = 2 \/ d = 3 \/ d = 4 \/ d = 5 \/ d = 6 \/ d = 7
    BY <1>5
  <2>. QED BY <2>1, <2>2
<1>7. Raised(x, k) = Raised(y, k) <=>
        /\ k = 0 \/ a0 = b0
        /\ k = 1 \/ a1 = b1
        /\ k = 2 \/ a2 = b2
        /\ k = 3 \/ a3 = b3
        /\ k = 4 \/ a4 = b4
        /\ k = 5 \/ a5 = b5
        /\ k = 6 \/ a6 = b6
        /\ k = 7 \/ a7 = b7
  <2>1. k = 0 \/ k = 1 \/ k = 2 \/ k = 3 \/ k = 4 \/ k = 5 \/ k = 6 \/ k = 7 OBVIOUS
  <2>2. 2 ^ 0 = 1 /\ 2 ^ 1 = 2 /\ 2 ^ 2 = 4 /\ 2 ^ 3 = 8 /\ 2 ^ 4 = 16 /\ 2 ^ 5 = 32 /\ 2 ^ 6 = 64 /\ 2 ^ 7 = 128
    OBVIOUS
  <2> DEFINE Same(m) ==
        IF m = 0 THEN a1 = b1 /\ a2 = b2 /\ a3 = b3 /\ a4 = b4 /\ a5 = b5 /\ a6 = b6 /\ a7 = b7
        ELSE TRUE
  <2>3. CASE k = 0
    <3>1. Raised(x, k) = x + (1 - a0) /\ Raised(y, k) = y + (1 - b0)
      BY <1>1, <1>2, <1>3, <1>4, <2>2, <2>3 DEF Raised
    <3>. QED BY <1>1, <1>2, <2>3, <3>1
  <2>4. CASE k = 1
    <3>1. Raised(x, k) = x + 2 * (1 - a1) /\ Raised(y, k) = y + 2 * (1 - b1)
      BY <1>1, <1>2, <1>3, <1>4, <2>2, <2>4 DEF Raised
    <3>. QED BY <1>1, <1>2, <2>4, <3>1
  <2>5. CASE k = 2
    <3>1. Raised(x, k) = x + 4 * (1 - a2) /\ Raised(y, k) = y + 4 * (1 - b2)
      BY <1>1, <1>2, <1>3, <1>4, <2>2, <2>5 DEF Raised
    <3>. QED BY <1>1, <1>2, <2>5, <3>1
  <2>6. CASE k = 3
    <3>1. Raised(x, k) = x + 8 * (1 - a3) /\ Raised(y, k) = y + 8 * (1 - b3)
      BY <1>1, <1>2, <1>3, <1>4, <2>2, <2>6 DEF Raised
    <3>. QED BY <1>1, <1>2, <2>6, <3>1
  <2>7. CASE k = 4
    <3>1. Raised(x, k) = x + 16 * (1 - a4) /\ Raised(y, k) = y + 16 * (1 - b4)
      BY <1>1, <1>2, <1>3, <1>4, <2>2, <2>7 DEF Raised
    <3>. QED BY <1>1, <1>2, <2>7, <3>1
  <2>8. CASE k = 5
    <3>1. Raised(x, k) = x + 32 * (1 - a5) /\ Raised(y, k) = y + 32 * (1 - b5)
      BY <1>1, <1>2, <1>3, <1>4, <2>2, <2>8 DEF Raised
    <3>. QED BY <1>1, <1>2, <2>8, <3>1
  <2>9. CASE k = 6
    <3>1. Raised(x, k) = x + 64 * (1 - a6) /\ Raised(y, k) = y + 64 * (1 - b6)
      BY <1>1, <1>2, <1>3, <1>4, <2>2, <2>9 DEF Raised
    <3>. QED BY <1>1, <1>2, <2>9, <3>1
  <2>10. CASE k = 7
    <3>1. Raised(x, k) = x + 128 * (1 - a7) /\ Raised(y, k) = y + 128 * (1 - b7)
      BY <1>1, <1>2, <1>3, <1>4, <2>2, <2>10 DEF Raised
    <3>. QED BY <1>1, <1>2, <2>10, <3>1
  <2>. QED BY <2>1, <2>3, <2>4, <2>5, <2>6, <2>7, <2>8, <2>9, <2>10
<1>. QED BY <1>6, <1>7

\* A read with a line held high, byte by byte.
HeldHigh(img, k) == V!Stuck(img, k, TRUE)

\* An image with one line high throughout.
LEMMA StuckIs ==
  ASSUME NEW img, V!IsImage(img), NEW k \in 0 .. 7, NEW st, st = HeldHigh(img, k)
  PROVE  /\ st.len = img.len /\ st.fill = Raised(img.fill, k)
         /\ st.at = [o \in {d \in DOMAIN img.at : Raised(img.at[d], k) # Raised(img.fill, k)} |->
                       Raised(img.at[o], k)]
         /\ st = [len |-> st.len, fill |-> st.fill, at |-> st.at]
<1> DEFINE by(byte) == IF TRUE = (k \in V!Bits(byte)) THEN byte
                       ELSE IF TRUE THEN byte + 2 ^ k ELSE byte - 2 ^ k
<1>1. img = [len |-> img.len, fill |-> img.fill, at |-> img.at] BY DEF V!IsImage
<1>2. \A byte : by(byte) = Raised(byte, k) BY DEF Raised
<1>3. /\ st.len = img.len /\ st.fill = by(img.fill)
      /\ st.at = [o \in {d \in DOMAIN img.at : by(img.at[d]) # by(img.fill)} |-> by(img.at[o])]
      /\ st = [len |-> st.len, fill |-> st.fill, at |-> st.at]
  BY <1>1 DEF HeldHigh, V!Stuck
<1>. HIDE DEF by
<1>4. st.fill = Raised(img.fill, k) BY <1>2, <1>3
<1>5. st.at = [o \in {d \in DOMAIN img.at : Raised(img.at[d], k) # Raised(img.fill, k)} |->
                 Raised(img.at[o], k)]
  BY <1>2, <1>3
<1>. QED BY <1>3, <1>4, <1>5

\* Each of its bytes.
LEMMA StuckBytes ==
  ASSUME NEW img, V!IsImage(img), NEW k \in 0 .. 7
  PROVE  /\ HeldHigh(img, k).fill = Raised(img.fill, k)
         /\ \A o : V!ByteAt(HeldHigh(img, k), o) = Raised(V!ByteAt(img, o), k)
<1>1. PICK st : st = HeldHigh(img, k) OBVIOUS
<1>2. st.fill = Raised(img.fill, k) BY <1>1, StuckIs
<1>3. st.at = [o \in {d \in DOMAIN img.at : Raised(img.at[d], k) # Raised(img.fill, k)} |->
                 Raised(img.at[o], k)]
  BY <1>1, StuckIs
<1>4. ASSUME NEW o PROVE V!ByteAt(st, o) = Raised(V!ByteAt(img, o), k)
  BY <1>2, <1>3 DEF V!ByteAt
<1>. QED BY <1>1, <1>2, <1>4

\* Two images are one when their bytes are.
LEMMA SameBytes ==
  ASSUME NEW a, V!IsImage(a), NEW b, V!IsImage(b), a.len = b.len, a.fill = b.fill,
         \A o : V!ByteAt(a, o) = V!ByteAt(b, o)
  PROVE  a = b
<1>1. \A o : o \in DOMAIN a.at <=> V!ByteAt(a, o) # a.fill BY DEF V!ByteAt, V!IsImage
<1>2. \A o : o \in DOMAIN b.at <=> V!ByteAt(b, o) # b.fill BY DEF V!ByteAt, V!IsImage
<1>3. DOMAIN a.at = DOMAIN b.at BY <1>1, <1>2
<1>4. \A o \in DOMAIN a.at : a.at[o] = b.at[o] BY <1>3 DEF V!ByteAt
<1>5. a.at = b.at BY <1>3, <1>4 DEF V!IsImage
<1>. QED BY <1>5 DEF V!IsImage

\* The lines on which two reads differ are found, the ones of their fill among them.
LEMMA DiffersAnywhere ==
  ASSUME NEW a, V!IsImage(a), NEW b, V!IsImage(b), a.len = b.len
  PROVE  /\ V!DiffBits(a, b) \subseteq 0 .. 7 /\ V!IsFiniteSet(V!DiffBits(a, b))
         /\ \A k : V!DiffBits(a, b) \subseteq {k} <=>
              /\ \A o : V!Differing(V!ByteAt(a, o), V!ByteAt(b, o)) \subseteq {k}
              /\ V!Differing(a.fill, b.fill) \subseteq {k}
         /\ a # b => V!DiffBits(a, b) # {}
<1> DEFINE own == DOMAIN a.at \cup DOMAIN b.at
           diff == UNION {V!Differing(V!ByteAt(a, o), V!ByteAt(b, o)) : o \in own}
<1>1. V!Cardinality(own) < a.len
  <2> DEFINE all == 0 .. a.len - 1
             x == DOMAIN a.at
             y == DOMAIN b.at
  <2>1. V!IsFiniteSet(all)
    <3>1. 0 \in Int /\ a.len - 1 \in Int BY DEF V!IsImage
    <3>. QED BY <3>1, VFS_Interval
  <2>2. x \in SUBSET all /\ y \in SUBSET all BY DEF V!IsImage
  <2>3. 2 * V!Cardinality(x) < a.len /\ 2 * V!Cardinality(y) < a.len /\ a.len \in Nat BY DEF V!IsImage
  <2>. HIDE DEF all, x, y
  <2>4. V!IsFiniteSet(x) /\ V!IsFiniteSet(y) /\ V!IsFiniteSet(x \cap y) BY <2>1, <2>2, VFS_Subset
  <2>5. V!Cardinality(x \cup y) = V!Cardinality(x) + V!Cardinality(y) - V!Cardinality(x \cap y)
    BY <2>4, VFS_Union
  <2>6. V!Cardinality(x) \in Nat /\ V!Cardinality(y) \in Nat /\ V!Cardinality(x \cap y) \in Nat
    BY <2>4, VFS_CardinalityType
  <2>7. V!Cardinality(x \cup y) < a.len BY <2>3, <2>5, <2>6
  <2>. QED BY <2>7 DEF x, y
<1>2. V!DiffBits(a, b) = diff \cup V!Differing(a.fill, b.fill)
  <2> DEFINE p == V!Cardinality(own) < a.len
             some == V!When(p, V!Differing(a.fill, b.fill))
  <2>1. some = V!Differing(a.fill, b.fill)
    <3>1. p BY <1>1
    <3>. HIDE DEF p
    <3>. QED BY <3>1 DEF V!When
  <2>2. V!DiffBits(a, b) = diff \cup some BY DEF V!DiffBits
  <2>. HIDE DEF some, diff
  <2>. QED BY <2>1, <2>2
<1>3. \A x, y : V!Differing(x, y) \subseteq 0 .. 7 BY DEF V!Differing, V!Bits
<1>4. diff \subseteq 0 .. 7 BY <1>3
<1>5. V!DiffBits(a, b) \subseteq 0 .. 7 BY <1>2, <1>3, <1>4
<1>6. V!IsFiniteSet(V!DiffBits(a, b))
  <2>1. V!IsFiniteSet(0 .. 7)
    <3>1. 0 \in Int /\ 7 \in Int OBVIOUS
    <3>. QED BY <3>1, VFS_Interval
  <2>. QED BY <1>5, <2>1, VFS_Subset
<1>7. ASSUME NEW k
      PROVE  V!DiffBits(a, b) \subseteq {k} <=>
               /\ \A o : V!Differing(V!ByteAt(a, o), V!ByteAt(b, o)) \subseteq {k}
               /\ V!Differing(a.fill, b.fill) \subseteq {k}
  <2>1. diff \subseteq {k} <=> \A o \in own : V!Differing(V!ByteAt(a, o), V!ByteAt(b, o)) \subseteq {k}
    OBVIOUS
  <2>2. \A o : o \notin own => V!Differing(V!ByteAt(a, o), V!ByteAt(b, o)) = V!Differing(a.fill, b.fill)
    BY DEF V!ByteAt
  <2>. HIDE DEF own, diff
  <2>. QED BY <1>2, <2>1, <2>2
<1>8. ASSUME V!DiffBits(a, b) = {} PROVE a = b
  <2>1. \A x, y \in V!Byte : V!Differing(x, y) = {} => x = y
    <3>1. ASSUME NEW x \in V!Byte, NEW y \in V!Byte, V!Differing(x, y) = {} PROVE x = y
      <4>1. V!Bits(x) = V!Bits(y) BY <3>1 DEF V!Differing
      <4>2. /\ x = Bit(x, 1) + 2 * Bit(x, 2) + 4 * Bit(x, 4) + 8 * Bit(x, 8)
                + 16 * Bit(x, 16) + 32 * Bit(x, 32) + 64 * Bit(x, 64) + 128 * Bit(x, 128)
            /\ Bit(x, 1) \in {0, 1} /\ Bit(x, 2) \in {0, 1} /\ Bit(x, 4) \in {0, 1}
            /\ Bit(x, 8) \in {0, 1} /\ Bit(x, 16) \in {0, 1} /\ Bit(x, 32) \in {0, 1}
            /\ Bit(x, 64) \in {0, 1} /\ Bit(x, 128) \in {0, 1}
        BY BitsMakeTheByte
      <4>3. /\ y = Bit(y, 1) + 2 * Bit(y, 2) + 4 * Bit(y, 4) + 8 * Bit(y, 8)
                + 16 * Bit(y, 16) + 32 * Bit(y, 32) + 64 * Bit(y, 64) + 128 * Bit(y, 128)
            /\ Bit(y, 1) \in {0, 1} /\ Bit(y, 2) \in {0, 1} /\ Bit(y, 4) \in {0, 1}
            /\ Bit(y, 8) \in {0, 1} /\ Bit(y, 16) \in {0, 1} /\ Bit(y, 32) \in {0, 1}
            /\ Bit(y, 64) \in {0, 1} /\ Bit(y, 128) \in {0, 1}
        BY BitsMakeTheByte
      <4>4. /\ Bit(x, 1) = 1 <=> Bit(y, 1) = 1
            /\ Bit(x, 2) = 1 <=> Bit(y, 2) = 1
            /\ Bit(x, 4) = 1 <=> Bit(y, 4) = 1
            /\ Bit(x, 8) = 1 <=> Bit(y, 8) = 1
            /\ Bit(x, 16) = 1 <=> Bit(y, 16) = 1
            /\ Bit(x, 32) = 1 <=> Bit(y, 32) = 1
            /\ Bit(x, 64) = 1 <=> Bit(y, 64) = 1
            /\ Bit(x, 128) = 1 <=> Bit(y, 128) = 1
        BY <4>1, BitsAre
      <4>5. /\ Bit(x, 1) = Bit(y, 1) /\ Bit(x, 2) = Bit(y, 2) /\ Bit(x, 4) = Bit(y, 4)
            /\ Bit(x, 8) = Bit(y, 8) /\ Bit(x, 16) = Bit(y, 16) /\ Bit(x, 32) = Bit(y, 32)
            /\ Bit(x, 64) = Bit(y, 64) /\ Bit(x, 128) = Bit(y, 128)
        BY <4>2, <4>3, <4>4
      <4>. QED BY <4>2, <4>3, <4>5
    <3>. QED BY <3>1
  <2>2. V!Differing(a.fill, b.fill) = {} BY <1>2, <1>8
  <2>3. \A o : V!Differing(V!ByteAt(a, o), V!ByteAt(b, o)) = {}
    <3>1. \A o \in own : V!Differing(V!ByteAt(a, o), V!ByteAt(b, o)) = {} BY <1>2, <1>8
    <3>2. \A o : o \notin own => V!Differing(V!ByteAt(a, o), V!ByteAt(b, o)) = V!Differing(a.fill, b.fill)
      BY DEF V!ByteAt
    <3>. QED BY <2>2, <3>1, <3>2
  <2>4. a.fill \in V!Byte /\ b.fill \in V!Byte BY DEF V!IsImage
  <2>5. \A o : V!ByteAt(a, o) = V!ByteAt(b, o) BY <2>1, <2>3, ByteAtType
  <2>. QED BY <2>1, <2>2, <2>4, <2>5, SameBytes
<1>. QED BY <1>5, <1>6, <1>7, <1>8

\* The line that a comparison names is the one that explains every difference.
LEMMA NamedIsStuck ==
  ASSUME NEW a, V!IsImage(a), NEW b, V!IsImage(b), a.len = b.len, a # b, NEW k \in 0 .. 7
  PROVE  V!DiffBits(a, b) = {k} <=> HeldHigh(a, k) = HeldHigh(b, k)
<1> DEFINE alike == /\ \A o : Raised(V!ByteAt(a, o), k) = Raised(V!ByteAt(b, o), k)
                    /\ Raised(a.fill, k) = Raised(b.fill, k)
<1>1. V!DiffBits(a, b) = {k} <=> V!DiffBits(a, b) \subseteq {k}
  <2>1. V!DiffBits(a, b) # {} BY DiffersAnywhere
  <2>. QED BY <2>1
<1>2. V!DiffBits(a, b) \subseteq {k} <=>
        /\ \A o : V!Differing(V!ByteAt(a, o), V!ByteAt(b, o)) \subseteq {k}
        /\ V!Differing(a.fill, b.fill) \subseteq {k}
  BY DiffersAnywhere
<1>3. a.fill \in V!Byte /\ b.fill \in V!Byte /\ \A o : V!ByteAt(a, o) \in V!Byte /\ V!ByteAt(b, o) \in V!Byte
  BY ByteAtType DEF V!IsImage
<1>4. V!DiffBits(a, b) = {k} <=> alike
  BY <1>1, <1>2, <1>3, RaisedAgree
<1>5. ASSUME alike PROVE HeldHigh(a, k) = HeldHigh(b, k)
  <2> DEFINE A == {d \in DOMAIN a.at : Raised(a.at[d], k) # Raised(a.fill, k)}
             B == {d \in DOMAIN b.at : Raised(b.at[d], k) # Raised(b.fill, k)}
  <2>1. \A o : o \in A <=> Raised(V!ByteAt(a, o), k) # Raised(a.fill, k) BY DEF V!ByteAt
  <2>2. \A o : o \in B <=> Raised(V!ByteAt(b, o), k) # Raised(b.fill, k) BY DEF V!ByteAt
  <2>3. A = B BY <1>5, <2>1, <2>2
  <2>4. \A o \in A : Raised(a.at[o], k) = Raised(b.at[o], k)
    <3>1. \A o \in A : V!ByteAt(a, o) = a.at[o] BY DEF V!ByteAt
    <3>2. \A o \in B : V!ByteAt(b, o) = b.at[o] BY DEF V!ByteAt
    <3>. HIDE DEF A, B
    <3>. QED BY <1>5, <2>3, <3>1, <3>2
  <2>5. [o \in A |-> Raised(a.at[o], k)] = [o \in B |-> Raised(b.at[o], k)]
    <3>. HIDE DEF A, B
    <3>. QED BY <2>3, <2>4
  <2> DEFINE x == HeldHigh(a, k)
             y == HeldHigh(b, k)
  <2>6. /\ x.len = a.len /\ x.fill = Raised(a.fill, k) /\ x.at = [o \in A |-> Raised(a.at[o], k)]
        /\ x = [len |-> x.len, fill |-> x.fill, at |-> x.at]
    <3>. HIDE DEF x
    <3>1. x = HeldHigh(a, k) BY DEF x
    <3>. QED BY <3>1, StuckIs
  <2>7. /\ y.len = b.len /\ y.fill = Raised(b.fill, k) /\ y.at = [o \in B |-> Raised(b.at[o], k)]
        /\ y = [len |-> y.len, fill |-> y.fill, at |-> y.at]
    <3>. HIDE DEF y
    <3>1. y = HeldHigh(b, k) BY DEF y
    <3>. QED BY <3>1, StuckIs
  <2>8. x = y
    <3>. HIDE DEF A, B, x, y
    <3>. QED BY <1>5, <2>5, <2>6, <2>7
  <2>. QED BY <2>8
<1>6. ASSUME HeldHigh(a, k) = HeldHigh(b, k) PROVE alike
  <2> DEFINE x == HeldHigh(a, k)
             y == HeldHigh(b, k)
  <2>1. (\A o : V!ByteAt(x, o) = Raised(V!ByteAt(a, o), k)) /\ x.fill = Raised(a.fill, k)
    BY StuckBytes
  <2>2. (\A o : V!ByteAt(y, o) = Raised(V!ByteAt(b, o), k)) /\ y.fill = Raised(b.fill, k)
    BY StuckBytes
  <2>3. x = y BY <1>6
  <2>. HIDE DEF x, y
  <2>. QED BY <2>1, <2>2, <2>3
<1>. QED BY <1>4, <1>5, <1>6

\* The files that were verified, and where main is among them.
Done == Len(args.files) - Len(vleft)

CardIsRead ==
  /\ DOMAIN card = Names /\ \A n \in Names : card[n] = NoFile \/ V!IsImage(card[n])
ArgsAreReal ==
  /\ args.files \in Seq(Names)
  /\ args.compare = <<>> \/ args.compare \in Names \X Names
  /\ \A i \in DOMAIN args.files :
       V!IsImage(truth[args.files[i]]) /\ V!WellMade(args.files[i], truth[args.files[i]])
WhereMainIs ==
  /\ failures \in Nat
  /\ vleft \in Seq(Names) /\ Len(vleft) <= Len(args.files)
  /\ \A j \in 1 .. Len(vleft) : vleft[j] = args.files[Done + j]
  /\ vpc \in {"parse", "compare", "verify", "ended"}
  /\ vpc # "ended" => vstatus = -1
  /\ vpc \in {"parse", "compare"} => vleft = args.files /\ failures = 0 /\ said = {}
  /\ vpc \in {"compare", "verify"} => ~args.selftest
  /\ vstatus = 0 /\ ~args.selftest => failures = 0 /\ vleft = <<>>
SeenIsRead ==
  /\ \E T : seen \in Seq(T)
  /\ Len(seen) = Done
IsClear(i) ==
  LET n == args.files[i]
  IN /\ seen[i][n] # NoFile
     /\ ~V!Shows(seen[i], n, truth[n])
     /\ V!AsReferenced(seen[i][n], args.ref)
DoneAreClear == failures = 0 => \A i \in 1 .. Done : IsClear(i)
ComparedAreRead ==
  /\ vpc \in {"parse", "compare"} => compared = <<>>
  /\ args.compare = <<>> => compared = <<>>
  /\ vpc = "verify" \/ (vstatus = 0 /\ ~args.selftest) =>
       (args.compare # <<>> => compared # <<>>)
  /\ compared # <<>> =>
       NoFile # compared[1] /\ V!IsImage(compared[1]) /\ V!IsImage(compared[2])
ComparedAreSame == compared # <<>> /\ failures = 0 => compared[1] = compared[2]
SaidIsCompared ==
  compared # <<>> /\ args.files = <<>> =>
    /\ said = V!compare(compared[1], compared[2])
    /\ failures = V!Failures(said)
    /\ vstatus = 1 => failures > 0

VInv ==
  /\ CardIsRead /\ ArgsAreReal /\ WhereMainIs /\ SeenIsRead /\ DoneAreClear
  /\ ComparedAreRead /\ ComparedAreSame /\ SaidIsCompared

\* A session begins in it.
LEMMA VInitInv ==
  ASSUME NEW s, V!IsSession(s), V!Begins(s)
  PROVE  VInv
<1>1. CardIsRead /\ ArgsAreReal BY DEF V!Begins, V!IsSession, CardIsRead, ArgsAreReal
<1>2. /\ vpc = "parse" /\ vleft = args.files /\ failures = 0 /\ said = {} /\ vstatus = -1
      /\ seen = <<>> /\ compared = <<>>
  BY DEF V!Begins
<1>3. Len(args.files) \in Nat /\ Done = 0
  <2>1. Len(args.files) \in Nat BY <1>1 DEF ArgsAreReal
  <2>. QED BY <1>2, <2>1 DEF Done
<1>4. WhereMainIs
  <2>1. vleft \in Seq(Names) /\ Len(vleft) <= Len(args.files) BY <1>1, <1>2, <1>3 DEF ArgsAreReal
  <2>2. \A j \in 1 .. Len(vleft) : vleft[j] = args.files[Done + j] BY <1>2, <1>3
  <2>. QED BY <1>2, <2>1, <2>2 DEF WhereMainIs
<1>5. DoneAreClear BY <1>3 DEF DoneAreClear
<1>6. ComparedAreRead /\ ComparedAreSame /\ SaidIsCompared
  BY <1>2 DEF ComparedAreRead, ComparedAreSame, SaidIsCompared
<1>7. SeenIsRead
  <2>1. seen \in Seq({}) /\ Len(seen) = 0 BY <1>2
  <2>. QED BY <1>3, <2>1 DEF SeenIsRead
<1>. QED BY <1>1, <1>4, <1>5, <1>6, <1>7 DEF VInv

\* What a comparison finds.
LEMMA CompareFinds ==
  ASSUME NEW a, V!IsImage(a), NEW b, V!IsImage(b)
  PROVE  /\ V!IsFiniteSet(V!compare(a, b)) /\ V!Failures(V!compare(a, b)) \in Nat
         /\ V!Failures(V!compare(a, b)) = 0 <=> a = b
<1>1. \A x, m : V!IsFiniteSet(V!Ok(x)) /\ V!IsFiniteSet(V!Bad(x)) /\ V!IsFiniteSet(V!Note(x, m))
  BY SmallSetsAreFinite DEF V!Ok, V!Bad, V!Note
<1>2. V!IsFiniteSet(V!compare(a, b))
  BY <1>1, SmallSetsAreFinite DEF V!compare, V!When
<1>3. a # b => \E x : <<"FAIL", x, 0>> \in V!compare(a, b)
  BY DEF V!compare, V!Bad
<1>4. a = b => V!Failures(V!compare(a, b)) = 0
  <2>. SUFFICES ASSUME a = b PROVE V!Failures(V!compare(a, b)) = 0 OBVIOUS
  <2>1. V!compare(a, b) = {<<"ok", "identical", 0>>} BY DEF V!compare, V!Ok
  <2>2. {l \in {<<"ok", "identical", 0>>} : l[1] = "FAIL"} = {} OBVIOUS
  <2>3. V!Cardinality({}) = 0 BY VFS_EmptySet
  <2>. QED BY <2>1, <2>2, <2>3 DEF V!Failures
<1>. QED BY <1>2, <1>3, <1>4, FailuresCount

\* A session that is refused, or is the self test, ends at once.
LEMMA ParseInv ==
  ASSUME VInv, V!Parse
  PROVE  VInv'
<1>1. /\ vpc = "parse" /\ UNCHANGED <<card, truth, args, vleft, failures, said, seen, compared>>
      /\ \/ vpc' = "ended" /\ vstatus' = 2
         \/ vpc' = "ended" /\ args.selftest /\ vstatus' \in {0, 1}
         \/ vpc' = "compare" /\ vstatus' = vstatus /\ ~args.selftest
  BY DEF V!Parse, V!Exit
<1>2. Done' = Done BY <1>1 DEF Done
<1>3. CardIsRead' /\ ArgsAreReal' BY <1>1 DEF VInv, CardIsRead, ArgsAreReal
<1>4. WhereMainIs' BY <1>1, <1>2 DEF VInv, WhereMainIs
<1>5. SeenIsRead' /\ DoneAreClear' BY <1>1, <1>2 DEF VInv, SeenIsRead, DoneAreClear, IsClear
<1>6. vstatus = -1 /\ compared = <<>> BY <1>1 DEF VInv, WhereMainIs, ComparedAreRead
<1>7. ComparedAreRead' /\ ComparedAreSame' /\ SaidIsCompared'
  BY <1>1, <1>6 DEF VInv, ComparedAreRead, ComparedAreSame, SaidIsCompared
<1>. QED BY <1>3, <1>4, <1>5, <1>7 DEF VInv

\* Status 0 is out of reach once the two reads differ.
LEMMA CompareInv ==
  ASSUME VInv, V!Compare
  PROVE  VInv'
<1> DEFINE a == card[args.compare[1]]
           b == card[args.compare[2]]
<1>1. /\ vpc = "compare" /\ UNCHANGED <<card, truth, args, vleft, seen>>
      /\ \/ args.compare = <<>> /\ vpc' = "verify" /\ UNCHANGED <<failures, said, vstatus, compared>>
         \/ args.compare # <<>> /\ NoFile \in {a, b} /\ vpc' = "ended" /\ vstatus' = 1
            /\ UNCHANGED <<failures, said, compared>>
         \/ /\ args.compare # <<>> /\ NoFile \notin {a, b} /\ vpc' = "verify" /\ vstatus' = vstatus
            /\ compared' = <<a, b>>
            /\ said' = said \cup V!compare(a, b) /\ failures' = failures + V!Failures(V!compare(a, b))
  BY DEF V!Compare, V!Exit
<1>2. Done' = Done BY <1>1 DEF Done
<1>3. CardIsRead' /\ ArgsAreReal' BY <1>1 DEF VInv, CardIsRead, ArgsAreReal
<1>4. /\ vleft = args.files /\ failures = 0 /\ said = {} /\ vstatus = -1 /\ ~args.selftest
      /\ Len(vleft) \in Nat /\ compared = <<>>
  BY <1>1 DEF VInv, WhereMainIs, ComparedAreRead
<1>5. ASSUME args.compare # <<>>, NoFile \notin {a, b} PROVE V!IsImage(a) /\ V!IsImage(b)
  <2>1. args.compare[1] \in Names /\ args.compare[2] \in Names BY <1>5 DEF VInv, ArgsAreReal
  <2>. QED BY <1>5, <2>1 DEF VInv, CardIsRead
<1>6. failures' \in Nat BY <1>1, <1>4, <1>5, CompareFinds
<1>7. WhereMainIs' BY <1>1, <1>2, <1>4, <1>6 DEF VInv, WhereMainIs
<1>8. SeenIsRead' /\ DoneAreClear'
  <2>1. Done = 0 BY <1>4 DEF Done
  <2>. QED BY <1>1, <1>2, <2>1 DEF VInv, SeenIsRead, DoneAreClear
<1>9. CASE compared' = <<>> /\ (args.compare = <<>> \/ (vpc' = "ended" /\ vstatus' = 1))
  <2>1. ComparedAreRead' /\ ComparedAreSame' /\ SaidIsCompared'
    BY <1>1, <1>4, <1>9 DEF ComparedAreRead, ComparedAreSame, SaidIsCompared
  <2>. QED BY <1>3, <1>7, <1>8, <2>1 DEF VInv
<1>10. CASE args.compare # <<>> /\ NoFile \notin {a, b}
  <2>1. /\ vpc' = "verify" /\ vstatus' = vstatus /\ compared' = <<a, b>>
        /\ said' = said \cup V!compare(a, b) /\ failures' = failures + V!Failures(V!compare(a, b))
    BY <1>1, <1>10
  <2>2. V!Failures(V!compare(a, b)) \in Nat /\ (V!Failures(V!compare(a, b)) = 0 <=> a = b)
    BY <1>5, <1>10, CompareFinds
  <2>3. compared'[1] = a /\ compared'[2] = b /\ V!IsImage(a) /\ V!IsImage(b) /\ NoFile # a
    BY <1>5, <1>10, <2>1
  <2>4. /\ said' = V!compare(a, b) /\ failures' = V!Failures(said') /\ vstatus' = -1
        /\ failures' = 0 => a = b
    <3>. HIDE DEF a, b
    <3>. QED BY <1>4, <2>1, <2>2
  <2>5. compared' # <<>> BY <2>1
  <2>. HIDE DEF a, b
  <2>6. ComparedAreRead' BY <1>1, <1>10, <2>1, <2>3, <2>5 DEF ComparedAreRead
  <2>7. ComparedAreSame' BY <2>3, <2>4 DEF ComparedAreSame
  <2>8. SaidIsCompared' BY <2>3, <2>4 DEF SaidIsCompared
  <2>. QED BY <1>3, <1>7, <1>8, <2>6, <2>7, <2>8 DEF VInv
<1>. HIDE DEF a, b
<1>. QED BY <1>1, <1>4, <1>9, <1>10

\* A file that fails is counted, and one that does not is clear.
LEMMA VerifyInv ==
  ASSUME VInv, V!Verify
  PROVE  VInv'
<1> DEFINE n == Head(vleft)
           lines == V!verify(card, n, args.ref)
<1>1. /\ vpc = "verify" /\ vleft # <<>> /\ UNCHANGED <<card, truth, args, vpc, vstatus, compared>>
      /\ vleft' = Tail(vleft) /\ seen' = Append(seen, card)
      /\ failures' = failures + V!Failures(lines)
  BY DEF V!Verify
<1>2. /\ vleft \in Seq(Names) /\ Len(vleft) \in Nat \ {0} /\ Len(args.files) \in Nat
      /\ Len(vleft) <= Len(args.files) /\ failures \in Nat /\ vstatus = -1 /\ ~args.selftest
  BY <1>1 DEF VInv, WhereMainIs, ArgsAreReal
<1>3. /\ Tail(vleft) \in Seq(Names) /\ Len(Tail(vleft)) = Len(vleft) - 1
      /\ \A j \in 1 .. Len(vleft) - 1 : Tail(vleft)[j] = vleft[j + 1]
  BY <1>1, <1>2
<1>4. Done' = Done + 1 /\ Done \in Nat /\ Done + 1 \in 1 .. Len(args.files)
  BY <1>1, <1>2, <1>3 DEF Done
<1>5. n = args.files[Done + 1] /\ n \in Names
  BY <1>1, <1>2 DEF VInv, WhereMainIs
<1>6. V!Failures(lines) \in Nat
  <2>1. V!IsFiniteSet(lines) BY VerifyIsFinite
  <2>. HIDE DEF lines
  <2>. QED BY <2>1, FailuresCount
<1>7. failures' \in Nat /\ (failures' = 0 => failures = 0 /\ V!Failures(lines) = 0)
  <2>. HIDE DEF lines
  <2>. QED BY <1>1, <1>2, <1>6
<1>8. CardIsRead' /\ ArgsAreReal' BY <1>1 DEF VInv, CardIsRead, ArgsAreReal
<1>9. WhereMainIs'
  <2>1. \A j \in 1 .. Len(Tail(vleft)) : Tail(vleft)[j] = args.files[Done + 1 + j]
    <3>1. ASSUME NEW j \in 1 .. Len(vleft) - 1 PROVE Tail(vleft)[j] = args.files[Done + 1 + j]
      <4>1. j + 1 \in 1 .. Len(vleft) /\ Done + (j + 1) = Done + 1 + j BY <1>2, <1>4
      <4>2. vleft[j + 1] = args.files[Done + (j + 1)] BY <4>1 DEF VInv, WhereMainIs
      <4>. QED BY <1>3, <4>1, <4>2
    <3>. QED BY <1>3, <3>1
  <2>2. Len(Tail(vleft)) <= Len(args.files) BY <1>2, <1>3
  <2>. QED BY <1>1, <1>2, <1>3, <1>4, <1>7, <2>1, <2>2 DEF WhereMainIs
<1>s. /\ SeenIsRead'
      /\ \A i \in 1 .. Done : seen'[i] = seen[i]
      /\ seen'[Done + 1] = card
  <2>1. PICK T : seen \in Seq(T) BY DEF VInv, SeenIsRead
  <2> DEFINE U == T \cup {card}
  <2>2. Len(seen) = Done BY DEF VInv, SeenIsRead
  <2>3. seen \in Seq(U) /\ card \in U BY <2>1
  <2>. HIDE DEF U
  <2>4. /\ seen' \in Seq(U) /\ Len(seen') = Done + 1
        /\ \A i \in 1 .. Done : seen'[i] = seen[i]
        /\ seen'[Done + 1] = card
    BY <1>1, <2>2, <2>3
  <2>. QED BY <1>4, <2>4 DEF SeenIsRead
<1>10. DoneAreClear'
  <2>. SUFFICES ASSUME failures' = 0, NEW i \in 1 .. Done + 1
                PROVE  LET m == args.files[i]
                       IN /\ seen'[i][m] # NoFile
                          /\ ~V!Shows(seen'[i], m, truth[m])
                          /\ V!AsReferenced(seen'[i][m], args.ref)
    BY <1>1, <1>4, Zenon DEF DoneAreClear, IsClear
  <2>1. CASE i = Done + 1
    <3>1. card[n] = NoFile \/ V!IsImage(card[n]) BY <1>5 DEF VInv, CardIsRead
    <3>2. V!IsImage(truth[n]) /\ V!WellMade(n, truth[n]) BY <1>4, <1>5 DEF VInv, ArgsAreReal
    <3>3. V!Failures(V!verify(card, n, args.ref)) = 0 BY <1>7
    <3>4. args.files[i] = n /\ seen'[i] = card BY <1>5, <1>s, <2>1
    <3>. HIDE DEF n
    <3>5. /\ card[n] # NoFile /\ ~V!Shows(card, n, truth[n]) /\ V!AsReferenced(card[n], args.ref)
      BY <3>1, <3>2, <3>3, PassClears
    <3>. QED BY <3>4, <3>5
  <2>2. CASE i # Done + 1
    <3>1. i \in 1 .. Done BY <1>4, <2>2
    <3>2. IsClear(i) BY <1>7, <3>1 DEF VInv, DoneAreClear
    <3>3. seen'[i] = seen[i] BY <1>s, <3>1
    <3>. QED BY <3>2, <3>3 DEF IsClear
  <2>. QED BY <2>1, <2>2
<1>11. ComparedAreRead' /\ ComparedAreSame'
  BY <1>1, <1>7 DEF VInv, ComparedAreRead, ComparedAreSame
<1>12. SaidIsCompared'
  <2>1. args.files # <<>> BY <1>2
  <2>. QED BY <1>1, <2>1 DEF SaidIsCompared
<1>. QED BY <1>8, <1>9, <1>s, <1>10, <1>11, <1>12 DEF VInv

\* Status 0 comes of no failure and nothing left.
LEMMA FinishInv ==
  ASSUME VInv, V!Finish
  PROVE  VInv'
<1>1. /\ vpc = "verify" /\ vleft = <<>>
      /\ UNCHANGED <<card, truth, args, vleft, failures, said, seen, compared>>
      /\ vpc' = "ended"
      /\ \/ args.files = <<>> /\ args.compare = <<>> /\ vstatus' = 2
         \/ failures > 0 /\ vstatus' = 1
         \/ ~(failures > 0) /\ vstatus' = 0
  BY DEF V!Finish, V!Exit
<1>2. failures \in Nat /\ ~args.selftest BY <1>1 DEF VInv, WhereMainIs
<1>3. Done' = Done BY <1>1 DEF Done
<1>4. CardIsRead' /\ ArgsAreReal' BY <1>1 DEF VInv, CardIsRead, ArgsAreReal
<1>5. WhereMainIs' BY <1>1, <1>2, <1>3 DEF VInv, WhereMainIs
<1>6. SeenIsRead' /\ DoneAreClear' BY <1>1, <1>3 DEF VInv, SeenIsRead, DoneAreClear, IsClear
<1>7. ComparedAreRead' /\ ComparedAreSame' BY <1>1 DEF VInv, ComparedAreRead, ComparedAreSame
<1>8. SaidIsCompared'
  <2>1. vstatus' = 1 => failures > 0 BY <1>1
  <2>. QED BY <1>1, <2>1 DEF VInv, SaidIsCompared
<1>. QED BY <1>4, <1>5, <1>6, <1>7, <1>8 DEF VInv

\* A file the card loses was there when it was read, or is read in vain.
LEMMA FileGoneInv ==
  ASSUME VInv, NEW n \in Names, V!FileGone(n)
  PROVE  VInv'
<1>1. /\ UNCHANGED <<truth, args, vpc, vleft, failures, said, vstatus, seen, compared>>
      /\ card' = [card EXCEPT ![n] = NoFile]
  BY DEF V!FileGone
<1>2. Done' = Done BY <1>1 DEF Done
<1>3. CardIsRead' BY <1>1 DEF VInv, CardIsRead
<1>4. ArgsAreReal' BY <1>1 DEF VInv, ArgsAreReal
<1>5. WhereMainIs' BY <1>1, <1>2 DEF VInv, WhereMainIs
<1>6. SeenIsRead' /\ DoneAreClear' BY <1>1, <1>2 DEF VInv, SeenIsRead, DoneAreClear, IsClear
<1>7. ComparedAreRead' /\ ComparedAreSame' /\ SaidIsCompared'
  BY <1>1 DEF VInv, ComparedAreRead, ComparedAreSame, SaidIsCompared
<1>. QED BY <1>3, <1>4, <1>5, <1>6, <1>7 DEF VInv

\* Nothing happens.
LEMMA VStutterInv ==
  ASSUME VInv, UNCHANGED V!vars
  PROVE  VInv'
<1>1. UNCHANGED <<card, truth, args, vpc, vleft, failures, said, vstatus, seen, compared>>
  BY DEF V!vars
<1>2. Done' = Done BY <1>1 DEF Done
<1>. QED
  BY <1>1, <1>2 DEF VInv, CardIsRead, ArgsAreReal, WhereMainIs, SeenIsRead, DoneAreClear, IsClear,
     ComparedAreRead, ComparedAreSame, SaidIsCompared

\* Any step of the verifier.
LEMMA VNextInv ==
  ASSUME VInv, V!Next
  PROVE  VInv'
BY ParseInv, CompareInv, VerifyInv, FinishInv, FileGoneInv DEF V!Next

\* What status 0 says of the files, and status 1 of the data line.
LEMMA VInvIsEnough ==
  ASSUME VInv
  PROVE  V!DamageIsCaught /\ V!LineIsNamed
<1>1. V!DamageIsCaught
  <2>. SUFFICES ASSUME vstatus = 0, ~args.selftest
                PROVE  /\ Len(seen) = Len(args.files)
                       /\ \A i \in DOMAIN args.files : IsClear(i)
                       /\ args.compare # <<>> =>
                            compared # <<>> /\ NoFile # compared[1] /\ compared[1] = compared[2]
    BY Zenon DEF V!DamageIsCaught, IsClear
  <2>1. failures = 0 /\ vleft = <<>> BY DEF VInv, WhereMainIs
  <2>2. DOMAIN args.files = 1 .. Done /\ Len(args.files) = Done
    <3>1. args.files \in Seq(Names) BY DEF VInv, ArgsAreReal
    <3>. QED BY <2>1, <3>1 DEF Done
  <2>3. \A i \in DOMAIN args.files : IsClear(i) BY <2>1, <2>2 DEF VInv, DoneAreClear
  <2>4. Len(seen) = Len(args.files) BY <2>2 DEF VInv, SeenIsRead
  <2>. QED BY <2>1, <2>3, <2>4 DEF VInv, ComparedAreRead, ComparedAreSame
<1>2. V!LineIsNamed
  <2> DEFINE a == compared[1]
             b == compared[2]
             line == "every difference is one bit"
             named == {l \in said : l[2] = line}
  <2>. SUFFICES ASSUME vstatus = 1, args.files = <<>>, compared # <<>>, a.len = b.len, NEW k \in 0 .. 7
                PROVE  (\E l \in named : l[3] = k) <=> V!Stuck(a, k, TRUE) = V!Stuck(b, k, TRUE)
    BY Zenon DEF V!LineIsNamed
  <2>1. V!IsImage(a) /\ V!IsImage(b) BY DEF VInv, ComparedAreRead
  <2>2. said = V!compare(a, b) /\ failures = V!Failures(said) /\ failures > 0
    BY DEF VInv, SaidIsCompared
  <2>3. a # b
    <3>1. V!Failures(V!compare(a, b)) # 0 BY <2>2
    <3>. HIDE DEF a, b
    <3>. QED BY <2>1, <3>1, CompareFinds
  <2> DEFINE bits == V!DiffBits(a, b)
             one == V!Cardinality(bits) = 1
             it == CHOOSE m \in bits : TRUE
  <2>4. said = {<<"FAIL", "identical", 0>>} \cup (IF one THEN {<<"note", line, it>>} ELSE {})
    <3>1. said = V!Bad("identical") \cup V!When(one, V!Note(line, it))
      BY <2>2, <2>3 DEF V!compare
    <3>. HIDE DEF one, it, bits
    <3>. QED BY <3>1 DEF V!Bad, V!When, V!Note
  <2>5. named = IF one THEN {<<"note", line, it>>} ELSE {}
    <3>1. line # "identical" OBVIOUS
    <3>. HIDE DEF one, it, bits, line
    <3>2. CASE one BY <2>4, <3>1, <3>2
    <3>3. CASE ~one BY <2>4, <3>1, <3>3
    <3>. QED BY <3>2, <3>3
  <2>6. one => bits = {it}
    <3>1. V!IsFiniteSet(bits) BY <2>1, DiffersAnywhere
    <3>. HIDE DEF bits
    <3>2. one => \E x : bits = {x} BY <3>1, VFS_Singleton
    <3>. QED BY <3>2
  <2>7. bits = {k} => one
    <3>. HIDE DEF bits
    <3>. QED BY VFS_Singleton
  <2>8. (\E l \in named : l[3] = k) <=> bits = {k}
    <3>. HIDE DEF one, it, bits, named, line
    <3>1. CASE one
      <4>1. named = {<<"note", line, it>>} /\ bits = {it} BY <2>5, <2>6, <3>1
      <4>2. (\E l \in named : l[3] = k) <=> it = k BY <4>1
      <4>3. bits = {k} <=> it = k BY <4>1
      <4>. QED BY <4>2, <4>3
    <3>2. CASE ~one BY <2>5, <2>7, <3>2
    <3>. QED BY <3>1, <3>2
  <2>9. bits = {k} <=> HeldHigh(a, k) = HeldHigh(b, k)
    <3>. HIDE DEF a, b
    <3>. QED BY <2>1, <2>3, NamedIsStuck
  <2>. QED BY <2>8, <2>9 DEF HeldHigh
<1>. QED BY <1>1, <1>2

-----------------------------------------------------------------------------
(* The matcher *)

\* The DAT files that were read so far, and what they publish.
ReadBefore == {i \in 1 .. Len(dats) : i < at /\ M!Fate(dats[i]) = "read"}
Published == UNION {UNION {M!dat_records(d) : d \in dats[i].documents} : i \in ReadBefore}

MInv ==
  /\ DOMAIN dats = 1 .. Len(dats) /\ Len(dats) \in Nat
  /\ \A f \in DOMAIN dumps : dumps[f] \in [rom : BOOLEAN, image : Image \cup {NoFile}]
  /\ paths.files \subseteq DOMAIN dumps
  /\ mpc \in {"load", "report", "ended"} /\ at \in Nat \ {0}
  /\ mpc # "ended" =>
       /\ mstatus = -1
       /\ \A i \in 1 .. Len(dats) : i < at => M!Fate(dats[i]) # "raised"
       /\ entries = [s \in Image |-> {r \in Published : r.sha1 = s}]
  /\ mpc = "load" => mleft = {} /\ missed = {}
  /\ mpc = "report" =>
       /\ ~paths.selftest /\ at > Len(dats) /\ M!collect(paths) # {}
       /\ mleft \subseteq DOMAIN dumps /\ missed \cap mleft = {}

\* A use begins in it.
LEMMA MInitInv ==
  ASSUME NEW d, NEW l, NEW p, M!IsUse(d, l, p), M!Begins(d, l, p)
  PROVE  MInv
<1>1. DOMAIN dats = 1 .. Len(dats) /\ Len(dats) \in Nat BY DEF M!IsUse, M!Begins
<1>2. at = 1 /\ mpc = "load" /\ mleft = {} /\ missed = {} /\ mstatus = -1
  BY DEF M!Begins
<1>3. ReadBefore = {} BY <1>1, <1>2 DEF ReadBefore
<1>4. Published = {} BY <1>3 DEF Published
<1>5. entries = [s \in Image |-> {r \in Published : r.sha1 = s}] BY <1>4 DEF M!Begins
<1>6. /\ \A f \in DOMAIN dumps : dumps[f] \in [rom : BOOLEAN, image : Image \cup {NoFile}]
      /\ paths.files \subseteq DOMAIN dumps
  BY DEF M!IsUse, M!Begins
<1>7. \A i \in 1 .. Len(dats) : ~(i < at) BY <1>1, <1>2
<1>. QED BY <1>1, <1>2, <1>5, <1>6, <1>7 DEF MInv

\* The table has what was published so far.
LEMMA LoadDatInv ==
  ASSUME MInv, M!LoadDat
  PROVE  MInv'
<1> DEFINE dat == dats[at]
           parsed == UNION {M!dat_records(d) : d \in dat.documents}
<1>1. /\ mpc = "load" /\ at <= Len(dats) /\ at' = at + 1
      /\ UNCHANGED <<dats, dumps, paths, mleft, missed>>
      /\ \/ /\ M!Fate(dat) = "read" /\ UNCHANGED <<mpc, mstatus>>
            /\ entries' = [s \in Image |-> entries[s] \cup {r \in parsed : r.sha1 = s}]
         \/ M!Fate(dat) = "raised" /\ mpc' = "ended"
         \/ M!Fate(dat) \notin {"read", "raised"} /\ UNCHANGED <<entries, mpc, mstatus>>
  <2>1. mpc = "load" /\ at <= Len(dats) /\ at' = at + 1 /\ UNCHANGED <<dats, dumps, paths, mleft, missed>>
    BY DEF M!LoadDat
  <2>2. CASE M!Fate(dat) = "read" BY <2>1, <2>2 DEF M!LoadDat
  <2>3. CASE M!Fate(dat) = "raised" BY <2>1, <2>3 DEF M!LoadDat, M!Exit
  <2>4. CASE M!Fate(dat) \notin {"read", "raised"} BY <2>1, <2>4 DEF M!LoadDat
  <2>. QED BY <2>2, <2>3, <2>4
<1>2. at \in Nat \ {0} /\ at \in 1 .. Len(dats) BY <1>1 DEF MInv
<1>3. CASE M!Fate(dat) = "raised"
  BY <1>1, <1>2, <1>3 DEF MInv, M!collect
<1>4. CASE M!Fate(dat) # "raised"
  <2>1. ReadBefore' = ReadBefore \cup (IF M!Fate(dat) = "read" THEN {at} ELSE {})
    <3>1. \A i \in 1 .. Len(dats) : i < at + 1 <=> i < at \/ i = at BY <1>2 DEF MInv
    <3>. QED BY <1>1, <1>2, <3>1 DEF ReadBefore
  <2>2. \A i \in 1 .. Len(dats) : i < at + 1 => M!Fate(dats[i]) # "raised"
    <3>1. \A i \in 1 .. Len(dats) : i < at + 1 => i < at \/ i = at BY <1>2 DEF MInv
    <3>. QED BY <1>1, <1>4, <3>1 DEF MInv
  <2>3. entries = [s \in Image |-> {r \in Published : r.sha1 = s}] BY <1>1 DEF MInv
  <2>4. entries' = [s \in Image |-> {r \in Published' : r.sha1 = s}]
    <3>1. CASE M!Fate(dat) = "read"
      <4>1. Published' = Published \cup parsed
        BY <1>1, <2>1, <3>1 DEF Published
      <4>2. entries' = [s \in Image |-> entries[s] \cup {r \in parsed : r.sha1 = s}]
        BY <1>1, <3>1
      <4>3. \A s \in Image : entries[s] \cup {r \in parsed : r.sha1 = s} = {r \in Published' : r.sha1 = s}
        <5>. HIDE DEF parsed
        <5>. QED BY <2>3, <4>1
      <4>. HIDE DEF parsed
      <4>. QED BY <4>2, <4>3
    <3>2. CASE M!Fate(dat) # "read"
      <4>1. Published' = Published BY <1>1, <2>1, <3>2 DEF Published
      <4>. QED BY <1>1, <1>4, <2>3, <3>2, <4>1
    <3>. QED BY <3>1, <3>2
  <2>5. mpc' = mpc /\ mstatus' = mstatus BY <1>1, <1>4
  <2>. HIDE DEF dat
  <2>. QED BY <1>1, <1>2, <2>2, <2>4, <2>5 DEF MInv
<1>. QED BY <1>3, <1>4

\* The dumps are collected when every DAT was read.
LEMMA LoadedInv ==
  ASSUME MInv, M!Loaded
  PROVE  MInv'
<1>1. /\ mpc = "load" /\ ~paths.selftest /\ at > Len(dats)
      /\ UNCHANGED <<dats, dumps, paths, at, entries, missed>>
      /\ \/ mpc' = "ended"
         \/ mpc' = "report" /\ mleft' = M!collect(paths) /\ M!collect(paths) # {} /\ UNCHANGED mstatus
  BY DEF M!Loaded, M!Exit
<1>2. M!collect(paths) \subseteq DOMAIN dumps BY DEF MInv, M!collect
<1>3. M!collect(paths)' = M!collect(paths) BY <1>1 DEF M!collect
<1>4. Published' = Published BY <1>1 DEF Published, ReadBefore
<1>. QED BY <1>1, <1>2, <1>3, <1>4 DEF MInv

\* Each dump is reported once.
LEMMA ReportInv ==
  ASSUME MInv, NEW f \in DOMAIN dumps, M!Report(f)
  PROVE  MInv'
<1>1. /\ mpc = "report" /\ f \in mleft /\ mleft' = mleft \ {f}
      /\ missed' \in {missed, missed \cup {f}}
      /\ UNCHANGED <<dats, dumps, paths, mpc, at, entries, mstatus>>
  BY DEF M!Report
<1>2. Published' = Published BY <1>1 DEF Published, ReadBefore
<1>3. M!collect(paths)' = M!collect(paths) BY <1>1 DEF M!collect
<1>. QED BY <1>1, <1>2, <1>3 DEF MInv

\* The end.
LEMMA MEndInv ==
  ASSUME MInv, M!Finish \/ M!SelfTest
  PROVE  MInv'
<1>1. mpc' = "ended" /\ UNCHANGED <<dats, dumps, paths, at, mleft, entries, missed>>
  BY DEF M!Finish, M!SelfTest, M!Exit
<1>. QED BY <1>1 DEF MInv

\* A dump is made anew behind the back of the tool.
LEMMA RedumpInv ==
  ASSUME MInv, NEW f \in DOMAIN dumps, NEW image \in Image \cup {NoFile}, M!Redump(f, image)
  PROVE  MInv'
<1>1. /\ dumps' = [dumps EXCEPT ![f].image = image]
      /\ UNCHANGED <<dats, paths, mpc, at, mleft, entries, missed, mstatus>>
  BY DEF M!Redump
<1>2. DOMAIN dumps' = DOMAIN dumps BY <1>1
<1>3. \A g \in DOMAIN dumps : dumps'[g] \in [rom : BOOLEAN, image : Image \cup {NoFile}] /\ dumps'[g].rom = dumps[g].rom
  <2>1. ASSUME NEW g \in DOMAIN dumps
        PROVE  dumps'[g] \in [rom : BOOLEAN, image : Image \cup {NoFile}] /\ dumps'[g].rom = dumps[g].rom
    <3>1. dumps[g] \in [rom : BOOLEAN, image : Image \cup {NoFile}] BY DEF MInv
    <3>2. dumps'[g] = IF g = f THEN [dumps[f] EXCEPT !.image = image] ELSE dumps[g] BY <1>1
    <3>. QED BY <3>1, <3>2
  <2>. QED BY <2>1
<1>4. M!collect(paths)' = M!collect(paths) BY <1>1, <1>2, <1>3 DEF M!collect
<1>5. Published' = Published BY <1>1 DEF Published, ReadBefore
<1>. QED BY <1>1, <1>2, <1>3, <1>4, <1>5 DEF MInv

\* Nothing happens.
LEMMA MStutterInv ==
  ASSUME MInv, UNCHANGED M!vars
  PROVE  MInv'
<1>1. UNCHANGED <<dats, dumps, paths, mpc, at, mleft, entries, missed, mstatus>> BY DEF M!vars
<1>. QED BY <1>1 DEF MInv, Published, ReadBefore, M!collect

\* Any step of the matcher.
LEMMA MNextInv ==
  ASSUME MInv, M!Next
  PROVE  MInv'
BY LoadDatInv, LoadedInv, ReportInv, MEndInv, RedumpInv DEF M!Next

\* Once every DAT was read, the table holds what the usable ones publish.
LEMMA TableIsRecorded ==
  ASSUME MInv, mpc = "report", NEW image \in Image \cup {NoFile}
  PROVE  (image = NoFile \/ ~M!Hit(entries, image)) <=> ~M!Recorded(image)
<1>1. CASE image = NoFile BY <1>1 DEF M!Recorded
<1>2. CASE image # NoFile
  <2>0. image \in Image BY <1>2
  <2>1. /\ DOMAIN dats = 1 .. Len(dats) /\ at > Len(dats) /\ at \in Nat /\ Len(dats) \in Nat
        /\ \A i \in 1 .. Len(dats) : i < at => M!Fate(dats[i]) # "raised"
        /\ entries[image] = {r \in Published : r.sha1 = image}
    BY <2>0 DEF MInv
  <2>2. \A i \in DOMAIN dats : M!Fate(dats[i]) = "read" <=> M!Usable(dats[i])
    <3>1. ASSUME NEW i \in DOMAIN dats PROVE M!Fate(dats[i]) = "read" <=> M!Usable(dats[i])
      <4>1. M!Fate(dats[i]) # "raised" BY <2>1
      <4>. QED BY <4>1 DEF M!Fate, M!Usable
    <3>. QED BY <3>1
  <2>3. ReadBefore = {i \in DOMAIN dats : M!Usable(dats[i])} BY <2>1, <2>2 DEF ReadBefore
  <2>4. ASSUME NEW r
        PROVE  r \in Published <=> \E i \in DOMAIN dats : M!Usable(dats[i]) /\ \E d \in dats[i].documents :
                 d.datafile /\ r \in d.roms /\ M!Complete(r)
    BY <2>3 DEF Published, M!dat_records
  <2>5. M!Hit(entries, image) <=> \E r \in Published : r.sha1 = image /\ r.size = sizeOf[image] /\ r.crc = crcOf[image]
    BY <2>1 DEF M!Hit, M!hashes
  <2>6. sizeOf[image] > 0 BY <2>0, HostAssumption DEF M!HashesAreReal
  <2>7. ASSUME NEW r, r.sha1 = image, r.size = sizeOf[image]
        PROVE  M!Complete(r) <=> r.named
    BY <1>2, <2>6, <2>7 DEF M!Complete
  <2>8. ASSUME M!Hit(entries, image) PROVE M!Recorded(image)
    <3>1. PICK r \in Published : r.sha1 = image /\ r.size = sizeOf[image] /\ r.crc = crcOf[image]
      BY <2>5, <2>8
    <3>. QED BY <1>2, <2>4, <2>7, <3>1 DEF M!Recorded
  <2>9. ASSUME M!Recorded(image) PROVE M!Hit(entries, image)
    <3>1. PICK i \in DOMAIN dats : M!Usable(dats[i]) /\ \E d \in dats[i].documents :
            d.datafile /\ \E r \in d.roms :
              r.named /\ r.sha1 = image /\ r.crc = crcOf[image] /\ r.size = sizeOf[image]
      BY <2>9 DEF M!Recorded
    <3>2. PICK d \in dats[i].documents : d.datafile /\ \E r \in d.roms :
              r.named /\ r.sha1 = image /\ r.crc = crcOf[image] /\ r.size = sizeOf[image]
      BY <3>1
    <3>3. PICK r \in d.roms : r.named /\ r.sha1 = image /\ r.crc = crcOf[image] /\ r.size = sizeOf[image]
      BY <3>2
    <3>4. r \in Published BY <2>4, <2>7, <3>1, <3>2, <3>3
    <3>. QED BY <2>5, <3>3, <3>4
  <2>. QED BY <1>2, <2>8, <2>9
<1>. QED BY <1>1, <1>2

\* The self test of the matcher comes out.
LEMMA SelfTestPasses ==
  M!selftest
<1> DEFINE one == CHOOSE i \in Image : TRUE
           own == [sha1 |-> one, crc |-> crcOf[one], size |-> sizeOf[one], named |-> TRUE]
           Passes(records) == M!Hit([i \in {one} |-> records], one)
<1>1. one \in Image BY HostAssumption DEF M!HashesAreReal
<1>2. crcOf[one] \in Int /\ sizeOf[one] \in Int BY <1>1, HostAssumption DEF M!HashesAreReal
<1>3. \A records : Passes(records) <=> \E r \in records : r.size = sizeOf[one] /\ r.crc = crcOf[one]
  BY DEF M!Hit, M!hashes
<1> DEFINE larger == [own EXCEPT !.size = @ + 1]
           other == [own EXCEPT !.crc = @ + 1]
<1>4. /\ own.size = sizeOf[one] /\ own.crc = crcOf[one]
      /\ larger.size = sizeOf[one] + 1 /\ other.crc = crcOf[one] + 1
  OBVIOUS
<1>5. ~Passes({}) /\ Passes({own}) /\ ~Passes({larger}) /\ ~Passes({other})
  <2>. HIDE DEF one, own, Passes, larger, other
  <2>1. ~Passes({}) BY <1>3
  <2>2. Passes({own}) BY <1>3, <1>4
  <2>3. ~Passes({larger}) BY <1>2, <1>3, <1>4
  <2>4. ~Passes({other}) BY <1>2, <1>3, <1>4
  <2>. QED BY <2>1, <2>2, <2>3, <2>4
<1>. QED BY <1>5 DEF M!selftest

\* Each step of the matcher keeps the promise.
LEMMA StepIsRecorded ==
  ASSUME MInv, M!Next
  PROVE  M!MatchStep
<1>1. CASE M!LoadDat
  <2>1. mleft' = mleft /\ mstatus' \in {mstatus, 1} /\ ~paths.selftest BY <1>1 DEF M!LoadDat, M!Exit
  <2>. QED BY <2>1 DEF M!MatchStep
<1>2. CASE M!Loaded
  <2>1. mleft = {} /\ mstatus' \in {mstatus, 2} /\ ~paths.selftest BY <1>2 DEF M!Loaded, M!Exit, MInv
  <2>. QED BY <2>1 DEF M!MatchStep
<1>3. CASE M!Finish
  <2>1. /\ mleft' = mleft /\ mpc = "report" /\ mleft = {} /\ ~paths.selftest /\ M!collect(paths) # {}
        /\ mstatus' = IF missed = {} THEN 0 ELSE 1
    BY <1>3 DEF M!Finish, M!Exit, MInv
  <2>. QED BY <2>1 DEF M!MatchStep
<1>4. CASE M!SelfTest
  <2>1. mleft' = mleft /\ mstatus' = 0 /\ paths.selftest BY <1>4, SelfTestPasses DEF M!SelfTest, M!Exit
  <2>. QED BY <2>1 DEF M!MatchStep
<1>5. ASSUME NEW f \in DOMAIN dumps, M!Report(f) PROVE M!MatchStep
  <2>1. /\ mpc = "report" /\ f \in mleft /\ mleft' = mleft \ {f} /\ mstatus' = mstatus
        /\ missed' = IF dumps[f].image = NoFile \/ ~M!Hit(entries, dumps[f].image)
                     THEN missed \cup {f} ELSE missed
    BY <1>5 DEF M!Report
  <2>2. dumps[f].image \in Image \cup {NoFile} /\ f \notin missed BY <2>1 DEF MInv
  <2>3. f \in missed' <=> ~M!Recorded(dumps[f].image) BY <2>1, <2>2, TableIsRecorded
  <2>. QED BY <2>1, <2>3 DEF M!MatchStep
<1>6. ASSUME NEW f \in DOMAIN dumps, NEW image \in Image \cup {NoFile}, M!Redump(f, image)
      PROVE  M!MatchStep
  <2>1. mleft' = mleft /\ mstatus' = mstatus BY <1>6 DEF M!Redump
  <2>. QED BY <2>1 DEF M!MatchStep
<1>. QED BY <1>1, <1>2, <1>3, <1>4, <1>5, <1>6 DEF M!Next

-----------------------------------------------------------------------------
(* The runner: a check *)

Steps == {"idle", "contract", "elaborate", "locate", "compile", "simulate", "hung", "ended"}

ControlType ==
  /\ S!WellFormed(script)
  /\ trial \in Nat \ {0}
  /\ step \in Steps
  /\ scode \in {-1, 0, 1}

\* The trials before this one, and no others, have been run.
OneByOne ==
  /\ step \in {"contract", "elaborate"} => trial = 1 /\ shown = {}
  /\ step = "elaborate" => S!Trials # <<>>
  /\ step \in {"locate", "compile", "simulate", "hung"} => trial \in 1 .. Len(S!Trials)
  /\ step \in {"compile", "simulate", "hung"} => shown = 1 .. trial - 1
  /\ step = "locate" => shown = IF script.ahead THEN {} ELSE 1 .. trial - 1
  /\ step = "ended" /\ scode = 0 => shown = 1 .. Len(S!Trials)

\* The mutant of this trial is one, unless nobody looked for its text.
Made(i) == S!Trials[i].wants = "failure" /\ S!Trials[i].how # "unchecked" => i \in changed

\* What has been made: with "ahead" all of them before the first is run.
MutantsMade ==
  /\ step = "locate" => \A i \in 1 .. trial - 1 : Made(i)
  /\ step \in {"compile", "simulate", "hung"} =>
       \A i \in 1 .. (IF script.ahead THEN Len(S!Trials) ELSE trial) : Made(i)

\* What has failed as it should was a mutant.
ShownChanged ==
  \A i \in shown : i \in DOMAIN S!Trials /\ (S!Trials[i].wants = "failure" => i \in changed)

CheckInv == ControlType /\ OneByOne /\ MutantsMade /\ ShownChanged

\* What a step of the suite may do to the check it runs.
CheckMoves ==
  \/ \E s : S!WellFormed(s) /\ S!Begin(s)
  \/ S!Running /\ S!ControlStep
  \/ step' = "idle" /\ UNCHANGED <<script, trial, changed, shown, scode>>
  \/ UNCHANGED S!control

\* A check that raises an exception never ends with 0.
LEMMA RaisesKeeps ==
  ASSUME CheckInv, S!Raises, UNCHANGED script, changed \subseteq changed'
  PROVE  CheckInv'
BY DEF CheckInv, ControlType, OneByOne, MutantsMade, ShownChanged, Made, S!Raises, Steps, S!Trials

LEMMA BeginKeeps ==
  ASSUME CheckInv, NEW s, S!WellFormed(s), S!Begin(s)
  PROVE  CheckInv'
<1>1. /\ script' = s /\ trial' = 1 /\ step' = S!First(s) /\ shown' = {} /\ scode' = -1
  BY DEF S!Begin
<1>2. s.trials \in Seq(S!TrialType) /\ (s.trials = <<>> => s.contract)
  BY DEF S!WellFormed
<1>3. step' \in {"contract", "elaborate", "locate"} /\ (step' # "contract" => s.trials # <<>>)
  BY <1>1, <1>2 DEF S!First
<1>4. s.trials # <<>> => 1 \in 1 .. Len(s.trials)
  BY <1>2
<1>5. QED
  BY <1>1, <1>2, <1>3, <1>4
     DEF CheckInv, ControlType, OneByOne, MutantsMade, ShownChanged, Made, Steps, S!Trials

LEMMA ContractKeeps ==
  ASSUME CheckInv, S!Contract
  PROVE  CheckInv'
<1>1. ASSUME S!Raises PROVE CheckInv'
  BY <1>1, RaisesKeeps DEF S!Contract
<1>2. ASSUME step' = "ended", scode' = 0, S!Trials = <<>>, UNCHANGED <<script, changed, trial, shown>>
      PROVE  CheckInv'
  BY <1>2 DEF S!Contract, CheckInv, ControlType, OneByOne, MutantsMade, ShownChanged, Made, Steps, S!Trials
<1>3. ASSUME step' \in {"elaborate", "locate"}, S!Trials # <<>>,
             UNCHANGED <<script, changed, trial, shown, scode>>
      PROVE  CheckInv'
  <2>1. S!Trials \in Seq(S!TrialType)
    BY DEF CheckInv, ControlType, S!WellFormed, S!Trials
  <2>2. 1 \in 1 .. Len(S!Trials)
    BY <1>3, <2>1
  <2>3. QED
    BY <1>3, <2>2
       DEF S!Contract, CheckInv, ControlType, OneByOne, MutantsMade, ShownChanged, Made, Steps, S!Trials
<1>4. QED
  BY <1>1, <1>2, <1>3 DEF S!Contract

LEMMA ElaborateKeeps ==
  ASSUME CheckInv, S!Elaborate
  PROVE  CheckInv'
<1>1. ASSUME S!Raises PROVE CheckInv'
  BY <1>1, RaisesKeeps DEF S!Elaborate
<1>2. ASSUME step' = "locate", UNCHANGED <<script, changed, trial, shown, scode>> PROVE CheckInv'
  <2>1. S!Trials \in Seq(S!TrialType) /\ S!Trials # <<>> /\ trial = 1 /\ shown = {}
    BY DEF CheckInv, ControlType, OneByOne, S!WellFormed, S!Trials, S!Elaborate
  <2>2. 1 \in 1 .. Len(S!Trials)
    BY <2>1
  <2>3. QED
    BY <1>2, <2>1, <2>2
       DEF CheckInv, ControlType, OneByOne, MutantsMade, ShownChanged, Made, Steps, S!Trials
<1>3. QED
  BY <1>1, <1>2 DEF S!Elaborate

\* An edit that is not refused has made a mutant of the shipped text, unless
\* nobody looked.
LEMMA RefusesOrMakes ==
  ASSUME NEW how, NEW places \in 0 .. 2, NEW effective \in S!Effects(how),
         how \in {"count", "differs", "replace_assignment", "replace_port",
                  "replace_clocked_block", "replace_expression"},
         ~S!Refuses(how, places, effective)
  PROVE  places > 0 /\ effective
<1>1. CASE how = "count"
  BY <1>1 DEF S!Refuses, S!Effects
<1>2. CASE how = "differs"
  BY <1>2 DEF S!Refuses, S!Effects
<1>3. CASE how = "replace_assignment"
  BY <1>3 DEF S!Refuses, S!Effects
<1>4. CASE how \in {"replace_port", "replace_clocked_block", "replace_expression"}
  <2>1. S!Refuses(how, places, effective) <=> (places = 0 \/ ~effective)
    BY <1>4 DEF S!Refuses
  <2>2. QED
    BY <1>4, <2>1 DEF S!Effects
<1>5. QED
  BY <1>1, <1>2, <1>3, <1>4

LEMMA LocateKeeps ==
  ASSUME CheckInv, S!Locate
  PROVE  CheckInv'
<1>1. PICK places \in 0 .. 2, effective \in S!Effects(S!Now.how) :
        IF S!Refuses(S!Now.how, places, effective)
        THEN S!Raises /\ UNCHANGED changed
        ELSE /\ changed' = IF S!Now.how # "none" /\ places > 0 /\ effective
                           THEN changed \cup {trial} ELSE changed
             /\ IF script.ahead /\ trial < Len(S!Trials)
                THEN trial' = trial + 1 /\ UNCHANGED step
                ELSE /\ trial' = IF script.ahead THEN 1 ELSE trial
                     /\ step' = IF script.builds THEN "compile" ELSE "simulate"
             /\ UNCHANGED <<shown, scode>>
  BY DEF S!Locate
<1>2. UNCHANGED script /\ step = "locate"
  BY DEF S!Locate
<1>3. ASSUME S!Refuses(S!Now.how, places, effective) PROVE CheckInv'
  BY <1>1, <1>2, <1>3, RaisesKeeps
<1>4. ASSUME ~S!Refuses(S!Now.how, places, effective) PROVE CheckInv'
  <2>1. /\ S!Trials \in Seq(S!TrialType) /\ trial \in 1 .. Len(S!Trials) /\ Len(S!Trials) \in Nat
        /\ script.ahead \in BOOLEAN
    BY <1>2 DEF CheckInv, ControlType, OneByOne, S!WellFormed, S!Trials
  <2>2. S!Now \in S!TrialType /\ S!Now = S!Trials[trial]
    BY <2>1 DEF S!Now
  <2>3. S!Now.wants = "failure" => S!Now.how # "none"
    BY <2>1 DEF CheckInv, ControlType, S!WellFormed, S!Now, S!Trials
  <2>4. changed \subseteq changed' /\ (S!Now.wants = "failure" /\ S!Now.how # "unchecked" => trial \in changed')
    <3>1. S!Now.wants = "failure" /\ S!Now.how # "unchecked" => places > 0 /\ effective
      BY <1>4, <2>2, <2>3, RefusesOrMakes DEF S!TrialType
    <3>2. QED
      BY <1>1, <1>4, <2>3, <3>1
  <2>5. \A i \in 1 .. trial - 1 : Made(i)'
    BY <1>2, <2>4 DEF CheckInv, MutantsMade, Made, S!Trials
  <2>6. \A i \in 1 .. trial : Made(i)'
    <3>1. \A i \in 1 .. trial : i = trial \/ i \in 1 .. trial - 1
      BY <2>1
    <3>2. QED
      BY <1>2, <2>2, <2>4, <2>5, <3>1 DEF Made, S!Trials
  <2>7. ShownChanged'
    BY <1>1, <1>2, <1>4, <2>4 DEF CheckInv, ShownChanged, S!Trials
  <2>8. CASE script.ahead /\ trial < Len(S!Trials)
    <3>1. trial' = trial + 1 /\ step' = "locate" /\ UNCHANGED <<shown, scode>>
      BY <1>1, <1>2, <1>4, <2>8
    <3>2. trial' \in 1 .. Len(S!Trials) /\ trial' - 1 = trial
      BY <2>1, <2>8, <3>1
    <3>3. QED
      BY <1>2, <2>1, <2>6, <2>7, <2>8, <3>1, <3>2
         DEF CheckInv, ControlType, OneByOne, MutantsMade, Steps, S!Trials
  <2>9. CASE ~(script.ahead /\ trial < Len(S!Trials))
    <3>1. /\ trial' = IF script.ahead THEN 1 ELSE trial
          /\ step' \in {"compile", "simulate"} /\ UNCHANGED <<shown, scode>>
      BY <1>1, <1>4, <2>9
    <3>2. script.ahead => trial = Len(S!Trials)
      BY <2>1, <2>9
    <3>3. trial' \in 1 .. Len(S!Trials) /\ shown = 1 .. trial' - 1
      <4>1. shown = IF script.ahead THEN {} ELSE 1 .. trial - 1
        BY <1>2 DEF CheckInv, OneByOne
      <4>2. 1 \in 1 .. Len(S!Trials) /\ 1 .. 1 - 1 = {}
        BY <2>1
      <4>3. QED
        BY <2>1, <3>1, <4>1, <4>2
    <3>4. \A i \in 1 .. (IF script.ahead THEN Len(S!Trials) ELSE trial') : Made(i)'
      BY <2>6, <3>1, <3>2
    <3>5. QED
      BY <1>2, <2>1, <2>7, <3>1, <3>3, <3>4
         DEF CheckInv, ControlType, OneByOne, MutantsMade, Steps, S!Trials
  <2>10. QED
    BY <2>8, <2>9
<1>5. QED
  BY <1>3, <1>4

LEMMA CompileKeeps ==
  ASSUME CheckInv, S!Compile
  PROVE  CheckInv'
<1>1. PICK answer \in {"built", "error", "marker", "hang"} \cup (IF script.extracts THEN {"missing"} ELSE {}) :
       CASE answer = "hang" -> step' = "hung" /\ UNCHANGED <<trial, shown, scode>>
         [] answer = "built" \/ (answer = "marker" /\ ~script.scans) ->
              step' = "simulate" /\ UNCHANGED <<trial, shown, scode>>
         [] OTHER -> S!Raises
  BY DEF S!Compile
<1>2. step = "compile" /\ UNCHANGED <<script, changed>>
  BY DEF S!Compile
<1>3. (step' \in {"hung", "simulate"} /\ UNCHANGED <<trial, shown, scode>>) \/ S!Raises
  BY <1>1
<1>4. ASSUME step' \in {"hung", "simulate"}, UNCHANGED <<trial, shown, scode>> PROVE CheckInv'
  BY <1>2, <1>4 DEF CheckInv, ControlType, OneByOne, MutantsMade, ShownChanged, Made, Steps, S!Trials
<1>5. QED
  BY <1>2, <1>3, <1>4, RaisesKeeps

\* A mutant that is the shipped text under another name cannot fail as it should.
LEMMA ShippedCannotFail ==
  ASSUME CheckInv, step = "simulate", NEW outcome \in S!OutcomesNow, S!Judged(outcome)
  PROVE  S!Now.wants = "failure" => trial \in changed
<1> SUFFICES ASSUME S!Now.wants = "failure", trial \notin changed PROVE FALSE
  OBVIOUS
<1>1. S!Trials \in Seq(S!TrialType) /\ trial \in 1 .. Len(S!Trials) /\ shown = 1 .. trial - 1
  BY DEF CheckInv, ControlType, OneByOne, S!WellFormed, S!Trials
<1>2. Made(trial)
  BY <1>1 DEF CheckInv, MutantsMade
<1>3. S!Trials[trial].how = "unchecked"
  BY <1>2 DEF Made, S!Now
<1>4. \E j \in 1 .. trial - 1 : S!Trials[j] = S!Shipped
  BY <1>1, <1>3 DEF CheckInv, ControlType, S!WellFormed, S!Now, S!Trials
<1>5. outcome \in {"pass", "noisy"}
  BY <1>1, <1>4 DEF S!OutcomesNow
<1>6. QED
  BY <1>5 DEF S!Judged

LEMMA SimulateKeeps ==
  ASSUME CheckInv, S!Simulate
  PROVE  CheckInv'
<1>1. PICK outcome \in S!OutcomesNow :
       IF outcome = "hang" THEN step' = "hung" /\ UNCHANGED <<trial, shown, scode>>
       ELSE IF ~S!Judged(outcome) THEN S!Raises
       ELSE /\ shown' = shown \cup {trial}
            /\ IF trial = Len(S!Trials)
               THEN step' = "ended" /\ scode' = 0 /\ UNCHANGED trial
               ELSE /\ trial' = trial + 1
                    /\ step' = IF ~script.ahead THEN "locate"
                               ELSE IF script.builds THEN "compile" ELSE "simulate"
                    /\ UNCHANGED scode
  BY DEF S!Simulate
<1>2. step = "simulate" /\ UNCHANGED <<script, changed>>
  BY DEF S!Simulate
<1>3. ASSUME outcome = "hang" PROVE CheckInv'
  BY <1>1, <1>2, <1>3
     DEF CheckInv, ControlType, OneByOne, MutantsMade, ShownChanged, Made, Steps, S!Trials
<1>4. ASSUME outcome # "hang", ~S!Judged(outcome) PROVE CheckInv'
  BY <1>1, <1>2, <1>4, RaisesKeeps
<1>5. ASSUME outcome # "hang", S!Judged(outcome) PROVE CheckInv'
  <2>1. /\ S!Trials \in Seq(S!TrialType) /\ trial \in 1 .. Len(S!Trials) /\ Len(S!Trials) \in Nat
        /\ shown = 1 .. trial - 1 /\ UNCHANGED S!Trials /\ DOMAIN S!Trials = 1 .. Len(S!Trials)
    BY <1>2 DEF CheckInv, ControlType, OneByOne, S!WellFormed, S!Trials
  <2>2. shown' = 1 .. trial
    <3>1. shown' = shown \cup {trial}
      BY <1>1, <1>5
    <3>2. (1 .. trial - 1) \cup {trial} = 1 .. trial
      BY <2>1
    <3>3. QED
      BY <2>1, <3>1, <3>2
  <2>3. ShownChanged'
    <3>1. S!Now.wants = "failure" => trial \in changed
      BY <1>2, <1>5, ShippedCannotFail
    <3>2. QED
      BY <1>1, <1>2, <1>5, <2>1, <3>1 DEF CheckInv, ShownChanged, S!Now, S!Trials
  <2>4. CASE trial = Len(S!Trials)
    <3>1. step' = "ended" /\ scode' = 0 /\ UNCHANGED trial
      BY <1>1, <1>5, <2>4
    <3>2. QED
      BY <1>2, <2>1, <2>2, <2>3, <2>4, <3>1
         DEF CheckInv, ControlType, OneByOne, MutantsMade, Steps, S!Trials
  <2>5. CASE trial # Len(S!Trials)
    <3>1. /\ trial' = trial + 1 /\ UNCHANGED scode
          /\ step' \in {"locate", "compile", "simulate"}
          /\ step' = "locate" <=> ~script.ahead
      BY <1>1, <1>5, <2>5
    <3>2. trial' \in 1 .. Len(S!Trials) /\ trial' - 1 = trial
      <4>1. trial \in Nat /\ 1 <= trial /\ trial < Len(S!Trials)
        <5>1. \A t, n \in Nat : t \in 1 .. n /\ t # n => t \in Nat /\ 1 <= t /\ t < n
          OBVIOUS
        <5>2. trial \in Nat
          BY <2>1
        <5>3. QED
          BY <2>1, <2>5, <5>1, <5>2
      <4>2. QED
        BY <2>1, <3>1, <4>1
    <3>3. \A i \in 1 .. (IF script.ahead THEN Len(S!Trials) ELSE trial) : Made(i)'
      BY <1>2 DEF CheckInv, MutantsMade, Made, S!Trials
    <3>4. QED
      BY <1>2, <2>1, <2>2, <2>3, <3>1, <3>2, <3>3
         DEF CheckInv, ControlType, OneByOne, MutantsMade, Steps, S!Trials
  <2>6. QED
    BY <2>4, <2>5
<1>6. QED
  BY <1>3, <1>4, <1>5

LEMMA CheckKept ==
  ASSUME CheckInv, CheckMoves
  PROVE  CheckInv'
<1>1. ASSUME NEW s, S!WellFormed(s), S!Begin(s) PROVE CheckInv'
  BY <1>1, BeginKeeps
<1>2. ASSUME S!Expired PROVE CheckInv'
  BY <1>2, RaisesKeeps DEF S!Expired
<1>3. ASSUME step' = "idle", UNCHANGED <<script, trial, changed, shown, scode>> PROVE CheckInv'
  BY <1>3 DEF CheckInv, ControlType, OneByOne, MutantsMade, ShownChanged, Made, Steps, S!Trials
<1>4. ASSUME UNCHANGED S!control PROVE CheckInv'
  BY <1>4 DEF S!control, CheckInv, ControlType, OneByOne, MutantsMade, ShownChanged, Made, Steps, S!Trials
<1>5. QED
  BY <1>1, <1>2, <1>3, <1>4, ContractKeeps, ElaborateKeeps, LocateKeeps, CompileKeeps, SimulateKeeps
     DEF CheckMoves, S!ControlStep

-----------------------------------------------------------------------------
(* The suite *)

BenchSet == S!ToSet(Benches)

SuiteType ==
  /\ spc \in {"parse", "checks", "benches", "ended"}
  /\ selected \in Selections
  /\ sat \in Nat \ {0}
  /\ stage \in [BenchSet -> {"queued", "headers", "compile", "vvp", "done"}]
  /\ fate \in [BenchSet -> [failed : BOOLEAN, timeout : Nat, seconds : Nat]]
  /\ verdict \in [BenchSet -> BOOLEAN]
  /\ results \in Seq((Nat \cup BenchSet) \X BOOLEAN)
  /\ sexit \in {-1, 0, 1, 2}

\* How many of the selected checks and benches have a result.
Reached ==
  /\ spc = "parse" => results = <<>> /\ sat = 1
  /\ spc = "checks" => Len(results) = sat - 1 /\ sat <= Len(selected.checks) + 1
  /\ spc = "benches" => /\ Len(selected.checks) <= Len(results)
                       /\ Len(results) <= Len(selected.checks) + Len(selected.benches)
  /\ spc # "ended" => sexit = -1

\* The verdict of a thread is about what its own bench met with.
OwnVerdict(b) ==
  /\ stage[b] # "done" => ~fate[b].failed
  /\ stage[b] \in {"compile", "vvp"} => fate[b].timeout \in 1 .. S!MAX_TIMEOUT
  /\ stage[b] = "done" => verdict[b] = S!Clean(fate[b])

OwnVerdicts == \A b \in BenchSet : OwnVerdict(b)

\* What has been collected is what the bench of that place was given.
Collected ==
  \A i \in 1 .. Len(results) - Len(selected.checks) :
    LET b == selected.benches[i]
    IN /\ i \in DOMAIN selected.benches
       /\ stage[b] = "done"
       /\ results[Len(selected.checks) + i] = <<b, verdict[b]>>

Reported ==
  sexit = 0 =>
    /\ Len(results) = Len(selected.checks) + Len(selected.benches)
    /\ results # <<>> /\ \A i \in DOMAIN results : results[i][2]

SuiteInv == SuiteType /\ Reached /\ OwnVerdicts /\ Collected /\ Reported

LEMMA SelectedType ==
  ASSUME S!SuiteAssumption, SuiteType
  PROVE  /\ selected.checks \in Seq(S!ToSet(Checks)) /\ selected.benches \in Seq(BenchSet)
         /\ Len(selected.checks) \in Nat /\ Len(selected.benches) \in Nat
BY DEF S!SuiteAssumption, SuiteType, BenchSet

\* The thread of one bench changes nothing but what is kept of that bench, and
\* its result is about that bench.
LEMMA ThreadKeeps ==
  ASSUME S!SuiteAssumption, SuiteInv, NEW b \in BenchSet, stage[b] # "done",
         UNCHANGED <<spc, jobs, selected, sat, results, sexit>>,
         NEW s \in {"queued", "headers", "compile", "vvp", "done"}, NEW v \in BOOLEAN,
         NEW f \in [failed : BOOLEAN, timeout : Nat, seconds : Nat],
         stage' = [stage EXCEPT ![b] = s],
         verdict' = [verdict EXCEPT ![b] = v],
         fate' = [fate EXCEPT ![b] = f],
         s # "done" => ~f.failed,
         s \in {"compile", "vvp"} => f.timeout \in 1 .. S!MAX_TIMEOUT,
         s = "done" => v = S!Clean(f)
  PROVE  SuiteInv'
<1>1. SuiteType'
  BY DEF SuiteInv, SuiteType
<1>2. Reached'
  BY DEF SuiteInv, Reached
<1>3. OwnVerdicts'
  <2> SUFFICES ASSUME NEW c \in BenchSet PROVE OwnVerdict(c)'
    BY DEF OwnVerdicts
  <2>1. CASE c = b
    <3>1. stage'[c] = s /\ verdict'[c] = v /\ fate'[c] = f
      BY <2>1 DEF SuiteInv, SuiteType
    <3>2. QED
      BY <3>1 DEF OwnVerdict, S!Clean
  <2>2. CASE c # b
    <3>1. stage'[c] = stage[c] /\ verdict'[c] = verdict[c] /\ fate'[c] = fate[c]
      BY <2>2 DEF SuiteInv, SuiteType
    <3>2. QED
      BY <3>1 DEF SuiteInv, OwnVerdicts, OwnVerdict, S!Clean
  <2>3. QED
    BY <2>1, <2>2
<1>4. Collected'
  <2> SUFFICES ASSUME NEW i \in 1 .. Len(results) - Len(selected.checks)
               PROVE  /\ i \in DOMAIN selected.benches
                      /\ stage'[selected.benches[i]] = "done"
                      /\ results[Len(selected.checks) + i]
                           = <<selected.benches[i], verdict'[selected.benches[i]]>>
    BY DEF Collected
  <2>1. stage[selected.benches[i]] = "done"
    BY DEF SuiteInv, Collected
  <2>2. selected.benches[i] # b
    BY <2>1
  <2>3. /\ stage'[selected.benches[i]] = stage[selected.benches[i]]
        /\ verdict'[selected.benches[i]] = verdict[selected.benches[i]]
    BY <2>2 DEF SuiteInv, SuiteType
  <2>4. QED
    BY <2>1, <2>3 DEF SuiteInv, Collected
<1>5. Reported'
  BY DEF SuiteInv, Reported
<1>6. QED
  BY <1>1, <1>2, <1>3, <1>4, <1>5 DEF SuiteInv

LEMMA TakeKeeps ==
  ASSUME S!SuiteAssumption, SuiteInv, NEW b \in BenchSet, S!Take(b)
  PROVE  SuiteInv'
<1>1. stage[b] = "queued" /\ stage' = [stage EXCEPT ![b] = "headers"]
  BY DEF S!Take
<1>2. UNCHANGED <<spc, jobs, selected, sat, results, sexit>> /\ UNCHANGED <<fate, verdict>>
  BY DEF S!Take
<1>3. /\ verdict' = [verdict EXCEPT ![b] = verdict[b]] /\ verdict[b] \in BOOLEAN
      /\ fate' = [fate EXCEPT ![b] = fate[b]]
      /\ fate[b] \in [failed : BOOLEAN, timeout : Nat, seconds : Nat]
      /\ ~fate[b].failed
  BY <1>1, <1>2 DEF SuiteInv, SuiteType, OwnVerdicts, OwnVerdict
<1>4. QED
  BY <1>1, <1>2, <1>3, ThreadKeeps

\* What a header is read as: a time within the limits, or a refusal.
LEMMA TimeoutRange ==
  ASSUME S!SuiteAssumption, NEW header \in Headers
  PROVE  S!read_timeout(header) \in 0 .. S!MAX_TIMEOUT
BY DEF S!SuiteAssumption, S!read_timeout, S!MAX_TIMEOUT, S!DEFAULT_TIMEOUT

LEMMA FailsKeeps ==
  ASSUME S!SuiteAssumption, SuiteInv, NEW b \in BenchSet, stage[b] # "done", S!Fails(b),
         UNCHANGED <<spc, jobs, selected, sat, results, sexit>>
  PROVE  SuiteInv'
<1> DEFINE f == [fate[b] EXCEPT !.failed = TRUE]
<1>1. /\ fate' = [fate EXCEPT ![b] = f] /\ f \in [failed : BOOLEAN, timeout : Nat, seconds : Nat]
      /\ f.failed = TRUE
  BY DEF S!Fails, SuiteInv, SuiteType
<1>2. stage' = [stage EXCEPT ![b] = "done"] /\ verdict' = [verdict EXCEPT ![b] = FALSE]
  BY DEF S!Fails, S!Ends
<1> HIDE DEF f
<1>3. S!Clean(f) = FALSE
  BY <1>1 DEF S!Clean
<1>4. QED
  BY <1>1, <1>2, <1>3, ThreadKeeps

LEMMA HeadersKeep ==
  ASSUME S!SuiteAssumption, SuiteInv, NEW b \in BenchSet, S!ReadHeaders(b)
  PROVE  SuiteInv'
<1>1. stage[b] = "headers" /\ UNCHANGED <<spc, jobs, selected, sat, results, sexit>>
  BY DEF S!ReadHeaders, S!Unharmed
<1>2. ASSUME S!Fails(b) PROVE SuiteInv'
  BY <1>1, <1>2, FailsKeeps
<1>3. ASSUME NEW header \in Headers, NEW timeout, timeout = S!read_timeout(header),
             fate' = [fate EXCEPT ![b].timeout = timeout],
             IF timeout = 0 THEN S!Ends(b, FALSE)
             ELSE stage' = [stage EXCEPT ![b] = "compile"] /\ UNCHANGED verdict
      PROVE  SuiteInv'
  <2>1. timeout \in Nat /\ (timeout # 0 => timeout \in 1 .. S!MAX_TIMEOUT)
    BY <1>3, TimeoutRange DEF S!MAX_TIMEOUT
  <2> DEFINE f == [fate[b] EXCEPT !.timeout = timeout]
  <2>2. /\ fate' = [fate EXCEPT ![b] = f] /\ f.timeout = timeout
        /\ f \in [failed : BOOLEAN, timeout : Nat, seconds : Nat]
        /\ f.failed = fate[b].failed
    <3>1. fate[b] \in [failed : BOOLEAN, timeout : Nat, seconds : Nat]
      BY DEF SuiteInv, SuiteType
    <3>2. /\ f.timeout = timeout /\ f.failed = fate[b].failed
          /\ f \in [failed : BOOLEAN, timeout : Nat, seconds : Nat]
      BY <2>1, <3>1
    <3>3. fate' = [fate EXCEPT ![b] = f]
      BY <1>3
    <3>4. QED
      BY <3>2, <3>3
  <2> HIDE DEF f
  <2>3. CASE timeout = 0
    <3>1. stage' = [stage EXCEPT ![b] = "done"] /\ verdict' = [verdict EXCEPT ![b] = FALSE]
      BY <1>3, <2>3 DEF S!Ends
    <3>2. S!Clean(f) = FALSE
      BY <2>2, <2>3 DEF S!Clean
    <3>3. QED
      BY <1>1, <2>2, <3>1, <3>2, ThreadKeeps
  <2>4. CASE timeout # 0
    <3>1. stage' = [stage EXCEPT ![b] = "compile"] /\ verdict' = [verdict EXCEPT ![b] = verdict[b]]
      BY <1>3, <2>4 DEF SuiteInv, SuiteType
    <3>2. ~f.failed /\ f.timeout \in 1 .. S!MAX_TIMEOUT /\ verdict[b] \in BOOLEAN
      BY <1>1, <2>1, <2>2, <2>4 DEF SuiteInv, SuiteType, OwnVerdicts, OwnVerdict
    <3>3. QED
      BY <1>1, <2>2, <3>1, <3>2, ThreadKeeps
  <2>5. QED
    BY <2>3, <2>4
<1>4. QED
  BY <1>2, <1>3 DEF S!ReadHeaders

LEMMA BuildKeeps ==
  ASSUME S!SuiteAssumption, SuiteInv, NEW b \in BenchSet, S!Build(b)
  PROVE  SuiteInv'
<1>1. stage[b] = "compile" /\ UNCHANGED <<spc, jobs, selected, sat, results, sexit>>
  BY DEF S!Build, S!Unharmed
<1>2. ASSUME S!Fails(b) PROVE SuiteInv'
  BY <1>1, <1>2, FailsKeeps
<1>3. ASSUME stage' = [stage EXCEPT ![b] = "vvp"], UNCHANGED <<fate, verdict>> PROVE SuiteInv'
  <2>1. /\ verdict' = [verdict EXCEPT ![b] = verdict[b]] /\ verdict[b] \in BOOLEAN
        /\ fate' = [fate EXCEPT ![b] = fate[b]]
        /\ fate[b] \in [failed : BOOLEAN, timeout : Nat, seconds : Nat]
        /\ ~fate[b].failed /\ fate[b].timeout \in 1 .. S!MAX_TIMEOUT
    BY <1>1, <1>3 DEF SuiteInv, SuiteType, OwnVerdicts, OwnVerdict
  <2>2. QED
    BY <1>1, <1>3, <2>1, ThreadKeeps
<1>4. QED
  BY <1>2, <1>3 DEF S!Build

\* A simulation that has ended, or has been killed, has a verdict of its own.
LEMMA SimulationKeeps ==
  ASSUME S!SuiteAssumption, SuiteInv, NEW b \in BenchSet, stage[b] = "vvp",
         UNCHANGED <<spc, jobs, selected, sat, results, sexit>>,
         NEW f \in [failed : BOOLEAN, timeout : Nat, seconds : Nat],
         fate' = [fate EXCEPT ![b] = f],
         f.timeout = fate[b].timeout, f.seconds \in RunTimes,
         NEW ok \in BOOLEAN, S!Ends(b, ok),
         ok <=> ~f.failed /\ f.seconds <= f.timeout
  PROVE  SuiteInv'
<1>1. f.timeout \in 1 .. S!MAX_TIMEOUT /\ f.seconds \in Nat \ {0} /\ f.timeout \in Nat
  BY DEF SuiteInv, SuiteType, OwnVerdicts, OwnVerdict, S!SuiteAssumption
<1>2. stage' = [stage EXCEPT ![b] = "done"] /\ verdict' = [verdict EXCEPT ![b] = ok]
  BY DEF S!Ends
<1>3. S!Clean(f) <=> ok
  BY <1>1 DEF S!Clean
<1>4. ok = S!Clean(f)
  BY <1>3 DEF S!Clean
<1>5. QED
  BY <1>2, <1>4, ThreadKeeps

LEMMA VvpKeeps ==
  ASSUME S!SuiteAssumption, SuiteInv, NEW b \in BenchSet, S!Vvp(b)
  PROVE  SuiteInv'
<1>1. stage[b] = "vvp" /\ UNCHANGED <<spc, jobs, selected, sat, results, sexit>>
  BY DEF S!Vvp, S!Unharmed
<1>2. PICK seconds \in RunTimes, answer \in {"exit", "marker", "silent", "pass"} :
        /\ seconds <= fate[b].timeout
        /\ fate' = [fate EXCEPT ![b].failed = answer # "pass", ![b].seconds = seconds]
        /\ S!Ends(b, answer = "pass")
  BY DEF S!Vvp
<1> DEFINE failed == answer # "pass"
           g == [fate[b] EXCEPT !.failed = failed]
           f == [g EXCEPT !.seconds = seconds]
<1>3. fate' = [fate EXCEPT ![b] = f]
  BY <1>2 DEF SuiteInv, SuiteType
<1>4. failed \in BOOLEAN /\ seconds \in Nat
  BY DEF S!SuiteAssumption
<1>5. (answer = "pass") <=> ~failed
  OBVIOUS
<1> HIDE DEF failed
<1>6. g \in [failed : BOOLEAN, timeout : Nat, seconds : Nat] /\ g.failed = failed
      /\ g.timeout = fate[b].timeout
  BY <1>4 DEF SuiteInv, SuiteType
<1> HIDE DEF g
<1>7. f \in [failed : BOOLEAN, timeout : Nat, seconds : Nat] /\ f.failed = failed
      /\ f.timeout = fate[b].timeout /\ f.seconds = seconds
  BY <1>4, <1>6
<1> HIDE DEF f
<1>8. (answer = "pass") <=> ~f.failed /\ f.seconds <= f.timeout
  BY <1>2, <1>5, <1>7
<1>9. QED
  BY <1>1, <1>2, <1>3, <1>7, <1>8, SimulationKeeps

LEMMA ExpiredKeeps ==
  ASSUME S!SuiteAssumption, SuiteInv, NEW b \in BenchSet, S!TimeoutExpired(b)
  PROVE  SuiteInv'
<1>1. /\ stage[b] = "vvp" /\ UNCHANGED <<spc, jobs, selected, sat, results, sexit>>
      /\ S!Ends(b, FALSE)
  BY DEF S!TimeoutExpired, S!Unharmed
<1>2. PICK seconds \in RunTimes :
        seconds > fate[b].timeout /\ fate' = [fate EXCEPT ![b].seconds = seconds]
  BY DEF S!TimeoutExpired
<1> DEFINE f == [fate[b] EXCEPT !.seconds = seconds]
<1>3. fate' = [fate EXCEPT ![b] = f]
  BY <1>2
<1>4. seconds \in Nat /\ fate[b].timeout \in Nat
  BY DEF S!SuiteAssumption, SuiteInv, SuiteType
<1>5. f \in [failed : BOOLEAN, timeout : Nat, seconds : Nat] /\ f.timeout = fate[b].timeout
      /\ f.seconds = seconds
  BY <1>4 DEF SuiteInv, SuiteType
<1> HIDE DEF f
<1>6. ~(f.seconds <= f.timeout)
  BY <1>2, <1>4, <1>5
<1>7. QED
  BY <1>1, <1>3, <1>5, <1>6, SimulationKeeps

-----------------------------------------------------------------------------
(* The thread of main *)

LEMMA ParseKeeps ==
  ASSUME S!SuiteAssumption, SuiteInv, S!job_count
  PROVE  SuiteInv'
<1> DEFINE n == Len(selected.checks)
<1>1. /\ spc = "parse" /\ UNCHANGED <<selected, sat, stage, fate, verdict, results>>
      /\ \/ spc' = "checks" /\ UNCHANGED sexit
         \/ spc' = "ended" /\ sexit' = 2
  BY DEF S!job_count
<1>2. n \in Nat
  BY SelectedType DEF SuiteInv
<1>3. results = <<>> /\ sat = 1 /\ sexit = -1
  BY <1>1 DEF SuiteInv, Reached
<1>4. n' = n
  BY <1>1
<1>5. SuiteType' /\ OwnVerdicts'
  BY <1>1 DEF SuiteInv, SuiteType, OwnVerdicts, OwnVerdict, S!Clean
<1>6. Reported'
  <2>1. sexit' # 0
    BY <1>1, <1>3
  <2>2. QED
    BY <2>1 DEF Reported
<1>7. Len(results') = 0
  BY <1>1, <1>3
<1>8. Reached' <=> /\ spc' = "checks" => 0 = sat' - 1 /\ sat' <= n + 1
                   /\ spc' # "ended" => sexit' = -1
  BY <1>1, <1>3, <1>4, <1>7 DEF Reached
<1>9. Collected' <=> \A i \in 1 .. 0 - n :
                       /\ i \in DOMAIN selected.benches
                       /\ stage'[selected.benches[i]] = "done"
                       /\ results'[n + i] = <<selected.benches[i], verdict'[selected.benches[i]]>>
  BY <1>1, <1>4, <1>7 DEF Collected
<1> HIDE DEF n
<1>10. 1 .. 0 - n = {} /\ 0 = 1 - 1 /\ 1 <= n + 1
  BY <1>2
<1>11. QED
  BY <1>1, <1>3, <1>5, <1>6, <1>8, <1>9, <1>10 DEF SuiteInv

LEMMA CheckEndsKeeps ==
  ASSUME S!SuiteAssumption, SuiteInv, S!CheckEnds, sat <= Len(selected.checks)
  PROVE  SuiteInv'
<1>1. /\ spc = "checks" /\ results' = Append(results, <<sat, scode = 0>>) /\ sat' = sat + 1
      /\ UNCHANGED <<spc, selected, stage, fate, verdict, sexit>>
  BY DEF S!CheckEnds
<1>2. Len(selected.checks) \in Nat /\ Len(selected.benches) \in Nat
  BY SelectedType DEF SuiteInv
<1>3. <<sat, scode = 0>> \in (Nat \cup BenchSet) \X BOOLEAN
  BY DEF SuiteInv, SuiteType
<1>4. results' \in Seq((Nat \cup BenchSet) \X BOOLEAN) /\ Len(results') = Len(results) + 1
  BY <1>1, <1>3 DEF SuiteInv, SuiteType
<1>5. Len(results') = sat' - 1 /\ Len(results') <= Len(selected.checks)
  BY <1>1, <1>2, <1>4 DEF SuiteInv, SuiteType, Reached
<1>6. SuiteType' /\ OwnVerdicts'
  BY <1>1, <1>4 DEF SuiteInv, SuiteType, OwnVerdicts, OwnVerdict, S!Clean
<1>7. Reached' /\ Reported'
  BY <1>1, <1>2, <1>5 DEF SuiteInv, SuiteType, Reached, Reported
<1>8. Collected'
  <2>1. Len(results') \in Nat
    BY <1>4
  <2>2. 1 .. Len(results') - Len(selected.checks) = {}
    BY <1>2, <1>5, <2>1
  <2>3. QED
    BY <1>1, <2>2 DEF Collected
<1>9. QED
  BY <1>6, <1>7, <1>8 DEF SuiteInv

LEMMA ChecksDoneKeeps ==
  ASSUME S!SuiteAssumption, SuiteInv, S!ChecksDone
  PROVE  SuiteInv'
<1> DEFINE n == Len(selected.checks)
           m == Len(selected.benches)
<1>1. /\ spc = "checks" /\ spc' = "benches" /\ sat > n
      /\ UNCHANGED <<selected, sat, stage, fate, verdict, results, sexit>>
  BY DEF S!ChecksDone
<1>2. n \in Nat /\ m \in Nat
  BY SelectedType DEF SuiteInv
<1>3. sat \in Nat /\ Len(results) = sat - 1 /\ sat <= n + 1 /\ sexit = -1
  BY <1>1 DEF SuiteInv, SuiteType, Reached
<1>4. SuiteType' /\ OwnVerdicts'
  BY <1>1 DEF SuiteInv, SuiteType, OwnVerdicts, OwnVerdict, S!Clean
<1>5. Reached' <=> n <= Len(results) /\ Len(results) <= n + m
  BY <1>1, <1>3 DEF Reached
<1>6. Reported'
  <2>1. sexit' # 0
    BY <1>1, <1>3
  <2>2. QED
    BY <2>1 DEF Reported
<1>7. Collected' <=> \A i \in 1 .. Len(results) - n :
                       /\ i \in DOMAIN selected.benches
                       /\ stage[selected.benches[i]] = "done"
                       /\ results[n + i] = <<selected.benches[i], verdict[selected.benches[i]]>>
  BY <1>1 DEF Collected
<1> HIDE DEF n, m
<1>8. Len(results) = n
  BY <1>1, <1>2, <1>3
<1>9. 1 .. n - n = {} /\ n <= n /\ n <= n + m
  BY <1>2
<1>10. QED
  BY <1>4, <1>5, <1>6, <1>7, <1>8, <1>9 DEF SuiteInv

LEMMA Appended ==
  ASSUME NEW T, NEW q \in Seq(T), NEW e \in T
  PROVE  /\ Append(q, e) \in Seq(T) /\ Len(Append(q, e)) = Len(q) + 1
         /\ Append(q, e)[Len(q) + 1] = e
         /\ \A i \in 1 .. Len(q) : Append(q, e)[i] = q[i]
OBVIOUS

LEMMA CollectKeeps ==
  ASSUME S!SuiteAssumption, SuiteInv, S!Collect
  PROVE  SuiteInv'
<1> DEFINE n == Len(selected.checks)
           m == Len(selected.benches)
           l == Len(results)
           k == l - n + 1
           b == selected.benches[k]
           r == <<b, verdict[b]>>
<1>1. /\ spc = "benches" /\ k <= m /\ stage[b] = "done"
      /\ results' = Append(results, r)
      /\ UNCHANGED <<spc, selected, sat, stage, fate, verdict, sexit>>
  BY DEF S!Collect
<1>2. n \in Nat /\ m \in Nat /\ selected.benches \in Seq(BenchSet)
  BY SelectedType DEF SuiteInv
<1>3. l \in Nat /\ n <= l /\ sexit = -1 /\ results \in Seq((Nat \cup BenchSet) \X BOOLEAN)
  BY <1>1 DEF SuiteInv, SuiteType, Reached
<1>0. k = l - n + 1 /\ l = Len(results)
  OBVIOUS
<1>4. b = selected.benches[k] /\ r = <<b, verdict[b]>>
  OBVIOUS
<1>5. \A i \in 1 .. m : selected.benches[i] \in BenchSet /\ i \in DOMAIN selected.benches
  BY <1>2
<1>6. Reached' <=> n <= Len(results') /\ Len(results') <= n + m
  BY <1>1, <1>3 DEF Reached
<1>7. (\A i \in 1 .. Len(results') - n :
         /\ i \in DOMAIN selected.benches
         /\ stage[selected.benches[i]] = "done"
         /\ results'[n + i] = <<selected.benches[i], verdict[selected.benches[i]]>>)
      => Collected'
  BY <1>1 DEF Collected
<1>8. \A i \in 1 .. l - n :
        /\ i \in DOMAIN selected.benches
        /\ stage[selected.benches[i]] = "done"
        /\ results[n + i] = <<selected.benches[i], verdict[selected.benches[i]]>>
  BY DEF SuiteInv, Collected
<1>9. Reported'
  <2>1. sexit' # 0
    BY <1>1, <1>3
  <2>2. QED
    BY <2>1 DEF Reported
<1> HIDE DEF k, n, m, l, b, r
<1>10. r \in (Nat \cup BenchSet) \X BOOLEAN =>
         /\ results' \in Seq((Nat \cup BenchSet) \X BOOLEAN) /\ Len(results') = l + 1
         /\ results'[l + 1] = r
         /\ \A i \in 1 .. l : results'[i] = results[i]
  <2>1. ASSUME r \in (Nat \cup BenchSet) \X BOOLEAN
        PROVE  /\ Append(results, r) \in Seq((Nat \cup BenchSet) \X BOOLEAN)
               /\ Len(Append(results, r)) = Len(results) + 1
               /\ Append(results, r)[Len(results) + 1] = r
               /\ \A i \in 1 .. Len(results) : Append(results, r)[i] = results[i]
    BY <1>3, <2>1, Appended
  <2>2. QED
    BY <1>0, <1>1, <2>1, Zenon
<1>11. k \in 1 .. m /\ n + k = l + 1
  BY <1>0, <1>1, <1>2, <1>3
<1>12. r \in (Nat \cup BenchSet) \X BOOLEAN
  <2>1. b \in BenchSet
    BY <1>4, <1>5, <1>11
  <2>2. verdict[b] \in BOOLEAN
    BY <2>1 DEF SuiteInv, SuiteType
  <2>3. QED
    BY <1>4, <2>1, <2>2
<1>13. SuiteType' /\ OwnVerdicts'
  BY <1>1, <1>10, <1>12 DEF SuiteInv, SuiteType, OwnVerdicts, OwnVerdict, S!Clean
<1>14. Reached'
  BY <1>1, <1>2, <1>3, <1>6, <1>10, <1>11, <1>12
<1>15. Collected'
  <2> DEFINE L == Len(results')
  <2>1. L = l + 1
    BY <1>10, <1>12
  <2>2. \A i \in 1 .. L - n : i \in 1 .. l + 1 - n
    <3> HIDE DEF L
    <3>1. QED
      BY <1>2, <1>3, <2>1
  <2> SUFFICES ASSUME NEW i \in 1 .. L - n
               PROVE  /\ i \in DOMAIN selected.benches
                      /\ stage[selected.benches[i]] = "done"
                      /\ results'[n + i] = <<selected.benches[i], verdict[selected.benches[i]]>>
    BY <1>7, Zenon
  <2>3. CASE i = k
    <3>1. k \in DOMAIN selected.benches
      BY <1>5, <1>11
    <3>2. QED
      BY <1>1, <1>4, <1>10, <1>11, <1>12, <2>3, <3>1
  <2>4. CASE i # k
    <3>1. i \in 1 .. l - n /\ n + i \in 1 .. l
      <4>1. n \in Nat /\ l \in Nat /\ n <= l /\ i # l - n + 1
        BY <1>0, <1>2, <1>3, <2>4
      <4>2. i \in 1 .. l + 1 - n
        BY <2>2
      <4>3. QED
        BY <4>1, <4>2
    <3>2. results'[n + i] = results[n + i]
      BY <1>10, <1>12, <3>1
    <3>3. QED
      BY <1>8, <3>1, <3>2
  <2>5. QED
    BY <2>3, <2>4
<1>16. QED
  BY <1>9, <1>13, <1>14, <1>15 DEF SuiteInv

LEMMA ReportKeeps ==
  ASSUME S!SuiteAssumption, SuiteInv, S!Report
  PROVE  SuiteInv'
<1>1. /\ Len(results) = Len(selected.checks) + Len(selected.benches)
      /\ spc' = "ended"
      /\ sexit' = IF results # <<>> /\ \A i \in DOMAIN results : results[i][2] THEN 0 ELSE 1
      /\ UNCHANGED <<selected, sat, stage, fate, verdict, results>>
  BY DEF S!Report
<1>2. Reported'
  <2>1. sexit' = 0 => results # <<>> /\ \A i \in DOMAIN results : results[i][2]
    <3>1. 0 # 1
      OBVIOUS
    <3>2. QED
      BY <1>1, <3>1, Zenon
  <2>2. QED
    BY <1>1, <2>1, Zenon DEF Reported
<1>3. QED
  BY <1>1, <1>2 DEF SuiteInv, SuiteType, Reached, OwnVerdicts, OwnVerdict, Collected, S!Clean

LEMMA RunnerStutterKeeps ==
  ASSUME SuiteInv, UNCHANGED S!runner
  PROVE  SuiteInv'
BY DEF S!runner, SuiteInv, SuiteType, Reached, OwnVerdicts, OwnVerdict, Collected, Reported, S!Clean

-----------------------------------------------------------------------------
(* The runner as a whole *)

\* A check runs only where the list of them has one.
InHand ==
  /\ spc = "parse" => step = "idle"
  /\ spc = "checks" /\ step # "idle" => sat <= Len(selected.checks)

RunnerInv == CheckInv /\ SuiteInv /\ InHand

LEMMA RunnerInitInv ==
  ASSUME S!SuiteAssumption, S!Init
  PROVE  RunnerInv
<1>1. S!WellFormed(S!PlainCheck)
  <2> DEFINE none == <<>>
             bare == S!Check(none)
  <2>1. S!PlainCheck = [bare EXCEPT !.contract = TRUE]
    BY DEF S!PlainCheck
  <2>2. none \in Seq(S!TrialType) /\ DOMAIN none = {}
    OBVIOUS
  <2> HIDE DEF none
  <2>3. /\ bare \in [contract : BOOLEAN, elaborates : BOOLEAN, ahead : BOOLEAN, scans : BOOLEAN,
                     shared : BOOLEAN, extracts : BOOLEAN, builds : BOOLEAN, trials : Seq(S!TrialType)]
        /\ bare.trials = none
    BY <2>2 DEF S!Check
  <2> HIDE DEF bare
  <2>4. /\ S!PlainCheck \in [contract : BOOLEAN, elaborates : BOOLEAN, ahead : BOOLEAN,
                           scans : BOOLEAN, shared : BOOLEAN, extracts : BOOLEAN,
                           builds : BOOLEAN, trials : Seq(S!TrialType)]
        /\ S!PlainCheck.contract = TRUE /\ S!PlainCheck.trials = none
    BY <2>1, <2>3
  <2>5. QED
    BY <2>2, <2>4 DEF S!WellFormed
<1>2. CheckInv
  <2>1. /\ script = S!PlainCheck /\ trial = 1 /\ step = "idle" /\ shown = {} /\ scode = -1
    BY DEF S!Init
  <2>2. QED
    BY <1>1, <2>1 DEF CheckInv, ControlType, OneByOne, MutantsMade, ShownChanged, Steps
<1>3. SuiteInv
  <2>1. /\ spc = "parse" /\ selected \in Selections /\ sat = 1 /\ results = <<>> /\ sexit = -1
        /\ stage = [b \in BenchSet |-> "queued"] /\ fate = [b \in BenchSet |-> S!Untouched]
        /\ verdict = [b \in BenchSet |-> FALSE]
    BY DEF S!Init, BenchSet
  <2>2. SuiteType
    BY <2>1 DEF SuiteType, S!Untouched
  <2>3. OwnVerdicts
    BY <2>1 DEF OwnVerdicts, OwnVerdict, S!Untouched
  <2>4. Len(selected.checks) \in Nat /\ Len(results) = 0
    BY <2>1, <2>2, SelectedType
  <2>5. Collected
    <3>1. 1 .. 0 - Len(selected.checks) = {}
      BY <2>4
    <3>2. QED
      BY <2>4, <3>1 DEF Collected
  <2>6. QED
    BY <2>1, <2>2, <2>3, <2>5 DEF SuiteInv, Reached, Reported
<1>4. InHand
  BY DEF S!Init, InHand
<1>5. QED
  BY <1>2, <1>3, <1>4 DEF RunnerInv

LEMMA RunnerStepInv ==
  ASSUME S!SuiteAssumption, RunnerInv, S!Next \/ UNCHANGED S!vars
  PROVE  RunnerInv'
<1> USE DEF RunnerInv
<1>0. InHand'
  <2>1. CASE S!job_count \/ S!ChecksDone \/ S!Collect \/ S!Report
    BY <2>1, Zenon DEF InHand, S!job_count, S!ChecksDone, S!Collect, S!Report, S!control
  <2>2. CASE S!StartCheck \/ S!CheckRuns \/ S!CheckEnds
    BY <2>2 DEF InHand, S!StartCheck, S!CheckRuns, S!CheckEnds, S!Running, S!runner
  <2>3. ASSUME NEW b \in S!ToSet(Benches), S!Take(b) \/ S!run_testbench(b) PROVE InHand'
    <3>1. UNCHANGED <<step, spc, sat, selected>>
      BY <2>3, Zenon DEF S!Take, S!run_testbench, S!ReadHeaders, S!Build, S!Vvp, S!TimeoutExpired, S!Unharmed, S!control
    <3>2. QED
      BY <3>1 DEF InHand
  <2>4. CASE UNCHANGED S!vars
    BY <2>4 DEF S!vars, S!control, S!runner, InHand
  <2>5. QED
    BY <2>1, <2>2, <2>3, <2>4 DEF S!Next
<1>1. ASSUME S!job_count PROVE CheckInv' /\ SuiteInv'
  BY <1>1, ParseKeeps, CheckKept, Zenon DEF S!job_count, CheckMoves, S!control
<1>2. ASSUME S!StartCheck PROVE CheckInv' /\ SuiteInv'
  <2>1. S!WellFormed(selected.checks[sat])
    <3>1. /\ sat \in Nat \ {0} /\ sat <= Len(selected.checks)
          /\ selected.checks \in Seq(S!ToSet(Checks))
      BY <1>2, SelectedType DEF S!StartCheck, SuiteInv, SuiteType
    <3>2. selected.checks[sat] \in S!ToSet(Checks)
      BY <3>1
    <3>3. QED
      BY <3>2 DEF S!SuiteAssumption, S!ToSet
  <2>2. CheckInv'
    BY <1>2, <2>1, CheckKept DEF S!StartCheck, CheckMoves
  <2>3. SuiteInv'
    BY <1>2, RunnerStutterKeeps DEF S!StartCheck
  <2>4. QED
    BY <2>2, <2>3
<1>3. ASSUME S!CheckRuns PROVE CheckInv' /\ SuiteInv'
  BY <1>3, RunnerStutterKeeps, CheckKept DEF S!CheckRuns, CheckMoves
<1>4. ASSUME S!CheckEnds PROVE CheckInv' /\ SuiteInv'
  <2>1. sat <= Len(selected.checks)
    BY <1>4 DEF S!CheckEnds, InHand
  <2>2. SuiteInv'
    BY <1>4, <2>1, CheckEndsKeeps
  <2>3. CheckInv'
    BY <1>4, CheckKept DEF S!CheckEnds, CheckMoves
  <2>4. QED
    BY <2>2, <2>3
<1>5. ASSUME S!ChecksDone PROVE CheckInv' /\ SuiteInv'
  BY <1>5, ChecksDoneKeeps, CheckKept, Zenon DEF S!ChecksDone, CheckMoves, S!control
<1>6. ASSUME S!Collect PROVE CheckInv' /\ SuiteInv'
  BY <1>6, CollectKeeps, CheckKept, Zenon DEF S!Collect, CheckMoves, S!control
<1>7. ASSUME S!Report PROVE CheckInv' /\ SuiteInv'
  BY <1>7, ReportKeeps, CheckKept, Zenon DEF S!Report, CheckMoves, S!control
<1>8. ASSUME NEW b \in S!ToSet(Benches), S!Take(b) PROVE CheckInv' /\ SuiteInv'
  BY <1>8, TakeKeeps, CheckKept, Zenon DEF S!Take, CheckMoves, S!control, BenchSet
<1>9. ASSUME NEW b \in S!ToSet(Benches), S!run_testbench(b) PROVE CheckInv' /\ SuiteInv'
  <2>1. SuiteInv'
    BY <1>9, HeadersKeep, BuildKeeps, VvpKeeps, ExpiredKeeps, Zenon DEF S!run_testbench, BenchSet
  <2>2. UNCHANGED S!control
    BY <1>9, Zenon DEF S!run_testbench, S!ReadHeaders, S!Build, S!Vvp, S!TimeoutExpired, S!Unharmed
  <2>3. QED
    BY <2>1, <2>2, CheckKept DEF CheckMoves
<1>10. ASSUME UNCHANGED S!vars PROVE CheckInv' /\ SuiteInv'
  BY <1>10, RunnerStutterKeeps, CheckKept DEF S!vars, CheckMoves
<1>11. QED
  BY <1>0, <1>1, <1>2, <1>3, <1>4, <1>5, <1>6, <1>7, <1>8, <1>9, <1>10 DEF S!Next

\* A check that ends with 0 has proved something: every trial it has was run and
\* showed what it is for, and no mutant was the shipped text under another name.
LEMMA NotVacuous ==
  ASSUME RunnerInv
  PROVE  S!NoVacuousControl
<1> SUFFICES ASSUME step = "ended", scode = 0
             PROVE  /\ shown = DOMAIN S!Trials
                    /\ \A i \in DOMAIN S!Trials : S!Trials[i].wants = "failure" => i \in changed
  BY DEF S!NoVacuousControl
<1>1. shown = 1 .. Len(S!Trials) /\ S!Trials \in Seq(S!TrialType)
  BY DEF RunnerInv, CheckInv, OneByOne, ControlType, S!WellFormed, S!Trials
<1>2. shown = DOMAIN S!Trials
  BY <1>1
<1>3. QED
  BY <1>2 DEF RunnerInv, CheckInv, ShownChanged

\* Whatever the threads did, the report is that of a serial run, each bench with the
\* verdict of what it met with itself; and only a run with at least one result, all
\* of them clean, ends with 0.
LEMMA Serial ==
  ASSUME S!SuiteAssumption, RunnerInv
  PROVE  S!ReportIsSerial
<1> DEFINE n == Len(selected.checks)
           m == Len(selected.benches)
<1>1. n \in Nat /\ m \in Nat /\ selected.benches \in Seq(BenchSet)
  BY SelectedType DEF RunnerInv, SuiteInv
<1>2. \A i \in 1 .. m : selected.benches[i] \in BenchSet
  BY <1>1
<1>3. \A i \in 1 .. Len(results) - n :
        /\ i \in DOMAIN selected.benches
        /\ stage[selected.benches[i]] = "done"
        /\ results[n + i] = <<selected.benches[i], verdict[selected.benches[i]]>>
  BY DEF RunnerInv, SuiteInv, Collected
<1>4. \A b \in BenchSet : stage[b] = "done" => verdict[b] = S!Clean(fate[b])
  BY DEF RunnerInv, SuiteInv, OwnVerdicts, OwnVerdict
<1>5. sexit = 0 => /\ Len(results) = n + m /\ results # <<>>
                 /\ \A i \in DOMAIN results : results[i][2]
  BY DEF RunnerInv, SuiteInv, Reported
<1>6. results \in Seq((Nat \cup BenchSet) \X BOOLEAN)
  BY DEF RunnerInv, SuiteInv, SuiteType
<1>7. DOMAIN results = 1 .. Len(results) /\ Len(results) \in Nat
  BY <1>6
<1>8. DOMAIN selected.benches = 1 .. m
  BY <1>1
<1>9. (/\ \A i \in 1 .. Len(results) - n :
            results[n + i] = <<selected.benches[i], S!Clean(fate[selected.benches[i]])>>
       /\ sexit = 0 =>
            /\ Len(results) = n + m
            /\ results # <<>> /\ \A b \in S!ToSet(selected.benches) : S!Clean(fate[b]))
      => S!ReportIsSerial
  BY DEF S!ReportIsSerial
<1> HIDE DEF n, m
<1>10. \A i \in 1 .. Len(results) - n :
         /\ verdict[selected.benches[i]] = S!Clean(fate[selected.benches[i]])
         /\ results[n + i] = <<selected.benches[i], S!Clean(fate[selected.benches[i]])>>
  BY <1>2, <1>3, <1>4, <1>8
<1>11. ASSUME sexit = 0, NEW b \in S!ToSet(selected.benches) PROVE S!Clean(fate[b])
  <2>1. PICK i \in 1 .. m : b = selected.benches[i]
    BY <1>8 DEF S!ToSet
  <2>2. Len(results) = n + m /\ \A h \in 1 .. Len(results) : results[h][2]
    BY <1>5, <1>7, <1>11
  <2>3. n + i \in 1 .. n + m /\ i \in 1 .. n + m - n
    BY <1>1, <2>1
  <2>4. results[n + i] = <<b, S!Clean(fate[b])>> /\ results[n + i][2]
    <3>1. i \in 1 .. Len(results) - n /\ n + i \in 1 .. Len(results)
      BY <1>1, <1>7, <2>1, <2>2
    <3>2. QED
      BY <1>10, <2>1, <2>2, <3>1
  <2>5. <<b, S!Clean(fate[b])>>[2] = S!Clean(fate[b])
    OBVIOUS
  <2>6. QED
    BY <2>4, <2>5, Zenon
<1>12. QED
  BY <1>5, <1>9, <1>10, <1>11

-----------------------------------------------------------------------------
(* The tools together *)

\* The invariant of the tool in use; a verifier that is not in use says nothing.
HostInv ==
  /\ IF tool = "verify" THEN VInv ELSE vstatus = -1
  /\ tool = "match" => MInv
  /\ tool = "run_all" => RunnerInv

\* Each use begins in it, on the sessions, the uses and the suites assumed.
LEMMA HostInitInv == HostInit => HostInv
<1>1. ASSUME Preparing PROVE HostInv
  BY <1>1 DEF Preparing, NotVerifying, HostInv
<1>2. ASSUME Verifying PROVE HostInv
  <2>1. PICK s \in Sessions : V!Begins(s) BY <1>2 DEF Verifying
  <2>2. V!IsSession(s) BY HostAssumption
  <2>3. VInv BY <2>1, <2>2, VInitInv
  <2>. QED BY <1>2, <2>3 DEF Verifying, HostInv
<1>3. ASSUME Matching PROVE HostInv
  <2>1. PICK u \in Libraries : M!Begins(u.dats, u.dumps, u.paths) BY <1>3 DEF Matching
  <2>2. M!IsUse(u.dats, u.dumps, u.paths) BY HostAssumption
  <2>3. MInv BY <2>1, <2>2, MInitInv
  <2>. QED BY <1>3, <2>3 DEF Matching, NotVerifying, HostInv
<1>4. ASSUME RunningAll PROVE HostInv
  <2>1. RunnerInv BY <1>4, RunnerInitInv, HostAssumption DEF RunningAll
  <2>. QED BY <1>4, <2>1 DEF RunningAll, NotVerifying, HostInv
<1>. QED BY <1>1, <1>2, <1>3, <1>4 DEF HostInit

\* A step of one tool leaves the others as they are.
LEMMA HostStepInv == HostInv /\ [HostNext]_hostVars => HostInv'
<1>. SUFFICES ASSUME HostInv, [HostNext]_hostVars PROVE HostInv' OBVIOUS
<1>1. ASSUME tool = "prepare", UNCHANGED <<tool, verifier, matcher, suite>> PROVE HostInv'
  BY <1>1 DEF HostInv, verifier
<1>2. ASSUME tool = "verify", V!Next, UNCHANGED <<tool, vars, matcher, suite>> PROVE HostInv'
  <2>1. VInv' BY <1>2, VNextInv DEF HostInv
  <2>. QED BY <1>2, <2>1 DEF HostInv
<1>3. ASSUME tool = "match", M!Next, UNCHANGED <<tool, vars, verifier, suite>> PROVE HostInv'
  <2>1. MInv' BY <1>3, MNextInv DEF HostInv
  <2>. QED BY <1>3, <2>1 DEF HostInv, verifier
<1>4. ASSUME tool = "run_all", S!Next, UNCHANGED <<tool, vars, verifier, matcher>> PROVE HostInv'
  <2>1. RunnerInv' BY <1>4, RunnerStepInv, HostAssumption DEF HostInv
  <2>. QED BY <1>4, <2>1 DEF HostInv, verifier
<1>5. ASSUME UNCHANGED hostVars PROVE HostInv'
  <2>1. UNCHANGED <<tool, V!vars, matcher, S!vars, vstatus>>
    BY <1>5 DEF hostVars, verifier, matcher, suite, V!vars, S!vars, S!control, S!runner
  <2>2. VInv => VInv' BY <2>1, VStutterInv
  <2>3. MInv => MInv' BY <2>1, MStutterInv DEF matcher, M!vars
  <2>4. RunnerInv => RunnerInv' BY <2>1, RunnerStepInv, HostAssumption
  <2>. QED BY <2>1, <2>2, <2>3, <2>4 DEF HostInv
<1>. QED BY <1>1, <1>2, <1>3, <1>4, <1>5 DEF HostNext

\* Whichever tool is used, and whatever the card, the library, the suite and the
\* environment do, its invariant holds.
THEOREM HostInvariance == HostSpec => []HostInv
BY HostInitInv, HostStepInv, PTL DEF HostSpec

\* What the preparer promises it promises beside the other tools.
THEOREM PreparerIsPartOfIt == HostSpec => Spec
<1>1. HostInit => Init
  BY DEF HostInit, Preparing, Verifying, Matching, RunningAll, NotPreparing
<1>2. [HostNext]_hostVars => [Next]_vars
  BY DEF HostNext, hostVars
<1>. QED BY <1>1, <1>2, PTL DEF HostSpec, Spec

\* Status 0 of verify_dump clears the files: each was there when it was read, showed
\* no truncation, changed byte, stuck data line, dead bank select or length other
\* than its ROM names, and agreed with every reference that was given, whatever the
\* card loses meanwhile; and the line a comparison names is the only one that differs.
THEOREM ClearedIsUndamaged == HostSpec => []DamageIsCaught
<1>1. HostInv => DamageIsCaught
  <2>1. CASE tool = "verify" BY <2>1, VInvIsEnough DEF HostInv, DamageIsCaught
  <2>2. CASE tool # "verify"
    BY <2>2 DEF HostInv, DamageIsCaught, V!DamageIsCaught, V!LineIsNamed
  <2>. QED BY <2>1, <2>2
<1>. QED BY <1>1, HostInvariance, PTL

\* The verifier and the core agree on the length of every save: a save as long as
\* cart_save_gb reads it is of a legal length, and not failed for its length
\* whatever ROM dump with that header, whole or cut short, lies beside it.
THEOREM SavesAreSizedAlike ==
  ASSUME NEW rom, NEW save, NEW ext,
         V!supported(V!CartType(rom), V!RamCode(rom)), save.len = V!total_bytes(V!RamCode(rom))
  PROVE  /\ save.len \in V!LegalSizes
         /\ \A l \in V!SizeBeside(save, ext, rom) : l[1] # "FAIL"
<1> DEFINE type == V!CartType(rom)
           code == V!RamCode(rom)
<1>1. /\ type \notin V!MBC2 /\ code \in DOMAIN V!RAM_SIZES
      /\ V!RAM_SIZES[code] = V!total_bytes(code) /\ V!total_bytes(code) \in V!LegalSizes
  BY SavesAreTabled
<1>. HIDE DEF type, code
<1>4. save.len = V!total_bytes(code) BY DEF code
<1>5. \A l \in V!SizeBeside(save, ext, rom) : l[1] # "FAIL"
  <2>1. V!SizeBeside(save, ext, rom) \subseteq V!Ok("size matches the cartridge header")
    BY <1>1, <1>4 DEF V!SizeBeside, V!Judge, type, code
  <2>2. ASSUME NEW l \in V!SizeBeside(save, ext, rom) PROVE l[1] # "FAIL"
    <3>1. l = <<"ok", "size matches the cartridge header", 0>> BY <2>1 DEF V!Ok
    <3>. QED BY <3>1
  <2>. QED BY <2>2
<1>. QED BY <1>1, <1>4, <1>5

\* A dump is reported as missed exactly when no DAT of the directory that can be
\* read publishes its own hashes and size, status 0 comes only when every dump was
\* reported and none missed, and the self test finds the matcher able to fail.
THEOREM MatchesArePublished == HostSpec => MatchIsRecorded
<1>1. HostInv /\ [HostNext]_hostVars => [M!MatchStep]_matcher
  <2>. SUFFICES ASSUME HostInv, HostNext, matcher' # matcher PROVE M!MatchStep
    BY DEF hostVars
  <2>1. tool = "match" /\ M!Next BY DEF HostNext, hostVars
  <2>. QED BY <2>1, StepIsRecorded DEF HostInv
<1>. QED BY <1>1, HostInvariance, PTL DEF HostSpec, MatchIsRecorded

\* A check that ends with 0 has proved something: every trial it has was run and
\* showed what it is for, and no mutant was the shipped text under another name.
THEOREM ControlsAreNotVacuous == HostSpec => []NoVacuousControl
<1>1. HostInv => NoVacuousControl BY NotVacuous DEF HostInv, NoVacuousControl
<1>. QED BY <1>1, HostInvariance, PTL

\* Whatever the threads did, the report is that of a serial run, each bench with the
\* verdict of what it met with itself; and only a run with at least one result, all
\* of them clean, ends with 0.
THEOREM ReportsAreSerial == HostSpec => []ReportIsSerial
<1>1. HostInv => ReportIsSerial BY Serial, HostAssumption DEF HostInv, ReportIsSerial
<1>. QED BY <1>1, HostInvariance, PTL

=============================================================================
