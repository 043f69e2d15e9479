----------------------------- MODULE DumpControl -----------------------------
(***************************************************************************)
(* The file actions of src/fpga/core/core_top.sv: X dumps the ROM and Y    *)
(* backs up the save, each only after cart_action_guard has had the        *)
(* cartridge identified anew; A identifies, and so does a cartridge that   *)
(* gets power.  Every step is one clock of clk_sys.                        *)
(*                                                                         *)
(* The dump itself is only its beginning, its abort and its end; the save  *)
(* scan of a GBA cartridge and the EEPROM probe that may follow it are one *)
(* unit.  The restore page is closed: RestoreControl has it.               *)
(***************************************************************************)
EXTENDS Integers, CartProbe

CONSTANTS
  KeySets,        \* the buttons a user may hold down together
  SlotProtocols,  \* the adapters the cartridge may sit in
  Found,          \* what the identifiers may find
  Disturbances,   \* what may happen to the core
  CartWakeCycles  \* clocks from power to the first scan

ASSUME ControlAssumption ==
  /\ KeySets \subseteq SUBSET {"a", "x", "y"}
  /\ SlotProtocols \subseteq Protocols
  /\ Found \subseteq Answers
  /\ Disturbances \subseteq {"power", "reset"}
  /\ CartWakeCycles \in Nat \ {0}

VARIABLES
  action,    \* cart_action_guard
  dump,      \* dump_engine
  sizing,    \* gba_size_probe, and the save scan that follows it
  glue,      \* the registers of core_top around them
  fresh,     \* the last probe began no earlier than the pending request
  outdated   \* a scan was asked for, or the slot changed, since the last dump began

vars == <<probe, action, dump, sizing, glue, fresh, outdated>>

\* Bound: one disturbance at a time, beside any change of the buttons.
Pins(k, d) ==
  [keys |-> k,
   powered |-> IF d = "power" THEN ~glue.cartMode ELSE glue.cartMode,
   resetN |-> d # "reset"]

-----------------------------------------------------------------------------
(* Wires *)

CartModeChange(n) == n.powered # glue.cartMode
CartRunAllowed(n) == n.powered /\ n.resetN
KeyEdge(n, k) == k \in n.keys /\ k \notin glue.keys

ActionCancel(n) == CartModeChange(n) \/ KeyEdge(n, "a") \/ ~n.resetN

SzStart(n) == CartRunAllowed(n) /\ probe.done /\ probe.platform = "GBA"

\* Nothing is said of the clock between the probe and the size probe.
EngineBusyHole(n) == probe.busy \/ sizing.sizing
CartEngineBusy(n) == probe.busy \/ sizing.sizing \/ SzStart(n)

ScanStart(n) ==
  /\ n.resetN
  /\ \/ glue.wakePulse
     \/ CartModeChange(n) /\ ~n.powered
     \/ KeyEdge(n, "a")
     \/ action.scanStart
  /\ ~dump.busy /\ ~sizing.sizing /\ ~SzStart(n)

RomReadable ==
  \/ probe.platform \in {"GB", "GG"}
  \/ probe.platform = "GBA" /\ sizing.sizeValid

\* save_supported of a GB header, gba_save_ok of a scanned GBA ROM.
SaveReadable ==
  \/ probe.platform = "GB" /\ glue.saveSupported
  \/ probe.platform = "GBA" /\ sizing.sizeValid /\ sizing.saveOk

Ready(n) ==
  /\ CartRunAllowed(n) /\ glue.idValid
  /\ ~CartEngineBusy(n)
  /\ ~dump.busy /\ ~action.pending /\ ~action.dumpStart

RomAvailable(n) == Ready(n) /\ RomReadable
SaveAvailable(n) == Ready(n) /\ SaveReadable

\* A GBA ROM without a size is no answer yet.
ValidationAwaited ==
  /\ action.pending
  /\ CASE probe.platform # "GBA" -> probe.done
       [] probe.platform = "GBA" /\ ~action.saveMode -> sizing.sizeDone /\ sizing.sizeValid
       [] probe.platform = "GBA" /\ action.saveMode -> sizing.saveDone

ValidationComplete ==
  /\ action.pending
  /\ CASE probe.platform # "GBA" -> probe.done
       [] probe.platform = "GBA" /\ ~action.saveMode -> sizing.sizeDone
       [] probe.platform = "GBA" /\ action.saveMode ->
            (sizing.sizeDone /\ ~sizing.sizeValid) \/ sizing.saveDone

\* The save scan's verdict as it is the clock it ends.
ValidatedSave ==
  \/ probe.platform = "GB" /\ glue.saveSupported
  \/ probe.platform = "GBA" /\ sizing.sizeValid /\ sizing.saveDone /\ sizing.saveFound

DumpStart(n) == CartRunAllowed(n) /\ action.dumpStart

-----------------------------------------------------------------------------
(* cart_action_guard *)

Unpulsed == [action EXCEPT !.scanStart = FALSE, !.dumpStart = FALSE]

Requested(n) ==
  CASE KeyEdge(n, "x") /\ RomAvailable(n) ->
         [Unpulsed EXCEPT !.pending = TRUE, !.saveMode = FALSE, !.scanStart = TRUE]
    [] ~(KeyEdge(n, "x") /\ RomAvailable(n)) /\ KeyEdge(n, "y") /\ SaveAvailable(n) ->
         [Unpulsed EXCEPT !.pending = TRUE, !.saveMode = TRUE, !.scanStart = TRUE]
    [] OTHER -> Unpulsed

Decided ==
  [Unpulsed EXCEPT !.pending = FALSE,
                   !.dumpStart = IF action.saveMode THEN ValidatedSave ELSE RomReadable]

ActionClock(n) ==
  \/ ActionCancel(n) /\ action' = [Unpulsed EXCEPT !.pending = FALSE, !.saveMode = FALSE]
  \/ ~ActionCancel(n) /\ ~action.pending /\ action' = Requested(n)
  \/ ~ActionCancel(n) /\ action.pending /\ ValidationComplete /\ action' = Decided
  \/ ~ActionCancel(n) /\ action.pending /\ ~ValidationComplete /\ action' = Unpulsed

-----------------------------------------------------------------------------
(* dump_engine, as far as its owner sees it *)

DumpAbort(n) == dump.busy /\ (~n.powered \/ ActionCancel(n))

\* ends: the file is written, or the bus has gone quiet after an abort.
DumpClock(n, ends) ==
  \/ /\ ~dump.busy
     /\ dump' = [busy |-> DumpStart(n), aborted |-> FALSE, done |-> FALSE, failed |-> dump.failed]
  \/ /\ dump.busy /\ ends
     /\ \E failed \in BOOLEAN :
          /\ dump.aborted => failed
          /\ dump' = [busy |-> FALSE, aborted |-> FALSE, done |-> TRUE, failed |-> failed]
  \/ /\ dump.busy /\ ~ends
     /\ dump' = [dump EXCEPT !.aborted = @ \/ DumpAbort(n)]

-----------------------------------------------------------------------------
(* gba_size_probe and gba_save_scan *)

Still == [sizing EXCEPT !.sizeDone = FALSE, !.saveDone = FALSE]

\* A new scan forgets what the last one found of the save.
Forgotten(n, s) ==
  IF ScanStart(n) THEN [s EXCEPT !.scanning = FALSE, !.saveDone = FALSE, !.saveOk = FALSE] ELSE s

SaveScanned(s) ==
  [s EXCEPT !.saveOk = IF sizing.saveDone THEN sizing.saveFound ELSE @]

SizingClock(n, ends) ==
  \/ /\ ~CartRunAllowed(n)
     /\ sizing' = [Still EXCEPT !.sizing = FALSE, !.scanning = FALSE,
                                !.sizeValid = FALSE, !.saveOk = FALSE]
  \/ /\ SzStart(n)
     /\ sizing' = Forgotten(n, [SaveScanned(Still) EXCEPT !.sizing = TRUE, !.sizeValid = FALSE])
  \/ /\ CartRunAllowed(n) /\ ~SzStart(n)
     /\ sizing.sizing /\ ends
     /\ \E valid \in BOOLEAN :
          sizing' = [Still EXCEPT !.sizing = FALSE, !.sizeDone = TRUE, !.sizeValid = valid]
  \/ /\ CartRunAllowed(n) /\ ~SzStart(n)
     /\ sizing.sizeDone /\ sizing.sizeValid
     /\ sizing' = Forgotten(n, [Still EXCEPT !.scanning = TRUE, !.saveOk = FALSE])
  \/ /\ CartRunAllowed(n) /\ ~SzStart(n)
     /\ sizing.scanning /\ ~dump.busy /\ ends
     /\ \E found \in BOOLEAN :
          sizing' = Forgotten(n, [Still EXCEPT !.scanning = FALSE, !.saveDone = TRUE,
                                               !.saveFound = found])
  \/ /\ CartRunAllowed(n) /\ ~SzStart(n)
     /\ ~(sizing.sizing /\ ends)
     /\ ~(sizing.sizeDone /\ sizing.sizeValid)
     /\ ~(sizing.scanning /\ ~dump.busy /\ ends)
     /\ sizing' = Forgotten(n, SaveScanned(Still))

-----------------------------------------------------------------------------
(* Registers of core_top *)

\* A completed dump is shown, whatever has happened since it began.
ResultShown(n) ==
  CASE DumpStart(n) -> "RUN"
    [] ~DumpStart(n) /\ dump.done -> (IF dump.failed THEN "FAIL" ELSE "OK")
    [] OTHER -> glue.dumpState

DumpState(n) ==
  CASE ~n.resetN \/ ScanStart(n) \/ CartModeChange(n) -> "IDLE"
    [] n.resetN /\ ~ScanStart(n) /\ ~CartModeChange(n) ->
         CASE DumpStart(n) -> "RUN"
           [] ~DumpStart(n) /\ dump.done /\ glue.dumpState = "RUN" ->
                (IF dump.failed THEN "FAIL" ELSE "OK")
           [] OTHER -> glue.dumpState

Wake(n) ==
  IF CartRunAllowed(n) THEN (IF glue.wake = 0 THEN 0 ELSE glue.wake - 1) ELSE CartWakeCycles

GlueClock(n, p) ==
  \E supported \in IF probe.state = "GB_RUN" /\ p.answer = "OK" THEN BOOLEAN
                   ELSE {glue.saveSupported} :
    glue' =
      [cartMode |-> n.powered,
       keys |-> n.keys,
       protocol |-> glue.protocol,
       saveSupported |-> supported,
       idValid |-> ~CartModeChange(n) /\ n.resetN /\ (probe.done \/ glue.idValid),
       dumpState |-> DumpState(n),
       wake |-> Wake(n),
       wakePulse |-> CartRunAllowed(n) /\ glue.wake = 1]

-----------------------------------------------------------------------------
\* p: what the probe's surroundings do, and whether a long running unit ends.
ProbeMay ==
  CASE probe.state \in {"MODE_WAIT", "WAKE"} -> [ready : BOOLEAN, answer : {"none"}]
    [] probe.state \in {"GB_RUN", "GBA_RUN", "GG_RUN"} ->
         [ready : {TRUE}, answer : Found \cup {"none"}]
    [] OTHER -> {[ready |-> TRUE, answer |-> "none"]}

UnitsMay == IF dump.busy \/ sizing.sizing \/ sizing.scanning THEN BOOLEAN ELSE {FALSE}

ProbeSees(n, p) ==
  [start |-> ScanStart(n), cancel |-> CartModeChange(n) \/ ~n.resetN,
   powered |-> n.powered, protocol |-> glue.protocol,
   modeReady |-> p.ready, awake |-> p.ready, answer |-> p.answer]

Observed(n) ==
  /\ fresh' = \/ probe.state = "IDLE" /\ probe'.state # "IDLE"
              \/ fresh /\ ~(~action.pending /\ action'.pending)
  /\ outdated' = (~(~dump.busy /\ dump'.busy) /\
                  (outdated \/ ScanStart(n) \/ CartModeChange(n)))

ControlClock(n, p, ends) ==
  /\ ProbeClock(ProbeSees(n, p))
  /\ ActionClock(n)
  /\ DumpClock(n, ends)
  /\ SizingClock(n, ends)
  /\ GlueClock(n, p)
  /\ Observed(n)

Next ==
  \E k \in KeySets, d \in {"none"} \cup Disturbances, p \in ProbeMay, ends \in UnitsMay :
    ControlClock(Pins(k, d), p, ends)

Init ==
  /\ ProbeInit
  /\ action = [pending |-> FALSE, saveMode |-> FALSE, scanStart |-> FALSE, dumpStart |-> FALSE]
  /\ dump = [busy |-> FALSE, aborted |-> FALSE, done |-> FALSE, failed |-> FALSE]
  /\ sizing = [sizing |-> FALSE, sizeDone |-> FALSE, sizeValid |-> FALSE,
               scanning |-> FALSE, saveDone |-> FALSE, saveFound |-> FALSE, saveOk |-> FALSE]
  /\ \E protocol \in SlotProtocols :
       glue = [cartMode |-> FALSE, keys |-> {}, protocol |-> protocol,
               saveSupported |-> FALSE, idValid |-> FALSE, dumpState |-> "IDLE",
               wake |-> CartWakeCycles, wakePulse |-> FALSE]
  /\ fresh = FALSE
  /\ outdated = FALSE

Spec == Init /\ [][Next]_vars

\* Whatever the core waits for happens in the end; the user may do anything.
Progress ==
  \E k \in KeySets, d \in {"none"} \cup Disturbances, p \in ProbeMay :
    /\ p.ready
    /\ probe.state \in {"GB_RUN", "GBA_RUN", "GG_RUN"} => p.answer # "none"
    /\ ControlClock(Pins(k, d), p, TRUE \in UnitsMay)

FairSpec == Spec /\ WF_vars(Progress)

-----------------------------------------------------------------------------
(* Properties *)

TypeOK ==
  /\ ProbeTypeOK
  /\ action \in [pending : BOOLEAN, saveMode : BOOLEAN, scanStart : BOOLEAN,
                 dumpStart : BOOLEAN]
  /\ dump \in [busy : BOOLEAN, aborted : BOOLEAN, done : BOOLEAN, failed : BOOLEAN]
  /\ sizing \in [sizing : BOOLEAN, sizeDone : BOOLEAN, sizeValid : BOOLEAN,
                 scanning : BOOLEAN, saveDone : BOOLEAN, saveFound : BOOLEAN,
                 saveOk : BOOLEAN]
  /\ glue.protocol \in SlotProtocols
  /\ glue.dumpState \in {"IDLE", "RUN", "OK", "FAIL"}
  /\ glue.wake \in 0 .. CartWakeCycles

\* A dump begins only when a scan that began no earlier than the button was
\* pressed has found something that can be dumped, with its size known.
DumpIsFresh ==
  [][~dump.busy /\ dump'.busy =>
       fresh /\ (probe.platform = "GBA" => sizing.sizeValid)]_vars

\* "DUMP COMPLETE" never stands under a cartridge identified, or inserted,
\* after that dump began.
ResultOwned == glue.dumpState \in {"OK", "FAIL"} => ~outdated

\* No request is left pending for ever: a scan that is cancelled, dropped or
\* answered with a refusal ends it too.
RequestsEnd == action.pending ~> ~action.pending

\* "Two masters for one bus, and still no arbiter: they cannot both be
\* running" - what the comment at core_top.sv:875 says of the GB bus.
OneMaster == ~(dump.busy /\ probe.busy)

=============================================================================
