-------------------------- MODULE DumpControl_proofs --------------------------
(***************************************************************************)
(* Proofs about DumpControl: what stands between a button and the dump it  *)
(* asks for, for any cartridges, adapters, buttons and disturbances.       *)
(***************************************************************************)
EXTENDS DumpControl, TLAPS

-----------------------------------------------------------------------------
(* The inductive invariant *)

ActionType ==
  action \in [pending : BOOLEAN, saveMode : BOOLEAN, scanStart : BOOLEAN, dumpStart : BOOLEAN]

DumpType == dump \in [busy : BOOLEAN, aborted : BOOLEAN, done : BOOLEAN, failed : BOOLEAN]

SizingType ==
  sizing \in [sizing : BOOLEAN, sizeDone : BOOLEAN, sizeValid : BOOLEAN, scanning : BOOLEAN,
              saveDone : BOOLEAN, saveFound : BOOLEAN, saveOk : BOOLEAN]

GlueType ==
  glue \in [cartMode : BOOLEAN, keys : SUBSET {"a", "x", "y"}, protocol : SlotProtocols,
            saveSupported : BOOLEAN, idValid : BOOLEAN,
            dumpState : {"IDLE", "RUN", "OK", "FAIL"},
            wake : 0 .. CartWakeCycles, wakePulse : BOOLEAN]

HistoryType == fresh \in BOOLEAN /\ outdated \in BOOLEAN

\* The registered busy of the probe says that its machine is out of IDLE, and
\* a mode has been chosen before one is waited for.
ProbeInStep ==
  /\ probe.busy <=> probe.state # "IDLE"
  /\ probe.state \in {"MODE_HOLD", "MODE_WAIT", "WAKE"} => probe.mode # "IDLE"
  /\ probe.done => ~probe.busy

\* The size probe, the save scan and what they leave behind come one after
\* the other, and only after the probe.
Quiet == ~sizing.sizing /\ ~sizing.sizeDone /\ ~sizing.scanning /\ ~sizing.saveDone /\ ~sizing.saveOk

SizingInStep ==
  /\ probe.busy \/ probe.done => Quiet
  /\ sizing.sizing => ~sizing.sizeDone /\ ~sizing.scanning /\ ~sizing.saveDone /\ ~sizing.saveOk
  /\ sizing.sizeDone => ~sizing.scanning /\ ~sizing.saveDone /\ ~sizing.saveOk
  /\ sizing.scanning => ~sizing.saveDone /\ ~sizing.saveOk
  /\ sizing.saveDone => ~sizing.saveOk

\* One request at a time, and none beside a running dump.
OneRequest ==
  /\ action.pending => ~action.dumpStart /\ glue.cartMode
  /\ action.pending \/ action.dumpStart => ~dump.busy

\* Nothing that an older scan may still say is taken for the answer to a
\* request whose own scan has not begun.
NoOldAnswer ==
  /\ probe.state = "IDLE" /\ ~probe.done
  /\ probe.platform = "GBA" =>
       IF action.saveMode THEN ~sizing.scanning /\ ~sizing.saveDone /\ ~sizing.sizeDone /\ ~sizing.sizing
                          ELSE ~sizing.sizing /\ ~sizing.sizeDone

RequestAnswered ==
  /\ action.pending => fresh \/ NoOldAnswer
  /\ action.dumpStart => fresh /\ (probe.platform = "GBA" => sizing.sizeValid)

\* A dump that runs, or whose outcome is shown, began after the last scan was
\* asked for.
DumpOwned == glue.dumpState \in {"RUN", "OK", "FAIL"} => ~outdated

ControlType == ProbeTypeOK /\ ActionType /\ DumpType /\ SizingType /\ GlueType /\ HistoryType

ControlInv ==
  /\ ControlType
  /\ ProbeInStep
  /\ SizingInStep
  /\ OneRequest
  /\ RequestAnswered
  /\ DumpOwned

-----------------------------------------------------------------------------
(* What one clock of each unit does *)

\* What the cartridge probe does in a clock: a GBA cartridge is found only at
\* the end of a probe.
ProbeEffect(i) ==
  /\ ProbeTypeOK'
  /\ ProbeInStep'
  /\ probe.state = "IDLE" =>
       ~probe'.done /\ probe'.platform \in {probe.platform, "NO_POWER", "ADAPTER"}
  /\ probe.state = "IDLE" => (probe'.state # "IDLE" <=> i.start)

LEMMA ProbeStep ==
  ASSUME ProbeTypeOK, ProbeInStep, NEW i,
         i.start \in BOOLEAN, i.answer \in Answers \cup {"none"},
         ProbeClock(i)
  PROVE  ProbeEffect(i)
<1> USE DEF ProbeTypeOK, ProbeInStep, ProbeStates, Modes, Platforms, Resting, ProbeEffect
<1>1. ASSUME ProbeCancelled(i) PROVE ProbeEffect(i)
  BY <1>1 DEF ProbeCancelled
<1>2. ASSUME ProbeStarts(i) PROVE ProbeEffect(i)
  <2>0. probe.state = "IDLE" /\ i.start
    BY <1>2 DEF ProbeStarts
  <2>1. CASE ~i.powered
    <3>1. probe' = [Resting EXCEPT !.busy = TRUE, !.state = "DONE", !.platform = "NO_POWER",
                                   !.mode = "IDLE"]
      BY <1>2, <2>1 DEF ProbeStarts
    <3>2. QED
      BY <2>0, <3>1
  <2>2. CASE i.powered /\ i.protocol = "other"
    <3>1. probe' = [Resting EXCEPT !.busy = TRUE, !.state = "DONE", !.platform = "ADAPTER",
                                   !.mode = "IDLE"]
      BY <1>2, <2>2 DEF ProbeStarts
    <3>2. QED
      BY <2>0, <3>1
  <2>3. CASE i.powered /\ i.protocol # "other"
    <3>1. \E m \in {"GB", "GG"} :
            probe' = [Resting EXCEPT !.busy = TRUE, !.state = "MODE_HOLD", !.mode = m]
      BY <1>2, <2>3 DEF ProbeStarts
    <3>2. QED
      BY <2>0, <3>1
  <2>4. QED
    BY <2>1, <2>2, <2>3
<1>3. ASSUME ProbeTurns(i) PROVE ProbeEffect(i)
  <2>1. CASE probe.state = "WAKE"
    <3>1. RunState[probe.mode] \in {"GB_RUN", "GBA_RUN", "GG_RUN"}
      BY <2>1 DEF RunState
    <3>2. QED
      BY <1>3, <2>1, <3>1 DEF ProbeTurns, ProbeGoesOn
  <2>2. CASE probe.state # "WAKE"
    BY <1>3, <2>2 DEF ProbeTurns, ProbeGoesOn
  <2>3. QED
    BY <2>1, <2>2
<1>4. ASSUME ProbeHears(i) PROVE ProbeEffect(i)
  <2>1. i.answer \in Answers
    BY <1>4 DEF ProbeHears
  <2>2. \A mine \in Platforms : Verdict(i.answer, mine) \in Platforms
    BY <2>1 DEF Verdict, Answers
  <2>3. /\ Verdict(i.answer, "GB") \in Platforms
        /\ Verdict(i.answer, "GBA") \in Platforms
        /\ Verdict(i.answer, "GG") \in Platforms
    BY <2>2
  <2> HIDE DEF Platforms
  <2>4. QED
    BY <1>4, <2>3 DEF ProbeHears, ProbeGoesOn
<1>5. ASSUME ProbeEnds(i) PROVE ProbeEffect(i)
  BY <1>5 DEF ProbeEnds, ProbeGoesOn
<1>6. ASSUME ProbeWaits(i) PROVE ProbeEffect(i)
  BY <1>6 DEF ProbeWaits, ProbeGoesOn
<1>7. QED
  BY <1>1, <1>2, <1>3, <1>4, <1>5, <1>6 DEF ProbeClock

\* The pins of one clock.
PinsType == [keys : SUBSET {"a", "x", "y"}, powered : BOOLEAN, resetN : BOOLEAN]

LEMMA ScanStartAlone ==
  ASSUME NEW n, ScanStart(n)
  PROVE  ~dump.busy /\ ~sizing.sizing /\ ~SzStart(n) /\ n.resetN
BY DEF ScanStart

\* What the size probe and the save scan do in a clock.
SizingEffect(n) ==
  /\ SizingType'
  /\ sizing'.sizing => ~sizing'.sizeDone /\ ~sizing'.scanning /\ ~sizing'.saveDone
                       /\ ~sizing'.saveOk
  /\ sizing'.sizeDone => ~sizing'.scanning /\ ~sizing'.saveDone /\ ~sizing'.saveOk
  /\ sizing'.scanning => ~sizing'.saveDone /\ ~sizing'.saveOk
  /\ sizing'.saveDone => ~sizing'.saveOk
  /\ ScanStart(n) => Quiet'
  /\ Quiet /\ ~SzStart(n) => Quiet'
  /\ CartRunAllowed(n) /\ ~SzStart(n) /\ ~sizing.sizing =>
       ~sizing'.sizing /\ ~sizing'.sizeDone /\ sizing'.sizeValid = sizing.sizeValid
  /\ CartRunAllowed(n) /\ ~SzStart(n) /\ ~sizing.sizeDone /\ ~sizing.scanning =>
       ~sizing'.scanning /\ ~sizing'.saveDone

LEMMA SizingStep ==
  ASSUME SizingType, DumpType, SizingInStep, NEW n, NEW ends \in BOOLEAN,
         SizingClock(n, ends)
  PROVE  SizingEffect(n)
<1> USE DEF SizingType, Quiet, Still, SizingEffect
<1>0. ScanStart(n) => ~dump.busy /\ ~sizing.sizing /\ ~SzStart(n)
  BY ScanStartAlone
<1>1. CASE ~CartRunAllowed(n)
           /\ sizing' = [Still EXCEPT !.sizing = FALSE, !.scanning = FALSE,
                                      !.sizeValid = FALSE, !.saveOk = FALSE]
  BY <1>1
<1>2. CASE SzStart(n)
           /\ sizing' = Forgotten(n, [SaveScanned(Still) EXCEPT !.sizing = TRUE,
                                                                !.sizeValid = FALSE])
  <2>1. sizing' = [SaveScanned(Still) EXCEPT !.sizing = TRUE, !.sizeValid = FALSE]
    BY <1>0, <1>2 DEF Forgotten
  <2>2. ~sizing.saveDone /\ ~sizing.saveOk /\ ~sizing.scanning
    BY <1>2 DEF SzStart, SizingInStep
  <2>3. QED
    BY <1>0, <1>2, <2>1, <2>2 DEF SaveScanned
<1>3. ASSUME CartRunAllowed(n), ~SzStart(n), sizing.sizing, ends, NEW valid \in BOOLEAN,
             sizing' = [Still EXCEPT !.sizing = FALSE, !.sizeDone = TRUE, !.sizeValid = valid]
      PROVE  SizingEffect(n)
  BY <1>0, <1>3 DEF SizingInStep
<1>4. CASE CartRunAllowed(n) /\ ~SzStart(n) /\ sizing.sizeDone /\ sizing.sizeValid
           /\ sizing' = Forgotten(n, [Still EXCEPT !.scanning = TRUE, !.saveOk = FALSE])
  <2>1. CASE ScanStart(n)
    BY <1>0, <1>4, <2>1 DEF SizingInStep, Forgotten
  <2>2. CASE ~ScanStart(n)
    BY <1>4, <2>2 DEF SizingInStep, Forgotten
  <2>3. QED
    BY <2>1, <2>2
<1>5. ASSUME CartRunAllowed(n), ~SzStart(n), sizing.scanning, NEW found \in BOOLEAN,
             sizing' = Forgotten(n, [Still EXCEPT !.scanning = FALSE, !.saveDone = TRUE,
                                                  !.saveFound = found])
      PROVE  SizingEffect(n)
  <2>1. CASE ScanStart(n)
    BY <1>0, <1>5, <2>1 DEF SizingInStep, Forgotten
  <2>2. CASE ~ScanStart(n)
    BY <1>5, <2>2 DEF SizingInStep, Forgotten
  <2>3. QED
    BY <2>1, <2>2
<1>6. CASE /\ CartRunAllowed(n) /\ ~SzStart(n)
           /\ ~(sizing.sizeDone /\ sizing.sizeValid)
           /\ sizing' = Forgotten(n, SaveScanned(Still))
  <2>1. CASE ScanStart(n)
    BY <1>0, <1>6, <2>1 DEF SizingInStep, Forgotten, SaveScanned
  <2>2. CASE ~ScanStart(n)
    BY <1>6, <2>2 DEF SizingInStep, Forgotten, SaveScanned
  <2>3. QED
    BY <2>1, <2>2
<1>7. QED
  <2> HIDE DEF SizingEffect, Still
  <2>1. QED
    BY <1>1, <1>2, <1>3, <1>4, <1>5, <1>6 DEF SizingClock

\* What the guard of the file actions does in a clock.
ActionEffect(n) ==
  /\ ActionType'
  /\ action'.pending => ~action'.dumpStart
  /\ action'.pending /\ ~action.pending =>
       Ready(n) /\ (probe.platform = "GBA" => sizing.sizeValid)
       /\ (action'.saveMode /\ probe.platform = "GBA" => sizing.saveOk)
  /\ action'.pending /\ action.pending => action'.saveMode = action.saveMode /\ ~ActionCancel(n)
  /\ action'.dumpStart =>
       /\ action.pending /\ ValidationComplete /\ ~ActionCancel(n)
       /\ IF action.saveMode THEN ValidatedSave ELSE RomReadable

LEMMA ActionStep ==
  ASSUME ActionType, SizingType, GlueType, NEW n, ActionClock(n)
  PROVE  ActionEffect(n)
<1> USE DEF ActionType, Unpulsed, ActionEffect
<1>1. CASE ActionCancel(n) /\ action' = [Unpulsed EXCEPT !.pending = FALSE, !.saveMode = FALSE]
  BY <1>1
<1>2. CASE ~action.pending /\ action' = Requested(n)
  <2>1. CASE KeyEdge(n, "x") /\ RomAvailable(n)
    <3>1. action' = [Unpulsed EXCEPT !.pending = TRUE, !.saveMode = FALSE, !.scanStart = TRUE]
      BY <1>2, <2>1 DEF Requested
    <3>2. Ready(n) /\ (probe.platform = "GBA" => sizing.sizeValid)
      BY <2>1 DEF RomAvailable, RomReadable
    <3>3. QED
      BY <1>2, <3>1, <3>2
  <2>2. CASE ~(KeyEdge(n, "x") /\ RomAvailable(n)) /\ KeyEdge(n, "y") /\ SaveAvailable(n)
    <3>1. action' = [Unpulsed EXCEPT !.pending = TRUE, !.saveMode = TRUE, !.scanStart = TRUE]
      BY <1>2, <2>2 DEF Requested
    <3>2. Ready(n) /\ (probe.platform = "GBA" => sizing.sizeValid /\ sizing.saveOk)
      BY <2>2 DEF SaveAvailable, SaveReadable
    <3>3. QED
      BY <1>2, <3>1, <3>2
  <2>3. CASE ~(KeyEdge(n, "x") /\ RomAvailable(n)) /\ ~(KeyEdge(n, "y") /\ SaveAvailable(n))
    <3>1. action' = Unpulsed
      BY <1>2, <2>3 DEF Requested
    <3>2. QED
      BY <1>2, <3>1
  <2>4. QED
    BY <2>1, <2>2, <2>3
<1>3. CASE ~ActionCancel(n) /\ action.pending /\ ValidationComplete /\ action' = Decided
  <2>1. ValidatedSave \in BOOLEAN /\ RomReadable \in BOOLEAN
    BY DEF ValidatedSave, RomReadable
  <2>2. /\ ActionType' /\ ~action'.pending
        /\ action'.dumpStart = IF action.saveMode THEN ValidatedSave ELSE RomReadable
    BY <1>3, <2>1 DEF Decided
  <2>3. QED
    BY <1>3, <2>1, <2>2
<1>4. CASE ~ActionCancel(n) /\ action.pending /\ action' = Unpulsed
  BY <1>4
<1>5. QED
  <2> HIDE DEF ActionEffect, Unpulsed, ActionType
  <2>1. QED
    BY <1>1, <1>2, <1>3, <1>4 DEF ActionClock

\* What the dump does in a clock.
DumpEffect(n) ==
  /\ DumpType'
  /\ ~dump.busy => (dump'.busy <=> DumpStart(n))

LEMMA DumpStep ==
  ASSUME DumpType, ActionType, NEW n \in PinsType, NEW ends, DumpClock(n, ends)
  PROVE  DumpEffect(n)
<1> USE DEF DumpType, DumpEffect
<1>1. DumpStart(n) \in BOOLEAN /\ DumpAbort(n) \in BOOLEAN
  BY DEF DumpStart, DumpAbort, CartRunAllowed
<1>2. CASE /\ ~dump.busy
           /\ dump' = [busy |-> DumpStart(n), aborted |-> FALSE, done |-> FALSE,
                       failed |-> dump.failed]
  BY <1>1, <1>2
<1>3. ASSUME dump.busy, NEW failed \in BOOLEAN,
             dump' = [busy |-> FALSE, aborted |-> FALSE, done |-> TRUE, failed |-> failed]
      PROVE  DumpEffect(n)
  BY <1>3
<1>4. CASE dump.busy /\ dump' = [dump EXCEPT !.aborted = @ \/ DumpAbort(n)]
  BY <1>1, <1>4
<1>5. QED
  <2> HIDE DEF DumpEffect, DumpType
  <2>1. QED
    BY <1>2, <1>3, <1>4 DEF DumpClock

\* The state that the page of the dump shows next.
LEMMA DumpStateIs ==
  ASSUME NEW n
  PROVE  \/ DumpState(n) = "IDLE"
         \/ /\ n.resetN /\ ~ScanStart(n) /\ ~CartModeChange(n)
            /\ \/ DumpStart(n) /\ DumpState(n) = "RUN"
               \/ ~DumpStart(n) /\ glue.dumpState = "RUN" /\ DumpState(n) \in {"OK", "FAIL"}
               \/ ~DumpStart(n) /\ DumpState(n) = glue.dumpState
<1>1. CASE ~n.resetN \/ ScanStart(n) \/ CartModeChange(n)
  BY <1>1 DEF DumpState
<1>2. CASE ~(~n.resetN \/ ScanStart(n) \/ CartModeChange(n))
  <2>1. DumpState(n) = CASE DumpStart(n) -> "RUN"
                         [] ~DumpStart(n) /\ dump.done /\ glue.dumpState = "RUN" ->
                              (IF dump.failed THEN "FAIL" ELSE "OK")
                         [] OTHER -> glue.dumpState
    BY <1>2 DEF DumpState
  <2>2. CASE DumpStart(n)
    BY <1>2, <2>1, <2>2
  <2>3. CASE ~DumpStart(n) /\ dump.done /\ glue.dumpState = "RUN"
    BY <1>2, <2>1, <2>3
  <2>4. CASE ~DumpStart(n) /\ ~(dump.done /\ glue.dumpState = "RUN")
    BY <1>2, <2>1, <2>4
  <2>5. QED
    BY <2>2, <2>3, <2>4
<1>3. QED
  BY <1>1, <1>2

\* What core_top registers in a clock.
GlueEffect(n) ==
  /\ GlueType'
  /\ glue'.cartMode = n.powered
  /\ glue'.dumpState = DumpState(n)

LEMMA GlueStep ==
  ASSUME GlueType, DumpType, ProbeTypeOK, NEW n \in PinsType, NEW p, GlueClock(n, p)
  PROVE  GlueEffect(n)
<1>1. PICK supported \in BOOLEAN :
        glue' = [cartMode |-> n.powered,
                 keys |-> n.keys,
                 protocol |-> glue.protocol,
                 saveSupported |-> supported,
                 idValid |-> ~CartModeChange(n) /\ n.resetN /\ (probe.done \/ glue.idValid),
                 dumpState |-> DumpState(n),
                 wake |-> Wake(n),
                 wakePulse |-> CartRunAllowed(n) /\ glue.wake = 1]
  BY DEF GlueClock, GlueType
<1>2. Wake(n) \in 0 .. CartWakeCycles
  BY ControlAssumption DEF Wake, GlueType
<1>3. DumpState(n) \in {"IDLE", "RUN", "OK", "FAIL"}
  BY DumpStateIs DEF GlueType
<1>4. n.powered \in BOOLEAN /\ n.keys \in SUBSET {"a", "x", "y"} /\ glue.protocol \in SlotProtocols
  BY DEF PinsType, GlueType
<1>5. QED
  BY <1>1, <1>2, <1>3, <1>4 DEF GlueType, GlueEffect

-----------------------------------------------------------------------------
(* One clock of all of them *)

LEMMA PinsTyped ==
  ASSUME GlueType, NEW k \in KeySets, NEW d \in {"none"} \cup Disturbances
  PROVE  Pins(k, d) \in PinsType
BY ControlAssumption DEF Pins, PinsType, GlueType

LEMMA SurroundingsTyped ==
  ASSUME NEW n, NEW p \in ProbeMay
  PROVE  /\ ProbeSees(n, p).answer \in Answers \cup {"none"}
         /\ ProbeSees(n, p).start = ScanStart(n)
<1>1. p.answer \in Answers \cup {"none"}
  <2>1. CASE probe.state \in {"MODE_WAIT", "WAKE"}
    BY <2>1 DEF ProbeMay
  <2>2. CASE probe.state \in {"GB_RUN", "GBA_RUN", "GG_RUN"}
    BY <2>2, ControlAssumption DEF ProbeMay
  <2>3. CASE probe.state \notin {"MODE_WAIT", "WAKE", "GB_RUN", "GBA_RUN", "GG_RUN"}
    <3>1. ProbeMay = {[ready |-> TRUE, answer |-> "none"]}
      BY <2>3 DEF ProbeMay
    <3>2. QED
      BY <3>1
  <2>4. QED
    BY <2>1, <2>2, <2>3
<1>2. QED
  BY <1>1 DEF ProbeSees

\* A clock, by what it does to each unit.
ClockEffect(n) ==
  /\ n \in PinsType
  /\ ScanStart(n) \in BOOLEAN
  /\ ProbeTypeOK' /\ ProbeInStep'
  /\ probe.state = "IDLE" =>
       ~probe'.done /\ probe'.platform \in {probe.platform, "NO_POWER", "ADAPTER"}
  /\ probe.state = "IDLE" => (probe'.state # "IDLE" <=> ScanStart(n))
  /\ ActionEffect(n)
  /\ DumpEffect(n)
  /\ SizingEffect(n)
  /\ GlueEffect(n)
  /\ Observed(n)

LEMMA ClockStep ==
  ASSUME ControlInv, NEW k \in KeySets, NEW d \in {"none"} \cup Disturbances,
         NEW p \in ProbeMay, NEW ends \in UnitsMay, ControlClock(Pins(k, d), p, ends)
  PROVE  ClockEffect(Pins(k, d))
<1> DEFINE n == Pins(k, d)
<1>1. n \in PinsType
  BY PinsTyped DEF ControlInv, ControlType
<1>2. ends \in BOOLEAN
  BY DEF UnitsMay
<1>3. ScanStart(n) \in BOOLEAN
  BY DEF ScanStart
<1>4. ProbeSees(n, p).start = ScanStart(n) /\ ProbeSees(n, p).answer \in Answers \cup {"none"}
  BY SurroundingsTyped
<1> HIDE DEF n
<1>5. ProbeEffect(ProbeSees(n, p))
  BY <1>3, <1>4, ProbeStep DEF ControlInv, ControlType, ControlClock, n
<1>6. ActionEffect(n)
  BY ActionStep DEF ControlInv, ControlType, ControlClock, n
<1>7. DumpEffect(n)
  BY <1>1, DumpStep DEF ControlInv, ControlType, ControlClock, n
<1>8. SizingEffect(n)
  BY <1>2, SizingStep DEF ControlInv, ControlType, ControlClock, n
<1>9. GlueEffect(n)
  BY <1>1, GlueStep DEF ControlInv, ControlType, ControlClock, n
<1>10. Observed(n)
  BY DEF ControlClock, n
<1>11. QED
  BY <1>1, <1>3, <1>4, <1>5, <1>6, <1>7, <1>8, <1>9, <1>10 DEF ClockEffect, ProbeEffect, n

LEMMA TypeKept ==
  ASSUME ControlInv, NEW n, ClockEffect(n)
  PROVE  ControlType' /\ ProbeInStep'
<1>1. HistoryType'
  <2>1. fresh' \in BOOLEAN
    BY DEF ControlInv, ControlType, HistoryType, ClockEffect, Observed
  <2>2. outdated' \in BOOLEAN
    BY DEF ClockEffect, Observed
  <2>3. QED
    BY <2>1, <2>2 DEF HistoryType
<1>2. QED
  BY <1>1 DEF ControlType, ClockEffect, ActionEffect, DumpEffect, SizingEffect, GlueEffect

LEMMA SizingInStepKept ==
  ASSUME ControlInv, NEW n, ClockEffect(n)
  PROVE  SizingInStep'
<1>1. probe'.busy \/ probe'.done => Quiet'
  <2>1. CASE probe.busy
    <3>1. Quiet /\ ~probe.done
      BY <2>1 DEF ControlInv, SizingInStep, ProbeInStep
    <3>2. ~SzStart(n)
      BY <3>1 DEF SzStart
    <3>3. QED
      BY <3>1, <3>2 DEF ClockEffect, SizingEffect
  <2>2. CASE ~probe.busy
    <3>1. probe.state = "IDLE"
      BY <2>2 DEF ControlInv, ProbeInStep
    <3>2. probe'.busy \/ probe'.done => ScanStart(n)
      BY <3>1 DEF ClockEffect, ProbeInStep
    <3>3. QED
      BY <3>2 DEF ClockEffect, SizingEffect
  <2>3. QED
    BY <2>1, <2>2
<1>2. QED
  BY <1>1 DEF ClockEffect, SizingEffect, SizingInStep

\* A request that goes on keeps the cartridge powered and the core running.
LEMMA UncancelledRuns ==
  ASSUME ControlInv, NEW n \in PinsType, ~ActionCancel(n), glue.cartMode
  PROVE  CartRunAllowed(n)
BY DEF ActionCancel, CartModeChange, CartRunAllowed, PinsType, ControlInv, ControlType, GlueType

LEMMA OneRequestKept ==
  ASSUME ControlInv, NEW n, ClockEffect(n)
  PROVE  OneRequest'
<1>1. action'.pending => ~action'.dumpStart /\ glue'.cartMode
  <2>1. action'.pending => ~action'.dumpStart
    BY DEF ClockEffect, ActionEffect
  <2>2. action'.pending /\ ~action.pending => n.powered
    BY DEF ClockEffect, ActionEffect, Ready, CartRunAllowed
  <2>3. action'.pending /\ action.pending => n.powered
    BY UncancelledRuns DEF ControlInv, OneRequest, ClockEffect, ActionEffect, CartRunAllowed
  <2>4. QED
    BY <2>1, <2>2, <2>3 DEF ClockEffect, GlueEffect
<1>2. action'.pending \/ action'.dumpStart => ~dump.busy /\ ~action.dumpStart
  BY DEF ControlInv, OneRequest, ClockEffect, ActionEffect, Ready
<1>3. ~dump.busy /\ ~action.dumpStart => ~dump'.busy
  BY DEF ClockEffect, DumpEffect, DumpStart
<1>4. QED
  BY <1>1, <1>2, <1>3 DEF OneRequest

LEMMA RequestAnsweredKept ==
  ASSUME ControlInv, NEW n, ClockEffect(n)
  PROVE  RequestAnswered'
<1>1. ASSUME action'.pending, ~action.pending, ~fresh' PROVE NoOldAnswer'
  <2>1. /\ CartRunAllowed(n) /\ ~probe.busy /\ ~sizing.sizing /\ ~SzStart(n)
        /\ probe.platform = "GBA" => sizing.sizeValid
        /\ action'.saveMode /\ probe.platform = "GBA" => sizing.saveOk
    BY <1>1 DEF ClockEffect, ActionEffect, Ready, CartEngineBusy
  <2>2. probe.state = "IDLE"
    BY <2>1 DEF ControlInv, ProbeInStep
  <2>3. probe'.state = "IDLE" /\ ~probe'.done
    <3>1. probe'.state # "IDLE" => fresh' = TRUE
      BY <2>2 DEF ClockEffect, Observed
    <3>2. QED
      BY <1>1, <2>2, <3>1 DEF ClockEffect
  <2>4. probe'.platform = "GBA" => probe.platform = "GBA"
    BY <2>2 DEF ClockEffect
  <2>5. ~sizing'.sizing /\ ~sizing'.sizeDone
    BY <2>1 DEF ClockEffect, SizingEffect
  <2>6. action'.saveMode /\ probe.platform = "GBA" => ~sizing'.scanning /\ ~sizing'.saveDone
    BY <2>1 DEF ControlInv, SizingInStep, ClockEffect, SizingEffect
  <2>7. QED
    BY <2>3, <2>4, <2>5, <2>6 DEF NoOldAnswer
<1>2. ASSUME action'.pending, action.pending, ~fresh' PROVE NoOldAnswer'
  <2>1. ~fresh /\ NoOldAnswer
    BY <1>2 DEF ControlInv, RequestAnswered, ClockEffect, Observed, ControlType, HistoryType
  <2>2. CartRunAllowed(n) /\ action'.saveMode = action.saveMode
    BY <1>2, UncancelledRuns DEF ControlInv, OneRequest, ClockEffect, ActionEffect
  <2>3. probe.state = "IDLE" /\ ~SzStart(n)
    BY <2>1 DEF NoOldAnswer, SzStart
  <2>4. probe'.state = "IDLE" /\ ~probe'.done
    BY <1>2, <2>3 DEF ClockEffect, Observed
  <2>5. probe'.platform = "GBA" => probe.platform = "GBA"
    BY <2>3 DEF ClockEffect
  <2>6. probe.platform = "GBA" => ~sizing.sizing /\ ~sizing.sizeDone
    BY <2>1 DEF NoOldAnswer
  <2>7. probe.platform = "GBA" => ~sizing'.sizing /\ ~sizing'.sizeDone
    BY <2>2, <2>3, <2>6 DEF ClockEffect, SizingEffect
  <2>8. probe.platform = "GBA" /\ action.saveMode => ~sizing'.scanning /\ ~sizing'.saveDone
    BY <2>1, <2>2, <2>3, <2>6 DEF NoOldAnswer, ClockEffect, SizingEffect
  <2>9. QED
    BY <2>2, <2>4, <2>5, <2>7, <2>8 DEF NoOldAnswer
<1>3. ASSUME action'.dumpStart PROVE fresh' /\ (probe'.platform = "GBA" => sizing'.sizeValid)
  <2>1. /\ action.pending /\ ValidationComplete /\ ~ActionCancel(n)
        /\ IF action.saveMode THEN ValidatedSave ELSE RomReadable
    BY <1>3 DEF ClockEffect, ActionEffect
  <2>2. CartRunAllowed(n)
    BY <2>1, UncancelledRuns DEF ControlInv, OneRequest, ClockEffect
  <2>3. CASE probe.platform # "GBA"
    <3>1. probe.done
      BY <2>1, <2>3 DEF ValidationComplete
    <3>2. probe.state = "IDLE"
      BY <3>1 DEF ControlInv, ProbeInStep
    <3>3. probe'.platform # "GBA"
      BY <2>3, <3>2 DEF ClockEffect
    <3>4. fresh
      BY <2>1, <3>1 DEF ControlInv, RequestAnswered, NoOldAnswer
    <3>5. QED
      BY <2>1, <3>3, <3>4 DEF ClockEffect, Observed
  <2>4. CASE probe.platform = "GBA"
    <3>1. sizing.sizeValid /\ (sizing.sizeDone \/ sizing.saveDone)
          /\ (~action.saveMode => sizing.sizeDone) /\ (action.saveMode => sizing.saveDone)
      BY <2>1, <2>4 DEF ValidationComplete, ValidatedSave, RomReadable
    <3>2. fresh
      BY <2>1, <2>4, <3>1 DEF ControlInv, RequestAnswered, NoOldAnswer
    <3>3. ~probe.busy /\ ~probe.done /\ ~sizing.sizing
      BY <3>1 DEF ControlInv, SizingInStep, Quiet
    <3>4. ~SzStart(n)
      BY <3>3 DEF SzStart
    <3>5. sizing'.sizeValid
      BY <2>2, <3>1, <3>3, <3>4 DEF ClockEffect, SizingEffect
    <3>6. QED
      BY <2>1, <3>2, <3>5 DEF ClockEffect, Observed
  <2>5. QED
    BY <2>3, <2>4
<1>4. QED
  BY <1>1, <1>2, <1>3 DEF RequestAnswered

LEMMA DumpOwnedKept ==
  ASSUME ControlInv, NEW n, ClockEffect(n)
  PROVE  DumpOwned'
<1> SUFFICES ASSUME glue'.dumpState \in {"RUN", "OK", "FAIL"}
             PROVE  ~outdated'
  BY DEF DumpOwned
<1>1. glue'.dumpState = DumpState(n)
  BY DEF ClockEffect, GlueEffect
<1>2. CASE DumpStart(n)
  <2>1. ~dump.busy /\ dump'.busy
    BY <1>2 DEF DumpStart, ControlInv, OneRequest, ClockEffect, DumpEffect
  <2>2. QED
    BY <2>1 DEF ClockEffect, Observed
<1>3. CASE ~DumpStart(n)
  <2>1. ~ScanStart(n) /\ ~CartModeChange(n) /\ glue.dumpState \in {"RUN", "OK", "FAIL"}
    BY <1>1, <1>3, DumpStateIs
  <2>2. ~outdated
    BY <2>1 DEF ControlInv, DumpOwned
  <2>3. QED
    BY <2>1, <2>2 DEF ClockEffect, Observed
<1>4. QED
  BY <1>2, <1>3

-----------------------------------------------------------------------------
(* The theorems *)

LEMMA ControlInvHolds == Spec => []ControlInv
<1>1. Init => ControlInv
  <2>1. Init => ControlType
    <3> SUFFICES ASSUME Init PROVE ControlType
      OBVIOUS
    <3>1. ProbeTypeOK
      BY DEF Init, ProbeInit, ProbeTypeOK, ProbeStates, Modes, Platforms
    <3>2. ActionType /\ DumpType /\ SizingType /\ HistoryType
      BY DEF Init, ActionType, DumpType, SizingType, HistoryType
    <3>3. GlueType
      BY ControlAssumption DEF Init, GlueType
    <3>4. QED
      BY <3>1, <3>2, <3>3 DEF ControlType
  <2>2. Init => ProbeInStep /\ SizingInStep
    BY DEF Init, ProbeInit, ProbeInStep, SizingInStep
  <2>3. Init => OneRequest /\ RequestAnswered /\ DumpOwned
    BY DEF Init, OneRequest, RequestAnswered, DumpOwned
  <2>4. QED
    BY <2>1, <2>2, <2>3 DEF ControlInv
<1>2. ControlInv /\ [Next]_vars => ControlInv'
  <2> SUFFICES ASSUME ControlInv, [Next]_vars PROVE ControlInv'
    OBVIOUS
  <2>1. CASE Next
    <3>1. PICK k \in KeySets, d \in {"none"} \cup Disturbances, p \in ProbeMay, ends \in UnitsMay :
            ControlClock(Pins(k, d), p, ends)
      BY <2>1 DEF Next
    <3>2. ClockEffect(Pins(k, d))
      BY <3>1, ClockStep
    <3>3. QED
      BY <3>2, TypeKept, SizingInStepKept, OneRequestKept, RequestAnsweredKept, DumpOwnedKept
         DEF ControlInv
  <2>2. CASE UNCHANGED vars
    BY <2>2 DEF vars, ControlInv, ControlType, ProbeTypeOK, ActionType, DumpType, SizingType,
                GlueType, HistoryType, ProbeInStep, SizingInStep, Quiet, OneRequest,
                RequestAnswered, NoOldAnswer, DumpOwned
  <2>3. QED
    BY <2>1, <2>2
<1>3. QED
  BY <1>1, <1>2, PTL DEF Spec

\* The registers of the guard, the probe, the sizing and the glue keep their
\* types.
THEOREM TypesKept == Spec => []TypeOK
<1>1. ControlInv => TypeOK
  BY DEF ControlInv, ControlType, ActionType, DumpType, SizingType, GlueType, TypeOK
<1>2. QED
  BY <1>1, ControlInvHolds, PTL

\* "DUMP COMPLETE" never stands under a cartridge identified, or inserted,
\* after that dump began (dump_state of core_top.sv).
THEOREM ResultIsOwned == Spec => []ResultOwned
<1>1. ControlInv => ResultOwned
  BY DEF ControlInv, DumpOwned, ResultOwned
<1>2. QED
  BY <1>1, ControlInvHolds, PTL

\* A dump begins only after a scan that began no earlier than the button was
\* pressed, and a GBA dump only with its size known (cart_action_guard.sv).
THEOREM DumpsAreFresh == Spec => DumpIsFresh
<1>1. ControlInv /\ [Next]_vars =>
        [~dump.busy /\ dump'.busy =>
            fresh /\ (probe.platform = "GBA" => sizing.sizeValid)]_vars
  <2> SUFFICES ASSUME ControlInv, Next, ~dump.busy, dump'.busy
               PROVE  fresh /\ (probe.platform = "GBA" => sizing.sizeValid)
    OBVIOUS
  <2>1. PICK k \in KeySets, d \in {"none"} \cup Disturbances, p \in ProbeMay, ends \in UnitsMay :
          ControlClock(Pins(k, d), p, ends)
    BY DEF Next
  <2>2. ClockEffect(Pins(k, d))
    BY <2>1, ClockStep
  <2>3. action.dumpStart
    BY <2>2 DEF ClockEffect, DumpEffect, DumpStart
  <2>4. QED
    BY <2>3 DEF ControlInv, RequestAnswered
<1>2. QED
  BY <1>1, ControlInvHolds, PTL DEF Spec, DumpIsFresh

=============================================================================
