---------------------------- MODULE RestoreControl ----------------------------
(***************************************************************************)
(* The restore path of src/fpga/core/core_top.sv: the guard that takes the *)
(* user's buttons, the probe that identifies the cartridge first, and the  *)
(* engine, all clocked together.  Every step is one clock of clk_sys; what *)
(* a register shows in it is its value before the step.                    *)
(*                                                                         *)
(* The file actions, which share the probe, are those of DumpControl; they *)
(* are idle here, as restore_block and restore_available see to.           *)
(***************************************************************************)
EXTENDS RestoreEngine, RestoreGuard, CartProbe, FiniteSets

CONSTANTS
  KeySets,        \* the buttons a user may hold down together
  GbAnswers,      \* what the Game Boy identifier may find
  GbaAnswers,     \* what the GBA identifier may find
  Disturbances,   \* what may happen to the core
  Failures,       \* what may go wrong around the engine
  ReleaseCycles,  \* clocks without a button before ordinary controls return
  CartWakeCycles  \* clocks from power to the first scan

ASSUME ControlAssumption ==
  /\ KeySets \subseteq SUBSET Keys
  /\ GbAnswers \subseteq Answers /\ GbaAnswers \subseteq Answers
  /\ Disturbances \subseteq {"power", "reset", "menu"}
  /\ Failures \subseteq {"io_failed", "poisoned", "writer_failed", "timeout"}
  /\ ReleaseCycles \in Nat
  \* 2 s against 3 s in the code: the scan of a cartridge that has just been
  \* powered is over before the user can be on the restore page.
  /\ CartWakeCycles \in 1 .. (EntryHoldCycles - 1)

VARIABLES
  glue,      \* the registers of core_top around the guard and the engine
  alone,     \* for how many clocks the user has held A, and nothing but A
  letGo,     \* no button was down at some clock since the preflight passed
  fresh      \* the last probe began after the transaction asked for it

vars == <<eng, mem, guard, buttons, probe, glue, alone, letGo, fresh>>

\* What reaches the core in one clock, n: the buttons down, n.powered
\* (cart_mode_s), n.resetN and n.menu.
\* Bound: one of these at a time, beside any change of the buttons.
Pins(k, d) ==
  [keys |-> k,
   powered |-> IF d = "power" THEN ~glue.cartMode ELSE glue.cartMode,
   resetN |-> d # "reset", menu |-> d = "menu"]

-----------------------------------------------------------------------------
(* Wires *)

CartModeChange(n) == n.powered # glue.cartMode
CartRunAllowed(n) == n.powered /\ n.resetN

\* The slot is not watched.
RestoreCancelSoft(n) == ~n.resetN \/ n.menu

RestoreCancel(n) == CartModeChange(n) \/ ~n.resetN \/ n.menu

StopRequest(n) ==
  RestoreCancel(n) \/ guard.state = "ABORTING" \/ (Overlay /\ "b" \in n.keys)

TransactionBusy == Working \/ glue.probePending \/ glue.engineStart \/ probe.busy

Available(n) ==
  /\ glue.idValid /\ probe.platform = "GB"
  /\ ~probe.busy
  /\ ~Working /\ ~glue.probePending /\ ~glue.poisoned
  /\ CartRunAllowed(n)

GuardSees(n) ==
  [keys |-> n.keys, cancel |-> RestoreCancel(n), available |-> Available(n),
   busy |-> TransactionBusy, preflightDone |-> eng.preflightDone,
   preflightOk |-> eng.preflightOk, done |-> eng.done, failed |-> eng.failed]

PreflightRequest(n) == PreflightStart(GuardSees(n))
CommitRequest(n) == WriteStart(GuardSees(n))

RestoreBlock(n) ==
  Overlay \/ "select" \in n.keys \/ glue.inputWait \/ Working \/ glue.probePending
  \/ glue.poisoned

KeyAEdge(n) == "a" \in n.keys /\ ~glue.keyA

ScanStart(n) ==
  /\ n.resetN
  /\ \/ glue.wakePulse
     \/ CartModeChange(n) /\ ~n.powered
     \/ KeyAEdge(n) /\ ~RestoreBlock(n)
     \/ PreflightRequest(n)
     \/ eng.reprobeStart
  /\ ~Working \/ eng.reprobeStart

\* p: what the probe's own surroundings do.
ProbeSees(n, p) ==
  [start |-> ScanStart(n), cancel |-> CartModeChange(n) \/ ~n.resetN,
   powered |-> n.powered, protocol |-> "native",
   modeReady |-> p.ready, awake |-> p.ready, answer |-> p.answer]

\* e: what the engine's subordinates report, and whether its time is up.
EngineSees(n, e) ==
  [start |-> glue.engineStart /\ CartRunAllowed(n),
   commit |-> CommitRequest(n) /\ CartRunAllowed(n),
   cancel |-> StopRequest(n) \/ (~Overlay /\ Working)
              \/ (guard.state = "RUN" /\ ~Authorized(GuardSees(n))),
   timeout |-> e.timeout,
   powered |-> n.powered,
   targetOk |-> glue.idValid /\ probe.platform = "GB",
   header |-> mem.target,
   event |-> IF eng.phase = "FINAL_PROBE" /\ probe.done
             THEN (IF probe.platform = "GB" THEN "probe_ok" ELSE "probe_failed")
             ELSE e.event,
   responded |-> TRUE, rom |-> mem.meta.rom, meta |-> mem.meta, image |-> mem.original]

-----------------------------------------------------------------------------
(* Registers of core_top *)

\* restore_probe_pending: the engine starts when the probe has finished.
ProbePending(n) ==
  /\ ~StopRequest(n) /\ Overlay
  /\ PreflightRequest(n) \/ (glue.probePending /\ ~probe.done)

\* The identity on the screen is taken for the cartridge's.
EngineStartCached(n) == ~StopRequest(n) /\ Overlay /\ PreflightRequest(n)

EngineStart(n) ==
  /\ ~StopRequest(n) /\ Overlay
  /\ ~PreflightRequest(n)
  /\ glue.probePending /\ probe.done

InputClaimed(n) ==
  "select" \in n.keys \/ Overlay \/ Working \/ glue.probePending \/ glue.engineStart

IdValid(n) ==
  ~CartModeChange(n) /\ n.resetN /\ (probe.done \/ glue.idValid)

\* A timed out SD command poisons the file service for good.
GlueClock(n, e) ==
  glue' =
    [cartMode |-> n.powered,
     keyA |-> "a" \in n.keys,
     probePending |-> ProbePending(n),
     engineStart |-> EngineStart(n),
     idValid |-> IdValid(n),
     inputWait |-> IF InputClaimed(n) THEN TRUE
                   ELSE glue.inputWait /\ (n.keys # {} \/ glue.released < ReleaseCycles),
     released |-> CASE InputClaimed(n) \/ n.keys # {} -> 0
                    [] OTHER -> IF glue.released < ReleaseCycles
                                THEN glue.released + 1 ELSE glue.released,
     wake |-> IF CartRunAllowed(n) THEN (IF glue.wake = 0 THEN 0 ELSE glue.wake - 1)
              ELSE CartWakeCycles,
     wakePulse |-> CartRunAllowed(n) /\ glue.wake = 1,
     poisoned |-> glue.poisoned \/ e.poison]

-----------------------------------------------------------------------------
ProbeMay ==
  CASE probe.state \in {"MODE_WAIT", "WAKE"} -> [ready : BOOLEAN, answer : {"none"}]
    [] probe.state = "GB_RUN" -> [ready : {TRUE}, answer : GbAnswers \cup {"none"}]
    [] probe.state = "GBA_RUN" -> [ready : {TRUE}, answer : GbaAnswers \cup {"none"}]
    [] OTHER -> {[ready |-> TRUE, answer |-> "none"]}

Reported(event) == [event |-> event, timeout |-> FALSE, poison |-> FALSE]

UnitEvents ==
  CASE eng.unit = "ctl" -> {"ctl_done"}
    [] eng.unit = "rom" -> {"rom_done"}
    [] eng.unit = "save" -> {"save_done"}
    [] eng.unit = "writer" -> {"writer_ok"} \cup (Failures \cap {"writer_failed"})
    [] eng.unit = "none" -> {}

\* The engine's surroundings get on with it.
EngineProgress ==
  {Reported(ev) : ev \in UnitEvents} \cup
  (IF eng.ioPending
   THEN {Reported("io_ok")} \cup
        {Reported(ev) : ev \in Failures \cap {"io_failed"}} \cup
        {[Reported("io_failed") EXCEPT !.poison = TRUE] : ev \in Failures \cap {"poisoned"}}
   ELSE {}) \cup
  (IF Awaited(eng.phase) = {"scanned"} /\ ~eng.aborting THEN {Reported("scanned")} ELSE {})

EngineMay ==
  EngineProgress \cup {Reported("none")} \cup
  (IF Working /\ "timeout" \in Failures THEN {[Reported("none") EXCEPT !.timeout = TRUE]} ELSE {})

Observed(n) ==
  /\ alone' = IF n.keys # {"a"} THEN 0
              ELSE IF alone < HoldLimit THEN alone + 1 ELSE alone
  /\ letGo' = (eng.phase = "READY" /\ (letGo \/ n.keys = {}))
  /\ fresh' = \/ probe.state = "IDLE" /\ probe'.state # "IDLE"
              \/ /\ fresh
                 /\ ~(guard.state # "PREFLIGHT" /\ guard'.state = "PREFLIGHT")
                 /\ ~(eng.phase # "FINAL_PROBE" /\ eng'.phase = "FINAL_PROBE")

ControlClock(n, p, e) ==
  /\ GuardClock(GuardSees(n))
  /\ ProbeClock(ProbeSees(n, p))
  /\ EngineClock(EngineSees(n, e))
  /\ GlueClock(n, e)
  /\ Observed(n)

Next ==
  \E k \in KeySets, d \in {"none"} \cup Disturbances, p \in ProbeMay, e \in EngineMay :
    ControlClock(Pins(k, d), p, e)

Init ==
  /\ EngineInit /\ GuardInit /\ ProbeInit
  /\ glue = [cartMode |-> FALSE, keyA |-> FALSE, probePending |-> FALSE,
             engineStart |-> FALSE, idValid |-> FALSE, inputWait |-> TRUE,
             released |-> 0, wake |-> CartWakeCycles, wakePulse |-> FALSE, poisoned |-> FALSE]
  /\ alone = 0
  /\ letGo = FALSE
  /\ fresh = FALSE

Spec == Init /\ [][Next]_vars

\* Everything the core waits for happens in the end: the connector turns round,
\* an identifier answers, a subordinate reports.  The user may do anything.
Progress ==
  \E k \in KeySets, d \in {"none"} \cup Disturbances, p \in ProbeMay :
    /\ p.ready
    /\ probe.state \in {"GB_RUN", "GBA_RUN"} => p.answer # "none"
    /\ \E e \in IF EngineProgress = {} THEN {Reported("none")} ELSE EngineProgress :
         ControlClock(Pins(k, d), p, e)

FairSpec == Spec /\ WF_vars(Progress)

-----------------------------------------------------------------------------
(* Properties *)

TypeOK ==
  /\ GuardTypeOK /\ ProbeTypeOK
  /\ eng \in [phase : Phases, modeOwned : BOOLEAN, preflightOk : BOOLEAN,
              preflightDone : BOOLEAN, done : BOOLEAN, reprobeStart : BOOLEAN,
              failed : BOOLEAN, error : Nat, aborting : BOOLEAN, committing : BOOLEAN,
              io : {"meta", "save", "backup"}, ioPending : BOOLEAN,
              afterNormalize : {"ROM", "FINAL_ROM"}, step : Nat, unit : Units]
  /\ glue \in [cartMode : BOOLEAN, keyA : BOOLEAN, probePending : BOOLEAN,
               engineStart : BOOLEAN, idValid : BOOLEAN, inputWait : BOOLEAN,
               released : 0 .. ReleaseCycles, wake : 0 .. CartWakeCycles,
               wakePulse : BOOLEAN, poisoned : BOOLEAN]
  /\ alone \in 0 .. HoldLimit
  /\ {letGo, fresh} \subseteq BOOLEAN

\* The engine commits only after the user, with the preflight's result in,
\* let go of every button and then held A alone for the whole hold.
DeliberateCommit ==
  [][~eng.committing /\ eng'.committing => alone >= HoldLimit /\ letGo]_vars

\* The engine never works on an identity read before it was asked to work,
\* neither at the preflight nor when the write is committed.
FreshIdentity ==
  [][/\ ~Working /\ Working' => fresh
     /\ eng.phase = "FINAL_PROBE" /\ eng'.phase = "WAKE" => fresh]_vars

\* What the page says is so: it asks for the hold only of an engine that is
\* ready, says "done" only of one that has completed, and rests only when
\* nothing of a transaction is left, neither in the engine nor on its way there.
TruthfulPage ==
  /\ guard.state \in {"LOCKED", "ENTRY_HOLD", "READY", "DONE", "FAILED"} =>
       ~Working /\ ~glue.probePending /\ ~glue.engineStart /\ ~eng.modeOwned
  /\ guard.state = "CONFIRM_HOLD" => eng.phase = "READY"
  /\ guard.state = "DONE" => eng.phase = "COMPLETE"

\* The probe never runs while the engine holds the connector: the two share
\* one bus without an arbiter.
OneMaster == ~(eng.modeOwned /\ probe.busy)

\* No pulse between the guard, the probe and the engine is lost for good: a
\* preflight, a run and an abort all come to an end.
WorkEnds ==
  guard.state \in {"PREFLIGHT", "RUN", "ABORTING"} ~>
    guard.state \notin {"PREFLIGHT", "RUN", "ABORTING"}

=============================================================================
