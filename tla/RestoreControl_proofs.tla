-------------------------- MODULE RestoreControl_proofs --------------------------
(***************************************************************************)
(* Proofs about RestoreControl: the way of a user's request through the    *)
(* guard, the probe and the engine, for any buttons, any cartridges and    *)
(* any disturbances, and whatever the lengths of the two holds.            *)
(***************************************************************************)
EXTENDS RestoreControl, TLAPS

-----------------------------------------------------------------------------
(* The inductive invariant *)

EngineType ==
  eng \in [phase : Phases, modeOwned : BOOLEAN, preflightOk : BOOLEAN,
           preflightDone : BOOLEAN, done : BOOLEAN, reprobeStart : BOOLEAN,
           failed : BOOLEAN, error : Nat, aborting : BOOLEAN, committing : BOOLEAN,
           io : {"meta", "save", "backup"}, ioPending : BOOLEAN,
           afterNormalize : {"ROM", "FINAL_ROM"}, step : Nat, unit : Units]

GlueType ==
  glue \in [cartMode : BOOLEAN, keyA : BOOLEAN, probePending : BOOLEAN,
            engineStart : BOOLEAN, idValid : BOOLEAN, inputWait : BOOLEAN,
            released : 0 .. ReleaseCycles, wake : 0 .. CartWakeCycles,
            wakePulse : BOOLEAN, poisoned : BOOLEAN]

HistoryType == alone \in 0 .. HoldLimit /\ letGo \in BOOLEAN /\ fresh \in BOOLEAN

ControlType == GuardTypeOK /\ ProbeTypeOK /\ EngineType /\ GlueType /\ HistoryType

\* The registered busy of the probe says that its machine is out of IDLE, and
\* a mode has been chosen before one is waited for.
ProbeInStep ==
  /\ probe.busy <=> probe.state # "IDLE"
  /\ probe.state \in {"MODE_HOLD", "MODE_WAIT", "WAKE"} => probe.mode # "IDLE"
  /\ probe.done => ~probe.busy

\* The phases in which the engine does not hold the connector.
Apart == {"IDLE", "META", "META_CHECK", "LOAD", "SAVE_CRC", "FINAL_PROBE", "COMPLETE", "FAIL"}

\* What the engine tells about itself agrees with the phase it is in.
EngineInStep ==
  /\ eng.phase \in Apart => ~eng.modeOwned
  /\ eng.aborting => Working /\ eng.failed /\ ~eng.preflightOk
  /\ eng.phase = "CLEAN" => eng.aborting
  /\ eng.failed => eng.aborting \/ eng.phase = "FAIL"
  /\ eng.preflightDone => \/ eng.phase = "READY" /\ eng.preflightOk
                          \/ eng.phase = "FAIL" /\ ~eng.preflightOk
  /\ eng.done => \/ eng.phase = "COMPLETE" /\ ~eng.failed
                 \/ eng.phase = "FAIL" /\ eng.failed
  /\ eng.reprobeStart => eng.phase = "FINAL_PROBE" /\ ~eng.aborting

\* Each pulse of the guard lasts for the clock after the step that made it.
PulsesInStep ==
  /\ guard.preflightPulse => guard.state = "PREFLIGHT"
  /\ guard.writePulse => guard.state = "RUN"

\* A request goes from the guard to the probe to the engine, and is in one
\* place at a time.
RequestInStep ==
  /\ guard.state \notin WorkStates => ~Working
  /\ guard.preflightPulse \/ glue.probePending \/ glue.engineStart =>
       guard.state = "PREFLIGHT" /\ ~Working /\ ~eng.preflightDone
  /\ ~(guard.preflightPulse /\ glue.probePending)
  /\ ~(guard.preflightPulse /\ glue.engineStart)
  /\ ~(glue.probePending /\ glue.engineStart)

\* What the page shows is where the engine is.
PageInStep ==
  /\ guard.state = "CONFIRM_HOLD" => eng.phase = "READY" /\ ~eng.aborting
  /\ guard.state = "DONE" => eng.phase = "COMPLETE"
  /\ guard.state = "ENTRY_HOLD" /\ guard.entryReturn = "DONE" => eng.phase = "COMPLETE"

\* The hold that confirms is counted, and begins after a clock without a button.
HoldCounted ==
  /\ guard.state = "CONFIRM_HOLD" =>
       /\ guard.timer <= alone
       /\ guard.pressPending \/ guard.releaseReady => letGo
  /\ guard.writePulse => alone >= HoldLimit /\ letGo

\* The slot is powered, and the scan of its power-up is behind it, before the
\* user can ask for anything.
PoweredUp ==
  /\ guard.state = "ENTRY_HOLD" /\ ~guard.abandoned =>
       glue.cartMode /\ (glue.wake = 0 \/ glue.wake + guard.timer < CartWakeCycles)
  /\ guard.state \in {"READY", "PREFLIGHT", "CONFIRM_HOLD", "RUN"} =>
       glue.cartMode /\ glue.wake = 0 /\ ~glue.wakePulse
  /\ Working /\ ~eng.aborting => glue.cartMode

\* The probe is at rest whenever the engine is about to use, or uses, the bus.
ProbeAtRest == ~probe.busy /\ ~probe.done

ProbeRests ==
  /\ guard.preflightPulse => ~probe.busy
  /\ glue.engineStart => ProbeAtRest
  /\ Working /\ eng.phase # "FINAL_PROBE" => ProbeAtRest
  /\ eng.reprobeStart => ProbeAtRest

\* The identity the engine is about to work on has been read for it.
IdentityFresh ==
  /\ glue.probePending \/ glue.engineStart => fresh
  /\ eng.phase = "FINAL_PROBE" /\ ~eng.aborting /\ ~eng.reprobeStart => fresh

ControlInv ==
  /\ ControlType
  /\ ProbeInStep
  /\ EngineInStep
  /\ PulsesInStep
  /\ RequestInStep
  /\ PageInStep
  /\ HoldCounted
  /\ PoweredUp
  /\ ProbeRests
  /\ IdentityFresh

-----------------------------------------------------------------------------
(* What one clock of the probe does *)

\* What the cartridge probe does in a clock: it leaves IDLE only when told to,
\* and is done only with what it began.
ProbeEffect(i) ==
  /\ ProbeTypeOK'
  /\ ProbeInStep'
  /\ probe.state = "IDLE" => ~probe'.done
  /\ probe.state = "IDLE" => (probe'.state # "IDLE" <=> i.start)

LEMMA ProbeStep ==
  ASSUME ProbeTypeOK, ProbeInStep, NEW i,
         i.start \in BOOLEAN, i.answer \in Answers \cup {"none"},
         ProbeClock(i)
  PROVE  ProbeEffect(i)
<1> USE DEF ProbeTypeOK, ProbeInStep, ProbeStates, Modes, Platforms, Resting, ProbeEffect
<1>1. ASSUME ProbeCancelled(i) PROVE ProbeEffect(i)
  BY <1>1 DEF ProbeCancelled
<1>2. ASSUME ProbeStarts(i) PROVE ProbeEffect(i)
  <2>0. probe.state = "IDLE" /\ i.start
    BY <1>2 DEF ProbeStarts
  <2>1. CASE ~i.powered
    <3>1. probe' = [Resting EXCEPT !.busy = TRUE, !.state = "DONE", !.platform = "NO_POWER",
                                   !.mode = "IDLE"]
      BY <1>2, <2>1 DEF ProbeStarts
    <3>2. QED
      BY <2>0, <3>1
  <2>2. CASE i.powered /\ i.protocol = "other"
    <3>1. probe' = [Resting EXCEPT !.busy = TRUE, !.state = "DONE", !.platform = "ADAPTER",
                                   !.mode = "IDLE"]
      BY <1>2, <2>2 DEF ProbeStarts
    <3>2. QED
      BY <2>0, <3>1
  <2>3. CASE i.powered /\ i.protocol # "other"
    <3>1. \E m \in {"GB", "GG"} :
            probe' = [Resting EXCEPT !.busy = TRUE, !.state = "MODE_HOLD", !.mode = m]
      BY <1>2, <2>3 DEF ProbeStarts
    <3>2. QED
      BY <2>0, <3>1
  <2>4. QED
    BY <2>1, <2>2, <2>3
<1>3. ASSUME ProbeTurns(i) PROVE ProbeEffect(i)
  <2>1. CASE probe.state = "WAKE"
    <3>1. RunState[probe.mode] \in {"GB_RUN", "GBA_RUN", "GG_RUN"}
      BY <2>1 DEF RunState
    <3>2. QED
      BY <1>3, <2>1, <3>1 DEF ProbeTurns, ProbeGoesOn
  <2>2. CASE probe.state # "WAKE"
    BY <1>3, <2>2 DEF ProbeTurns, ProbeGoesOn
  <2>3. QED
    BY <2>1, <2>2
<1>4. ASSUME ProbeHears(i) PROVE ProbeEffect(i)
  <2>1. i.answer \in Answers
    BY <1>4 DEF ProbeHears
  <2>2. \A mine \in Platforms : Verdict(i.answer, mine) \in Platforms
    BY <2>1 DEF Verdict, Answers
  <2>3. /\ Verdict(i.answer, "GB") \in Platforms
        /\ Verdict(i.answer, "GBA") \in Platforms
        /\ Verdict(i.answer, "GG") \in Platforms
    BY <2>2
  <2> HIDE DEF Platforms
  <2>4. QED
    BY <1>4, <2>3 DEF ProbeHears, ProbeGoesOn
<1>5. ASSUME ProbeEnds(i) PROVE ProbeEffect(i)
  BY <1>5 DEF ProbeEnds, ProbeGoesOn
<1>6. ASSUME ProbeWaits(i) PROVE ProbeEffect(i)
  BY <1>6 DEF ProbeWaits, ProbeGoesOn
<1>7. QED
  BY <1>1, <1>2, <1>3, <1>4, <1>5, <1>6 DEF ProbeClock

-----------------------------------------------------------------------------
(* What one clock of the guard does *)

\* No stop is asked for.
Calm(i) == ~i.cancel /\ "b" \notin i.keys

\* How each page is come to.
EntersPage(i) ==
  /\ guard'.state = "ENTRY_HOLD" /\ ~guard'.abandoned =>
       /\ Calm(i) /\ i.available
       /\ \/ guard.state \in TerminalStates /\ guard'.timer = 0
          \/ guard.state = "ENTRY_HOLD" /\ ~guard.abandoned /\ guard'.timer = guard.timer + 1
  /\ guard'.state = "ENTRY_HOLD" /\ guard.state # "ENTRY_HOLD" =>
       guard.state \in TerminalStates /\ guard'.entryReturn = guard.state
  /\ guard'.state = "ENTRY_HOLD" /\ guard.state = "ENTRY_HOLD" =>
       guard'.entryReturn = guard.entryReturn
  /\ guard'.state = "READY" =>
       /\ Calm(i)
       /\ \/ guard.state = "READY"
          \/ guard.state = "ENTRY_HOLD" /\ ~guard.abandoned /\ i.available
             /\ guard.timer >= EntryLimit - 1
  /\ guard'.state = "PREFLIGHT" => Calm(i) /\ guard.state \in {"READY", "PREFLIGHT"}
  /\ guard'.state = "CONFIRM_HOLD" =>
       /\ Calm(i)
       /\ \/ /\ guard.state = "PREFLIGHT" /\ i.preflightDone /\ i.preflightOk
             /\ guard'.timer = 0 /\ ~guard'.pressPending /\ ~guard'.releaseReady
          \/ /\ guard.state = "CONFIRM_HOLD"
             /\ \/ guard'.timer = 0
                \/ guard'.timer = guard.timer /\ i.keys = {"a"}
                \/ /\ guard'.timer = guard.timer + 1 /\ i.keys = {"a"}
                   /\ guard.timer < HoldLimit - 1
             /\ guard'.pressPending \/ guard'.releaseReady =>
                  guard.pressPending \/ guard.releaseReady \/ i.keys = {}
  /\ guard'.state = "RUN" => Calm(i) /\ guard.state \in {"CONFIRM_HOLD", "RUN"}
  /\ guard'.state = "DONE" =>
       \/ guard.state = "DONE"
       \/ guard.state = "ENTRY_HOLD" /\ guard.entryReturn = "DONE"
       \/ guard.state = "RUN" /\ i.done /\ ~i.failed

\* A transaction is left behind only when it says that it is over.
LeavesWork(i) ==
  /\ guard.state \in WorkStates /\ guard'.state \notin WorkStates =>
       \/ guard.state = "PREFLIGHT" /\ i.preflightDone /\ ~i.preflightOk
       \/ guard.state = "RUN" /\ i.done
       \/ guard.state = "ABORTING" /\ ~i.busy
  /\ guard.state = "PREFLIGHT" /\ Calm(i) /\ ~i.preflightDone => guard'.state = "PREFLIGHT"

Timers == 0 .. (EntryLimit - 1) \cup 0 .. (HoldLimit - 1)

GuardRegisters ==
  [state : GuardStates, timer : Timers,
   entryReturn : TerminalStates, abandoned : BOOLEAN,
   releaseReady : BOOLEAN, pressPending : BOOLEAN,
   preflightArmed : BOOLEAN, operationArmed : BOOLEAN,
   preflightPulse : BOOLEAN, writePulse : BOOLEAN]

GuardEffect(i) ==
  /\ guard' \in GuardRegisters
  /\ PulsesInStep'
  /\ guard'.preflightPulse => guard.state = "READY" /\ i.available /\ ~i.busy
  /\ guard'.state = "PREFLIGHT" /\ guard.state # "PREFLIGHT" => guard'.preflightPulse
  /\ guard'.writePulse =>
       /\ guard.state = "CONFIRM_HOLD" /\ i.keys = {"a"}
       /\ guard.timer >= HoldLimit - 1
       /\ guard.pressPending \/ guard.releaseReady
  /\ EntersPage(i)
  /\ LeavesWork(i)

LEMMA LimitsArePositive == EntryLimit \in Nat \ {0} /\ HoldLimit \in Nat \ {0}
BY GuardAssumption DEF EntryLimit, HoldLimit, AtLeastOne

\* The keys that are taken for down are keys.
LEMMA ButtonsTyped ==
  ASSUME GuardTypeOK, NEW raw \in SUBSET Keys, buttons' = Debounced(raw)
  PROVE  /\ buttons'.stable \subseteq Keys /\ buttons'.candidate \subseteq Keys
         /\ buttons'.count \in 0 .. DebounceCycles
<1>1. CASE raw = buttons.stable
  <2>1. buttons' = [buttons EXCEPT !.candidate = raw, !.count = 0]
    BY <1>1 DEF Debounced
  <2>2. QED
    BY <2>1, GuardAssumption DEF GuardTypeOK
<1>2. CASE raw # buttons.stable /\ DebounceCycles <= 1
  <2>1. buttons' = [stable |-> raw, candidate |-> raw, count |-> 0]
    BY <1>2, GuardAssumption DEF Debounced
  <2>2. QED
    BY <2>1, GuardAssumption
<1>3. CASE raw # buttons.stable /\ DebounceCycles > 1 /\ raw # buttons.candidate
  <2>1. buttons' = [buttons EXCEPT !.candidate = raw, !.count = 1]
    BY <1>3, GuardAssumption DEF Debounced
  <2>2. QED
    BY <1>3, <2>1, GuardAssumption DEF GuardTypeOK
<1>4. CASE raw # buttons.stable /\ DebounceCycles > 1 /\ raw = buttons.candidate
  <2>1. buttons' = IF buttons.count >= DebounceCycles - 1
                   THEN [buttons EXCEPT !.stable = raw, !.count = 0]
                   ELSE [buttons EXCEPT !.count = @ + 1]
    BY <1>4, GuardAssumption DEF Debounced
  <2>2. CASE buttons.count >= DebounceCycles - 1
    <3>1. buttons' = [buttons EXCEPT !.stable = raw, !.count = 0]
      BY <2>1, <2>2
    <3>2. QED
      BY <3>1, GuardAssumption DEF GuardTypeOK
  <2>3. CASE ~(buttons.count >= DebounceCycles - 1)
    <3>1. buttons' = [buttons EXCEPT !.count = @ + 1]
      BY <2>1, <2>3
    <3>2. QED
      BY <2>3, <3>1, GuardAssumption DEF GuardTypeOK
  <2>4. QED
    BY <2>2, <2>3
<1>5. QED
  BY <1>1, <1>2, <1>3, <1>4, GuardAssumption

\* The values its registers may take.
LEMMA GuardValues ==
  /\ \A st \in TerminalStates \cup WorkStates \cup {"ENTRY_HOLD", "READY"} : st \in GuardStates
  /\ 0 \in Timers
  /\ \A t \in Timers : t \in Nat /\ (t < EntryLimit - 1 \/ t < HoldLimit - 1 => t + 1 \in Timers)
BY LimitsArePositive DEF TerminalStates, WorkStates, GuardStates, Timers

\* What every step keeps until it says otherwise.
AsOnPage(g) ==
  /\ g \in GuardRegisters
  /\ g.state = guard.state /\ g.entryReturn = guard.entryReturn
  /\ g.abandoned = guard.abandoned
  /\ ~g.preflightPulse /\ ~g.writePulse

LEMMA UnpulsedIs ==
  ASSUME guard \in GuardRegisters
  PROVE  /\ AsOnPage(Unpulsed) /\ Unpulsed.timer = guard.timer
         /\ Unpulsed.pressPending = guard.pressPending
         /\ Unpulsed.releaseReady = guard.releaseReady
         /\ AsOnPage(NoProgress) /\ NoProgress.timer = 0 /\ ~NoProgress.pressPending
         /\ NoProgress.releaseReady = guard.releaseReady
         /\ AsOnPage(NoIntent) /\ NoIntent.timer = 0 /\ ~NoIntent.pressPending
         /\ ~NoIntent.releaseReady
<1>1. AsOnPage(Unpulsed) /\ Unpulsed.timer = guard.timer
      /\ Unpulsed.pressPending = guard.pressPending
      /\ Unpulsed.releaseReady = guard.releaseReady
  BY DEF GuardRegisters, Unpulsed, AsOnPage
<1> DEFINE u == Unpulsed
<1>2. NoProgress = [u EXCEPT !.timer = 0, !.pressPending = FALSE]
  BY DEF NoProgress
<1>3. AsOnPage(u)
  BY <1>1
<1> HIDE DEF u
<1>4. AsOnPage(NoProgress) /\ NoProgress.timer = 0 /\ ~NoProgress.pressPending
      /\ NoProgress.releaseReady = u.releaseReady
  BY <1>2, <1>3, GuardValues DEF GuardRegisters, AsOnPage
<1> DEFINE p == NoProgress
<1>5. NoIntent = [p EXCEPT !.releaseReady = FALSE]
  BY DEF NoIntent
<1>6. AsOnPage(p) /\ p.timer = 0 /\ ~p.pressPending
  BY <1>4
<1> HIDE DEF p
<1>7. AsOnPage(NoIntent) /\ NoIntent.timer = 0 /\ ~NoIntent.pressPending
      /\ ~NoIntent.releaseReady
  BY <1>5, <1>6 DEF GuardRegisters, AsOnPage
<1>8. QED
  BY <1>1, <1>4, <1>7 DEF u

LEMMA GuardStep ==
  ASSUME guard \in GuardRegisters, PulsesInStep, NEW i,
         i.preflightDone \in BOOLEAN, i.done \in BOOLEAN, GuardClock(i)
  PROVE  GuardEffect(i)
<1>a. EntryLimit \in Nat \ {0} /\ HoldLimit \in Nat \ {0}
  BY LimitsArePositive
<1> DEFINE u == Unpulsed
           p == NoProgress
           n == NoIntent
<1>b. /\ AsOnPage(u) /\ u.timer = guard.timer
      /\ u.pressPending = guard.pressPending /\ u.releaseReady = guard.releaseReady
      /\ AsOnPage(p) /\ p.timer = 0 /\ ~p.pressPending /\ p.releaseReady = guard.releaseReady
      /\ AsOnPage(n) /\ n.timer = 0 /\ ~n.pressPending /\ ~n.releaseReady
  BY UnpulsedIs
<1> HIDE DEF u, p, n
<1> USE <1>a, <1>b, GuardValues
        DEF GuardRegisters, AsOnPage, TerminalStates, WorkStates, PulsesInStep,
            EntersPage, LeavesWork, Calm
<1>1. ASSUME Cancelled(i) PROVE GuardEffect(i)
  <2>1. \E st \in {"ABORTING", "LOCKED"} :
          /\ guard' = [n EXCEPT !.state = st, !.abandoned = TRUE]
          /\ guard.state \in WorkStates => st = "ABORTING"
    BY <1>1 DEF Cancelled, u, p, n
  <2>2. ~Calm(i)
    BY <1>1 DEF Cancelled, StopAsked
  <2>3. QED
    BY <2>1, <2>2 DEF GuardEffect
<1>2. ASSUME RestsReleased(i) PROVE GuardEffect(i)
  BY <1>2 DEF RestsReleased, GuardEffect, p
<1>3. ASSUME Rests(i) PROVE GuardEffect(i)
  <2>1. CASE ~Entry(i)
    <3>1. guard' = n
      BY <1>3, <2>1 DEF Rests, u, p, n
    <3>2. QED
      BY <1>3, <3>1 DEF Rests, GuardEffect
  <2>2. CASE Entry(i) /\ guard.releaseReady /\ Pressed(i, "select")
    <3>1. guard' = [n EXCEPT !.state = "ENTRY_HOLD", !.entryReturn = guard.state,
                                    !.abandoned = FALSE]
      BY <1>3, <2>2 DEF Rests, u, p, n
    <3>2. guard.state \in TerminalStates /\ i.available /\ i.keys = {"select"} /\ ~StopAsked(i)
      BY <1>3, <2>2 DEF Rests, Entry, u, p, n
    <3>3. ~i.cancel
      BY <2>2, <3>2 DEF StopAsked, u, p, n
    <3>4. QED
      BY <3>1, <3>2, <3>3 DEF GuardEffect
  <2>3. CASE Entry(i) /\ ~(guard.releaseReady /\ Pressed(i, "select"))
    <3>1. guard' = p
      BY <1>3, <2>3 DEF Rests, u, p, n
    <3>2. QED
      BY <1>3, <3>1 DEF Rests, GuardEffect
  <2>4. QED
    BY <2>1, <2>2, <2>3
<1>4. ASSUME EntryAbandoned(i) PROVE GuardEffect(i)
  <2>1. guard.state = "ENTRY_HOLD"
    BY <1>4 DEF EntryAbandoned, On, u, p, n
  <2>2. CASE Released(i)
    <3>1. guard' = [u EXCEPT !.abandoned = TRUE, !.timer = 0, !.state = guard.entryReturn,
                                    !.releaseReady = FALSE]
      BY <1>4, <2>2 DEF EntryAbandoned, Unpulsed, u, p, n
    <3>2. QED
      BY <2>1, <3>1 DEF GuardEffect
  <2>3. CASE ~Released(i)
    <3>1. guard' = [u EXCEPT !.abandoned = TRUE, !.timer = 0]
      BY <1>4, <2>3 DEF EntryAbandoned, u, p, n
    <3>2. QED
      BY <2>1, <3>1 DEF GuardEffect
  <2>4. QED
    BY <2>2, <2>3
<1>5. ASSUME EntryHeld(i) PROVE GuardEffect(i)
  <2>1. guard.state = "ENTRY_HOLD" /\ Calm(i) /\ i.available /\ ~guard.abandoned
    BY <1>5 DEF EntryHeld, On, StopAsked, Entry, u, p, n
  <2>2. CASE guard.timer >= EntryLimit - 1
    <3>1. guard' = [n EXCEPT !.state = "READY"]
      BY <1>5, <2>2 DEF EntryHeld, u, p, n
    <3>2. QED
      BY <2>1, <2>2, <3>1 DEF GuardEffect
  <2>3. CASE ~(guard.timer >= EntryLimit - 1)
    <3>1. guard' = [u EXCEPT !.timer = @ + 1]
      BY <1>5, <2>3 DEF EntryHeld, u, p, n
    <3>2. QED
      BY <2>1, <2>3, <3>1 DEF GuardEffect
  <2>4. QED
    BY <2>2, <2>3
<1>6. ASSUME Page(i) PROVE GuardEffect(i)
  <2>1. guard.state = "READY" /\ Calm(i)
    BY <1>6 DEF Page, On, StopAsked, u, p, n
  <2>2. CASE ~PageUsable(i)
    <3>1. guard' = [u EXCEPT !.pressPending = FALSE, !.releaseReady = FALSE]
      BY <1>6, <2>2 DEF Page, u, p, n
    <3>2. QED
      BY <2>1, <3>1 DEF GuardEffect
  <2>3. CASE PageUsable(i) /\ Released(i) /\ guard.pressPending
    <3>1. guard' = [u EXCEPT !.state = "PREFLIGHT", !.preflightPulse = TRUE,
                                    !.preflightArmed = ~i.preflightDone,
                                    !.pressPending = FALSE, !.releaseReady = FALSE]
      BY <1>6, <2>3 DEF Page, u, p, n
    <3>2. QED
      BY <2>1, <2>3, <3>1 DEF GuardEffect, PageUsable
  <2>4. CASE PageUsable(i) /\ Released(i) /\ ~guard.pressPending
    <3>1. guard' = [u EXCEPT !.releaseReady = TRUE]
      BY <1>6, <2>4 DEF Page, u, p, n
    <3>2. QED
      BY <2>1, <3>1 DEF GuardEffect
  <2>5. CASE PageUsable(i) /\ ~Released(i)
    <3>1. guard' = IF guard.releaseReady /\ Pressed(i, "a")
                   THEN [u EXCEPT !.pressPending = TRUE, !.releaseReady = FALSE]
                   ELSE u
      BY <1>6, <2>5 DEF Page, u, p, n
    <3>2. QED
      BY <2>1, <3>1 DEF GuardEffect
  <2>6. QED
    BY <2>2, <2>3, <2>4, <2>5
<1>7. ASSUME Preflight(i) PROVE GuardEffect(i)
  <2>1. guard.state = "PREFLIGHT" /\ Calm(i)
    BY <1>7 DEF Preflight, On, StopAsked, u, p, n
  <2>2. CASE guard.preflightArmed /\ i.preflightDone
    <3>1. guard' = [n EXCEPT !.state = IF i.preflightOk THEN "CONFIRM_HOLD" ELSE "FAILED"]
      BY <1>7, <2>2 DEF Preflight, u, p, n
    <3>2. QED
      BY <2>1, <2>2, <3>1 DEF GuardEffect
  <2>3. CASE ~(guard.preflightArmed /\ i.preflightDone)
    <3>1. guard' = [u EXCEPT !.preflightArmed = @ \/ ~i.preflightDone]
      BY <1>7, <2>3 DEF Preflight, u, p, n
    <3>2. QED
      BY <2>1, <3>1 DEF GuardEffect
  <2>4. QED
    BY <2>2, <2>3
<1>8. ASSUME ConfirmBroken(i) PROVE GuardEffect(i)
  <2>1. guard.state = "CONFIRM_HOLD" /\ Calm(i) /\ guard' = HoldBroken(i)
    BY <1>8 DEF ConfirmBroken, On, StopAsked, u, p, n
  <2>2. CASE i.keys \notin {{}, {"a"}}
    <3>1. guard' = n
      BY <2>1, <2>2 DEF HoldBroken, Released, u, p, n
    <3>2. QED
      BY <2>1, <3>1 DEF GuardEffect
  <2>3. CASE i.keys \in {{}, {"a"}} /\ Released(i)
    <3>1. guard' = [p EXCEPT !.releaseReady = TRUE] /\ i.keys = {}
      BY <2>1, <2>3 DEF HoldBroken, Released, u, p, n
    <3>2. QED
      BY <2>1, <3>1 DEF GuardEffect
  <2>4. CASE i.keys \in {{}, {"a"}} /\ ~Released(i)
    <3>1. guard' = p
      BY <2>1, <2>4 DEF HoldBroken, u, p, n
    <3>2. QED
      BY <2>1, <3>1 DEF GuardEffect
  <2>5. QED
    BY <2>2, <2>3, <2>4
<1>9. ASSUME ConfirmHeld(i) PROVE GuardEffect(i)
  <2>1. guard.state = "CONFIRM_HOLD" /\ Calm(i) /\ i.keys = {"a"}
    BY <1>9 DEF ConfirmHeld, On, StopAsked, Pressed, u, p, n
  <2>2. CASE ~guard.pressPending /\ ~guard.releaseReady
    <3>1. guard' = u
      BY <1>9, <2>2 DEF ConfirmHeld, u, p, n
    <3>2. QED
      BY <2>1, <3>1 DEF GuardEffect
  <2>3. CASE (guard.pressPending \/ guard.releaseReady) /\ guard.timer >= HoldLimit - 1
    <3>1. guard' = [n EXCEPT !.state = "RUN", !.writePulse = TRUE,
                                    !.operationArmed = ~i.done]
      BY <1>9, <2>3 DEF ConfirmHeld, u, p, n
    <3>2. QED
      BY <2>1, <2>3, <3>1 DEF GuardEffect
  <2>4. CASE (guard.pressPending \/ guard.releaseReady) /\ ~(guard.timer >= HoldLimit - 1)
    <3>1. guard' = [u EXCEPT !.timer = @ + 1, !.pressPending = TRUE,
                                    !.releaseReady = FALSE]
      BY <1>9, <2>4 DEF ConfirmHeld, u, p, n
    <3>2. QED
      <4>1. guard.timer + 1 \in Timers
        BY <2>4
      <4>2. /\ guard' \in GuardRegisters /\ guard'.state = "CONFIRM_HOLD"
            /\ guard'.timer = guard.timer + 1
            /\ ~guard'.preflightPulse /\ ~guard'.writePulse
        BY <2>1, <3>1, <4>1
      <4>3. guard.timer \in Nat
        OBVIOUS
      <4>4. QED
        BY <2>1, <2>4, <4>2, <4>3 DEF GuardEffect
  <2>5. QED
    BY <2>2, <2>3, <2>4
<1>10. ASSUME Run(i) PROVE GuardEffect(i)
  <2>1. guard.state = "RUN" /\ Calm(i)
    BY <1>10 DEF Run, On, StopAsked, u, p, n
  <2>2. CASE guard.operationArmed /\ i.done
    <3>1. guard' = [u EXCEPT !.state = IF i.failed THEN "FAILED" ELSE "DONE",
                                    !.releaseReady = FALSE]
      BY <1>10, <2>2 DEF Run, u, p, n
    <3>2. QED
      BY <2>1, <2>2, <3>1 DEF GuardEffect
  <2>3. CASE ~(guard.operationArmed /\ i.done)
    <3>1. guard' = [u EXCEPT !.operationArmed = @ \/ ~i.done]
      BY <1>10, <2>3 DEF Run, u, p, n
    <3>2. QED
      BY <2>1, <3>1 DEF GuardEffect
  <2>4. QED
    BY <2>2, <2>3
<1>11. ASSUME Abort(i) PROVE GuardEffect(i)
  <2>1. guard.state = "ABORTING"
        /\ guard' = [n EXCEPT !.state = IF i.busy THEN "ABORTING" ELSE "FAILED"]
    BY <1>11 DEF Abort, On, u, p, n
  <2>2. QED
    BY <2>1 DEF GuardEffect
<1>12. QED
  BY <1>1, <1>2, <1>3, <1>4, <1>5, <1>6, <1>7, <1>8, <1>9, <1>10, <1>11, Zenon DEF GuardClock, u, p, n

-----------------------------------------------------------------------------
(* What one clock of the engine does *)

\* From one clock to the next, for the units around it.
EngineEffect(i) ==
  /\ EngineType'
  /\ EngineInStep'
  /\ ~Working /\ Working' => i.start /\ eng'.phase = "META"
  /\ ~Working /\ ~i.start => eng'.phase = eng.phase /\ ~eng'.preflightDone
  /\ Working' /\ ~eng'.aborting => i.powered
  /\ eng'.phase = "FINAL_PROBE" =>
       eng.phase = "FINAL_PROBE" \/ (eng.phase = "READY" /\ eng'.reprobeStart)
  /\ eng'.reprobeStart => eng.phase = "READY"
  /\ eng.phase = "FINAL_PROBE" =>
       \/ eng'.phase \in {"FINAL_PROBE", "FAIL"}
       \/ eng'.phase = "WAKE" /\ ~eng.aborting /\ i.event = "probe_ok"
  /\ eng.phase = "FINAL_PROBE" /\ eng'.phase = "FINAL_PROBE" /\ ~eng'.aborting =>
       ~eng.aborting /\ ~i.cancel
  /\ eng.phase = "READY" /\ ~eng.aborting /\ ~i.cancel /\ i.powered /\ ~i.commit =>
       eng'.phase = "READY" /\ ~eng'.aborting
  /\ ~eng.committing /\ eng'.committing => i.commit

\* The registers of e that the invariant speaks of are those of the engine.
Registers ==
  [phase : Phases, modeOwned : BOOLEAN, preflightOk : BOOLEAN,
   preflightDone : BOOLEAN, done : BOOLEAN, reprobeStart : BOOLEAN,
   failed : BOOLEAN, error : Nat, aborting : BOOLEAN, committing : BOOLEAN,
   io : {"meta", "save", "backup"}, ioPending : BOOLEAN,
   afterNormalize : {"ROM", "FINAL_ROM"}, step : Nat, unit : Units]

AsBefore(e) ==
  /\ e \in Registers
  /\ e.phase = eng.phase
  /\ e.modeOwned = eng.modeOwned /\ e.preflightOk = eng.preflightOk
  /\ ~e.preflightDone /\ ~e.done /\ ~e.reprobeStart
  /\ e.failed = eng.failed /\ e.aborting = eng.aborting /\ e.committing = eng.committing

LEMMA AnsweredIs ==
  ASSUME EngineType, NEW i
  PROVE  AsBefore(Answered(i))
<1>1. PICK io \in BOOLEAN, u \in Units :
        Answered(i) = [Pulsed EXCEPT !.ioPending = io, !.unit = u]
  <2>1. Pulsed \in Registers
    BY DEF EngineType, Pulsed, Registers
  <2>2. (Pulsed.ioPending /\ i.event \notin {"io_ok", "io_failed"}) \in BOOLEAN
    OBVIOUS
  <2>3. (IF i.event \in {"ctl_done", "rom_done", "save_done", "writer_ok", "writer_failed"}
            \/ ~i.powered THEN "none" ELSE Pulsed.unit) \in Units
    BY <2>1 DEF Registers, Units
  <2>4. QED
    BY <2>2, <2>3, Zenon DEF Answered
<1>2. QED
  BY <1>1 DEF EngineType, Pulsed, Registers, AsBefore

LEMMA EngineStep ==
  ASSUME EngineType, EngineInStep, NEW i, EngineClock(i)
  PROVE  EngineEffect(i)
<1> DEFINE a == Answered(i)
<1>0. AsBefore(a)
  BY AnsweredIs
<1> HIDE DEF a
<1> USE DEF EngineType, EngineInStep, AsBefore, Registers, Working, Apart, Phases, Units
\* A check that fails, or a stop.
<1>f. ASSUME NEW reason \in Nat, Working, ~eng.aborting, eng.phase = "READY" => Stopped(i),
             eng' = Failed(a, reason)
      PROVE  EngineEffect(i)
  <2>1. eng' \in Registers /\ eng'.phase = eng.phase /\ eng'.modeOwned = eng.modeOwned
        /\ eng'.aborting /\ eng'.failed /\ ~eng'.preflightOk /\ eng'.committing = eng.committing
        /\ ~eng'.preflightDone /\ ~eng'.done /\ ~eng'.reprobeStart
    BY <1>0, <1>f DEF Failed
  <2>2. EngineType' /\ EngineInStep'
    BY <1>f, <2>1
  <2>3. QED
    <3> HIDE DEF Registers, Phases, Units, Apart, EngineType, EngineInStep, AsBefore
    <3>1. Working /\ ~eng.aborting /\ (eng.phase = "READY" => i.cancel \/ ~i.powered)
      BY <1>f DEF Stopped
    <3>2. QED
      BY <2>1, <2>2, <3>1 DEF EngineEffect
\* The outcome is told.
<1>r. ASSUME eng.aborting, eng' = Report(a)
      PROVE  EngineEffect(i)
  <2>1. eng' \in Registers /\ eng'.phase = "FAIL" /\ ~eng'.modeOwned /\ ~eng'.aborting
        /\ eng'.failed /\ ~eng'.preflightOk /\ eng'.committing = eng.committing
        /\ ~eng'.reprobeStart
    <3>1. eng' \in Registers
      <4>1. (~a.committing) \in BOOLEAN /\ a.committing \in BOOLEAN /\ "FAIL" \in Phases
        BY <1>0
      <4> HIDE DEF Phases, Units
      <4>2. QED
        BY <1>0, <1>r, <4>1 DEF Report
    <3>2. QED
      BY <1>0, <1>r, <3>1 DEF Report
  <2>2. EngineType' /\ EngineInStep'
    BY <2>1
  <2>3. QED
    BY <1>r, <2>1, <2>2 DEF EngineEffect
<1>1. ASSUME StartPreflight(i) PROVE EngineEffect(i)
  BY <1>0, <1>1 DEF StartPreflight, FsmRuns, Restarted, EngineEffect, a
<1>2. ASSUME RefusePreflight(i) PROVE EngineEffect(i)
  BY <1>0, <1>2 DEF RefusePreflight, FsmRuns, Restarted, Failed, EngineEffect, a
<1>3. ASSUME Stop(i) PROVE EngineEffect(i)
  BY <1>3, <1>f DEF Stop, TimedOut, a
<1>4. ASSUME Drain(i) PROVE EngineEffect(i)
  <2>1. eng.aborting /\ eng' = a
    BY <1>4 DEF Drain, a
  <2>2. EngineType'
    BY <1>0, <2>1
  <2>3. EngineInStep'
    <3> HIDE DEF Registers, Phases, Units, Apart, EngineType
    <3>1. QED
      BY <1>0, <2>1
  <2>4. QED
    BY <1>0, <2>1, <2>2, <2>3 DEF EngineEffect
<1>5. ASSUME EnterClean(i) PROVE EngineEffect(i)
  BY <1>0, <1>5 DEF EnterClean, EngineEffect, a
<1>6. ASSUME Abandon(i) PROVE EngineEffect(i)
  BY <1>6, <1>r DEF Abandon, a
<1>7. ASSUME IssueControl(i) PROVE EngineEffect(i)
  BY <1>0, <1>7 DEF IssueControl, ControlRuns, FsmRuns, EngineEffect, a
<1>8. ASSUME ControlDone(i) PROVE EngineEffect(i)
  <2>1. CASE eng.step < 2
    BY <1>0, <1>8, <2>1 DEF ControlDone, ControlRuns, FsmRuns, EngineEffect, a
  <2>2. CASE ~(eng.step < 2) /\ eng.phase = "CLEAN"
    BY <1>8, <2>2, <1>r DEF ControlDone, a
  <2>3. CASE ~(eng.step < 2) /\ eng.phase # "CLEAN"
    BY <1>0, <1>8, <2>3 DEF ControlDone, ControlRuns, FsmRuns, BeginRom, EngineEffect, a
  <2>4. QED
    BY <2>1, <2>2, <2>3
<1>9. ASSUME MetaLoaded(i) PROVE EngineEffect(i)
  <2>1. CASE i.event = "io_failed"
    BY <1>9, <2>1, <1>f DEF MetaLoaded, Advances, FsmRuns, a
  <2>2. CASE i.event # "io_failed"
    BY <1>0, <1>9, <2>2 DEF MetaLoaded, Advances, FsmRuns, EngineEffect, a
  <2>3. QED
    BY <2>1, <2>2
<1>10. ASSUME MetaChecked(i) PROVE EngineEffect(i)
  <2>1. CASE mem.meta.valid /\ mem.meta.header = mem.target
    BY <1>0, <1>10, <2>1 DEF MetaChecked, Advances, FsmRuns, EngineEffect, a
  <2>2. CASE ~(mem.meta.valid /\ mem.meta.header = mem.target)
    BY <1>10, <2>2, <1>f DEF MetaChecked, Advances, FsmRuns, a
  <2>3. QED
    BY <2>1, <2>2
<1>11. ASSUME SaveLoaded(i) PROVE EngineEffect(i)
  <2>1. CASE i.event = "io_failed"
    BY <1>11, <2>1, <1>f DEF SaveLoaded, Advances, FsmRuns, a
  <2>2. CASE i.event # "io_failed"
    BY <1>0, <1>11, <2>2 DEF SaveLoaded, Advances, FsmRuns, EngineEffect, a
  <2>3. QED
    BY <2>1, <2>2
<1>12. ASSUME SaveCrcChecked(i) PROVE EngineEffect(i)
  <2>1. CASE mem.staged = mem.meta.save
    BY <1>0, <1>12, <2>1 DEF SaveCrcChecked, Advances, FsmRuns, TakeMode, EngineEffect, a
  <2>2. CASE mem.staged # mem.meta.save
    BY <1>12, <2>2, <1>f DEF SaveCrcChecked, Advances, FsmRuns, a
  <2>3. QED
    BY <2>1, <2>2
<1>13. ASSUME Woken(i) PROVE EngineEffect(i)
  BY <1>0, <1>13 DEF Woken, Advances, FsmRuns, EngineEffect, a
<1>14. ASSUME RomDone(i) PROVE EngineEffect(i)
  <2>1. CASE RomMatches(i)
    BY <1>0, <1>14, <2>1 DEF RomDone, FsmRuns, BeginSave, EngineEffect, a
  <2>2. CASE ~RomMatches(i)
    <3>1. PICK reason \in Nat : eng' = Failed(a, reason)
      BY <1>14, <2>2 DEF RomDone, a
    <3>2. QED
      BY <1>14, <3>1, <1>f DEF RomDone, FsmRuns
  <2>3. QED
    BY <2>1, <2>2
<1>15. ASSUME SaveDone(i) PROVE EngineEffect(i)
  <2>1. CASE i.responded /\ PassMatches(i.image)
    <3>1. eng' = AfterPass(a) /\ ~eng.aborting /\ i.powered /\ ~i.cancel
      BY <1>15, <2>1 DEF SaveDone, FsmRuns, SavePhases, a
    <3>2. CASE eng.phase = "CAPTURE"
      BY <1>0, <3>1, <3>2 DEF AfterPass, BeginSave, EngineEffect
    <3>3. CASE eng.phase = "COMPARE"
      BY <1>0, <3>1, <3>3 DEF AfterPass, EngineEffect
    <3>4. CASE eng.phase = "FINAL_SAVE" /\ WriteEnabled
      BY <1>0, <3>1, <3>4 DEF AfterPass, EngineEffect
    <3>5. CASE eng.phase = "VERIFY1"
      BY <1>0, <3>1, <3>5 DEF AfterPass, BeginSave, EngineEffect
    <3>6. CASE (eng.phase = "FINAL_SAVE" /\ ~WriteEnabled) \/ eng.phase = "VERIFY2"
      <4>1. eng' = Complete(a)
        BY <3>1, <3>6 DEF AfterPass
      <4>2. QED
        BY <1>0, <3>1, <3>6, <4>1 DEF Complete, EngineEffect
    <3>7. QED
      BY <1>15, <3>2, <3>3, <3>4, <3>5, <3>6 DEF SaveDone, SavePhases
  <2>2. CASE ~(i.responded /\ PassMatches(i.image))
    <3>1. PICK reason \in Nat : eng' = Failed(a, reason)
      BY <1>15, <2>2 DEF SaveDone, a
    <3>2. QED
      BY <1>15, <3>1, <1>f DEF SaveDone, FsmRuns, SavePhases
  <2>3. QED
    BY <2>1, <2>2
<1>16. ASSUME BackupWritten(i) PROVE EngineEffect(i)
  <2>1. CASE i.event = "io_failed"
    BY <1>16, <2>1, <1>f DEF BackupWritten, Advances, FsmRuns, a
  <2>2. CASE i.event # "io_failed"
    BY <1>0, <1>16, <2>2 DEF BackupWritten, Advances, FsmRuns, EngineEffect, a
  <2>3. QED
    BY <2>1, <2>2
<1>17. ASSUME BackupChecked(i) PROVE EngineEffect(i)
  <2>1. CASE BackupMatches
    BY <1>0, <1>17, <2>1 DEF BackupChecked, Advances, FsmRuns, EngineEffect, a
  <2>2. CASE ~BackupMatches
    BY <1>17, <2>2, <1>f DEF BackupChecked, Advances, FsmRuns, a
  <2>3. QED
    BY <2>1, <2>2
<1>18. ASSUME Commit(i) PROVE EngineEffect(i)
  BY <1>0, <1>18 DEF Commit, CommitAsked, Advances, FsmRuns, EngineEffect, a
<1>19. ASSUME Reprobed(i) PROVE EngineEffect(i)
  <2>1. CASE i.event = "probe_ok" /\ i.header = mem.target
    BY <1>0, <1>19, <2>1 DEF Reprobed, Advances, FsmRuns, TakeMode, EngineEffect, a
  <2>2. CASE ~(i.event = "probe_ok" /\ i.header = mem.target)
    BY <1>19, <2>2, <1>f DEF Reprobed, Advances, FsmRuns, a
  <2>3. QED
    BY <2>1, <2>2
<1>20. ASSUME WriterDone(i) PROVE EngineEffect(i)
  <2>1. CASE i.event = "writer_ok"
    BY <1>0, <1>20, <2>1 DEF WriterDone, Advances, FsmRuns, BeginSave, EngineEffect, a
  <2>2. CASE i.event # "writer_ok"
    BY <1>20, <2>2, <1>f DEF WriterDone, Advances, FsmRuns, a
  <2>3. QED
    BY <2>1, <2>2
<1>21. ASSUME Quiet(i) PROVE EngineEffect(i)
  BY <1>0, <1>21 DEF Quiet, FsmRuns, EngineEffect, a
<1>22. QED
  BY <1>1, <1>2, <1>3, <1>4, <1>5, <1>6, <1>7, <1>8, <1>9, <1>10, <1>11, <1>12, <1>13,
     <1>14, <1>15, <1>16, <1>17, <1>18, <1>19, <1>20, <1>21, Zenon DEF EngineClock

-----------------------------------------------------------------------------
(* What core_top registers in a clock *)

PinsType == [keys : SUBSET Keys, powered : BOOLEAN, resetN : BOOLEAN, menu : BOOLEAN]

Wakes(n) ==
  IF CartRunAllowed(n) THEN (IF glue.wake = 0 THEN 0 ELSE glue.wake - 1) ELSE CartWakeCycles

GlueEffect(n) ==
  /\ GlueType'
  /\ glue'.cartMode = n.powered
  /\ glue'.probePending <=> ProbePending(n)
  /\ glue'.engineStart <=> EngineStart(n)
  /\ glue'.wake = Wakes(n)
  /\ glue'.wakePulse <=> CartRunAllowed(n) /\ glue.wake = 1

LEMMA GlueStep ==
  ASSUME GlueType, NEW n \in PinsType, NEW e, GlueClock(n, e)
  PROVE  GlueEffect(n)
<1>1. Wakes(n) \in 0 .. CartWakeCycles
  BY ControlAssumption, GuardAssumption DEF Wakes, GlueType
<1>2. (CASE InputClaimed(n) \/ n.keys # {} -> 0
         [] OTHER -> IF glue.released < ReleaseCycles
                     THEN glue.released + 1 ELSE glue.released) \in 0 .. ReleaseCycles
  <2>1. CASE InputClaimed(n) \/ n.keys # {}
    BY <2>1, ControlAssumption
  <2>2. CASE ~(InputClaimed(n) \/ n.keys # {})
    BY <2>2, ControlAssumption DEF GlueType
  <2>3. QED
    BY <2>1, <2>2
<1>3. (IF InputClaimed(n) THEN TRUE
       ELSE glue.inputWait /\ (n.keys # {} \/ glue.released < ReleaseCycles)) \in BOOLEAN
  OBVIOUS
<1>4. PICK released \in 0 .. ReleaseCycles, wait \in BOOLEAN :
        glue' =
          [cartMode |-> n.powered,
           keyA |-> "a" \in n.keys,
           probePending |-> ProbePending(n),
           engineStart |-> EngineStart(n),
           idValid |-> IdValid(n),
           inputWait |-> wait,
           released |-> released,
           wake |-> Wakes(n),
           wakePulse |-> CartRunAllowed(n) /\ glue.wake = 1,
           poisoned |-> glue.poisoned \/ e.poison]
  BY <1>2, <1>3, Zenon DEF GlueClock, Wakes
<1>5. /\ ProbePending(n) \in BOOLEAN /\ EngineStart(n) \in BOOLEAN /\ IdValid(n) \in BOOLEAN
      /\ n.powered \in BOOLEAN
  BY DEF ProbePending, EngineStart, IdValid, PinsType
<1>6. GlueType'
  BY <1>1, <1>4, <1>5 DEF GlueType
<1>7. QED
  BY <1>4, <1>6 DEF GlueEffect

-----------------------------------------------------------------------------
(* One clock of all of them *)

LEMMA PinsTyped ==
  ASSUME GlueType, NEW k \in KeySets, NEW d \in {"none"} \cup Disturbances
  PROVE  Pins(k, d) \in PinsType
BY ControlAssumption DEF Pins, PinsType, GlueType

LEMMA AnswersTyped ==
  ASSUME NEW p \in ProbeMay
  PROVE  p.answer \in Answers \cup {"none"}
<1>1. CASE probe.state \in {"MODE_WAIT", "WAKE"}
  BY <1>1 DEF ProbeMay
<1>2. CASE probe.state \in {"GB_RUN", "GBA_RUN"}
  BY <1>2, ControlAssumption DEF ProbeMay
<1>3. CASE probe.state \notin {"MODE_WAIT", "WAKE", "GB_RUN", "GBA_RUN"}
  <2>1. ProbeMay = {[ready |-> TRUE, answer |-> "none"]}
    BY <1>3 DEF ProbeMay
  <2>2. QED
    BY <2>1
<1>4. QED
  BY <1>1, <1>2, <1>3

\* Only the probe tells the engine of a probe.
LEMMA EventsTyped ==
  ASSUME EngineType, NEW e \in EngineMay
  PROVE  e.event # "probe_ok"
<1>1. \A ev \in UnitEvents : ev # "probe_ok"
  <2>1. CASE eng.unit = "ctl"
    BY <2>1 DEF UnitEvents
  <2>2. CASE eng.unit = "rom"
    BY <2>2 DEF UnitEvents
  <2>3. CASE eng.unit = "save"
    BY <2>3 DEF UnitEvents
  <2>4. CASE eng.unit = "writer"
    BY <2>4 DEF UnitEvents
  <2>5. CASE eng.unit = "none"
    BY <2>5 DEF UnitEvents
  <2>6. QED
    BY <2>1, <2>2, <2>3, <2>4, <2>5 DEF EngineType, Units
<1>2. \A r \in EngineProgress : r.event # "probe_ok"
  BY <1>1 DEF EngineProgress, Reported
<1>3. QED
  BY <1>2 DEF EngineMay, Reported

\* A clock, by what it does to each unit; i is what the engine sees in it.
ClockEffect(n, i) ==
  /\ n \in PinsType
  /\ i.start <=> glue.engineStart /\ CartRunAllowed(n)
  /\ i.commit => CommitRequest(n)
  /\ StopRequest(n) => i.cancel
  /\ i.cancel => \/ StopRequest(n)
                 \/ ~Overlay /\ Working
                 \/ guard.state = "RUN" /\ ~Authorized(GuardSees(n))
  /\ i.powered = n.powered
  /\ i.event = "probe_ok" => probe.done
  /\ EngineEffect(i)
  /\ GuardEffect(GuardSees(n))
  /\ ProbeTypeOK' /\ ProbeInStep'
  /\ probe.state = "IDLE" => ~probe'.done
  /\ probe.state = "IDLE" => (probe'.state # "IDLE" <=> ScanStart(n))
  /\ GlueEffect(n)
  /\ Observed(n)

LEMMA ClockStep ==
  ASSUME ControlInv, NEW k \in KeySets, NEW d \in {"none"} \cup Disturbances,
         NEW p \in ProbeMay, NEW e \in EngineMay, ControlClock(Pins(k, d), p, e)
  PROVE  /\ \E i : ClockEffect(Pins(k, d), i)
         /\ GuardTypeOK'
<1> DEFINE n == Pins(k, d)
           i == EngineSees(n, e)
           g == GuardSees(n)
<1>1. n \in PinsType
  BY PinsTyped DEF ControlInv, ControlType
<1> HIDE DEF n
<1>2. GuardClock(g) /\ ProbeClock(ProbeSees(n, p)) /\ EngineClock(i) /\ GlueClock(n, e)
      /\ Observed(n)
  BY DEF ControlClock, n
<1>3. /\ i.start <=> glue.engineStart /\ CartRunAllowed(n)
      /\ i.commit => CommitRequest(n)
      /\ StopRequest(n) => i.cancel
      /\ i.cancel => \/ StopRequest(n)
                     \/ ~Overlay /\ Working
                     \/ guard.state = "RUN" /\ ~Authorized(GuardSees(n))
      /\ i.powered = n.powered
  BY DEF EngineSees
<1>4. i.event = "probe_ok" => probe.done
  BY EventsTyped DEF EngineSees, ControlInv, ControlType
<1>5. EngineEffect(i)
  <2> HIDE DEF i
  <2>1. QED
    BY <1>2, EngineStep DEF ControlInv, ControlType
<1>6. g.keys = n.keys /\ g.preflightDone \in BOOLEAN /\ g.done \in BOOLEAN
  BY DEF GuardSees, ControlInv, ControlType, EngineType
<1>7. GuardEffect(g)
  <2>1. guard \in GuardRegisters
    BY DEF ControlInv, ControlType, GuardTypeOK, GuardRegisters, Timers
  <2> HIDE DEF g
  <2>2. QED
    BY <1>2, <1>6, <2>1, GuardStep DEF ControlInv
<1>8. GuardTypeOK'
  <2>1. /\ buttons'.stable \subseteq Keys /\ buttons'.candidate \subseteq Keys
        /\ buttons'.count \in 0 .. DebounceCycles
    <3>1. n.keys \in SUBSET Keys /\ buttons' = Debounced(n.keys)
      BY <1>1, <1>2, <1>6 DEF GuardClock, PinsType
    <3>2. QED
      BY <3>1, ButtonsTyped DEF ControlInv, ControlType
  <2>2. QED
    BY <1>7, <2>1 DEF GuardEffect, GuardRegisters, Timers, GuardTypeOK
<1>9. ProbeEffect(ProbeSees(n, p)) /\ ProbeSees(n, p).start = ScanStart(n)
  <2>1. p.answer \in Answers \cup {"none"}
    BY AnswersTyped
  <2>2. ScanStart(n) \in BOOLEAN
    BY DEF ScanStart
  <2>3. /\ ProbeSees(n, p).start = ScanStart(n)
        /\ ProbeSees(n, p).answer = p.answer
    BY DEF ProbeSees
  <2>4. QED
    BY <1>2, <2>1, <2>2, <2>3, ProbeStep DEF ControlInv, ControlType
<1>10. GlueEffect(n)
  BY <1>1, <1>2, GlueStep DEF ControlInv, ControlType
<1>11. ClockEffect(n, i)
  <2> HIDE DEF i, g
  <2>1. g = GuardSees(n)
    BY DEF g
  <2>2. QED
    BY <1>1, <1>2, <1>3, <1>4, <1>5, <1>7, <1>9, <1>10, <2>1 DEF ClockEffect, ProbeEffect
<1>12. QED
  BY <1>8, <1>11 DEF n

-----------------------------------------------------------------------------
(* Every part of the invariant is kept *)

LEMMA TypeKept ==
  ASSUME ControlInv, NEW n, NEW i, ClockEffect(n, i), GuardTypeOK'
  PROVE  ControlType' /\ ProbeInStep' /\ EngineInStep' /\ PulsesInStep'
<1>1. alone' \in 0 .. HoldLimit
  <2>1. HoldLimit \in Nat /\ alone \in 0 .. HoldLimit
    BY LimitsArePositive DEF ControlInv, ControlType, HistoryType
  <2>2. QED
    BY <2>1 DEF ClockEffect, Observed
<1>2. letGo' \in BOOLEAN /\ fresh' \in BOOLEAN
  BY DEF ClockEffect, Observed
<1>3. QED
  BY <1>1, <1>2 DEF ControlType, HistoryType, ClockEffect, EngineEffect, GuardEffect, GlueEffect

\* Nothing starts a scan on a page of the restore, but the guard and the engine.
LEMMA NoScan ==
  ASSUME NEW n, Overlay, ~glue.wakePulse, ~guard.preflightPulse, ~eng.reprobeStart,
         ~CartModeChange(n) \/ n.powered
  PROVE  ~ScanStart(n)
BY DEF ScanStart, RestoreBlock, PreflightRequest, PreflightStart

LEMMA NoScanAtWork ==
  ASSUME NEW n, Working, ~eng.reprobeStart
  PROVE  ~ScanStart(n)
BY DEF ScanStart

\* What rests and is not told to start goes on resting.
LEMMA RestsOn ==
  ASSUME ControlInv, NEW n, NEW i, ClockEffect(n, i), ~probe.busy, ~ScanStart(n)
  PROVE  ~probe'.busy /\ ~probe'.done
BY DEF ControlInv, ProbeInStep, ClockEffect

\* A stop for the guard is one for the rest of the core, and the reverse.
LEMMA CalmIs ==
  ASSUME NEW n
  PROVE  /\ Calm(GuardSees(n)) => ~RestoreCancel(n) /\ ~CartModeChange(n) /\ n.resetN
         /\ Calm(GuardSees(n)) /\ guard.state # "ABORTING" => ~StopRequest(n)
         /\ ~StopRequest(n) => ~CartModeChange(n) /\ n.resetN
         /\ ~StopRequest(n) /\ Overlay => Calm(GuardSees(n))
BY DEF Calm, GuardSees, RestoreCancel, StopRequest

LEMMA SeenAvailable ==
  ASSUME NEW n, GuardSees(n).available
  PROVE  CartRunAllowed(n) /\ ~probe.busy
BY DEF GuardSees, Available

LEMMA RequestInStepKept ==
  ASSUME ControlInv, NEW n, NEW i, ClockEffect(n, i)
  PROVE  RequestInStep'
<1> DEFINE g == GuardSees(n)
<1>g. /\ g.preflightDone = eng.preflightDone /\ g.preflightOk = eng.preflightOk
      /\ g.done = eng.done /\ (g.busy <=> TransactionBusy)
  BY DEF GuardSees
<1>e. GuardEffect(g)
  BY DEF ClockEffect
<1> HIDE DEF g
<1>i. /\ RequestInStep /\ EngineInStep /\ PulsesInStep
  BY DEF ControlInv
<1>1. ASSUME ~Working, ~glue.engineStart
      PROVE  ~Working' /\ ~eng'.preflightDone
  BY <1>1 DEF ClockEffect, EngineEffect, Working
<1>2. ASSUME guard'.state \notin WorkStates PROVE ~Working'
  <2>1. CASE guard.state \notin WorkStates
    <3>1. ~Working /\ ~glue.engineStart
      BY <1>i, <2>1 DEF RequestInStep, WorkStates
    <3>2. QED
      BY <1>1, <3>1
  <2>2. CASE guard.state = "PREFLIGHT" /\ eng.preflightDone /\ ~eng.preflightOk
    <3>1. ~Working /\ ~glue.engineStart
      BY <1>i, <2>2 DEF RequestInStep, EngineInStep, Working
    <3>2. QED
      BY <1>1, <3>1
  <2>3. CASE guard.state = "RUN" /\ eng.done
    <3>1. ~Working /\ ~glue.engineStart
      BY <1>i, <2>3 DEF RequestInStep, EngineInStep, Working
    <3>2. QED
      BY <1>1, <3>1
  <2>4. CASE guard.state = "ABORTING" /\ ~TransactionBusy
    <3>1. ~Working /\ ~glue.engineStart
      BY <2>4 DEF TransactionBusy
    <3>2. QED
      BY <1>1, <3>1
  <2>5. QED
    BY <1>2, <1>e, <1>g, <2>1, <2>2, <2>3, <2>4 DEF GuardEffect, LeavesWork
<1>3. ASSUME guard'.preflightPulse
      PROVE  /\ guard'.state = "PREFLIGHT" /\ ~Working' /\ ~eng'.preflightDone
             /\ ~glue'.probePending /\ ~glue'.engineStart
  <2>1. guard.state = "READY" /\ guard'.state = "PREFLIGHT"
    BY <1>3, <1>e DEF GuardEffect, PulsesInStep
  <2>2. ~Working /\ ~glue.engineStart /\ ~glue.probePending /\ ~guard.preflightPulse
    BY <1>i, <2>1 DEF RequestInStep, WorkStates
  <2>3. ~Working' /\ ~eng'.preflightDone
    BY <1>1, <2>2
  <2>4. ~glue'.probePending /\ ~glue'.engineStart
    BY <2>2 DEF ClockEffect, GlueEffect, ProbePending, EngineStart, PreflightRequest, PreflightStart
  <2>5. QED
    BY <2>1, <2>3, <2>4
<1>4. ASSUME glue'.probePending \/ glue'.engineStart
      PROVE  /\ guard'.state = "PREFLIGHT" /\ ~Working' /\ ~eng'.preflightDone
             /\ ~(glue'.probePending /\ glue'.engineStart)
  <2>1. /\ ~StopRequest(n) /\ Overlay
        /\ guard.preflightPulse \/ glue.probePending
    BY <1>4 DEF ClockEffect, GlueEffect, ProbePending, EngineStart, PreflightRequest, PreflightStart
  <2>2. guard.state = "PREFLIGHT" /\ ~Working /\ ~eng.preflightDone /\ ~glue.engineStart
    BY <1>i, <2>1 DEF RequestInStep
  <2>3. Calm(g)
    BY <2>1, CalmIs DEF g
  <2>4. guard'.state = "PREFLIGHT"
    BY <1>e, <1>g, <2>2, <2>3 DEF GuardEffect, LeavesWork
  <2>5. ~Working' /\ ~eng'.preflightDone
    BY <1>1, <2>2
  <2>6. ~(glue'.probePending /\ glue'.engineStart)
    BY DEF ClockEffect, GlueEffect, ProbePending, EngineStart
  <2>7. QED
    BY <2>4, <2>5, <2>6
<1>5. QED
  BY <1>2, <1>3, <1>4 DEF RequestInStep

LEMMA PageInStepKept ==
  ASSUME ControlInv, NEW n, NEW i, ClockEffect(n, i)
  PROVE  PageInStep'
<1> DEFINE g == GuardSees(n)
<1>g. /\ g.preflightDone = eng.preflightDone /\ g.preflightOk = eng.preflightOk
      /\ g.done = eng.done /\ g.failed = eng.failed
  BY DEF GuardSees
<1>e. EntersPage(g)
  BY DEF ClockEffect, GuardEffect
<1>c. Calm(g) /\ guard.state # "ABORTING" => ~StopRequest(n) /\ ~CartModeChange(n)
  BY CalmIs
<1>a. Authorized(g) <=> guard.state = "RUN" /\ Calm(g)
  BY DEF Authorized, Calm
<1> HIDE DEF g
<1>i. /\ RequestInStep /\ EngineInStep /\ PageInStep /\ PoweredUp /\ PulsesInStep
  BY DEF ControlInv
<1>1. ASSUME guard'.state = "CONFIRM_HOLD" PROVE eng'.phase = "READY" /\ ~eng'.aborting
  <2>1. Calm(g) /\ guard.state \in {"PREFLIGHT", "CONFIRM_HOLD"}
    BY <1>1, <1>e DEF EntersPage
  <2>2. eng.phase = "READY" /\ ~eng.aborting
    <3>1. guard.state = "CONFIRM_HOLD" \/ (eng.preflightDone /\ eng.preflightOk)
      BY <1>1, <1>e, <1>g DEF EntersPage
    <3>2. QED
      BY <1>i, <3>1 DEF PageInStep, EngineInStep
  <2>3. Working /\ Overlay
    BY <2>1, <2>2 DEF Working, Overlay
  <2>4. ~i.cancel
    BY <1>c, <2>1, <2>3 DEF ClockEffect
  <2>5. i.powered
    <3>1. glue.cartMode /\ ~CartModeChange(n)
      BY <1>i, <1>c, <2>1, <2>2, <2>3 DEF PoweredUp
    <3>2. QED
      BY <3>1 DEF ClockEffect, CartModeChange
  <2>6. ~i.commit
    BY <2>1 DEF ClockEffect, CommitRequest, WriteStart, Authorized
  <2>7. QED
    BY <2>2, <2>4, <2>5, <2>6 DEF ClockEffect, EngineEffect
<1>2. ASSUME eng.phase = "COMPLETE", guard.state # "PREFLIGHT" PROVE eng'.phase = "COMPLETE"
  <2>1. ~Working /\ ~glue.engineStart
    BY <1>i, <1>2 DEF Working, RequestInStep
  <2>2. QED
    BY <1>2, <2>1 DEF ClockEffect, EngineEffect
<1>3. ASSUME guard'.state = "DONE" PROVE eng'.phase = "COMPLETE"
  <2>1. \/ guard.state = "DONE"
        \/ guard.state = "ENTRY_HOLD" /\ guard.entryReturn = "DONE"
        \/ guard.state = "RUN" /\ eng.done /\ ~eng.failed
    BY <1>3, <1>e, <1>g DEF EntersPage
  <2>2. eng.phase = "COMPLETE" /\ guard.state # "PREFLIGHT"
    BY <1>i, <2>1 DEF PageInStep, EngineInStep
  <2>3. QED
    BY <1>2, <2>2
<1>4. ASSUME guard'.state = "ENTRY_HOLD", guard'.entryReturn = "DONE"
      PROVE  eng'.phase = "COMPLETE"
  <2>1. \/ guard.state = "DONE"
        \/ guard.state = "ENTRY_HOLD" /\ guard.entryReturn = "DONE"
    BY <1>4, <1>e DEF EntersPage
  <2>2. eng.phase = "COMPLETE" /\ guard.state # "PREFLIGHT"
    BY <1>i, <2>1 DEF PageInStep
  <2>3. QED
    BY <1>2, <2>2
<1>5. QED
  BY <1>1, <1>3, <1>4 DEF PageInStep

LEMMA HoldCountedKept ==
  ASSUME ControlInv, NEW n, NEW i, ClockEffect(n, i)
  PROVE  HoldCounted'
<1> DEFINE g == GuardSees(n)
<1>g. g.keys = n.keys
  BY DEF GuardSees
<1>e. GuardEffect(g)
  BY DEF ClockEffect
<1> HIDE DEF g
<1>i. PageInStep /\ HoldCounted
  BY DEF ControlInv
<1>t. /\ guard.timer \in Nat /\ alone \in 0 .. HoldLimit /\ HoldLimit \in Nat \ {0}
      /\ EntryLimit \in Nat
  BY LimitsArePositive DEF ControlInv, ControlType, GuardTypeOK, HistoryType
<1>a. alone' = IF n.keys # {"a"} THEN 0 ELSE IF alone < HoldLimit THEN alone + 1 ELSE alone
  BY DEF ClockEffect, Observed
<1>l. letGo' <=> eng.phase = "READY" /\ (letGo \/ n.keys = {})
  BY DEF ClockEffect, Observed
<1>1. ASSUME guard'.state = "CONFIRM_HOLD"
      PROVE  /\ guard'.timer <= alone'
             /\ guard'.pressPending \/ guard'.releaseReady => letGo'
  <2>1. CASE guard'.timer = 0 /\ ~guard'.pressPending /\ ~guard'.releaseReady
    BY <1>t, <1>a, <2>1
  <2>2. CASE guard.state = "CONFIRM_HOLD"
    <3>1. guard.timer <= alone /\ (guard.pressPending \/ guard.releaseReady => letGo)
          /\ eng.phase = "READY"
      BY <1>i, <2>2 DEF HoldCounted, PageInStep
    <3>2. /\ \/ guard'.timer = 0
             \/ guard'.timer = guard.timer /\ n.keys = {"a"}
             \/ /\ guard'.timer = guard.timer + 1 /\ n.keys = {"a"}
                /\ guard.timer < HoldLimit - 1
          /\ guard'.pressPending \/ guard'.releaseReady =>
               guard.pressPending \/ guard.releaseReady \/ n.keys = {}
      BY <1>1, <1>e, <1>g, <2>2 DEF GuardEffect, EntersPage
    <3>3. guard'.timer <= alone'
      BY <1>t, <1>a, <3>1, <3>2
    <3>4. QED
      BY <1>l, <3>1, <3>2, <3>3
  <2>3. QED
    BY <1>1, <1>e, <2>1, <2>2 DEF GuardEffect, EntersPage
<1>2. ASSUME guard'.writePulse PROVE alone' >= HoldLimit /\ letGo'
  <2>1. /\ guard.state = "CONFIRM_HOLD" /\ n.keys = {"a"}
        /\ guard.timer >= HoldLimit - 1
        /\ guard.pressPending \/ guard.releaseReady
    BY <1>2, <1>e, <1>g DEF GuardEffect
  <2>2. guard.timer <= alone /\ letGo /\ eng.phase = "READY"
    BY <1>i, <2>1 DEF HoldCounted, PageInStep
  <2>3. QED
    BY <1>t, <1>a, <1>l, <2>1, <2>2
<1>3. QED
  BY <1>1, <1>2 DEF HoldCounted

LEMMA PoweredUpKept ==
  ASSUME ControlInv, NEW n, NEW i, ClockEffect(n, i)
  PROVE  PoweredUp'
<1> DEFINE g == GuardSees(n)
<1>e. EntersPage(g)
  BY DEF ClockEffect, GuardEffect
<1>c. Calm(g) => ~CartModeChange(n) /\ n.resetN
  BY CalmIs
<1>v. g.available => CartRunAllowed(n)
  BY SeenAvailable
<1> HIDE DEF g
<1>i. PoweredUp
  BY DEF ControlInv
<1>t. /\ glue.wake \in Nat /\ glue.wake <= CartWakeCycles /\ guard.timer \in Nat
      /\ CartWakeCycles \in Nat \ {0} /\ CartWakeCycles <= EntryLimit - 1 /\ EntryLimit \in Nat
  BY ControlAssumption, GuardAssumption, LimitsArePositive
     DEF ControlInv, ControlType, GlueType, GuardTypeOK, EntryLimit, AtLeastOne
<1>w. /\ glue'.cartMode = n.powered /\ glue'.wake = Wakes(n)
      /\ glue'.wakePulse <=> CartRunAllowed(n) /\ glue.wake = 1
  BY DEF ClockEffect, GlueEffect
<1>r. CartRunAllowed(n) => n.powered
  BY DEF CartRunAllowed
<1>1. ASSUME guard'.state = "ENTRY_HOLD", ~guard'.abandoned
      PROVE  glue'.cartMode /\ (glue'.wake = 0 \/ glue'.wake + guard'.timer < CartWakeCycles)
  <2>1. CartRunAllowed(n) /\ glue'.cartMode
    BY <1>1, <1>e, <1>v, <1>w, <1>r DEF EntersPage
  <2>2. CASE guard'.timer = 0
    BY <1>t, <1>w, <2>1, <2>2 DEF Wakes
  <2>3. CASE guard.state = "ENTRY_HOLD" /\ ~guard.abandoned /\ guard'.timer = guard.timer + 1
    <3>1. glue.wake = 0 \/ glue.wake + guard.timer < CartWakeCycles
      BY <1>i, <2>3 DEF PoweredUp
    <3>2. QED
      BY <1>t, <1>w, <2>1, <2>3, <3>1 DEF Wakes
  <2>4. QED
    BY <1>1, <1>e, <2>2, <2>3 DEF EntersPage
<1>2. ASSUME guard'.state \in {"READY", "PREFLIGHT", "CONFIRM_HOLD", "RUN"}
      PROVE  glue'.cartMode /\ glue'.wake = 0 /\ ~glue'.wakePulse
  <2>1. CASE guard.state = "ENTRY_HOLD" /\ ~guard.abandoned /\ g.available
             /\ guard.timer >= EntryLimit - 1
    <3>1. glue.wake = 0
      BY <1>i, <1>t, <2>1 DEF PoweredUp
    <3>2. CartRunAllowed(n)
      BY <1>v, <2>1
    <3>3. QED
      BY <1>w, <1>r, <3>1, <3>2 DEF Wakes
  <2>2. CASE guard.state \in {"READY", "PREFLIGHT", "CONFIRM_HOLD", "RUN"} /\ Calm(g)
    <3>1. glue.cartMode /\ glue.wake = 0
      BY <1>i, <2>2 DEF PoweredUp
    <3>2. n.powered /\ n.resetN
      BY <1>c, <2>2, <3>1 DEF CartModeChange
    <3>3. QED
      BY <1>w, <3>1, <3>2 DEF Wakes, CartRunAllowed
  <2>3. QED
    BY <1>2, <1>e, <2>1, <2>2 DEF EntersPage
<1>3. Working' /\ ~eng'.aborting => glue'.cartMode
  BY <1>w DEF ClockEffect, EngineEffect
<1>4. QED
  BY <1>1, <1>2, <1>3 DEF PoweredUp

LEMMA ProbeRestsKept ==
  ASSUME ControlInv, NEW n, NEW i, ClockEffect(n, i)
  PROVE  ProbeRests'
<1> DEFINE g == GuardSees(n)
<1>e. GuardEffect(g)
  BY DEF ClockEffect
<1>c. Calm(g) => ~CartModeChange(n) /\ n.resetN
  BY CalmIs
<1>v. g.available => CartRunAllowed(n) /\ ~probe.busy
  BY SeenAvailable
<1> HIDE DEF g
<1>i. /\ RequestInStep /\ EngineInStep /\ PulsesInStep /\ PoweredUp /\ ProbeRests /\ ProbeInStep
  BY DEF ControlInv
<1>1. ASSUME guard'.preflightPulse PROVE ~probe'.busy
  <2>1. guard.state = "READY" /\ ~probe.busy /\ Calm(g)
    BY <1>1, <1>e, <1>v DEF GuardEffect, PulsesInStep, EntersPage
  <2>2. ~glue.wakePulse /\ ~guard.preflightPulse /\ ~eng.reprobeStart
    BY <1>i, <2>1 DEF PoweredUp, PulsesInStep, RequestInStep, WorkStates, EngineInStep, Working
  <2>3. ~ScanStart(n)
    BY <1>c, <2>1, <2>2, NoScan DEF Overlay
  <2>4. QED
    BY <2>1, <2>3, RestsOn
<1>2. ASSUME glue'.engineStart PROVE ProbeAtRest'
  <2>1. ~StopRequest(n) /\ Overlay /\ ~PreflightRequest(n) /\ glue.probePending /\ probe.done
    BY <1>2 DEF ClockEffect, GlueEffect, EngineStart
  <2>2. /\ guard.state = "PREFLIGHT" /\ ~guard.preflightPulse /\ ~glue.wakePulse
        /\ ~eng.reprobeStart
    BY <1>i, <2>1 DEF RequestInStep, PoweredUp, EngineInStep, Working
  <2>3. ~ScanStart(n)
    BY <2>1, <2>2, NoScan, CalmIs
  <2>4. ~probe.busy
    BY <1>i, <2>1 DEF ProbeInStep
  <2>5. QED
    BY <2>3, <2>4, RestsOn DEF ProbeAtRest
<1>3. ASSUME Working', eng'.phase # "FINAL_PROBE" PROVE ProbeAtRest'
  <2>1. CASE ~Working
    <3>1. glue.engineStart /\ n.powered
      BY <1>3, <2>1 DEF ClockEffect, EngineEffect, CartRunAllowed
    <3>2. /\ guard.state = "PREFLIGHT" /\ ~guard.preflightPulse /\ ~glue.wakePulse
          /\ ~eng.reprobeStart /\ ~probe.busy
      BY <1>i, <3>1 DEF RequestInStep, PoweredUp, EngineInStep, Working, ProbeRests, ProbeAtRest
    <3>3. ~ScanStart(n)
      BY <3>1, <3>2, NoScan DEF Overlay
    <3>4. QED
      BY <3>2, <3>3, RestsOn DEF ProbeAtRest
  <2>2. CASE Working /\ eng.phase # "FINAL_PROBE"
    <3>1. ~probe.busy /\ ~eng.reprobeStart
      BY <1>i, <2>2 DEF ProbeRests, ProbeAtRest, EngineInStep
    <3>2. QED
      BY <2>2, <3>1, NoScanAtWork, RestsOn DEF ProbeAtRest
  <2>3. CASE eng.phase = "FINAL_PROBE"
    <3>1. probe.done
      BY <1>3, <2>3 DEF ClockEffect, EngineEffect, Working
    <3>2. ~probe.busy /\ ~eng.reprobeStart
      BY <1>i, <3>1 DEF ProbeRests, ProbeAtRest, ProbeInStep
    <3>3. Working
      BY <2>3 DEF Working
    <3>4. QED
      BY <3>2, <3>3, NoScanAtWork, RestsOn DEF ProbeAtRest
  <2>4. QED
    BY <2>1, <2>2, <2>3
<1>4. ASSUME eng'.reprobeStart PROVE ProbeAtRest'
  <2>1. Working /\ eng.phase # "FINAL_PROBE"
    BY <1>4 DEF ClockEffect, EngineEffect, Working
  <2>2. ~probe.busy /\ ~eng.reprobeStart
    BY <1>i, <2>1 DEF ProbeRests, ProbeAtRest, EngineInStep
  <2>3. QED
    BY <2>1, <2>2, NoScanAtWork, RestsOn DEF ProbeAtRest
<1>5. QED
  BY <1>1, <1>2, <1>3, <1>4 DEF ProbeRests

LEMMA IdentityFreshKept ==
  ASSUME ControlInv, NEW n, NEW i, ClockEffect(n, i)
  PROVE  IdentityFresh'
<1>i. /\ RequestInStep /\ EngineInStep /\ PulsesInStep /\ ProbeRests /\ ProbeInStep
      /\ IdentityFresh
  BY DEF ControlInv
<1>f. fresh' <=> \/ probe.state = "IDLE" /\ probe'.state # "IDLE"
                 \/ /\ fresh
                    /\ ~(guard.state # "PREFLIGHT" /\ guard'.state = "PREFLIGHT")
                    /\ ~(eng.phase # "FINAL_PROBE" /\ eng'.phase = "FINAL_PROBE")
  BY DEF ClockEffect, Observed
<1>p. guard.state # "PREFLIGHT" /\ guard'.state = "PREFLIGHT" => guard.state = "READY"
  BY DEF ClockEffect, GuardEffect
<1>n. eng.phase # "FINAL_PROBE" /\ eng'.phase = "FINAL_PROBE" => Working
  BY DEF ClockEffect, EngineEffect, Working
<1>s. ASSUME ScanStart(n), ~probe.busy PROVE fresh'
  <2>1. probe.state = "IDLE" /\ probe'.state # "IDLE"
    BY <1>i, <1>s DEF ProbeInStep, ClockEffect
  <2>2. QED
    BY <1>f, <2>1
<1>1. ASSUME glue'.probePending \/ glue'.engineStart PROVE fresh'
  <2>1. ~StopRequest(n) /\ (PreflightRequest(n) \/ glue.probePending)
    BY <1>1 DEF ClockEffect, GlueEffect, ProbePending, EngineStart
  <2>2. guard.state = "PREFLIGHT" /\ ~Working
    BY <1>i, <2>1 DEF RequestInStep, PreflightRequest, PreflightStart
  <2>3. CASE PreflightRequest(n)
    <3>1. ScanStart(n)
      BY <2>1, <2>2, <2>3, CalmIs DEF ScanStart
    <3>2. ~probe.busy
      BY <1>i, <2>3 DEF ProbeRests, PreflightRequest, PreflightStart
    <3>3. QED
      BY <1>s, <3>1, <3>2
  <2>4. CASE glue.probePending
    <3>1. fresh
      BY <1>i, <2>4 DEF IdentityFresh
    <3>2. QED
      BY <1>f, <1>n, <2>2, <3>1
  <2>5. QED
    BY <2>1, <2>3, <2>4
<1>2. ASSUME eng'.phase = "FINAL_PROBE", ~eng'.aborting, ~eng'.reprobeStart PROVE fresh'
  <2>1. eng.phase = "FINAL_PROBE" /\ ~eng.aborting /\ ~i.cancel
    BY <1>2 DEF ClockEffect, EngineEffect
  <2>2. Working /\ guard.state # "READY"
    BY <1>i, <2>1 DEF Working, RequestInStep, WorkStates
  <2>3. CASE eng.reprobeStart
    <3>1. ~StopRequest(n) /\ ~probe.busy
      BY <1>i, <2>1, <2>3 DEF ClockEffect, ProbeRests, ProbeAtRest
    <3>2. ScanStart(n)
      BY <2>3, <3>1, CalmIs DEF ScanStart
    <3>3. QED
      BY <1>s, <3>1, <3>2
  <2>4. CASE ~eng.reprobeStart
    <3>1. fresh
      BY <1>i, <2>1, <2>4 DEF IdentityFresh
    <3>2. QED
      BY <1>f, <1>p, <2>1, <2>2, <3>1
  <2>5. QED
    BY <2>3, <2>4
<1>3. QED
  BY <1>1, <1>2 DEF IdentityFresh

-----------------------------------------------------------------------------
(* The theorems *)

LEMMA ControlInvStarts ==
  ASSUME Init
  PROVE  ControlInv
<1>1. eng = [phase |-> "IDLE", modeOwned |-> FALSE, preflightOk |-> FALSE,
            preflightDone |-> FALSE, done |-> FALSE, reprobeStart |-> FALSE,
            failed |-> FALSE, error |-> 0, aborting |-> FALSE,
            committing |-> FALSE, io |-> "meta", ioPending |-> FALSE,
            afterNormalize |-> "ROM", step |-> 0, unit |-> "none"]
  BY DEF Init, EngineInit
<1>2. guard = [state |-> "LOCKED", timer |-> 0, entryReturn |-> "LOCKED",
              abandoned |-> FALSE, releaseReady |-> FALSE, pressPending |-> FALSE,
              preflightArmed |-> FALSE, operationArmed |-> FALSE,
              preflightPulse |-> FALSE, writePulse |-> FALSE]
  BY DEF Init, GuardInit
<1>3. GuardTypeOK
  <2>1. 0 \in 0 .. (EntryLimit - 1) /\ 0 \in 0 .. DebounceCycles
    BY LimitsArePositive, GuardAssumption
  <2>2. QED
    BY <1>2, <2>1 DEF Init, GuardInit, GuardTypeOK, GuardStates, TerminalStates
<1>4. ProbeTypeOK /\ ProbeInStep
  BY DEF Init, ProbeInit, ProbeTypeOK, ProbeInStep, ProbeStates, Modes, Platforms
<1>5. EngineType /\ EngineInStep
  BY <1>1 DEF EngineType, EngineInStep, Phases, Units, Working
<1>6. GlueType
  BY ControlAssumption, GuardAssumption DEF Init, GlueType
<1>7. HistoryType
  <2>1. alone = 0 /\ letGo = FALSE /\ fresh = FALSE
    BY DEF Init
  <2>2. 0 \in 0 .. HoldLimit
    BY LimitsArePositive
  <2>3. QED
    BY <2>1, <2>2 DEF HistoryType
<1>8. PulsesInStep /\ HoldCounted
  BY <1>2 DEF PulsesInStep, HoldCounted
<1>9. RequestInStep /\ PageInStep /\ PoweredUp /\ ProbeRests /\ IdentityFresh
  BY <1>1, <1>2 DEF Init, Working, RequestInStep, PageInStep, PoweredUp, ProbeRests, IdentityFresh
<1>10. QED
  BY <1>3, <1>4, <1>5, <1>6, <1>7, <1>8, <1>9 DEF ControlInv, ControlType

LEMMA StepEffect ==
  ASSUME ControlInv, Next
  PROVE  (\E n, i : ClockEffect(n, i)) /\ GuardTypeOK'
<1>1. PICK k \in KeySets, d \in {"none"} \cup Disturbances, p \in ProbeMay, e \in EngineMay :
        ControlClock(Pins(k, d), p, e)
  BY DEF Next
<1>2. QED
  BY <1>1, ClockStep

LEMMA ControlInvHolds == Spec => []ControlInv
<1>1. ControlInv /\ [Next]_vars => ControlInv'
  <2> SUFFICES ASSUME ControlInv, [Next]_vars PROVE ControlInv'
    OBVIOUS
  <2>1. CASE Next
    <3>1. (\E n, i : ClockEffect(n, i)) /\ GuardTypeOK'
      BY <2>1, StepEffect
    <3>2. PICK n, i : ClockEffect(n, i)
      BY <3>1
    <3>3. ControlType' /\ ProbeInStep' /\ EngineInStep' /\ PulsesInStep'
      BY <3>1, <3>2, TypeKept
    <3>4. QED
      BY <3>2, <3>3, RequestInStepKept, PageInStepKept, HoldCountedKept, PoweredUpKept,
         ProbeRestsKept, IdentityFreshKept DEF ControlInv
  <2>2. CASE UNCHANGED vars
    BY <2>2 DEF vars, ControlInv, ControlType, GuardTypeOK, ProbeTypeOK, EngineType, GlueType,
                HistoryType, ProbeInStep, EngineInStep, PulsesInStep, RequestInStep, PageInStep,
                HoldCounted, PoweredUp, ProbeRests, ProbeAtRest, IdentityFresh, Working
  <2>3. QED
    BY <2>1, <2>2
<1>2. QED
  BY <1>1, ControlInvStarts, PTL DEF Spec

\* Every register of the buttons, the guard, the probe, the engine and the glue
\* keeps its type.
THEOREM TypesKept == Spec => []TypeOK
<1>1. ControlInv => TypeOK
  BY DEF ControlInv, ControlType, EngineType, GlueType, HistoryType, TypeOK
<1>2. QED
  BY <1>1, ControlInvHolds, PTL

\* The page asks for the hold only of an engine that is ready, says "done" only
\* of one that has completed, and rests only when nothing of a transaction is
\* left (restore_guard.sv against restore_engine.sv).
THEOREM PageIsTruthful == Spec => []TruthfulPage
<1>1. ControlInv => TruthfulPage
  BY DEF ControlInv, RequestInStep, PageInStep, EngineInStep, Apart, WorkStates, Working,
         TruthfulPage
<1>2. QED
  BY <1>1, ControlInvHolds, PTL

\* The probe never runs while the engine holds the connector: core_top.sv gives
\* the two one bus without an arbiter.
THEOREM BusHasOneMaster == Spec => []OneMaster
<1>1. ControlInv => OneMaster
  BY DEF ControlInv, EngineInStep, Apart, ProbeRests, ProbeAtRest, Working, OneMaster
<1>2. QED
  BY <1>1, ControlInvHolds, PTL

\* The engine commits only after the user, with the preflight's result in, let
\* go of every button and then held A alone for the whole hold.
THEOREM CommitIsDeliberate == Spec => DeliberateCommit
<1>1. ControlInv /\ [Next]_vars =>
        [~eng.committing /\ eng'.committing => alone >= HoldLimit /\ letGo]_vars
  <2> SUFFICES ASSUME ControlInv, Next, ~eng.committing, eng'.committing
               PROVE  alone >= HoldLimit /\ letGo
    OBVIOUS
  <2>1. PICK n, i : ClockEffect(n, i)
    BY StepEffect
  <2>2. guard.writePulse
    BY <2>1 DEF ClockEffect, EngineEffect, CommitRequest, WriteStart
  <2>3. QED
    BY <2>2 DEF ControlInv, HoldCounted
<1>2. QED
  BY <1>1, ControlInvHolds, PTL DEF Spec, DeliberateCommit

\* The engine never works on an identity read before it was asked to work,
\* neither at the preflight nor when the write is committed.
THEOREM IdentityIsFresh == Spec => FreshIdentity
<1>1. ControlInv /\ [Next]_vars =>
        [/\ ~Working /\ Working' => fresh
         /\ eng.phase = "FINAL_PROBE" /\ eng'.phase = "WAKE" => fresh]_vars
  <2> SUFFICES ASSUME ControlInv, Next
               PROVE  /\ ~Working /\ Working' => fresh
                      /\ eng.phase = "FINAL_PROBE" /\ eng'.phase = "WAKE" => fresh
    OBVIOUS
  <2>1. PICK n, i : ClockEffect(n, i)
    BY StepEffect
  <2>2. ASSUME ~Working, Working' PROVE fresh
    BY <2>1, <2>2 DEF ClockEffect, EngineEffect, ControlInv, IdentityFresh
  <2>3. ASSUME eng.phase = "FINAL_PROBE", eng'.phase = "WAKE" PROVE fresh
    <3>1. ~eng.aborting /\ probe.done
      BY <2>1, <2>3 DEF ClockEffect, EngineEffect
    <3>2. ~eng.reprobeStart
      BY <3>1 DEF ControlInv, ProbeRests, ProbeAtRest
    <3>3. QED
      BY <2>3, <3>1, <3>2 DEF ControlInv, IdentityFresh
  <2>4. QED
    BY <2>2, <2>3
<1>2. QED
  BY <1>1, ControlInvHolds, PTL DEF Spec, FreshIdentity

=============================================================================
