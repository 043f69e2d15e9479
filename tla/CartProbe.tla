------------------------------ MODULE CartProbe ------------------------------
(***************************************************************************)
(* Identification of whatever is in the slot, src/fpga/services/identify/  *)
(* cart_probe.sv.  ProbeClock(i) is one clock under the inputs i: start,   *)
(* cancel, powered, protocol, modeReady, awake (the reset-recovery counter *)
(* has run out) and answer (the verdict of the identifier at work, or      *)
(* "none").  A Game Boy header is looked for first, and only a bus nobody  *)
(* drives is tried as a GBA cartridge.                                     *)
(***************************************************************************)

VARIABLE probe

Platforms == {"NONE", "GBA", "GB", "UNKNOWN", "UNSTABLE", "NO_POWER", "GG", "ADAPTER"}
Protocols == {"native", "sega", "other"}
Modes == {"IDLE", "GBA", "GB", "GG"}
Answers == {"OK", "NO_CART", "UNSTABLE", "NOT_MINE", "NO_POWER"}

ProbeStates ==
  {"IDLE", "MODE_HOLD", "MODE_WAIT", "WAKE", "GB_RUN", "GBA_RUN", "GG_RUN", "PARK", "DONE"}

ProbeInit ==
  probe = [state |-> "IDLE", mode |-> "IDLE", platform |-> "NONE",
           busy |-> FALSE, done |-> FALSE]

\* done holds for one clock.
Resting == [probe EXCEPT !.done = FALSE]

\* The identifier of a mode.
RunState == [GB |-> "GB_RUN", GBA |-> "GBA_RUN", GG |-> "GG_RUN"]

Verdict(answer, mine) ==
  CASE answer = "OK" -> mine
    [] answer = "UNSTABLE" -> "UNSTABLE"
    [] answer = "NOT_MINE" -> "UNKNOWN"
    [] answer = "NO_POWER" -> "NO_POWER"
    [] answer = "NO_CART" -> "NONE"

ProbeCancelled(i) ==
  /\ probe.busy
  /\ i.cancel \/ ~i.powered
  /\ probe' = [Resting EXCEPT !.state = "IDLE", !.mode = "IDLE", !.busy = FALSE,
                              !.platform = IF i.powered THEN "NONE" ELSE "NO_POWER",
                              !.done = TRUE]

ProbeGoesOn(i) == ~(probe.busy /\ (i.cancel \/ ~i.powered))

ProbeStarts(i) ==
  /\ ProbeGoesOn(i)
  /\ probe.state = "IDLE"
  /\ i.start
  /\ probe' =
       CASE ~i.powered ->
              [Resting EXCEPT !.busy = TRUE, !.state = "DONE", !.platform = "NO_POWER",
                              !.mode = "IDLE"]
         [] i.powered /\ i.protocol = "other" ->
              [Resting EXCEPT !.busy = TRUE, !.state = "DONE", !.platform = "ADAPTER",
                              !.mode = "IDLE"]
         [] i.powered /\ i.protocol # "other" ->
              [Resting EXCEPT !.busy = TRUE, !.state = "MODE_HOLD",
                              !.mode = IF i.protocol = "sega" THEN "GG" ELSE "GB"]

\* mode_ready is stale in the clock after the mode changed.
ProbeTurns(i) ==
  /\ ProbeGoesOn(i)
  /\ \/ probe.state = "MODE_HOLD" /\ probe' = [Resting EXCEPT !.state = "MODE_WAIT"]
     \/ probe.state = "MODE_WAIT" /\ i.modeReady /\ probe' = [Resting EXCEPT !.state = "WAKE"]
     \/ probe.state = "WAKE" /\ i.awake
        /\ probe' = [Resting EXCEPT !.state = RunState[probe.mode]]

ProbeHears(i) ==
  /\ ProbeGoesOn(i)
  /\ probe.state \in {"GB_RUN", "GBA_RUN", "GG_RUN"}
  /\ i.answer # "none"
  /\ probe' =
       CASE probe.state = "GB_RUN" /\ i.answer = "NO_CART" ->
              [Resting EXCEPT !.mode = "GBA", !.state = "MODE_HOLD"]
         [] probe.state = "GB_RUN" /\ i.answer # "NO_CART" ->
              [Resting EXCEPT !.platform = Verdict(i.answer, "GB"), !.state = "PARK"]
         [] probe.state = "GBA_RUN" ->
              [Resting EXCEPT !.platform = Verdict(i.answer, "GBA"), !.state = "PARK"]
         [] probe.state = "GG_RUN" ->
              [Resting EXCEPT !.platform = Verdict(i.answer, "GG"), !.state = "PARK"]

ProbeEnds(i) ==
  /\ ProbeGoesOn(i)
  /\ \/ probe.state = "PARK" /\ probe' = [Resting EXCEPT !.mode = "IDLE", !.state = "DONE"]
     \/ probe.state = "DONE"
        /\ probe' = [Resting EXCEPT !.busy = FALSE, !.done = TRUE, !.state = "IDLE"]

ProbeWaits(i) ==
  /\ ProbeGoesOn(i)
  /\ \/ probe.state = "IDLE" /\ ~i.start
     \/ probe.state = "MODE_WAIT" /\ ~i.modeReady
     \/ probe.state = "WAKE" /\ ~i.awake
     \/ probe.state \in {"GB_RUN", "GBA_RUN", "GG_RUN"} /\ i.answer = "none"
  /\ probe' = Resting

ProbeClock(i) ==
  \/ ProbeCancelled(i) \/ ProbeStarts(i) \/ ProbeTurns(i)
  \/ ProbeHears(i) \/ ProbeEnds(i) \/ ProbeWaits(i)

ProbeTypeOK ==
  probe \in [state : ProbeStates, mode : Modes, platform : Platforms,
             busy : BOOLEAN, done : BOOLEAN]

=============================================================================
