----------------------------- MODULE RestoreGuard -----------------------------
(***************************************************************************)
(* The two deliberate holds that guard a restore, src/fpga/services/       *)
(* restore/restore_guard.sv.  GuardClock(i) is one clock under the inputs  *)
(* i: the buttons that are down (i.keys), cancel, available, busy          *)
(* (transaction_busy), preflightDone, preflightOk, done and failed.        *)
(* The progress bar is left out.                                           *)
(***************************************************************************)
EXTENDS Naturals

CONSTANTS DebounceCycles, EntryHoldCycles, HoldCycles

ASSUME GuardAssumption ==
  /\ DebounceCycles \in Nat
  /\ EntryHoldCycles \in Nat
  /\ HoldCycles \in Nat

VARIABLES guard, buttons

Keys == {"select", "x", "y", "a", "b"}

GuardStates ==
  {"LOCKED", "ENTRY_HOLD", "READY", "PREFLIGHT", "CONFIRM_HOLD", "RUN",
   "DONE", "FAILED", "ABORTING"}

TerminalStates == {"LOCKED", "DONE", "FAILED"}
WorkStates == {"PREFLIGHT", "CONFIRM_HOLD", "RUN", "ABORTING"}

AtLeastOne(n) == IF n < 1 THEN 1 ELSE n
EntryLimit == AtLeastOne(EntryHoldCycles)
HoldLimit == AtLeastOne(HoldCycles)

GuardInit ==
  /\ guard = [state |-> "LOCKED", timer |-> 0, entryReturn |-> "LOCKED",
              abandoned |-> FALSE, releaseReady |-> FALSE, pressPending |-> FALSE,
              preflightArmed |-> FALSE, operationArmed |-> FALSE,
              preflightPulse |-> FALSE, writePulse |-> FALSE]
  /\ buttons = [stable |-> {}, candidate |-> {}, count |-> 0]

-----------------------------------------------------------------------------
(* The debouncer: the whole key vector becomes stable at once *)

Debounced(raw) ==
  CASE raw = buttons.stable -> [buttons EXCEPT !.candidate = raw, !.count = 0]
    [] raw # buttons.stable /\ DebounceCycles <= 1 ->
         [stable |-> raw, candidate |-> raw, count |-> 0]
    [] raw # buttons.stable /\ DebounceCycles > 1 /\ raw # buttons.candidate ->
         [buttons EXCEPT !.candidate = raw, !.count = 1]
    [] raw # buttons.stable /\ DebounceCycles > 1 /\ raw = buttons.candidate ->
         IF buttons.count >= DebounceCycles - 1
         THEN [buttons EXCEPT !.stable = raw, !.count = 0]
         ELSE [buttons EXCEPT !.count = @ + 1]

Released(i) == i.keys = {} /\ buttons.stable = {}
Accepted(i) == i.keys = buttons.stable
Pressed(i, k) == Accepted(i) /\ i.keys = {k}

-----------------------------------------------------------------------------
(* Outputs *)

Overlay == guard.state # "LOCKED"
Authorized(i) == guard.state = "RUN" /\ ~i.cancel /\ "b" \notin i.keys
PreflightStart(i) == guard.preflightPulse /\ ~i.cancel /\ "b" \notin i.keys
WriteStart(i) == guard.writePulse /\ Authorized(i)

-----------------------------------------------------------------------------
(* The pages *)

Unpulsed == [guard EXCEPT !.preflightPulse = FALSE, !.writePulse = FALSE]
NoProgress == [Unpulsed EXCEPT !.timer = 0, !.pressPending = FALSE]
NoIntent == [NoProgress EXCEPT !.releaseReady = FALSE]

StopAsked(i) ==
  /\ i.cancel \/ "b" \in i.keys
  /\ guard.state # "ABORTING"
  /\ guard.state \in TerminalStates => i.cancel \/ guard.releaseReady

On(i, state) == ~StopAsked(i) /\ guard.state = state

Cancelled(i) ==
  /\ StopAsked(i)
  /\ guard' =
       [NoIntent EXCEPT
          !.state = IF guard.state # "LOCKED" /\ (guard.state \in WorkStates \/ i.busy)
                    THEN "ABORTING" ELSE "LOCKED",
          !.abandoned = TRUE]

RestsReleased(i) ==
  /\ ~StopAsked(i)
  /\ guard.state \in TerminalStates
  /\ Released(i)
  /\ guard' = [NoProgress EXCEPT !.releaseReady = TRUE]

Entry(i) == i.available /\ ~i.busy /\ i.keys = {"select"}

Rests(i) ==
  /\ ~StopAsked(i)
  /\ guard.state \in TerminalStates
  /\ ~Released(i)
  /\ guard' =
       CASE ~Entry(i) -> NoIntent
         [] Entry(i) /\ guard.releaseReady /\ Pressed(i, "select") ->
              [NoIntent EXCEPT !.state = "ENTRY_HOLD", !.entryReturn = guard.state,
                               !.abandoned = FALSE]
         [] Entry(i) /\ ~(guard.releaseReady /\ Pressed(i, "select")) -> NoProgress

EntryAbandoned(i) ==
  /\ On(i, "ENTRY_HOLD")
  /\ guard.abandoned \/ ~Entry(i) \/ ~Accepted(i)
  /\ guard' = LET g == [Unpulsed EXCEPT !.abandoned = TRUE, !.timer = 0]
              IN  IF Released(i) THEN [g EXCEPT !.state = guard.entryReturn,
                                                !.releaseReady = FALSE]
                  ELSE g

EntryHeld(i) ==
  /\ On(i, "ENTRY_HOLD")
  /\ ~guard.abandoned /\ Entry(i) /\ Accepted(i)
  /\ guard' = IF guard.timer >= EntryLimit - 1
              THEN [NoIntent EXCEPT !.state = "READY"]
              ELSE [Unpulsed EXCEPT !.timer = @ + 1]

PageUsable(i) == i.available /\ ~i.busy /\ i.keys \in {{}, {"a"}}

Page(i) ==
  /\ On(i, "READY")
  /\ guard' =
       CASE ~PageUsable(i) ->
              [Unpulsed EXCEPT !.pressPending = FALSE, !.releaseReady = FALSE]
         [] PageUsable(i) /\ Released(i) /\ guard.pressPending ->
              [Unpulsed EXCEPT !.state = "PREFLIGHT", !.preflightPulse = TRUE,
                               !.preflightArmed = ~i.preflightDone,
                               !.pressPending = FALSE, !.releaseReady = FALSE]
         [] PageUsable(i) /\ Released(i) /\ ~guard.pressPending ->
              [Unpulsed EXCEPT !.releaseReady = TRUE]
         [] PageUsable(i) /\ ~Released(i) ->
              IF guard.releaseReady /\ Pressed(i, "a")
              THEN [Unpulsed EXCEPT !.pressPending = TRUE, !.releaseReady = FALSE]
              ELSE Unpulsed

Preflight(i) ==
  /\ On(i, "PREFLIGHT")
  /\ guard' =
       IF guard.preflightArmed /\ i.preflightDone
       THEN [NoIntent EXCEPT !.state = IF i.preflightOk THEN "CONFIRM_HOLD" ELSE "FAILED"]
       ELSE [Unpulsed EXCEPT !.preflightArmed = @ \/ ~i.preflightDone]

\* A short slip of the finger does not start the hold over.
HoldForgiven(i) ==
  IF i.keys \notin {{}, {"a"}} THEN NoIntent
  ELSE [Unpulsed EXCEPT !.releaseReady = @ \/ Released(i)]

\* What a clock without the button properly down does to the hold.
HoldBroken(i) ==
  CASE i.keys \notin {{}, {"a"}} -> NoIntent
    [] Released(i) -> [NoProgress EXCEPT !.releaseReady = TRUE]
    [] i.keys \in {{}, {"a"}} /\ ~Released(i) -> NoProgress

ConfirmBroken(i) ==
  /\ On(i, "CONFIRM_HOLD")
  /\ ~Pressed(i, "a")
  /\ guard' = HoldBroken(i)

ConfirmHeld(i) ==
  /\ On(i, "CONFIRM_HOLD")
  /\ Pressed(i, "a")
  /\ guard' =
       CASE ~guard.pressPending /\ ~guard.releaseReady -> Unpulsed
         [] guard.pressPending \/ guard.releaseReady ->
              IF guard.timer >= HoldLimit - 1
              THEN [NoIntent EXCEPT !.state = "RUN", !.writePulse = TRUE,
                                    !.operationArmed = ~i.done]
              ELSE [Unpulsed EXCEPT !.timer = @ + 1, !.pressPending = TRUE,
                                    !.releaseReady = FALSE]

Run(i) ==
  /\ On(i, "RUN")
  /\ guard' =
       IF guard.operationArmed /\ i.done
       THEN [Unpulsed EXCEPT !.state = IF i.failed THEN "FAILED" ELSE "DONE",
                             !.releaseReady = FALSE]
       ELSE [Unpulsed EXCEPT !.operationArmed = @ \/ ~i.done]

Abort(i) ==
  /\ On(i, "ABORTING")
  /\ guard' = [NoIntent EXCEPT !.state = IF i.busy THEN "ABORTING" ELSE "FAILED"]

GuardClock(i) ==
  /\ buttons' = Debounced(i.keys)
  /\ \/ Cancelled(i) \/ RestsReleased(i) \/ Rests(i)
     \/ EntryAbandoned(i) \/ EntryHeld(i)
     \/ Page(i) \/ Preflight(i)
     \/ ConfirmBroken(i) \/ ConfirmHeld(i)
     \/ Run(i) \/ Abort(i)

GuardTypeOK ==
  /\ guard \in [state : GuardStates, timer : 0 .. (EntryLimit - 1) \cup 0 .. (HoldLimit - 1),
                entryReturn : TerminalStates, abandoned : BOOLEAN,
                releaseReady : BOOLEAN, pressPending : BOOLEAN,
                preflightArmed : BOOLEAN, operationArmed : BOOLEAN,
                preflightPulse : BOOLEAN, writePulse : BOOLEAN]
  /\ buttons.stable \subseteq Keys /\ buttons.candidate \subseteq Keys
  /\ buttons.count \in 0 .. DebounceCycles

=============================================================================
