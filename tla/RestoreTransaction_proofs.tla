------------------------ MODULE RestoreTransaction_proofs ------------------------
(* Proofs that RestoreTransaction, for every set of cartridges, games and saves *)
(* and any number of faults, keeps the invariant of RestoreTransactionInv, and  *)
(* the properties it carries.                                                   *)
EXTENDS RestoreTransactionInv, TLAPS

-----------------------------------------------------------------------------
(* What the helpers of the engine do to its registers *)

\* The registers of e the invariant speaks of.
Shows(e, phase, unit, ioPending, io, aborting, committing, modeOwned, afterNormalize) ==
  /\ e.phase = phase /\ e.unit = unit
  /\ (e.ioPending <=> ioPending) /\ e.io = io
  /\ (e.aborting <=> aborting) /\ (e.committing <=> committing)
  /\ (e.modeOwned <=> modeOwned) /\ e.afterNormalize = afterNormalize

\* The updates they are made of.
Pulse(e) == [e EXCEPT !.preflightDone = FALSE, !.done = FALSE, !.reprobeStart = FALSE]
Take(e, b, u) == [e EXCEPT !.ioPending = b, !.unit = u]
Tell(e, b, c) == [e EXCEPT !.phase = "FAIL", !.modeOwned = FALSE, !.aborting = FALSE,
                           !.preflightDone = b, !.done = c]
Enter(e, p) == [e EXCEPT !.phase = p]
EnterControl(e, p) == [e EXCEPT !.phase = p, !.step = 0]
Use(e, u) == [e EXCEPT !.unit = u]
EnterUse(e, p, u) == [e EXCEPT !.phase = p, !.unit = u]
EnterAsk(e, p, o) == [e EXCEPT !.phase = p, !.io = o, !.ioPending = TRUE]
AskMeta(e) == [e EXCEPT !.io = "meta", !.ioPending = TRUE]
Stride(e, n) == [e EXCEPT !.step = n]
Offer(e) == [e EXCEPT !.phase = "READY", !.preflightOk = TRUE, !.preflightDone = TRUE]
Probe(e) == [e EXCEPT !.phase = "FINAL_PROBE", !.committing = TRUE, !.modeOwned = FALSE,
                      !.reprobeStart = TRUE]

LEMMA RegisterValues ==
  /\ TRUE \in Values /\ FALSE \in Values
  /\ \A p \in Phases : p \in Values
  /\ \A u \in Units : u \in Values
  /\ \A n \in Nat : n \in Values
  /\ \A b \in BOOLEAN : b \in Values
  /\ \A n \in 0 .. 12 : n \in Values
  /\ \A n \in 0 .. 2 : n \in Values
  /\ "meta" \in Values /\ "save" \in Values /\ "backup" \in Values
  /\ "ROM" \in Values /\ "FINAL_ROM" \in Values
  /\ 0 \in 0 .. 12 /\ 0 \in 0 .. 2
  <1>1. 0 \in 0 .. 12 /\ 0 \in 0 .. 2 /\ (\A n \in 0 .. 12 : n \in Nat)
        /\ (\A n \in 0 .. 2 : n \in Nat)
    BY SMT
  <1> QED
    BY <1>1, Zenon DEF Values

\* Registers that hold for one clock are not among them.
LEMMA PulseShows ==
  ASSUME NEW e, Typed(e)
  PROVE  /\ Typed(Pulse(e))
         /\ Shows(Pulse(e), e.phase, e.unit, e.ioPending, e.io, e.aborting, e.committing,
                  e.modeOwned, e.afterNormalize)
  <1> DEFINE f == Pulse(e)
  <1>1. e \in [Fields -> Values]
    BY Zenon DEF Typed, Registers
  <1>2. FALSE \in Values
    BY RegisterValues, Zenon
  <1>3. f \in Registers
    BY <1>1, <1>2, Zenon DEF Pulse, Registers, Fields
  <1>4. /\ f.phase = e.phase /\ f.unit = e.unit /\ f.ioPending = e.ioPending
        /\ f.io = e.io /\ f.aborting = e.aborting /\ f.committing = e.committing
        /\ f.modeOwned = e.modeOwned /\ f.afterNormalize = e.afterNormalize /\ f.step = e.step
        /\ f.preflightOk = e.preflightOk /\ f.preflightDone = FALSE /\ f.done = FALSE
        /\ f.reprobeStart = FALSE /\ f.failed = e.failed /\ f.error = e.error
    BY <1>1, SMT DEF Pulse, Fields
  <1> HIDE DEF f
  <1>5. Typed(f)
    BY <1>3, <1>2, <1>4, Zenon DEF Typed
  <1>6. Shows(f, e.phase, e.unit, e.ioPending, e.io, e.aborting, e.committing, e.modeOwned,
              e.afterNormalize)
    BY <1>4, Zenon DEF Shows
  <1> QED
    BY <1>5, <1>6, Zenon DEF f

\* An answer is taken note of.
LEMMA TakeShows ==
  ASSUME NEW e, Typed(e), NEW b \in BOOLEAN, NEW u \in Units
  PROVE  /\ Typed(Take(e, b, u))
         /\ Shows(Take(e, b, u), e.phase, u, b, e.io, e.aborting, e.committing, e.modeOwned,
                  e.afterNormalize)
  <1> DEFINE f == Take(e, b, u)
  <1>1. e \in [Fields -> Values]
    BY Zenon DEF Typed, Registers
  <1>2. b \in Values /\ u \in Values
    BY RegisterValues, Zenon
  <1>3. f \in Registers
    BY <1>1, <1>2, Zenon DEF Take, Registers, Fields
  <1>4. /\ f.phase = e.phase /\ f.unit = u /\ f.ioPending = b
        /\ f.io = e.io /\ f.aborting = e.aborting /\ f.committing = e.committing
        /\ f.modeOwned = e.modeOwned /\ f.afterNormalize = e.afterNormalize /\ f.step = e.step
        /\ f.preflightOk = e.preflightOk /\ f.preflightDone = e.preflightDone /\ f.done = e.done
        /\ f.reprobeStart = e.reprobeStart /\ f.failed = e.failed /\ f.error = e.error
    BY <1>1, SMT DEF Take, Fields
  <1> HIDE DEF f
  <1>5. Typed(f)
    BY <1>3, <1>2, <1>4, Zenon DEF Typed
  <1>6. Shows(f, e.phase, u, b, e.io, e.aborting, e.committing, e.modeOwned, e.afterNormalize)
    BY <1>4, Zenon DEF Shows
  <1> QED
    BY <1>5, <1>6, Zenon DEF f

LEMMA FailedShows ==
  ASSUME NEW e, Typed(e), NEW r \in 0 .. 12
  PROVE  /\ Typed(Failed(e, r))
         /\ Shows(Failed(e, r), e.phase, e.unit, e.ioPending, e.io, TRUE, e.committing,
                  e.modeOwned, e.afterNormalize)
  <1> DEFINE f == Failed(e, r)
  <1>1. e \in [Fields -> Values]
    BY Zenon DEF Typed, Registers
  <1>2. FALSE \in Values /\ TRUE \in Values /\ r \in Values
    BY RegisterValues, Zenon
  <1>3. f \in Registers
    BY <1>1, <1>2, Zenon DEF Failed, Registers, Fields
  <1>4. /\ f.phase = e.phase /\ f.unit = e.unit /\ f.ioPending = e.ioPending
        /\ f.io = e.io /\ f.aborting = TRUE /\ f.committing = e.committing
        /\ f.modeOwned = e.modeOwned /\ f.afterNormalize = e.afterNormalize /\ f.step = e.step
        /\ f.preflightOk = FALSE /\ f.preflightDone = e.preflightDone /\ f.done = e.done
        /\ f.reprobeStart = e.reprobeStart /\ f.failed = TRUE /\ f.error = r
    BY <1>1, SMT DEF Failed, Fields
  <1> HIDE DEF f
  <1>5. Typed(f)
    BY <1>3, <1>2, <1>4, Zenon DEF Typed
  <1>6. Shows(f, e.phase, e.unit, e.ioPending, e.io, TRUE, e.committing, e.modeOwned,
              e.afterNormalize)
    BY <1>4, Zenon DEF Shows
  <1> QED
    BY <1>5, <1>6, Zenon DEF f

LEMMA TellShows ==
  ASSUME NEW e, Typed(e), NEW b \in BOOLEAN, NEW c \in BOOLEAN
  PROVE  /\ Typed(Tell(e, b, c))
         /\ Shows(Tell(e, b, c), "FAIL", e.unit, e.ioPending, e.io, FALSE, e.committing,
                  FALSE, e.afterNormalize)
  <1> DEFINE f == Tell(e, b, c)
  <1>1. e \in [Fields -> Values]
    BY Zenon DEF Typed, Registers
  <1>2. "FAIL" \in Phases /\ "FAIL" \in Values /\ FALSE \in Values /\ b \in Values /\ c \in Values
    BY RegisterValues, Zenon DEF Phases
  <1>3. f \in Registers
    BY <1>1, <1>2, Zenon DEF Tell, Registers, Fields
  <1>4. /\ f.phase = "FAIL" /\ f.unit = e.unit /\ f.ioPending = e.ioPending
        /\ f.io = e.io /\ f.aborting = FALSE /\ f.committing = e.committing
        /\ f.modeOwned = FALSE /\ f.afterNormalize = e.afterNormalize /\ f.step = e.step
        /\ f.preflightOk = e.preflightOk /\ f.preflightDone = b /\ f.done = c
        /\ f.reprobeStart = e.reprobeStart /\ f.failed = e.failed /\ f.error = e.error
    BY <1>1, SMT DEF Tell, Fields
  <1> HIDE DEF f
  <1>5. Typed(f)
    BY <1>3, <1>2, <1>4, Zenon DEF Typed
  <1>6. Shows(f, "FAIL", e.unit, e.ioPending, e.io, FALSE, e.committing, FALSE,
              e.afterNormalize)
    BY <1>4, Zenon DEF Shows
  <1> QED
    BY <1>5, <1>6, Zenon DEF f

LEMMA RestartedShows ==
  ASSUME NEW e, Typed(e)
  PROVE  /\ Typed(Restarted(e))
         /\ Shows(Restarted(e), "META", e.unit, e.ioPending, e.io, FALSE, FALSE,
                  e.modeOwned, e.afterNormalize)
  <1> DEFINE f == Restarted(e)
  <1>1. e \in [Fields -> Values]
    BY Zenon DEF Typed, Registers
  <1>2. "META" \in Phases /\ "META" \in Values /\ 0 \in 0 .. 12 /\ 0 \in 0 .. 2 /\ 0 \in Values
          /\ FALSE \in Values
    BY RegisterValues, Zenon DEF Phases
  <1>3. f \in Registers
    BY <1>1, <1>2, Zenon DEF Restarted, Registers, Fields
  <1>4. /\ f.phase = "META" /\ f.unit = e.unit /\ f.ioPending = e.ioPending
        /\ f.io = e.io /\ f.aborting = FALSE /\ f.committing = FALSE
        /\ f.modeOwned = e.modeOwned /\ f.afterNormalize = e.afterNormalize /\ f.step = e.step
        /\ f.preflightOk = FALSE /\ f.preflightDone = e.preflightDone /\ f.done = e.done
        /\ f.reprobeStart = e.reprobeStart /\ f.failed = FALSE /\ f.error = 0
    BY <1>1, SMT DEF Restarted, Fields
  <1> HIDE DEF f
  <1>5. Typed(f)
    BY <1>3, <1>2, <1>4, Zenon DEF Typed
  <1>6. Shows(f, "META", e.unit, e.ioPending, e.io, FALSE, FALSE, e.modeOwned,
              e.afterNormalize)
    BY <1>4, Zenon DEF Shows
  <1> QED
    BY <1>5, <1>6, Zenon DEF f

LEMMA TakeModeShows ==
  ASSUME NEW e, Typed(e), NEW a \in {"ROM", "FINAL_ROM"}
  PROVE  /\ Typed(TakeMode(e, a))
         /\ Shows(TakeMode(e, a), "WAKE", e.unit, e.ioPending, e.io, e.aborting,
                  e.committing, TRUE, a)
  <1> DEFINE f == TakeMode(e, a)
  <1>1. e \in [Fields -> Values]
    BY Zenon DEF Typed, Registers
  <1>2. "WAKE" \in Phases /\ "WAKE" \in Values /\ TRUE \in Values /\ a \in Values
    BY RegisterValues, Zenon DEF Phases
  <1>3. f \in Registers
    BY <1>1, <1>2, Zenon DEF TakeMode, Registers, Fields
  <1>4. /\ f.phase = "WAKE" /\ f.unit = e.unit /\ f.ioPending = e.ioPending
        /\ f.io = e.io /\ f.aborting = e.aborting /\ f.committing = e.committing
        /\ f.modeOwned = TRUE /\ f.afterNormalize = a /\ f.step = e.step
        /\ f.preflightOk = e.preflightOk /\ f.preflightDone = e.preflightDone /\ f.done = e.done
        /\ f.reprobeStart = e.reprobeStart /\ f.failed = e.failed /\ f.error = e.error
    BY <1>1, SMT DEF TakeMode, Fields
  <1> HIDE DEF f
  <1>5. Typed(f)
    BY <1>3, <1>2, <1>4, Zenon DEF Typed
  <1>6. Shows(f, "WAKE", e.unit, e.ioPending, e.io, e.aborting, e.committing, TRUE, a)
    BY <1>4, Zenon DEF Shows
  <1> QED
    BY <1>5, <1>6, Zenon DEF f

LEMMA CompleteShows ==
  ASSUME NEW e, Typed(e)
  PROVE  /\ Typed(Complete(e))
         /\ Shows(Complete(e), "COMPLETE", e.unit, e.ioPending, e.io, e.aborting,
                  e.committing, FALSE, e.afterNormalize)
  <1> DEFINE f == Complete(e)
  <1>1. e \in [Fields -> Values]
    BY Zenon DEF Typed, Registers
  <1>2. "COMPLETE" \in Phases /\ "COMPLETE" \in Values /\ FALSE \in Values /\ TRUE \in Values
    BY RegisterValues, Zenon DEF Phases
  <1>3. f \in Registers
    BY <1>1, <1>2, Zenon DEF Complete, Registers, Fields
  <1>4. /\ f.phase = "COMPLETE" /\ f.unit = e.unit /\ f.ioPending = e.ioPending
        /\ f.io = e.io /\ f.aborting = e.aborting /\ f.committing = e.committing
        /\ f.modeOwned = FALSE /\ f.afterNormalize = e.afterNormalize /\ f.step = e.step
        /\ f.preflightOk = e.preflightOk /\ f.preflightDone = e.preflightDone /\ f.done = TRUE
        /\ f.reprobeStart = e.reprobeStart /\ f.failed = e.failed /\ f.error = e.error
    BY <1>1, SMT DEF Complete, Fields
  <1> HIDE DEF f
  <1>5. Typed(f)
    BY <1>3, <1>2, <1>4, Zenon DEF Typed
  <1>6. Shows(f, "COMPLETE", e.unit, e.ioPending, e.io, e.aborting, e.committing, FALSE,
              e.afterNormalize)
    BY <1>4, Zenon DEF Shows
  <1> QED
    BY <1>5, <1>6, Zenon DEF f

LEMMA EnterShows ==
  ASSUME NEW e, Typed(e), NEW p \in Phases
  PROVE  /\ Typed(Enter(e, p))
         /\ Shows(Enter(e, p), p, e.unit, e.ioPending, e.io, e.aborting, e.committing,
                  e.modeOwned, e.afterNormalize)
  <1> DEFINE f == Enter(e, p)
  <1>1. e \in [Fields -> Values]
    BY Zenon DEF Typed, Registers
  <1>2. p \in Values
    BY RegisterValues, Zenon
  <1>3. f \in Registers
    BY <1>1, <1>2, Zenon DEF Enter, Registers, Fields
  <1>4. /\ f.phase = p /\ f.unit = e.unit /\ f.ioPending = e.ioPending
        /\ f.io = e.io /\ f.aborting = e.aborting /\ f.committing = e.committing
        /\ f.modeOwned = e.modeOwned /\ f.afterNormalize = e.afterNormalize /\ f.step = e.step
        /\ f.preflightOk = e.preflightOk /\ f.preflightDone = e.preflightDone /\ f.done = e.done
        /\ f.reprobeStart = e.reprobeStart /\ f.failed = e.failed /\ f.error = e.error
    BY <1>1, SMT DEF Enter, Fields
  <1> HIDE DEF f
  <1>5. Typed(f)
    BY <1>3, <1>2, <1>4, Zenon DEF Typed
  <1>6. Shows(f, p, e.unit, e.ioPending, e.io, e.aborting, e.committing, e.modeOwned,
              e.afterNormalize)
    BY <1>4, Zenon DEF Shows
  <1> QED
    BY <1>5, <1>6, Zenon DEF f

LEMMA EnterControlShows ==
  ASSUME NEW e, Typed(e), NEW p \in Phases
  PROVE  /\ Typed(EnterControl(e, p))
         /\ Shows(EnterControl(e, p), p, e.unit, e.ioPending, e.io, e.aborting,
                  e.committing, e.modeOwned, e.afterNormalize)
  <1> DEFINE f == EnterControl(e, p)
  <1>1. e \in [Fields -> Values]
    BY Zenon DEF Typed, Registers
  <1>2. 0 \in 0 .. 12 /\ 0 \in 0 .. 2 /\ 0 \in Values /\ p \in Values
    BY RegisterValues, Zenon
  <1>3. f \in Registers
    BY <1>1, <1>2, Zenon DEF EnterControl, Registers, Fields
  <1>4. /\ f.phase = p /\ f.unit = e.unit /\ f.ioPending = e.ioPending
        /\ f.io = e.io /\ f.aborting = e.aborting /\ f.committing = e.committing
        /\ f.modeOwned = e.modeOwned /\ f.afterNormalize = e.afterNormalize /\ f.step = 0
        /\ f.preflightOk = e.preflightOk /\ f.preflightDone = e.preflightDone /\ f.done = e.done
        /\ f.reprobeStart = e.reprobeStart /\ f.failed = e.failed /\ f.error = e.error
    BY <1>1, SMT DEF EnterControl, Fields
  <1> HIDE DEF f
  <1>5. Typed(f)
    BY <1>3, <1>2, <1>4, Zenon DEF Typed
  <1>6. Shows(f, p, e.unit, e.ioPending, e.io, e.aborting, e.committing, e.modeOwned,
              e.afterNormalize)
    BY <1>4, Zenon DEF Shows
  <1> QED
    BY <1>5, <1>6, Zenon DEF f

LEMMA UseShows ==
  ASSUME NEW e, Typed(e), NEW u \in Units
  PROVE  /\ Typed(Use(e, u))
         /\ Shows(Use(e, u), e.phase, u, e.ioPending, e.io, e.aborting, e.committing,
                  e.modeOwned, e.afterNormalize)
  <1> DEFINE f == Use(e, u)
  <1>1. e \in [Fields -> Values]
    BY Zenon DEF Typed, Registers
  <1>2. u \in Values
    BY RegisterValues, Zenon
  <1>3. f \in Registers
    BY <1>1, <1>2, Zenon DEF Use, Registers, Fields
  <1>4. /\ f.phase = e.phase /\ f.unit = u /\ f.ioPending = e.ioPending
        /\ f.io = e.io /\ f.aborting = e.aborting /\ f.committing = e.committing
        /\ f.modeOwned = e.modeOwned /\ f.afterNormalize = e.afterNormalize /\ f.step = e.step
        /\ f.preflightOk = e.preflightOk /\ f.preflightDone = e.preflightDone /\ f.done = e.done
        /\ f.reprobeStart = e.reprobeStart /\ f.failed = e.failed /\ f.error = e.error
    BY <1>1, SMT DEF Use, Fields
  <1> HIDE DEF f
  <1>5. Typed(f)
    BY <1>3, <1>2, <1>4, Zenon DEF Typed
  <1>6. Shows(f, e.phase, u, e.ioPending, e.io, e.aborting, e.committing, e.modeOwned,
              e.afterNormalize)
    BY <1>4, Zenon DEF Shows
  <1> QED
    BY <1>5, <1>6, Zenon DEF f

LEMMA EnterUseShows ==
  ASSUME NEW e, Typed(e), NEW p \in Phases, NEW u \in Units
  PROVE  /\ Typed(EnterUse(e, p, u))
         /\ Shows(EnterUse(e, p, u), p, u, e.ioPending, e.io, e.aborting, e.committing,
                  e.modeOwned, e.afterNormalize)
  <1> DEFINE f == EnterUse(e, p, u)
  <1>1. e \in [Fields -> Values]
    BY Zenon DEF Typed, Registers
  <1>2. p \in Values /\ u \in Values
    BY RegisterValues, Zenon
  <1>3. f \in Registers
    BY <1>1, <1>2, Zenon DEF EnterUse, Registers, Fields
  <1>4. /\ f.phase = p /\ f.unit = u /\ f.ioPending = e.ioPending
        /\ f.io = e.io /\ f.aborting = e.aborting /\ f.committing = e.committing
        /\ f.modeOwned = e.modeOwned /\ f.afterNormalize = e.afterNormalize /\ f.step = e.step
        /\ f.preflightOk = e.preflightOk /\ f.preflightDone = e.preflightDone /\ f.done = e.done
        /\ f.reprobeStart = e.reprobeStart /\ f.failed = e.failed /\ f.error = e.error
    BY <1>1, SMT DEF EnterUse, Fields
  <1> HIDE DEF f
  <1>5. Typed(f)
    BY <1>3, <1>2, <1>4, Zenon DEF Typed
  <1>6. Shows(f, p, u, e.ioPending, e.io, e.aborting, e.committing, e.modeOwned,
              e.afterNormalize)
    BY <1>4, Zenon DEF Shows
  <1> QED
    BY <1>5, <1>6, Zenon DEF f

LEMMA EnterAskShows ==
  ASSUME NEW e, Typed(e), NEW p \in Phases, NEW o \in {"meta", "save", "backup"}
  PROVE  /\ Typed(EnterAsk(e, p, o))
         /\ Shows(EnterAsk(e, p, o), p, e.unit, TRUE, o, e.aborting, e.committing,
                  e.modeOwned, e.afterNormalize)
  <1> DEFINE f == EnterAsk(e, p, o)
  <1>1. e \in [Fields -> Values]
    BY Zenon DEF Typed, Registers
  <1>2. TRUE \in Values /\ o \in Values /\ p \in Values
    BY RegisterValues, Zenon
  <1>3. f \in Registers
    BY <1>1, <1>2, Zenon DEF EnterAsk, Registers, Fields
  <1>4. /\ f.phase = p /\ f.unit = e.unit /\ f.ioPending = TRUE
        /\ f.io = o /\ f.aborting = e.aborting /\ f.committing = e.committing
        /\ f.modeOwned = e.modeOwned /\ f.afterNormalize = e.afterNormalize /\ f.step = e.step
        /\ f.preflightOk = e.preflightOk /\ f.preflightDone = e.preflightDone /\ f.done = e.done
        /\ f.reprobeStart = e.reprobeStart /\ f.failed = e.failed /\ f.error = e.error
    BY <1>1, SMT DEF EnterAsk, Fields
  <1> HIDE DEF f
  <1>5. Typed(f)
    BY <1>3, <1>2, <1>4, Zenon DEF Typed
  <1>6. Shows(f, p, e.unit, TRUE, o, e.aborting, e.committing, e.modeOwned, e.afterNormalize)
    BY <1>4, Zenon DEF Shows
  <1> QED
    BY <1>5, <1>6, Zenon DEF f

LEMMA AskMetaShows ==
  ASSUME NEW e, Typed(e)
  PROVE  /\ Typed(AskMeta(e))
         /\ Shows(AskMeta(e), e.phase, e.unit, TRUE, "meta", e.aborting, e.committing,
                  e.modeOwned, e.afterNormalize)
  <1> DEFINE f == AskMeta(e)
  <1>1. e \in [Fields -> Values]
    BY Zenon DEF Typed, Registers
  <1>2. "meta" \in Values /\ TRUE \in Values
    BY RegisterValues, Zenon
  <1>3. f \in Registers
    BY <1>1, <1>2, Zenon DEF AskMeta, Registers, Fields
  <1>4. /\ f.phase = e.phase /\ f.unit = e.unit /\ f.ioPending = TRUE
        /\ f.io = "meta" /\ f.aborting = e.aborting /\ f.committing = e.committing
        /\ f.modeOwned = e.modeOwned /\ f.afterNormalize = e.afterNormalize /\ f.step = e.step
        /\ f.preflightOk = e.preflightOk /\ f.preflightDone = e.preflightDone /\ f.done = e.done
        /\ f.reprobeStart = e.reprobeStart /\ f.failed = e.failed /\ f.error = e.error
    BY <1>1, SMT DEF AskMeta, Fields
  <1> HIDE DEF f
  <1>5. Typed(f)
    BY <1>3, <1>2, <1>4, Zenon DEF Typed
  <1>6. Shows(f, e.phase, e.unit, TRUE, "meta", e.aborting, e.committing, e.modeOwned,
              e.afterNormalize)
    BY <1>4, Zenon DEF Shows
  <1> QED
    BY <1>5, <1>6, Zenon DEF f

LEMMA StrideShows ==
  ASSUME NEW e, Typed(e), NEW n \in 0 .. 2
  PROVE  /\ Typed(Stride(e, n))
         /\ Shows(Stride(e, n), e.phase, e.unit, e.ioPending, e.io, e.aborting,
                  e.committing, e.modeOwned, e.afterNormalize)
  <1> DEFINE f == Stride(e, n)
  <1>1. e \in [Fields -> Values]
    BY Zenon DEF Typed, Registers
  <1>2. n \in Values
    BY RegisterValues, Zenon
  <1>3. f \in Registers
    BY <1>1, <1>2, Zenon DEF Stride, Registers, Fields
  <1>4. /\ f.phase = e.phase /\ f.unit = e.unit /\ f.ioPending = e.ioPending
        /\ f.io = e.io /\ f.aborting = e.aborting /\ f.committing = e.committing
        /\ f.modeOwned = e.modeOwned /\ f.afterNormalize = e.afterNormalize /\ f.step = n
        /\ f.preflightOk = e.preflightOk /\ f.preflightDone = e.preflightDone /\ f.done = e.done
        /\ f.reprobeStart = e.reprobeStart /\ f.failed = e.failed /\ f.error = e.error
    BY <1>1, SMT DEF Stride, Fields
  <1> HIDE DEF f
  <1>5. Typed(f)
    BY <1>3, <1>2, <1>4, Zenon DEF Typed
  <1>6. Shows(f, e.phase, e.unit, e.ioPending, e.io, e.aborting, e.committing, e.modeOwned,
              e.afterNormalize)
    BY <1>4, Zenon DEF Shows
  <1> QED
    BY <1>5, <1>6, Zenon DEF f

LEMMA OfferShows ==
  ASSUME NEW e, Typed(e)
  PROVE  /\ Typed(Offer(e))
         /\ Shows(Offer(e), "READY", e.unit, e.ioPending, e.io, e.aborting, e.committing,
                  e.modeOwned, e.afterNormalize)
  <1> DEFINE f == Offer(e)
  <1>1. e \in [Fields -> Values]
    BY Zenon DEF Typed, Registers
  <1>2. "READY" \in Phases /\ "READY" \in Values /\ TRUE \in Values
    BY RegisterValues, Zenon DEF Phases
  <1>3. f \in Registers
    BY <1>1, <1>2, Zenon DEF Offer, Registers, Fields
  <1>4. /\ f.phase = "READY" /\ f.unit = e.unit /\ f.ioPending = e.ioPending
        /\ f.io = e.io /\ f.aborting = e.aborting /\ f.committing = e.committing
        /\ f.modeOwned = e.modeOwned /\ f.afterNormalize = e.afterNormalize /\ f.step = e.step
        /\ f.preflightOk = TRUE /\ f.preflightDone = TRUE /\ f.done = e.done
        /\ f.reprobeStart = e.reprobeStart /\ f.failed = e.failed /\ f.error = e.error
    BY <1>1, SMT DEF Offer, Fields
  <1> HIDE DEF f
  <1>5. Typed(f)
    BY <1>3, <1>2, <1>4, Zenon DEF Typed
  <1>6. Shows(f, "READY", e.unit, e.ioPending, e.io, e.aborting, e.committing, e.modeOwned,
              e.afterNormalize)
    BY <1>4, Zenon DEF Shows
  <1> QED
    BY <1>5, <1>6, Zenon DEF f

LEMMA ProbeShows ==
  ASSUME NEW e, Typed(e)
  PROVE  /\ Typed(Probe(e))
         /\ Shows(Probe(e), "FINAL_PROBE", e.unit, e.ioPending, e.io, e.aborting, TRUE,
                  FALSE, e.afterNormalize)
  <1> DEFINE f == Probe(e)
  <1>1. e \in [Fields -> Values]
    BY Zenon DEF Typed, Registers
  <1>2. "FINAL_PROBE" \in Phases /\ "FINAL_PROBE" \in Values /\ FALSE \in Values /\ TRUE \in Values
    BY RegisterValues, Zenon DEF Phases
  <1>3. f \in Registers
    BY <1>1, <1>2, Zenon DEF Probe, Registers, Fields
  <1>4. /\ f.phase = "FINAL_PROBE" /\ f.unit = e.unit /\ f.ioPending = e.ioPending
        /\ f.io = e.io /\ f.aborting = e.aborting /\ f.committing = TRUE
        /\ f.modeOwned = FALSE /\ f.afterNormalize = e.afterNormalize /\ f.step = e.step
        /\ f.preflightOk = e.preflightOk /\ f.preflightDone = e.preflightDone /\ f.done = e.done
        /\ f.reprobeStart = TRUE /\ f.failed = e.failed /\ f.error = e.error
    BY <1>1, SMT DEF Probe, Fields
  <1> HIDE DEF f
  <1>5. Typed(f)
    BY <1>3, <1>2, <1>4, Zenon DEF Typed
  <1>6. Shows(f, "FINAL_PROBE", e.unit, e.ioPending, e.io, e.aborting, TRUE, FALSE,
              e.afterNormalize)
    BY <1>4, Zenon DEF Shows
  <1> QED
    BY <1>5, <1>6, Zenon DEF f

LEMMA ReportShows ==
  ASSUME NEW e, Typed(e)
  PROVE  /\ Typed(Report(e))
         /\ Shows(Report(e), "FAIL", e.unit, e.ioPending, e.io, FALSE, e.committing, FALSE,
                  e.afterNormalize)
  <1> DEFINE b == ~e.committing
             c == e.committing
  <1>1. b \in BOOLEAN /\ c \in BOOLEAN
    BY Zenon DEF Typed
  <1>2. Report(e) = Tell(e, b, c)
    BY Zenon DEF Report, Tell
  <1> HIDE DEF b, c
  <1> QED
    BY <1>1, <1>2, TellShows, Zenon

\* What a subordinate's answer makes of the unit and of the SD command.
UnitAfter(i) ==
  IF i.event \in {"ctl_done", "rom_done", "save_done", "writer_ok", "writer_failed"} \/ ~i.powered
  THEN "none" ELSE eng.unit

IoAfter(i) == eng.ioPending /\ i.event \notin {"io_ok", "io_failed"}

LEMMA AnsweredShows ==
  ASSUME Typed(eng), NEW i
  PROVE  /\ Typed(Answered(i))
         /\ Shows(Answered(i), eng.phase, UnitAfter(i), IoAfter(i), eng.io, eng.aborting,
                  eng.committing, eng.modeOwned, eng.afterNormalize)
  <1>1. Typed(Pulsed) /\ Shows(Pulsed, eng.phase, eng.unit, eng.ioPending, eng.io,
                               eng.aborting,
                               eng.committing, eng.modeOwned, eng.afterNormalize)
    BY PulseShows, Zenon DEF Pulsed, Pulse
  <1> DEFINE b == Pulsed.ioPending /\ i.event \notin {"io_ok", "io_failed"}
             u == IF i.event \in {"ctl_done", "rom_done", "save_done", "writer_ok", "writer_failed"}
                     \/ ~i.powered
                  THEN "none" ELSE Pulsed.unit
  <1>2. Answered(i) = Take(Pulsed, b, u)
    BY Zenon DEF Answered, Take
  <1>3. b \in BOOLEAN
    BY Zenon
  <1>4. u \in Units /\ u = UnitAfter(i)
    BY <1>1, SMT DEF Typed, Units, Shows, UnitAfter
  <1>5. b <=> IoAfter(i)
    BY <1>1, Zenon DEF Shows, IoAfter
  <1> HIDE DEF b, u
  <1>6. /\ Typed(Answered(i))
        /\ Shows(Answered(i), Pulsed.phase, u, b, Pulsed.io, Pulsed.aborting,
                 Pulsed.committing, Pulsed.modeOwned, Pulsed.afterNormalize)
    BY <1>1, <1>2, <1>3, <1>4, TakeShows, Zenon
  <1> QED
    BY <1>1, <1>4, <1>5, <1>6, Zenon DEF Shows

\* The memories that stay as they are.
LEMMA PhaseNames ==
  /\ "IDLE" \in Phases /\ "META" \in Phases /\ "META_CHECK" \in Phases /\ "LOAD" \in Phases
  /\ "SAVE_CRC" \in Phases /\ "WAKE" \in Phases /\ "NORMALIZE" \in Phases /\ "ROM" \in Phases
  /\ "CAPTURE" \in Phases /\ "COMPARE" \in Phases /\ "BACKUP" \in Phases /\ "BACKUP_CHECK" \in Phases
  /\ "READY" \in Phases /\ "FINAL_ROM" \in Phases /\ "FINAL_SAVE" \in Phases /\ "PROGRAM" \in Phases
  /\ "VERIFY1" \in Phases /\ "VERIFY2" \in Phases /\ "COMPLETE" \in Phases /\ "FAIL" \in Phases
  /\ "CLEAN" \in Phases /\ "FINAL_PROBE" \in Phases
  BY Zenon DEF Phases

LEMMA UnitNames ==
  "none" \in Units /\ "ctl" \in Units /\ "rom" \in Units /\ "save" \in Units /\ "writer" \in Units
  BY Zenon DEF Units

LEMMA MemoryKeeps ==
  ASSUME mem \in Memory
  PROVE  /\ (\A h \in Header : mem' = [mem EXCEPT !.target = h] =>
              mem' \in Memory /\ mem'.meta = mem.meta /\ mem'.staged = mem.staged
                /\ mem'.original = mem.original /\ mem'.readback = mem.readback)
         /\ (\A m \in Meta : mem' = [mem EXCEPT !.meta = m] =>
              mem' \in Memory /\ mem'.staged = mem.staged
                /\ mem'.original = mem.original /\ mem'.readback = mem.readback)
         /\ (\A s \in Image : mem' = [mem EXCEPT !.staged = s] =>
              mem' \in Memory /\ mem'.meta = mem.meta
                /\ mem'.original = mem.original /\ mem'.readback = mem.readback)
         /\ (\A s \in Image : mem' = [mem EXCEPT !.original = s] =>
              mem' \in Memory /\ mem'.meta = mem.meta /\ mem'.staged = mem.staged
                /\ mem'.original = s /\ mem'.readback = mem.readback)
         /\ (\A s \in Image : mem' = [mem EXCEPT !.readback = s] =>
              mem' \in Memory /\ mem'.meta = mem.meta /\ mem'.staged = mem.staged
                /\ mem'.original = mem.original /\ mem'.readback = s)
  BY SMT DEF Memory

LEMMA AnsweredStep ==
  ASSUME Typed(eng), NEW i
  PROVE  Answered(i).step = eng.step
  <1>1. eng \in [Fields -> Values]
    BY Zenon DEF Typed, Registers
  <1>2. Pulsed.step = eng.step
    BY <1>1, SMT DEF Pulsed, Fields
  <1>3. Pulsed \in [Fields -> Values]
    BY PulseShows, Zenon DEF Pulsed, Pulse, Typed, Registers
  <1>4. ASSUME NEW b, NEW u PROVE Take(Pulsed, b, u).step = Pulsed.step
    BY <1>3, SMT DEF Take, Fields
  <1>5. \E b, u : Answered(i) = Take(Pulsed, b, u)
    BY Zenon DEF Answered, Take
  <1> QED
    BY <1>2, <1>4, <1>5

-----------------------------------------------------------------------------
(* What a clock of the engine keeps and does *)

\* What the engine is given.
Given(i) ==
  /\ i.event \in Events
  /\ i.meta \in Meta /\ i.header \in Header /\ i.image \in Image

Before(i) == Given(i) /\ Typed(eng) /\ mem \in Memory /\ EngineInv

\* A phase is entered only from the one before it, by the answer waited for.
Enters(p) == eng.phase # p /\ eng'.phase = p

EntersInOrder(i) ==
  /\ Enters("COMPARE") => eng.phase = "CAPTURE" /\ i.event = "save_done" /\ mem'.original = i.image
  /\ Enters("BACKUP") => eng.phase = "COMPARE" /\ i.event = "save_done" /\ i.image = mem.original
  /\ Enters("BACKUP_CHECK") => eng.phase = "BACKUP" /\ i.event = "io_ok" /\ mem'.readback = i.image
  /\ Enters("READY") => eng.phase = "BACKUP_CHECK" /\ mem.readback = mem.original
  /\ Enters("FINAL_SAVE") => eng.phase = "FINAL_ROM" /\ i.event = "rom_done" /\ i.rom = mem.meta.rom
  /\ Enters("PROGRAM") => eng.phase = "FINAL_SAVE" /\ i.event = "save_done" /\ i.image = mem.original
  /\ Enters("VERIFY1") => eng.phase = "PROGRAM" /\ i.event = "writer_ok"
  /\ Enters("VERIFY2") => eng.phase = "VERIFY1" /\ i.event = "save_done" /\ i.image = mem.staged
  /\ Enters("COMPLETE") => \/ eng.phase = "VERIFY2" /\ i.event = "save_done" /\ i.image = mem.staged
                           \/ ~WriteEnabled

Early == {"WAKE", "NORMALIZE", "FINAL_PROBE", "FINAL_ROM", "FINAL_SAVE"} \cup Preflighting

\* A transaction begins with its preflight, and is committed when READY.
Begins(i) ==
  /\ eng'.phase \in Early => eng.phase \in Early \/ (~Working /\ i.start)
  /\ ~Working /\ i.start /\ ~i.cancel => eng'.phase = "META" /\ ~eng'.committing
  /\ eng'.committing /\ ~eng.committing => eng.phase = "READY" /\ i.commit

\* The writer starts on the save that was captured; what works goes on working
\* until it answers, and the mode is not given up under it.
Works(i) ==
  /\ eng'.unit = "writer" /\ eng.unit # "writer" => Enters("PROGRAM")
  /\ eng.unit \in {"save", "writer"} /\ i.event = "none" /\ i.powered =>
       eng'.unit = eng.unit /\ eng'.phase = eng.phase
  /\ eng.modeOwned /\ ~eng'.modeOwned /\ i.powered => eng'.unit = "none"

\* Every buffer is written in one phase only.
Remembers ==
  /\ mem'.meta # mem.meta => eng.phase = "META"
  /\ mem'.staged # mem.staged => eng.phase = "LOAD"
  /\ mem'.original # mem.original => eng.phase = "CAPTURE" /\ eng'.phase \in {"CAPTURE", "COMPARE"}
  /\ mem'.readback # mem.readback => eng.phase = "BACKUP" /\ eng'.phase = "BACKUP_CHECK"

Kept(i) ==
  /\ Typed(eng') /\ mem' \in Memory /\ EngineInv'
  /\ EntersInOrder(i) /\ Begins(i) /\ Works(i) /\ Remembers

\* A check that fails, or a stop, leaves the engine in its phase to drain.
LEMMA FailingKeeps ==
  ASSUME NEW i, Before(i), Working, NEW r \in 0 .. 12, eng' = Failed(Answered(i), r),
         mem' \in Memory, eng.phase # "CAPTURE" => mem' = mem,
         mem'.meta = mem.meta, mem'.staged = mem.staged, mem'.readback = mem.readback
  PROVE  Kept(i)
  <1>0. /\ Typed(Answered(i))
        /\ Shows(Answered(i), eng.phase, UnitAfter(i), IoAfter(i), eng.io,
                  eng.aborting, eng.committing, eng.modeOwned, eng.afterNormalize)
    BY AnsweredShows, Zenon DEF Before
  <1>1. Working /\ mem' \in Memory
    OBVIOUS
  <1>2. /\ Typed(eng')
        /\ Shows(eng', eng.phase, UnitAfter(i), IoAfter(i), eng.io,
                  TRUE, eng.committing, eng.modeOwned, eng.afterNormalize)
    BY <1>0, FailedShows, SMT DEF Shows
  <1>3. EngineInv'
    BY <1>1, <1>2, SMT DEF Before, Shows, EngineInv, UnitInv, IoInv, RestInv, HalvesInv,
       StagedInv,
            UnitAfter, IoAfter, Working, Preflighting, Committing, SavePhases
  <1>4. EntersInOrder(i) /\ Begins(i) /\ Works(i) /\ Remembers
    BY <1>1, <1>2, SMT DEF Before, Shows, EngineInv, UnitInv, IoInv, RestInv, HalvesInv,
       UnitAfter,
            EntersInOrder, Begins, Works, Remembers, Enters, Early, Working, Preflighting,
            SavePhases
  <1> QED
    BY <1>1, <1>2, <1>3, <1>4, Zenon DEF Kept

LEMMA StartKeeps ==
  ASSUME NEW i, Before(i), StartPreflight(i)
  PROVE  Kept(i)
  <1>0. /\ Typed(Answered(i))
        /\ Shows(Answered(i), eng.phase, UnitAfter(i), IoAfter(i), eng.io,
                  eng.aborting, eng.committing, eng.modeOwned, eng.afterNormalize)
    BY AnsweredShows, Zenon DEF Before
  <1>1. ~Working /\ i.start /\ mem' = [mem EXCEPT !.target = i.header]
    BY Zenon DEF StartPreflight
  <1>a. /\ mem' \in Memory /\ mem'.meta = mem.meta /\ mem'.staged = mem.staged
        /\ mem'.original = mem.original /\ mem'.readback = mem.readback
    BY <1>1, MemoryKeeps, SMT DEF Before, Given
  <1>b. eng' = AskMeta(Restarted(Answered(i)))
    BY Zenon DEF StartPreflight, AskMeta
  <1>2. /\ Typed(eng')
        /\ Shows(eng', "META", UnitAfter(i), TRUE, "meta",
                  FALSE, FALSE, eng.modeOwned, eng.afterNormalize)
    BY <1>0, <1>b, RestartedShows, AskMetaShows, SMT DEF Shows
  <1>3. EngineInv'
    BY <1>1, <1>a, <1>2, SMT DEF Before, Shows, EngineInv, UnitInv, IoInv, RestInv,
       HalvesInv, StagedInv,
            UnitAfter, IoAfter, Working, Preflighting, Committing, SavePhases
  <1>4. EntersInOrder(i) /\ Begins(i) /\ Works(i) /\ Remembers
    BY <1>1, <1>a, <1>2, SMT DEF Before, Shows, EngineInv, UnitInv, IoInv, RestInv,
       HalvesInv, UnitAfter,
            EntersInOrder, Begins, Works, Remembers, Enters, Early, Working, Preflighting,
            SavePhases
  <1> QED
    BY <1>a, <1>2, <1>3, <1>4, Zenon DEF Kept

LEMMA RefuseKeeps ==
  ASSUME NEW i, Before(i), RefusePreflight(i)
  PROVE  Kept(i)
  <1>0. /\ Typed(Answered(i))
        /\ Shows(Answered(i), eng.phase, UnitAfter(i), IoAfter(i), eng.io,
                  eng.aborting, eng.committing, eng.modeOwned, eng.afterNormalize)
    BY AnsweredShows, Zenon DEF Before
  <1>1. ~Working /\ i.start /\ mem' = mem /\ eng' = Failed(Restarted(Answered(i)), 2)
    BY Zenon DEF RefusePreflight
  <1>c. 2 \in 0 .. 12
    BY SMT
  <1>2. /\ Typed(eng')
        /\ Shows(eng', "META", UnitAfter(i), IoAfter(i), eng.io,
                  TRUE, FALSE, eng.modeOwned, eng.afterNormalize)
    BY <1>0, <1>1, <1>c, RestartedShows, FailedShows, SMT DEF Shows
  <1>3. EngineInv'
    BY <1>1, <1>2, SMT DEF Before, Shows, EngineInv, UnitInv, IoInv, RestInv, HalvesInv,
       StagedInv,
            UnitAfter, IoAfter, Working, Preflighting, Committing, SavePhases
  <1>4. EntersInOrder(i) /\ Begins(i) /\ Works(i) /\ Remembers
    BY <1>1, <1>2, SMT DEF Before, Shows, EngineInv, UnitInv, IoInv, RestInv, HalvesInv,
       UnitAfter,
            EntersInOrder, Begins, Works, Remembers, Enters, Early, Working, Preflighting,
            SavePhases
  <1> QED
    BY <1>1, <1>2, <1>3, <1>4, Zenon DEF Kept, Before

LEMMA StopKeeps ==
  ASSUME NEW i, Before(i), Stop(i)
  PROVE  Kept(i)
  <1>1. 10 \in 0 .. 12 /\ 11 \in 0 .. 12
    BY SMT
  <1>2. CASE Stopped(i)
    BY <1>1, <1>2, FailingKeeps, Zenon DEF Stop, Before
  <1>3. CASE ~Stopped(i)
    BY <1>1, <1>3, FailingKeeps, Zenon DEF Stop, Before
  <1> QED
    BY <1>2, <1>3

LEMMA DrainKeeps ==
  ASSUME NEW i, Before(i), Drain(i)
  PROVE  Kept(i)
  <1>0. /\ Typed(Answered(i))
        /\ Shows(Answered(i), eng.phase, UnitAfter(i), IoAfter(i), eng.io,
                  eng.aborting, eng.committing, eng.modeOwned, eng.afterNormalize)
    BY AnsweredShows, Zenon DEF Before
  <1>1. eng.aborting /\ eng.phase # "CLEAN" /\ mem' = mem
        /\ eng' = Answered(i)
    BY Zenon DEF Drain
  <1>2. /\ Typed(eng')
        /\ Shows(eng', eng.phase, UnitAfter(i), IoAfter(i), eng.io,
                  eng.aborting, eng.committing, eng.modeOwned, eng.afterNormalize)
    BY <1>0, <1>1, SMT DEF Shows
  <1>3. EngineInv'
    BY <1>1, <1>2, SMT DEF Before, Shows, EngineInv, UnitInv, IoInv, RestInv, HalvesInv,
       StagedInv,
            UnitAfter, IoAfter, Working, Preflighting, Committing, SavePhases
  <1>4. EntersInOrder(i) /\ Begins(i) /\ Works(i) /\ Remembers
    BY <1>1, <1>2, SMT DEF Before, Shows, EngineInv, UnitInv, IoInv, RestInv, HalvesInv,
       UnitAfter,
            EntersInOrder, Begins, Works, Remembers, Enters, Early, Working, Preflighting,
            SavePhases
  <1> QED
    BY <1>1, <1>2, <1>3, <1>4, Zenon DEF Kept, Before

LEMMA EnterCleanKeeps ==
  ASSUME NEW i, Before(i), EnterClean(i)
  PROVE  Kept(i)
  <1>0. /\ Typed(Answered(i))
        /\ Shows(Answered(i), eng.phase, UnitAfter(i), IoAfter(i), eng.io,
                  eng.aborting, eng.committing, eng.modeOwned, eng.afterNormalize)
    BY AnsweredShows, Zenon DEF Before
  <1>1. eng.aborting /\ eng.phase # "CLEAN" /\ eng.unit = "none" /\ ~eng.ioPending /\ mem' = mem
        /\ eng' = EnterControl(Answered(i), "CLEAN")
    BY Zenon DEF EnterClean, EnterControl
  <1>a. /\ Typed(eng')
        /\ Shows(eng', "CLEAN", Answered(i).unit, Answered(i).ioPending,
                  Answered(i).io, Answered(i).aborting,
                  Answered(i).committing, Answered(i).modeOwned, Answered(i).afterNormalize)
    BY <1>0, <1>1, PhaseNames, EnterControlShows, Zenon
  <1>2. /\ Typed(eng')
        /\ Shows(eng', "CLEAN", UnitAfter(i), IoAfter(i), eng.io,
                  eng.aborting, eng.committing, eng.modeOwned, eng.afterNormalize)
    BY <1>0, <1>a, Zenon DEF Shows
  <1>3. EngineInv'
    BY <1>1, <1>2, SMT DEF Before, Shows, EngineInv, UnitInv, IoInv, RestInv, HalvesInv,
       StagedInv,
            UnitAfter, IoAfter, Working, Preflighting, Committing, SavePhases
  <1>4. EntersInOrder(i) /\ Begins(i) /\ Works(i) /\ Remembers
    BY <1>1, <1>2, SMT DEF Before, Shows, EngineInv, UnitInv, IoInv, RestInv, HalvesInv,
       UnitAfter,
            EntersInOrder, Begins, Works, Remembers, Enters, Early, Working, Preflighting,
            SavePhases
  <1> QED
    BY <1>1, <1>2, <1>3, <1>4, Zenon DEF Kept, Before

LEMMA AbandonKeeps ==
  ASSUME NEW i, Before(i), Abandon(i)
  PROVE  Kept(i)
  <1>0. /\ Typed(Answered(i))
        /\ Shows(Answered(i), eng.phase, UnitAfter(i), IoAfter(i), eng.io,
                  eng.aborting, eng.committing, eng.modeOwned, eng.afterNormalize)
    BY AnsweredShows, Zenon DEF Before
  <1>1. eng.aborting /\ (eng.phase = "CLEAN" => ~i.powered) /\ (~i.powered \/ ~eng.modeOwned)
        /\ (eng.phase # "CLEAN" => eng.unit = "none" /\ ~eng.ioPending) /\ mem' = mem
        /\ eng' = Report(Answered(i))
    BY Zenon DEF Abandon
  <1>2. /\ Typed(eng')
        /\ Shows(eng', "FAIL", UnitAfter(i), IoAfter(i), eng.io,
                  FALSE, eng.committing, FALSE, eng.afterNormalize)
    BY <1>0, <1>1, ReportShows, SMT DEF Shows
  <1>3. EngineInv'
    BY <1>1, <1>2, SMT DEF Before, Shows, EngineInv, UnitInv, IoInv, RestInv, HalvesInv,
       StagedInv,
            UnitAfter, IoAfter, Working, Preflighting, Committing, SavePhases
  <1>4. EntersInOrder(i) /\ Begins(i) /\ Works(i) /\ Remembers
    BY <1>1, <1>2, SMT DEF Before, Shows, EngineInv, UnitInv, IoInv, RestInv, HalvesInv,
       UnitAfter,
            EntersInOrder, Begins, Works, Remembers, Enters, Early, Working, Preflighting,
            SavePhases
  <1> QED
    BY <1>1, <1>2, <1>3, <1>4, Zenon DEF Kept, Before

LEMMA IssueKeeps ==
  ASSUME NEW i, Before(i), IssueControl(i)
  PROVE  Kept(i)
  <1>0. /\ Typed(Answered(i))
        /\ Shows(Answered(i), eng.phase, UnitAfter(i), IoAfter(i), eng.io,
                  eng.aborting, eng.committing, eng.modeOwned, eng.afterNormalize)
    BY AnsweredShows, Zenon DEF Before
  <1>1. eng.phase \in {"CLEAN", "NORMALIZE"} /\ eng.unit = "none" /\ mem' = mem
        /\ eng' = Use(Answered(i), "ctl")
    BY Zenon DEF IssueControl, ControlRuns, Use
  <1>a. /\ Typed(eng')
        /\ Shows(eng', Answered(i).phase, "ctl", Answered(i).ioPending,
                  Answered(i).io, Answered(i).aborting,
                  Answered(i).committing, Answered(i).modeOwned, Answered(i).afterNormalize)
    BY <1>0, <1>1, UnitNames, UseShows, Zenon
  <1>2. /\ Typed(eng')
        /\ Shows(eng', eng.phase, "ctl", IoAfter(i), eng.io,
                  eng.aborting, eng.committing, eng.modeOwned, eng.afterNormalize)
    BY <1>0, <1>a, Zenon DEF Shows
  <1>3. EngineInv'
    BY <1>1, <1>2, SMT DEF Before, Shows, EngineInv, UnitInv, IoInv, RestInv, HalvesInv,
       StagedInv,
            UnitAfter, IoAfter, Working, Preflighting, Committing, SavePhases
  <1>4. EntersInOrder(i) /\ Begins(i) /\ Works(i) /\ Remembers
    BY <1>1, <1>2, SMT DEF Before, Shows, EngineInv, UnitInv, IoInv, RestInv, HalvesInv,
       UnitAfter,
            EntersInOrder, Begins, Works, Remembers, Enters, Early, Working, Preflighting,
            SavePhases
  <1> QED
    BY <1>1, <1>2, <1>3, <1>4, Zenon DEF Kept, Before

\* A control write that is not the last.
LEMMA ControlSteps ==
  ASSUME NEW i, Before(i),
         eng.phase \in {"CLEAN", "NORMALIZE"},
         eng.unit = "ctl",
         eng.step \in {0, 1},
         i.event = "ctl_done",
         eng' = Stride(Answered(i), eng.step + 1), mem' = mem
  PROVE  Kept(i)
  <1>0. /\ Typed(Answered(i))
        /\ Shows(Answered(i), eng.phase, UnitAfter(i), IoAfter(i), eng.io,
                  eng.aborting, eng.committing, eng.modeOwned, eng.afterNormalize)
    BY AnsweredShows, Zenon DEF Before
  <1>b. eng.step + 1 \in 0 .. 2
    BY SMT
  <1>1. /\ Typed(eng')
        /\ Shows(eng', Answered(i).phase, Answered(i).unit, Answered(i).ioPending,
                 Answered(i).io,
                  Answered(i).aborting,
                  Answered(i).committing, Answered(i).modeOwned, Answered(i).afterNormalize)
    BY <1>0, <1>b, StrideShows, Zenon
  <1>2. /\ Typed(eng')
        /\ Shows(eng', eng.phase, UnitAfter(i), IoAfter(i), eng.io,
                  eng.aborting, eng.committing, eng.modeOwned, eng.afterNormalize)
    BY <1>0, <1>1, Zenon DEF Shows
  <1>3. mem' \in Memory
    BY Zenon DEF Before
  <1>4. EngineInv'
    BY <1>b, <1>2, <1>3, SMT DEF Before, Shows, EngineInv, UnitInv, IoInv, RestInv,
       HalvesInv, StagedInv,
            UnitAfter, IoAfter, Working, Preflighting, Committing, SavePhases
  <1>5. EntersInOrder(i) /\ Begins(i) /\ Works(i) /\ Remembers
    BY <1>b, <1>2, <1>3, SMT DEF Before, Shows, EngineInv, UnitInv, IoInv, RestInv,
       HalvesInv, UnitAfter,
            EntersInOrder, Begins, Works, Remembers, Enters, Early, Working, Preflighting,
            SavePhases
  <1> QED
    BY <1>2, <1>3, <1>4, <1>5, Zenon DEF Kept

\* The last one of the clean-up.
LEMMA CleanEnds ==
  ASSUME NEW i, Before(i),
         eng.phase = "CLEAN",
         i.event = "ctl_done",
         eng' = Report(Answered(i)), mem' = mem
  PROVE  Kept(i)
  <1>0. /\ Typed(Answered(i))
        /\ Shows(Answered(i), eng.phase, UnitAfter(i), IoAfter(i), eng.io,
                  eng.aborting, eng.committing, eng.modeOwned, eng.afterNormalize)
    BY AnsweredShows, Zenon DEF Before
  <1>1. /\ Typed(eng')
        /\ Shows(eng', "FAIL", Answered(i).unit, Answered(i).ioPending, Answered(i).io,
                  FALSE, Answered(i).committing, FALSE, Answered(i).afterNormalize)
    BY <1>0, ReportShows, Zenon
  <1>2. /\ Typed(eng')
        /\ Shows(eng', "FAIL", UnitAfter(i), IoAfter(i), eng.io,
                  FALSE, eng.committing, FALSE, eng.afterNormalize)
    BY <1>0, <1>1, Zenon DEF Shows
  <1>3. mem' \in Memory
    BY Zenon DEF Before
  <1>4. EngineInv'
    BY <1>2, <1>3, SMT DEF Before, Shows, EngineInv, UnitInv, IoInv, RestInv, HalvesInv,
       StagedInv,
            UnitAfter, IoAfter, Working, Preflighting, Committing, SavePhases
  <1>5. EntersInOrder(i) /\ Begins(i) /\ Works(i) /\ Remembers
    BY <1>2, <1>3, SMT DEF Before, Shows, EngineInv, UnitInv, IoInv, RestInv, HalvesInv,
       UnitAfter,
            EntersInOrder, Begins, Works, Remembers, Enters, Early, Working, Preflighting,
            SavePhases
  <1> QED
    BY <1>2, <1>3, <1>4, <1>5, Zenon DEF Kept

\* The last one before a ROM pass.
LEMMA NormalizeEnds ==
  ASSUME NEW i, Before(i),
         eng.phase = "NORMALIZE",
         i.event = "ctl_done",
         NEW p \in {"ROM", "FINAL_ROM"}, p = eng.afterNormalize,
         eng' = EnterUse(Answered(i), p, "rom"), mem' = mem
  PROVE  Kept(i)
  <1>0. /\ Typed(Answered(i))
        /\ Shows(Answered(i), eng.phase, UnitAfter(i), IoAfter(i), eng.io,
                  eng.aborting, eng.committing, eng.modeOwned, eng.afterNormalize)
    BY AnsweredShows, Zenon DEF Before
  <1>b. p \in Phases
    BY PhaseNames
  <1>1. /\ Typed(eng')
        /\ Shows(eng', p, "rom", Answered(i).ioPending, Answered(i).io,
                  Answered(i).aborting,
                  Answered(i).committing, Answered(i).modeOwned, Answered(i).afterNormalize)
    BY <1>0, <1>b, UnitNames, EnterUseShows, Zenon
  <1>2. /\ Typed(eng')
        /\ Shows(eng', p, "rom", IoAfter(i), eng.io,
                  eng.aborting, eng.committing, eng.modeOwned, eng.afterNormalize)
    BY <1>0, <1>1, Zenon DEF Shows
  <1>3. mem' \in Memory
    BY Zenon DEF Before
  <1>4. EngineInv'
    BY <1>b, <1>2, <1>3, SMT DEF Before, Shows, EngineInv, UnitInv, IoInv, RestInv,
       HalvesInv, StagedInv,
            UnitAfter, IoAfter, Working, Preflighting, Committing, SavePhases
  <1>5. EntersInOrder(i) /\ Begins(i) /\ Works(i) /\ Remembers
    BY <1>b, <1>2, <1>3, SMT DEF Before, Shows, EngineInv, UnitInv, IoInv, RestInv,
       HalvesInv, UnitAfter,
            EntersInOrder, Begins, Works, Remembers, Enters, Early, Working, Preflighting,
            SavePhases
  <1> QED
    BY <1>2, <1>3, <1>4, <1>5, Zenon DEF Kept

LEMMA MetaArrives ==
  ASSUME NEW i, Before(i),
         eng.phase = "META",
         i.event = "io_ok",
         eng' = Enter(Answered(i), "META_CHECK"), mem' = [mem EXCEPT !.meta = i.meta]
  PROVE  Kept(i)
  <1>0. /\ Typed(Answered(i))
        /\ Shows(Answered(i), eng.phase, UnitAfter(i), IoAfter(i), eng.io,
                  eng.aborting, eng.committing, eng.modeOwned, eng.afterNormalize)
    BY AnsweredShows, Zenon DEF Before
  <1>1. /\ Typed(eng')
        /\ Shows(eng', "META_CHECK", Answered(i).unit, Answered(i).ioPending, Answered(i).io,
                  Answered(i).aborting,
                  Answered(i).committing, Answered(i).modeOwned, Answered(i).afterNormalize)
    BY <1>0, PhaseNames, EnterShows, Zenon
  <1>2. /\ Typed(eng')
        /\ Shows(eng', "META_CHECK", UnitAfter(i), IoAfter(i), eng.io,
                  eng.aborting, eng.committing, eng.modeOwned, eng.afterNormalize)
    BY <1>0, <1>1, Zenon DEF Shows
  <1>3. /\ mem' \in Memory /\ mem'.staged = mem.staged
        /\ mem'.original = mem.original /\ mem'.readback = mem.readback
    BY MemoryKeeps, SMT DEF Before, Given
  <1>4. EngineInv'
    BY <1>2, <1>3, SMT DEF Before, Shows, EngineInv, UnitInv, IoInv, RestInv, HalvesInv,
       StagedInv,
            UnitAfter, IoAfter, Working, Preflighting, Committing, SavePhases
  <1>5. EntersInOrder(i) /\ Begins(i) /\ Works(i) /\ Remembers
    BY <1>2, <1>3, SMT DEF Before, Shows, EngineInv, UnitInv, IoInv, RestInv, HalvesInv,
       UnitAfter,
            EntersInOrder, Begins, Works, Remembers, Enters, Early, Working, Preflighting,
            SavePhases
  <1> QED
    BY <1>2, <1>3, <1>4, <1>5, Zenon DEF Kept

LEMMA MetaAccepted ==
  ASSUME NEW i, Before(i),
         eng.phase = "META_CHECK",
         i.event = "scanned",
         eng' = EnterAsk(Answered(i), "LOAD", "save"), mem' = mem
  PROVE  Kept(i)
  <1>0. /\ Typed(Answered(i))
        /\ Shows(Answered(i), eng.phase, UnitAfter(i), IoAfter(i), eng.io,
                  eng.aborting, eng.committing, eng.modeOwned, eng.afterNormalize)
    BY AnsweredShows, Zenon DEF Before
  <1>1. /\ Typed(eng')
        /\ Shows(eng', "LOAD", Answered(i).unit, TRUE, "save",
                  Answered(i).aborting,
                  Answered(i).committing, Answered(i).modeOwned, Answered(i).afterNormalize)
    BY <1>0, PhaseNames, EnterAskShows, Zenon
  <1>2. /\ Typed(eng')
        /\ Shows(eng', "LOAD", UnitAfter(i), TRUE, "save",
                  eng.aborting, eng.committing, eng.modeOwned, eng.afterNormalize)
    BY <1>0, <1>1, Zenon DEF Shows
  <1>3. mem' \in Memory
    BY Zenon DEF Before
  <1>4. EngineInv'
    BY <1>2, <1>3, SMT DEF Before, Shows, EngineInv, UnitInv, IoInv, RestInv, HalvesInv,
       StagedInv,
            UnitAfter, IoAfter, Working, Preflighting, Committing, SavePhases
  <1>5. EntersInOrder(i) /\ Begins(i) /\ Works(i) /\ Remembers
    BY <1>2, <1>3, SMT DEF Before, Shows, EngineInv, UnitInv, IoInv, RestInv, HalvesInv,
       UnitAfter,
            EntersInOrder, Begins, Works, Remembers, Enters, Early, Working, Preflighting,
            SavePhases
  <1> QED
    BY <1>2, <1>3, <1>4, <1>5, Zenon DEF Kept

LEMMA SaveArrives ==
  ASSUME NEW i, Before(i),
         eng.phase = "LOAD",
         i.event = "io_ok",
         eng' = Enter(Answered(i), "SAVE_CRC"), mem' = [mem EXCEPT !.staged = i.image]
  PROVE  Kept(i)
  <1>0. /\ Typed(Answered(i))
        /\ Shows(Answered(i), eng.phase, UnitAfter(i), IoAfter(i), eng.io,
                  eng.aborting, eng.committing, eng.modeOwned, eng.afterNormalize)
    BY AnsweredShows, Zenon DEF Before
  <1>1. /\ Typed(eng')
        /\ Shows(eng', "SAVE_CRC", Answered(i).unit, Answered(i).ioPending, Answered(i).io,
                  Answered(i).aborting,
                  Answered(i).committing, Answered(i).modeOwned, Answered(i).afterNormalize)
    BY <1>0, PhaseNames, EnterShows, Zenon
  <1>2. /\ Typed(eng')
        /\ Shows(eng', "SAVE_CRC", UnitAfter(i), IoAfter(i), eng.io,
                  eng.aborting, eng.committing, eng.modeOwned, eng.afterNormalize)
    BY <1>0, <1>1, Zenon DEF Shows
  <1>3. /\ mem' \in Memory /\ mem'.meta = mem.meta
        /\ mem'.original = mem.original /\ mem'.readback = mem.readback
    BY MemoryKeeps, SMT DEF Before, Given
  <1>4. EngineInv'
    BY <1>2, <1>3, SMT DEF Before, Shows, EngineInv, UnitInv, IoInv, RestInv, HalvesInv,
       StagedInv,
            UnitAfter, IoAfter, Working, Preflighting, Committing, SavePhases
  <1>5. EntersInOrder(i) /\ Begins(i) /\ Works(i) /\ Remembers
    BY <1>2, <1>3, SMT DEF Before, Shows, EngineInv, UnitInv, IoInv, RestInv, HalvesInv,
       UnitAfter,
            EntersInOrder, Begins, Works, Remembers, Enters, Early, Working, Preflighting,
            SavePhases
  <1> QED
    BY <1>2, <1>3, <1>4, <1>5, Zenon DEF Kept

LEMMA SaveAccepted ==
  ASSUME NEW i, Before(i),
         eng.phase = "SAVE_CRC",
         i.event = "scanned",
         mem.staged = mem.meta.save,
         eng' = TakeMode(Answered(i), "ROM"), mem' = mem
  PROVE  Kept(i)
  <1>0. /\ Typed(Answered(i))
        /\ Shows(Answered(i), eng.phase, UnitAfter(i), IoAfter(i), eng.io,
                  eng.aborting, eng.committing, eng.modeOwned, eng.afterNormalize)
    BY AnsweredShows, Zenon DEF Before
  <1>1. /\ Typed(eng')
        /\ Shows(eng', "WAKE", Answered(i).unit, Answered(i).ioPending, Answered(i).io,
                  Answered(i).aborting, Answered(i).committing, TRUE, "ROM")
    BY <1>0, TakeModeShows, Zenon
  <1>2. /\ Typed(eng')
        /\ Shows(eng', "WAKE", UnitAfter(i), IoAfter(i), eng.io,
                  eng.aborting, eng.committing, TRUE, "ROM")
    BY <1>0, <1>1, Zenon DEF Shows
  <1>3. mem' \in Memory
    BY Zenon DEF Before
  <1>4. EngineInv'
    BY <1>2, <1>3, SMT DEF Before, Shows, EngineInv, UnitInv, IoInv, RestInv, HalvesInv,
       StagedInv,
            UnitAfter, IoAfter, Working, Preflighting, Committing, SavePhases
  <1>5. EntersInOrder(i) /\ Begins(i) /\ Works(i) /\ Remembers
    BY <1>2, <1>3, SMT DEF Before, Shows, EngineInv, UnitInv, IoInv, RestInv, HalvesInv,
       UnitAfter,
            EntersInOrder, Begins, Works, Remembers, Enters, Early, Working, Preflighting,
            SavePhases
  <1> QED
    BY <1>2, <1>3, <1>4, <1>5, Zenon DEF Kept

LEMMA Wakes ==
  ASSUME NEW i, Before(i),
         eng.phase = "WAKE",
         i.event = "scanned",
         eng' = EnterControl(Answered(i), "NORMALIZE"), mem' = mem
  PROVE  Kept(i)
  <1>0. /\ Typed(Answered(i))
        /\ Shows(Answered(i), eng.phase, UnitAfter(i), IoAfter(i), eng.io,
                  eng.aborting, eng.committing, eng.modeOwned, eng.afterNormalize)
    BY AnsweredShows, Zenon DEF Before
  <1>1. /\ Typed(eng')
        /\ Shows(eng', "NORMALIZE", Answered(i).unit, Answered(i).ioPending, Answered(i).io,
                  Answered(i).aborting,
                  Answered(i).committing, Answered(i).modeOwned, Answered(i).afterNormalize)
    BY <1>0, PhaseNames, EnterControlShows, Zenon
  <1>2. /\ Typed(eng')
        /\ Shows(eng', "NORMALIZE", UnitAfter(i), IoAfter(i), eng.io,
                  eng.aborting, eng.committing, eng.modeOwned, eng.afterNormalize)
    BY <1>0, <1>1, Zenon DEF Shows
  <1>3. mem' \in Memory
    BY Zenon DEF Before
  <1>4. EngineInv'
    BY <1>2, <1>3, SMT DEF Before, Shows, EngineInv, UnitInv, IoInv, RestInv, HalvesInv,
       StagedInv,
            UnitAfter, IoAfter, Working, Preflighting, Committing, SavePhases
  <1>5. EntersInOrder(i) /\ Begins(i) /\ Works(i) /\ Remembers
    BY <1>2, <1>3, SMT DEF Before, Shows, EngineInv, UnitInv, IoInv, RestInv, HalvesInv,
       UnitAfter,
            EntersInOrder, Begins, Works, Remembers, Enters, Early, Working, Preflighting,
            SavePhases
  <1> QED
    BY <1>2, <1>3, <1>4, <1>5, Zenon DEF Kept

LEMMA RomMatched ==
  ASSUME NEW i, Before(i),
         i.event = "rom_done",
         i.rom = mem.meta.rom,
         NEW p, (eng.phase = "ROM" /\ p = "CAPTURE") \/ (eng.phase = "FINAL_ROM" /\ p = "FINAL_SAVE"),
         eng' = EnterUse(Answered(i), p, "save"), mem' = mem
  PROVE  Kept(i)
  <1>0. /\ Typed(Answered(i))
        /\ Shows(Answered(i), eng.phase, UnitAfter(i), IoAfter(i), eng.io,
                  eng.aborting, eng.committing, eng.modeOwned, eng.afterNormalize)
    BY AnsweredShows, Zenon DEF Before
  <1>b. p \in Phases
    BY PhaseNames
  <1>1. /\ Typed(eng')
        /\ Shows(eng', p, "save", Answered(i).ioPending, Answered(i).io,
                  Answered(i).aborting,
                  Answered(i).committing, Answered(i).modeOwned, Answered(i).afterNormalize)
    BY <1>0, <1>b, UnitNames, EnterUseShows, Zenon
  <1>2. /\ Typed(eng')
        /\ Shows(eng', p, "save", IoAfter(i), eng.io,
                  eng.aborting, eng.committing, eng.modeOwned, eng.afterNormalize)
    BY <1>0, <1>1, Zenon DEF Shows
  <1>3. mem' \in Memory
    BY Zenon DEF Before
  <1>4. EngineInv'
    BY <1>b, <1>2, <1>3, SMT DEF Before, Shows, EngineInv, UnitInv, IoInv, RestInv,
       HalvesInv, StagedInv,
            UnitAfter, IoAfter, Working, Preflighting, Committing, SavePhases
  <1>5. EntersInOrder(i) /\ Begins(i) /\ Works(i) /\ Remembers
    BY <1>b, <1>2, <1>3, SMT DEF Before, Shows, EngineInv, UnitInv, IoInv, RestInv,
       HalvesInv, UnitAfter,
            EntersInOrder, Begins, Works, Remembers, Enters, Early, Working, Preflighting,
            SavePhases
  <1> QED
    BY <1>2, <1>3, <1>4, <1>5, Zenon DEF Kept

\* What the first pass over the save delivers is kept.
LEMMA CaptureEnds ==
  ASSUME NEW i, Before(i),
         eng.phase = "CAPTURE",
         i.event = "save_done",
         eng' = EnterUse(Answered(i), "COMPARE", "save"), mem' = [mem EXCEPT !.original = i.image]
  PROVE  Kept(i)
  <1>0. /\ Typed(Answered(i))
        /\ Shows(Answered(i), eng.phase, UnitAfter(i), IoAfter(i), eng.io,
                  eng.aborting, eng.committing, eng.modeOwned, eng.afterNormalize)
    BY AnsweredShows, Zenon DEF Before
  <1>1. /\ Typed(eng')
        /\ Shows(eng', "COMPARE", "save", Answered(i).ioPending, Answered(i).io,
                  Answered(i).aborting,
                  Answered(i).committing, Answered(i).modeOwned, Answered(i).afterNormalize)
    BY <1>0, PhaseNames, UnitNames, EnterUseShows, Zenon
  <1>2. /\ Typed(eng')
        /\ Shows(eng', "COMPARE", "save", IoAfter(i), eng.io,
                  eng.aborting, eng.committing, eng.modeOwned, eng.afterNormalize)
    BY <1>0, <1>1, Zenon DEF Shows
  <1>3. /\ mem' \in Memory /\ mem'.meta = mem.meta /\ mem'.staged = mem.staged
        /\ mem'.original = i.image /\ mem'.readback = mem.readback
    BY MemoryKeeps, SMT DEF Before, Given
  <1>4. EngineInv'
    BY <1>2, <1>3, SMT DEF Before, Shows, EngineInv, UnitInv, IoInv, RestInv, HalvesInv,
       StagedInv,
            UnitAfter, IoAfter, Working, Preflighting, Committing, SavePhases
  <1>5. EntersInOrder(i) /\ Begins(i) /\ Works(i) /\ Remembers
    BY <1>2, <1>3, SMT DEF Before, Shows, EngineInv, UnitInv, IoInv, RestInv, HalvesInv,
       UnitAfter,
            EntersInOrder, Begins, Works, Remembers, Enters, Early, Working, Preflighting,
            SavePhases
  <1> QED
    BY <1>2, <1>3, <1>4, <1>5, Zenon DEF Kept

LEMMA CompareEnds ==
  ASSUME NEW i, Before(i),
         eng.phase = "COMPARE",
         i.event = "save_done",
         i.image = mem.original,
         eng' = EnterAsk(Answered(i), "BACKUP", "backup"), mem' = mem
  PROVE  Kept(i)
  <1>0. /\ Typed(Answered(i))
        /\ Shows(Answered(i), eng.phase, UnitAfter(i), IoAfter(i), eng.io,
                  eng.aborting, eng.committing, eng.modeOwned, eng.afterNormalize)
    BY AnsweredShows, Zenon DEF Before
  <1>1. /\ Typed(eng')
        /\ Shows(eng', "BACKUP", Answered(i).unit, TRUE, "backup",
                  Answered(i).aborting,
                  Answered(i).committing, Answered(i).modeOwned, Answered(i).afterNormalize)
    BY <1>0, PhaseNames, EnterAskShows, Zenon
  <1>2. /\ Typed(eng')
        /\ Shows(eng', "BACKUP", UnitAfter(i), TRUE, "backup",
                  eng.aborting, eng.committing, eng.modeOwned, eng.afterNormalize)
    BY <1>0, <1>1, Zenon DEF Shows
  <1>3. mem' \in Memory
    BY Zenon DEF Before
  <1>4. EngineInv'
    BY <1>2, <1>3, SMT DEF Before, Shows, EngineInv, UnitInv, IoInv, RestInv, HalvesInv,
       StagedInv,
            UnitAfter, IoAfter, Working, Preflighting, Committing, SavePhases
  <1>5. EntersInOrder(i) /\ Begins(i) /\ Works(i) /\ Remembers
    BY <1>2, <1>3, SMT DEF Before, Shows, EngineInv, UnitInv, IoInv, RestInv, HalvesInv,
       UnitAfter,
            EntersInOrder, Begins, Works, Remembers, Enters, Early, Working, Preflighting,
            SavePhases
  <1> QED
    BY <1>2, <1>3, <1>4, <1>5, Zenon DEF Kept

LEMMA FinalPassEnds ==
  ASSUME NEW i, Before(i),
         eng.phase = "FINAL_SAVE",
         i.event = "save_done",
         i.image = mem.original,
         eng' = EnterUse(Answered(i), "PROGRAM", "writer"), mem' = mem
  PROVE  Kept(i)
  <1>0. /\ Typed(Answered(i))
        /\ Shows(Answered(i), eng.phase, UnitAfter(i), IoAfter(i), eng.io,
                  eng.aborting, eng.committing, eng.modeOwned, eng.afterNormalize)
    BY AnsweredShows, Zenon DEF Before
  <1>1. /\ Typed(eng')
        /\ Shows(eng', "PROGRAM", "writer", Answered(i).ioPending, Answered(i).io,
                  Answered(i).aborting,
                  Answered(i).committing, Answered(i).modeOwned, Answered(i).afterNormalize)
    BY <1>0, PhaseNames, UnitNames, EnterUseShows, Zenon
  <1>2. /\ Typed(eng')
        /\ Shows(eng', "PROGRAM", "writer", IoAfter(i), eng.io,
                  eng.aborting, eng.committing, eng.modeOwned, eng.afterNormalize)
    BY <1>0, <1>1, Zenon DEF Shows
  <1>3. mem' \in Memory
    BY Zenon DEF Before
  <1>4. EngineInv'
    BY <1>2, <1>3, SMT DEF Before, Shows, EngineInv, UnitInv, IoInv, RestInv, HalvesInv,
       StagedInv,
            UnitAfter, IoAfter, Working, Preflighting, Committing, SavePhases
  <1>5. EntersInOrder(i) /\ Begins(i) /\ Works(i) /\ Remembers
    BY <1>2, <1>3, SMT DEF Before, Shows, EngineInv, UnitInv, IoInv, RestInv, HalvesInv,
       UnitAfter,
            EntersInOrder, Begins, Works, Remembers, Enters, Early, Working, Preflighting,
            SavePhases
  <1> QED
    BY <1>2, <1>3, <1>4, <1>5, Zenon DEF Kept

LEMMA FirstVerifyEnds ==
  ASSUME NEW i, Before(i),
         eng.phase = "VERIFY1",
         i.event = "save_done",
         i.image = mem.staged,
         eng' = EnterUse(Answered(i), "VERIFY2", "save"), mem' = mem
  PROVE  Kept(i)
  <1>0. /\ Typed(Answered(i))
        /\ Shows(Answered(i), eng.phase, UnitAfter(i), IoAfter(i), eng.io,
                  eng.aborting, eng.committing, eng.modeOwned, eng.afterNormalize)
    BY AnsweredShows, Zenon DEF Before
  <1>1. /\ Typed(eng')
        /\ Shows(eng', "VERIFY2", "save", Answered(i).ioPending, Answered(i).io,
                  Answered(i).aborting,
                  Answered(i).committing, Answered(i).modeOwned, Answered(i).afterNormalize)
    BY <1>0, PhaseNames, UnitNames, EnterUseShows, Zenon
  <1>2. /\ Typed(eng')
        /\ Shows(eng', "VERIFY2", "save", IoAfter(i), eng.io,
                  eng.aborting, eng.committing, eng.modeOwned, eng.afterNormalize)
    BY <1>0, <1>1, Zenon DEF Shows
  <1>3. mem' \in Memory
    BY Zenon DEF Before
  <1>4. EngineInv'
    BY <1>2, <1>3, SMT DEF Before, Shows, EngineInv, UnitInv, IoInv, RestInv, HalvesInv,
       StagedInv,
            UnitAfter, IoAfter, Working, Preflighting, Committing, SavePhases
  <1>5. EntersInOrder(i) /\ Begins(i) /\ Works(i) /\ Remembers
    BY <1>2, <1>3, SMT DEF Before, Shows, EngineInv, UnitInv, IoInv, RestInv, HalvesInv,
       UnitAfter,
            EntersInOrder, Begins, Works, Remembers, Enters, Early, Working, Preflighting,
            SavePhases
  <1> QED
    BY <1>2, <1>3, <1>4, <1>5, Zenon DEF Kept

LEMMA Completes ==
  ASSUME NEW i, Before(i),
         (eng.phase = "VERIFY2" /\ i.image = mem.staged) \/ (eng.phase = "FINAL_SAVE" /\ ~WriteEnabled),
         ~eng.aborting,
         i.event = "save_done",
         eng' = Complete(Answered(i)), mem' = mem
  PROVE  Kept(i)
  <1>0. /\ Typed(Answered(i))
        /\ Shows(Answered(i), eng.phase, UnitAfter(i), IoAfter(i), eng.io,
                  eng.aborting, eng.committing, eng.modeOwned, eng.afterNormalize)
    BY AnsweredShows, Zenon DEF Before
  <1>1. /\ Typed(eng')
        /\ Shows(eng', "COMPLETE", Answered(i).unit, Answered(i).ioPending, Answered(i).io,
                  Answered(i).aborting, Answered(i).committing, FALSE, Answered(i).afterNormalize)
    BY <1>0, CompleteShows, Zenon
  <1>2. /\ Typed(eng')
        /\ Shows(eng', "COMPLETE", UnitAfter(i), IoAfter(i), eng.io,
                  eng.aborting, eng.committing, FALSE, eng.afterNormalize)
    BY <1>0, <1>1, Zenon DEF Shows
  <1>3. mem' \in Memory
    BY Zenon DEF Before
  <1>4. EngineInv'
    BY <1>2, <1>3, SMT DEF Before, Shows, EngineInv, UnitInv, IoInv, RestInv, HalvesInv,
       StagedInv,
            UnitAfter, IoAfter, Working, Preflighting, Committing, SavePhases
  <1>5. EntersInOrder(i) /\ Begins(i) /\ Works(i) /\ Remembers
    BY <1>2, <1>3, SMT DEF Before, Shows, EngineInv, UnitInv, IoInv, RestInv, HalvesInv,
       UnitAfter,
            EntersInOrder, Begins, Works, Remembers, Enters, Early, Working, Preflighting,
            SavePhases
  <1> QED
    BY <1>2, <1>3, <1>4, <1>5, Zenon DEF Kept

LEMMA BackupArrives ==
  ASSUME NEW i, Before(i),
         eng.phase = "BACKUP",
         i.event = "io_ok",
         eng' = Enter(Answered(i), "BACKUP_CHECK"), mem' = [mem EXCEPT !.readback = i.image]
  PROVE  Kept(i)
  <1>0. /\ Typed(Answered(i))
        /\ Shows(Answered(i), eng.phase, UnitAfter(i), IoAfter(i), eng.io,
                  eng.aborting, eng.committing, eng.modeOwned, eng.afterNormalize)
    BY AnsweredShows, Zenon DEF Before
  <1>1. /\ Typed(eng')
        /\ Shows(eng', "BACKUP_CHECK", Answered(i).unit, Answered(i).ioPending,
                 Answered(i).io,
                  Answered(i).aborting,
                  Answered(i).committing, Answered(i).modeOwned, Answered(i).afterNormalize)
    BY <1>0, PhaseNames, EnterShows, Zenon
  <1>2. /\ Typed(eng')
        /\ Shows(eng', "BACKUP_CHECK", UnitAfter(i), IoAfter(i), eng.io,
                  eng.aborting, eng.committing, eng.modeOwned, eng.afterNormalize)
    BY <1>0, <1>1, Zenon DEF Shows
  <1>3. /\ mem' \in Memory /\ mem'.meta = mem.meta /\ mem'.staged = mem.staged
        /\ mem'.original = mem.original /\ mem'.readback = i.image
    BY MemoryKeeps, SMT DEF Before, Given
  <1>4. EngineInv'
    BY <1>2, <1>3, SMT DEF Before, Shows, EngineInv, UnitInv, IoInv, RestInv, HalvesInv,
       StagedInv,
            UnitAfter, IoAfter, Working, Preflighting, Committing, SavePhases
  <1>5. EntersInOrder(i) /\ Begins(i) /\ Works(i) /\ Remembers
    BY <1>2, <1>3, SMT DEF Before, Shows, EngineInv, UnitInv, IoInv, RestInv, HalvesInv,
       UnitAfter,
            EntersInOrder, Begins, Works, Remembers, Enters, Early, Working, Preflighting,
            SavePhases
  <1> QED
    BY <1>2, <1>3, <1>4, <1>5, Zenon DEF Kept

LEMMA BackupMatched ==
  ASSUME NEW i, Before(i),
         eng.phase = "BACKUP_CHECK",
         i.event = "scanned",
         mem.readback = mem.original,
         eng' = Offer(Answered(i)), mem' = mem
  PROVE  Kept(i)
  <1>0. /\ Typed(Answered(i))
        /\ Shows(Answered(i), eng.phase, UnitAfter(i), IoAfter(i), eng.io,
                  eng.aborting, eng.committing, eng.modeOwned, eng.afterNormalize)
    BY AnsweredShows, Zenon DEF Before
  <1>1. /\ Typed(eng')
        /\ Shows(eng', "READY", Answered(i).unit, Answered(i).ioPending, Answered(i).io,
                  Answered(i).aborting,
                  Answered(i).committing, Answered(i).modeOwned, Answered(i).afterNormalize)
    BY <1>0, OfferShows, Zenon
  <1>2. /\ Typed(eng')
        /\ Shows(eng', "READY", UnitAfter(i), IoAfter(i), eng.io,
                  eng.aborting, eng.committing, eng.modeOwned, eng.afterNormalize)
    BY <1>0, <1>1, Zenon DEF Shows
  <1>3. mem' \in Memory
    BY Zenon DEF Before
  <1>4. EngineInv'
    BY <1>2, <1>3, SMT DEF Before, Shows, EngineInv, UnitInv, IoInv, RestInv, HalvesInv,
       StagedInv,
            UnitAfter, IoAfter, Working, Preflighting, Committing, SavePhases
  <1>5. EntersInOrder(i) /\ Begins(i) /\ Works(i) /\ Remembers
    BY <1>2, <1>3, SMT DEF Before, Shows, EngineInv, UnitInv, IoInv, RestInv, HalvesInv,
       UnitAfter,
            EntersInOrder, Begins, Works, Remembers, Enters, Early, Working, Preflighting,
            SavePhases
  <1> QED
    BY <1>2, <1>3, <1>4, <1>5, Zenon DEF Kept

LEMMA CommitBegins ==
  ASSUME NEW i, Before(i),
         eng.phase = "READY",
         i.commit,
         eng' = Probe(Answered(i)), mem' = mem
  PROVE  Kept(i)
  <1>0. /\ Typed(Answered(i))
        /\ Shows(Answered(i), eng.phase, UnitAfter(i), IoAfter(i), eng.io,
                  eng.aborting, eng.committing, eng.modeOwned, eng.afterNormalize)
    BY AnsweredShows, Zenon DEF Before
  <1>b. eng.unit = "none"
    BY SMT DEF Before, Typed, Units, EngineInv, UnitInv, SavePhases
  <1>1. /\ Typed(eng')
        /\ Shows(eng', "FINAL_PROBE", Answered(i).unit, Answered(i).ioPending, Answered(i).io,
                  Answered(i).aborting, TRUE, FALSE, Answered(i).afterNormalize)
    BY <1>0, <1>b, ProbeShows, Zenon
  <1>2. /\ Typed(eng')
        /\ Shows(eng', "FINAL_PROBE", UnitAfter(i), IoAfter(i), eng.io,
                  eng.aborting, TRUE, FALSE, eng.afterNormalize)
    BY <1>0, <1>1, Zenon DEF Shows
  <1>3. mem' \in Memory
    BY Zenon DEF Before
  <1>4. EngineInv'
    BY <1>b, <1>2, <1>3, SMT DEF Before, Shows, EngineInv, UnitInv, IoInv, RestInv,
       HalvesInv, StagedInv,
            UnitAfter, IoAfter, Working, Preflighting, Committing, SavePhases
  <1>5. EntersInOrder(i) /\ Begins(i) /\ Works(i) /\ Remembers
    BY <1>b, <1>2, <1>3, SMT DEF Before, Shows, EngineInv, UnitInv, IoInv, RestInv,
       HalvesInv, UnitAfter,
            EntersInOrder, Begins, Works, Remembers, Enters, Early, Working, Preflighting,
            SavePhases
  <1> QED
    BY <1>2, <1>3, <1>4, <1>5, Zenon DEF Kept

LEMMA ProbeMatched ==
  ASSUME NEW i, Before(i),
         eng.phase = "FINAL_PROBE",
         i.event = "probe_ok",
         eng' = TakeMode(Answered(i), "FINAL_ROM"), mem' = mem
  PROVE  Kept(i)
  <1>0. /\ Typed(Answered(i))
        /\ Shows(Answered(i), eng.phase, UnitAfter(i), IoAfter(i), eng.io,
                  eng.aborting, eng.committing, eng.modeOwned, eng.afterNormalize)
    BY AnsweredShows, Zenon DEF Before
  <1>1. /\ Typed(eng')
        /\ Shows(eng', "WAKE", Answered(i).unit, Answered(i).ioPending, Answered(i).io,
                  Answered(i).aborting, Answered(i).committing, TRUE, "FINAL_ROM")
    BY <1>0, TakeModeShows, Zenon
  <1>2. /\ Typed(eng')
        /\ Shows(eng', "WAKE", UnitAfter(i), IoAfter(i), eng.io,
                  eng.aborting, eng.committing, TRUE, "FINAL_ROM")
    BY <1>0, <1>1, Zenon DEF Shows
  <1>3. mem' \in Memory
    BY Zenon DEF Before
  <1>4. EngineInv'
    BY <1>2, <1>3, SMT DEF Before, Shows, EngineInv, UnitInv, IoInv, RestInv, HalvesInv,
       StagedInv,
            UnitAfter, IoAfter, Working, Preflighting, Committing, SavePhases
  <1>5. EntersInOrder(i) /\ Begins(i) /\ Works(i) /\ Remembers
    BY <1>2, <1>3, SMT DEF Before, Shows, EngineInv, UnitInv, IoInv, RestInv, HalvesInv,
       UnitAfter,
            EntersInOrder, Begins, Works, Remembers, Enters, Early, Working, Preflighting,
            SavePhases
  <1> QED
    BY <1>2, <1>3, <1>4, <1>5, Zenon DEF Kept

LEMMA WritingEnds ==
  ASSUME NEW i, Before(i),
         eng.phase = "PROGRAM",
         i.event = "writer_ok",
         eng' = EnterUse(Answered(i), "VERIFY1", "save"), mem' = mem
  PROVE  Kept(i)
  <1>0. /\ Typed(Answered(i))
        /\ Shows(Answered(i), eng.phase, UnitAfter(i), IoAfter(i), eng.io,
                  eng.aborting, eng.committing, eng.modeOwned, eng.afterNormalize)
    BY AnsweredShows, Zenon DEF Before
  <1>1. /\ Typed(eng')
        /\ Shows(eng', "VERIFY1", "save", Answered(i).ioPending, Answered(i).io,
                  Answered(i).aborting,
                  Answered(i).committing, Answered(i).modeOwned, Answered(i).afterNormalize)
    BY <1>0, PhaseNames, UnitNames, EnterUseShows, Zenon
  <1>2. /\ Typed(eng')
        /\ Shows(eng', "VERIFY1", "save", IoAfter(i), eng.io,
                  eng.aborting, eng.committing, eng.modeOwned, eng.afterNormalize)
    BY <1>0, <1>1, Zenon DEF Shows
  <1>3. mem' \in Memory
    BY Zenon DEF Before
  <1>4. EngineInv'
    BY <1>2, <1>3, SMT DEF Before, Shows, EngineInv, UnitInv, IoInv, RestInv, HalvesInv,
       StagedInv,
            UnitAfter, IoAfter, Working, Preflighting, Committing, SavePhases
  <1>5. EntersInOrder(i) /\ Begins(i) /\ Works(i) /\ Remembers
    BY <1>2, <1>3, SMT DEF Before, Shows, EngineInv, UnitInv, IoInv, RestInv, HalvesInv,
       UnitAfter,
            EntersInOrder, Begins, Works, Remembers, Enters, Early, Working, Preflighting,
            SavePhases
  <1> QED
    BY <1>2, <1>3, <1>4, <1>5, Zenon DEF Kept

\* Nothing the engine waits for, or nothing at all.
LEMMA NothingHappens ==
  ASSUME NEW i, Before(i),
         ~Working => ~(i.start /\ ~i.cancel),
         eng' = Answered(i), mem' = mem
  PROVE  Kept(i)
  <1>0. /\ Typed(Answered(i))
        /\ Shows(Answered(i), eng.phase, UnitAfter(i), IoAfter(i), eng.io,
                  eng.aborting, eng.committing, eng.modeOwned, eng.afterNormalize)
    BY AnsweredShows, Zenon DEF Before
  <1>2. /\ Typed(eng')
        /\ Shows(eng', eng.phase, UnitAfter(i), IoAfter(i), eng.io,
                  eng.aborting, eng.committing, eng.modeOwned, eng.afterNormalize)
    BY <1>0, Zenon
  <1>3. mem' \in Memory
    BY Zenon DEF Before
  <1>4. EngineInv'
    BY <1>2, <1>3, SMT DEF Before, Shows, EngineInv, UnitInv, IoInv, RestInv, HalvesInv,
       StagedInv,
            UnitAfter, IoAfter, Working, Preflighting, Committing, SavePhases
  <1>5. EntersInOrder(i) /\ Begins(i) /\ Works(i) /\ Remembers
    BY <1>2, <1>3, SMT DEF Before, Shows, EngineInv, UnitInv, IoInv, RestInv, HalvesInv,
       UnitAfter,
            EntersInOrder, Begins, Works, Remembers, Enters, Early, Working, Preflighting,
            SavePhases
  <1> QED
    BY <1>2, <1>3, <1>4, <1>5, Zenon DEF Kept

-----------------------------------------------------------------------------
(* Every clock of the engine is one of those *)

LEMMA ErrorCodes ==
  1 \in 0 .. 12 /\ 3 \in 0 .. 12 /\ 4 \in 0 .. 12 /\ 5 \in 0 .. 12 /\ 6 \in 0 .. 12
    /\ 7 \in 0 .. 12 /\ 8 \in 0 .. 12 /\ 9 \in 0 .. 12 /\ 12 \in 0 .. 12
  BY SMT

LEMMA ControlKeeps ==
  ASSUME NEW i, Before(i), ControlDone(i)
  PROVE  Kept(i)
  <1>1. /\ eng.phase \in {"CLEAN", "NORMALIZE"} /\ eng.unit = "ctl" /\ i.event = "ctl_done"
        /\ mem' = mem
    BY Zenon DEF ControlDone, ControlRuns
  <1>2. CASE eng.step < 2
    <2>1. eng' = Stride(Answered(i), eng.step + 1)
      <3>1. eng' = [Answered(i) EXCEPT !.step = Answered(i).step + 1]
        BY <1>2, Zenon DEF ControlDone
      <3>2. Answered(i).step = eng.step
        BY AnsweredStep, Zenon DEF Before
      <3> QED
        BY <3>1, <3>2, Zenon DEF Stride
    <2>2. eng.step \in {0, 1}
      BY <1>2, SMT DEF Before, Typed
    <2> QED
      BY <1>1, <2>1, <2>2, ControlSteps, Zenon
  <1>3. CASE ~(eng.step < 2) /\ eng.phase = "CLEAN"
    BY <1>1, <1>3, CleanEnds, Zenon DEF ControlDone
  <1>4. CASE ~(eng.step < 2) /\ eng.phase # "CLEAN"
    <2> DEFINE p == IF eng.afterNormalize = "FINAL_ROM" THEN "FINAL_ROM" ELSE "ROM"
    <2>1. eng' = EnterUse(Answered(i), p, "rom")
      BY <1>4, Zenon DEF ControlDone, BeginRom, EnterUse
    <2>2. p \in {"ROM", "FINAL_ROM"} /\ p = eng.afterNormalize
      BY Zenon DEF Before, Typed
    <2> HIDE DEF p
    <2> QED
      BY <1>1, <1>4, <2>1, <2>2, NormalizeEnds, Zenon
  <1> QED
    BY <1>2, <1>3, <1>4

\* The sequencer runs: the engine works and nothing stops it.
LEMMA Sequenced ==
  ASSUME NEW i, FsmRuns(i), NEW p, eng.phase = p, p \notin {"IDLE", "COMPLETE", "FAIL"}
  PROVE  Working /\ ~eng.aborting
  BY DEF FsmRuns, Working

LEMMA FilesKeep ==
  ASSUME NEW i, Before(i), MetaLoaded(i) \/ SaveLoaded(i) \/ BackupWritten(i)
  PROVE  Kept(i)
  <1>1. Working
    BY DEF MetaLoaded, SaveLoaded, BackupWritten, Advances, Working
  <1>2. CASE i.event = "io_failed"
    <2>1. eng' = Failed(Answered(i), 6) /\ mem' = mem
      BY <1>2, Zenon DEF MetaLoaded, SaveLoaded, BackupWritten
    <2> QED
      BY <1>1, <2>1, ErrorCodes, FailingKeeps, Zenon DEF Before
  <1>3. CASE i.event # "io_failed" /\ MetaLoaded(i)
    BY <1>3, MetaArrives, Zenon DEF MetaLoaded, Advances, Enter
  <1>4. CASE i.event # "io_failed" /\ SaveLoaded(i)
    BY <1>4, SaveArrives, Zenon DEF SaveLoaded, Advances, Enter
  <1>5. CASE i.event # "io_failed" /\ BackupWritten(i)
    BY <1>5, BackupArrives, Zenon DEF BackupWritten, Advances, Enter
  <1> QED
    BY <1>2, <1>3, <1>4, <1>5

LEMMA ScansKeep ==
  ASSUME NEW i, Before(i), MetaChecked(i) \/ SaveCrcChecked(i) \/ Woken(i) \/ BackupChecked(i)
  PROVE  Kept(i)
  <1>1. Working /\ mem' = mem
    BY DEF MetaChecked, SaveCrcChecked, Woken, BackupChecked, Advances, Working
  <1>2. CASE eng' = Failed(Answered(i), 1) \/ eng' = Failed(Answered(i), 3)
               \/ eng' = Failed(Answered(i), 7)
    BY <1>1, <1>2, ErrorCodes, FailingKeeps, Zenon DEF Before
  <1> USE DEF Advances
  <1>3. CASE MetaChecked(i) /\ mem.meta.valid /\ mem.meta.header = mem.target
    BY <1>3, MetaAccepted, Zenon DEF MetaChecked, EnterAsk
  <1>4. CASE SaveCrcChecked(i) /\ mem.staged = mem.meta.save
    BY <1>4, SaveAccepted, Zenon DEF SaveCrcChecked
  <1>5. CASE Woken(i)
    BY <1>5, Wakes, Zenon DEF Woken, EnterControl
  <1>6. CASE BackupChecked(i) /\ BackupMatches
    BY <1>6, BackupMatched, Zenon DEF BackupChecked, BackupMatches, Offer
  <1> QED
    BY <1>2, <1>3, <1>4, <1>5, <1>6, Zenon DEF MetaChecked, SaveCrcChecked, BackupChecked

LEMMA RomKeeps ==
  ASSUME NEW i, Before(i), RomDone(i)
  PROVE  Kept(i)
  <1>1. Working /\ mem' = mem
    BY DEF RomDone, Working
  <1>2. CASE RomMatches(i)
    <2> DEFINE p == IF eng.phase = "FINAL_ROM" THEN "FINAL_SAVE" ELSE "CAPTURE"
    <2>1. eng' = EnterUse(Answered(i), p, "save")
      BY <1>2, Zenon DEF RomDone, BeginSave, EnterUse
    <2>2. (eng.phase = "ROM" /\ p = "CAPTURE") \/ (eng.phase = "FINAL_ROM" /\ p = "FINAL_SAVE")
      <3>1. eng.phase \in {"ROM", "FINAL_ROM"}
        BY Zenon DEF RomDone
      <3> QED
        BY <3>1, Zenon
    <2> HIDE DEF p
    <2> QED
      BY <1>1, <1>2, <2>1, <2>2, RomMatched, Zenon DEF RomDone, RomMatches
  <1>3. CASE ~RomMatches(i)
    <2>1. eng' = Failed(Answered(i), 8) \/ eng' = Failed(Answered(i), 4)
      BY <1>3, Zenon DEF RomDone
    <2> QED
      BY <1>1, <2>1, ErrorCodes, FailingKeeps, Zenon DEF Before
  <1> QED
    BY <1>2, <1>3

LEMMA PassKeeps ==
  ASSUME NEW i, Before(i), SaveDone(i)
  PROVE  Kept(i)
  <1>1. /\ Working /\ ~eng.aborting /\ eng.phase \in SavePhases /\ i.event = "save_done"
    BY DEF SaveDone, FsmRuns, SavePhases, Working
  <1>2. CASE ~(i.responded /\ PassMatches(i.image))
    <2>1. \E r \in 0 .. 12 : eng' = Failed(Answered(i), r)
      <3>1. eng' = Failed(Answered(i), 9) \/ eng' = Failed(Answered(i), 8)
              \/ eng' = Failed(Answered(i), 5)
        BY <1>2, SMT DEF SaveDone
      <3> QED
        BY <3>1, ErrorCodes
    <2>2. eng.phase # "CAPTURE" => mem' = mem
      BY DEF SaveDone
    <2>3. mem' \in Memory /\ mem'.meta = mem.meta /\ mem'.staged = mem.staged
            /\ mem'.readback = mem.readback
      BY MemoryKeeps, SMT DEF SaveDone, Before, Given
    <2> QED
      BY <1>1, <2>1, <2>2, <2>3, FailingKeeps, Zenon
  <1>3. CASE i.responded /\ PassMatches(i.image)
    <2>1. eng' = AfterPass(Answered(i))
      BY <1>3, Zenon DEF SaveDone
    <2>2. CASE eng.phase = "CAPTURE"
      <3>1. AfterPass(Answered(i)) = EnterUse(Answered(i), "COMPARE", "save")
        BY <2>2, SMT DEF AfterPass, BeginSave, EnterUse
      <3>2. mem' = [mem EXCEPT !.original = i.image]
        BY <2>2, Zenon DEF SaveDone
      <3> QED
        BY <1>1, <2>1, <2>2, <3>1, <3>2, CaptureEnds, Zenon
    <2>3. eng.phase # "CAPTURE" => mem' = mem
      BY Zenon DEF SaveDone
    <2>4. CASE eng.phase = "COMPARE"
      <3>1. AfterPass(Answered(i)) = EnterAsk(Answered(i), "BACKUP", "backup")
        BY <2>4, SMT DEF AfterPass, EnterAsk
      <3>2. i.image = mem.original
        BY <1>3, <2>4, SMT DEF PassMatches
      <3> QED
        BY <1>1, <2>1, <2>3, <2>4, <3>1, <3>2, CompareEnds, Zenon
    <2>5. CASE eng.phase = "FINAL_SAVE" /\ WriteEnabled
      <3>1. AfterPass(Answered(i)) = EnterUse(Answered(i), "PROGRAM", "writer")
        BY <2>5, SMT DEF AfterPass, EnterUse
      <3>2. i.image = mem.original
        BY <1>3, <2>5, SMT DEF PassMatches
      <3> QED
        BY <1>1, <2>1, <2>3, <2>5, <3>1, <3>2, FinalPassEnds, Zenon
    <2>6. CASE eng.phase = "VERIFY1"
      <3>1. AfterPass(Answered(i)) = EnterUse(Answered(i), "VERIFY2", "save")
        BY <2>6, SMT DEF AfterPass, BeginSave, EnterUse
      <3>2. i.image = mem.staged
        BY <1>3, <2>6, SMT DEF PassMatches
      <3> QED
        BY <1>1, <2>1, <2>3, <2>6, <3>1, <3>2, FirstVerifyEnds, Zenon
    <2>7. CASE eng.phase = "VERIFY2" \/ (eng.phase = "FINAL_SAVE" /\ ~WriteEnabled)
      <3>1. AfterPass(Answered(i)) = Complete(Answered(i))
        BY <2>7, SMT DEF AfterPass
      <3>2. eng.phase = "VERIFY2" => i.image = mem.staged
        BY <1>3, SMT DEF PassMatches
      <3>3. mem' = mem
        BY <2>3, <2>7, SMT
      <3>4. (eng.phase = "VERIFY2" /\ i.image = mem.staged)
              \/ (eng.phase = "FINAL_SAVE" /\ ~WriteEnabled)
        BY <2>7, <3>2
      <3> QED
        BY <1>1, <2>1, <3>1, <3>3, <3>4, Completes, Zenon
    <2> QED
      BY <1>1, <2>2, <2>4, <2>5, <2>6, <2>7, Zenon DEF SavePhases
  <1> QED
    BY <1>2, <1>3

LEMMA FinalKeeps ==
  ASSUME NEW i, Before(i), Commit(i) \/ Reprobed(i) \/ WriterDone(i)
  PROVE  Kept(i)
  <1> USE DEF Advances
  <1>1. Working /\ mem' = mem
    BY DEF Commit, Reprobed, WriterDone, Working
  <1>2. CASE Commit(i)
    BY <1>2, CommitBegins, Zenon DEF Commit, CommitAsked, Probe
  <1>3. CASE eng' = Failed(Answered(i), 8) \/ eng' = Failed(Answered(i), 12)
    BY <1>1, <1>3, ErrorCodes, FailingKeeps, Zenon DEF Before
  <1>4. CASE Reprobed(i) /\ i.event = "probe_ok" /\ i.header = mem.target
    BY <1>4, ProbeMatched, Zenon DEF Reprobed
  <1>5. CASE WriterDone(i) /\ i.event = "writer_ok"
    BY <1>5, WritingEnds, Zenon DEF WriterDone, BeginSave, EnterUse
  <1> QED
    BY <1>2, <1>3, <1>4, <1>5, Zenon DEF Reprobed, WriterDone

LEMMA QuietKeeps ==
  ASSUME NEW i, Before(i), Quiet(i)
  PROVE  Kept(i)
  <1>1. ~Working => ~(i.start /\ ~i.cancel)
    BY SMT DEF Quiet, FsmRuns, Before, EngineInv, RestInv, Working
  <1> QED
    BY <1>1, NothingHappens, Zenon DEF Quiet

LEMMA EngineKeeps ==
  ASSUME NEW i, Before(i), EngineClock(i)
  PROVE  Kept(i)
  BY StartKeeps, RefuseKeeps, StopKeeps, DrainKeeps, EnterCleanKeeps, AbandonKeeps,
     IssueKeeps,
     ControlKeeps, FilesKeep, ScansKeep, RomKeeps, PassKeeps, FinalKeeps, QuietKeeps,
     Zenon DEF EngineClock

-----------------------------------------------------------------------------
(* What happens around a clock *)

\* Every step of the world is a clock of the engine with one of these around it.
Around(i) ==
  /\ WorldTypes'
  /\ romOf' = romOf
  /\ \/ backups' = backups
     \/ i.event = "io_ok" /\ eng.phase # "PROGRAM" /\ \E s \in Image : backups' = backups \cup {s}
  /\ faults' \in {faults, faults + 1}
  /\ slot' = slot \/ (eng.phase \notin Held /\ i.event = "none")
  /\ \/ saves' = saves
     \/ accepted /\ \E s \in Image : saves' = [saves EXCEPT ![slot] = s]
  /\ \/ ~(~Working /\ i.start) /\ pristine' = pristine /\ (asked => asked')
     \/ ~Working /\ i.start /\ ~i.cancel /\ pristine' = saves /\ saves' = saves
  /\ i.powered <=> powered
  /\ accepted /\ saves' # saves => i.event = "none"
  /\ gate' => eng.unit \in {"save", "writer"} /\ i.event = "none" /\ powered /\ powered'
  /\ accepted' => eng.unit = "writer" /\ i.event = "none" /\ powered /\ powered'
  /\ i.commit /\ eng.phase = "READY" => asked'
  /\ i.event = "io_ok" /\ eng.phase = "BACKUP" => i.image \in backups'
  /\ i.event = "rom_done" /\ i.rom = mem.meta.rom => romOf[slot] = mem.meta.rom
  /\ i.event = "save_done" => (i.image = saves[slot] /\ faults' = faults) \/ faults' = faults + 1
  /\ i.event = "writer_ok" => (saves[slot] = mem.staged /\ faults' = faults) \/ faults' = faults + 1

LEMMA BusKeeps ==
  ASSUME Inv, NEW i, Kept(i), Around(i)
  PROVE  BusInv'
  BY DEF Around, BusInv, Kept, Works

LEMMA AskedKeeps ==
  ASSUME Inv, NEW i, Kept(i), Around(i)
  PROVE  AskedInv'
  BY DEF Around, AskedInv, Inv, Kept, Begins

LEMMA GameKeeps ==
  ASSUME Inv, NEW i, Kept(i), Around(i)
  PROVE  GameInv'
  <1> SUFFICES ASSUME "FINAL_SAVE" \in Held, eng'.phase = "FINAL_SAVE"
      PROVE  romOf'[slot'] = mem'.meta.rom
    BY DEF GameInv
  <1>1. CASE Enters("FINAL_SAVE")
    BY <1>1, SMT DEF Kept, EntersInOrder, Remembers, Around
  <1>2. CASE ~Enters("FINAL_SAVE")
    <2>1. eng.phase = "FINAL_SAVE"
      BY <1>2 DEF Enters
    <2>2. Working /\ slot' = slot
      BY <2>1, SMT DEF Around, Working
    <2> QED
      BY <2>1, <2>2, SMT DEF Around, Kept, Remembers, Inv, GameInv
  <1> QED
    BY <1>1, <1>2

LEMMA BackupKeeps ==
  ASSUME Inv, NEW i, Kept(i), Around(i)
  PROVE  BackupInv'
  <1>1. ASSUME eng'.phase = "BACKUP_CHECK" PROVE mem'.readback \in backups'
    BY <1>1, SMT DEF Around, Kept, EntersInOrder, Enters, Remembers, Inv, BackupInv
  <1>2. ASSUME eng'.phase = "READY" PROVE mem'.original \in backups'
    BY <1>2, SMT DEF Around, Kept, EntersInOrder, Enters, Remembers, Inv, BackupInv
  <1>3. ASSUME eng'.committing PROVE mem'.original \in backups'
    BY <1>3, SMT DEF Around, Kept, Begins, Remembers, Inv, BackupInv, EngineInv, HalvesInv,
       Preflighting
  <1> QED
    BY <1>1, <1>2, <1>3 DEF BackupInv

\* While a byte is under way the writer is at work, before and after.
LEMMA ByteUnderWay ==
  ASSUME Inv, NEW i, Kept(i), Around(i), saves' # saves
  PROVE  /\ accepted /\ powered /\ i.event = "none"
         /\ eng.unit = "writer" /\ eng.phase = "PROGRAM"
         /\ eng'.unit = "writer" /\ eng'.phase = "PROGRAM"
  BY SMT DEF Around, Inv, BusInv, EngineInv, UnitInv, Kept, Works

LEMMA UntouchedKeeps ==
  ASSUME Inv, NEW i, Kept(i), Around(i)
  PROVE  UntouchedInv'
  <1> SUFFICES ASSUME eng'.phase \in Early PROVE saves' = pristine'
    BY DEF UntouchedInv, Early
  <1>1. saves' = saves
    BY ByteUnderWay, SMT DEF Early, Preflighting
  <1>2. CASE ~Working /\ i.start
    BY <1>1, <1>2 DEF Around
  <1>3. CASE ~(~Working /\ i.start)
    <2>1. eng.phase \in Early
      BY <1>3 DEF Kept, Begins
    <2> QED
      BY <1>1, <1>3, <2>1 DEF Around, Inv, UntouchedInv, Early
  <1> QED
    BY <1>2, <1>3

LEMMA CapturedKeeps ==
  ASSUME Inv, NEW i, Kept(i), Around(i)
  PROVE  CapturedInv'
  <1> SUFFICES ASSUME OneCartridge
      PROVE  /\ eng'.phase = "COMPARE" => mem'.original = saves'[slot'] \/ faults' >= 1
             /\ Captured' => mem'.original = saves'[slot'] \/ faults' >= 2
    BY DEF CapturedInv, OneCartridge
  <1>1. faults \in Nat /\ faults' \in {faults, faults + 1} /\ slot' = slot
    BY WorldAssumption, SMT DEF Around, Inv, Types, WorldTypes, OneCartridge
  <1>2. /\ eng.phase = "COMPARE" => mem.original = saves[slot] \/ faults >= 1
        /\ Captured => mem.original = saves[slot] \/ faults >= 2
    BY DEF Inv, CapturedInv
  <1>3. ASSUME eng'.phase # "PROGRAM" PROVE saves' = saves
    BY <1>3, ByteUnderWay
  <1>4. ASSUME eng'.phase = "COMPARE" PROVE mem'.original = saves'[slot'] \/ faults' >= 1
    <2>1. CASE Enters("COMPARE")
      <3>1. i.event = "save_done" /\ mem'.original = i.image
        BY <2>1 DEF Kept, EntersInOrder
      <3> QED
        BY <1>1, <1>3, <1>4, <3>1, SMT DEF Around
    <2>2. CASE ~Enters("COMPARE")
      <3>1. eng.phase = "COMPARE" /\ mem'.original = mem.original
        BY <1>4, <2>2, SMT DEF Enters, Kept, Remembers
      <3> QED
        BY <1>1, <1>2, <1>3, <1>4, <3>1, SMT
    <2> QED
      BY <2>1, <2>2
  <1>5. ASSUME Captured' PROVE mem'.original = saves'[slot'] \/ faults' >= 2
    <2>1. eng'.phase # "PROGRAM" /\ mem'.original = mem.original
      BY <1>5, SMT DEF Captured, Kept, Remembers
    <2>2. CASE Enters("BACKUP")
      <3>1. eng.phase = "COMPARE" /\ i.event = "save_done" /\ i.image = mem.original
        BY <2>2 DEF Kept, EntersInOrder
      <3>2. (i.image = saves[slot] /\ faults' = faults) \/ faults' = faults + 1
        BY <3>1 DEF Around
      <3> QED
        BY <1>1, <1>2, <1>3, <2>1, <3>1, <3>2, SMT
    <2>3. CASE ~Enters("BACKUP")
      <3>1. Captured
        <4>1. CASE eng'.phase \in {"BACKUP", "BACKUP_CHECK", "READY"}
          BY <2>3, <4>1, SMT DEF Captured, Enters, Kept, EntersInOrder
        <4>2. CASE eng'.phase \in Early /\ eng'.committing
          <5>1. CASE eng.committing
            <6>1. ~(~Working /\ i.start)
              BY <4>2, SMT DEF Around, Kept, Begins
            <6> QED
              BY <4>2, <5>1, <6>1, SMT DEF Kept, Begins, Captured, Early, Inv, EngineInv, HalvesInv
          <5>2. CASE ~eng.committing
            BY <4>2, <5>2, SMT DEF Kept, Begins, Captured
          <5> QED
            BY <5>1, <5>2
        <4> QED
          BY <1>5, <4>1, <4>2, SMT DEF Captured, Early
      <3> QED
        BY <1>1, <1>2, <1>3, <2>1, <3>1, SMT
    <2> QED
      BY <2>2, <2>3
  <1> QED
    BY <1>4, <1>5

\* A cartridge stays in a phase in which it is held, and when it is the only one.
LEMMA SlotStays ==
  ASSUME Inv, NEW i, Around(i), eng.phase \in Held \/ OneCartridge \/ i.event # "none"
  PROVE  slot' = slot
  BY SMT DEF Around, Inv, Types, WorldTypes, OneCartridge

LEMMA VouchedKeeps ==
  ASSUME Inv, NEW i, Kept(i), Around(i)
  PROVE  VouchedInv'
  <1> SUFFICES ASSUME Trusted'
      PROVE  Recoverable' /\ (eng'.phase = "PROGRAM" => pristine'[slot'] \in backups')
    BY DEF VouchedInv
  <1>1. faults \in Nat /\ faults' \in {faults, faults + 1}
    BY WorldAssumption, SMT DEF Around, Inv, Types, WorldTypes
  <1>2. Trusted /\ Recoverable /\ (eng.phase = "PROGRAM" => pristine[slot] \in backups)
    BY <1>1, SMT DEF Inv, VouchedInv, Trusted, OneCartridge
  <1>3. Recoverable'
    <2> SUFFICES ASSUME NEW c \in Cart PROVE saves'[c] = pristine'[c] \/ pristine'[c] \in backups'
      BY DEF Recoverable
    <2>1. CASE saves' = saves
      BY <1>2, <2>1 DEF Around, Recoverable
    <2>2. CASE saves' # saves
      <3>1. pristine[slot] \in backups /\ pristine' = pristine
        BY <1>2, <2>2, ByteUnderWay DEF Around
      <3>2. c # slot => saves'[c] = saves[c]
        BY <2>2 DEF Around, Inv, Types, WorldTypes
      <3> QED
        BY <1>2, <3>1, <3>2 DEF Around, Recoverable
    <2> QED
      BY <2>1, <2>2
  <1>4. ASSUME eng'.phase = "PROGRAM" PROVE pristine'[slot'] \in backups'
    <2>1. CASE Enters("PROGRAM")
      <3>1. eng.phase = "FINAL_SAVE" /\ i.event = "save_done" /\ i.image = mem.original
        BY <2>1 DEF Kept, EntersInOrder
      <3>2. saves[slot] = mem.original
        <4>1. (i.image = saves[slot] /\ faults' = faults) \/ faults' = faults + 1
          BY <3>1 DEF Around
        <4>2. eng.committing
          BY <3>1, SMT DEF Inv, EngineInv, HalvesInv, Committing
        <4>3. OneCartridge => mem.original = saves[slot] \/ faults >= 2
          BY <3>1, <4>2, SMT DEF Inv, CapturedInv, Captured
        <4> QED
          BY <1>1, <3>1, <4>1, <4>3, SMT DEF Trusted, OneCartridge
      <3>3. saves = pristine /\ mem.original \in backups
        BY <3>1, SMT DEF Inv, UntouchedInv, BackupInv, EngineInv, HalvesInv, Committing
      <3>4. Working
        BY <3>1 DEF Working
      <3> QED
        BY <3>1, <3>2, <3>3, <3>4 DEF Around
    <2>2. CASE ~Enters("PROGRAM")
      <3>1. eng.phase = "PROGRAM"
        BY <1>4, <2>2 DEF Enters
      <3>2. Working /\ slot' = slot
        BY <1>2, <3>1, SlotStays DEF Working, Trusted
      <3> QED
        BY <1>2, <3>1, <3>2 DEF Around
    <2> QED
      BY <2>1, <2>2
  <1> QED
    BY <1>3, <1>4

LEMMA VerifiedKeeps ==
  ASSUME Inv, NEW i, Kept(i), Around(i)
  PROVE  VerifiedInv'
  <1>1. faults \in Nat /\ faults' \in {faults, faults + 1}
    BY WorldAssumption, SMT DEF Around, Inv, Types, WorldTypes
  <1> SUFFICES ASSUME VerifyHeld
      PROVE  /\ eng'.phase = "VERIFY1" => saves'[slot'] = mem'.staged \/ faults' >= 1
             /\ eng'.phase = "VERIFY2" => saves'[slot'] = mem'.staged \/ faults' >= 2
    BY DEF VerifiedInv, VerifyHeld, OneCartridge
  <1>2. ASSUME NEW p \in {"VERIFY1", "VERIFY2"}, eng'.phase = p
        PROVE  saves' = saves /\ mem'.staged = mem.staged /\ slot' = slot
    <2>1. saves' = saves
      BY <1>2, ByteUnderWay
    <2>2. eng.phase \in {"PROGRAM", "VERIFY1", "VERIFY2"}
      BY <1>2, SMT DEF Kept, EntersInOrder, Enters
    <2>3. slot' = slot
      <3>1. CASE eng.phase = "PROGRAM"
        <4>1. i.event # "none"
          BY <1>2, <3>1, SMT DEF Kept, EntersInOrder, Enters
        <4> QED
          BY <4>1, SlotStays
      <3>2. CASE eng.phase \in {"VERIFY1", "VERIFY2"}
        BY <3>2, SlotStays DEF VerifyHeld
      <3> QED
        BY <2>2, <3>1, <3>2
    <2> QED
      BY <2>1, <2>2, <2>3, SMT DEF Kept, Remembers, Working
  <1>3. ASSUME eng'.phase = "VERIFY1" PROVE saves'[slot'] = mem'.staged \/ faults' >= 1
    <2>1. CASE Enters("VERIFY1")
      <3>1. i.event = "writer_ok"
        BY <2>1 DEF Kept, EntersInOrder
      <3> QED
        BY <1>1, <1>2, <1>3, <3>1, SMT DEF Around
    <2>2. CASE ~Enters("VERIFY1")
      BY <1>1, <1>2, <1>3, <2>2, SMT DEF Enters, Inv, VerifiedInv
    <2> QED
      BY <2>1, <2>2
  <1>4. ASSUME eng'.phase = "VERIFY2" PROVE saves'[slot'] = mem'.staged \/ faults' >= 2
    <2>1. CASE Enters("VERIFY2")
      <3>1. eng.phase = "VERIFY1" /\ i.event = "save_done" /\ i.image = mem.staged
        BY <2>1 DEF Kept, EntersInOrder
      <3>2. saves[slot] = mem.staged \/ faults >= 1
        BY <3>1 DEF Inv, VerifiedInv
      <3> QED
        BY <1>1, <1>2, <1>4, <3>1, <3>2, SMT DEF Around
    <2>2. CASE ~Enters("VERIFY2")
      BY <1>1, <1>2, <1>4, <2>2, SMT DEF Enters, Inv, VerifiedInv
    <2> QED
      BY <2>1, <2>2
  <1> QED
    BY <1>3, <1>4

LEMMA ClockKeeps ==
  ASSUME Inv, NEW i, Given(i), EngineClock(i), Around(i)
  PROVE  Inv' /\ Kept(i)
  <1>1. Kept(i)
    BY EngineKeeps DEF Before, Inv, Types
  <1> QED
    BY <1>1, BusKeeps, AskedKeeps, GameKeeps, BackupKeeps, UntouchedKeeps, CapturedKeeps,
       VouchedKeeps, VerifiedKeeps DEF Inv, Types, Kept, Around

-----------------------------------------------------------------------------
(* Every step of the world is a clock of the engine with its surroundings *)

\* What the engine is given when nothing happens.
LEMMA CalmInputs ==
  ASSUME Inv
  PROVE  /\ Given(Calm)
         /\ Calm.event = "none" /\ ~Calm.start /\ ~Calm.commit /\ (Calm.powered <=> powered)
  <1>1. mem.meta \in Meta /\ mem.original \in Image /\ HeaderOf[romOf[slot]] \in Header
    BY EngineAssumption, SMT DEF Inv, Types, WorldTypes, Memory
  <1>2. /\ Calm.event = "none" /\ ~Calm.start /\ ~Calm.commit /\ (Calm.powered <=> powered)
        /\ Calm.meta = mem.meta /\ Calm.header = HeaderOf[romOf[slot]] /\ Calm.image = mem.original
    BY SMT DEF Calm
  <1> QED
    BY <1>1, <1>2, SMT DEF Given, Events

\* The other inputs, by what they differ in.
LEMMA EventInputs ==
  ASSUME Inv, NEW e \in Events
  PROVE  /\ Given(Happens(e))
         /\ Happens(e).event = e /\ ~Happens(e).start /\ ~Happens(e).commit
         /\ (Happens(e).powered <=> powered)
         /\ Happens(e).image = mem.original /\ Happens(e).rom = NoRom
  <1>1. mem.meta \in Meta /\ mem.original \in Image /\ HeaderOf[romOf[slot]] \in Header
    BY EngineAssumption, SMT DEF Inv, Types, WorldTypes, Memory
  <1>2. /\ Happens(e).event = e /\ ~Happens(e).start /\ ~Happens(e).commit
        /\ (Happens(e).powered <=> powered)
        /\ Happens(e).meta = mem.meta /\ Happens(e).header = HeaderOf[romOf[slot]]
        /\ Happens(e).image = mem.original /\ Happens(e).rom = NoRom
    BY SMT DEF Happens, Calm
  <1> QED
    BY <1>1, <1>2, SMT DEF Given

LEMMA UserInputs ==
  ASSUME Inv, NEW ok \in BOOLEAN, NEW h \in Header
  PROVE  /\ LET i == [Calm EXCEPT !.start = TRUE, !.targetOk = ok, !.header = h]
            IN Given(i) /\ i.event = "none" /\ i.start /\ ~i.commit /\ ~i.cancel
                 /\ (i.powered <=> powered)
         /\ LET i == [Calm EXCEPT !.commit = TRUE]
            IN Given(i) /\ i.event = "none" /\ ~i.start /\ (i.powered <=> powered)
         /\ LET i == [Calm EXCEPT !.cancel = TRUE]
            IN Given(i) /\ i.event = "none" /\ ~i.start /\ ~i.commit /\ (i.powered <=> powered)
         /\ LET i == [Calm EXCEPT !.timeout = TRUE]
            IN Given(i) /\ i.event = "none" /\ ~i.start /\ ~i.commit /\ (i.powered <=> powered)
  <1>1. mem.meta \in Meta /\ mem.original \in Image /\ HeaderOf[romOf[slot]] \in Header
    BY EngineAssumption, SMT DEF Inv, Types, WorldTypes, Memory
  <1>2. "none" \in Events
    BY DEF Events
  <1> QED
    BY <1>1, <1>2, SMT DEF Given, Calm

LEMMA LoadInputs ==
  ASSUME Inv, NEW m \in Meta, NEW s \in Image
  PROVE  LET i == [Happens("io_ok") EXCEPT !.meta = m, !.image = s]
         IN Given(i) /\ i.event = "io_ok" /\ ~i.start /\ ~i.commit /\ (i.powered <=> powered)
  <1>1. HeaderOf[romOf[slot]] \in Header /\ "io_ok" \in Events
    BY EngineAssumption, SMT DEF Inv, Types, WorldTypes, Events
  <1> QED
    BY <1>1, SMT DEF Given, Happens, Calm

LEMMA StoreInputs ==
  ASSUME Inv, NEW s \in Image
  PROVE  LET i == [Happens("io_ok") EXCEPT !.image = s]
         IN Given(i) /\ i.event = "io_ok" /\ ~i.start /\ ~i.commit /\ (i.powered <=> powered)
              /\ i.image = s
  <1>1. /\ mem.meta \in Meta /\ mem.original \in Image /\ HeaderOf[romOf[slot]] \in Header
        /\ "io_ok" \in Events
    BY EngineAssumption, SMT DEF Inv, Types, WorldTypes, Memory, Events
  <1> QED
    BY <1>1, SMT DEF Given, Happens, Calm

LEMMA RomInputs ==
  ASSUME Inv, NEW r
  PROVE  LET i == [Happens("rom_done") EXCEPT !.rom = r]
         IN Given(i) /\ i.event = "rom_done" /\ ~i.start /\ ~i.commit /\ (i.powered <=> powered)
              /\ i.rom = r
  <1>1. /\ mem.meta \in Meta /\ mem.original \in Image /\ HeaderOf[romOf[slot]] \in Header
        /\ "rom_done" \in Events
    BY EngineAssumption, SMT DEF Inv, Types, WorldTypes, Memory, Events
  <1> QED
    BY <1>1, SMT DEF Given, Happens, Calm

LEMMA PassInputs ==
  ASSUME Inv, NEW s \in Image, NEW b
  PROVE  LET i == [Happens("save_done") EXCEPT !.image = s, !.responded = b]
         IN Given(i) /\ i.event = "save_done" /\ ~i.start /\ ~i.commit /\ (i.powered <=> powered)
              /\ i.image = s
  <1>1. /\ mem.meta \in Meta /\ mem.original \in Image /\ HeaderOf[romOf[slot]] \in Header
        /\ "save_done" \in Events
    BY EngineAssumption, SMT DEF Inv, Types, WorldTypes, Memory, Events
  <1> QED
    BY <1>1, SMT DEF Given, Happens, Calm

\* A clock with its surroundings.
Surrounded == \E i : Given(i) /\ EngineClock(i) /\ Around(i)

LEMMA ClockTypes ==
  ASSUME Inv, NEW i, Clock(i)
  PROVE  EngineClock(i) /\ passSlot' \in Cart \cup {"none"}
  BY DEF Clock, Inv, Types, WorldTypes

\* Outside the passes over the save and the writing, the bus to the RAM is shut.
LEMMA BusAtRest ==
  ASSUME Inv, eng.phase \notin SavePhases \cup {"PROGRAM"}
  PROVE  ~gate /\ ~accepted
  BY SMT DEF Inv, BusInv, EngineInv, UnitInv, SavePhases

LEMMA AskedTyped == Inv => asked \in BOOLEAN
  BY DEF Inv, Types, WorldTypes

\* Nothing changes but the engine.
LEMMA EngineAlone ==
  ASSUME Inv, NEW i, Given(i), Clock(i),
         ~i.start, i.powered <=> powered, i.event \notin {"save_done", "writer_ok"},
         UNCHANGED <<slotVars, saves, gate, accepted, backups, pristine, faults>>,
         asked' \in BOOLEAN, asked => asked',
         i.commit /\ eng.phase = "READY" => asked',
         i.event = "io_ok" => eng.phase # "BACKUP",
         i.event = "rom_done" /\ i.rom = mem.meta.rom => romOf[slot] = mem.meta.rom,
         i.event = "none" \/ eng.phase \notin SavePhases \cup {"PROGRAM"}
  PROVE  Surrounded
  <1>1. gate => eng.unit \in {"save", "writer"} /\ powered /\ i.event = "none"
    BY BusAtRest DEF Inv, BusInv
  <1>2. accepted => eng.unit = "writer" /\ powered /\ i.event = "none"
    BY BusAtRest DEF Inv, BusInv
  <1>3. WorldTypes'
    BY ClockTypes DEF Inv, Types, WorldTypes, slotVars
  <1>4. Around(i)
    BY <1>1, <1>2, <1>3 DEF Around, slotVars
  <1> QED
    BY <1>4, ClockTypes DEF Surrounded

LEMMA CalmStep ==
  ASSUME Inv, Tick \/ UserCancels \/ TimeRunsOut
  PROVE  Surrounded
  <1>1. TRUE \in BOOLEAN /\ \E h : h \in Header
    BY EngineAssumption, SMT DEF Inv, Types, WorldTypes, Memory
  <1>2. CASE Tick
    BY <1>2, CalmInputs, AskedTyped, EngineAlone DEF Tick
  <1>3. CASE UserCancels
    BY <1>1, <1>3, UserInputs, AskedTyped, EngineAlone DEF UserCancels
  <1>4. CASE TimeRunsOut
    BY <1>1, <1>4, UserInputs, AskedTyped, EngineAlone DEF TimeRunsOut
  <1> QED
    BY <1>2, <1>3, <1>4

LEMMA CommitStep ==
  ASSUME Inv, UserCommits
  PROVE  Surrounded
  <1>1. TRUE \in BOOLEAN /\ \E h : h \in Header
    BY EngineAssumption, SMT DEF Inv, Types, WorldTypes, Memory
  <1>2. asked \in BOOLEAN /\ asked' = (asked \/ eng.phase = "READY")
    BY DEF UserCommits, Inv, Types, WorldTypes
  <1>3. asked' \in BOOLEAN /\ (asked => asked') /\ (eng.phase = "READY" => asked')
    BY <1>2
  <1> QED
    BY <1>1, <1>3, UserInputs, AskedTyped, EngineAlone DEF UserCommits

LEMMA ScanStep ==
  ASSUME Inv, ScanEnds
  PROVE  Surrounded
  <1>1. eng.phase \notin SavePhases \cup {"PROGRAM"}
    BY SMT DEF ScanEnds, Awaited, SavePhases
  <1>2. "scanned" \in Events
    BY DEF Events
  <1> QED
    BY <1>1, <1>2, EventInputs, AskedTyped, EngineAlone DEF ScanEnds

LEMMA ProbeStep ==
  ASSUME Inv, ProbeAnswers
  PROVE  Surrounded
  <1>1. eng.phase \notin SavePhases \cup {"PROGRAM"}
    BY SMT DEF ProbeAnswers, SavePhases
  <1>2. "probe_ok" \in Events /\ "probe_failed" \in Events
    BY DEF Events
  <1> QED
    BY <1>1, <1>2, EventInputs, AskedTyped, EngineAlone DEF ProbeAnswers

\* An SD command is pending in the phase that sent it only.
LEMMA PendingWhere ==
  ASSUME Inv, eng.ioPending
  PROVE  /\ eng.phase \notin SavePhases \cup {"PROGRAM"}
         /\ eng.io \in {"meta", "save"} => eng.phase # "BACKUP"
  BY SMT DEF Inv, EngineInv, IoInv, SavePhases

LEMMA FileStep ==
  ASSUME Inv, IoFails \/ FileLoads
  PROVE  Surrounded
  <1>1. eng.phase \notin SavePhases \cup {"PROGRAM"}
    BY PendingWhere DEF IoFails, FileLoads
  <1>2. CASE IoFails
    <2>1. "io_failed" \in Events
      BY DEF Events
    <2> QED
      BY <1>1, <1>2, <2>1, EventInputs, AskedTyped, EngineAlone DEF IoFails
  <1>3. CASE FileLoads
    <2>1. eng.phase # "BACKUP"
      BY <1>3, PendingWhere DEF FileLoads
    <2>2. PICK m \in Prepared, s \in Image :
            Clock([Happens("io_ok") EXCEPT !.meta = m, !.image = s])
      BY <1>3 DEF FileLoads
    <2>3. m \in Meta
      BY WorldAssumption
    <2> DEFINE i == [Happens("io_ok") EXCEPT !.meta = m, !.image = s]
    <2>4. Given(i) /\ i.event = "io_ok" /\ ~i.start /\ ~i.commit /\ (i.powered <=> powered)
      BY <2>3, LoadInputs
    <2>5. Clock(i)
      BY <2>2
    <2> HIDE DEF i
    <2> QED
      BY <1>1, <1>3, <2>1, <2>4, <2>5, AskedTyped, EngineAlone DEF FileLoads
  <1> QED
    BY <1>2, <1>3

\* What a ROM pass computes is the game's only if the game was in the slot.
LEMMA RomStep ==
  ASSUME Inv, RomRead
  PROVE  Surrounded
  <1>1. eng.phase \notin SavePhases \cup {"PROGRAM"}
    BY SMT DEF RomRead, Inv, EngineInv, UnitInv, SavePhases
  <1>2. PICK r \in {NoRom} \cup (IF slot = passSlot THEN {romOf[slot]} ELSE {}) :
          Clock([Happens("rom_done") EXCEPT !.rom = r])
    BY DEF RomRead
  <1>3. r = mem.meta.rom => romOf[slot] = mem.meta.rom
    <2>1. mem.meta.rom \in Rom
      BY SMT DEF Inv, Types, Memory, Meta
    <2> QED
      BY <1>2, <2>1, WorldAssumption
  <1> DEFINE i == [Happens("rom_done") EXCEPT !.rom = r]
  <1>4. Given(i) /\ i.event = "rom_done" /\ ~i.start /\ ~i.commit /\ (i.powered <=> powered)
          /\ i.rom = r
    BY RomInputs
  <1>5. Clock(i)
    BY <1>2
  <1> HIDE DEF i
  <1> QED
    BY <1>1, <1>3, <1>4, <1>5, AskedTyped, EngineAlone DEF RomRead

\* At rest the engine has nothing at work.
LEMMA RestIsQuiet ==
  ASSUME Inv, ~Working
  PROVE  eng.phase \notin SavePhases \cup {"PROGRAM"}
  BY SMT DEF Working, SavePhases

LEMMA StartStep ==
  ASSUME Inv, UserStarts
  PROVE  Surrounded
  <1>1. PICK ok \in BOOLEAN, h \in Header :
          Clock([Calm EXCEPT !.start = TRUE, !.targetOk = ok, !.header = h])
    BY DEF UserStarts
  <1> DEFINE i == [Calm EXCEPT !.start = TRUE, !.targetOk = ok, !.header = h]
  <1>2. Given(i) /\ i.event = "none" /\ i.start /\ ~i.commit /\ ~i.cancel /\ (i.powered <=> powered)
    BY UserInputs
  <1>3. Clock(i)
    BY <1>1
  <1> HIDE DEF i
  <1>4. ~gate /\ ~accepted
    BY RestIsQuiet, BusAtRest DEF UserStarts
  <1>5. WorldTypes'
    BY <1>3, ClockTypes DEF UserStarts, Inv, Types, WorldTypes, slotVars
  <1>6. Around(i)
    BY <1>2, <1>4, <1>5 DEF Around, UserStarts, slotVars
  <1> QED
    BY <1>2, <1>3, <1>6, ClockTypes DEF Surrounded

\* Around a calm clock the world may change; the engine does not notice yet.
LEMMA CalmAround ==
  ASSUME Inv, Clock(Calm), WorldTypes',
         UNCHANGED <<romOf, backups, pristine, asked, faults>>,
         slot' = slot \/ eng.phase \notin Held,
         \/ saves' = saves
         \/ accepted /\ \E s \in Image : saves' = [saves EXCEPT ![slot] = s],
         gate' => eng.unit \in {"save", "writer"} /\ powered /\ powered',
         accepted' => eng.unit = "writer" /\ powered /\ powered'
  PROVE  Surrounded
  <1>1. Around(Calm)
    BY CalmInputs, Zenon DEF Around
  <1> QED
    BY <1>1, CalmInputs, ClockTypes DEF Surrounded

LEMMA SwapStep ==
  ASSUME Inv, UserSwaps
  PROVE  Surrounded
  <1>1. WorldTypes'
    BY ClockTypes DEF UserSwaps, Inv, Types, WorldTypes
  <1>2. accepted' => eng.unit = "writer" /\ powered /\ powered'
    BY DEF UserSwaps, Inv, BusInv
  <1> QED
    BY <1>1, <1>2, CalmAround DEF UserSwaps

LEMMA PowerStep ==
  ASSUME Inv, PowerGoes \/ PowerComes
  PROVE  Surrounded
  <1>1. CASE PowerGoes
    <2>1. WorldTypes'
      BY <1>1, ClockTypes DEF PowerGoes, Inv, Types, WorldTypes
    <2> QED
      BY <1>1, <2>1, CalmAround DEF PowerGoes
  <1>2. CASE PowerComes
    <2>1. WorldTypes'
      BY <1>2, ClockTypes DEF PowerComes, Inv, Types, WorldTypes
    <2>2. ~gate' /\ ~accepted'
      BY <1>2 DEF PowerComes, Inv, BusInv
    <2> QED
      BY <1>2, <2>1, <2>2, CalmAround DEF PowerComes
  <1> QED
    BY <1>1, <1>2

LEMMA BusStep ==
  ASSUME Inv, GateOpens \/ WriterAsks \/ ByteLatches
  PROVE  Surrounded
  <1>1. WorldTypes'
    BY ClockTypes DEF GateOpens, WriterAsks, ByteLatches, Inv, Types, WorldTypes, slotVars
  <1>2. /\ gate' => eng.unit \in {"save", "writer"} /\ powered /\ powered'
        /\ accepted' => eng.unit = "writer" /\ powered /\ powered'
    BY DEF GateOpens, WriterAsks, ByteLatches, Inv, BusInv, slotVars
  <1> QED
    BY <1>1, <1>2, CalmAround DEF GateOpens, WriterAsks, ByteLatches, slotVars

LEMMA BackupStep ==
  ASSUME Inv, BackupStores
  PROVE  Surrounded
  <1>1. PICK s \in Image : Clock([Happens("io_ok") EXCEPT !.image = s])
                             /\ backups' = backups \cup {s}
    BY DEF BackupStores
  <1> DEFINE i == [Happens("io_ok") EXCEPT !.image = s]
  <1>2. Given(i) /\ i.event = "io_ok" /\ ~i.start /\ ~i.commit /\ (i.powered <=> powered)
          /\ i.image = s
    BY StoreInputs
  <1>3. Clock(i)
    BY <1>1
  <1> HIDE DEF i
  <1>4. ~gate /\ ~accepted /\ eng.phase # "PROGRAM"
    BY PendingWhere, BusAtRest DEF BackupStores
  <1>5. WorldTypes'
    BY <1>1, <1>3, ClockTypes DEF BackupStores, Inv, Types, WorldTypes, slotVars
  <1>6. Around(i)
    BY <1>1, <1>2, <1>4, <1>5 DEF Around, BackupStores, slotVars
  <1> QED
    BY <1>2, <1>3, <1>6, ClockTypes DEF Surrounded

LEMMA ControlStep ==
  ASSUME Inv, ControlWritten
  PROVE  Surrounded
  <1>1. "ctl_done" \in Events
    BY DEF Events
  <1>2. ~gate /\ ~accepted
    BY SMT DEF ControlWritten, Inv, BusInv
  <1>3. WorldTypes'
    BY <1>2, ClockTypes DEF ControlWritten, Inv, Types, WorldTypes, slotVars
  <1> DEFINE i == Happens("ctl_done")
  <1>4. Given(i) /\ i.event = "ctl_done" /\ ~i.start /\ ~i.commit /\ (i.powered <=> powered)
          /\ Clock(i)
    BY <1>1, EventInputs DEF ControlWritten
  <1> HIDE DEF i
  <1>5. Around(i)
    BY <1>2, <1>3, <1>4 DEF Around, ControlWritten, slotVars
  <1> QED
    BY <1>4, <1>5, ClockTypes DEF Surrounded

LEMMA ReadStep ==
  ASSUME Inv, SaveRead
  PROVE  Surrounded
  <1>1. PICK s \in Image, answered \in BOOLEAN :
          /\ Clock([Happens("save_done") EXCEPT !.image = s, !.responded = answered])
          /\ \/ s = saves[slot] /\ faults' = faults
             \/ s # saves[slot] /\ faults < MaxFaults /\ faults' = faults + 1
    BY DEF SaveRead
  <1> DEFINE i == [Happens("save_done") EXCEPT !.image = s, !.responded = answered]
  <1>2. Given(i) /\ i.event = "save_done" /\ ~i.start /\ ~i.commit /\ (i.powered <=> powered)
          /\ i.image = s
    BY PassInputs
  <1>3. Clock(i)
    BY <1>1
  <1> HIDE DEF i
  <1>4. ~gate' /\ ~accepted'
    BY SMT DEF SaveRead, Inv, BusInv
  <1>5. faults' \in 0 .. MaxFaults /\ faults' \in {faults, faults + 1}
    BY <1>1, WorldAssumption, SMT DEF Inv, Types, WorldTypes
  <1>6. WorldTypes'
    BY <1>3, <1>4, <1>5, ClockTypes DEF SaveRead, Inv, Types, WorldTypes, slotVars
  <1>7. Around(i)
    BY <1>1, <1>2, <1>4, <1>5, <1>6 DEF Around, SaveRead, slotVars
  <1> QED
    BY <1>2, <1>3, <1>7, ClockTypes DEF Surrounded

LEMMA WriterStep ==
  ASSUME Inv, WriterSucceeds \/ WriterStops
  PROVE  Surrounded
  <1> DEFINE e == IF WriterSucceeds THEN "writer_ok" ELSE "writer_failed"
             i == Happens(e)
  <1>1. e \in Events /\ e \in {"writer_ok", "writer_failed"}
    BY Zenon DEF Events
  <1>2. Clock(i)
    BY Zenon DEF WriterSucceeds, WriterStops
  <1>3. e = "writer_ok" => WriterSucceeds
    BY SMT
  <1> HIDE DEF e
  <1>4. Given(i) /\ i.event = e /\ ~i.start /\ ~i.commit /\ (i.powered <=> powered)
    BY <1>1, EventInputs
  <1> HIDE DEF i
  <1>5. ~gate' /\ ~accepted'
    BY DEF WriterSucceeds, WriterStops
  <1>6. faults' \in 0 .. MaxFaults /\ faults' \in {faults, faults + 1}
    BY WorldAssumption, SMT DEF WriterSucceeds, WriterStops, Inv, Types, WorldTypes
  <1>7. WorldTypes'
    BY <1>2, <1>5, <1>6, ClockTypes DEF WriterSucceeds, WriterStops, Inv, Types, WorldTypes,
       slotVars
  <1>8. e = "writer_ok" => (saves[slot] = mem.staged /\ faults' = faults) \/ faults' = faults + 1
    BY <1>3 DEF WriterSucceeds
  <1>9. Around(i)
    BY <1>1, <1>4, <1>5, <1>6, <1>7, <1>8 DEF Around, WriterSucceeds, WriterStops, slotVars
  <1> QED
    BY <1>4, <1>2, <1>9, ClockTypes DEF Surrounded

LEMMA StepSurrounded ==
  ASSUME Inv, Next
  PROVE  Surrounded
  BY CalmStep, CommitStep, ScanStep, ProbeStep, FileStep, RomStep, StartStep, SwapStep,
     PowerStep,
     BusStep, BackupStep, ControlStep, ReadStep, WriterStep, Zenon DEF Next, World, User

LEMMA StepKept ==
  ASSUME Inv, Next
  PROVE  Inv' /\ \E i : Kept(i) /\ Around(i)
  BY StepSurrounded, ClockKeeps DEF Surrounded

-----------------------------------------------------------------------------
(* The invariant *)

LEMMA InitInv == Init => Inv
  <1> SUFFICES ASSUME Init PROVE Inv
    OBVIOUS
  <1>1. eng = [phase |-> "IDLE", modeOwned |-> FALSE, preflightOk |-> FALSE,
               preflightDone |-> FALSE, done |-> FALSE, reprobeStart |-> FALSE,
               failed |-> FALSE, error |-> 0, aborting |-> FALSE,
               committing |-> FALSE, io |-> "meta", ioPending |-> FALSE,
               afterNormalize |-> "ROM", step |-> 0, unit |-> "none"]
    BY Zenon DEF Init, EngineInit
  <1>2. /\ eng.phase = "IDLE" /\ eng.modeOwned = FALSE /\ eng.preflightOk = FALSE
        /\ eng.preflightDone = FALSE /\ eng.done = FALSE /\ eng.reprobeStart = FALSE
        /\ eng.failed = FALSE /\ eng.error = 0 /\ eng.aborting = FALSE
        /\ eng.committing = FALSE /\ eng.io = "meta" /\ eng.ioPending = FALSE
        /\ eng.afterNormalize = "ROM" /\ eng.step = 0 /\ eng.unit = "none"
    BY <1>1
  <1>3. eng \in Registers
    <2>1. DOMAIN eng = Fields /\ eng = [x \in DOMAIN eng |-> eng[x]]
      BY <1>1 DEF Fields
    <2>2. /\ "IDLE" \in Values /\ "none" \in Values /\ "meta" \in Values /\ "ROM" \in Values
          /\ 0 \in Values /\ FALSE \in Values
      BY RegisterValues, PhaseNames, UnitNames, Zenon
    <2>3. \A x \in Fields : eng[x] \in Values
      BY <1>2, <2>2 DEF Fields
    <2> QED
      BY <2>1, <2>3 DEF Registers
  <1>4. Typed(eng)
    BY <1>2, <1>3, RegisterValues, PhaseNames, UnitNames, Zenon DEF Typed
  <1>5. mem \in Memory /\ WorldTypes
    <2>1. mem \in Memory
      BY Zenon DEF Init, EngineInit, Memory
    <2>2. WorldTypes
      <3>1. 0 \in 0 .. MaxFaults
        BY WorldAssumption, SMT
      <3> QED
        BY <3>1 DEF Init, WorldTypes
    <2> QED
      BY <2>1, <2>2
  <1>6. EngineInv
    BY <1>2, SMT DEF EngineInv, UnitInv, IoInv, RestInv, HalvesInv, StagedInv, Working,
                     Preflighting, Committing
  <1>7. /\ BusInv /\ AskedInv /\ GameInv /\ BackupInv
        /\ UntouchedInv /\ CapturedInv /\ VerifiedInv
    BY <1>2, SMT DEF Init, BusInv, AskedInv, GameInv, BackupInv, UntouchedInv,
                     CapturedInv, Captured, OneCartridge, VerifiedInv, VerifyHeld, Preflighting
  <1>8. VouchedInv
    BY <1>2 DEF Init, VouchedInv, Recoverable
  <1> QED
    BY <1>4, <1>5, <1>6, <1>7, <1>8 DEF Inv, Types

\* A step that changes nothing keeps it.
LEMMA StutterInv == ASSUME Inv, UNCHANGED vars PROVE Inv'
  <1>1. /\ eng' = eng /\ mem' = mem /\ powered' = powered /\ slot' = slot /\ romOf' = romOf
        /\ passSlot' = passSlot /\ saves' = saves /\ gate' = gate /\ accepted' = accepted
        /\ backups' = backups /\ pristine' = pristine /\ asked' = asked /\ faults' = faults
    BY DEF vars, slotVars
  <1>2. Types'
    BY <1>1 DEF Inv, Types, WorldTypes
  <1>3. EngineInv'
    BY <1>1 DEF Inv, EngineInv, UnitInv, IoInv, RestInv, HalvesInv, StagedInv, Working
  <1>4. /\ BusInv' /\ AskedInv' /\ GameInv' /\ BackupInv'
        /\ UntouchedInv' /\ CapturedInv' /\ VerifiedInv'
    BY <1>1 DEF Inv, BusInv, AskedInv, GameInv, BackupInv, UntouchedInv,
                  CapturedInv, Captured, OneCartridge, VerifiedInv, VerifyHeld
  <1>5. VouchedInv'
    BY <1>1 DEF Inv, VouchedInv, Trusted, OneCartridge, Recoverable
  <1> QED
    BY <1>2, <1>3, <1>4, <1>5 DEF Inv

THEOREM Invariance == Spec => []Inv
  <1>1. Inv /\ [Next]_vars => Inv'
    BY StepKept, StutterInv
  <1> QED
    BY InitInv, <1>1, PTL DEF Spec

\* The registers have the types of TypeOK.
LEMMA TypedRegisters ==
  ASSUME NEW e, Typed(e)
  PROVE  e \in [phase : Phases, modeOwned : BOOLEAN, preflightOk : BOOLEAN,
                preflightDone : BOOLEAN, done : BOOLEAN, reprobeStart : BOOLEAN,
                failed : BOOLEAN, error : 0 .. 12, aborting : BOOLEAN,
                committing : BOOLEAN, io : {"meta", "save", "backup"},
                ioPending : BOOLEAN, afterNormalize : {"ROM", "FINAL_ROM"},
                step : 0 .. 2, unit : Units]
  <1>1. e \in [Fields -> Values]
    BY Zenon DEF Typed, Registers
  <1>2. /\ e.phase \in Phases /\ e.modeOwned \in BOOLEAN /\ e.preflightOk \in BOOLEAN
        /\ e.preflightDone \in BOOLEAN /\ e.done \in BOOLEAN /\ e.reprobeStart \in BOOLEAN
        /\ e.failed \in BOOLEAN /\ e.error \in 0 .. 12 /\ e.aborting \in BOOLEAN
        /\ e.committing \in BOOLEAN /\ e.io \in {"meta", "save", "backup"}
        /\ e.ioPending \in BOOLEAN /\ e.afterNormalize \in {"ROM", "FINAL_ROM"}
        /\ e.step \in 0 .. 2 /\ e.unit \in Units
    BY Zenon DEF Typed
  <1> QED
    BY <1>1, <1>2, SMT DEF Fields

-----------------------------------------------------------------------------
(* The properties *)

\* Every register, buffer and variable keeps its type, whatever is swapped and
\* whenever: nothing is asked of Held.
THEOREM TransactionTypes == Spec => []TypeOK
  <1>1. Inv => TypeOK
    <2> SUFFICES ASSUME Inv PROVE TypeOK
      OBVIOUS
    <2>1. Typed(eng) /\ mem \in Memory /\ WorldTypes
      BY DEF Inv, Types
    <2> QED
      BY <2>1, TypedRegisters, Zenon DEF TypeOK, WorldTypes, Memory
  <1> QED
    BY <1>1, Invariance, PTL

\* No byte of a save changes before the user's second request, whatever is
\* swapped and whenever.
THEOREM NothingUnasked == Spec => CommittedOnly
  <1>1. Inv /\ [Next]_vars => [saves' # saves => asked]_vars
    <2> SUFFICES ASSUME Inv, Next, saves' # saves PROVE asked
      BY DEF vars
    <2>1. eng.phase = "PROGRAM"
      BY StepKept, ByteUnderWay
    <2> QED
      BY <2>1, SMT DEF Inv, AskedInv, EngineInv, HalvesInv, Committing
  <1> QED
    BY <1>1, Invariance, PTL DEF Spec, CommittedOnly

\* The writer starts on the game that was prepared, with its save staged,
\* provided no cartridge is swapped under power between the end of the final ROM
\* pass and the start of the writer, while the phase is FINAL_SAVE: the engine
\* does not notice such a swap.  Cartridges change at any other moment.
THEOREM OnlyThePreparedGame ==
  ASSUME "FINAL_SAVE" \in Held
  PROVE  Spec => RightCartridge
  <1>1. Inv /\ [Next]_vars =>
          [eng.unit # "writer" /\ eng'.unit = "writer" =>
             /\ romOf[slot] = mem.meta.rom
             /\ mem.staged = mem.meta.save]_vars
    <2> SUFFICES ASSUME Inv, Next, eng.unit # "writer", eng'.unit = "writer"
        PROVE  romOf[slot] = mem.meta.rom /\ mem.staged = mem.meta.save
      BY DEF vars
    <2>1. eng.phase = "FINAL_SAVE"
      BY StepKept DEF Kept, Works, EntersInOrder
    <2> QED
      BY <2>1, SMT DEF Inv, GameInv, EngineInv, StagedInv, Committing
  <1> QED
    BY <1>1, Invariance, PTL DEF Spec, RightCartridge

\* A powered cartridge is let go of with its gate shut and the bus idle, whatever
\* is swapped and whenever.
THEOREM LetGoClean == Spec => LetsGoClean
  <1>1. Inv /\ [Next]_vars =>
          [eng.modeOwned /\ ~eng'.modeOwned /\ powered =>
             ~gate' /\ eng'.unit = "none" /\ ~accepted']_vars
    <2> SUFFICES ASSUME Inv, Next, eng.modeOwned, ~eng'.modeOwned, powered
        PROVE  ~gate' /\ eng'.unit = "none" /\ ~accepted'
      BY DEF vars
    <2>1. eng'.unit = "none"
      BY StepKept DEF Kept, Works, Around
    <2> QED
      BY <2>1, StepKept, SMT DEF Inv, BusInv
  <1> QED
    BY <1>1, Invariance, PTL DEF Spec, LetsGoClean

\* A fault, or a swap under a pass, is survived when there is one cartridge and
\* no more than two of them; with several cartridges, none is, and none of them
\* is swapped under the writer.
FaultsAreSurvived ==
  \/ MaxFaults = 0 /\ "PROGRAM" \in Held
  \/ MaxFaults \in 0 .. 2 /\ OneCartridge

\* Under that condition no save is ever lost: the one a byte of a restore has
\* changed is on the SD card, in the recovery file.
THEOREM NoSaveLost ==
  ASSUME FaultsAreSurvived
  PROVE  Spec => []Recoverable
  <1>1. Inv => Recoverable
    BY SMT DEF Inv, Types, WorldTypes, VouchedInv, Trusted, FaultsAreSurvived, OneCartridge
  <1> QED
    BY <1>1, Invariance, PTL

\* With at most two faults, a transaction is reported complete only while the
\* cartridge in the slot holds the staged save: two verify passes read it, and a
\* write that went wrong leaves a single fault for the two of them.  With several
\* cartridges, none is swapped during those two passes; one swapped under the
\* writer counts as a write that went wrong.
THEOREM CompleteMeansRestored ==
  ASSUME WriteEnabled, MaxFaults \in 0 .. 2,
         {"VERIFY1", "VERIFY2"} \subseteq Held \/ OneCartridge
  PROVE  Spec => CompleteIsRestored
  <1>1. Inv /\ [Next]_vars =>
          [eng.phase # "COMPLETE" /\ eng'.phase = "COMPLETE" => saves[slot] = mem.staged]_vars
    <2> SUFFICES ASSUME Inv, Next, eng.phase # "COMPLETE", eng'.phase = "COMPLETE"
        PROVE  saves[slot] = mem.staged
      BY DEF vars
    <2>1. PICK i : Kept(i) /\ Around(i)
      BY StepKept
    <2>2. eng.phase = "VERIFY2" /\ i.event = "save_done" /\ i.image = mem.staged
      BY <2>1 DEF Kept, EntersInOrder, Enters
    <2>3. saves[slot] = mem.staged \/ faults >= 2
      BY <2>2 DEF Inv, VerifiedInv, VerifyHeld
    <2>4. saves[slot] = mem.staged \/ faults' = faults + 1
      BY <2>1, <2>2 DEF Around
    <2>5. faults \in 0 .. MaxFaults /\ faults' \in 0 .. MaxFaults
      BY <2>1 DEF Around, WorldTypes, Inv, Types
    <2> QED
      BY <2>3, <2>4, <2>5, SMT
  <1> QED
    BY <1>1, Invariance, PTL DEF Spec, CompleteIsRestored

\* Under the same condition the transaction implements the promise: a save
\* changes only while the one it replaces is on the SD card.
THEOREM PromiseHolds ==
  ASSUME FaultsAreSurvived
  PROVE  Spec => PromiseKept
  <1>1. Init => Promise!Init
    <2> SUFFICES ASSUME Init PROVE Promise!Init
      OBVIOUS
    <2>1. eng.unit = "none"
      BY SMT DEF Init, EngineInit
    <2> QED
      BY <2>1 DEF Init, Promise!Init
  <1>2. Inv /\ [Next]_vars => [Promise!Next]_(Promise!custody)
    <2> SUFFICES ASSUME Inv, Next PROVE Promise!Next \/ UNCHANGED Promise!custody
      BY DEF vars, slotVars, Promise!custody
    <2> DEFINE busy == eng.unit = "writer"
               busyNext == eng'.unit = "writer"
    <2>1. PICK i : Kept(i) /\ Around(i)
      BY StepKept
    <2>2. /\ busy => eng.phase = "PROGRAM"
          /\ slot \in Cart /\ saves \in [Cart -> Image] /\ backups \subseteq Image
      BY DEF Inv, EngineInv, UnitInv, Types, WorldTypes
    <2>3. busy => slot' = slot
      <3>1. busy => eng.phase \in Held \/ OneCartridge
        BY <2>2 DEF FaultsAreSurvived
      <3> QED
        BY <2>1, <3>1, SlotStays
    <2>4. ~busy /\ busyNext => eng.phase = "FINAL_SAVE" /\ i.event = "save_done"
            /\ i.image = mem.original
      BY <2>1 DEF Kept, Works, EntersInOrder
    <2>5. saves' # saves => busy /\ busyNext /\ i.event = "none"
      BY <2>1, ByteUnderWay
    <2>6. CASE backups' # backups
      <3>1. ~busy /\ ~busyNext /\ saves' = saves /\ \E s \in Image : backups' = backups \cup {s}
        BY <2>1, <2>2, <2>4, <2>5, <2>6, SMT DEF Around
      <3> QED
        BY <3>1 DEF Promise!Next, Promise!Deposit
    <2>7. CASE backups' = backups /\ saves' # saves
      <3>1. busy /\ busyNext /\ slot' = slot /\ \E s \in Image : saves' = [saves EXCEPT ![slot] = s]
        BY <2>1, <2>3, <2>5, <2>7 DEF Around
      <3>2. Promise!Overwrite(slot)
        BY <2>7, <3>1 DEF Promise!Overwrite
      <3> QED
        BY <2>2, <3>2 DEF Promise!Next
    <2>8. CASE backups' = backups /\ saves' = saves /\ ~busy /\ busyNext
      <3>1. Trusted'
        BY <2>1, SMT DEF Around, WorldTypes, FaultsAreSurvived, Trusted, OneCartridge
      <3>2. eng'.phase = "PROGRAM"
        BY <2>1, <2>8, SMT DEF Kept, Works, Enters
      <3>3. Inv'
        BY StepKept
      <3>4. pristine'[slot'] \in backups'
        BY <3>1, <3>2, <3>3, SMT DEF Inv, VouchedInv
      <3>5. slot' = slot /\ pristine' = saves
        BY <2>1, <2>4, <2>8, SMT DEF Around, Inv, UntouchedInv, Working
      <3>6. Promise!Open(slot)
        BY <2>8, <3>4, <3>5 DEF Promise!Open
      <3> QED
        BY <2>2, <3>6 DEF Promise!Next
    <2>9. CASE backups' = backups /\ saves' = saves /\ busy /\ ~busyNext
      BY <2>9 DEF Promise!Next, Promise!Close
    <2>10. CASE backups' = backups /\ saves' = saves /\ (busy <=> busyNext)
      BY <2>3, <2>10 DEF Promise!custody
    <2> QED
      BY <2>6, <2>7, <2>8, <2>9, <2>10
  <1> QED
    BY <1>1, <1>2, Invariance, PTL DEF Spec, PromiseKept, Promise!Spec

=============================================================================
