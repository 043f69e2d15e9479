--------------------------- MODULE MCRestoreControl ---------------------------
(* One save, one game: what the data says is RestoreTransaction's business.   *)
EXTENDS RestoreControl

MCHeaderOf == [r \in Rom |-> CHOOSE h \in Header : TRUE]
MCKeySets == {{}, {"select"}, {"a"}, {"b"}}

MCInit == Init /\ mem.meta.valid
MCSpec == MCInit /\ [][Next]_vars
MCFairSpec == MCSpec /\ WF_vars(Progress)

\* Registers are left out while they are set again before they are read.
LiveEngine ==
  [eng EXCEPT !.error = 0,
              !.io = IF eng.ioPending THEN @ ELSE "meta",
              !.step = IF eng.phase \in {"NORMALIZE", "CLEAN"} THEN @ ELSE 0,
              !.afterNormalize = IF eng.phase \in {"WAKE", "NORMALIZE"} THEN @ ELSE "ROM",
              !.committing = @ /\ Working,
              !.failed = @ /\ (Working \/ eng.done \/ eng.preflightDone)]
LiveGuard ==
  [guard EXCEPT !.entryReturn = IF guard.state = "ENTRY_HOLD" THEN @ ELSE "LOCKED",
                !.abandoned = @ /\ guard.state = "ENTRY_HOLD",
                !.preflightArmed = @ /\ guard.state = "PREFLIGHT",
                !.operationArmed = @ /\ guard.state = "RUN"]
LiveState == <<LiveEngine, LiveGuard, buttons, probe, glue, alone, letGo, fresh>>
=============================================================================
