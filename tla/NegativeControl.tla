---------------------------- MODULE NegativeControl ----------------------------
(***************************************************************************)
(* A check_*.py with negative controls: it runs a bench on the shipped     *)
(* source, which must pass, and on mutants of it, each of which must build *)
(* and fail on an assertion meant for it.  The first surprise ends it with *)
(* an exception, exit status 1.                                            *)
(*                                                                         *)
(* How often a mutant's text occurs in the source, whether the edit has an *)
(* effect, and what the tools answer, are choices of the environment: the  *)
(* source has moved on since the check was written.                        *)
(***************************************************************************)
EXTENDS Integers, Sequences

VARIABLES
  script,    \* the check that runs, a record as below
  trial,     \* the trial it is at
  step,      \* "idle", or what it does next
  changed,   \* the trials whose text is not the shipped one
  shown,     \* the trials that showed what they are for
  code       \* its exit status

control == <<script, trial, step, changed, shown, code>>

-----------------------------------------------------------------------------
(* The trials: how a mutant is made, and what the bench must say of it. *)

Shipped == [how |-> "none", wants |-> "pass"]
Mutant(how) == [how |-> how, wants |-> "failure"]
Variant(how) == [how |-> how, wants |-> "pass"]
Times(n, t) == [i \in 1 .. n |-> t]

\* The text to be replaced is not looked for.
RefusesUncounted(how, places, effective) ==
  /\ how \in {"replace_assignment", "replace_port", "replace_clocked_block", "replace_expression"}
  /\ places = 0 \/ ~effective

\* Does the edit refuse a source in which its text is in so many places?
Refuses(how, places, effective) ==
  CASE how \in {"none", "unchecked"} -> FALSE
    [] how = "count" -> places # 1
    [] how = "differs" -> places = 0
    [] how = "replace_assignment" -> places # 1 \/ ~effective
    [] how \in {"replace_port", "replace_clocked_block", "replace_expression"} ->
         places = 0 \/ ~effective

\* Literals are replaced by other literals; the rest are rewritten by a function.
Effects(how) == IF how \in {"none", "unchecked", "count", "differs"} THEN {TRUE} ELSE BOOLEAN

-----------------------------------------------------------------------------
(* The checks.  contract: it first reads the sources for what must be there. *)
(* elaborates: it first builds the whole top.  ahead: all mutants are made   *)
(* before the first is run.  scans: error words in the output count, too.    *)
(* shared: the mutants have their markers in common.  extracts: the bench    *)
(* takes pieces of the text by name.  builds: there is a bench to build, and *)
(* not only a text to judge.                                                 *)

Check(trials) ==
  [contract |-> FALSE, elaborates |-> FALSE, ahead |-> FALSE, scans |-> FALSE,
   shared |-> FALSE, extracts |-> FALSE, builds |-> TRUE, trials |-> trials]

check_gg_integration ==
  [Check(Times(5, Shipped) \o Times(8, Mutant("replace_assignment"))
         \o Times(6, Mutant("replace_port"))
         \o <<Mutant("replace_clocked_block"), Mutant("replace_assignment"),
              Mutant("replace_clocked_block"), Mutant("replace_clocked_block")>>)
   EXCEPT !.contract = TRUE, !.extracts = TRUE]

check_restore_integration ==
  [Check(<<Shipped>> \o Times(7, Mutant("replace_expression")) \o Times(2, Mutant("differs")))
   EXCEPT !.contract = TRUE, !.elaborates = TRUE, !.extracts = TRUE]

check_cart_reset_admission ==
  [Check(<<Shipped, Mutant("replace_assignment"), Mutant("replace_assignment"),
           Mutant("replace_port")>>)
   EXCEPT !.ahead = TRUE, !.extracts = TRUE]

check_adapter_state == [Check(<<Shipped, Mutant("count")>>) EXCEPT !.ahead = TRUE]

check_gb_precharge_release == [Check(<<Shipped, Mutant("count")>>) EXCEPT !.ahead = TRUE]

check_restore_datatable ==
  [Check(<<Shipped>> \o Times(2, Mutant("count"))) EXCEPT !.contract = TRUE]

check_gg_apf_serialization ==
  [Check(<<Shipped>> \o Times(5, Mutant("count"))) EXCEPT !.ahead = TRUE, !.scans = TRUE]

check_gg_electrical_mutations == Check(Times(4, Mutant("count")))

check_gg_allocation_mutations == Check(Times(2, Mutant("count")))

check_restore_bridge ==
  [Check(Times(9, Shipped) \o <<Mutant("differs"), Variant("differs")>> \o Times(7, Shipped)
         \o Times(2, Variant("differs")) \o Times(4, Mutant("unchecked")))
   EXCEPT !.contract = TRUE]

check_dump_pair_integration ==
  [Check(<<Shipped>> \o Times(6, Mutant("count"))) EXCEPT !.contract = TRUE, !.shared = TRUE]

check_gg_ui_strings ==
  [Check(<<Shipped>> \o Times(3, Mutant("differs"))) EXCEPT !.builds = FALSE]

\* One that compiles and mutates nothing: it reads the project and judges it.
PlainCheck == [Check(<<>>) EXCEPT !.contract = TRUE]

-----------------------------------------------------------------------------
(* One check *)

Trials == script.trials
Now == Trials[trial]
First(s) == IF s.contract THEN "contract" ELSE IF s.elaborates THEN "elaborate" ELSE "locate"
Raises == step' = "ended" /\ code' = 1 /\ UNCHANGED <<trial, shown>>

Begin(s) ==
  /\ script' = s /\ trial' = 1 /\ step' = First(s)
  /\ changed' = {} /\ shown' = {} /\ code' = -1

\* Assertions about the text of the sources.
Contract ==
  /\ step = "contract"
  /\ \/ /\ IF Trials = <<>> THEN step' = "ended" /\ code' = 0
           ELSE step' = (IF script.elaborates THEN "elaborate" ELSE "locate") /\ UNCHANGED code
        /\ UNCHANGED <<trial, shown>>
     \/ Raises
  /\ UNCHANGED <<script, changed>>

Elaborate ==
  /\ step = "elaborate"
  /\ \/ step' = "locate" /\ UNCHANGED <<trial, shown, code>>
     \/ Raises
  /\ UNCHANGED <<script, changed>>

\* The text of this trial is made, or of all of them.
Locate ==
  /\ step = "locate"
  /\ \E places \in 0 .. 2 : \E effective \in Effects(Now.how) :
       IF Refuses(Now.how, places, effective)
       THEN Raises /\ UNCHANGED changed
       ELSE /\ changed' = IF Now.how # "none" /\ places > 0 /\ effective
                          THEN changed \cup {trial} ELSE changed
            /\ IF script.ahead /\ trial < Len(Trials)
               THEN trial' = trial + 1 /\ UNCHANGED step
               ELSE /\ trial' = IF script.ahead THEN 1 ELSE trial
                    /\ step' = IF script.builds THEN "compile" ELSE "simulate"
            /\ UNCHANGED <<shown, code>>
  /\ UNCHANGED script

\* The bench is built around pieces of the text, by name, and compiled; a
\* compiler that hangs is cut off by the timeout of the call.
Compile ==
  /\ step = "compile"
  /\ \E answer \in {"built", "error", "marker", "hang"} \cup (IF script.extracts THEN {"missing"} ELSE {}) :
       CASE answer = "hang" -> step' = "hung" /\ UNCHANGED <<trial, shown, code>>
         [] answer = "built" \/ (answer = "marker" /\ ~script.scans) ->
              step' = "simulate" /\ UNCHANGED <<trial, shown, code>>
         [] OTHER -> Raises
  /\ UNCHANGED <<script, changed>>

\* What a simulation ends with: status 0 with its pass line, the line and error
\* words, or neither; a failure on the trial's own marker, on that of another
\* mutant, or on something else.
Outcomes ==
  IF script.builds THEN {"pass", "noisy", "silent", "own", "sibling", "other", "hang"}
  ELSE {"pass", "own"}

\* One text, one outcome: a mutant that is the shipped text does what it did.
OutcomesNow ==
  IF trial \notin changed /\ \E i \in shown : Trials[i] = Shipped
  THEN Outcomes \cap {"pass", "noisy"} ELSE Outcomes

Judged(outcome) ==
  IF Now.wants = "pass"
  THEN outcome = "pass" \/ (outcome = "noisy" /\ ~script.scans)
  ELSE outcome = "own" \/ (outcome = "sibling" /\ script.shared)

Simulate ==
  /\ step = "simulate"
  /\ \E outcome \in OutcomesNow :
       IF outcome = "hang" THEN step' = "hung" /\ UNCHANGED <<trial, shown, code>>
       ELSE IF ~Judged(outcome) THEN Raises
       ELSE /\ shown' = shown \cup {trial}
            /\ IF trial = Len(Trials)
               THEN step' = "ended" /\ code' = 0 /\ UNCHANGED trial
               ELSE /\ trial' = trial + 1
                    /\ step' = IF ~script.ahead THEN "locate"
                               ELSE IF script.builds THEN "compile" ELSE "simulate"
                    /\ UNCHANGED code
  /\ UNCHANGED <<script, changed>>

Expired == step = "hung" /\ Raises /\ UNCHANGED <<script, changed>>

Running == step \notin {"idle", "ended"}

ControlStep == Contract \/ Elaborate \/ Locate \/ Compile \/ Simulate \/ Expired

=============================================================================
