------------------------------- MODULE SimRunner -------------------------------
(***************************************************************************)
(* tools/sim/run_all.py: it runs the structural checks one after another,  *)
(* then the testbenches on a pool of threads, and reports on all of them.  *)
(* A check is the process of NegativeControl; a testbench is compiled and  *)
(* simulated by its thread.                                                *)
(***************************************************************************)
EXTENDS NegativeControl, SequencesExt

CONSTANTS
  Checks,     \* the check_*.py of the directory, sorted: records of NegativeControl
  Benches,    \* its tb_*.sv, sorted
  Selections, \* what -k may leave of them: [checks, benches], two sequences
  JobCounts,  \* what -j may say
  Headers,    \* the TIMEOUT headers a bench may have: a sequence of numbers, -1 no number
  RunTimes    \* how many seconds a simulation may take

VARIABLES
  pc,       \* where main is
  jobs,
  selected, \* the selection of this run
  at,       \* the structural check it is at
  stage,    \* of each bench: "queued", "headers", "compile", "vvp", "done"
  fate,     \* what each bench met with
  verdict,  \* the Result of its thread: ok
  results,  \* the results main has, in order: <<name or number, ok>>
  exit

runner == <<pc, jobs, selected, at, stage, fate, verdict, results, exit>>
vars == <<control, runner>>

\* What the checks of the directory and the benches are: no trial that wants a
\* failure is the shipped text as it stands, and one whose text is replaced
\* unasked comes after a trial of the shipped one.
TrialType ==
  [how : {"none", "unchecked", "count", "differs", "replace_assignment", "replace_port",
          "replace_clocked_block", "replace_expression"},
   wants : {"pass", "failure"}]

WellFormed(c) ==
  /\ c \in [contract : BOOLEAN, elaborates : BOOLEAN, ahead : BOOLEAN, scans : BOOLEAN,
            shared : BOOLEAN, extracts : BOOLEAN, builds : BOOLEAN, trials : Seq(TrialType)]
  /\ c.trials = <<>> => c.contract
  /\ \A i \in DOMAIN c.trials : c.trials[i].wants = "failure" =>
       /\ c.trials[i].how # "none"
       /\ c.trials[i].how = "unchecked" => \E j \in 1 .. i - 1 : c.trials[j] = Shipped

SuiteAssumption ==
  /\ \A i \in DOMAIN Checks : WellFormed(Checks[i])
  /\ Selections \subseteq [checks : Seq(ToSet(Checks)), benches : Seq(ToSet(Benches))]
  /\ Headers \subseteq Seq(Int)
  /\ RunTimes \subseteq Nat \ {0}

DEFAULT_TIMEOUT == 300
MAX_TIMEOUT == 1800

-----------------------------------------------------------------------------
(* The structural checks, in the thread of main and without a time limit *)

job_count ==
  /\ pc = "parse"
  /\ IF jobs \in 1 .. 8 THEN pc' = "checks" /\ UNCHANGED exit
     ELSE pc' = "ended" /\ exit' = 2
  /\ UNCHANGED <<control, jobs, selected, at, stage, fate, verdict, results>>

StartCheck ==
  /\ pc = "checks" /\ at <= Len(selected.checks) /\ step = "idle"
  /\ Begin(selected.checks[at])
  /\ UNCHANGED runner

CheckRuns ==
  /\ pc = "checks" /\ Running /\ ControlStep
  /\ UNCHANGED runner

CheckEnds ==
  /\ pc = "checks" /\ step = "ended"
  /\ results' = Append(results, <<at, code = 0>>)
  /\ at' = at + 1 /\ step' = "idle"
  /\ UNCHANGED <<script, trial, changed, shown, code, pc, jobs, selected, stage, fate, verdict, exit>>

ChecksDone ==
  /\ pc = "checks" /\ at > Len(selected.checks)
  /\ pc' = "benches"
  /\ UNCHANGED <<control, jobs, selected, at, stage, fate, verdict, results, exit>>

-----------------------------------------------------------------------------
(* The testbenches *)

Dispatched == {b \in ToSet(selected.benches) : stage[b] \notin {"queued", "done"}}

\* A free thread takes the next one in the order of the list.
Take(b) ==
  /\ pc = "benches" /\ Cardinality(Dispatched) < jobs
  /\ \E i \in DOMAIN selected.benches :
       /\ selected.benches[i] = b /\ stage[b] = "queued"
       /\ \A j \in 1 .. i - 1 : stage[selected.benches[j]] # "queued"
  /\ stage' = [stage EXCEPT ![b] = "headers"]
  /\ UNCHANGED <<control, pc, jobs, selected, at, fate, verdict, results, exit>>

Ends(b, ok) ==
  stage' = [stage EXCEPT ![b] = "done"] /\ verdict' = [verdict EXCEPT ![b] = ok]
Unharmed == UNCHANGED <<control, pc, jobs, selected, at, results, exit>>

\* The seconds a bench asks for, or 0 when its header is refused.
read_timeout(header) ==
  IF header = <<>> THEN DEFAULT_TIMEOUT
  ELSE IF Len(header) = 1 /\ header[1] \in 1 .. MAX_TIMEOUT THEN header[1]
  ELSE 0

Fails(b) == Ends(b, FALSE) /\ fate' = [fate EXCEPT ![b].failed = TRUE]

\* One SOURCES header, of files that exist; a bench that cannot be read raises an
\* exception, which its thread turns into a result like any other.
ReadHeaders(b) ==
  /\ stage[b] = "headers"
  /\ \E sources \in {"one", "none", "several", "missing", "unreadable"} :
       \/ sources # "one" /\ Fails(b)
       \/ /\ sources = "one"
          /\ \E header \in Headers :
               LET timeout == read_timeout(header)
               IN /\ fate' = [fate EXCEPT ![b].timeout = timeout]
                  /\ IF timeout = 0 THEN Ends(b, FALSE)
                     ELSE stage' = [stage EXCEPT ![b] = "compile"] /\ UNCHANGED verdict
  /\ Unharmed

\* No time limit here: the compiler is trusted to end.
Build(b) ==
  /\ stage[b] = "compile"
  /\ \/ stage' = [stage EXCEPT ![b] = "vvp"] /\ UNCHANGED <<fate, verdict>>
     \/ \E answer \in {"exit", "marker", "not found"} : Fails(b)
  /\ Unharmed

\* It ends by itself within its time, in one of these ways.
Vvp(b) ==
  /\ stage[b] = "vvp"
  /\ \E seconds \in RunTimes, answer \in {"exit", "marker", "silent", "pass"} :
       /\ seconds <= fate[b].timeout
       /\ fate' = [fate EXCEPT ![b].failed = answer # "pass", ![b].seconds = seconds]
       /\ Ends(b, answer = "pass")
  /\ Unharmed

\* A longer one is killed, and its exception is a result, too.
TimeoutExpired(b) ==
  /\ stage[b] = "vvp"
  /\ \E seconds \in RunTimes :
       seconds > fate[b].timeout /\ fate' = [fate EXCEPT ![b].seconds = seconds]
  /\ Ends(b, FALSE)
  /\ Unharmed

\* In the order in which they end.
CollectCompleted ==
  /\ pc = "benches"
  /\ \E b \in ToSet(selected.benches) :
       /\ stage[b] = "done" /\ \A i \in Len(selected.checks) + 1 .. Len(results) : results[i][1] # b
       /\ results' = Append(results, <<b, verdict[b]>>)
  /\ UNCHANGED <<control, pc, jobs, selected, at, stage, fate, verdict, exit>>

\* map hands the results over in the order of the list.
Collect ==
  /\ pc = "benches"
  /\ LET i == Len(results) - Len(selected.checks) + 1
     IN /\ i <= Len(selected.benches)
        /\ stage[selected.benches[i]] = "done"
        /\ results' = Append(results, <<selected.benches[i], verdict[selected.benches[i]]>>)
  /\ UNCHANGED <<control, pc, jobs, selected, at, stage, fate, verdict, exit>>

Report ==
  /\ pc = "benches"
  /\ Len(results) = Len(selected.checks) + Len(selected.benches)
  /\ pc' = "ended"
  /\ exit' = IF results # <<>> /\ \A i \in DOMAIN results : results[i][2] THEN 0 ELSE 1
  /\ UNCHANGED <<control, jobs, selected, at, stage, fate, verdict, results>>

-----------------------------------------------------------------------------

Untouched == [failed |-> FALSE, timeout |-> 0, seconds |-> 0]

Init ==
  /\ script = PlainCheck /\ trial = 1 /\ step = "idle" /\ changed = {} /\ shown = {} /\ code = -1
  /\ pc = "parse" /\ jobs \in JobCounts /\ selected \in Selections /\ at = 1
  /\ stage = [b \in ToSet(Benches) |-> "queued"]
  /\ fate = [b \in ToSet(Benches) |-> Untouched]
  /\ verdict = [b \in ToSet(Benches) |-> FALSE]
  /\ results = <<>> /\ exit = -1

run_testbench(b) == ReadHeaders(b) \/ Build(b) \/ Vvp(b) \/ TimeoutExpired(b)

Next ==
  \/ job_count \/ StartCheck \/ CheckRuns \/ CheckEnds \/ ChecksDone \/ Collect \/ Report
  \/ \E b \in ToSet(Benches) : Take(b) \/ run_testbench(b)

Spec == Init /\ [][Next]_vars

-----------------------------------------------------------------------------
(* Properties *)

\* A check that ends with 0 has proved something: every trial it has was run and
\* showed what it is for, and no mutant was the shipped text under another name
\* ("a compiler failure or an unrelated watchdog cannot count as detection").
NoVacuousControl ==
  step = "ended" /\ code = 0 =>
    /\ shown = DOMAIN Trials
    /\ \A i \in DOMAIN Trials : Trials[i].wants = "failure" => i \in changed

\* What a bench met with is a pass.
Clean(f) ==
  ~f.failed /\ f.timeout \in 1 .. MAX_TIMEOUT /\ f.seconds \in 1 .. f.timeout

\* The report is that of a serial run, whatever the threads did: checks first,
\* every selected bench once, in the order of the list, each with the verdict of
\* what it met with itself; and only a run with at least one result, all of them
\* clean, ends with 0 ("Silence is failure", "Keep one failed invocation from
\* discarding the rest of the suite").
ReportIsSerial ==
  /\ \A i \in 1 .. Len(results) - Len(selected.checks) :
       LET b == selected.benches[i]
       IN results[Len(selected.checks) + i] = <<b, Clean(fate[b])>>
  /\ exit = 0 =>
       /\ Len(results) = Len(selected.checks) + Len(selected.benches)
       /\ results # <<>> /\ \A b \in ToSet(selected.benches) : Clean(fate[b])

=============================================================================
