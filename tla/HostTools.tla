------------------------------- MODULE HostTools -------------------------------
(***************************************************************************)
(* The three tools for the host that keep or judge files (scripts), and    *)
(* the runner of the checks and benches of the repository; a behaviour is  *)
(* one use of one of them, or of the preparer by several processes.  The   *)
(* preparer is EXTENDed, the others are instances with their own variables.*)
(***************************************************************************)
EXTENDS PrepareRestore

CONSTANTS
  Names, Sessions,         \* of VerifyDump
  Image, crcOf, sizeOf,    \* of MatchDats, and
  Libraries,               \* its uses: [dats, dumps, paths]
  Checks, Benches, Selections, JobCounts, Headers, RunTimes  \* of SimRunner

VARIABLES
  tool,
  card, truth, args, vpc, vleft, failures, said, vstatus, seen, compared,
  dats, dumps, paths, mpc, at, mleft, entries, missed, mstatus,
  script, trial, step, changed, shown, scode,
  spc, jobs, selected, sat, stage, fate, verdict, results, sexit

verifier == <<card, truth, args, vpc, vleft, failures, said, vstatus, seen, compared>>
matcher == <<dats, dumps, paths, mpc, at, mleft, entries, missed, mstatus>>
suite ==
  <<script, trial, step, changed, shown, scode,
    spc, jobs, selected, sat, stage, fate, verdict, results, sexit>>
hostVars == <<tool, vars, verifier, matcher, suite>>

V == INSTANCE VerifyDump WITH pc <- vpc, left <- vleft, status <- vstatus
M == INSTANCE MatchDats WITH
       NoImage <- NoFile, pc <- mpc, left <- mleft, status <- mstatus
S == INSTANCE SimRunner WITH pc <- spc, at <- sat, code <- scode, exit <- sexit

\* What the theorems assume of the files, the libraries and the suite.
ASSUME HostAssumption ==
  /\ \A s \in Sessions : V!IsSession(s)
  /\ M!HashesAreReal
  /\ \A u \in Libraries : M!IsUse(u.dats, u.dumps, u.paths)
  /\ S!SuiteAssumption

-----------------------------------------------------------------------------

\* A tool that is not used stays as it begins.
NotPreparing == source = (CHOOSE f \in [Preparer -> Source] : TRUE) /\ Init
NotVerifying ==
  /\ card = {} /\ truth = {} /\ args = {} /\ vpc = "ended" /\ vleft = <<>>
  /\ failures = 0 /\ said = {} /\ vstatus = -1 /\ seen = <<>> /\ compared = <<>>
NotMatching ==
  /\ dats = <<>> /\ dumps = <<>> /\ paths = {} /\ mpc = "ended" /\ at = 1 /\ mleft = {}
  /\ entries = {} /\ missed = {} /\ mstatus = -1
NotRunning ==
  /\ script = <<>> /\ trial = 1 /\ step = "idle" /\ changed = {} /\ shown = {} /\ scode = 0
  /\ spc = "ended" /\ jobs = 1 /\ selected = <<>> /\ sat = 1 /\ results = <<>> /\ sexit = 1
  /\ stage = <<>> /\ fate = <<>> /\ verdict = <<>>

Preparing == tool = "prepare" /\ Init /\ NotVerifying /\ NotMatching /\ NotRunning
Verifying ==
  /\ tool = "verify" /\ \E s \in Sessions : V!Begins(s)
  /\ NotPreparing /\ NotMatching /\ NotRunning
Matching ==
  /\ tool = "match" /\ \E u \in Libraries : M!Begins(u.dats, u.dumps, u.paths)
  /\ NotPreparing /\ NotVerifying /\ NotRunning
RunningAll == tool = "run_all" /\ S!Init /\ NotPreparing /\ NotVerifying /\ NotMatching

HostInit == Preparing \/ Verifying \/ Matching \/ RunningAll

\* The tool that is used has returned to its caller: only here may it rest.
Returned ==
  \/ tool = "prepare" /\ \A p \in Preparer : pc[p] \in {"ended", "killed"}
  \/ tool = "verify" /\ vstatus # -1
  \/ tool = "match" /\ mstatus # -1
  \/ tool = "run_all" /\ sexit # -1

HostNext ==
  \/ tool = "prepare" /\ Next /\ UNCHANGED <<tool, verifier, matcher, suite>>
  \/ tool = "verify" /\ V!Next /\ UNCHANGED <<tool, vars, matcher, suite>>
  \/ tool = "match" /\ M!Next /\ UNCHANGED <<tool, vars, verifier, suite>>
  \/ tool = "run_all" /\ S!Next /\ UNCHANGED <<tool, vars, verifier, matcher>>
  \/ Returned /\ UNCHANGED hostVars

HostSpec == HostInit /\ [][HostNext]_hostVars

-----------------------------------------------------------------------------
(* The properties of the others; those of PrepareRestore are its own *)

\* What verify_dump clears was there, shows no damage and agrees with every
\* reference, and a failing comparison names a data line when one line explains
\* all of it (VerifyDump).
DamageIsCaught == V!DamageIsCaught /\ V!LineIsNamed

\* What verify_dump fails has something wrong with it (VerifyDump).
SoundDumpPasses == V!SoundDumpPasses

\* A dump matches when a published record is its own (MatchDats).
MatchIsRecorded == [][M!MatchStep]_matcher

\* A check that ends with 0 has proved something (SimRunner).
NoVacuousControl == tool = "run_all" => S!NoVacuousControl

\* The report is that of a serial run (SimRunner).
ReportIsSerial == tool = "run_all" => S!ReportIsSerial

=============================================================================
