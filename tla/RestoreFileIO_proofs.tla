--------------------------- MODULE RestoreFileIO_proofs ---------------------------
(* Proofs that RestoreFileIO, for every length of file, any number of recovery  *)
(* names, every host and any sequence of operations, keeps the inductive        *)
(* invariant stated first - which command the executor is at while the service  *)
(* waits, and what the card holds by then - and the properties it carries.      *)
EXTENDS RestoreFileIO, SequenceTheorems, TLAPS

-----------------------------------------------------------------------------
(* The inductive invariant *)

Commands == {"read", "write", "getfile", "openfile"}
Slots == {"META", "SAVE", "BACKUP", "DUMP"}

\* The types, those of the words under way and of the names left out.
Service ==
  [state : IoStates, op : 0 .. 2, index : Indices, create : BOOLEAN, owned : BOOLEAN,
   checking : BOOLEAN, saw : BOOLEAN, received : 0 .. Words, receiveBad : BOOLEAN,
   names : 0 .. 1, nameBad : BOOLEAN, pathBad : BOOLEAN, failed : BOOLEAN]

Executor ==
  [state : {"IDLE", "DATASLOTOP", "WAITRESULT"}, queue : SUBSET Commands,
   cmd : [cmd : Commands \cup {"none"}, slot : Slots], done : BOOLEAN, result : Nat]

BoundNames == {NoName} \cup {Recovery(i) : i \in Indices}
Contents == {Absent, Fresh, Others} \cup Images

Card ==
  [META : InputFiles, SAVE : InputFiles, bound : BoundNames, files : [Indices -> Contents]]

HostTypes ==
  /\ DOMAIN host = {"state", "send", "result"}
  /\ host = [x \in DOMAIN host |-> host[x]]
  /\ host.state \in {"idle", "working", "ok"} /\ host.result \in Nat
  /\ target.state # "WAITRESULT" => host.state = "idle"

Types ==
  /\ io \in Service /\ target \in Executor /\ card \in Card /\ HostTypes
  /\ poisoned \in BOOLEAN /\ nextOp \in 0 .. 2 /\ image \in Images
  /\ strobe \in Commands \cup {"none"}

\* The command and slot the service waits for.
OwnCommand == [cmd |-> Awaits[io.state], slot |-> SlotOf[io.op]]

Quiet == strobe = "none" /\ target.queue = {}

\* The command is strobed, queued, with the executor, or answered, and nothing
\* else is on the way; the service sees done of no earlier command.
OnTheWay ==
  \/ strobe = Awaits[io.state] /\ target.queue = {} /\ target.state = "IDLE" /\ ~io.saw
  \/ strobe = "none" /\ target.queue = {Awaits[io.state]} /\ target.state = "IDLE"
     /\ (io.saw => ~target.done)
  \/ Quiet /\ target.state = "DATASLOTOP" /\ target.cmd = OwnCommand /\ (io.saw => ~target.done)
  \/ Quiet /\ target.state = "WAITRESULT" /\ target.cmd = OwnCommand /\ ~target.done
  \/ Quiet /\ target.state = "IDLE" /\ target.cmd = OwnCommand /\ target.done /\ io.saw

InStep ==
  IF io.state \in Waits THEN OnTheWay ELSE Quiet /\ target.state = "IDLE"

\* A command that was with the host when the service began leaves it one
\* answer behind: it waits for its command and gets the answer to the last.
BehindWaiting ==
  /\ io.state \in {"NAME_WAIT", "READ_WAIT"}
  /\ io.state = "READ_WAIT" => io.received = 0
  /\ \/ /\ target.state = "WAITRESULT" /\ ~target.done
        /\ \/ strobe = Awaits[io.state] /\ target.queue = {}
           \/ strobe = "none" /\ target.queue = {Awaits[io.state]}
        /\ io.state = "READ_WAIT" => target.cmd.cmd = "getfile"
     \/ target.state = "IDLE" /\ target.done /\ io.saw
        /\ strobe = "none" /\ target.queue = {Awaits[io.state]}

BehindElsewhere ==
  /\ Quiet /\ target.state # "IDLE"
  /\ io.state \in {"IDLE", "NAME", "NAME_CHECK", "ID_CHECK", "READ", "FINISH"}
  /\ target.state = "DATASLOTOP" => io.state \in {"NAME_CHECK", "FINISH"}
  /\ target.state = "WAITRESULT" => ~target.done
  /\ io.state \in {"NAME_CHECK", "ID_CHECK", "READ"} => target.cmd.cmd = "getfile"
  /\ io.state = "FINISH" => io.failed

\* Then it has got no further than the metadata, and the command it has not
\* heard of changes nothing on the card.
Behind ==
  /\ io.op = 0 /\ nextOp = 0 /\ ~io.checking
  /\ target.state # "IDLE" => target.cmd.cmd \in {"getfile", "read"} \/ target.cmd.slot = "DUMP"
  /\ BehindWaiting \/ BehindElsewhere

\* After a command has timed out the service gives none.
Poisoned ==
  /\ io.state \in {"IDLE", "FINISH"} /\ (io.state = "FINISH" => io.failed)
  /\ strobe = "none"

PipeInv ==
  /\ poisoned => Poisoned
  /\ ~poisoned => InStep \/ Behind

\* The file of the recovery is the one the slot is bound to, still as new.
NewFileBound == card.bound = Recovery(io.index) /\ card.files[io.index] = Fresh

CreatedInv ==
  io.state = "CREATE_WAIT" =>
    /\ io.create
    /\ Quiet /\ target.state = "WAITRESULT" /\ host.state # "idle" /\ host.result = 1 =>
         NewFileBound
    /\ Quiet /\ target.state = "IDLE" /\ target.result = 1 => NewFileBound

CheckedInv ==
  /\ io.state = "WRITE" => NewFileBound
  /\ io.checking /\ io.state \in {"NAME", "NAME_WAIT", "NAME_CHECK", "ID_CHECK"} => NewFileBound

\* A write the host has yet to take.
WriteToCome ==
  \/ strobe = "write" \/ "write" \in target.queue
  \/ target.cmd.cmd = "write" /\ target.cmd.slot # "DUMP"
     /\ target.state # "IDLE" /\ host.state = "idle"

WriteInv ==
  WriteToCome =>
    /\ card.bound # NoName /\ card.files[card.bound[2]] = Fresh
    /\ target.state # "IDLE" => Quiet
    /\ strobe = "write" => target.queue = {}
    /\ strobe \in {"none", "write"} /\ target.queue \subseteq {"write"}

OperationInv ==
  /\ io.state \in {"PROBE", "PROBE_WAIT", "CREATE", "CREATE_WAIT", "WRITE", "WRITE_WAIT", "OPEN",
                   "OPEN_WAIT"} => io.op = 2
  /\ io.checking => io.op = 2
  /\ io.state \in {"WRITE", "WRITE_WAIT", "OPEN", "OPEN_WAIT"} => ~io.checking

Inv ==
  /\ Types /\ PipeInv /\ OperationInv
  /\ CreatedInv /\ CheckedInv /\ WriteInv

-----------------------------------------------------------------------------
(* The service: what a step of it leaves *)

LEMMA WaitNames ==
  /\ Waits = {"NAME_WAIT", "OPEN_WAIT", "READ_WAIT", "PROBE_WAIT", "CREATE_WAIT", "WRITE_WAIT"}
  /\ Awaits["NAME_WAIT"] = "getfile" /\ Awaits["READ_WAIT"] = "read"
  /\ Awaits["PROBE_WAIT"] = "openfile" /\ Awaits["CREATE_WAIT"] = "openfile"
  /\ Awaits["OPEN_WAIT"] = "openfile" /\ Awaits["WRITE_WAIT"] = "write"
  BY SMT DEF Waits, Awaits

LEMMA StateNames ==
  /\ Waits \subseteq IoStates
  /\ {"IDLE", "NAME", "NAME_CHECK", "OPEN", "ID_CHECK", "READ", "PROBE", "CREATE", "WRITE",
      "FINISH"} \subseteq IoStates
  BY Zenon DEF IoStates

LEMMA Zero == 0 \in 0 .. 1 /\ 0 \in 0 .. 2 /\ 0 \in 0 .. Words
  BY TargetAssumption, SMT

LEMMA AwaitedCommands == \A w \in Waits : Awaits[w] \in Commands /\ Awaits[w] # "none"
  BY WaitNames, SMT DEF Commands

\* The state a command is given in.
GivenIn ==
  [NAME_WAIT |-> "NAME", OPEN_WAIT |-> "OPEN", READ_WAIT |-> "READ", PROBE_WAIT |-> "PROBE",
   CREATE_WAIT |-> "CREATE", WRITE_WAIT |-> "WRITE"]

\* The registers a step leaves as they are in all but the first answer.
Holds == io'.op = io.op /\ io'.index = io.index /\ (io'.checking <=> io.checking)

AsksFor(w) ==
  /\ io.state = GivenIn[w] /\ io'.state = w /\ strobe' = Awaits[w]
  /\ ~io'.saw /\ Holds /\ poisoned' = poisoned
  /\ w = "READ_WAIT" => io'.received = 0
  /\ w = "CREATE_WAIT" => io'.create

WaitsOn ==
  /\ io.state \in Waits /\ ~Answered /\ io'.state = io.state
  /\ strobe' = "none" /\ poisoned' = poisoned
  /\ (io'.saw <=> (io.saw \/ ~target.done))
  /\ Holds /\ io'.received = io.received /\ (io'.create <=> io.create)

GivesUp ==
  /\ io.state \in Waits /\ ~Answered /\ io'.state = "FINISH" /\ io'.failed /\ Holds
  /\ strobe' = "none" /\ poisoned' = TRUE

Hears ==
  /\ io.state \in Waits /\ Answered
  /\ strobe' = "none" /\ poisoned' = poisoned /\ io'.op = io.op
  /\ \/ io'.state = "FINISH" /\ Holds
        /\ (io'.failed \/ (io.state = "READ_WAIT" /\ io.received = Words))
     \/ io.state = "NAME_WAIT" /\ io'.state = "NAME_CHECK" /\ Holds
     \/ io.state = "PROBE_WAIT" /\ io'.state \in {"CREATE", "PROBE"}
        /\ (io'.checking <=> io.checking)
     \/ io.state = "CREATE_WAIT" /\ target.result = 1 /\ io'.state = "NAME"
        /\ io'.index = io.index
     \/ io.state = "WRITE_WAIT" /\ io'.state = "OPEN" /\ Holds
     \/ io.state = "OPEN_WAIT" /\ io'.state = "ID_CHECK" /\ Holds

MovesOn ==
  /\ strobe' = "none" /\ poisoned' = poisoned /\ Holds
  /\ \/ io.state \in {"NAME_CHECK", "ID_CHECK", "WRITE"} /\ io'.state = "FINISH" /\ io'.failed
     \/ io.state = "NAME_CHECK" /\ io'.state = "ID_CHECK"
     \/ io.state = "FINISH" /\ io'.state = "IDLE"
     \/ io.state = "IDLE" /\ io' = io

Checks ==
  /\ strobe' = "none" /\ poisoned' = poisoned /\ io.state = "ID_CHECK"
  /\ io'.op = io.op /\ io'.index = io.index /\ ~io'.checking
  /\ io'.state = IF io.checking THEN "WRITE" ELSE "READ"

Starts ==
  /\ strobe' = "none" /\ poisoned' = poisoned /\ io.state = "IDLE"
  /\ io'.op \in {0, nextOp} /\ ~io'.checking
  /\ poisoned => io'.state = "FINISH" /\ io'.failed
  /\ ~poisoned => io'.state = IF io'.op = 2 THEN "PROBE" ELSE "NAME"

Serves ==
  (\E w \in Waits : AsksFor(w)) \/ WaitsOn \/ GivesUp \/ Hears \/ MovesOn \/ Checks \/ Starts

LEMMA ServiceFails ==
  ASSUME io \in Service, FailCommand
  PROVE  /\ io' \in Service /\ io'.state = "FINISH" /\ io'.failed /\ Holds
         /\ strobe' = "none"
  <1>1. io' \in Service
    BY StateNames, Zenon DEF FailCommand, Service
  <1> QED
    BY <1>1, SMT DEF FailCommand, Service, Holds

LEMMA ServiceGoes ==
  ASSUME io \in Service, NEW s \in IoStates, Goes(s)
  PROVE  /\ io' \in Service /\ io'.state = s /\ Holds
         /\ strobe' = "none" /\ poisoned' = poisoned
  <1>1. io' \in Service
    BY Zenon DEF Goes, Service
  <1> QED
    BY <1>1, SMT DEF Goes, Service, Holds

LEMMA NameAskedAsks ==
  ASSUME io \in Service, NameAsked
  PROVE  io' \in Service /\ AsksFor("NAME_WAIT")
  <1>1. io' \in Service
    BY StateNames, WaitNames, Zero, Zenon DEF NameAsked, Asks, Service
  <1> QED
    BY <1>1, WaitNames, SMT DEF NameAsked, Asks, Service, AsksFor, Holds, GivenIn

LEMMA ReadAskedAsks ==
  ASSUME io \in Service, ReadAsked
  PROVE  io' \in Service /\ AsksFor("READ_WAIT")
  <1>1. io' \in Service
    BY StateNames, WaitNames, Zero, Zenon DEF ReadAsked, Asks, Service
  <1> QED
    BY <1>1, WaitNames, SMT DEF ReadAsked, Asks, Service, AsksFor, Holds, GivenIn

LEMMA OpenAsks ==
  ASSUME io \in Service, ProbeAsked \/ CreateAsked \/ OpenAsked
  PROVE  io' \in Service /\ \E w \in Waits : AsksFor(w)
  <1>1. io' \in Service
    BY StateNames, WaitNames, Zenon DEF ProbeAsked, CreateAsked, OpenAsked, Asks, Service
  <1>2. CASE ProbeAsked
    <2>1. AsksFor("PROBE_WAIT")
      BY <1>1, <1>2, WaitNames, SMT DEF ProbeAsked, Asks, Service, AsksFor, Holds, GivenIn
    <2> QED
      BY <1>1, <2>1, WaitNames
  <1>3. CASE CreateAsked
    <2>1. AsksFor("CREATE_WAIT")
      BY <1>1, <1>3, WaitNames, SMT DEF CreateAsked, Asks, Service, AsksFor, Holds, GivenIn
    <2> QED
      BY <1>1, <2>1, WaitNames
  <1>4. CASE OpenAsked
    <2>1. AsksFor("OPEN_WAIT")
      BY <1>1, <1>4, WaitNames, SMT DEF OpenAsked, Asks, Service, AsksFor, Holds, GivenIn
    <2> QED
      BY <1>1, <2>1, WaitNames
  <1> QED
    BY <1>2, <1>3, <1>4

LEMMA WriteAskedServes ==
  ASSUME io \in Service, WriteAsked
  PROVE  io' \in Service /\ (AsksFor("WRITE_WAIT") \/ MovesOn)
  <1>1. CASE io.owned
    <2>1. io' \in Service
      BY <1>1, StateNames, WaitNames, Zenon DEF WriteAsked, Asks, Service
    <2>2. Asks("WRITE", [io EXCEPT !.state = "WRITE_WAIT"], "write")
      BY <1>1, Zenon DEF WriteAsked
    <2>3. AsksFor("WRITE_WAIT")
      BY <2>1, <2>2, WaitNames, SMT DEF Asks, Service, AsksFor, Holds, GivenIn
    <2> QED
      BY <2>1, <2>3
  <1>2. CASE ~io.owned
    BY <1>2, ServiceFails DEF WriteAsked, Refused, MovesOn
  <1> QED
    BY <1>1, <1>2

LEMMA AnswersHeard ==
  ASSUME io \in Service, target \in Executor,
         NameAnswered \/ ReadAnswered \/ WriteAnswered \/ OpenAnswered
  PROVE  io' \in Service /\ Hears
  <1>1. CASE FailCommand /\ poisoned' = poisoned
    BY <1>1, ServiceFails, WaitNames, SMT
       DEF Hears, NameAnswered, ReadAnswered, WriteAnswered, OpenAnswered, Holds
  <1>2. CASE NameAnswered /\ Goes("NAME_CHECK")
    BY <1>2, StateNames, ServiceGoes, WaitNames, SMT DEF Hears, NameAnswered, Holds
  <1>3. CASE ReadAnswered /\ Goes("FINISH") /\ io.received = Words
    BY <1>3, StateNames, ServiceGoes, WaitNames, SMT DEF Hears, ReadAnswered, Holds
  <1>4. CASE WriteAnswered /\ Goes("OPEN")
    BY <1>4, StateNames, ServiceGoes, WaitNames, SMT DEF Hears, WriteAnswered, Holds
  <1>5. CASE OpenAnswered /\ Goes("ID_CHECK")
    BY <1>5, StateNames, ServiceGoes, WaitNames, SMT DEF Hears, OpenAnswered, Holds
  <1> QED
    BY <1>1, <1>2, <1>3, <1>4, <1>5
       DEF NameAnswered, ReadAnswered, WriteAnswered, OpenAnswered, Refused

LEMMA ProbeHeard ==
  ASSUME io \in Service, target \in Executor, ProbeAnswered
  PROVE  io' \in Service /\ Hears
  <1>1. CASE FailCommand /\ poisoned' = poisoned
    BY <1>1, ServiceFails, WaitNames, SMT DEF Hears, ProbeAnswered, Holds
  <1>2. CASE Goes("CREATE")
    BY <1>2, StateNames, ServiceGoes, WaitNames, SMT DEF Hears, ProbeAnswered, Holds
  <1>3. CASE /\ io.index # LastIndex
             /\ io' = [io EXCEPT !.index = @ + 1, !.state = "PROBE"] /\ strobe' = "none"
             /\ UNCHANGED poisoned
    <2>1. io.index + 1 \in Indices
      BY <1>3, TargetAssumption, SMT DEF Service, Indices
    <2>2. io' \in Service
      BY <1>3, <2>1, StateNames, Zenon DEF Service
    <2>3. io'.op = io.op /\ io'.state = "PROBE" /\ (io'.checking <=> io.checking)
      BY <1>3, SMT DEF Service
    <2> QED
      BY <1>3, <2>2, <2>3, WaitNames, SMT DEF Hears, ProbeAnswered
  <1> QED
    BY <1>1, <1>2, <1>3, Zenon DEF ProbeAnswered, Refused

LEMMA CreateHeard ==
  ASSUME io \in Service, target \in Executor, CreateAnswered
  PROVE  io' \in Service /\ Hears
  <1>1. CASE target.result # 1
    BY <1>1, ServiceFails, WaitNames, SMT DEF Hears, CreateAnswered, Refused, Holds
  <1>2. CASE target.result = 1
    <2>1. io' \in Service
      BY <1>2, StateNames, Zenon DEF Service, CreateAnswered
    <2>2. io' = [io EXCEPT !.owned = TRUE, !.checking = TRUE, !.state = "NAME"]
      BY <1>2, Zenon DEF CreateAnswered
    <2>3. io'.state = "NAME" /\ io'.index = io.index /\ io'.op = io.op
      BY <2>2, SMT DEF Service
    <2> QED
      BY <1>2, <2>1, <2>3, WaitNames, Zenon DEF CreateAnswered, Hears
  <1> QED
    BY <1>1, <1>2

LEMMA WaitServes ==
  ASSUME io \in Service, target \in Executor, NEW expired, Waiting(expired) \/ TimedOut(expired)
  PROVE  io' \in Service /\ (WaitsOn \/ GivesUp)
  <1>1. CASE Waiting(expired)
    <2>1. io' \in Service
      BY <1>1, Zenon DEF Waiting, Service
    <2>2. io'.saw <=> (io.saw \/ ~target.done)
      BY <1>1, Zenon DEF Waiting, Service
    <2>3. /\ io'.state = io.state /\ Holds /\ io'.received = io.received
          /\ (io'.create <=> io.create)
      BY <1>1, SMT DEF Waiting, Service, Holds
    <2> QED
      BY <1>1, <2>1, <2>2, <2>3, Zenon DEF WaitsOn, Waiting
  <1>2. CASE TimedOut(expired)
    BY <1>2, ServiceFails DEF TimedOut, GivesUp
  <1> QED
    BY <1>1, <1>2

LEMMA ChecksServe ==
  ASSUME io \in Service, NameChecked \/ TableChecked
  PROVE  io' \in Service /\ (MovesOn \/ Checks)
  <1>1. CASE FailCommand /\ poisoned' = poisoned
    BY <1>1, ServiceFails, SMT DEF MovesOn, NameChecked, TableChecked, Holds
  <1>2. CASE NameChecked /\ Goes("ID_CHECK")
    BY <1>2, StateNames, ServiceGoes, SMT DEF NameChecked, MovesOn, Holds
  <1>3. CASE /\ io.state = "ID_CHECK"
             /\ io' = [io EXCEPT !.checking = FALSE,
                                 !.state = IF io.checking THEN "WRITE" ELSE "READ"]
             /\ strobe' = "none" /\ UNCHANGED poisoned
    <2>1. (IF io.checking THEN "WRITE" ELSE "READ") \in IoStates
      BY StateNames
    <2>2. io' \in Service
      BY <1>3, <2>1, Zenon DEF Service
    <2> QED
      BY <1>3, <2>2, SMT DEF Service, Checks
  <1> QED
    BY <1>1, <1>2, <1>3 DEF NameChecked, TableChecked, Refused

LEMMA FinishServes ==
  ASSUME io \in Service, Finish
  PROVE  io' \in Service /\ MovesOn
  <1>1. io' \in Service
    BY StateNames, Zenon DEF Service, Finish
  <1> QED
    BY <1>1, SMT DEF Service, Finish, MovesOn, Holds

LEMMA StartServes ==
  ASSUME io \in Service, NEW op \in 0 .. 2, op \in {0, nextOp}, Start(op), poisoned \in BOOLEAN
  PROVE  io' \in Service /\ Starts
  <1>1. /\ io'.op = op /\ ~io'.checking /\ (io'.failed <=> poisoned)
        /\ io'.state = CASE poisoned -> "FINISH"
                         [] ~poisoned /\ op = 2 -> "PROBE"
                         [] ~poisoned /\ op # 2 -> "NAME"
    BY DEF Start
  <1>2. io'.state \in IoStates
    BY <1>1, StateNames
  <1>3. io' \in Service
    BY <1>1, <1>2, Zenon DEF Start, Service
  <1> QED
    BY <1>1, <1>3 DEF Starts, Start

LEMMA StepServes ==
  ASSUME io \in Service, target \in Executor, NEW expired, IoStep(expired)
  PROVE  io' \in Service /\ Serves
  BY NameAskedAsks, ReadAskedAsks, OpenAsks, WriteAskedServes, AnswersHeard, ProbeHeard,
     CreateHeard, WaitServes, ChecksServe, FinishServes, WaitNames, Zenon DEF IoStep, Serves

-----------------------------------------------------------------------------
(* The executor and the host: what a clock leaves *)

LEMMA ChosenIsQueued ==
  ASSUME target.queue \subseteq Commands, target.queue # {}
  PROVE  Chosen \in target.queue
  <1> DEFINE order == <<"read", "write", "getfile", "openfile">>
             First(n) == order[n] \in target.queue
                         /\ \A m \in 1 .. n - 1 : order[m] \notin target.queue
  <1>1. /\ order[1] = "read" /\ order[2] = "write"
        /\ order[3] = "getfile" /\ order[4] = "openfile"
    BY SMT
  <1>2. \E n \in 1 .. 4 : First(n)
    <2>1. CASE "read" \in target.queue
      BY <1>1, <2>1, SMT
    <2>2. CASE "read" \notin target.queue /\ "write" \in target.queue
      BY <1>1, <2>2, SMT
    <2>3. CASE "read" \notin target.queue /\ "write" \notin target.queue
               /\ "getfile" \in target.queue
      BY <1>1, <2>3, SMT
    <2>4. CASE "read" \notin target.queue /\ "write" \notin target.queue
               /\ "getfile" \notin target.queue
      <3>1. "openfile" \in target.queue
        BY <2>4, SMT DEF Commands
      <3>2. \A m \in 1 .. 3 : order[m] \notin target.queue
        BY <1>1, <2>4, SMT
      <3> QED
        BY <1>1, <3>1, <3>2, SMT
    <2> QED
      BY <2>1, <2>2, <2>3, <2>4
  <1>3. First(CHOOSE n \in 1 .. 4 : First(n))
    BY <1>2
  <1> QED
    BY <1>3 DEF Chosen

\* A clock of the executor on strobe, with the slot on the wires.
Executes ==
  /\ target.state = "IDLE" /\ target.queue # {} =>
       /\ target'.state = "DATASLOTOP" /\ target'.cmd.slot = SlotOnWires
       /\ target'.cmd = [cmd |-> target'.cmd.cmd, slot |-> SlotOnWires]
       /\ target'.cmd.cmd \in target.queue
       /\ target'.queue = Queued(strobe) \ {target'.cmd.cmd}
       /\ (target'.done <=> target.done)
  /\ target.state = "IDLE" /\ target.queue = {} =>
       /\ target'.state = "IDLE" /\ target'.queue = Queued(strobe) /\ target'.cmd = target.cmd
       /\ (target'.done <=> target.done) /\ target'.result = target.result
  /\ target.state = "DATASLOTOP" =>
       /\ target'.state = "WAITRESULT" /\ target'.queue = Queued(strobe)
       /\ target'.cmd = target.cmd /\ ~target'.done
  /\ target.state = "WAITRESULT" /\ host.state = "ok" =>
       /\ target'.state = "IDLE" /\ target'.queue = Queued(strobe)
       /\ target'.cmd = target.cmd /\ target'.done /\ target'.result = host.result
       /\ host'.state = "idle"
  /\ target.state = "WAITRESULT" /\ host.state # "ok" =>
       /\ target'.state = "WAITRESULT" /\ target'.queue = Queued(strobe)
       /\ target'.cmd = target.cmd /\ (target'.done <=> target.done)
  /\ ~(target.state = "WAITRESULT" /\ host.state = "ok") => host' = host

LEMMA QueuedCommands ==
  ASSUME target \in Executor, strobe \in Commands \cup {"none"}
  PROVE  Queued(strobe) \in SUBSET Commands
  BY SMT DEF Executor, Queued

LEMMA SlotNames == \A o \in 0 .. 2 : SlotOf[o] \in {"META", "SAVE", "BACKUP"}
  BY SMT DEF SlotOf

LEMMA SlotWired ==
  ASSUME io \in Service
  PROVE  SlotOnWires \in Slots
  BY SlotNames, SMT DEF SlotOnWires, Service, Slots

LEMMA ClockExecutes ==
  ASSUME Types, TargetClock(strobe, SlotOnWires), HostRead
  PROVE  target' \in Executor /\ HostTypes' /\ Executes
  <1> DEFINE queue == Queued(strobe)
  <1>0. /\ queue \in SUBSET Commands /\ SlotOnWires \in Slots /\ 0 \in Nat
        /\ target \in Executor /\ HostTypes
    BY QueuedCommands, SlotWired DEF Types
  <1> HIDE DEF queue
  <1>1. CASE target.state = "IDLE" /\ target.queue # {}
    <2>1. target' = [target EXCEPT !.state = "DATASLOTOP",
                                   !.cmd = [cmd |-> Chosen, slot |-> SlotOnWires],
                                   !.queue = queue \ {Chosen}]
      BY <1>1, SMT DEF TargetClock, queue
    <2>2. Chosen \in target.queue /\ target.queue \subseteq Commands
      BY <1>0, <1>1, ChosenIsQueued, SMT DEF Executor
    <2>3. [cmd |-> Chosen, slot |-> SlotOnWires] \in [cmd : Commands \cup {"none"}, slot : Slots]
      BY <1>0, <2>2
    <2>4. target' \in Executor
      BY <1>0, <2>1, <2>3, Zenon DEF Executor
    <2>5. /\ target'.state = "DATASLOTOP" /\ target'.cmd = [cmd |-> Chosen, slot |-> SlotOnWires]
          /\ target'.queue = queue \ {Chosen} /\ target'.done = target.done
      BY <1>0, <2>1, SMT DEF Executor
    <2>6. host' = host
      BY <1>1 DEF HostRead
    <2> QED
      BY <1>0, <1>1, <2>2, <2>4, <2>5, <2>6, SMT DEF Executes, HostTypes, queue
  <1>2. CASE target.state = "DATASLOTOP"
    <2>1. target' = [target EXCEPT !.state = "WAITRESULT", !.done = FALSE, !.result = 0,
                                   !.queue = queue]
      BY <1>2, SMT DEF TargetClock, queue
    <2>2. target' \in Executor
      BY <1>0, <2>1, Zenon DEF Executor
    <2>3. /\ target'.state = "WAITRESULT" /\ target'.cmd = target.cmd /\ ~target'.done
          /\ target'.queue = queue
      BY <1>0, <2>1, SMT DEF Executor
    <2>4. host' = host
      BY <1>2 DEF HostRead
    <2> QED
      BY <1>0, <1>2, <2>2, <2>3, <2>4, SMT DEF Executes, HostTypes, queue
  <1>3. CASE target.state = "WAITRESULT" /\ host.state = "ok"
    <2>1. target' = [target EXCEPT !.state = "IDLE", !.done = TRUE, !.result = host.result,
                                   !.queue = queue]
      BY <1>3, SMT DEF TargetClock, queue
    <2>2. target' \in Executor
      BY <1>0, <2>1, Zenon DEF Executor, HostTypes
    <2>3. /\ target'.state = "IDLE" /\ target'.cmd = target.cmd /\ target'.done
          /\ target'.queue = queue /\ target'.result = host.result
      BY <1>0, <2>1, SMT DEF Executor
    <2>4. host' = [state |-> "idle", send |-> <<>>, result |-> 0]
      BY <1>3 DEF HostRead, HostIdle
    <2>5. HostTypes'
      BY <1>0, <2>4, SMT DEF HostTypes
    <2> QED
      BY <1>0, <1>3, <2>2, <2>3, <2>4, <2>5, SMT DEF Executes, queue
  <1>4. CASE /\ ~(target.state = "IDLE" /\ target.queue # {}) /\ target.state # "DATASLOTOP"
             /\ ~(target.state = "WAITRESULT" /\ host.state = "ok")
    <2>1. target' = [target EXCEPT !.queue = queue]
      BY <1>4, SMT DEF TargetClock, queue
    <2>2. target' \in Executor
      BY <1>0, <2>1, Zenon DEF Executor
    <2>3. /\ target'.state = target.state /\ target'.cmd = target.cmd
          /\ target'.done = target.done /\ target'.queue = queue
          /\ target'.result = target.result
      BY <1>0, <2>1, SMT DEF Executor
    <2>4. host' = host
      BY <1>4 DEF HostRead
    <2> QED
      BY <1>0, <1>4, <2>2, <2>3, <2>4, SMT DEF Executes, HostTypes, queue
  <1> QED
    BY <1>1, <1>2, <1>3, <1>4

LEMMA SendKeeps ==
  ASSUME HostTypes, host' = [host EXCEPT !.send = Tail(@)]
  PROVE  /\ DOMAIN host' = {"state", "send", "result"}
         /\ host' = [x \in DOMAIN host' |-> host'[x]]
         /\ host'.state = host.state /\ host'.result = host.result
  <1>1. DOMAIN host' = {"state", "send", "result"} /\ host' = [x \in DOMAIN host' |-> host'[x]]
    BY Zenon DEF HostTypes
  <1> QED
    BY <1>1, SMT DEF HostTypes

LEMMA SetsFiles ==
  ASSUME NEW a \in Card, NEW f, NEW e, e = [a EXCEPT !.files = f]
  PROVE  e.files = f /\ e.bound = a.bound
  BY SMT DEF Card

LEMMA CardOpens ==
  ASSUME card \in Card, NEW b \in BoundNames,
         NEW n \in Indices, NEW c \in Contents,
         card' = [card EXCEPT !.bound = b, !.files[n] = c]
  PROVE  /\ card' \in Card /\ card'.bound = b /\ card'.files[n] = c
         /\ \A i \in Indices : i # n => card'.files[i] = card.files[i]
  <1> DEFINE f == [card.files EXCEPT ![n] = c]
  <1>1. /\ f \in [Indices -> Contents] /\ f[n] = c
        /\ \A i \in Indices : i # n => f[i] = card.files[i]
    BY SMT DEF Card
  <1>2. card' = [card EXCEPT !.bound = b, !.files = f]
    BY SMT DEF Card
  <1> HIDE DEF f
  <1>3. card' \in Card
    BY <1>1, <1>2, Zenon DEF Card
  <1>4. card'.bound = b /\ card'.files = f
    <2> DEFINE d == [card EXCEPT !.bound = b]
    <2>1. d \in Card
      BY Zenon DEF Card
    <2>2. d.bound = b
      BY SMT DEF Card
    <2>3. card' = [d EXCEPT !.files = f]
      BY <1>2
    <2> HIDE DEF d
    <2>4. PICK e : e = card'
      OBVIOUS
    <2>5. e = [d EXCEPT !.files = f]
      BY <2>3, <2>4
    <2>6. e.files = f /\ e.bound = d.bound
      BY ONLY <2>1, <2>5, SetsFiles
    <2> QED
      BY <2>2, <2>4, <2>6
  <1> QED
    BY <1>1, <1>3, <1>4

LEMMA CardWrites ==
  ASSUME card \in Card, NEW n \in Indices, NEW c \in Contents,
         card' = [card EXCEPT !.files[n] = c]
  PROVE  /\ card' \in Card /\ card'.bound = card.bound /\ card'.files[n] = c
         /\ \A i \in Indices : i # n => card'.files[i] = card.files[i]
  <1> DEFINE f == [card.files EXCEPT ![n] = c]
  <1>1. /\ f \in [Indices -> Contents] /\ f[n] = c
        /\ \A i \in Indices : i # n => f[i] = card.files[i]
    BY SMT DEF Card
  <1>2. card' = [card EXCEPT !.files = f]
    BY SMT DEF Card
  <1> HIDE DEF f
  <1>3. card' \in Card
    BY <1>1, <1>2, Zenon DEF Card
  <1>4. card'.bound = card.bound /\ card'.files = f
    BY <1>2, SMT DEF Card
  <1> QED
    BY <1>1, <1>3, <1>4

\* A word on the bridge counts only in the wait it belongs to.
WordCounts ==
  /\ host.state = "working" /\ host'.state = "working" /\ host'.result = host.result
  /\ io'.state = io.state /\ Holds /\ (io'.saw <=> io.saw) /\ (io'.create <=> io.create)
  /\ (io'.failed <=> io.failed)
  /\ io'.received = io.received \/ (io.state = "READ_WAIT" /\ target.cmd.cmd = "read")

LEMMA WordKeeps ==
  ASSUME Types, WordArrives
  PROVE  io' \in Service /\ HostTypes' /\ WordCounts
  <1>1. io \in Service /\ HostTypes /\ target' = target
    BY DEF Types, WordArrives
  <1>2. host.state = "working" /\ host' = [host EXCEPT !.send = Tail(@)]
    BY DEF WordArrives, HostSends
  <1>3. HostTypes' /\ host'.state = "working" /\ host'.result = host.result
    BY <1>1, <1>2, SendKeeps, SMT DEF HostTypes
  <1>4. CASE io.state = "NAME_WAIT" /\ NameArrives
    <2>1. io' \in Service
      <3>1. 1 \in 0 .. 1
        BY SMT
      <3>2. CASE io' = [io EXCEPT !.names = 1, !.pathBad = Head(host.send) # Path]
        BY <1>1, <3>1, <3>2, Zenon DEF Service
      <3>3. CASE io' = [io EXCEPT !.nameBad = TRUE]
        BY <1>1, <3>3, Zenon DEF Service
      <3> QED
        BY <1>4, <3>2, <3>3 DEF NameArrives
    <2>2. /\ io'.state = io.state /\ io'.op = io.op /\ io'.index = io.index
          /\ io'.checking = io.checking /\ io'.saw = io.saw /\ io'.create = io.create
          /\ io'.failed = io.failed /\ io'.received = io.received
      BY <1>1, <1>4, SMT DEF NameArrives, Service
    <2> QED
      BY <1>2, <1>3, <2>1, <2>2 DEF WordCounts, Holds
  <1>5. CASE target.cmd.cmd = "read" /\ io.state = "READ_WAIT" /\ DataArrives
    <2>1. io' \in Service
      <3>1. CASE WordInOrder
        <4>1. io.received + 1 \in 0 .. Words
          BY <1>1, <3>1, TargetAssumption, SMT DEF WordInOrder, Service
        <4>2. io' = [io EXCEPT !.received = @ + 1]
          BY <1>5, <3>1 DEF DataArrives
        <4> QED
          BY <1>1, <4>1, <4>2, Zenon DEF Service
      <3>2. CASE ~WordInOrder
        <4>1. io' = [io EXCEPT !.receiveBad = TRUE]
          BY <1>5, <3>2 DEF DataArrives
        <4> QED
          BY <1>1, <4>1, Zenon DEF Service
      <3> QED
        BY <3>1, <3>2
    <2>2. /\ io'.state = io.state /\ io'.op = io.op /\ io'.index = io.index
          /\ io'.checking = io.checking /\ io'.saw = io.saw /\ io'.create = io.create
          /\ io'.failed = io.failed
      BY <1>1, <1>5, SMT DEF DataArrives, Service
    <2> QED
      BY <1>2, <1>3, <1>5, <2>1, <2>2 DEF WordCounts, Holds
  <1>6. CASE io' = io
    BY <1>1, <1>2, <1>3, <1>6 DEF WordCounts, Holds
  <1> QED
    BY <1>4, <1>5, <1>6, Zenon DEF WordArrives

\* What the host does to the card when it takes a command.
TakesCommand ==
  /\ target.state = "WAITRESULT" /\ host.state = "idle" /\ host'.state = "working"
  /\ \/ card' = card /\ host'.result # 1
     \/ /\ target.cmd.cmd = "openfile" /\ target.cmd.slot # "DUMP"
        /\ card'.bound = Recovery(io.index)
        /\ \/ card'.files = card.files /\ host'.result # 1
           \/ /\ card.files[io.index] = Absent
              /\ \A i \in Indices : i # io.index => card'.files[i] = card.files[i]
              /\ host'.result = 1 => card'.files[io.index] = Fresh
     \/ /\ target.cmd.cmd = "write" /\ target.cmd.slot # "DUMP"
        /\ card.bound # NoName /\ card'.bound = card.bound /\ host'.result # 1
        /\ \A i \in Indices : i # card.bound[2] => card'.files[i] = card.files[i]

LEMMA WorkingTypes ==
  ASSUME HostTypes, target.state = "WAITRESULT", target' = target, NEW w, NEW r \in Nat,
         Working(w, r)
  PROVE  HostTypes' /\ host'.state = "working" /\ host'.result = r
  <1>1. host' = [state |-> "working", send |-> w, result |-> r]
    BY DEF Working
  <1> QED
    BY <1>1, SMT DEF HostTypes

LEMMA HostTakesKeeps ==
  ASSUME Types, HostTakes(Struct, image)
  PROVE  card' \in Card /\ HostTypes' /\ TakesCommand
  <1>0. /\ card \in Card /\ HostTypes /\ image \in Images /\ io.index \in Indices
        /\ target.state = "WAITRESULT" /\ host.state = "idle" /\ target' = target
        /\ Struct.index = io.index /\ (Struct.create <=> io.create)
    BY DEF Types, Service, HostTakes, Struct
  <1>1. ASSUME card' = card, NEW w, NEW r \in Nat, r # 1, Working(w, r)
        PROVE  card' \in Card /\ HostTypes' /\ TakesCommand
    BY <1>0, <1>1, WorkingTypes DEF TakesCommand
  <1>a. 0 \in Nat /\ 3 \in Nat /\ 5 \in Nat /\ 1 \in Nat /\ 0 # 1 /\ 3 # 1 /\ 5 # 1
    BY SMT
  <1>2. CASE HostRefuses \/ (Working(<<>>, 0) /\ UNCHANGED card)
    BY <1>1, <1>2, <1>a DEF HostRefuses
  <1>3. CASE HostSendsName(target.cmd.slot)
    BY <1>1, <1>3, <1>a DEF HostSendsName
  <1>4. CASE HostReadsFile(target.cmd.slot)
    BY <1>1, <1>4, <1>a DEF HostReadsFile
  <1>b. Recovery(io.index) \in BoundNames /\ Fresh \in Contents /\ Others \in Contents
    BY <1>0 DEF BoundNames, Contents
  <1>5. ASSUME NEW c \in Contents, NEW r \in Nat, card.files[io.index] = Absent,
               r = 1 => c = Fresh, Working(<<>>, r),
               card' = [card EXCEPT !.bound = Recovery(io.index), !.files[io.index] = c],
               target.cmd.slot # "DUMP", target.cmd.cmd = "openfile"
        PROVE  card' \in Card /\ HostTypes' /\ TakesCommand
    <2>1. /\ card' \in Card /\ card'.bound = Recovery(io.index) /\ card'.files[io.index] = c
          /\ \A i \in Indices : i # io.index => card'.files[i] = card.files[i]
      <3>1. card' = [card EXCEPT !.bound = Recovery(io.index), !.files[io.index] = c]
        BY <1>5
      <3>2. card \in Card
        BY <1>0
      <3>3. PICK b \in BoundNames : b = Recovery(io.index)
        BY <1>b
      <3>4. PICK n \in Indices : n = io.index
        BY <1>0
      <3>5. card' = [card EXCEPT !.bound = b, !.files[n] = c]
        BY <3>1, <3>3, <3>4
      <3>6. /\ card' \in Card /\ card'.bound = b /\ card'.files[n] = c
            /\ \A i \in Indices : i # n => card'.files[i] = card.files[i]
        BY <3>2, <3>5, CardOpens, Zenon
      <3> QED
        BY <3>3, <3>4, <3>6
    <2>2. HostTypes' /\ host'.state = "working" /\ host'.result = r
      BY <1>0, <1>5, WorkingTypes
    <2> QED
      BY <1>0, <1>5, <2>1, <2>2 DEF TakesCommand
  <1>6. CASE HostOpensRaced(Struct) /\ target.cmd.slot # "DUMP" /\ target.cmd.cmd = "openfile"
    BY <1>0, <1>5, <1>6, <1>a, <1>b DEF HostOpensRaced
  <1>7. CASE HostOpens(Struct) /\ target.cmd.slot # "DUMP" /\ target.cmd.cmd = "openfile"
    <2>1. CASE card.files[io.index] = Absent /\ ~io.create
      BY <1>0, <1>1, <1>7, <1>a, <2>1 DEF HostOpens
    <2>2. CASE card.files[io.index] = Absent /\ io.create
      BY <1>0, <1>5, <1>7, <1>a, <1>b, <2>2 DEF HostOpens
    <2>3. CASE card.files[io.index] # Absent
      <3>1. PICK c \in Contents : c = card.files[io.index]
        BY <1>0 DEF Card
      <3>2. card' = [card EXCEPT !.bound = Recovery(io.index), !.files[io.index] = c]
        BY <1>0, <1>7, <2>3, <3>1, SMT DEF HostOpens, Card
      <3>a. /\ card' \in Card /\ card'.bound = Recovery(io.index) /\ card'.files[io.index] = c
            /\ \A i \in Indices : i # io.index => card'.files[i] = card.files[i]
        <4>1. card \in Card /\ io.index \in Indices
          BY <1>0
        <4>2. c \in Contents
          BY <3>1
        <4>3. PICK b \in BoundNames : b = Recovery(io.index)
          BY <1>b
        <4>4. PICK n \in Indices : n = io.index
          BY <1>0
        <4>5. card' = [card EXCEPT !.bound = b, !.files[n] = c]
          BY <3>2, <4>3, <4>4
        <4>6. /\ card' \in Card /\ card'.bound = b /\ card'.files[n] = c
              /\ \A i \in Indices : i # n => card'.files[i] = card.files[i]
          BY <4>1, <4>2, <4>5, CardOpens, Zenon
        <4> QED
          BY <4>3, <4>4, <4>6
      <3>3. /\ card' \in Card /\ card'.bound = Recovery(io.index)
            /\ \A i \in Indices : card'.files[i] = card.files[i]
        BY <3>1, <3>a
      <3>4. card'.files = card.files
        BY <1>0, <3>3 DEF Card
      <3>5. HostTypes' /\ host'.state = "working" /\ host'.result = 0
        BY <1>0, <1>7, <1>a, <2>3, WorkingTypes DEF HostOpens
      <3> QED
        BY <1>0, <1>7, <1>a, <3>3, <3>4, <3>5 DEF TakesCommand
    <2> QED
      BY <2>1, <2>2, <2>3, <1>0 DEF Service
  <1>8. CASE HostWrites(image) /\ target.cmd.slot # "DUMP" /\ target.cmd.cmd = "write"
    <2>1. CASE /\ card.bound # NoName /\ card' = [card EXCEPT !.files[BoundFile] = image]
               /\ Working(<<>>, 0)
      <3>1. card.bound \in {Recovery(i) : i \in Indices}
        BY <1>0, <2>1 DEF Card, BoundNames
      <3>2. PICK n \in Indices : card.bound = Recovery(n)
        BY <3>1
      <3>3. BoundFile = n /\ card.bound[2] = n
        BY <3>2 DEF BoundFile, Recovery
      <3>4. card' = [card EXCEPT !.files[n] = image]
        BY <2>1, <3>3
      <3>5. /\ card' \in Card /\ card'.bound = card.bound
            /\ \A i \in Indices : i # n => card'.files[i] = card.files[i]
        <4>1. image \in Contents
          BY <1>0 DEF Contents
        <4> QED
          BY <1>0, <3>4, <4>1, CardWrites, Zenon
      <3>6. HostTypes' /\ host'.state = "working" /\ host'.result = 0
        BY <1>0, <1>a, <2>1, WorkingTypes
      <3> QED
        BY <1>0, <1>8, <1>a, <2>1, <3>3, <3>5, <3>6 DEF TakesCommand
    <2>2. CASE card' = card /\ (Working(<<>>, 0) \/ Working(<<>>, 5))
      BY <1>1, <1>a, <2>2
    <2> QED
      BY <1>8, <2>1, <2>2 DEF HostWrites, IsBound
  <1> QED
    BY <1>2, <1>3, <1>4, <1>6, <1>7, <1>8, Zenon DEF HostTakes

LEMMA AnswerKeeps ==
  ASSUME Types, HostAnswers
  PROVE  /\ HostTypes' /\ host.state = "working" /\ host'.state = "ok"
         /\ host'.result = host.result
  <1>1. HostTypes /\ host' = [host EXCEPT !.state = "ok"] /\ target' = target
        /\ host.state = "working"
    BY DEF Types, HostAnswers
  <1>2. DOMAIN host' = {"state", "send", "result"} /\ host' = [x \in DOMAIN host' |-> host'[x]]
    BY <1>1, Zenon DEF HostTypes
  <1> QED
    BY <1>1, <1>2, SMT DEF HostTypes

-----------------------------------------------------------------------------
(* A clock of the service and the executor *)

\* The engine asks for the next file only after the one before it is there.
AsksNext ==
  /\ io.state # "FINISH" => nextOp' = nextOp
  /\ nextOp' = 0 \/ nextOp' = nextOp \/ ~io.failed

Clocked == Types /\ Types' /\ Serves /\ Executes /\ card' = card /\ AsksNext

LEMMA ClockServes ==
  ASSUME Types, NEW expired, IoClock(expired)
  PROVE  Clocked
  <1>1. /\ io \in Service /\ target \in Executor /\ card \in Card
        /\ poisoned \in BOOLEAN /\ nextOp \in 0 .. 2 /\ image \in Images
    BY DEF Types
  <1>2. target' \in Executor /\ HostTypes' /\ Executes /\ card' = card
    BY ClockExecutes DEF IoClock
  <1>3. io' \in Service /\ Serves /\ AsksNext /\ nextOp' \in 0 .. 2 /\ image' \in Images
    <2>1. CASE IoStep(expired) /\ OpContinues
      <3>1. io' \in Service /\ Serves
        BY <1>1, <2>1, StepServes
      <3>2. /\ io.state # "FINISH" => nextOp' = nextOp
            /\ io.state = "FINISH" /\ (io.failed \/ io.op = 2) => nextOp' = 0
            /\ io.state = "FINISH" /\ ~(io.failed \/ io.op = 2) => nextOp' = io.op + 1
        BY <1>1, <2>1, SMT DEF OpContinues, Service
      <3>3. nextOp' \in 0 .. 2 /\ AsksNext
        BY <1>1, <3>2, SMT DEF AsksNext, Service
      <3> QED
        BY <1>1, <2>1, <3>1, <3>3 DEF OpContinues
    <2>2. CASE \E op \in {0, nextOp} : Requested(op)
      <3>1. PICK op \in {0, nextOp} : Requested(op)
        BY <2>2
      <3>2. op \in 0 .. 2
        BY <1>1, <3>1, SMT
      <3>3. io' \in Service /\ Starts
        BY <1>1, <3>1, <3>2, StartServes DEF Requested
      <3>4. image' \in Images /\ nextOp' = nextOp
        BY <1>1, <3>1 DEF Requested
      <3> QED
        BY <1>1, <3>3, <3>4 DEF AsksNext, Serves
    <2>3. CASE Resting /\ poisoned' = poisoned
      BY <1>1, <2>3 DEF Resting, AsksNext, Serves, MovesOn, Holds
    <2> QED
      BY <2>1, <2>2, <2>3 DEF IoClock, Resting
  <1>4. poisoned' \in BOOLEAN /\ strobe' \in Commands \cup {"none"}
    BY <1>1, <1>3, AwaitedCommands
       DEF Serves, AsksFor, WaitsOn, GivesUp, Hears, MovesOn, Checks, Starts
  <1> QED
    BY <1>2, <1>3, <1>4 DEF Clocked, Types

LEMMA NotWaiting ==
  /\ \A w \in Waits : GivenIn[w] \notin Waits \cup {"IDLE", "FINISH"}
  /\ \A s \in {"IDLE", "NAME", "NAME_CHECK", "OPEN", "ID_CHECK", "READ", "PROBE", "CREATE",
               "WRITE", "FINISH"} : s \notin Waits
  BY WaitNames, SMT DEF GivenIn

\* Nothing strobed, nothing queued.
LEMMA QuietClock ==
  ASSUME Clocked, Quiet
  PROVE  /\ target.state = "IDLE" => target'.state = "IDLE" /\ target'.cmd = target.cmd
         /\ target'.queue = {}
  <1>1. Queued(strobe) = {}
    BY DEF Quiet, Queued
  <1> QED
    BY <1>1, SMT DEF Clocked, Executes, Quiet, Types, Executor

\* An answer heard in step is the one to the command given.
LEMMA HeardInStep ==
  ASSUME InStep, io.state \in Waits, Answered
  PROVE  Quiet /\ target.state = "IDLE" /\ target.cmd = OwnCommand
  BY AwaitedCommands, SMT DEF InStep, OnTheWay, Answered

LEMMA InStepClock ==
  ASSUME Clocked, InStep
  PROVE  InStep' \/ poisoned'
  <1>1. CASE \E w \in Waits : AsksFor(w)
    <2>1. PICK w \in Waits : AsksFor(w)
      BY <1>1
    <2>2. Quiet /\ target.state = "IDLE"
      BY <2>1, NotWaiting DEF AsksFor, InStep
    <2>3. target'.queue = {} /\ target'.state = "IDLE"
      BY <2>2, QuietClock
    <2> QED
      BY <2>1, <2>3 DEF AsksFor, InStep, OnTheWay
  <1>2. CASE WaitsOn
    <2>1. OnTheWay /\ io.state \in Waits /\ strobe' = "none" /\ OwnCommand' = OwnCommand
      BY <1>2 DEF InStep, WaitsOn, OwnCommand, Holds
    <2>2. Awaits[io.state] \in Commands /\ Awaits[io.state] # "none"
      BY <2>1, AwaitedCommands
    <2>3. io'.state = io.state /\ (io'.saw <=> (io.saw \/ ~target.done))
      BY <1>2 DEF WaitsOn
    <2> SUFFICES OnTheWay'
      BY <2>1, <2>3 DEF InStep
    <2>4. CASE strobe = Awaits[io.state] /\ target.queue = {} /\ target.state = "IDLE" /\ ~io.saw
      <3>1. Queued(strobe) = {Awaits[io.state]}
        BY <2>2, <2>4 DEF Queued
      <3>2. /\ target'.state = "IDLE" /\ target'.queue = {Awaits[io.state]}
            /\ (target'.done <=> target.done)
        BY <2>4, <3>1 DEF Clocked, Executes
      <3> QED
        BY <2>1, <2>3, <2>4, <3>2 DEF OnTheWay
    <2>5. CASE strobe = "none" /\ target.queue = {Awaits[io.state]} /\ target.state = "IDLE"
               /\ (io.saw => ~target.done)
      <3>1. Queued(strobe) = {Awaits[io.state]}
        BY <2>5 DEF Queued
      <3>2. /\ target'.state = "DATASLOTOP" /\ target'.cmd.cmd = Awaits[io.state]
            /\ target'.cmd = [cmd |-> target'.cmd.cmd, slot |-> SlotOnWires]
            /\ target'.queue = {} /\ (target'.done <=> target.done)
        BY <2>5, <3>1 DEF Clocked, Executes
      <3>3. SlotOnWires = SlotOf[io.op]
        BY <2>1, NotWaiting DEF SlotOnWires, IoBusy
      <3> QED
        BY <2>1, <2>3, <2>5, <3>2, <3>3 DEF OnTheWay, OwnCommand, Quiet
    <2>6. CASE Quiet /\ target.state = "DATASLOTOP" /\ target.cmd = OwnCommand
      <3>1. target'.queue = {}
        BY <2>6, QuietClock
      <3>2. target'.state = "WAITRESULT" /\ target'.cmd = target.cmd /\ ~target'.done
        BY <2>6 DEF Clocked, Executes
      <3> QED
        BY <2>1, <2>6, <3>1, <3>2 DEF OnTheWay, Quiet
    <2>7. CASE Quiet /\ target.state = "WAITRESULT" /\ target.cmd = OwnCommand /\ ~target.done
      <3>1. target'.queue = {}
        BY <2>7, QuietClock
      <3>2. target'.cmd = target.cmd
            /\ ((target'.state = "IDLE" /\ target'.done)
                \/ (target'.state = "WAITRESULT" /\ ~target'.done))
        BY <2>7 DEF Clocked, Executes
      <3> QED
        BY <2>1, <2>3, <2>7, <3>1, <3>2 DEF OnTheWay, Quiet
    <2> QED
      BY <1>2, <2>1, <2>4, <2>5, <2>6, <2>7 DEF OnTheWay, WaitsOn, Answered
  <1>3. CASE GivesUp
    BY <1>3 DEF GivesUp
  <1>4. CASE Hears
    <2>1. Quiet /\ target.state = "IDLE"
      BY <1>4, HeardInStep DEF Hears
    <2>2. target'.queue = {} /\ target'.state = "IDLE"
      BY <2>1, QuietClock
    <2>3. io'.state \notin Waits /\ strobe' = "none"
      BY <1>4, NotWaiting, SMT DEF Hears
    <2> QED
      BY <2>2, <2>3 DEF InStep, Quiet
  <1>5. CASE MovesOn \/ Checks \/ Starts
    <2>1. io.state \notin Waits /\ io'.state \notin Waits /\ strobe' = "none"
      BY <1>5, NotWaiting, SMT DEF MovesOn, Checks, Starts, Clocked, Types
    <2>2. target'.queue = {} /\ target'.state = "IDLE"
      BY <2>1, QuietClock DEF InStep
    <2> QED
      BY <2>1, <2>2 DEF InStep, Quiet
  <1> QED
    BY <1>1, <1>2, <1>3, <1>4, <1>5 DEF Clocked, Serves

\* A service that is behind gets the answer to its last command, drops what it
\* was about, and is in step again when nothing more is on the way.
LEMMA BehindClock ==
  ASSUME Clocked, Behind, ~poisoned
  PROVE  InStep' \/ Behind' \/ poisoned'
  <1>0. /\ io.op = 0 /\ nextOp = 0 /\ ~io.checking
        /\ target.state # "IDLE" =>
             target.cmd.cmd \in {"getfile", "read"} \/ target.cmd.slot = "DUMP"
    BY DEF Behind
  <1>a. /\ target.state \in {"IDLE", "DATASLOTOP", "WAITRESULT"} /\ io \in Service
        /\ (poisoned' \in BOOLEAN) /\ io' \in Service
    BY DEF Clocked, Types, Executor
  <1>1. CASE BehindElsewhere
    <2>1. /\ Quiet /\ target.state # "IDLE" /\ io.state \notin Waits
          /\ io.state \in {"IDLE", "NAME", "NAME_CHECK", "ID_CHECK", "READ", "FINISH"}
          /\ target.state = "DATASLOTOP" => io.state \in {"NAME_CHECK", "FINISH"}
          /\ target.state = "WAITRESULT" => ~target.done
          /\ io.state \in {"NAME_CHECK", "ID_CHECK", "READ"} => target.cmd.cmd = "getfile"
          /\ io.state = "FINISH" => io.failed
      BY <1>1, NotWaiting, SMT DEF BehindElsewhere
    <2>2. target'.queue = {} /\ target'.cmd = target.cmd
      BY <1>a, <2>1, QuietClock, SMT DEF Clocked, Executes
    <2>3. \/ target.state = "DATASLOTOP" /\ target'.state = "WAITRESULT" /\ ~target'.done
          \/ target.state = "WAITRESULT" /\ target'.state = "WAITRESULT" /\ ~target'.done
          \/ target.state = "WAITRESULT" /\ target'.state = "IDLE" /\ target'.done
      BY <1>a, <2>1 DEF Clocked, Executes
    <2>4. CASE \E w \in Waits : AsksFor(w)
      <3>1. PICK w \in Waits : AsksFor(w)
        BY <2>4
      <3>2. \/ w = "NAME_WAIT" /\ io.state = "NAME"
            \/ w = "READ_WAIT" /\ io.state = "READ"
        BY <2>1, <3>1, WaitNames, SMT DEF AsksFor, GivenIn
      <3>3. /\ io'.state = w /\ strobe' = Awaits[w] /\ ~io'.saw /\ io'.op = 0 /\ ~io'.checking
            /\ nextOp' = 0 /\ (w = "READ_WAIT" => io'.received = 0)
        BY <1>0, <3>1, <3>2 DEF AsksFor, Holds, Clocked, AsksNext
      <3>4. CASE target'.state = "IDLE"
        BY <2>2, <3>1, <3>3, <3>4 DEF InStep, OnTheWay
      <3>5. CASE target'.state = "WAITRESULT"
        <4>1. BehindWaiting'
          BY <2>1, <2>2, <2>3, <3>2, <3>3, <3>5 DEF BehindWaiting
        <4> QED
          BY <1>0, <2>1, <2>2, <3>3, <4>1 DEF Behind
      <3> QED
        BY <2>3, <3>4, <3>5
    <2>5. CASE MovesOn \/ Checks \/ Starts
      <3>1. /\ strobe' = "none" /\ io'.op = 0 /\ ~io'.checking
            /\ io'.state \in {"IDLE", "NAME", "NAME_CHECK", "ID_CHECK", "READ", "FINISH"}
        BY <1>0, <2>1, <2>5, SMT DEF MovesOn, Checks, Starts, Holds
      <3>2. /\ io'.state = "FINISH" => io'.failed
            /\ io'.state \in {"NAME_CHECK", "ID_CHECK", "READ"} =>
                 io.state \in {"NAME_CHECK", "ID_CHECK"}
        BY <1>0, <2>1, <2>5, SMT DEF MovesOn, Checks, Starts, Holds
      <3>3. nextOp' = 0
        BY <1>0, <2>1 DEF Clocked, AsksNext
      <3>4. CASE target'.state = "IDLE"
        BY <2>2, <3>1, <3>4, NotWaiting DEF InStep, Quiet
      <3>5. CASE target'.state = "WAITRESULT"
        <4>1. BehindElsewhere'
          BY <2>1, <2>2, <2>3, <3>1, <3>2, <3>5, SMT DEF BehindElsewhere, Quiet
        <4> QED
          BY <1>0, <2>1, <2>2, <3>1, <3>3, <4>1 DEF Behind
      <3> QED
        BY <2>3, <3>4, <3>5
    <2> QED
      BY <2>1, <2>4, <2>5 DEF Clocked, Serves, WaitsOn, GivesUp, Hears
  <1>2. CASE BehindWaiting
    <2>1. /\ io.state \in {"NAME_WAIT", "READ_WAIT"} /\ io.state \in Waits
          /\ io.state = "READ_WAIT" => io.received = 0
          /\ Awaits[io.state] \in {"getfile", "read"} /\ Awaits[io.state] # "none"
          /\ io.state = "NAME_WAIT" => Awaits[io.state] = "getfile"
          /\ io.state # "FINISH"
      BY <1>2, WaitNames, SMT DEF BehindWaiting
    <2>2. nextOp' = 0
      BY <1>0, <2>1 DEF Clocked, AsksNext
    <2>3. WaitsOn \/ GivesUp \/ Hears
      BY <2>1, NotWaiting, SMT DEF Clocked, Serves, AsksFor, MovesOn, Checks, Starts
    <2>4. CASE /\ target.state = "WAITRESULT" /\ ~target.done
               /\ \/ strobe = Awaits[io.state] /\ target.queue = {}
                  \/ strobe = "none" /\ target.queue = {Awaits[io.state]}
               /\ io.state = "READ_WAIT" => target.cmd.cmd = "getfile"
      <3>1. ~Hears
        BY <2>4 DEF Hears, Answered
      <3>2. CASE WaitsOn
        <4>1. Queued(strobe) = {Awaits[io.state]}
          BY <2>1, <2>4 DEF Queued
        <4>2. /\ target'.queue = {Awaits[io.state]} /\ target'.cmd = target.cmd
              /\ \/ target'.state = "WAITRESULT" /\ ~target'.done
                 \/ target'.state = "IDLE" /\ target'.done
          BY <2>4, <4>1 DEF Clocked, Executes
        <4>3. /\ io'.state = io.state /\ io'.saw /\ strobe' = "none" /\ io'.op = 0 /\ ~io'.checking
              /\ io'.received = io.received
          BY <1>0, <2>4, <3>2 DEF WaitsOn, Holds
        <4>4. BehindWaiting'
          BY <2>1, <2>4, <4>2, <4>3 DEF BehindWaiting
        <4> QED
          BY <1>0, <2>2, <2>4, <4>2, <4>3, <4>4 DEF Behind
      <3> QED
        BY <2>3, <3>1, <3>2 DEF GivesUp
    <2>5. CASE target.state = "IDLE" /\ target.done /\ io.saw
               /\ strobe = "none" /\ target.queue = {Awaits[io.state]}
      <3>1. Hears
        BY <2>3, <2>5 DEF WaitsOn, GivesUp, Answered
      <3>2. Queued(strobe) = {Awaits[io.state]}
        BY <2>5 DEF Queued
      <3>3. /\ target'.state = "DATASLOTOP" /\ target'.cmd.cmd = Awaits[io.state]
            /\ target'.queue = {}
        BY <2>5, <3>2 DEF Clocked, Executes
      <3>4. /\ strobe' = "none" /\ io'.op = 0 /\ ~io'.checking
            /\ \/ io'.state = "FINISH" /\ io'.failed
               \/ io.state = "NAME_WAIT" /\ io'.state = "NAME_CHECK"
        BY <1>0, <2>1, <3>1, TargetAssumption, SMT DEF Hears, Holds
      <3>5. BehindElsewhere'
        BY <2>1, <3>3, <3>4, SMT DEF BehindElsewhere, Quiet
      <3> QED
        BY <2>1, <2>2, <3>3, <3>4, <3>5 DEF Behind
    <2> QED
      BY <1>2, <2>4, <2>5 DEF BehindWaiting
  <1> QED
    BY <1>1, <1>2 DEF Behind

\* At rest and at the end of an operation no command is given.
LEMMA RestServes ==
  ASSUME Serves, io.state \in {"IDLE", "FINISH"}
  PROVE  MovesOn \/ Starts
  BY NotWaiting, SMT DEF Serves, AsksFor, WaitsOn, GivesUp, Hears, MovesOn, Checks, Starts

LEMMA PipeClock ==
  ASSUME Clocked, PipeInv
  PROVE  PipeInv'
  <1>1. poisoned \in BOOLEAN /\ poisoned' \in BOOLEAN
    BY DEF Clocked, Types
  <1>2. CASE poisoned
    <2>1. io.state \in {"IDLE", "FINISH"} /\ (io.state = "FINISH" => io.failed)
      BY <1>2 DEF PipeInv, Poisoned
    <2>2. MovesOn \/ Starts
      BY <2>1, RestServes DEF Clocked
    <2> QED
      BY <1>2, <2>1, <2>2 DEF MovesOn, Starts, PipeInv, Poisoned
  <1>3. CASE ~poisoned /\ poisoned'
    <2>1. GivesUp
      BY <1>3 DEF Clocked, Serves, AsksFor, WaitsOn, Hears, MovesOn, Checks, Starts
    <2> QED
      BY <1>3, <2>1 DEF GivesUp, PipeInv, Poisoned
  <1>4. CASE ~poisoned /\ ~poisoned'
    BY <1>4, InStepClock, BehindClock DEF PipeInv
  <1> QED
    BY <1>1, <1>2, <1>3, <1>4

LEMMA OperationClock ==
  ASSUME Clocked, OperationInv
  PROVE  OperationInv'
  <1>1. CASE \E w \in Waits : AsksFor(w)
    BY <1>1, WaitNames, SMT DEF AsksFor, GivenIn, OperationInv, Holds
  <1>2. CASE WaitsOn \/ GivesUp
    BY <1>2, SMT DEF WaitsOn, GivesUp, OperationInv, Holds
  <1>3. CASE Hears
    BY <1>3, WaitNames, SMT DEF Hears, OperationInv, Holds
  <1>4. CASE MovesOn \/ Checks \/ Starts
    BY <1>4, SMT DEF MovesOn, Checks, Starts, OperationInv, Holds, Clocked, Types
  <1> QED
    BY <1>1, <1>2, <1>3, <1>4 DEF Clocked, Serves

LEMMA CreatedClock ==
  ASSUME Clocked, PipeInv, OperationInv, CreatedInv
  PROVE  CreatedInv'
  <1> SUFFICES ASSUME io'.state = "CREATE_WAIT"
      PROVE  /\ io'.create
             /\ (Quiet /\ target.state = "WAITRESULT" /\ host.state # "idle" /\ host.result = 1)' =>
                  NewFileBound'
             /\ (Quiet /\ target.state = "IDLE" /\ target.result = 1)' => NewFileBound'
    BY DEF CreatedInv
  <1>1. CASE \E w \in Waits : AsksFor(w)
    <2>1. AsksFor("CREATE_WAIT")
      BY <1>1 DEF AsksFor
    <2>2. strobe' # "none"
      BY <2>1, WaitNames, SMT DEF AsksFor
    <2> QED
      BY <2>1, <2>2 DEF AsksFor, Quiet
  <1>2. CASE WaitsOn
    <2>1. /\ io.state = "CREATE_WAIT" /\ ~Answered /\ io'.index = io.index /\ card' = card
          /\ (io'.create <=> io.create) /\ io.state \in Waits
      BY <1>2 DEF WaitsOn, Holds, Clocked
    <2>2. InStep /\ io.create
      BY <2>1, SMT DEF PipeInv, Poisoned, Behind, OperationInv, CreatedInv
    <2>3. OnTheWay
      BY <2>1, <2>2 DEF InStep
    <2>4. CASE Quiet /\ target.state = "WAITRESULT"
      <3>1. target.state = "WAITRESULT" /\ host.state = "ok" =>
              target'.state = "IDLE" /\ target'.result = host.result
        BY <2>4 DEF Clocked, Executes
      <3>2. target.state = "WAITRESULT" /\ host.state # "ok" =>
              target'.state = "WAITRESULT" /\ host' = host
        BY <2>4 DEF Clocked, Executes
      <3> QED
        BY <2>1, <2>2, <2>4, <3>1, <3>2 DEF CreatedInv, NewFileBound
    <2>5. CASE target.state = "DATASLOTOP"
      <3>1. target'.state = "WAITRESULT" /\ host' = host /\ host.state = "idle"
        BY <2>5 DEF Clocked, Executes, Types, HostTypes
      <3> QED
        BY <2>1, <2>2, <3>1
    <2>6. CASE target.state = "IDLE" /\ target.queue # {}
      <3>1. target'.state = "DATASLOTOP"
        BY <2>6 DEF Clocked, Executes
      <3> QED
        BY <2>1, <2>2, <3>1
    <2>7. CASE strobe = Awaits[io.state] /\ target.state = "IDLE" /\ target.queue = {}
      <3>1. target'.state = "IDLE" /\ target'.queue # {}
        BY <2>1, <2>7, AwaitedCommands DEF Clocked, Executes, Queued
      <3> QED
        BY <2>1, <2>2, <3>1 DEF Quiet
    <2> QED
      BY <2>1, <2>3, <2>4, <2>5, <2>6, <2>7 DEF OnTheWay, Answered
  <1>3. CASE GivesUp \/ Hears
    BY <1>3, SMT DEF GivesUp, Hears
  <1>4. CASE MovesOn \/ Checks \/ Starts
    BY <1>4, SMT DEF MovesOn, Checks, Starts
  <1> QED
    BY <1>1, <1>2, <1>3, <1>4 DEF Clocked, Serves

LEMMA CheckedClock ==
  ASSUME Clocked, PipeInv, OperationInv, CreatedInv, CheckedInv
  PROVE  CheckedInv'
  <1> DEFINE Checked == io.checking /\ io.state \in {"NAME", "NAME_WAIT", "NAME_CHECK", "ID_CHECK"}
  <1>0. /\ io.state = "WRITE" \/ Checked => NewFileBound
        /\ card' = card
    BY DEF CheckedInv, Clocked
  <1> SUFFICES io'.state = "WRITE" \/ Checked' => NewFileBound'
    BY DEF CheckedInv
  <1>1. CASE \E w \in Waits : AsksFor(w)
    BY <1>0, <1>1, WaitNames, SMT DEF AsksFor, GivenIn, Holds, NewFileBound
  <1>2. CASE WaitsOn \/ GivesUp
    BY <1>0, <1>2, WaitNames, SMT DEF WaitsOn, GivesUp, Holds, NewFileBound
  <1>3. CASE Hears /\ io.state = "CREATE_WAIT" /\ io'.state # "FINISH"
    <2>1. target.result = 1 /\ io'.index = io.index /\ io.state \in Waits /\ Answered
      BY <1>3 DEF Hears
    <2>2. InStep
      BY <1>3, SMT DEF PipeInv, Poisoned, Behind, OperationInv
    <2>3. NewFileBound
      BY <1>3, <2>1, <2>2, HeardInStep DEF CreatedInv
    <2> QED
      BY <1>0, <2>1, <2>3 DEF NewFileBound
  <1>4. CASE Hears /\ ~(io.state = "CREATE_WAIT" /\ io'.state # "FINISH")
    BY <1>0, <1>4, SMT DEF Hears, Holds, OperationInv, NewFileBound
  <1>5. CASE MovesOn \/ Checks \/ Starts
    BY <1>0, <1>5, SMT DEF MovesOn, Checks, Starts, Holds, NewFileBound, Clocked, Types
  <1> QED
    BY <1>1, <1>2, <1>3, <1>4, <1>5 DEF Clocked, Serves

LEMMA BehindWritesNothing == ASSUME Behind PROVE ~WriteToCome
  <1>1. Awaits["NAME_WAIT"] = "getfile" /\ Awaits["READ_WAIT"] = "read"
    BY WaitNames
  <1>2. strobe # "write" /\ "write" \notin target.queue
    BY <1>1, SMT DEF Behind, BehindWaiting, BehindElsewhere, Quiet
  <1> QED
    BY <1>2, SMT DEF Behind, WriteToCome

LEMMA WriteClock ==
  ASSUME Clocked, PipeInv, CheckedInv, WriteInv
  PROVE  WriteInv'
  <1>0. /\ card' = card /\ HostTypes /\ target.state \in {"IDLE", "DATASLOTOP", "WAITRESULT"}
    BY DEF Clocked, Types, Executor
  <1>1. CASE WriteToCome
    <2>1. /\ card.bound # NoName /\ card.files[card.bound[2]] = Fresh
          /\ target.state # "IDLE" => Quiet
          /\ strobe = "write" => target.queue = {}
          /\ strobe \in {"none", "write"} /\ target.queue \subseteq {"write"}
      BY <1>1 DEF WriteInv
    <2>2. strobe' = "none"
      <3>1. CASE \E w \in Waits : AsksFor(w)
        <4>1. io.state \notin Waits \cup {"IDLE", "FINISH"}
          BY <3>1, NotWaiting DEF AsksFor
        <4>2. InStep
          BY <1>1, <4>1, BehindWritesNothing DEF PipeInv, Poisoned
        <4> QED
          BY <1>1, <4>1, <4>2, SMT DEF InStep, WriteToCome, Quiet
      <3> QED
        BY <3>1 DEF Clocked, Serves, WaitsOn, GivesUp, Hears, MovesOn, Checks, Starts
    <2> SUFFICES (target'.state # "IDLE" => target'.queue = {}) /\ target'.queue \subseteq {"write"}
      BY <1>0, <2>1, <2>2 DEF WriteInv, Quiet
    <2>3. CASE target.state = "IDLE" /\ target.queue = {}
      <3>1. strobe = "write"
        BY <1>1, <2>3 DEF WriteToCome
      <3> QED
        BY <2>3, <3>1 DEF Clocked, Executes, Queued
    <2>4. CASE target.state = "IDLE" /\ target.queue # {}
      <3>1. target.queue = {"write"} /\ strobe = "none"
        BY <2>1, <2>4
      <3>2. target'.queue = {"write"} \ {target'.cmd.cmd} /\ target'.cmd.cmd \in {"write"}
        BY <2>4, <3>1 DEF Clocked, Executes, Queued
      <3> QED
        BY <3>2
    <2>5. CASE target.state # "IDLE"
      BY <2>1, <2>5, QuietClock
    <2> QED
      BY <2>3, <2>4, <2>5
  <1>2. CASE ~WriteToCome
    <2> SUFFICES ASSUME WriteToCome' PROVE WriteInv'
      BY DEF WriteInv
    <2>1. strobe' = "write"
      <3>1. Queued(strobe) \subseteq target.queue \cup {strobe} /\ "write" \notin Queued(strobe)
        BY <1>2 DEF Queued, WriteToCome
      <3>2. "write" \notin target'.queue
        BY <1>0, <3>1, SMT DEF Clocked, Executes
      <3>3. ASSUME target'.cmd.cmd = "write", target'.cmd.slot # "DUMP", target'.state # "IDLE",
                   host'.state = "idle"
            PROVE  FALSE
        <4>1. CASE target.state = "IDLE"
          BY <1>2, <3>3, <4>1 DEF Clocked, Executes, WriteToCome
        <4>2. CASE target.state = "DATASLOTOP"
          <5>1. target'.cmd = target.cmd /\ host.state = "idle"
            BY <1>0, <4>2 DEF Clocked, Executes, HostTypes
          <5> QED
            BY <1>2, <3>3, <4>2, <5>1 DEF WriteToCome
        <4>3. CASE target.state = "WAITRESULT"
          <5>1. target'.cmd = target.cmd /\ host.state = "idle"
            BY <3>3, <4>3 DEF Clocked, Executes
          <5> QED
            BY <1>2, <3>3, <4>3, <5>1 DEF WriteToCome
        <4> QED
          BY <1>0, <4>1, <4>2, <4>3
      <3> QED
        BY <3>2, <3>3 DEF WriteToCome
    <2>2. io.state = "WRITE"
      <3>1. PICK w \in Waits : AsksFor(w)
        BY <2>1 DEF Clocked, Serves, WaitsOn, GivesUp, Hears, MovesOn, Checks, Starts
      <3>2. w = "WRITE_WAIT"
        BY <2>1, <3>1, WaitNames, SMT DEF AsksFor
      <3> QED
        BY <3>1, <3>2, SMT DEF AsksFor, GivenIn
    <2>3. card.bound = Recovery(io.index) /\ card.files[io.index] = Fresh
      BY <2>2 DEF CheckedInv, NewFileBound
    <2>4. Quiet /\ target.state = "IDLE"
      <3>1. InStep
        BY <2>2, NotWaiting, SMT DEF PipeInv, Poisoned, Behind, BehindWaiting, BehindElsewhere
      <3> QED
        BY <2>2, <3>1, NotWaiting DEF InStep
    <2>5. target'.queue = {} /\ target'.state = "IDLE"
      BY <2>4, QuietClock
    <2>6. card.bound # NoName /\ card.bound[2] = io.index
      BY <2>3 DEF Recovery, NoName
    <2> QED
      BY <1>0, <2>1, <2>3, <2>5, <2>6 DEF WriteInv
  <1> QED
    BY <1>1, <1>2

-----------------------------------------------------------------------------
(* A step of the host *)

\* The host leaves the executor alone, and the service all but its counters.
HostSide ==
  /\ target' = target /\ strobe' = strobe /\ poisoned' = poisoned /\ nextOp' = nextOp
  /\ io'.state = io.state /\ Holds /\ (io'.saw <=> io.saw) /\ (io'.create <=> io.create)
  /\ (io'.failed <=> io.failed)
  /\ \/ io'.received = io.received
     \/ /\ io.state = "READ_WAIT" /\ target.cmd.cmd = "read"
        /\ target.state = "WAITRESULT"
  /\ \/ TakesCommand
     \/ host'.result = host.result /\ host.state = "working" /\ host'.state # "idle"
        /\ card' = card

LEMMA HostServes ==
  ASSUME Types, HostStep
  PROVE  Types' /\ HostSide
  <1>1. CASE WordArrives
    <2>1. io' \in Service /\ HostTypes' /\ WordCounts
      BY <1>1, WordKeeps
    <2>2. /\ target' = target /\ card' = card /\ poisoned' = poisoned /\ strobe' = strobe
          /\ image' = image /\ nextOp' = nextOp
      BY <1>1 DEF WordArrives
    <2>3. target.state = "WAITRESULT" /\ host'.state # "idle"
      BY <2>1 DEF WordCounts, Types, HostTypes
    <2> QED
      BY <2>1, <2>2, <2>3 DEF Types, HostSide, WordCounts
  <1>2. CASE HostTakes(Struct, image) /\ UNCHANGED <<ioVars, delivered, image, nextOp, ops>>
    <2>1. card' \in Card /\ HostTypes' /\ TakesCommand
      BY <1>2, HostTakesKeeps
    <2>2. target' = target
      BY <1>2 DEF HostTakes
    <2> QED
      BY <1>2, <2>1, <2>2 DEF Types, HostSide, Holds, ioVars
  <1>3. CASE HostAnswers /\ UNCHANGED <<ioVars, delivered, image, nextOp, ops>>
    <2>1. /\ HostTypes' /\ host.state = "working" /\ host'.state = "ok"
          /\ host'.result = host.result
      BY <1>3, AnswerKeeps
    <2>2. target' = target /\ card' = card
      BY <1>3 DEF HostAnswers
    <2> QED
      BY <1>3, <2>1, <2>2 DEF Types, HostSide, Holds, ioVars
  <1> QED
    BY <1>1, <1>2, <1>3 DEF HostStep

LEMMA InStepHost ==
  ASSUME HostSide, InStep
  PROVE  InStep'
  <1>1. OwnCommand' = OwnCommand
    BY DEF HostSide, Holds, OwnCommand
  <1> QED
    BY <1>1 DEF HostSide, InStep, OnTheWay, Quiet

LEMMA PipeHost ==
  ASSUME HostSide, PipeInv
  PROVE  PipeInv'
  <1>1. ASSUME Behind PROVE Behind'
    <2>1. io.state = "READ_WAIT" => io'.received = io.received
      BY <1>1, SMT DEF HostSide, Behind, BehindWaiting, BehindElsewhere
    <2>2. BehindWaiting => BehindWaiting'
      BY <2>1 DEF HostSide, BehindWaiting
    <2>3. BehindElsewhere => BehindElsewhere'
      BY DEF HostSide, BehindElsewhere, Quiet
    <2> QED
      BY <1>1, <2>2, <2>3 DEF HostSide, Behind, Holds
  <1>2. Poisoned => Poisoned'
    BY DEF HostSide, Poisoned
  <1> QED
    BY <1>1, <1>2, InStepHost DEF HostSide, PipeInv

LEMMA OperationHost ==
  ASSUME HostSide, OperationInv
  PROVE  OperationInv'
  BY DEF HostSide, OperationInv, Holds

\* While the service waits for a command in step, the host takes only that.
LEMMA TakenInStep ==
  ASSUME InStep, target.state = "WAITRESULT"
  PROVE  io.state \in Waits /\ target.cmd = OwnCommand
  BY SMT DEF InStep, OnTheWay

LEMMA CreatedHost ==
  ASSUME Types, HostSide, PipeInv, OperationInv, CreatedInv
  PROVE  CreatedInv'
  <1> SUFFICES ASSUME io'.state = "CREATE_WAIT"
      PROVE  /\ io'.create
             /\ (Quiet /\ target.state = "WAITRESULT" /\ host.state # "idle" /\ host.result = 1)' =>
                  NewFileBound'
             /\ (Quiet /\ target.state = "IDLE" /\ target.result = 1)' => NewFileBound'
    BY DEF CreatedInv
  <1>1. io.state = "CREATE_WAIT" /\ io'.create /\ io.create /\ io'.index = io.index
    BY DEF HostSide, Holds, CreatedInv
  <1>2. /\ Quiet /\ target.state = "WAITRESULT" /\ host.state # "idle" /\ host.result = 1 =>
             NewFileBound
        /\ Quiet /\ target.state = "IDLE" /\ target.result = 1 => NewFileBound
    BY <1>1 DEF CreatedInv
  <1>3. target' = target /\ strobe' = strobe
    BY DEF HostSide
  <1>4. CASE host'.result = host.result /\ host.state = "working" /\ card' = card
    BY <1>1, <1>2, <1>3, <1>4 DEF Quiet, NewFileBound
  <1>5. CASE TakesCommand
    <2>1. InStep
      BY <1>1, SMT DEF PipeInv, Poisoned, Behind, OperationInv
    <2>2. target.cmd.cmd = "openfile" /\ target.state = "WAITRESULT"
      BY <1>1, <1>5, <2>1, TakenInStep, WaitNames DEF TakesCommand, OwnCommand
    <2>3. host'.result = 1 => card'.bound = Recovery(io.index) /\ card'.files[io.index] = Fresh
      BY <1>5, <2>2 DEF TakesCommand
    <2> QED
      BY <1>1, <1>3, <2>2, <2>3 DEF NewFileBound
  <1> QED
    BY <1>4, <1>5 DEF HostSide

LEMMA CheckedHost ==
  ASSUME Types, HostSide, PipeInv, OperationInv, CheckedInv
  PROVE  CheckedInv'
  <1> DEFINE Checked == io.checking /\ io.state \in {"NAME", "NAME_WAIT", "NAME_CHECK", "ID_CHECK"}
  <1> SUFFICES ASSUME io.state = "WRITE" \/ Checked PROVE NewFileBound'
    BY DEF CheckedInv, HostSide, Holds
  <1>1. NewFileBound
    BY DEF CheckedInv
  <1>2. card' = card
    <2>1. InStep
      BY SMT DEF PipeInv, Poisoned, Behind, BehindWaiting, BehindElsewhere
    <2>2. CASE TakesCommand
      <3>1. target.state = "WAITRESULT" /\ io.state \in Waits /\ target.cmd = OwnCommand
        BY <2>1, <2>2, TakenInStep DEF TakesCommand
      <3>2. target.cmd.cmd = "getfile"
        BY <3>1, WaitNames, SMT DEF OwnCommand
      <3> QED
        BY <2>2, <3>2 DEF TakesCommand
    <2> QED
      BY <2>2 DEF HostSide
  <1> QED
    BY <1>1, <1>2 DEF HostSide, Holds, NewFileBound

LEMMA WriteHost ==
  ASSUME Types, HostSide, WriteInv
  PROVE  WriteInv'
  <1> SUFFICES ASSUME WriteToCome' PROVE WriteInv'
    BY DEF WriteInv
  <1>1. WriteToCome
    BY DEF HostSide, WriteToCome, TakesCommand
  <1>2. CASE TakesCommand
    <2>1. Quiet /\ host'.state = "working" /\ target.state = "WAITRESULT"
      BY <1>1, <1>2 DEF TakesCommand, WriteInv
    <2>2. ~WriteToCome'
      BY <2>1 DEF HostSide, WriteToCome, Quiet
    <2> QED
      BY <2>2
  <1>3. CASE card' = card
    BY <1>1, <1>3 DEF HostSide, WriteInv, Quiet
  <1> QED
    BY <1>2, <1>3 DEF HostSide

-----------------------------------------------------------------------------
(* The invariant *)

LEMMA StepKeeps ==
  ASSUME Inv, Next
  PROVE  Inv'
  <1>1. CASE \E expired \in BOOLEAN : IoClock(expired)
    BY <1>1, ClockServes, PipeClock, OperationClock, CreatedClock, CheckedClock, WriteClock
       DEF Inv, Clocked
  <1>2. CASE HostStep
    BY <1>2, HostServes, PipeHost, OperationHost, CreatedHost, CheckedHost, WriteHost DEF Inv
  <1> QED
    BY <1>1, <1>2 DEF Next

LEMMA StutterKeeps == ASSUME Inv, UNCHANGED vars PROVE Inv'
  <1>1. /\ io' = io /\ target' = target /\ host' = host /\ card' = card /\ poisoned' = poisoned
        /\ strobe' = strobe /\ image' = image /\ nextOp' = nextOp
    BY DEF vars, apfVars, ioVars
  <1>2. Types'
    BY <1>1 DEF Inv, Types, HostTypes
  <1>3. InStep' = InStep /\ Behind' = Behind
    BY <1>1 DEF InStep, OnTheWay, OwnCommand, Quiet, Behind, BehindWaiting, BehindElsewhere
  <1>4. PipeInv' /\ OperationInv'
    BY <1>1, <1>3 DEF Inv, PipeInv, Poisoned, OperationInv
  <1>5. CreatedInv' /\ CheckedInv'
    BY <1>1 DEF Inv, CreatedInv, CheckedInv, NewFileBound, Quiet
  <1>6. WriteInv'
    BY <1>1 DEF Inv, WriteInv, WriteToCome, Quiet
  <1> QED
    BY <1>2, <1>4, <1>5, <1>6 DEF Inv


LEMMA InitKeeps == Init => Inv
  <1> SUFFICES ASSUME Init PROVE Inv
    OBVIOUS
  <1>1. /\ io = [state |-> "IDLE", op |-> 0, index |-> 0, create |-> FALSE, owned |-> FALSE,
                 checking |-> FALSE, saw |-> FALSE, received |-> 0, receiveBad |-> FALSE,
                 names |-> 0, nameBad |-> FALSE, pathBad |-> FALSE, failed |-> FALSE]
        /\ poisoned = FALSE /\ strobe = "none" /\ nextOp = 0 /\ image \in Images
        /\ host = [state |-> "idle", send |-> <<>>, result |-> 0]
    BY DEF Init, TargetInit, HostIdle
  <1>2. io \in Service
    <2>1. 0 \in Indices
      BY TargetAssumption, SMT DEF Indices
    <2> QED
      BY <1>1, <2>1, Zero, StateNames, Zenon DEF Service
  <1>3. /\ target.queue = {} /\ ~target.done /\ target \in Executor
        /\ target.state = "IDLE" \/ (target.state = "WAITRESULT" /\ target.cmd.slot = "DUMP")
    <2>1. CASE target = TargetIdle
      <3>1. NoCommand \in [cmd : Commands \cup {"none"}, slot : Slots] /\ 0 \in Nat
        BY SMT DEF NoCommand, Slots
      <3>2. target = [state |-> "IDLE", queue |-> {}, cmd |-> NoCommand, done |-> FALSE,
                      result |-> 0]
        BY <2>1 DEF TargetIdle
      <3> QED
        BY <3>1, <3>2, Zenon DEF Executor
    <2>2. CASE target # TargetIdle
      <3>1. PICK c \in Abandoned :
              target = [TargetIdle EXCEPT !.state = "WAITRESULT",
                                          !.cmd = [cmd |-> c, slot |-> "DUMP"]]
        BY <2>2 DEF Init, TargetInit
      <3>2. c \in Commands
        BY FileAssumption, SMT DEF Commands
      <3>3. [cmd |-> c, slot |-> "DUMP"] \in [cmd : Commands \cup {"none"}, slot : Slots]
        BY <3>2, SMT DEF Slots
      <3>4. target = [state |-> "WAITRESULT", queue |-> {}, cmd |-> [cmd |-> c, slot |-> "DUMP"],
                      done |-> FALSE, result |-> 0]
        BY <3>1, Zenon DEF TargetIdle
      <3>5. 0 \in Nat
        BY SMT
      <3>6. target \in Executor
        BY <3>3, <3>4, <3>5, Zenon DEF Executor
      <3> QED
        BY <3>4, <3>6
    <2> QED
      BY <2>1, <2>2
  <1>4. card \in Card
    <2>1. PICK meta \in InputFiles, save \in InputFiles, old \in SUBSET Indices :
            card = [META |-> meta, SAVE |-> save, bound |-> NoName,
                    files |-> [i \in Indices |-> IF i \in old THEN Others ELSE Absent]]
      BY DEF Init, TargetInit
    <2>2. [i \in Indices |-> IF i \in old THEN Others ELSE Absent] \in [Indices -> Contents]
      BY DEF Contents
    <2>3. NoName \in BoundNames
      BY DEF BoundNames
    <2> QED
      BY <2>1, <2>2, <2>3, Zenon DEF Card
  <1>5. Types
    <2>1. HostTypes
      BY <1>1, SMT DEF HostTypes
    <2>2. strobe \in Commands \cup {"none"} /\ nextOp \in 0 .. 2
      BY <1>1, Zero
    <2> QED
      BY <1>1, <1>2, <1>3, <1>4, <2>1, <2>2 DEF Types
  <1>6. io.state = "IDLE" /\ io.op = 0 /\ ~io.checking
    BY <1>1
  <1>7. InStep \/ Behind
    <2>1. target.state = "IDLE" => InStep
      BY <1>1, <1>3, <1>6, WaitNames DEF InStep, Quiet
    <2>2. target.state = "WAITRESULT" => Behind
      BY <1>1, <1>3, <1>6, SMT DEF Behind, BehindElsewhere, Quiet
    <2> QED
      BY <1>3, <2>1, <2>2
  <1>8. PipeInv /\ OperationInv /\ CreatedInv /\ CheckedInv
    BY <1>1, <1>6, <1>7 DEF PipeInv, OperationInv, CreatedInv, CheckedInv
  <1>9. WriteInv
    BY <1>1, <1>3 DEF WriteInv, WriteToCome
  <1> QED
    BY <1>5, <1>8, <1>9 DEF Inv

\* At every moment the service is in step with the host, or one answer behind
\* it and no further than the metadata, or has timed out and gives no command;
\* and a write on its way to the host is to a recovery file that is still new.
THEOREM Invariance == Spec => []Inv
  BY InitKeeps, StepKeeps, StutterKeeps, PTL DEF Spec

-----------------------------------------------------------------------------
(* What it carries *)

\* What a file holds, the host leaves alone when it takes a command.
LEMMA TakenKeeps ==
  ASSUME Inv, TakesCommand, NEW i \in Indices, card.files[i] \notin {Absent, Fresh}
  PROVE  card'.files[i] = card.files[i]
  <1>1. CASE card' = card \/ card'.files = card.files
    BY <1>1
  <1>2. CASE /\ card.files[io.index] = Absent
             /\ \A j \in Indices : j # io.index => card'.files[j] = card.files[j]
    BY <1>2
  <1>3. CASE /\ target.cmd.cmd = "write" /\ target.cmd.slot # "DUMP"
             /\ \A j \in Indices : j # card.bound[2] => card'.files[j] = card.files[j]
    <2>1. WriteToCome
      BY <1>3 DEF WriteToCome, TakesCommand
    <2>2. card.files[card.bound[2]] = Fresh
      BY <2>1 DEF Inv, WriteInv
    <2> QED
      BY <1>3, <2>2
  <1> QED
    BY <1>1, <1>2, <1>3 DEF TakesCommand

\* A recovery file that holds anything is never written to again, whatever the
\* host answers and however late.
THEOREM NothingWrittenOver == Spec => ExistingKept
  <1> DEFINE Kept ==
        \A i \in Indices :
          card.files[i] \notin {Absent, Fresh} => card'.files[i] = card.files[i]
  <1>1. Inv /\ [Next]_vars => [Kept]_vars
    <2> SUFFICES ASSUME Inv, Next PROVE Kept
      OBVIOUS
    <2>1. CASE \E expired \in BOOLEAN : IoClock(expired)
      BY <2>1 DEF IoClock
    <2>2. CASE HostStep
      <3>1. TakesCommand \/ card' = card
        BY <2>2, HostServes DEF HostSide, Inv
      <3> QED
        BY <3>1, TakenKeeps
    <2> QED
      BY <2>1, <2>2 DEF Next
  <1> QED
    BY <1>1, Invariance, PTL DEF Spec, ExistingKept

\* In step with the host, or giving no command any more.
Heeds == InStep \/ poisoned

\* With the executor at rest in the beginning, every answer the service acts on
\* is the one to the command it waits for: there is never a second command on
\* the way, and none after the first that timed out.
THEOREM OwnAnswersHeard == Spec => OwnAnswersOnly
  <1>1. Init /\ target.state = "IDLE" => Heeds
    <2> SUFFICES ASSUME Init, target.state = "IDLE" PROVE InStep
      BY DEF Heeds
    <2>1. io.state = "IDLE" /\ ~poisoned
      BY DEF Init
    <2>2. InStep \/ Behind
      BY <2>1, InitKeeps DEF Inv, PipeInv
    <2> QED
      BY <2>1, <2>2 DEF Behind, BehindWaiting, BehindElsewhere
  <1>2. Inv /\ Heeds /\ [Next]_vars => Heeds'
    <2> SUFFICES ASSUME Inv, Heeds, [Next]_vars PROVE Heeds'
      OBVIOUS
    <2>1. CASE \E expired \in BOOLEAN : IoClock(expired)
      <3>1. Clocked
        BY <2>1, ClockServes DEF Inv
      <3>2. InStep => Heeds'
        BY <3>1, InStepClock DEF Heeds
      <3>3. poisoned => poisoned'
        <4> SUFFICES ASSUME poisoned PROVE poisoned'
          OBVIOUS
        <4>1. io.state \in {"IDLE", "FINISH"}
          BY DEF Inv, PipeInv, Poisoned
        <4>2. MovesOn \/ Starts
          BY <3>1, <4>1, RestServes DEF Clocked
        <4> QED
          BY <4>2 DEF MovesOn, Starts
      <3> QED
        BY <3>2, <3>3 DEF Heeds
    <2>2. CASE HostStep
      BY <2>2, HostServes, InStepHost DEF Inv, Heeds, HostSide
    <2>3. CASE UNCHANGED vars
      <3>1. io' = io /\ target' = target /\ strobe' = strobe /\ poisoned' = poisoned
        BY <2>3 DEF vars, apfVars, ioVars
      <3> QED
        BY <3>1 DEF Heeds, InStep, OnTheWay, OwnCommand, Quiet
    <2> QED
      BY <2>1, <2>2, <2>3 DEF Next
  <1>3. Inv /\ Heeds => OwnAnswer
    <2> SUFFICES ASSUME Inv, Heeds, io.state \in Waits, Answered
        PROVE  target.cmd = [cmd |-> Awaits[io.state], slot |-> SlotOf[io.op]]
      BY DEF OwnAnswer
    <2>1. ~poisoned
      BY NotWaiting DEF Inv, PipeInv, Poisoned
    <2> QED
      BY <2>1, HeardInStep DEF Heeds, OwnCommand
  <1> QED
    BY <1>1, <1>2, <1>3, Invariance, PTL DEF Spec, OwnAnswersOnly

-----------------------------------------------------------------------------
(* The file handed over: names, sizes and words *)

\* The file of the operation.
FileOf == ContentOf(SlotOf[io.op])

\* The slot of the operation holds the name it is to hold.
PathFound == NameIn(SlotOf[io.op]) = Path

EndsWell == io.state = "FINISH" /\ ~io.failed

\* A command of the first operation is for its slot, or one of the dump's.
SlotInv == ~poisoned /\ io.op = 0 /\ target.state # "IDLE" => target.cmd.slot \in {"META", "DUMP"}

\* The words of a file, each with its place.
Placed(content) == {[at |-> i, word |-> content[i]] : i \in 1 .. Len(content)}

\* What the host has yet to send of a name is the name of the slot, and of a
\* file its words.
SentInv ==
  target.state = "WAITRESULT" /\ host.state = "working" =>
    /\ target.cmd.slot = "DUMP" => host.send = <<>>
    /\ target.cmd.cmd = "getfile" => host.send \in Seq({NameIn(target.cmd.slot)})
    /\ target.cmd.cmd = "read" => host.send \in Seq(Placed(ContentOf(target.cmd.slot)))

PathInv ==
  \/ io.state \in {"NAME_WAIT", "NAME_CHECK"} /\ io.names # 0 /\ ~io.pathBad
  \/ io.state \in {"ID_CHECK", "WRITE", "WRITE_WAIT", "OPEN", "OPEN_WAIT", "READ", "READ_WAIT"}
  \/ EndsWell
  => PathFound

SizeInv == io.state \in {"READ", "READ_WAIT"} \/ EndsWell => Len(FileOf) = Words

ReadInv ==
  /\ io.state \notin {"IDLE", "READ_WAIT", "FINISH"} => delivered = <<>>
  /\ io.state = "READ_WAIT" /\ ~io.receiveBad =>
       delivered = [i \in 1 .. io.received |-> FileOf[i]]
  /\ EndsWell => delivered = FileOf

FileInv == SlotInv /\ SentInv /\ PathInv /\ SizeInv /\ ReadInv

\* The step of the service that a state allows.
LEMMA StepsByState ==
  ASSUME NEW expired, IoStep(expired)
  PROVE  /\ io.state = "NAME" => NameAsked
         /\ io.state = "NAME_CHECK" => NameChecked
         /\ io.state = "ID_CHECK" => TableChecked
         /\ io.state = "NAME_WAIT" => NameAnswered \/ Waiting(expired) \/ TimedOut(expired)
         /\ io.state = "READ_WAIT" => ReadAnswered \/ Waiting(expired) \/ TimedOut(expired)
         /\ io.state # "IDLE"
  BY NotWaiting, WaitNames, Zenon
     DEF IoStep, NameAsked, NameAnswered, NameChecked, TableChecked, ReadAsked, ReadAnswered,
         ProbeAsked, ProbeAnswered, CreateAsked, CreateAnswered, WriteAsked, WriteAnswered,
         OpenAsked, OpenAnswered, Finish, Waiting, TimedOut, Asks

KeepsNames == io'.names = io.names /\ (io'.pathBad <=> io.pathBad) /\ Holds
KeepsRead == io'.received = io.received /\ (io'.receiveBad <=> io.receiveBad) /\ Holds

\* What a clock does to the name, the size and the words.
Handles ==
  /\ io'.state = "NAME_WAIT" /\ io'.names # 0 => io.state = "NAME_WAIT" /\ KeepsNames
  /\ io'.state = "NAME_CHECK" => io.state = "NAME_WAIT" /\ KeepsNames
  /\ io'.state = "ID_CHECK" =>
       Holds /\ (io.state = "OPEN_WAIT" \/ (io.state = "NAME_CHECK" /\ io.names # 0 /\ ~io.pathBad))
  /\ io'.state = "READ" => Len(FileOf) = Words
  /\ io'.state \in {"READ", "WRITE"} =>
       io.state = "ID_CHECK" /\ io'.op = io.op /\ io'.index = io.index
  /\ io'.state \in {"WRITE_WAIT", "OPEN", "OPEN_WAIT"} =>
       Holds /\ io.state \in {"WRITE", "WRITE_WAIT", "OPEN", "OPEN_WAIT"}
  /\ io'.state = "READ_WAIT" =>
       Holds /\ ((io.state = "READ" /\ io'.received = 0) \/ (io.state = "READ_WAIT" /\ KeepsRead))
  /\ EndsWell' => Holds /\ io.state = "READ_WAIT" /\ ~io.receiveBad /\ io.received = Words
  /\ delivered' = delivered \/ (io.state = "IDLE" /\ delivered' = <<>>)
  /\ io.state = "IDLE" /\ io'.state # "IDLE" => delivered' = <<>>

LEMMA NameHandled ==
  ASSUME io \in Service, NEW expired, IoStep(expired)
  PROVE  /\ io'.state = "NAME_WAIT" /\ io'.names # 0 /\ io.state \in {"NAME", "NAME_WAIT"} =>
              io.state = "NAME_WAIT" /\ KeepsNames
         /\ io'.state = "NAME_CHECK" /\ io.state = "NAME_WAIT" => KeepsNames
         /\ io'.state = "ID_CHECK" /\ io.state = "NAME_CHECK" => io.names # 0 /\ ~io.pathBad
  <1>1. ASSUME NameAsked PROVE io'.names = 0
    BY <1>1, SMT DEF NameAsked, Asks, Service
  <1>2. ASSUME NEW s \in IoStates, Goes(s) PROVE KeepsNames
    BY <1>2, SMT DEF Goes, Service, KeepsNames, Holds
  <1>3. ASSUME FailCommand PROVE io'.state = "FINISH"
    BY <1>3, SMT DEF FailCommand, Service
  <1>4. ASSUME Waiting(expired) PROVE KeepsNames
    BY <1>4, SMT DEF Waiting, Service, KeepsNames, Holds
  <1>5. ASSUME NameAnswered PROVE KeepsNames \/ io'.state = "FINISH"
    BY <1>2, <1>3, <1>5, StateNames DEF NameAnswered, Refused
  <1>6. ASSUME TimedOut(expired) PROVE io'.state = "FINISH"
    BY <1>3, <1>6 DEF TimedOut
  <1>7. ASSUME NameChecked, io'.state = "ID_CHECK" PROVE io.names # 0 /\ ~io.pathBad
    BY <1>3, <1>7, SMT DEF NameChecked, Refused
  <1> QED
    BY <1>1, <1>4, <1>5, <1>6, <1>7, StepsByState, Zenon

LEMMA ReadHandled ==
  ASSUME io \in Service, NEW expired, IoStep(expired)
  PROVE  /\ io'.state = "READ" /\ io.state = "ID_CHECK" => Len(FileOf) = Words
         /\ io'.state = "READ_WAIT" /\ io.state = "READ_WAIT" => KeepsRead
         /\ EndsWell' /\ io.state = "READ_WAIT" => ~io.receiveBad /\ io.received = Words
  <1>1. ASSUME FailCommand PROVE io'.state = "FINISH" /\ io'.failed
    BY <1>1, SMT DEF FailCommand, Service
  <1>2. ASSUME TableChecked, io'.state = "READ" PROVE Len(FileOf) = Words
    BY <1>1, <1>2, SMT DEF TableChecked, Refused, TableSize, FileOf
  <1>3. ASSUME Waiting(expired) PROVE KeepsRead /\ io'.state = io.state
    BY <1>3, SMT DEF Waiting, Service, KeepsRead, Holds
  <1>4. ASSUME ReadAnswered
        PROVE  io'.state = "FINISH" /\ (io'.failed \/ (~io.receiveBad /\ io.received = Words))
    BY <1>1, <1>4, SMT DEF ReadAnswered, Refused, Goes, Service
  <1>5. ASSUME TimedOut(expired) PROVE io'.state = "FINISH" /\ io'.failed
    BY <1>1, <1>5 DEF TimedOut
  <1> QED
    BY <1>2, <1>3, <1>4, <1>5, StepsByState, Zenon DEF EndsWell

LEMMA ClockHandles ==
  ASSUME Types, Clocked, NEW expired, IoClock(expired)
  PROVE  Handles
  <1>1. io \in Service /\ Serves
    BY DEF Types, Clocked
  <1>2. CASE io.state = "IDLE"
    <2>1. ~IoStep(expired)
      BY <1>2, StepsByState
    <2>2. Resting \/ \E op \in {0, nextOp} : Requested(op)
      BY <2>1 DEF IoClock
    <2>3. \/ delivered' = delivered /\ io' = io
          \/ delivered' = <<>>
      BY <2>2 DEF Resting, Requested
    <2>4. MovesOn \/ Starts
      BY <1>1, <1>2, RestServes
    <2>5. io'.state \in {"IDLE", "NAME", "PROBE"} \/ (io'.state = "FINISH" /\ io'.failed)
      BY <1>2, <2>4, SMT DEF MovesOn, Starts, Clocked, Types
    <2> QED
      BY <1>2, <2>3, <2>5 DEF Handles, EndsWell
  <1>3. CASE io.state # "IDLE"
    <2>1. IoStep(expired) /\ delivered' = delivered
      BY <1>3 DEF IoClock, Resting, Requested, Start, OpContinues
    <2>2. /\ io'.state = "NAME_WAIT" => io.state \in {"NAME", "NAME_WAIT"}
          /\ io'.state = "NAME_CHECK" => io.state = "NAME_WAIT"
          /\ io'.state = "ID_CHECK" => Holds /\ io.state \in {"OPEN_WAIT", "NAME_CHECK"}
          /\ io'.state \in {"READ", "WRITE"} =>
               io.state = "ID_CHECK" /\ io'.op = io.op /\ io'.index = io.index
          /\ io'.state \in {"WRITE_WAIT", "OPEN", "OPEN_WAIT"} =>
               Holds /\ io.state \in {"WRITE", "WRITE_WAIT", "OPEN", "OPEN_WAIT"}
          /\ io'.state = "READ_WAIT" =>
               Holds /\ ((io.state = "READ" /\ io'.received = 0) \/ io.state = "READ_WAIT")
          /\ EndsWell' => Holds /\ io.state = "READ_WAIT"
      <3>1. ASSUME NEW w \in Waits, AsksFor(w)
            PROVE  /\ io'.state = w /\ io.state = GivenIn[w] /\ Holds
                   /\ w = "READ_WAIT" => io'.received = 0
        BY <3>1 DEF AsksFor
      <3> QED
        BY <1>1, <1>3, <3>1, WaitNames, SMT
           DEF Serves, WaitsOn, GivesUp, Hears, MovesOn, Checks, Starts, EndsWell, GivenIn
    <2> QED
      BY <1>1, <1>3, <2>1, <2>2, NameHandled, ReadHandled DEF Handles
  <1> QED
    BY <1>2, <1>3

\* Operators of the card on what it can hold.
LEMMA ContentIsSeq ==
  ASSUME card \in Card, NEW slot \in Slots
  PROVE  ContentOf(slot) \in Seq(Word)
  <1>1. <<>> \in Seq(Word) /\ Fresh \in Seq(Word) /\ Others \in Seq(Word)
        /\ Images \subseteq Seq(Word)
    <2>1. \A f \in [1 .. Words -> Word] : f \in Seq(Word)
      BY TargetAssumption, IsASeq
    <2>2. Fresh \in [1 .. Words -> Word]
      BY TargetAssumption DEF Fresh
    <2> QED
      BY <2>1, <2>2, TargetAssumption, FileAssumption, EmptySeq
  <1>2. Contents \subseteq Seq(Word)
    BY <1>1 DEF Contents, Absent
  <1>3. card.META.content \in Seq(Word) /\ card.SAVE.content \in Seq(Word)
    BY TargetAssumption DEF Card
  <1>4. IsBound => card.files[BoundFile] \in Contents
    <2> SUFFICES ASSUME IsBound PROVE card.files[BoundFile] \in Contents
      OBVIOUS
    <2>1. PICK n \in Indices : card.bound = Recovery(n)
      BY DEF IsBound, Card, BoundNames
    <2>2. BoundFile = n
      BY <2>1 DEF BoundFile, Recovery
    <2> QED
      BY <2>1, <2>2 DEF Card
  <1>5. CASE slot = "META" \/ slot = "SAVE"
    BY <1>3, <1>5 DEF ContentOf
  <1>6. CASE slot = "BACKUP"
    <2>1. ContentOf(slot) = IF IsBound THEN card.files[BoundFile] ELSE Absent
      BY <1>6 DEF ContentOf
    <2> QED
      BY <1>1, <1>2, <1>4, <2>1 DEF Absent
  <1>7. CASE slot = "DUMP"
    <2>1. ContentOf(slot) = Absent
      BY <1>7 DEF ContentOf
    <2> QED
      BY <1>1, <2>1 DEF Absent
  <1> QED
    BY <1>5, <1>6, <1>7 DEF Slots

\* A transfer, garbled or not, has no other words than the one asked for.
LEMMA TransfersWords ==
  ASSUME NEW S, NEW words \in Seq(S), NEW t \in Transfers(words)
  PROVE  t \in Seq(S)
  <1>1. words # <<>> => Tail(words) \in Seq(S)
    BY HeadTailProperties
  <1>2. words \o words \in Seq(S) /\ <<>> \in Seq(S)
    BY ConcatProperties, EmptySeq
  <1> QED
    BY <1>1, <1>2 DEF Transfers

LEMMA NumberedPlaces ==
  ASSUME NEW c \in Seq(Word)
  PROVE  Numbered(c) \in Seq(Placed(c))
  <1>1. Len(c) \in Nat
    BY LenProperties
  <1>2. Numbered(c) \in [1 .. Len(c) -> Placed(c)]
    BY DEF Numbered, Placed
  <1> QED
    BY <1>1, <1>2, IsASeq

LEMMA WorkingSends ==
  ASSUME NEW w, NEW r, Working(w, r)
  PROVE  host'.send = w
  BY DEF Working

\* What the host begins to send when it takes a command, and the input slots,
\* which no command changes.
LEMMA HostTakesSends ==
  ASSUME Types, HostTakes(Struct, image)
  PROVE  SentInv' /\ card'.META = card.META /\ card'.SAVE = card.SAVE
  <1> DEFINE slot == target.cmd.slot
             Sent == /\ slot = "DUMP" => host'.send = <<>>
                     /\ target.cmd.cmd = "getfile" => host'.send \in Seq({NameIn(slot)'})
                     /\ target.cmd.cmd = "read" => host'.send \in Seq(Placed(ContentOf(slot)'))
             Same == card'.META = card.META /\ card'.SAVE = card.SAVE
  <1>0. /\ card \in Card /\ target' = target /\ slot \in Slots
        /\ target.cmd.cmd \in Commands \cup {"none"}
    BY DEF Types, HostTakes, Executor
  <1>a. \A S : <<>> \in Seq(S)
    BY EmptySeq
  <1>1. CASE HostRefuses \/ (slot = "DUMP" /\ Working(<<>>, 0) /\ UNCHANGED card)
    <2>1. host'.send = <<>> /\ card' = card
      BY <1>1, WorkingSends DEF HostRefuses
    <2> QED
      BY <1>0, <1>a, <2>1 DEF SentInv
  <1>2. CASE /\ slot # "DUMP"
             /\ \/ target.cmd.cmd = "openfile" /\ (HostOpens(Struct) \/ HostOpensRaced(Struct))
                \/ target.cmd.cmd = "write" /\ HostWrites(image)
    <2>1. Same
      <3>2. CASE HostOpens(Struct)
        <4>1. ~(card.files[Struct.index] = Absent /\ ~Struct.create) =>
                card' = [card EXCEPT !.bound = Recovery(Struct.index),
                                     !.files[Struct.index] =
                                       IF card.files[Struct.index] # Absent
                                       THEN card.files[Struct.index] ELSE Fresh]
          BY <3>2 DEF HostOpens
        <4>2. card.files[Struct.index] = Absent /\ ~Struct.create => card' = card
          BY <3>2 DEF HostOpens
        <4> QED
          BY <1>0, <4>1, <4>2 DEF Card
      <3>3. CASE HostOpensRaced(Struct)
        BY <1>0, <3>3 DEF HostOpensRaced, Card
      <3>4. CASE HostWrites(image)
        BY <1>0, <3>4 DEF HostWrites, Card
      <3> QED
        BY <1>2, <3>2, <3>3, <3>4
    <2> QED
      BY <1>0, <1>2, <2>1 DEF SentInv
  <1>3. CASE slot # "DUMP" /\ target.cmd.cmd = "getfile" /\ HostSendsName(slot)
    <2>1. card' = card
      BY <1>3 DEF HostSendsName
    <2>2. PICK words \in Transfers(<<NameIn(slot)>>) : Working(words, 0)
      BY <1>3 DEF HostSendsName
    <2>3. <<NameIn(slot)>> \in Seq({NameIn(slot)})
      OBVIOUS
    <2>4. host'.send \in Seq({NameIn(slot)})
      BY <2>2, <2>3, TransfersWords, WorkingSends
    <2>5. NameIn(slot)' = NameIn(slot)
      BY <1>0, <2>1 DEF NameIn
    <2> QED
      BY <1>0, <1>3, <2>1, <2>4, <2>5 DEF SentInv
  <1>4. CASE slot # "DUMP" /\ target.cmd.cmd = "read" /\ HostReadsFile(slot)
    <2>1. card' = card
      BY <1>4 DEF HostReadsFile
    <2>2. PICK words \in Transfers(Numbered(ContentOf(slot))) : Working(words, 0)
      BY <1>4 DEF HostReadsFile
    <2>3. Numbered(ContentOf(slot)) \in Seq(Placed(ContentOf(slot)))
      BY <1>0, ContentIsSeq, NumberedPlaces
    <2>4. host'.send \in Seq(Placed(ContentOf(slot)))
      BY <2>2, <2>3, TransfersWords, WorkingSends
    <2>5. ContentOf(slot)' = ContentOf(slot)
      BY <1>0, <2>1 DEF ContentOf, IsBound, BoundFile
    <2> QED
      BY <1>0, <1>4, <2>1, <2>4, <2>5 DEF SentInv
  <1> QED
    BY <1>1, <1>2, <1>3, <1>4 DEF HostTakes

LEMMA SlotClock ==
  ASSUME Inv, SlotInv, Clocked
  PROVE  SlotInv'
  <1> SUFFICES ASSUME ~poisoned', io'.op = 0, target'.state # "IDLE"
      PROVE  target'.cmd.slot \in {"META", "DUMP"}
    BY DEF SlotInv
  <1>1. ~poisoned /\ (InStep \/ Behind) /\ target.state \in {"IDLE", "DATASLOTOP", "WAITRESULT"}
    <2>1. ~poisoned
      BY DEF Clocked, Serves, AsksFor, WaitsOn, GivesUp, Hears, MovesOn, Checks, Starts
    <2> QED
      BY <2>1 DEF Inv, PipeInv, Types, Executor
  <1>2. CASE target.state # "IDLE"
    <2>1. target'.cmd = target.cmd
      BY <1>1, <1>2 DEF Clocked, Executes
    <2>2. io.op = 0
      <3>1. Behind => io.op = 0
        BY DEF Behind
      <3>2. InStep => io.state \in Waits
        BY <1>2 DEF InStep
      <3>3. io.state \in Waits => io'.op = io.op
        BY NotWaiting, SMT
           DEF Clocked, Serves, AsksFor, WaitsOn, GivesUp, Hears, MovesOn, Checks, Starts, Holds
      <3> QED
        BY <1>1, <3>1, <3>2, <3>3
    <2> QED
      BY <1>1, <1>2, <2>1, <2>2 DEF SlotInv
  <1>3. CASE target.state = "IDLE"
    <2>1. target.queue # {} /\ target'.cmd.slot = SlotOnWires
      BY <1>3 DEF Clocked, Executes
    <2>2. io.state \in Waits
      BY <1>1, <1>3, <2>1, WaitNames DEF InStep, Behind, Quiet, BehindWaiting, BehindElsewhere
    <2>3. io'.op = io.op
      BY <2>2, NotWaiting, SMT
         DEF Clocked, Serves, AsksFor, WaitsOn, GivesUp, Hears, MovesOn, Checks, Starts, Holds
    <2> QED
      BY <2>1, <2>3, SMT DEF SlotOnWires, SlotOf
  <1> QED
    BY <1>2, <1>3

LEMMA SentClock ==
  ASSUME Types, SentInv, Clocked
  PROVE  SentInv'
  <1> SUFFICES ASSUME target'.state = "WAITRESULT", host'.state = "working" PROVE SentInv'
    BY DEF SentInv
  <1>1. target.state \in {"IDLE", "DATASLOTOP", "WAITRESULT"} /\ card' = card
    BY DEF Types, Executor, Clocked
  <1>2. target.state = "WAITRESULT" /\ host.state = "working" /\ host' = host
        /\ target'.cmd = target.cmd
    BY <1>1 DEF Clocked, Executes, Types, HostTypes
  <1>3. \A slot : NameIn(slot)' = NameIn(slot) /\ ContentOf(slot)' = ContentOf(slot)
    BY <1>1 DEF NameIn, ContentOf, IsBound, BoundFile
  <1> QED
    BY <1>1, <1>2, <1>3 DEF SentInv

\* The command with the host is for the slot of the operation, or the dump's.
LEMMA SlotOfCommand ==
  ASSUME Inv, SlotInv, ~poisoned, target.state = "WAITRESULT", target.cmd.slot # "DUMP"
  PROVE  target.cmd.slot = SlotOf[io.op]
  <1>1. CASE InStep
    BY <1>1, TakenInStep DEF OwnCommand
  <1>2. CASE Behind
    BY <1>2, SMT DEF Behind, SlotInv, SlotOf
  <1> QED
    BY <1>1, <1>2 DEF Inv, PipeInv

LEMMA SlotOfTypes ==
  ASSUME Types
  PROVE  SlotOf[io.op] \in Slots \ {"DUMP"} /\ FileOf \in Seq(Word)
  <1>1. SlotOf[io.op] \in Slots \ {"DUMP"}
    BY SlotNames, SMT DEF Types, Service, Slots
  <1> QED
    BY <1>1, ContentIsSeq DEF Types, FileOf

\* A word of the name, or of the file, arrives.
LEMMA WordHandled ==
  ASSUME Inv, FileInv, WordArrives
  PROVE  FileInv'
  <1>1. io' \in Service /\ WordCounts /\ io \in Service
    BY WordKeeps DEF Inv, Types
  <1>2. target' = target /\ card' = card /\ poisoned' = poisoned
    BY DEF WordArrives
  <1>3. /\ host.state = "working" /\ host.send # <<>> /\ host'.send = Tail(host.send)
        /\ target.state = "WAITRESULT"
    BY <1>1, SMT DEF WordArrives, HostSends, WordCounts, Inv, Types, HostTypes
  <1>4. /\ io'.state = io.state /\ io'.op = io.op /\ io'.index = io.index
        /\ (io'.failed <=> io.failed) /\ Path' = Path /\ FileOf' = FileOf
        /\ (PathFound' <=> PathFound)
    BY <1>1, <1>2 DEF WordCounts, Holds, Path, FileOf, PathFound, NameIn, ContentOf, IsBound,
                      BoundFile
  <1>5. SlotInv' /\ SizeInv'
    BY <1>2, <1>4 DEF FileInv, SlotInv, SizeInv, EndsWell
  <1>6. SentInv'
    <2>1. \A slot : NameIn(slot)' = NameIn(slot) /\ ContentOf(slot)' = ContentOf(slot)
      BY <1>2 DEF NameIn, ContentOf, IsBound, BoundFile
    <2>2. \A S : host.send \in Seq(S) => host'.send \in Seq(S)
      BY <1>3, HeadTailProperties
    <2>3. target.cmd.slot # "DUMP"
      BY <1>3 DEF FileInv, SentInv
    <2> QED
      BY <1>2, <1>3, <2>1, <2>2, <2>3 DEF FileInv, SentInv
  <1>7. CASE target.cmd.cmd = "getfile" /\ io.state = "NAME_WAIT" /\ NameArrives
             /\ delivered' = delivered
    <2>1. ~poisoned
      BY <1>7 DEF Inv, PipeInv, Poisoned
    <2>2. target.cmd.slot = SlotOf[io.op]
      BY <1>3, <2>1, SlotOfCommand DEF FileInv, SentInv
    <2>3. Head(host.send) = NameIn(SlotOf[io.op])
      <3>1. host.send \in Seq({NameIn(target.cmd.slot)})
        BY <1>3, <1>7 DEF FileInv, SentInv
      <3>2. Head(host.send) \in {NameIn(target.cmd.slot)}
        BY <1>3, <3>1, HeadTailProperties
      <3> QED
        BY <2>2, <3>2
    <2>4. io'.names # 0 /\ ~io'.pathBad => PathFound \/ (io.names # 0 /\ ~io.pathBad)
      <3>1. CASE io.names = 0
        <4>1. io' = [io EXCEPT !.names = 1, !.pathBad = Head(host.send) # Path]
          BY <1>7, <3>1 DEF NameArrives
        <4>2. io'.pathBad <=> Head(host.send) # Path
          BY <1>1, <4>1, Zenon DEF Service
        <4> QED
          BY <2>3, <4>2 DEF PathFound
      <3>2. CASE io.names # 0
        <4>1. io' = [io EXCEPT !.nameBad = TRUE]
          BY <1>7, <3>2 DEF NameArrives
        <4> QED
          BY <1>1, <3>2, <4>1, SMT DEF Service
      <3> QED
        BY <3>1, <3>2
    <2>5. PathInv' /\ ReadInv'
      BY <1>4, <1>7, <2>4 DEF FileInv, PathInv, ReadInv, EndsWell
    <2> QED
      BY <1>5, <1>6, <2>5 DEF FileInv
  <1>8. CASE target.cmd.cmd = "read" /\ io.state = "READ_WAIT" /\ DataArrives
    <2>1. ~poisoned
      BY <1>8 DEF Inv, PipeInv, Poisoned
    <2>2. target.cmd.slot = SlotOf[io.op]
      BY <1>3, <2>1, SlotOfCommand DEF FileInv, SentInv
    <2>3. PathInv'
      BY <1>4, <1>8 DEF FileInv, PathInv, EndsWell
    <2>4. ASSUME ~io'.receiveBad
          PROVE  delivered' = [i \in 1 .. io'.received |-> FileOf[i]]
      <3>1. host.send \in Seq(Placed(FileOf))
        BY <1>3, <1>8, <2>2 DEF FileInv, SentInv, FileOf
      <3>2. Head(host.send) \in Placed(FileOf)
        BY <1>3, <3>1, HeadTailProperties
      <3>3. PICK n \in 1 .. Len(FileOf) : Head(host.send) = [at |-> n, word |-> FileOf[n]]
        BY <3>2 DEF Placed
      <3>4. WordInOrder /\ ~io.receiveBad /\ io'.received = io.received + 1
            /\ delivered' = Append(delivered, Head(host.send).word)
        BY <1>1, <1>8, <2>4, SMT DEF DataArrives, Service
      <3>5. n = io.received + 1 /\ Head(host.send).word = FileOf[io.received + 1]
        BY <3>3, <3>4 DEF WordInOrder
      <3>6. delivered = [i \in 1 .. io.received |-> FileOf[i]] /\ io.received \in Nat
        BY <1>1, <1>8, <3>4, SMT DEF FileInv, ReadInv, Service
      <3> QED
        BY <3>4, <3>5, <3>6
    <2>5. ReadInv'
      BY <1>4, <1>8, <2>4 DEF ReadInv, EndsWell
    <2> QED
      BY <1>5, <1>6, <2>3, <2>5 DEF FileInv
  <1>9. CASE io' = io /\ delivered' = delivered
    BY <1>4, <1>5, <1>6, <1>9 DEF FileInv, PathInv, ReadInv, EndsWell
  <1> QED
    BY <1>7, <1>8, <1>9, Zenon DEF WordArrives

\* While the file of a recovery is looked at, written or read back, the host
\* changes what it holds, and only the open and the write of it do.
LEMMA TakenLeaves ==
  ASSUME Inv, ~poisoned, HostTakes(Struct, image), io' = io
  PROVE  /\ io.state \in Waits => (PathFound' <=> PathFound) \/ (PathFound' /\ io.state = "OPEN_WAIT")
                                  \/ io.state \in {"PROBE_WAIT", "CREATE_WAIT"}
         /\ io.state \notin Waits => (PathFound' <=> PathFound)
         /\ io.state \notin Waits \ {"READ_WAIT"} => FileOf' = FileOf
  <1>1. TakesCommand /\ card'.META = card.META /\ card'.SAVE = card.SAVE
    BY HostTakesKeeps, HostTakesSends DEF Inv
  <1>2. io.op \in 0 .. 2 /\ SlotOf' = SlotOf /\ Path' = Path
    BY DEF Inv, Types, Service, Path
  <1>3. CASE io.op # 2
    <2>1. SlotOf[io.op] \in {"META", "SAVE"}
      BY <1>2, <1>3, SMT DEF SlotOf
    <2> QED
      BY <1>1, <1>2, <2>1 DEF PathFound, FileOf, NameIn, ContentOf
  <1>4. CASE io.op = 2
    <2>1. InStep
      BY <1>4 DEF Inv, PipeInv, Behind
    <2>2. io.state \in Waits /\ target.cmd = OwnCommand
      BY <1>1, <2>1, TakenInStep DEF TakesCommand
    <2>3. SlotOf[io.op] = "BACKUP" /\ Path = Recovery(io.index)
      BY <1>4, SMT DEF SlotOf, Path
    <2>4. PathFound <=> card.bound = Recovery(io.index)
      BY <2>3 DEF PathFound, NameIn
    <2>5. PathFound' <=> card'.bound = Recovery(io.index)
      BY <1>2, <2>3 DEF PathFound, NameIn
    <2>6. CASE io.state \in {"NAME_WAIT", "READ_WAIT"}
      <3>1. target.cmd.cmd \in {"getfile", "read"}
        BY <2>2, <2>6, WaitNames, SMT DEF OwnCommand
      <3>2. card' = card
        BY <1>1, <3>1 DEF TakesCommand
      <3> QED
        BY <1>2, <2>2, <2>4, <2>5, <3>2 DEF FileOf, ContentOf, IsBound, BoundFile
    <2>7. CASE io.state = "WRITE_WAIT"
      <3>1. target.cmd.cmd = "write"
        BY <2>2, <2>7, WaitNames, SMT DEF OwnCommand
      <3>2. card'.bound = card.bound
        BY <1>1, <3>1 DEF TakesCommand
      <3> QED
        BY <2>2, <2>4, <2>5, <2>7, <3>2
    <2>8. CASE io.state = "OPEN_WAIT"
      <3>1. target.cmd.cmd = "openfile"
        BY <2>2, <2>8, WaitNames, SMT DEF OwnCommand
      <3>2. card' = card \/ card'.bound = Recovery(io.index)
        BY <1>1, <3>1 DEF TakesCommand
      <3> QED
        BY <2>2, <2>4, <2>5, <2>8, <3>2
    <2>9. CASE io.state \in {"PROBE_WAIT", "CREATE_WAIT"}
      BY <2>2, <2>9
    <2> QED
      BY <2>2, <2>6, <2>7, <2>8, <2>9, WaitNames
  <1> QED
    BY <1>3, <1>4

LEMMA FileHost ==
  ASSUME Inv, FileInv, HostStep
  PROVE  FileInv'
  <1>1. CASE WordArrives
    BY <1>1, WordHandled
  <1>2. CASE HostTakes(Struct, image) /\ UNCHANGED <<ioVars, delivered, image, nextOp, ops>>
    <2>1. io' = io /\ poisoned' = poisoned /\ delivered' = delivered /\ target' = target
      BY <1>2 DEF ioVars, HostTakes
    <2>2. SlotInv' /\ SentInv'
      BY <1>2, <2>1, HostTakesSends DEF Inv, FileInv, SlotInv
    <2>3. CASE poisoned
      <3>1. io.state = "IDLE" \/ (io.state = "FINISH" /\ io.failed)
        BY <2>3 DEF Inv, PipeInv, Poisoned
      <3> QED
        BY <2>1, <2>2, <3>1 DEF FileInv, PathInv, SizeInv, ReadInv, EndsWell
    <2>4. CASE ~poisoned
      <3>1. /\ io.state \in Waits => (PathFound' <=> PathFound)
                                     \/ (PathFound' /\ io.state = "OPEN_WAIT")
                                     \/ io.state \in {"PROBE_WAIT", "CREATE_WAIT"}
            /\ io.state \notin Waits => (PathFound' <=> PathFound)
            /\ io.state \notin Waits \ {"READ_WAIT"} => FileOf' = FileOf
        BY <1>2, <2>1, <2>4, TakenLeaves
      <3>2. PathInv'
        BY <2>1, <3>1 DEF FileInv, PathInv, EndsWell
      <3>3. SizeInv' /\ ReadInv'
        BY <2>1, <3>1, WaitNames DEF FileInv, SizeInv, ReadInv, EndsWell
      <3> QED
        BY <2>2, <3>2, <3>3 DEF FileInv
    <2> QED
      BY <2>3, <2>4
  <1>3. CASE HostAnswers /\ UNCHANGED <<ioVars, delivered, image, nextOp, ops>>
    <2>1. /\ io' = io /\ poisoned' = poisoned /\ delivered' = delivered /\ target' = target
          /\ card' = card
      BY <1>3 DEF ioVars, HostAnswers
    <2>2. host'.state = "ok"
      BY <1>3, AnswerKeeps DEF Inv
    <2>3. (PathFound' <=> PathFound) /\ FileOf' = FileOf
      BY <2>1 DEF PathFound, FileOf, Path, NameIn, ContentOf, IsBound, BoundFile
    <2> QED
      BY <2>1, <2>2, <2>3 DEF FileInv, SlotInv, SentInv, PathInv, SizeInv, ReadInv, EndsWell
  <1> QED
    BY <1>1, <1>2, <1>3 DEF HostStep

LEMMA FileClock ==
  ASSUME Inv, FileInv, NEW expired, IoClock(expired)
  PROVE  FileInv'
  <1>1. Clocked /\ card' = card /\ Types
    BY ClockServes DEF Inv, Clocked
  <1>2. Handles
    BY <1>1, ClockHandles
  <1>3. ASSUME io'.op = io.op, io'.index = io.index
        PROVE  (PathFound' <=> PathFound) /\ FileOf' = FileOf
    BY <1>1, <1>3 DEF PathFound, FileOf, Path, NameIn, ContentOf, IsBound, BoundFile
  <1>4. Holds => (PathFound' <=> PathFound) /\ FileOf' = FileOf
    BY <1>3 DEF Holds
  <1>5. SlotInv' /\ SentInv'
    BY <1>1, SlotClock, SentClock DEF FileInv
  <1>6. PathInv'
    <2>1. CASE io'.state \in {"NAME_WAIT", "NAME_CHECK"} /\ io'.names # 0 /\ ~io'.pathBad
      BY <1>2, <1>4, <2>1 DEF Handles, KeepsNames, FileInv, PathInv
    <2>2. CASE io'.state \in {"ID_CHECK", "WRITE", "WRITE_WAIT", "OPEN", "OPEN_WAIT", "READ",
                              "READ_WAIT"} \/ EndsWell'
      BY <1>2, <1>3, <1>4, <2>2 DEF Handles, FileInv, PathInv
    <2> QED
      BY <2>1, <2>2 DEF PathInv
  <1>7. SizeInv'
    BY <1>2, <1>3, <1>4 DEF Handles, FileInv, SizeInv
  <1>8. ReadInv'
    <2>1. ASSUME io'.state \notin {"IDLE", "READ_WAIT", "FINISH"} PROVE delivered' = <<>>
      <3>1. io.state \notin {"READ_WAIT", "FINISH"}
        BY <1>1, <2>1, WaitNames, NotWaiting, SMT
           DEF Clocked, Serves, AsksFor, WaitsOn, GivesUp, Hears, MovesOn, Checks, Starts, GivenIn
      <3> QED
        BY <1>2, <2>1, <3>1 DEF Handles, FileInv, ReadInv
    <2>2. ASSUME io'.state = "READ_WAIT", ~io'.receiveBad
          PROVE  delivered' = [i \in 1 .. io'.received |-> FileOf'[i]]
      <3>1. Holds /\ FileOf' = FileOf
        BY <1>2, <1>4, <2>2 DEF Handles
      <3>2. CASE io.state = "READ" /\ io'.received = 0
        <4>1. delivered' = <<>>
          BY <1>2, <3>2 DEF Handles, FileInv, ReadInv
        <4>2. <<>> = [i \in 1 .. 0 |-> FileOf'[i]]
          BY SMT
        <4> QED
          BY <3>2, <4>1, <4>2
      <3>3. CASE io.state = "READ_WAIT" /\ KeepsRead
        BY <1>2, <2>2, <3>1, <3>3 DEF Handles, KeepsRead, FileInv, ReadInv
      <3> QED
        BY <1>2, <2>2, <3>2, <3>3 DEF Handles
    <2>3. ASSUME EndsWell' PROVE delivered' = FileOf'
      <3>1. /\ io.state = "READ_WAIT" /\ ~io.receiveBad /\ io.received = Words
            /\ FileOf' = FileOf /\ delivered' = delivered
        BY <1>2, <1>4, <2>3 DEF Handles
      <3>2. delivered = [i \in 1 .. Len(FileOf) |-> FileOf[i]]
        BY <3>1 DEF FileInv, ReadInv, SizeInv
      <3>3. FileOf \in Seq(Word)
        BY <1>1, SlotOfTypes
      <3>4. delivered = FileOf
        BY <3>2, <3>3
      <3> QED
        BY <3>1, <3>4
    <2> QED
      BY <2>1, <2>2, <2>3 DEF ReadInv
  <1> QED
    BY <1>5, <1>6, <1>7, <1>8 DEF FileInv

\* What an operation has been told of its file is so: what the host sends is
\* what the slot holds, and a word out of its place is not taken.
LEMMA FileInvHolds == Spec => []FileInv
  <1>1. Init => FileInv
    <2> SUFFICES ASSUME Init PROVE FileInv
      OBVIOUS
    <2>1. io.state = "IDLE" /\ host.state = "idle"
      BY DEF Init, TargetInit, HostIdle
    <2>2. SlotInv
      <3>1. CASE target = TargetIdle
        BY <3>1 DEF TargetIdle, SlotInv
      <3>2. CASE target # TargetIdle
        <4>1. PICK c \in Abandoned :
                target = [TargetIdle EXCEPT !.state = "WAITRESULT",
                                            !.cmd = [cmd |-> c, slot |-> "DUMP"]]
          BY <3>2 DEF Init, TargetInit
        <4> QED
          BY <4>1 DEF TargetIdle, SlotInv
      <3> QED
        BY <3>1, <3>2
    <2> QED
      BY <2>1, <2>2 DEF FileInv, SentInv, PathInv, SizeInv, ReadInv, EndsWell
  <1>2. Inv /\ FileInv /\ [Next]_vars => FileInv'
    <2> SUFFICES ASSUME Inv, FileInv, [Next]_vars PROVE FileInv'
      OBVIOUS
    <2>1. CASE Next
      BY <2>1, FileClock, FileHost DEF Next
    <2>2. CASE UNCHANGED vars
      <3>1. /\ io' = io /\ target' = target /\ host' = host /\ card' = card
            /\ poisoned' = poisoned /\ delivered' = delivered
        BY <2>2 DEF vars, apfVars, ioVars
      <3>2. \A slot : NameIn(slot)' = NameIn(slot) /\ ContentOf(slot)' = ContentOf(slot)
        BY <3>1 DEF NameIn, ContentOf, IsBound, BoundFile
      <3> QED
        BY <3>1, <3>2 DEF FileInv, SlotInv, SentInv, PathInv, PathFound, Path, FileOf, SizeInv,
                          ReadInv, EndsWell
    <2> QED
      BY <2>1, <2>2
  <1> QED
    BY <1>1, <1>2, Invariance, PTL DEF Spec

\* An operation that ends well has handed over the whole file of the right
\* name, word for word, whatever the host garbled, refused or answered late.
THEOREM FilesHandedOver == Spec => []HandsOverTheFile
  <1>1. FileInv => HandsOverTheFile
    BY DEF FileInv, PathInv, SizeInv, ReadInv, EndsWell, PathFound, FileOf, HandsOverTheFile
  <1> QED
    BY <1>1, FileInvHolds, PTL

=============================================================================
