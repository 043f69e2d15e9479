----------------------------- MODULE RestoreFileIO -----------------------------
(***************************************************************************)
(* The file service of a restore, src/fpga/services/restore/               *)
(* restore_file_io.sv, on the command executor of ApfTarget.  Operation 0  *)
(* loads the metadata, 1 the save, and 2 writes the recovery file under    *)
(* the first free name, reopens it and reads it back.                      *)
(*                                                                         *)
(* IoClock is one clock of clk_74a.  The ten words of a file name are one  *)
(* word here, the clocks a table entry needs to settle are one with its    *)
(* check, and the evidence for the screen is left out.                     *)
(***************************************************************************)
EXTENDS ApfTarget

CONSTANTS
  Images,    \* recovery images the engine may hold
  Abandoned, \* commands of a dump that may still be with the host at the start
  MaxOps     \* bound on the operations started

ASSUME FileAssumption ==
  /\ Images \subseteq [1 .. Words -> Word] /\ Fresh \notin Images
  /\ Abandoned \subseteq {"openfile", "write"} /\ MaxOps \in Nat

VARIABLES
  io,         \* the registers of the service
  poisoned,   \* a command timed out: nothing is started any more
  strobe,     \* the command strobe, high for the clock after it is given
  delivered,  \* the words handed to the engine by this operation
  image,      \* the recovery image in the engine's buffer
  nextOp,     \* the operation the engine may ask for next
  ops         \* operations started

ioVars == <<io, poisoned, strobe>>

vars == <<apfVars, ioVars, delivered, image, nextOp, ops>>

SlotOf == [o \in 0 .. 2 |-> CASE o = 0 -> "META" [] o = 1 -> "SAVE" [] o = 2 -> "BACKUP"]

\* The command each wait is for.
Awaits ==
  [NAME_WAIT |-> "getfile", OPEN_WAIT |-> "openfile", READ_WAIT |-> "read",
   PROBE_WAIT |-> "openfile", CREATE_WAIT |-> "openfile", WRITE_WAIT |-> "write"]
Waits == DOMAIN Awaits

IoStates ==
  Waits \cup {"IDLE", "NAME", "NAME_CHECK", "OPEN", "ID_CHECK", "READ", "PROBE",
              "CREATE", "WRITE", "FINISH"}

IoBusy == io.state # "IDLE"

\* core_top's mux: the wires are the dump's unless the service is busy.
SlotOnWires == IF IoBusy THEN SlotOf[io.op] ELSE "DUMP"

\* The parameter struct, as the bridge reads it now.
Struct == [index |-> io.index, create |-> io.create]

\* path_byte: the name the slot must hold.
Path == IF io.op = 2 THEN Recovery(io.index) ELSE Named(SlotOf[io.op])

-----------------------------------------------------------------------------
Goes(state) == io' = [io EXCEPT !.state = state] /\ strobe' = "none" /\ UNCHANGED poisoned

FailCommand == io' = [io EXCEPT !.state = "FINISH", !.failed = TRUE] /\ strobe' = "none"

Refused == FailCommand /\ UNCHANGED poisoned

\* A command: strobe it, and wait for done to fall and to rise again.
Asks(state, next, command) ==
  /\ io.state = state
  /\ strobe' = command
  /\ io' = [next EXCEPT !.saw = FALSE]
  /\ UNCHANGED poisoned

Answered == io.saw /\ target.done

\* The wait goes on.
Waiting(expired) ==
  /\ io.state \in Waits /\ ~Answered /\ ~expired
  /\ io' = [io EXCEPT !.saw = @ \/ ~target.done]
  /\ strobe' = "none"
  /\ UNCHANGED poisoned

\* The wait is over, and nothing more.
TimedOutUnpoisoned(expired) ==
  io.state \in Waits /\ ~Answered /\ expired /\ FailCommand /\ UNCHANGED poisoned
\* The command still belongs to the host.
TimedOut(expired) ==
  io.state \in Waits /\ ~Answered /\ expired /\ FailCommand /\ poisoned' = TRUE

Start(op) ==
  /\ io.state = "IDLE"
  /\ io' = [state |-> CASE poisoned -> "FINISH"
                        [] ~poisoned /\ op = 2 -> "PROBE"
                        [] ~poisoned /\ op # 2 -> "NAME",
            op |-> op, index |-> io.index, create |-> FALSE, owned |-> FALSE,
            checking |-> FALSE, saw |-> io.saw, received |-> io.received,
            receiveBad |-> io.receiveBad, names |-> io.names, nameBad |-> io.nameBad,
            pathBad |-> io.pathBad, failed |-> poisoned]
  /\ strobe' = "none"
  /\ UNCHANGED poisoned

NameAsked ==
  Asks("NAME", [io EXCEPT !.state = "NAME_WAIT", !.names = 0, !.nameBad = FALSE,
                          !.pathBad = FALSE], "getfile")

NameAnswered ==
  /\ io.state = "NAME_WAIT" /\ Answered
  /\ IF target.result # 0 THEN Refused ELSE Goes("NAME_CHECK")

NameChecked ==
  /\ io.state = "NAME_CHECK"
  /\ IF io.nameBad \/ io.names = 0 \/ io.pathBad THEN Refused ELSE Goes("ID_CHECK")

\* The slot id and the exact size, from the data slot table.
TableChecked ==
  /\ io.state = "ID_CHECK"
  /\ IF TableSize(SlotOf[io.op]) # Words THEN Refused
     ELSE io' = [io EXCEPT !.checking = FALSE, !.state = IF io.checking THEN "WRITE" ELSE "READ"]
          /\ strobe' = "none" /\ UNCHANGED poisoned

ReadAsked ==
  Asks("READ", [io EXCEPT !.state = "READ_WAIT", !.received = 0, !.receiveBad = FALSE], "read")

ReadAnswered ==
  /\ io.state = "READ_WAIT" /\ Answered
  /\ IF target.result # 0 \/ io.receiveBad \/ io.received # Words THEN Refused ELSE Goes("FINISH")

\* The first free recovery name.
ProbeAsked == Asks("PROBE", [io EXCEPT !.state = "PROBE_WAIT", !.create = FALSE], "openfile")

\* After the last name comes the first.
ProbeAnsweredWrap ==
  /\ io.state = "PROBE_WAIT" /\ Answered
  /\ CASE target.result = 3 -> Goes("CREATE")
       [] target.result = 0 ->
            io' = [io EXCEPT !.index = IF @ = LastIndex THEN 0 ELSE @ + 1, !.state = "PROBE"]
            /\ strobe' = "none" /\ UNCHANGED poisoned
       [] OTHER -> Refused
ProbeAnswered ==
  /\ io.state = "PROBE_WAIT" /\ Answered
  /\ CASE target.result = 3 -> Goes("CREATE")
       [] target.result = 0 /\ io.index # LastIndex ->
            io' = [io EXCEPT !.index = @ + 1, !.state = "PROBE"] /\ strobe' = "none"
            /\ UNCHANGED poisoned
       [] OTHER -> Refused

CreateAsked == Asks("CREATE", [io EXCEPT !.state = "CREATE_WAIT", !.create = TRUE], "openfile")

\* A file that was there already will do.
CreateAnsweredAny ==
  /\ io.state = "CREATE_WAIT" /\ Answered
  /\ IF target.result \in {0, 1}
     THEN io' = [io EXCEPT !.owned = TRUE, !.checking = TRUE, !.state = "NAME"]
          /\ strobe' = "none" /\ UNCHANGED poisoned
     ELSE Refused
CreateAnswered ==
  /\ io.state = "CREATE_WAIT" /\ Answered
  /\ IF target.result = 1
     THEN io' = [io EXCEPT !.owned = TRUE, !.checking = TRUE, !.state = "NAME"]
          /\ strobe' = "none" /\ UNCHANGED poisoned
     ELSE Refused

WriteAsked ==
  IF io.owned THEN Asks("WRITE", [io EXCEPT !.state = "WRITE_WAIT"], "write")
  ELSE io.state = "WRITE" /\ Refused

\* The answer to the write is enough.
WriteAnsweredTrusted ==
  /\ io.state = "WRITE_WAIT" /\ Answered
  /\ IF target.result # 0 THEN Refused ELSE Goes("FINISH")
WriteAnswered ==
  /\ io.state = "WRITE_WAIT" /\ Answered
  /\ IF target.result # 0 THEN Refused ELSE Goes("OPEN")

OpenAsked == Asks("OPEN", [io EXCEPT !.state = "OPEN_WAIT", !.create = FALSE], "openfile")

OpenAnswered ==
  /\ io.state = "OPEN_WAIT" /\ Answered
  /\ IF target.result # 0 THEN Refused ELSE Goes("ID_CHECK")

Finish ==
  /\ io.state = "FINISH"
  /\ io' = [io EXCEPT !.state = "IDLE", !.owned = FALSE]
  /\ strobe' = "none"
  /\ UNCHANGED poisoned

IoStep(expired) ==
  \/ NameAsked \/ NameAnswered \/ NameChecked \/ TableChecked
  \/ ReadAsked \/ ReadAnswered
  \/ ProbeAsked \/ ProbeAnswered \/ CreateAsked \/ CreateAnswered
  \/ WriteAsked \/ WriteAnswered \/ OpenAsked \/ OpenAnswered
  \/ Finish \/ Waiting(expired) \/ TimedOut(expired)

-----------------------------------------------------------------------------
(* Composition.  The engine asks for the metadata, the save and the recovery *)
(* write in that order, and from the beginning again after any failure.      *)

Requested(op) ==
  /\ ops < MaxOps
  /\ Start(op)
  /\ image' \in IF op = 2 THEN Images ELSE {image}
  /\ ops' = ops + 1
  /\ delivered' = <<>>
  /\ UNCHANGED nextOp

OpContinues ==
  /\ nextOp' = CASE io.state # "FINISH" -> nextOp
                 [] io.state = "FINISH" /\ (io.failed \/ io.op = 2) -> 0
                 [] io.state = "FINISH" /\ ~io.failed /\ io.op # 2 -> io.op + 1
  /\ UNCHANGED <<delivered, image, ops>>

Resting ==
  /\ io.state = "IDLE"
  /\ strobe' = "none"
  /\ UNCHANGED <<io, poisoned, delivered, image, nextOp, ops>>

\* One clock; `expired' when the timer of a wait has run out.
IoClock(expired) ==
  /\ \/ IoStep(expired) /\ OpContinues
     \/ \E op \in {0, nextOp} : Requested(op)
     \/ Resting
  /\ TargetClock(strobe, SlotOnWires)
  /\ HostRead
  /\ UNCHANGED card

\* A word of a name is looked at in NAME_WAIT and a word of a file in
\* READ_WAIT; one that comes at another time is not.
NameArrives ==
  io' = IF io.names = 0
        THEN [io EXCEPT !.names = 1, !.pathBad = Head(host.send) # Path]
        ELSE [io EXCEPT !.nameBad = TRUE]

WordInOrder == Head(host.send).at = io.received + 1 /\ io.received < Words

DataArrives ==
  IF WordInOrder
  THEN /\ io' = [io EXCEPT !.received = @ + 1]
       /\ delivered' = IF io.receiveBad THEN delivered
                       ELSE Append(delivered, Head(host.send).word)
  ELSE io' = [io EXCEPT !.receiveBad = TRUE] /\ UNCHANGED delivered

WordArrives ==
  /\ HostSends
  /\ \/ /\ target.cmd.cmd = "getfile" /\ io.state = "NAME_WAIT"
        /\ NameArrives /\ UNCHANGED delivered
     \/ target.cmd.cmd = "read" /\ io.state = "READ_WAIT" /\ DataArrives
     \/ /\ <<target.cmd.cmd, io.state>> \notin {<<"getfile", "NAME_WAIT">>, <<"read", "READ_WAIT">>}
        /\ UNCHANGED <<io, delivered>>
  /\ UNCHANGED <<target, card, poisoned, strobe, image, nextOp, ops>>

HostStep ==
  \/ WordArrives
  \/ (HostTakes(Struct, image) \/ HostAnswers) /\ UNCHANGED <<ioVars, delivered, image, nextOp, ops>>

Init ==
  /\ io = [state |-> "IDLE", op |-> 0, index |-> 0, create |-> FALSE, owned |-> FALSE,
           checking |-> FALSE, saw |-> FALSE, received |-> 0, receiveBad |-> FALSE,
           names |-> 0, nameBad |-> FALSE, pathBad |-> FALSE, failed |-> FALSE]
  /\ poisoned = FALSE /\ strobe = "none" /\ delivered = <<>> /\ nextOp = 0 /\ ops = 0
  /\ image \in Images
  /\ TargetInit(Abandoned)

Next == (\E expired \in BOOLEAN : IoClock(expired)) \/ HostStep

Spec == Init /\ [][Next]_vars

\* The clock runs, and the timer of a wait runs out.
FairSpec == Spec /\ WF_vars(IoClock(TRUE))

-----------------------------------------------------------------------------
(* Properties *)

TypeOK ==
  /\ io \in [state : IoStates, op : 0 .. 2, index : Indices, create : BOOLEAN, owned : BOOLEAN,
             checking : BOOLEAN, saw : BOOLEAN, received : 0 .. Words, receiveBad : BOOLEAN,
             names : 0 .. 1, nameBad : BOOLEAN, pathBad : BOOLEAN, failed : BOOLEAN]
  /\ poisoned \in BOOLEAN /\ strobe \in {"none"} \cup {Awaits[s] : s \in Waits}
  /\ image \in Images
  /\ delivered \in Seq(Word) /\ Len(delivered) <= Words
  /\ nextOp \in 0 .. 2 /\ ops \in 0 .. MaxOps
  /\ target.state \in {"IDLE", "DATASLOTOP", "WAITRESULT"}
  /\ \A i \in Indices : card.files[i] \in {Absent, Fresh, Others} \cup Images

\* "a late completion must never be consumed by a subsequent transaction"
\* (restore_file_io.sv:4-7): a completion the service acts on is that of the
\* command it waits for.
OwnAnswer ==
  io.state \in Waits /\ Answered =>
    target.cmd = [cmd |-> Awaits[io.state], slot |-> SlotOf[io.op]]

\* So it is when the executor rested at the beginning: the first command of the
\* service to time out is the last one it gives.
OwnAnswersOnly == target.state = "IDLE" => []OwnAnswer

\* A recovery file that holds anything - an earlier recovery, or a file the
\* core did not make - is never written to again.
ExistingKept ==
  [][\A i \in Indices :
       card.files[i] \notin {Absent, Fresh} => card'.files[i] = card.files[i]]_vars

\* An operation that ends well has handed over the whole file of the right
\* name, word for word: for a recovery, the one it has just made, read back
\* from the card.
HandsOverTheFile ==
  io.state = "FINISH" /\ ~io.failed =>
    /\ NameIn(SlotOf[io.op]) = Path
    /\ delivered = ContentOf(SlotOf[io.op])
    /\ Len(delivered) = Words

\* Whatever the host does, an operation ends.
OpsEnd == io.state # "IDLE" ~> io.state = "IDLE"

=============================================================================
