------------------------------- MODULE ApfTarget -------------------------------
(***************************************************************************)
(* How the core asks the host for files: the target command executor of    *)
(* src/fpga/core/core_bridge_cmd.v and the host that carries its commands  *)
(* out on the SD card.                                                     *)
(*                                                                         *)
(* A strobe becomes a queued command, a queued command the one the host    *)
(* has, and the host's result comes back with done, which stays up until   *)
(* the next command is put to the host.  A command cannot be taken back.   *)
(*                                                                         *)
(* The host is external.  It takes as long as it likes over a command,     *)
(* what it does to the card it does at once, and the slots are those a     *)
(* restore uses and, as "DUMP", those a dump uses.                         *)
(***************************************************************************)
EXTENDS Naturals, Sequences

CONSTANTS
  Word,          \* a 32-bit word of a file
  Blank,         \* what a word of a new file reads as
  Words,         \* words in a save file, and here in a metadata file too
  LastIndex,     \* the last recovery name (16'hFFFF)
  Others,        \* contents of the recovery files that are there already
  InputFiles,    \* files that may lie in an input slot: [name, content]
  HostFaults     \* a subset of {"error", "garbled", "race"}

Fresh == [w \in 1 .. Words |-> Blank]

ASSUME TargetAssumption ==
  /\ Blank \in Word /\ Words \in Nat \ {0} /\ LastIndex \in Nat
  /\ Others \in [1 .. Words -> Word] /\ Others # Fresh
  /\ \A f \in InputFiles : f.name \in {"META", "SAVE", "other"} /\ f.content \in Seq(Word)
  /\ HostFaults \subseteq {"error", "garbled", "race"}

VARIABLES
  target,   \* the executor: tstate, the queues, the command, done and result
  host,     \* where the host is, what it has yet to send, its result
  card      \* the files of the input slots, the recovery files by number, and
            \* the name slot 23 is bound to

apfVars == <<target, host, card>>

Indices == 0 .. LastIndex
NoName == <<"none", 0>>
Named(n) == <<n, 0>>          \* an input file
Recovery(i) == <<"PRE", i>>   \* PREnnnn.sav

Absent == <<>>

NoCommand == [cmd |-> "none", slot |-> "DUMP"]
HostIdle == [state |-> "idle", send |-> <<>>, result |-> 0]

TargetIdle == [state |-> "IDLE", queue |-> {}, cmd |-> NoCommand, done |-> FALSE, result |-> 0]

\* The executor rests, or is at a command somebody has stopped waiting for.
TargetInit(abandoned) ==
  /\ target \in {TargetIdle} \cup
       {[TargetIdle EXCEPT !.state = "WAITRESULT", !.cmd = [cmd |-> c, slot |-> "DUMP"]] :
          c \in abandoned}
  /\ host = HostIdle
  /\ \E meta, save \in InputFiles, old \in SUBSET Indices :
       card = [META |-> meta, SAVE |-> save, bound |-> NoName,
               files |-> [i \in Indices |-> IF i \in old THEN Others ELSE Absent]]

-----------------------------------------------------------------------------
(* The executor, one clock of clk_74a.  `strobe' is the command strobed, if  *)
(* any, and `slot' the slot id on the wires now.  A queue that is cleared in *)
(* the clock of its strobe stays cleared.                                    *)

Queued(strobe) == IF strobe = "none" THEN target.queue ELSE target.queue \cup {strobe}

\* Reads go first, then writes, names and opens.
Chosen ==
  LET order == <<"read", "write", "getfile", "openfile">> IN
  order[CHOOSE n \in 1 .. 4 : order[n] \in target.queue
                              /\ \A m \in 1 .. n - 1 : order[m] \notin target.queue]

TargetClock(strobe, slot) ==
  target' =
    CASE target.state = "IDLE" /\ target.queue # {} ->
           [target EXCEPT !.state = "DATASLOTOP", !.cmd = [cmd |-> Chosen, slot |-> slot],
                          !.queue = Queued(strobe) \ {Chosen}]
      [] target.state = "DATASLOTOP" ->
           [target EXCEPT !.state = "WAITRESULT", !.done = FALSE, !.result = 0,
                          !.queue = Queued(strobe)]
      [] target.state = "WAITRESULT" /\ host.state = "ok" ->
           [target EXCEPT !.state = "IDLE", !.done = TRUE, !.result = host.result,
                          !.queue = Queued(strobe)]
      [] OTHER -> [target EXCEPT !.queue = Queued(strobe)]

\* The host's answer is read once.
HostRead == host' = IF target.state = "WAITRESULT" /\ host.state = "ok" THEN HostIdle ELSE host

-----------------------------------------------------------------------------
(* The host *)

IsBound == card.bound # NoName
BoundFile == card.bound[2]

NameIn(slot) ==
  CASE slot \in {"META", "SAVE"} -> Named(card[slot].name)
    [] slot = "BACKUP" -> card.bound
    [] slot = "DUMP" -> NoName

ContentOf(slot) ==
  CASE slot \in {"META", "SAVE"} -> card[slot].content
    [] slot = "BACKUP" -> IF IsBound THEN card.files[BoundFile] ELSE Absent
    [] slot = "DUMP" -> Absent

\* The entry of the data slot table: a length in words.
TableSize(slot) == Len(ContentOf(slot))

Working(send, result) == host' = [state |-> "working", send |-> send, result |-> result]

Garbles == "garbled" \in HostFaults

\* A transfer, and one that loses, repeats or misplaces words.
Transfers(words) ==
  {words} \cup (IF Garbles /\ words # <<>> THEN {Tail(words), words \o words, <<>>} ELSE {})

Numbered(content) == [i \in 1 .. Len(content) |-> [at |-> i, word |-> content[i]]]

\* An open: `p' is the parameter struct as the host finds it.
HostOpens(p) ==
  LET exists == card.files[p.index] # Absent IN
  /\ card' =
       IF ~exists /\ ~p.create THEN card
       ELSE [card EXCEPT !.bound = Recovery(p.index),
                         !.files[p.index] = IF exists THEN @ ELSE Fresh]
  /\ Working(<<>>, IF exists THEN 0 ELSE IF p.create THEN 1 ELSE 3)

\* A file of that name has turned up since the probe.
HostOpensRaced(p) ==
  /\ "race" \in HostFaults
  /\ p.create /\ card.files[p.index] = Absent
  /\ card' = [card EXCEPT !.bound = Recovery(p.index), !.files[p.index] = Others]
  /\ Working(<<>>, 0)

HostSendsName(slot) ==
  /\ \E words \in Transfers(<<NameIn(slot)>>) : Working(words, 0)
  /\ UNCHANGED card

HostReadsFile(slot) ==
  /\ \E words \in Transfers(Numbered(ContentOf(slot))) : Working(words, 0)
  /\ UNCHANGED card

\* `image' is what the core holds for the host to fetch; a write may be
\* reported done and have left the file as it was.
HostWrites(image) ==
  \/ IsBound /\ card' = [card EXCEPT !.files[BoundFile] = image] /\ Working(<<>>, 0)
  \/ (IsBound => Garbles) /\ UNCHANGED card /\ Working(<<>>, IF IsBound THEN 0 ELSE 5)

HostRefuses == "error" \in HostFaults /\ Working(<<>>, 5) /\ UNCHANGED card

HostTakes(p, image) ==
  /\ target.state = "WAITRESULT" /\ host.state = "idle"
  /\ LET cmd == target.cmd.cmd  slot == target.cmd.slot IN
     \/ HostRefuses
     \/ slot = "DUMP" /\ Working(<<>>, 0) /\ UNCHANGED card
     \/ slot # "DUMP" /\ cmd = "openfile" /\ (HostOpens(p) \/ HostOpensRaced(p))
     \/ slot # "DUMP" /\ cmd = "getfile" /\ HostSendsName(slot)
     \/ slot # "DUMP" /\ cmd = "read" /\ HostReadsFile(slot)
     \/ slot # "DUMP" /\ cmd = "write" /\ HostWrites(image)
  /\ UNCHANGED target

\* The next word of a name or a file is on the bridge.
HostSends ==
  /\ host.state = "working" /\ host.send # <<>>
  /\ host' = [host EXCEPT !.send = Tail(@)]

HostAnswers ==
  /\ host.state = "working" /\ host.send = <<>>
  /\ host' = [host EXCEPT !.state = "ok"]
  /\ UNCHANGED <<target, card>>

=============================================================================
