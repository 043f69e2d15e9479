---------------------------- MODULE ApfFileWriter ----------------------------
(***************************************************************************)
(* The file writer, src/fpga/services/dump/apf_file_writer.sv, on its      *)
(* native path: open the file, then for every chunk ask for it, wait for   *)
(* it and hand it to the host.  A step is one clock of clk_74a, and the    *)
(* host answers a command when it likes.                                   *)
(*                                                                         *)
(* Not here: the strict path of Game Gear dumps (probe_only and            *)
(* require_created), the flush (USE_FLUSH is off in the build), and a host *)
(* that never answers, whose command would stay outstanding below.         *)
(***************************************************************************)
EXTENDS Sequences, Naturals

CONSTANT
  ChunkBytes   \* CHUNK_BYTES (4096)

ASSUME ChunkAssumption == ChunkBytes \in Nat \ {0}

VARIABLES
  fw,       \* state, written, aborting, chunk_req, failed, failed_open
  command,  \* the command the host has: "none", "open" or "write"
  file      \* what the file on the card holds

writerVars == <<fw, command, file>>

WriterStates ==
  {"IDLE", "OPEN", "OPEN_WAIT", "ASK", "ASK_WAIT", "WRITE", "WRITE_WAIT",
   "DONE", "FAIL"}

FileWriterInit ==
  /\ fw = [state |-> "IDLE", written |-> 0, aborting |-> FALSE, req |-> FALSE,
           failed |-> FALSE, failedOpen |-> FALSE]
  /\ command = "none"
  /\ file = <<>>

\* this_len, and chunk_len while a chunk is asked for.
ChunkLen(total) ==
  IF total - fw.written > ChunkBytes THEN ChunkBytes ELSE total - fw.written

\* Every clock of a busy writer latches the abort.
Heeding(abort) == [fw EXCEPT !.aborting = @ \/ abort]

WriterStarts(skipOpen) ==
  /\ fw.state = "IDLE"
  /\ fw' = [state |-> IF skipOpen THEN "ASK" ELSE "OPEN", written |-> 0,
            aborting |-> FALSE, req |-> FALSE, failed |-> FALSE, failedOpen |-> FALSE]
  /\ UNCHANGED <<command, file>>

OpenIssued(abort) ==
  /\ fw.state = "OPEN"
  /\ command' = "open"
  /\ fw' = [Heeding(abort) EXCEPT !.state = "OPEN_WAIT"]
  /\ UNCHANGED file

\* Asking for a chunk and waiting for it: the two states where nothing is
\* outstanding at the host, so where an abort is taken.
Ask(abort) ==
  /\ fw.state = "ASK"
  /\ fw' = IF fw.aborting THEN [Heeding(abort) EXCEPT !.state = "FAIL"]
           ELSE [Heeding(abort) EXCEPT !.req = TRUE, !.state = "ASK_WAIT"]
  /\ UNCHANGED <<command, file>>

\* The wait for a chunk is not given up.
ChunkAwaitedOnly(abort, ack) ==
  /\ fw.state = "ASK_WAIT"
  /\ fw' = IF ack THEN [Heeding(abort) EXCEPT !.req = FALSE, !.state = "WRITE"]
           ELSE Heeding(abort)
  /\ UNCHANGED <<command, file>>
ChunkAwaited(abort, ack) ==
  /\ fw.state = "ASK_WAIT"
  /\ fw' = IF fw.aborting THEN [Heeding(abort) EXCEPT !.req = FALSE, !.state = "FAIL"]
           ELSE IF ack THEN [Heeding(abort) EXCEPT !.req = FALSE, !.state = "WRITE"]
           ELSE Heeding(abort)
  /\ UNCHANGED <<command, file>>

WriteIssued(abort) ==
  /\ fw.state = "WRITE"
  /\ command' = "write"
  /\ fw' = [Heeding(abort) EXCEPT !.state = "WRITE_WAIT"]
  /\ UNCHANGED file

\* The host opens the file, which creates it and gives it its size, or refuses.
OpenAnswered(ok, abort, total) ==
  /\ fw.state = "OPEN_WAIT" /\ command = "open"
  /\ command' = "none"
  /\ file' = IF ok THEN <<>> ELSE file
  /\ fw' = LET w == Heeding(abort) IN
           IF fw.aborting THEN [w EXCEPT !.state = "FAIL"]
           ELSE IF ~ok THEN [w EXCEPT !.failedOpen = TRUE, !.state = "FAIL"]
           ELSE [w EXCEPT !.state = IF total = 0 THEN "DONE" ELSE "ASK"]

\* Bytes put into a file at an offset; what the file holds beyond them stays.
PutAt(f, offset, bytes) ==
  SubSeq(f, 1, offset) \o bytes \o SubSeq(f, offset + Len(bytes) + 1, Len(f))

\* The host has read the chunk buffer and put it at slotoffset, or failed to.
WriteAnswered(ok, abort, total, buffer) ==
  /\ fw.state = "WRITE_WAIT" /\ command = "write"
  /\ command' = "none"
  /\ file' = IF ok THEN PutAt(file, fw.written, buffer) ELSE file
  /\ fw' = LET w == Heeding(abort) IN
           IF fw.aborting \/ ~ok THEN [w EXCEPT !.state = "FAIL"]
           ELSE [w EXCEPT !.written = @ + ChunkLen(total),
                          !.state = IF fw.written + ChunkLen(total) = total
                                    THEN "DONE" ELSE "ASK"]

\* The one clock of done; the result stands until the next start.
WriterReports ==
  /\ fw.state \in {"DONE", "FAIL"}
  /\ fw' = [fw EXCEPT !.state = "IDLE", !.failed = fw.state = "FAIL"]
  /\ UNCHANGED <<command, file>>

=============================================================================
