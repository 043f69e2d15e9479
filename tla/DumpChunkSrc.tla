----------------------------- MODULE DumpChunkSrc -----------------------------
(***************************************************************************)
(* The chunk source, src/fpga/services/dump/dump_chunk_src.sv: on a        *)
(* request take req_len bytes of the reader's stream into the chunk        *)
(* buffer, acknowledge, and wait for the request to fall.  ChunkClock is   *)
(* one clock of it.                                                        *)
(*                                                                         *)
(* The request comes from another clock through a synchroniser, so a clock *)
(* may not have seen its new value yet: `req' is what this clock sees.     *)
(* FLUSH stands for FLUSH and SETTLE, and lasts any number of clocks; the  *)
(* self-test ramp is a simulation hook and is left out.                    *)
(***************************************************************************)
EXTENDS Sequences, Naturals

VARIABLES
  chunk,    \* state, left, src_ready, ack
  buffer    \* what the chunk buffer holds

chunkVars == <<chunk, buffer>>

ChunkIdle == [state |-> "IDLE", left |-> 0, ready |-> FALSE, ack |-> FALSE]

ChunkInit == chunk = ChunkIdle /\ buffer = <<>>

\* The stream handshake: both sides see it in the same clock.
Takes(valid) == valid /\ chunk.ready

ChunkAbort(abort) ==
  /\ abort /\ chunk.state # "IDLE"
  /\ chunk' = [chunk EXCEPT !.state = "IDLE", !.ready = FALSE, !.ack = FALSE]
  /\ UNCHANGED buffer

ChunkRequested(req, len) ==
  /\ chunk.state = "IDLE"
  /\ IF req
     THEN chunk' = [state |-> "FILL", left |-> len, ready |-> FALSE, ack |-> FALSE] /\ buffer' = <<>>
     ELSE chunk' = [chunk EXCEPT !.ready = FALSE, !.ack = FALSE] /\ UNCHANGED buffer

\* Ready falls in the clock the last byte is taken.
ChunkFills(valid, data) ==
  /\ chunk.state = "FILL"
  /\ IF chunk.left = 0
     THEN chunk' = [chunk EXCEPT !.ready = FALSE, !.state = "FLUSH"] /\ UNCHANGED buffer
     ELSE IF Takes(valid)
     THEN /\ chunk' = [chunk EXCEPT !.left = @ - 1, !.ready = chunk.left # 1]
          /\ buffer' = Append(buffer, data)
     ELSE chunk' = [chunk EXCEPT !.ready = TRUE] /\ UNCHANGED buffer

ChunkSettles ==
  /\ chunk.state = "FLUSH"
  /\ chunk' \in {chunk, [chunk EXCEPT !.state = "ACK"]}
  /\ UNCHANGED buffer

ChunkAcknowledges(req) ==
  /\ chunk.state = "ACK"
  /\ chunk' = IF req THEN [chunk EXCEPT !.ack = TRUE]
              ELSE [chunk EXCEPT !.ack = FALSE, !.state = "IDLE"]
  /\ UNCHANGED buffer

ChunkClock(abort, req, len, valid, data) ==
  \/ ChunkAbort(abort)
  \/ /\ ~(abort /\ chunk.state # "IDLE")
     /\ \/ ChunkRequested(req, len)
        \/ ChunkFills(valid, data)
        \/ ChunkSettles
        \/ ChunkAcknowledges(req)

=============================================================================
