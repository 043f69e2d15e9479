------------------------------ MODULE GbCartBus ------------------------------
(***************************************************************************)
(* The Game Boy cartridge bus engine, src/fpga/core/gb_cart_bus.sv.        *)
(*                                                                         *)
(* One call of BusClock is one clock of the sequencer.  A transaction goes *)
(* IDLE, SETUP, STROBE, HOLD, DONE, IDLE; `req' is sampled in IDLE only,   *)
(* and not in the clock after `done' (refuse).  The three wait counts      *)
(* are left open: a phase may last any number of clocks.                   *)
(*                                                                         *)
(* A transfer is [wr, addr, data].  An address is a pair <<region, off>>:  *)
(* the mapper registers at 0x0000 ("gate"), 0x4000 ("bank") and 0x6000     *)
(* ("mode"), and the RAM window 0xA000-0xBFFF ("ram"), where off is the    *)
(* offset in the window (addr[12:0]).                                      *)
(***************************************************************************)
EXTENDS Naturals

VARIABLES
  busState,   \* state
  busDone,    \* done, one clock wide
  busRefuse,  \* refuse: deaf for the clock after done
  bus         \* latched_wr, latched_addr, latched_wdata

busVars == <<busState, busDone, busRefuse, bus>>

Gate == <<"gate", 0>>
Mode == <<"mode", 0>>
Bank == <<"bank", 0>>
Ram(off) == <<"ram", off>>

\* What the latches hold out of reset.
NoTransfer == [wr |-> FALSE, addr |-> Gate, data |-> 0]

BusInit ==
  /\ busState = "IDLE"
  /\ busDone = FALSE
  /\ busRefuse = FALSE
  /\ bus = NoTransfer

BusBusy == busState # "IDLE"

\* reset, or GB mode withdrawn: the transaction is dropped with no done.
BusDrop ==
  /\ busState' = "IDLE"
  /\ busDone' = FALSE
  /\ busRefuse' = FALSE
  /\ bus' = NoTransfer

BusListen(req, transfer) ==
  /\ busState = "IDLE"
  /\ busDone' = FALSE
  /\ busRefuse' = FALSE
  /\ IF req /\ ~busRefuse
     THEN busState' = "SETUP" /\ bus' = transfer
     ELSE UNCHANGED <<busState, bus>>

\* wait_count has not run out.
BusDwell ==
  /\ busState \in {"SETUP", "STROBE", "HOLD"}
  /\ busDone' = FALSE
  /\ UNCHANGED <<busState, busRefuse, bus>>

BusAdvance ==
  /\ \/ busState = "SETUP"  /\ busState' = "STROBE"
     \/ busState = "STROBE" /\ busState' = "HOLD"
     \/ busState = "HOLD"   /\ busState' = "DONE"
  /\ busDone' = FALSE
  /\ UNCHANGED <<busRefuse, bus>>

BusFinish ==
  /\ busState = "DONE"
  /\ busState' = "IDLE"
  /\ busDone' = TRUE
  /\ busRefuse' = TRUE
  /\ UNCHANGED bus

BusClock(gbMode, req, transfer) ==
  \/ ~gbMode /\ BusDrop
  \/ gbMode /\ BusListen(req, transfer)
  \/ gbMode /\ BusDwell
  \/ gbMode /\ BusAdvance
  \/ gbMode /\ BusFinish

\* /WR rises at the end of STROBE with address and data still held: the edge
\* on which the cartridge latches.
WriteEdge == busState = "STROBE" /\ bus.wr /\ busState' = "HOLD"

=============================================================================
