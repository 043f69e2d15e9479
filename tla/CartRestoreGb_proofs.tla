-------------------------- MODULE CartRestoreGb_proofs --------------------------
(* Proofs that CartRestoreGb, for every image, bank size and number of banks, *)
(* keeps the invariant of CartRestoreGbInv and the properties it carries.     *)
EXTENDS CartRestoreGbInv, TLAPS

-----------------------------------------------------------------------------
(* The save as a sequence of cells *)

\* The byte after one that is not the last of a save is in the save.
LEMMA FollowingInSave ==
  ASSUME NEW g \in Geometry, NEW c \in CellsOf(g),
         c # <<g.banks - 1, BankBytes - 1>>
  PROVE  Following(c) \in CellsOf(g)
  BY CartAssumption, SMT DEF Geometry, CellsOf, Cell, Following

\* Nothing lies between a byte and the one that follows it.
LEMMA FollowingIsNext ==
  ASSUME NEW c \in Cell, NEW d \in Cell, Precedes(d, Following(c))
  PROVE  Precedes(d, c) \/ d = c
  BY CartAssumption, SMT DEF Cell, Precedes, Following

LEMMA FollowingIsLater ==
  ASSUME NEW c \in Cell, NEW d \in Cell, Precedes(Following(c), d)
  PROVE  Precedes(c, d)
  BY CartAssumption, SMT DEF Cell, Precedes, Following

\* The last byte of a save comes after all the others.
LEMMA LastIsLast ==
  ASSUME NEW g \in Geometry, NEW c \in CellsOf(g)
  PROVE  Precedes(c, <<g.banks - 1, BankBytes - 1>>) \/ c = <<g.banks - 1, BankBytes - 1>>
  BY CartAssumption, SMT DEF Geometry, CellsOf, Cell, Precedes

LEMMA NothingBeforeFirst ==
  ASSUME NEW c \in Cell
  PROVE  ~Precedes(c, <<0, 0>>)
  BY CartAssumption, SMT DEF Cell, Precedes

-----------------------------------------------------------------------------
(* The registers of the cartridge *)

LEMMA RegisterNames ==
  /\ Gate \in Address /\ Mode \in Address /\ Bank \in Address
  /\ \A o \in 0 .. BankBytes - 1 : Ram(o) \in Address
  BY DEF Address

LEMMA RegistersDiffer ==
  /\ Gate # Mode /\ Gate # Bank /\ Mode # Bank
  /\ Gate[1] # "ram" /\ Mode[1] # "ram" /\ Bank[1] # "ram"
  BY SMT DEF Gate, Mode, Bank

LEMMA RamRegister ==
  ASSUME NEW o
  PROVE  /\ Ram(o)[1] = "ram" /\ Ram(o)[2] = o
         /\ Ram(o) # Gate /\ Ram(o) # Mode /\ Ram(o) # Bank
  BY SMT DEF Gate, Mode, Bank, Ram

LEMMA RamAddress ==
  ASSUME NEW a \in Address, a[1] = "ram"
  PROVE  a[2] \in 0 .. BankBytes - 1
  BY RegistersDiffer, RamRegister DEF Address

-----------------------------------------------------------------------------
(* Types *)

LEMMA TypeInit == Init => TypeInv
  <1> SUFFICES ASSUME Init PROVE TypeInv
    OBVIOUS
  <1>1. First \in Cell /\ sourceOffset \in CellsOf(geom) /\ geom \in Geometry
    BY CartAssumption, SMT DEF Init, CellsOf, Cell, Geometry, First
  <1>2. NoTransfer \in Transfer /\ WellFormed(NoTransfer)
    BY RegisterNames, RegistersDiffer, SMT DEF NoTransfer, Transfer, WellFormed
  <1>3. RegisterType
    BY <1>1, <1>2 DEF Init, RegisterType, WriterStates, Continuations, First
  <1>4. sourceQ \in Byte /\ ram \in [Cell -> Byte] /\ original \in [Cell -> Byte]
    BY <1>1, ImageAssumption, SMT DEF Init, First
  <1>5. bankReg \in Nat /\ modeReg \in Nat
    BY CartAssumption, SMT DEF Init
  <1>6. busState = "IDLE" /\ bus = NoTransfer
    BY DEF Init, BusInit
  <1>7. busDone \in BOOLEAN
    BY DEF Init, BusInit
  <1>8. busRefuse \in BOOLEAN
    BY DEF Init, BusInit
  <1>9. gate \in BOOLEAN /\ staged \in Image /\ chip \in Geometry /\ in \in Input
    BY DEF Init, BusInit
  <1>10. TypeOK
    BY <1>2, <1>3, <1>4, <1>5, <1>6, <1>7, <1>8, <1>9 DEF TypeOK
  <1> QED
    BY <1>1, <1>2, <1>6, <1>10, SMT DEF Init, TypeInv

\* The transfer a state queues is well formed.
LEMMA QueueType ==
  ASSUME TypeInv,
         NEW a \in Address, NEW p \in Nat, NEW n \in Continuations, NEW d \in BOOLEAN,
         a[1] = "ram" => p \in Byte,
         a = Bank => p \in 0 .. MaxBanks - 1,
         QueueWrite(a, p, n, d)
  PROVE  /\ transfer' \in Transfer /\ WellFormed(transfer')
         /\ afterTransfer' \in Continuations /\ dataTransfer' \in BOOLEAN
         /\ pending' \in BOOLEAN
         /\ state' \in {state, "ACCEPT"}
         /\ UNCHANGED <<sourceOffset, sourceByte, allWritten>>
  <1>1. [wr |-> TRUE, addr |-> a, data |-> p] \in Transfer
    BY DEF Transfer
  <1>2. CASE BusAvailable
    <2>1. transfer' = [wr |-> TRUE, addr |-> a, data |-> p]
      BY <1>2 DEF QueueWrite
    <2>2. WellFormed(transfer')
      BY <2>1, SMT DEF WellFormed
    <2>3. afterTransfer' = n
      BY <1>2 DEF QueueWrite
    <2>4. dataTransfer' = d
      BY <1>2 DEF QueueWrite
    <2>5. pending' = TRUE /\ state' = "ACCEPT"
      BY <1>2 DEF QueueWrite
    <2>6. UNCHANGED <<sourceOffset, sourceByte, allWritten>>
      BY DEF QueueWrite, progress
    <2> QED
      BY <1>1, <2>1, <2>2, <2>3, <2>4, <2>5, <2>6
  <1>3. CASE ~BusAvailable
    <2>1. UNCHANGED <<transfer, afterTransfer, dataTransfer, pending, state>>
      BY <1>3 DEF QueueWrite, queued
    <2>2. UNCHANGED <<sourceOffset, sourceByte, allWritten>>
      BY DEF QueueWrite, progress
    <2> QED
      BY <2>1, <2>2 DEF TypeInv, TypeOK, RegisterType, WellFormed
  <1> QED
    BY <1>2, <1>3

WriterTypeInv ==
  /\ RegisterType
  /\ WellFormed(transfer)
  /\ sourceOffset \in CellsOf(geom)
  /\ busy /\ state = "WRITE" => sourceByte \in Byte

LEMMA RunClockType ==
  ASSUME RunClock
  PROVE  /\ done' \in BOOLEAN /\ busy' \in BOOLEAN /\ cancelled' \in BOOLEAN
         /\ failed' \in BOOLEAN /\ geom' = geom /\ busy
  <1>1. (cancelled \/ CancelNow) \in BOOLEAN /\ (failed \/ CancelNow) \in BOOLEAN
    OBVIOUS
  <1> QED
    BY <1>1 DEF RunClock, Running

\* A clock that queues a transfer, or waits to.
LEMMA QueueClockType ==
  ASSUME TypeInv, RunClock, cleanup' \in BOOLEAN,
         NEW a \in Address, NEW p \in Nat, NEW n \in Continuations, NEW d \in BOOLEAN,
         a[1] = "ram" => p \in Byte,
         a = Bank => p \in 0 .. MaxBanks - 1,
         QueueWrite(a, p, n, d)
  PROVE  WriterTypeInv'
  <1>1. RegisterType'
    BY RunClockType, QueueType DEF TypeInv, TypeOK, RegisterType, WriterStates
  <1>2. sourceOffset' \in CellsOf(geom)' /\ WellFormed(transfer)'
    BY RunClockType, QueueType DEF TypeInv, CellsOf, WellFormed
  <1>3. busy' /\ state' = "WRITE" => sourceByte' \in Byte
    BY RunClockType, QueueType DEF TypeInv
  <1> QED
    BY <1>1, <1>2, <1>3 DEF WriterTypeInv

\* A clock that queues nothing and leaves the offset alone.
LEMMA QuietClockType ==
  ASSUME TypeInv, RunClock, cleanup' \in BOOLEAN, pending' \in BOOLEAN,
         state' \in WriterStates, allWritten' \in BOOLEAN,
         UNCHANGED <<afterTransfer, transfer, dataTransfer, sourceOffset>>,
         sourceByte' \in Nat,
         state' = "WRITE" => sourceByte' \in Byte
  PROVE  WriterTypeInv'
  BY RunClockType DEF TypeInv, TypeOK, RegisterType, WriterTypeInv, CellsOf, WellFormed

LEMMA WriterTypeStep ==
  ASSUME TypeInv, WriterClock
  PROVE  WriterTypeInv'
  <1> USE CartAssumption, RegisterNames, RegistersDiffer
  <1>0. /\ sourceOffset \in Cell /\ sourceOffset \in CellsOf(geom)
        /\ sourceOffset[1] \in 0 .. MaxBanks - 1 /\ sourceOffset[2] \in 0 .. BankBytes - 1
        /\ cleanup \in BOOLEAN /\ pending \in BOOLEAN /\ state \in WriterStates
        /\ allWritten \in BOOLEAN /\ afterTransfer \in Continuations
        /\ sourceByte \in Nat /\ sourceQ \in Byte /\ sourceQ \in Nat
        /\ geom \in Geometry /\ dataTransfer \in BOOLEAN
    BY DEF TypeInv, TypeOK, RegisterType, Cell
  <1>1. CASE CancelIntoCleanup
    BY <1>0, <1>1, QuietClockType DEF CancelIntoCleanup, queued, progress, WriterStates
  <1>2. CASE DisableInitial
    <2>1. (IF geom.mbc1 THEN "MODE_INITIAL" ELSE "BANK_INITIAL") \in Continuations
      BY DEF Continuations
    <2> QED
      BY <1>0, <1>2, <2>1, QueueClockType DEF DisableInitial, Step
  <1>3. CASE ModeInitial
    BY <1>0, <1>3, QueueClockType DEF ModeInitial, Step, Continuations
  <1>4. CASE BankInitial
    <2>1. 0 \in 0 .. MaxBanks - 1
      BY SMT
    <2> QED
      BY <1>0, <1>4, <2>1, QueueClockType DEF BankInitial, Step, Continuations
  <1>5. CASE Enable
    BY <1>0, <1>5, QueueClockType DEF Enable, Step, Continuations
  <1>6. CASE SourceWait
    BY <1>0, <1>6, QuietClockType DEF SourceWait, Step, queued, progress, WriterStates
  <1>7. CASE SourceCapture
    BY <1>0, <1>7, QuietClockType DEF SourceCapture, Step, queued, WriterStates
  <1>8. CASE WriteByte
    <2>1. sourceByte \in Byte /\ RunClock /\ cleanup' \in BOOLEAN
      BY <1>0, <1>8 DEF WriteByte, Step, TypeInv, RunClock, Running
    <2>2. Ram(sourceOffset[2]) \in Address /\ Ram(sourceOffset[2]) # Bank
      BY <1>0, RamRegister
    <2> QED
      BY <1>0, <1>8, <2>1, <2>2, QueueClockType DEF WriteByte, Continuations
  <1>9. CASE BankNext
    <2>1. sourceOffset[1] \in Nat
      BY <1>0
    <2> QED
      BY <1>0, <1>9, <2>1, QueueClockType DEF BankNext, Step, Continuations
  <1>10. CASE Accept
    BY <1>0, <1>10, QuietClockType DEF Accept, Step, queued, progress, WriterStates
  <1>11. CASE WaitForBus
    BY <1>0, <1>11, QuietClockType DEF WaitForBus, Step, queued, progress, WriterStates
  <1>12. CASE TransferDone
    <2>1. RunClock /\ UNCHANGED <<queued, sourceByte, pending>>
      BY <1>12 DEF TransferDone, Step
    <2>2. state' \in Continuations /\ cleanup' \in BOOLEAN /\ allWritten' \in BOOLEAN
      BY <1>0, <1>12 DEF TransferDone, Continuations
    <2>3. sourceOffset' \in CellsOf(geom)
      <3>1. CASE dataTransfer /\ ~AtLast
        BY <1>0, <1>12, <3>1, FollowingInSave DEF TransferDone, AtLast, Last
      <3>2. CASE ~(dataTransfer /\ ~AtLast)
        BY <1>0, <1>12, <3>2 DEF TransferDone
      <3> QED
        BY <3>1, <3>2
    <2>4. sourceOffset' \in Cell
      BY <2>3 DEF CellsOf
    <2>5. RegisterType'
      BY <1>0, <2>1, <2>2, <2>4, RunClockType
      DEF TypeInv, TypeOK, RegisterType, WriterStates, Continuations, queued
    <2>6. state' # "WRITE"
      BY <2>2 DEF Continuations
    <2> QED
      BY <1>0, <2>1, <2>3, <2>5, <2>6, RunClockType
      DEF TypeInv, WriterTypeInv, CellsOf, WellFormed, queued
  <1>13. CASE DisableFinal
    <2>1. (IF geom.mbc1 THEN "MODE_FINAL" ELSE "DONE") \in Continuations
      BY DEF Continuations
    <2> QED
      BY <1>0, <1>13, <2>1, QueueClockType DEF DisableFinal, Step
  <1>14. CASE ModeFinal
    BY <1>0, <1>14, QueueClockType DEF ModeFinal, Step, Continuations
  <1>15. CASE Finish
    <2>1. (CancelRun \/ ~allWritten) \in BOOLEAN /\ (cancelled \/ CancelNow) \in BOOLEAN
      OBVIOUS
    <2>2. transfer' \in Transfer /\ WellFormed(transfer')
      BY <1>15 DEF Finish, TypeInv, TypeOK, RegisterType, Transfer, WellFormed
    <2>3. RegisterType'
      BY <1>0, <1>15, <2>1, <2>2 DEF Finish, progress, TypeInv, TypeOK, RegisterType
    <2> QED
      BY <1>0, <1>15, <2>2, <2>3 DEF Finish, progress, WriterTypeInv, CellsOf
  <1>16. CASE ResetWriter
    <2>1. geom' \in Geometry /\ First \in CellsOf(geom') /\ First \in Cell
      BY <1>16, SMT DEF ResetWriter, Geometry, CellsOf, Cell, First
    <2>2. NoTransfer \in Transfer /\ WellFormed(NoTransfer)
      BY DEF NoTransfer, Transfer, WellFormed
    <2>3. RegisterType'
      BY <1>16, <2>1, <2>2 DEF ResetWriter, RegisterType, WriterStates, Continuations, First
    <2> QED
      BY <1>16, <2>1, <2>2, <2>3 DEF ResetWriter, WriterTypeInv, First
  <1>17. CASE PowerLost \/ RefuseStart \/ IdleClock
    <2>1. RegisterType'
      BY <1>17 DEF PowerLost, RefuseStart, IdleClock, queued, progress, TypeInv,
                   TypeOK, RegisterType
    <2> QED
      BY <1>17, <2>1 DEF PowerLost, RefuseStart, IdleClock, queued, progress, TypeInv,
                         WriterTypeInv, WellFormed, CellsOf
  <1>18. CASE StartRun
    <2>1. geom' \in Geometry /\ First \in CellsOf(geom') /\ First \in Cell
      BY <1>18, SMT DEF StartRun, TypeInv, TypeOK, Geometry, CellsOf, Cell, First
    <2>2. RegisterType'
      BY <1>18, <2>1 DEF StartRun, TypeInv, TypeOK, RegisterType, WriterStates, First
    <2> QED
      BY <1>18, <2>1, <2>2 DEF StartRun, TypeInv, WriterTypeInv, WellFormed, First
  <1> QED
    BY <1>1, <1>2, <1>3, <1>4, <1>5, <1>6, <1>7, <1>8, <1>9, <1>10, <1>11, <1>12,
       <1>13, <1>14, <1>15, <1>16, <1>17, <1>18
    DEF WriterClock

LEMMA BusTypeStep ==
  ASSUME TypeInv, BusClock(in.powered, BusReq, transfer)
  PROVE  /\ busState' \in {"IDLE", "SETUP", "STROBE", "HOLD", "DONE"}
         /\ busDone' \in BOOLEAN /\ busRefuse' \in BOOLEAN
         /\ bus' \in Transfer /\ WellFormed(bus')
  <1>1. NoTransfer \in Transfer /\ WellFormed(NoTransfer)
    BY RegisterNames, RegistersDiffer DEF NoTransfer, Transfer, WellFormed
  <1>2. /\ bus \in Transfer /\ transfer \in Transfer
        /\ WellFormed(bus) /\ WellFormed(transfer)
        /\ busState \in {"IDLE", "SETUP", "STROBE", "HOLD", "DONE"}
        /\ busRefuse \in BOOLEAN
    BY DEF TypeInv, TypeOK, RegisterType
  <1>3. CASE BusDrop
    BY <1>1, <1>3 DEF BusDrop
  <1>4. CASE BusListen(BusReq, transfer)
    BY <1>2, <1>4 DEF BusListen
  <1>5. CASE BusDwell \/ BusAdvance \/ BusFinish
    BY <1>2, <1>5 DEF BusDwell, BusAdvance, BusFinish
  <1> QED
    BY <1>3, <1>4, <1>5 DEF BusClock

\* A byte that reaches RAM lands in a cell.
LEMMA SelectedCell ==
  ASSUME TypeInv, bus.addr[1] = "ram"
  PROVE  <<Selected(chip), bus.addr[2]>> \in Cell
  <1>1. bus.addr[2] \in 0 .. BankBytes - 1
    BY RamAddress DEF TypeInv, TypeOK, Transfer
  <1>2. Selected(chip) \in 0 .. MaxBanks - 1
    BY CartAssumption, SMT DEF Selected, TypeInv
  <1> QED
    BY <1>1, <1>2 DEF Cell

LEMMA CartTypeStep ==
  ASSUME TypeInv, CartClock(chip, in.powered)
  PROVE  /\ gate' \in BOOLEAN
         /\ bankReg' \in 0 .. MaxBanks - 1
         /\ modeReg' \in Nat
         /\ ram' \in [Cell -> Byte]
  <1>1. /\ gate \in BOOLEAN /\ bankReg \in 0 .. MaxBanks - 1 /\ modeReg \in Nat
        /\ ram \in [Cell -> Byte] /\ bus.data \in Nat
        /\ bus.addr[1] = "ram" => bus.data \in Byte
        /\ bus.addr = Bank => bus.data \in 0 .. MaxBanks - 1
    BY DEF TypeInv, TypeOK, WellFormed, Transfer
  <1>2. CASE ~in.powered
    <2>1. gate' = FALSE /\ bankReg' = 0 /\ modeReg' = 0
      BY <1>2 DEF CartClock, CartPowerLoss
    <2>3. 0 \in 0 .. MaxBanks - 1
      BY CartAssumption, SMT
    <2>2. ram' \in [Cell -> Byte]
      BY <1>1, <1>2, SelectedCell DEF CartClock, CartPowerLoss
    <2> QED
      BY <2>1, <2>2, <2>3
  <1>3. CASE in.powered /\ WriteEdge
    <2>1. gate' \in BOOLEAN
      BY <1>1, <1>3 DEF CartClock, CartLatch
    <2>2. bankReg' \in 0 .. MaxBanks - 1 /\ modeReg' \in Nat
      BY <1>1, <1>3 DEF CartClock, CartLatch
    <2>3. ram' \in [Cell -> Byte]
      BY <1>1, <1>3, SelectedCell DEF CartClock, CartLatch
    <2> QED
      BY <2>1, <2>2, <2>3
  <1>4. CASE in.powered /\ ~WriteEdge
    BY <1>1, <1>4 DEF CartClock, cartVars
  <1> QED
    BY <1>2, <1>3, <1>4

LEMMA TypeStep ==
  ASSUME TypeInv, [Next]_vars
  PROVE  TypeInv'
  <1>1. CASE Next
    <2>1. WriterTypeInv'
      BY <1>1, WriterTypeStep DEF Next
    <2>2. ram' \in [Cell -> Byte] /\ bankReg' \in 0 .. MaxBanks - 1 /\ modeReg' \in Nat
          /\ gate' \in BOOLEAN
      BY <1>1, CartTypeStep DEF Next
    <2>3. /\ staged' \in Image /\ chip' \in Geometry
          /\ sourceQ' \in Byte /\ original' \in [Cell -> Byte]
      BY <1>1, <2>2, ImageAssumption DEF Next, SourceClock, TypeInv, TypeOK, RegisterType
    <2>4. bankReg' \in Nat
      BY <2>2, CartAssumption, SMT
    <2>5. in' \in Input
      BY <1>1 DEF Next
    <2>6. /\ busState' \in {"IDLE", "SETUP", "STROBE", "HOLD", "DONE"}
          /\ busDone' \in BOOLEAN /\ busRefuse' \in BOOLEAN
          /\ bus' \in Transfer /\ WellFormed(bus')
      BY <1>1, BusTypeStep DEF Next
    <2>7. TypeOK'
      BY <2>1, <2>2, <2>3, <2>4, <2>5, <2>6 DEF WriterTypeInv, TypeOK
    <2> QED
      BY <2>1, <2>2, <2>6, <2>7 DEF WriterTypeInv, TypeInv, WellFormed
  <1>2. CASE UNCHANGED vars
    BY <1>2 DEF vars, writerVars, envVars, busVars, cartVars, TypeInv, TypeOK,
                RegisterType, WellFormed, CellsOf
  <1> QED
    BY <1>1, <1>2

\* Every register of the writer and of the bus, every register of the
\* cartridge and every byte of its RAM keeps its type, and the writer's offset
\* stays in the save, whatever the inputs do.
THEOREM TypeCorrect == Spec => []TypeOK
  <1>1. TypeInv => TypeOK
    BY DEF TypeInv
  <1> QED
    BY TypeInit, TypeStep, <1>1, PTL DEF Spec

-----------------------------------------------------------------------------
(* The writer and the bus *)

Waiting == busy /\ state = "WAIT"

LEMMA BusFree ==
  ASSUME BusInv, ~Waiting
  PROVE  BusAvailable /\ busState = "IDLE" /\ busDone = FALSE /\ busRefuse = FALSE
  BY DEF BusInv, Waiting, BusAvailable, BusBusy

LEMMA RequestIsAccepted ==
  ASSUME BusInv, BusReq
  PROVE  busy /\ in.powered /\ pending /\ state = "ACCEPT" /\ ~Waiting
  BY DEF BusInv, BusReq, Waiting

\* Outside a transaction nothing happens on the bus but the start of one, and
\* a powered cartridge keeps what it has.
LEMMA IdleBus ==
  ASSUME BusInv, ~Waiting,
         BusClock(in.powered, BusReq, transfer), CartClock(chip, in.powered)
  PROVE  /\ busDone' = FALSE /\ busRefuse' = FALSE
         /\ BusReq => busState' = "SETUP" /\ bus' = transfer
         /\ ~BusReq => busState' = "IDLE"
         /\ in.powered => UNCHANGED cartVars
  <1>1. busState = "IDLE" /\ busDone = FALSE /\ busRefuse = FALSE
    BY BusFree
  <1>2. ~WriteEdge
    BY <1>1 DEF WriteEdge
  <1>3. in.powered => UNCHANGED cartVars
    BY <1>2 DEF CartClock
  <1>4. CASE ~in.powered
    BY <1>3, <1>4 DEF BusClock, BusDrop, BusReq
  <1>5. CASE in.powered
    BY <1>1, <1>3, <1>5 DEF BusClock, BusListen, BusDwell, BusAdvance, BusFinish
  <1> QED
    BY <1>4, <1>5

\* The power takes bus and run with it.
LEMMA PowerOff ==
  ASSUME WriterClock, ~in.powered, TypeInv, BusInv
  PROVE  busy' = FALSE /\ pending' = FALSE
  <1>1. PowerLost \/ ResetWriter \/ RefuseStart \/ IdleClock
    BY DEF WriterClock, CancelIntoCleanup, DisableInitial, ModeInitial, BankInitial,
       Enable, SourceWait, SourceCapture, WriteByte, BankNext, Accept, WaitForBus,
       TransferDone, DisableFinal, ModeFinal, Finish, Step, RunClock, Running,
       StartRun, StartAllowed
  <1> QED
    BY <1>1 DEF PowerLost, ResetWriter, RefuseStart, IdleClock, BusInv, TypeInv, TypeOK,
       RegisterType

\* Every clock of a powered run outside a transaction.
Sequencing ==
  \/ CancelIntoCleanup
  \/ DisableInitial \/ ModeInitial \/ BankInitial \/ Enable
  \/ SourceWait \/ SourceCapture \/ WriteByte \/ BankNext
  \/ DisableFinal \/ ModeFinal

LEMMA BusInvStep ==
  ASSUME TypeInv, BusInv, Next
  PROVE  BusInv'
  <1> USE DEF BusBusy, Waiting, WaitHasTransaction
  <1>0. /\ WriterClock /\ BusClock(in.powered, BusReq, transfer)
        /\ CartClock(chip, in.powered)
    BY DEF Next
  <1>1. CASE ~in.powered
    <2>1. busState' = "IDLE" /\ busDone' = FALSE /\ busRefuse' = FALSE
      BY <1>0, <1>1 DEF BusClock, BusDrop
    <2> QED
      BY <1>0, <1>1, <2>1, PowerOff DEF BusInv
  <1>2. CASE in.powered /\ ~Waiting /\ ~BusReq
    <2>1. busState' = "IDLE" /\ busDone' = FALSE /\ busRefuse' = FALSE
      BY <1>0, <1>2, IdleBus
    <2>2. SUFFICES /\ busy' => state' # "WAIT"
                   /\ pending' <=> busy' /\ state' = "ACCEPT"
      BY <2>1 DEF BusInv
    <2>3. CASE Sequencing
      BY <1>2, <2>3, BusFree
      DEF Sequencing, CancelIntoCleanup, DisableInitial, ModeInitial, BankInitial,
       Enable, SourceWait, SourceCapture, WriteByte, BankNext,
       DisableFinal, ModeFinal, Step, RunClock, QueueWrite, BusInv
    <2>4. CASE Accept
      <3>1. busy /\ busy' /\ state = "ACCEPT" /\ pending
        BY <2>4 DEF Accept, Step, RunClock, Running, BusInv
      <3>2. \/ pending' = FALSE /\ state' = "DISABLE_FINAL"
            \/ UNCHANGED <<pending, state>>
        BY <1>2, <2>4 DEF Accept
      <3> QED
        BY <3>1, <3>2
    <2>5. CASE Finish \/ ResetWriter \/ PowerLost \/ StartRun \/ RefuseStart \/ IdleClock
      BY <1>2, <2>5 DEF Finish, ResetWriter, PowerLost, StartRun, RefuseStart,
                        IdleClock, BusInv, Running, progress, queued
    <2>6. ~WaitForBus /\ ~TransferDone
      BY <1>2 DEF WaitForBus, TransferDone, Step, RunClock, Running
    <2> QED
      BY <1>0, <2>3, <2>4, <2>5, <2>6 DEF WriterClock, Sequencing
  <1>3. CASE BusReq
    <2>1. Accept
      BY <1>0, <1>3, RequestIsAccepted
      DEF WriterClock, CancelIntoCleanup, DisableInitial, ModeInitial, BankInitial,
       Enable, SourceWait, SourceCapture, WriteByte, BankNext, Diverted, WaitForBus,
       TransferDone, DisableFinal, ModeFinal, Finish, Step, RunClock, Running,
       ResetWriter, PowerLost, StartRun, RefuseStart, IdleClock
    <2>2. /\ busState' = "SETUP" /\ bus' = transfer
          /\ busDone' = FALSE /\ busRefuse' = FALSE
      BY <1>0, <1>3, IdleBus, RequestIsAccepted
    <2>3. busy' /\ state' = "WAIT" /\ pending' = FALSE /\ transfer' = transfer
      BY <1>3, <2>1 DEF Accept, Step, RunClock, queued
    <2> QED
      BY <2>2, <2>3 DEF BusInv
  <1>4. CASE in.powered /\ Waiting
    <2>1. WaitForBus \/ TransferDone
      BY <1>0, <1>4
      DEF WriterClock, CancelIntoCleanup, DisableInitial, ModeInitial, BankInitial,
       Enable, SourceWait, SourceCapture, WriteByte, BankNext, Diverted, Accept,
       DisableFinal, ModeFinal, Finish, Step, RunClock, Running,
       ResetWriter, PowerLost, StartRun, RefuseStart, IdleClock
    <2>2. ~BusReq
      BY <1>4, RequestIsAccepted
    <2>3. CASE WaitForBus
      <3>1. BusDwell \/ BusAdvance \/ BusFinish
        BY <1>0, <1>4, <2>2, <2>3 DEF BusClock, BusListen, WaitForBus, BusInv
      <3>2. /\ busy' /\ state' = "WAIT" /\ pending' = FALSE /\ transfer' = transfer
            /\ bus' = bus /\ bus = transfer
        BY <1>4, <2>3, <3>1 DEF WaitForBus, Step, RunClock, queued, BusInv,
           BusDwell, BusAdvance, BusFinish
      <3>3. busDone = FALSE /\ busRefuse = FALSE /\ busState # "IDLE"
        BY <1>4, <2>3 DEF WaitForBus, BusInv
      <3>4. CASE BusDwell \/ BusAdvance
        BY <3>2, <3>3, <3>4 DEF BusDwell, BusAdvance, BusInv
      <3>5. CASE BusFinish
        BY <3>2, <3>5 DEF BusFinish, BusInv
      <3> QED
        BY <3>1, <3>4, <3>5
    <2>4. CASE TransferDone
      <3>1. busState' = "IDLE" /\ busDone' = FALSE /\ busRefuse' = FALSE
        BY <1>0, <1>4, <2>2, <2>4
        DEF BusClock, BusListen, TransferDone, BusInv, BusDwell, BusAdvance, BusFinish
      <3>2. /\ pending' = FALSE /\ state' # "ACCEPT" /\ state' # "WAIT"
        BY <1>4, <2>4 DEF TransferDone, BusInv, TypeInv, TypeOK, RegisterType, Continuations
      <3> QED
        BY <3>1, <3>2 DEF BusInv
    <2> QED
      BY <2>1, <2>3, <2>4
  <1> QED
    BY <1>1, <1>2, <1>3, <1>4, RequestIsAccepted

-----------------------------------------------------------------------------
(* The writer and the cartridge *)

\* A clock in which a run goes on, with the cartridge untouched.
Steady ==
  /\ busy /\ busy' = TRUE /\ done' = FALSE
  /\ UNCHANGED <<geom, chip, staged, original, gate, bankReg, modeReg, ram>>

LEMMA SteadyBytes ==
  ASSUME DataInv, Steady, sourceOffset' = sourceOffset
  PROVE  BytesInOrder' /\ SuccessIsComplete'
  BY DEF DataInv, BytesInOrder, SuccessIsComplete, Steady, CellsOf, Cell, Precedes

LEMMA SequencingIsSteady ==
  ASSUME TypeInv, BusInv, Next, Sequencing \/ Accept
  PROVE  Steady /\ UNCHANGED sourceOffset /\ in.powered /\ ~Waiting
  <1>1. RunClock /\ ~Waiting /\ sourceOffset' = sourceOffset
    BY DEF Sequencing, CancelIntoCleanup, DisableInitial, ModeInitial, BankInitial,
       Enable, SourceWait, SourceCapture, WriteByte, BankNext, Accept, Diverted,
       DisableFinal, ModeFinal, Step, QueueWrite, Waiting, progress
  <1>2. busy /\ in.powered /\ busy' = TRUE /\ done' = FALSE /\ geom' = geom
    BY <1>1 DEF RunClock, Running
  <1>3. UNCHANGED cartVars
    BY <1>1, <1>2, IdleBus DEF Next
  <1>4. UNCHANGED <<staged, chip, original>>
    BY <1>2 DEF Next, SourceClock
  <1> QED
    BY <1>1, <1>2, <1>3, <1>4 DEF Steady, cartVars

\* The next byte goes to the cell the offset names.
LEMMA SelectedIsOffset ==
  ASSUME TypeInv, geom = chip, bankReg = sourceOffset[1]
  PROVE  <<Selected(chip), sourceOffset[2]>> = sourceOffset
  <1>1. sourceOffset \in CellsOf(chip) /\ chip \in Geometry
    BY DEF TypeInv, TypeOK
  <1>2. chip.banks = 1 \/ chip.mbc1 => sourceOffset[1] = 0
    BY <1>1, SMT DEF CellsOf, Cell, Geometry
  <1>3. sourceOffset = <<sourceOffset[1], sourceOffset[2]>>
    BY <1>1 DEF CellsOf, Cell
  <1> QED
    BY <1>2, <1>3 DEF Selected

\* A transfer in the registers that is not yet on the bus.
LEMMA QueuedTransfer ==
  ASSUME BusInv, ~Waiting, NEW a, NEW p, NEW n, NEW d, QueueWrite(a, p, n, d)
  PROVE  /\ state' = "ACCEPT" /\ ~Latched'
         /\ transfer' = [wr |-> TRUE, addr |-> a, data |-> p]
         /\ afterTransfer' = n /\ dataTransfer' = d
         /\ UNCHANGED <<sourceOffset, sourceByte, allWritten>>
  <1>1. BusAvailable
    BY BusFree
  <1> QED
    BY <1>1 DEF QueueWrite, progress, Latched

\* What SequenceInv and DataInv ask of a clock of a run that offers a transfer.
LEMMA SendingState ==
  ASSUME busy' = TRUE, geom' = chip', state' \in Sending,
         (OpeningTransfer \/ ByteTransfer \/ BankTransfer \/ ClosingTransfer)'
  PROVE  SequenceInv'
  BY DEF SequenceInv, Sending, Opening, Sourcing, Closing

\* Clocks of a run outside a transaction.
LEMMA SequencingStep ==
  ASSUME TypeInv, BusInv, SequenceInv, DataInv, Next, Sequencing \/ Accept
  PROVE  SequenceInv' /\ DataInv'
  <1>0. /\ Steady /\ sourceOffset' = sourceOffset /\ in.powered /\ ~Waiting
        /\ AtLast' = AtLast
    BY SequencingIsSteady DEF Steady, AtLast, Last
  <1>1. BytesInOrder' /\ SuccessIsComplete' /\ geom' = chip' /\ busy' = TRUE /\ busy
    BY <1>0, SteadyBytes DEF Steady, SequenceInv
  <1>2. ASSUME state' \in Sending \cup {"DISABLE_FINAL"}, UNCHANGED allWritten, cleanup => cleanup'
        PROVE  DataInv'
    BY <1>0, <1>1, <1>2 DEF DataInv, Steady, Sending
  <1>3. ASSUME state' = "DISABLE_FINAL", cleanup' = TRUE
        PROVE  SequenceInv'
    BY <1>1, <1>3 DEF SequenceInv, Opening, Sourcing, Sending, Closing
  <1>4. CASE CancelIntoCleanup
    BY <1>2, <1>3, <1>4 DEF CancelIntoCleanup, progress
  <1>5. CASE DisableInitial
    <2>1. /\ state = "DISABLE_INITIAL" /\ cleanup' = cleanup
          /\ QueueWrite(Gate, 0, IF geom.mbc1 THEN "MODE_INITIAL" ELSE "BANK_INITIAL", FALSE)
      BY <1>5 DEF DisableInitial, Step
    <2>2. sourceOffset = First /\ ~cleanup
      BY <1>1, <2>1 DEF SequenceInv, Opening, Sending, Closing
    <2>4. /\ transfer' = [wr |-> TRUE, addr |-> Gate, data |-> 0]
          /\ afterTransfer' = IF geom'.mbc1 THEN "MODE_INITIAL" ELSE "BANK_INITIAL"
          /\ dataTransfer' = FALSE /\ state' = "ACCEPT" /\ allWritten' = allWritten
      BY <1>0, <1>5, BusFree DEF DisableInitial, QueueWrite, Steady, progress
    <2>3. OpeningTransfer' /\ state' = "ACCEPT" /\ allWritten' = allWritten
      BY <1>0, <2>1, <2>2, <2>4 DEF OpeningTransfer, Carries, First
    <2> QED
      BY <1>1, <1>2, <2>1, <2>3, SendingState DEF Sending
  <1>6. CASE ModeInitial
    <2>1. /\ state = "MODE_INITIAL" /\ cleanup' = cleanup
          /\ QueueWrite(Mode, 0, "BANK_INITIAL", FALSE)
      BY <1>6 DEF ModeInitial, Step
    <2>2. sourceOffset = First /\ ~cleanup
      BY <1>1, <2>1 DEF SequenceInv, Opening, Sending, Closing
    <2>3. OpeningTransfer' /\ state' = "ACCEPT" /\ allWritten' = allWritten
      BY <1>0, <2>1, <2>2, QueuedTransfer DEF OpeningTransfer, Carries, Steady, First
    <2> QED
      BY <1>1, <1>2, <2>1, <2>3, SendingState DEF Sending
  <1>7. CASE BankInitial
    <2>1. /\ state = "BANK_INITIAL" /\ cleanup' = cleanup
          /\ QueueWrite(Bank, 0, "ENABLE", FALSE)
      BY <1>7 DEF BankInitial, Step
    <2>2. sourceOffset = First /\ ~cleanup
      BY <1>1, <2>1 DEF SequenceInv, Opening, Sending, Closing
    <2>3. OpeningTransfer' /\ state' = "ACCEPT" /\ allWritten' = allWritten
      BY <1>0, <2>1, <2>2, QueuedTransfer DEF OpeningTransfer, Carries, Steady, First
    <2> QED
      BY <1>1, <1>2, <2>1, <2>3, SendingState DEF Sending
  <1>8. CASE Enable
    <2>1. /\ state = "ENABLE" /\ cleanup' = cleanup
          /\ QueueWrite(Gate, 10, "SOURCE_WAIT", FALSE)
      BY <1>8 DEF Enable, Step
    <2>2. sourceOffset = First /\ ~cleanup /\ bankReg = 0
      BY <1>1, <2>1 DEF SequenceInv, Opening, Sending, Closing
    <2>3. OpeningTransfer' /\ state' = "ACCEPT" /\ allWritten' = allWritten
      BY <1>0, <2>1, <2>2, QueuedTransfer DEF OpeningTransfer, Carries, Steady, First
    <2> QED
      BY <1>1, <1>2, <2>1, <2>3, SendingState DEF Sending
  <1>9. CASE SourceWait
    <2>1. /\ state = "SOURCE_WAIT" /\ state' = "SOURCE_CAPTURE"
          /\ cleanup' = cleanup /\ allWritten' = allWritten
      BY <1>9 DEF SourceWait, Step, progress
    <2>2. gate /\ bankReg = sourceOffset[1] /\ ~cleanup
      BY <1>1, <2>1 DEF SequenceInv, Sourcing, Sending, Closing
    <2>3. SequenceInv'
      BY <1>0, <1>1, <2>1, <2>2 DEF SequenceInv, Opening, Sourcing, Sending, Closing, Steady
    <2>4. sourceQ' = staged'[sourceOffset']
      BY <1>0 DEF Next, SourceClock, Steady
    <2> QED
      BY <1>0, <1>1, <2>1, <2>2, <2>3, <2>4 DEF DataInv
  <1>10. CASE SourceCapture
    <2>1. /\ state = "SOURCE_CAPTURE" /\ state' = "WRITE" /\ sourceByte' = sourceQ
          /\ cleanup' = cleanup /\ allWritten' = allWritten
      BY <1>10 DEF SourceCapture, Step
    <2>2. gate /\ bankReg = sourceOffset[1] /\ ~cleanup
      BY <1>1, <2>1 DEF SequenceInv, Sourcing, Sending, Closing
    <2>3. SequenceInv'
      BY <1>0, <1>1, <2>1, <2>2 DEF SequenceInv, Opening, Sourcing, Sending, Closing, Steady
    <2>4. sourceByte' = staged'[sourceOffset']
      BY <1>0, <1>1, <2>1 DEF DataInv, Steady
    <2> QED
      BY <1>0, <1>1, <2>1, <2>2, <2>3, <2>4 DEF DataInv
  <1>11. CASE WriteByte
    <2>1. /\ state = "WRITE" /\ cleanup' = cleanup
          /\ QueueWrite(Ram(sourceOffset[2]), sourceByte,
                        IF AtLast THEN "DISABLE_FINAL"
                        ELSE IF sourceOffset[2] = BankBytes - 1 THEN "BANK_NEXT"
                        ELSE "SOURCE_WAIT", TRUE)
      BY <1>11 DEF WriteByte, Step
    <2>2. gate /\ bankReg = sourceOffset[1] /\ ~cleanup /\ sourceByte = staged[sourceOffset]
      BY <1>1, <2>1 DEF SequenceInv, Sourcing, Sending, Closing, DataInv
    <2>4. /\ transfer' = [wr |-> TRUE, addr |-> Ram(sourceOffset'[2]),
                         data |-> staged'[sourceOffset']]
          /\ dataTransfer' = TRUE /\ state' = "ACCEPT" /\ allWritten' = allWritten
          /\ ~Latched'
      BY <1>0, <2>1, <2>2, QueuedTransfer DEF Steady
    <2>5. afterTransfer' = IF AtLast' THEN "DISABLE_FINAL"
                           ELSE IF sourceOffset'[2] = BankBytes - 1 THEN "BANK_NEXT"
                           ELSE "SOURCE_WAIT"
      BY <1>0, <1>11, BusFree DEF WriteByte, QueueWrite
    <2>6. gate' /\ bankReg' = sourceOffset'[1] /\ ~cleanup'
      BY <1>0, <2>1, <2>2 DEF Steady
    <2>3. ByteTransfer' /\ state' = "ACCEPT" /\ allWritten' = allWritten
      BY <2>4, <2>5, <2>6 DEF ByteTransfer, Carries
    <2> QED
      BY <1>1, <1>2, <2>1, <2>3, SendingState DEF Sending
  <1>12. CASE BankNext
    <2>1. /\ state = "BANK_NEXT" /\ cleanup' = cleanup
          /\ QueueWrite(Bank, sourceOffset[1], "SOURCE_WAIT", FALSE)
      BY <1>12 DEF BankNext, Step
    <2>2. gate /\ ~cleanup
      BY <1>1, <2>1 DEF SequenceInv, Sending, Closing
    <2>3. BankTransfer' /\ state' = "ACCEPT" /\ allWritten' = allWritten
      BY <1>0, <2>1, <2>2, QueuedTransfer DEF BankTransfer, Carries, Steady
    <2> QED
      BY <1>1, <1>2, <2>1, <2>3, SendingState DEF Sending
  <1>13. CASE DisableFinal
    <2>1. /\ cleanup' = TRUE
          /\ QueueWrite(Gate, 0, IF geom.mbc1 THEN "MODE_FINAL" ELSE "DONE", FALSE)
      BY <1>13 DEF DisableFinal, Step
    <2>3. /\ transfer' = [wr |-> TRUE, addr |-> Gate, data |-> 0]
          /\ afterTransfer' = IF geom'.mbc1 THEN "MODE_FINAL" ELSE "DONE"
          /\ dataTransfer' = FALSE /\ state' = "ACCEPT" /\ allWritten' = allWritten
          /\ ~Latched'
      BY <1>0, <1>13, BusFree DEF DisableFinal, QueueWrite, Steady, progress, Latched
    <2>2. ClosingTransfer' /\ state' = "ACCEPT" /\ allWritten' = allWritten
      BY <2>1, <2>3 DEF ClosingTransfer, Carries
    <2> QED
      BY <1>1, <1>2, <2>1, <2>2, SendingState DEF Sending
  <1>14. CASE ModeFinal
    <2>1. /\ state = "MODE_FINAL" /\ cleanup' = cleanup
          /\ QueueWrite(Mode, 0, "DONE", FALSE)
      BY <1>14 DEF ModeFinal, Step
    <2>2. ~gate /\ cleanup
      BY <1>1, <2>1 DEF SequenceInv, Closing
    <2>3. ClosingTransfer' /\ state' = "ACCEPT" /\ allWritten' = allWritten
      BY <1>0, <2>1, <2>2, QueuedTransfer DEF ClosingTransfer, Carries, Steady
    <2> QED
      BY <1>1, <1>2, <2>1, <2>3, SendingState DEF Sending
  <1>15. CASE Accept
    <2>1. /\ state = "ACCEPT" /\ UNCHANGED <<transfer, afterTransfer, dataTransfer, allWritten>>
      BY <1>15 DEF Accept, Step, queued, progress
    <2>2. OpeningTransfer \/ ByteTransfer \/ BankTransfer \/ ClosingTransfer
      BY <1>1, <2>1 DEF SequenceInv, Sending
    <2>3. CASE state' = "DISABLE_FINAL" /\ cleanup' = TRUE
      BY <1>2, <1>3, <2>1, <2>3
    <2>4. CASE state' \in Sending /\ cleanup' = cleanup /\ ~Latched'
      <3>1. (OpeningTransfer \/ ByteTransfer \/ BankTransfer \/ ClosingTransfer)'
        BY <1>0, <2>1, <2>2, <2>4
        DEF OpeningTransfer, ByteTransfer, BankTransfer, ClosingTransfer, Carries, Steady
      <3> QED
        BY <1>1, <1>2, <2>1, <2>4, <3>1, SendingState
    <2>5. CASE BusReq
      <3>1. busState' = "SETUP" /\ busDone' = FALSE
        BY <1>0, <2>5, IdleBus DEF Next
      <3>2. state' = "WAIT" /\ cleanup' = cleanup
        BY <1>15, <2>5 DEF Accept
      <3> QED
        BY <2>4, <3>1, <3>2 DEF Latched, Sending
    <2>6. CASE ~BusReq
      <3>1. \/ state' = "DISABLE_FINAL" /\ cleanup' = TRUE
            \/ state' = "ACCEPT" /\ cleanup' = cleanup
        BY <1>15, <2>1, <2>6 DEF Accept
      <3> QED
        BY <2>3, <2>4, <3>1 DEF Latched, Sending
    <2> QED
      BY <2>5, <2>6
  <1> QED
    BY <1>4, <1>5, <1>6, <1>7, <1>8, <1>9, <1>10, <1>11, <1>12, <1>13, <1>14, <1>15
    DEF Sequencing

\* A clock of the bus with the writer waiting: the cartridge latches, or
\* nothing of interest happens.
LEMMA WaitingBus ==
  ASSUME TypeInv, BusInv, SequenceInv, Next, WaitForBus
  PROVE  /\ busy /\ busy' = TRUE /\ done' = FALSE /\ state = "WAIT" /\ state' = "WAIT"
         /\ UNCHANGED <<transfer, afterTransfer, dataTransfer, sourceOffset, sourceByte,
                        allWritten, cleanup, geom, chip, staged, original>>
         /\ \/ ~Latched /\ Latched' /\ CartLatch(chip, transfer)
            \/ Latched' = Latched /\ UNCHANGED cartVars
  <1>1. /\ busy /\ in.powered /\ busy' = TRUE /\ done' = FALSE /\ state = "WAIT"
        /\ state' = "WAIT"
        /\ UNCHANGED <<transfer, afterTransfer, dataTransfer, sourceOffset, sourceByte,
                       allWritten, cleanup, geom>>
    BY DEF WaitForBus, Step, RunClock, Running, queued, progress
  <1>2. UNCHANGED <<staged, chip, original>>
    BY <1>1 DEF Next, SourceClock
  <1>3. bus = transfer /\ ~busDone /\ busState # "IDLE"
    BY <1>1 DEF WaitForBus, BusInv, BusBusy, WaitHasTransaction
  <1>4. transfer.wr
    BY <1>1 DEF SequenceInv, Sending, OpeningTransfer, ByteTransfer, BankTransfer,
                ClosingTransfer, Carries
  <1>5. BusDwell \/ BusAdvance \/ BusFinish
    BY <1>1, <1>3 DEF Next, BusClock, BusListen
  <1>6. CASE WriteEdge
    <2>1. ~Latched /\ Latched'
      BY <1>1, <1>3, <1>6 DEF WriteEdge, Latched
    <2> QED
      BY <1>1, <1>2, <1>3, <1>6, <2>1 DEF Next, CartClock
  <1>7. CASE ~WriteEdge
    <2>1. Latched' = Latched
      BY <1>1, <1>3, <1>4, <1>5, <1>7
      DEF WriteEdge, Latched, BusDwell, BusAdvance, BusFinish
    <2> QED
      BY <1>1, <1>2, <1>7, <2>1 DEF Next, CartClock
  <1> QED
    BY <1>6, <1>7

\* The byte that latches is the one the offset names; every other stays.
LEMMA ByteLatches ==
  ASSUME TypeInv, geom = chip, ByteTransfer, CartLatch(chip, transfer)
  PROVE  /\ gate' = gate /\ bankReg' = bankReg
         /\ ram' = [ram EXCEPT ![sourceOffset] = staged[sourceOffset]]
         /\ ram'[sourceOffset] = staged[sourceOffset]
  <1>1. <<Selected(chip), sourceOffset[2]>> = sourceOffset
    BY SelectedIsOffset DEF ByteTransfer
  <1>2. /\ transfer.addr = Ram(sourceOffset[2]) /\ transfer.data = staged[sourceOffset]
        /\ gate
    BY DEF ByteTransfer, Carries
  <1>3. /\ transfer.addr[1] = "ram" /\ transfer.addr[2] = sourceOffset[2]
        /\ transfer.addr # Gate /\ transfer.addr # Bank
    BY <1>2, RamRegister
  <1>4. sourceOffset \in Cell /\ ram \in [Cell -> Byte]
    BY DEF TypeInv, TypeOK, RegisterType
  <1>5. ram' = [ram EXCEPT ![sourceOffset] = staged[sourceOffset]]
    BY <1>1, <1>2, <1>3 DEF CartLatch
  <1> QED
    BY <1>2, <1>3, <1>4, <1>5 DEF CartLatch

\* A control write leaves the save alone.
LEMMA ControlLatches ==
  ASSUME CartLatch(chip, transfer), transfer.addr \in {Gate, Mode, Bank}
  PROVE  ram' = ram
  BY RegistersDiffer DEF CartLatch

LEMMA WaitForBusStep ==
  ASSUME TypeInv, BusInv, SequenceInv, DataInv, Next, WaitForBus
  PROVE  SequenceInv' /\ DataInv'
  <1>0. /\ busy /\ busy' = TRUE /\ done' = FALSE /\ state = "WAIT" /\ state' = "WAIT"
        /\ UNCHANGED <<transfer, afterTransfer, dataTransfer, sourceOffset, sourceByte,
                       allWritten, cleanup, geom, chip, staged, original>>
        /\ AtLast' = AtLast /\ geom = chip
    BY WaitingBus DEF AtLast, Last, SequenceInv
  <1>1. OpeningTransfer \/ ByteTransfer \/ BankTransfer \/ ClosingTransfer
    BY <1>0 DEF SequenceInv, Sending
  <1>2. CASE Latched' = Latched /\ UNCHANGED cartVars
    <2>1. Steady
      BY <1>0, <1>2 DEF Steady, cartVars
    <2>2. (OpeningTransfer \/ ByteTransfer \/ BankTransfer \/ ClosingTransfer)'
      BY <1>0, <1>1, <1>2
      DEF OpeningTransfer, ByteTransfer, BankTransfer, ClosingTransfer, Carries, cartVars
    <2>3. DataInv'
      BY <1>0, <2>1, SteadyBytes DEF DataInv, Steady
    <2> QED
      BY <1>0, <2>2, <2>3, SendingState DEF Sending
  <1>3. CASE ~Latched /\ Latched' /\ CartLatch(chip, transfer)
    <2>1. ASSUME ram' = ram, (OpeningTransfer \/ BankTransfer \/ ClosingTransfer)'
          PROVE  SequenceInv' /\ DataInv'
      <3>1. BytesInOrder' /\ SuccessIsComplete'
        BY <1>0, <2>1 DEF DataInv, BytesInOrder, SuccessIsComplete, CellsOf, Cell, Precedes
      <3>2. DataInv'
        BY <1>0, <2>1, <3>1 DEF DataInv
      <3> QED
        BY <1>0, <2>1, <3>2, SendingState DEF Sending
    <2>2. CASE OpeningTransfer
      <3>1. transfer.addr \in {Gate, Mode, Bank}
        BY <2>2 DEF OpeningTransfer, Carries
      <3>2. OpeningTransfer'
        <4>1. CASE Carries(Gate, 0, IF geom.mbc1 THEN "MODE_INITIAL" ELSE "BANK_INITIAL")
          BY <1>0, <2>2, <4>1 DEF OpeningTransfer, Carries
        <4>2. CASE Carries(Mode, 0, "BANK_INITIAL")
          BY <1>0, <2>2, <4>2 DEF OpeningTransfer, Carries
        <4>3. CASE Carries(Bank, 0, "ENABLE")
          BY <1>0, <1>3, <2>2, <4>3 DEF OpeningTransfer, Carries, CartLatch
        <4>4. CASE Carries(Gate, 10, "SOURCE_WAIT") /\ bankReg = 0
          <5>1. gate' = (10 % 16 = 10) /\ bankReg' = bankReg
            BY <1>3, <4>4, RegistersDiffer DEF Carries, CartLatch
          <5>3. 10 % 16 = 10
            BY SMT
          <5>2. gate'
            BY <5>1, <5>3
          <5> QED
            BY <1>0, <2>2, <4>4, <5>1, <5>2 DEF OpeningTransfer, Carries
        <4> QED
          BY <2>2, <4>1, <4>2, <4>3, <4>4 DEF OpeningTransfer
      <3> QED
        BY <1>3, <2>1, <3>1, <3>2, ControlLatches
    <2>3. CASE ByteTransfer
      <3>1. /\ gate' = gate /\ bankReg' = bankReg
            /\ ram' = [ram EXCEPT ![sourceOffset] = staged[sourceOffset]]
            /\ ram'[sourceOffset] = staged[sourceOffset]
        BY <1>0, <1>3, <2>3, ByteLatches
      <3>2. ByteTransfer'
        BY <1>0, <2>3, <3>1 DEF ByteTransfer, Carries
      <3>3. \A c \in Cell : c # sourceOffset => ram'[c] = ram[c]
        BY <3>1 DEF TypeInv, TypeOK
      <3>4. \A c \in Cell : Precedes(c, sourceOffset) \/ Precedes(sourceOffset, c) => c # sourceOffset
        BY SMT DEF Precedes, Cell
      <3>5. BytesInOrder'
        BY <1>0, <3>3, <3>4 DEF DataInv, BytesInOrder, CellsOf, Precedes
      <3>6. SuccessIsComplete' /\ ~allWritten'
        BY <1>0, <2>3 DEF SuccessIsComplete, DataInv, ByteTransfer
      <3>7. DataInv'
        BY <1>0, <3>5, <3>6 DEF DataInv
      <3> QED
        BY <1>0, <3>2, <3>7, SendingState DEF Sending
    <2>4. CASE BankTransfer
      <3>1. transfer.addr = Bank /\ transfer.data = sourceOffset[1]
        BY <2>4 DEF BankTransfer, Carries
      <3>2. gate' = gate /\ bankReg' = sourceOffset[1] /\ ram' = ram
        BY <1>3, <3>1, RegistersDiffer DEF CartLatch
      <3>3. BankTransfer'
        BY <1>0, <2>4, <3>2 DEF BankTransfer, Carries
      <3> QED
        BY <2>1, <3>2, <3>3
    <2>5. CASE ClosingTransfer
      <3>1. transfer.addr \in {Gate, Mode, Bank}
        BY <2>5 DEF ClosingTransfer, Carries
      <3>2. ClosingTransfer'
        <4>1. CASE Carries(Gate, 0, IF geom.mbc1 THEN "MODE_FINAL" ELSE "DONE")
          <5>1. gate' = (0 % 16 = 10)
            BY <1>3, <4>1 DEF Carries, CartLatch
          <5>3. 0 % 16 # 10
            BY SMT
          <5>2. ~gate'
            BY <5>1, <5>3
          <5> QED
            BY <1>0, <2>5, <4>1, <5>2 DEF ClosingTransfer, Carries
        <4>2. CASE Carries(Mode, 0, "DONE") /\ ~gate
          <5>1. gate' = gate /\ modeReg' = 0
            BY <1>3, <4>2, RegistersDiffer DEF Carries, CartLatch
          <5> QED
            BY <1>0, <2>5, <4>2, <5>1 DEF ClosingTransfer, Carries
        <4> QED
          BY <2>5, <4>1, <4>2 DEF ClosingTransfer
      <3> QED
        BY <1>3, <2>1, <3>1, <3>2, ControlLatches
    <2> QED
      BY <1>1, <2>2, <2>3, <2>4, <2>5
  <1> QED
    BY <1>2, <1>3, WaitingBus

\* A finished transaction: the cartridge has it, and the sequence moves on.
LEMMA TransferDoneStep ==
  ASSUME TypeInv, BusInv, SequenceInv, DataInv, Next, TransferDone
  PROVE  SequenceInv' /\ DataInv'
  <1>0. /\ busy /\ busy' = TRUE /\ done' = FALSE /\ state = "WAIT" /\ in.powered
        /\ busDone /\ Latched /\ geom' = geom /\ geom = chip
        /\ UNCHANGED <<transfer, afterTransfer, dataTransfer, sourceByte>>
    BY DEF TransferDone, Step, RunClock, Running, queued, Latched, SequenceInv
  <1>1. UNCHANGED <<staged, chip, original>>
    BY <1>0 DEF Next, SourceClock
  <1>2. UNCHANGED cartVars
    BY <1>0 DEF Next, CartClock, WriteEdge, BusInv
  <1>3. OpeningTransfer \/ ByteTransfer \/ BankTransfer \/ ClosingTransfer
    BY <1>0 DEF SequenceInv, Sending
  <1>4. SuccessIsComplete'
    BY <1>0 DEF SuccessIsComplete
  <1>5. CASE OpeningTransfer \/ BankTransfer \/ ClosingTransfer
    <2>1. sourceOffset' = sourceOffset /\ allWritten' = allWritten
      BY <1>5 DEF TransferDone, OpeningTransfer, BankTransfer, ClosingTransfer,
                  TypeInv, TypeOK, RegisterType
    <2>2. Steady
      BY <1>0, <1>1, <1>2 DEF Steady, cartVars
    <2>3. BytesInOrder' /\ AtLast' = AtLast
      BY <1>0, <2>1, <2>2, SteadyBytes DEF AtLast, Last
    <2>4. cleanup => cleanup'
      BY DEF TransferDone
    <2>5. state' # "SOURCE_CAPTURE" /\ state' # "WRITE"
      BY DEF TransferDone, TypeInv, TypeOK, RegisterType, Continuations
    <2>6. DataInv'
      BY <1>0, <1>4, <2>1, <2>2, <2>3, <2>4, <2>5 DEF DataInv, Steady
    <2>7. CASE CancelRun /\ ~cleanup
      <3>1. state' = "DISABLE_FINAL" /\ cleanup' = TRUE
        BY <2>7 DEF TransferDone
      <3> QED
        BY <1>0, <1>1, <2>6, <3>1 DEF SequenceInv, Opening, Sourcing, Sending, Closing
    <2>8. CASE ~(CancelRun /\ ~cleanup)
      <3>1. state' = afterTransfer /\ cleanup' = (cleanup \/ afterTransfer = "DISABLE_FINAL")
        BY <2>8 DEF TransferDone
      <3>2. CASE OpeningTransfer
        BY <1>0, <1>1, <1>2, <2>1, <2>6, <3>1, <3>2
        DEF OpeningTransfer, Carries, First, cartVars, SequenceInv, Opening, Sourcing, Sending,
            Closing
      <3>3. CASE BankTransfer
        BY <1>0, <1>1, <1>2, <2>1, <2>6, <3>1, <3>3
        DEF BankTransfer, Carries, cartVars, SequenceInv, Opening, Sourcing, Sending, Closing
      <3>4. CASE ClosingTransfer
        BY <1>0, <1>1, <1>2, <2>1, <2>6, <3>1, <3>4
        DEF ClosingTransfer, Carries, cartVars, SequenceInv, Opening, Sourcing, Sending, Closing
      <3> QED
        BY <1>5, <3>2, <3>3, <3>4
    <2> QED
      BY <2>7, <2>8
  <1>6. CASE ByteTransfer
    <2>1. /\ dataTransfer /\ ~cleanup /\ gate /\ bankReg = sourceOffset[1] /\ ~allWritten
          /\ ram[sourceOffset] = staged[sourceOffset]
          /\ afterTransfer = IF AtLast THEN "DISABLE_FINAL"
                             ELSE IF sourceOffset[2] = BankBytes - 1 THEN "BANK_NEXT"
                             ELSE "SOURCE_WAIT"
      BY <1>0, <1>6 DEF ByteTransfer, Carries, DataInv
    <2>2. sourceOffset \in Cell /\ sourceOffset \in CellsOf(chip) /\ chip \in Geometry
      BY <1>0 DEF TypeInv, TypeOK, RegisterType
    <2>3. CASE AtLast
      <3>1. /\ sourceOffset' = sourceOffset /\ allWritten' /\ state' = "DISABLE_FINAL"
            /\ cleanup' = TRUE
        BY <2>1, <2>3 DEF TransferDone
      <3>2. Steady
        BY <1>0, <1>1, <1>2 DEF Steady, cartVars
      <3>3. BytesInOrder' /\ AtLast'
        BY <1>0, <2>3, <3>1, <3>2, SteadyBytes DEF AtLast, Last
      <3>4. DataInv'
        BY <1>0, <1>4, <2>1, <3>1, <3>2, <3>3 DEF DataInv, Steady
      <3> QED
        BY <1>0, <1>1, <3>1, <3>4 DEF SequenceInv, Opening, Sourcing, Sending, Closing
    <2>4. CASE ~AtLast
      <3>1. sourceOffset' = Following(sourceOffset) /\ ~allWritten'
        BY <2>1, <2>4 DEF TransferDone
      <3>2. \A c \in CellsOf(chip) : Precedes(c, sourceOffset') => ram[c] = staged[c]
        BY <1>0, <2>1, <2>2, <3>1, FollowingIsNext DEF DataInv, BytesInOrder, CellsOf
      <3>3. \A c \in Cell : Precedes(sourceOffset', c) => ram[c] = original[c]
        BY <1>0, <2>2, <3>1, FollowingIsLater DEF DataInv, BytesInOrder
      <3>4. BytesInOrder'
        BY <1>1, <1>2, <3>2, <3>3 DEF BytesInOrder, cartVars, CellsOf, Precedes
      <3>5. state' # "SOURCE_CAPTURE" /\ state' # "WRITE"
        BY DEF TransferDone, TypeInv, TypeOK, RegisterType, Continuations
      <3>6. DataInv'
        BY <1>4, <3>1, <3>4, <3>5 DEF DataInv
      <3>7. CASE CancelRun
        <4>1. state' = "DISABLE_FINAL" /\ cleanup' = TRUE
          BY <2>1, <3>7 DEF TransferDone
        <4> QED
          BY <1>0, <1>1, <3>6, <4>1 DEF SequenceInv, Opening, Sourcing, Sending, Closing
      <3>8. CASE ~CancelRun
        <4>1. state' = afterTransfer /\ ~cleanup'
          BY <2>1, <2>4, <3>8 DEF TransferDone
        <4>2. CASE sourceOffset[2] = BankBytes - 1
          BY <1>0, <1>1, <1>2, <2>1, <2>4, <3>6, <4>1, <4>2
          DEF cartVars, SequenceInv, Opening, Sourcing, Sending, Closing
        <4>3. CASE sourceOffset[2] # BankBytes - 1
          <5>1. sourceOffset'[1] = sourceOffset[1]
            BY <3>1, <4>3 DEF Following
          <5> QED
            BY <1>0, <1>1, <1>2, <2>1, <2>4, <3>6, <4>1, <4>3, <5>1
            DEF cartVars, SequenceInv, Opening, Sourcing, Sending, Closing
        <4> QED
          BY <4>2, <4>3
      <3> QED
        BY <3>7, <3>8
    <2> QED
      BY <2>3, <2>4
  <1> QED
    BY <1>3, <1>5, <1>6

\* The last clock of a powered run.
LEMMA FinishStep ==
  ASSUME TypeInv, BusInv, SequenceInv, DataInv, Next, Finish
  PROVE  SequenceInv' /\ DataInv'
  <1>1. /\ busy /\ in.powered /\ state = "DONE" /\ busy' = FALSE
        /\ failed' = (CancelRun \/ ~allWritten)
        /\ sourceOffset' = sourceOffset
    BY DEF Finish, Running, progress
  <1>2. UNCHANGED cartVars /\ UNCHANGED <<staged, chip>> /\ geom = chip
    BY <1>1, IdleBus DEF Next, SourceClock, Waiting, SequenceInv
  <1>3. SuccessIsComplete'
    <2>1. SUFFICES ASSUME ~failed', NEW c \in CellsOf(chip)
                   PROVE  ram[c] = staged[c]
      BY <1>2 DEF SuccessIsComplete, cartVars, CellsOf
    <2>2. allWritten
      BY <1>1, <2>1
    <2>3. sourceOffset = Last /\ ram[sourceOffset] = staged[sourceOffset]
      BY <1>1, <2>2 DEF DataInv, AtLast
    <2>4. Precedes(c, sourceOffset) \/ c = sourceOffset
      BY <1>2, <2>3, LastIsLast DEF TypeInv, TypeOK, Last
    <2> QED
      BY <1>1, <2>3, <2>4 DEF DataInv, BytesInOrder
  <1> QED
    BY <1>1, <1>3 DEF SequenceInv, DataInv, BytesInOrder

\* The first clock of a run: nothing written, nothing known of the mapper.
LEMMA StartRunStep ==
  ASSUME TypeInv, BusInv, Next, StartRun
  PROVE  SequenceInv' /\ DataInv'
  <1>1. /\ ~busy /\ busy' = TRUE /\ state' = "DISABLE_INITIAL" /\ sourceOffset' = First
        /\ geom' = chip /\ cleanup' = FALSE /\ allWritten' = FALSE /\ done' = FALSE
    BY DEF StartRun, First
  <1>2. chip' = chip /\ original' = ram'
    BY <1>1 DEF Next, SourceClock
  <1>3. BytesInOrder'
    BY <1>1, <1>2, NothingBeforeFirst DEF BytesInOrder, First, CellsOf
  <1>4. DataInv'
    BY <1>1, <1>3 DEF DataInv, SuccessIsComplete
  <1> QED
    BY <1>1, <1>2, <1>4 DEF SequenceInv, Opening, Sourcing, Sending, Closing

\* Clocks after which there is no run and no success to speak for.
LEMMA RestStep ==
  ASSUME TypeInv, BusInv, ResetWriter \/ PowerLost \/ RefuseStart \/ IdleClock
  PROVE  SequenceInv' /\ DataInv'
  <1>1. busy' = FALSE
    BY DEF ResetWriter, PowerLost, RefuseStart, IdleClock, TypeInv, TypeOK, RegisterType
  <1>2. ~done' \/ failed'
    BY DEF ResetWriter, PowerLost, RefuseStart, IdleClock
  <1> QED
    BY <1>1, <1>2 DEF SequenceInv, DataInv, BytesInOrder, SuccessIsComplete

-----------------------------------------------------------------------------
(* The invariant *)

LEMMA InvInit == Init => Inv
  <1> SUFFICES ASSUME Init PROVE Inv
    OBVIOUS
  <1>1. busy = FALSE /\ done = FALSE /\ pending = FALSE
    BY DEF Init
  <1>2. busState = "IDLE" /\ busDone = FALSE /\ busRefuse = FALSE
    BY DEF Init, BusInit
  <1> QED
    BY <1>1, <1>2, TypeInit DEF Inv, BusInv, BusBusy, WaitHasTransaction, SequenceInv,
       DataInv, BytesInOrder, SuccessIsComplete

LEMMA InvStep ==
  ASSUME Inv, [Next]_vars
  PROVE  Inv'
  <1>0. TypeInv /\ BusInv /\ SequenceInv /\ DataInv
    BY DEF Inv
  <1>1. CASE Next
    <2>1. SequenceInv' /\ DataInv'
      BY <1>0, <1>1, SequencingStep, WaitForBusStep, TransferDoneStep, FinishStep,
         StartRunStep, RestStep
      DEF Next, WriterClock, Sequencing
    <2> QED
      BY <1>0, <1>1, <2>1, TypeStep, BusInvStep DEF Inv
  <1>2. CASE UNCHANGED vars
    <2>1. BusInv'
      BY <1>0, <1>2 DEF vars, writerVars, busVars, BusInv, BusBusy, WaitHasTransaction
    <2>2. UNCHANGED <<busy, done, failed, state, geom, chip, sourceOffset, sourceByte,
                      sourceQ, staged, original, ram, gate, bankReg, modeReg, cleanup,
                      dataTransfer, transfer, afterTransfer, allWritten, busState, busDone>>
      BY <1>2 DEF vars, writerVars, envVars, busVars, cartVars
    <2>3. (OpeningTransfer \/ ByteTransfer \/ BankTransfer \/ ClosingTransfer)
            <=> (OpeningTransfer \/ ByteTransfer \/ BankTransfer \/ ClosingTransfer)'
      BY <2>2 DEF OpeningTransfer, ByteTransfer, BankTransfer, ClosingTransfer, Carries,
         Latched, AtLast, Last
    <2>4. SequenceInv'
      BY <1>0, <2>2, <2>3 DEF SequenceInv
    <2>5. BytesInOrder' /\ SuccessIsComplete' /\ AtLast' = AtLast
      BY <1>0, <2>2 DEF DataInv, BytesInOrder, SuccessIsComplete, AtLast, Last, CellsOf
    <2>6. DataInv'
      BY <1>0, <2>2, <2>5 DEF DataInv
    <2> QED
      BY <1>0, <1>2, <2>1, <2>4, <2>6, TypeStep DEF Inv
  <1> QED
    BY <1>1, <1>2

LEMMA InvHolds == Spec => []Inv
  BY InvInit, InvStep, PTL DEF Spec

-----------------------------------------------------------------------------
(* The properties *)

\* At every clock of a run, of any save on any supported cartridge, the
\* cartridge holds the staged bytes up to source_offset and its own beyond it.
THEOREM RunWritesInOrder == Spec => []BytesInOrder
  <1>1. Inv => BytesInOrder
    BY DEF Inv, DataInv
  <1> QED
    BY InvHolds, <1>1, PTL

\* done without failed means that every staged byte is in the cartridge.
THEOREM RunSuccessIsComplete == Spec => []SuccessIsComplete
  <1>1. Inv => SuccessIsComplete
    BY DEF Inv, DataInv
  <1> QED
    BY InvHolds, <1>1, PTL

\* The writer never waits for a transaction the bus does not have.
THEOREM RunNeverWaitsInVain == Spec => []WaitHasTransaction
  <1>1. Inv => WaitHasTransaction
    BY DEF Inv, BusInv
  <1> QED
    BY InvHolds, <1>1, PTL

\* A save byte is taken by the bus only in a clock in which permission stands
\* and always has: a request is revocable up to the edge that accepts it.
THEOREM RequestsAreRevocable == Spec => NoByteAfterRevocation
  <1>1. ASSUME Inv, Next, busState = "IDLE", busState' = "SETUP", bus'.addr[1] = "ram"
        PROVE  ~CancelRun
    <2>1. BusListen(BusReq, transfer) /\ in.powered
      BY <1>1 DEF Next, BusClock, BusDrop, BusDwell, BusAdvance, BusFinish
    <2>2. BusReq /\ bus' = transfer
      BY <1>1, <2>1 DEF BusListen
    <2>3. busy /\ state = "ACCEPT"
      BY <1>1, <2>2, RequestIsAccepted DEF Inv
    <2>4. ~cleanup
      BY <1>1, <2>2, <2>3, RegistersDiffer
      DEF Inv, SequenceInv, Sending, OpeningTransfer, ByteTransfer, BankTransfer,
          ClosingTransfer, Carries
    <2> QED
      BY <2>2, <2>4 DEF BusReq
  <1>2. ASSUME Inv, [Next]_vars
        PROVE  [busState = "IDLE" /\ busState' = "SETUP" /\ bus'.addr[1] = "ram"
                  => ~CancelRun]_vars
    BY <1>1, <1>2
  <1> QED
    BY InvHolds, <1>2, PTL DEF Spec, NoByteAfterRevocation

\* Every end of a powered run, success, cancellation or failure, leaves the
\* gate shut, an MBC1 in mode 0 and the bus idle.
THEOREM RunExitsClean == Spec => CleanExit
  <1>1. ASSUME Inv, Next, busy, ~busy', in.powered
        PROVE  ~gate' /\ (chip.mbc1 => modeReg' = 0) /\ busState' = "IDLE"
    <2>1. Finish
      BY <1>1
      DEF Next, WriterClock, CancelIntoCleanup, DisableInitial, ModeInitial, BankInitial,
       Enable, SourceWait, SourceCapture, WriteByte, BankNext, Diverted, Accept,
       WaitForBus, TransferDone, DisableFinal, ModeFinal, Step, RunClock, Running,
       ResetWriter, PowerLost, StartRun, RefuseStart, IdleClock
    <2>2. state = "DONE" /\ ~Waiting
      BY <2>1 DEF Finish, Waiting
    <2>3. ~BusReq
      BY <1>1, <2>2, RequestIsAccepted DEF Inv
    <2>4. UNCHANGED cartVars /\ busState' = "IDLE"
      BY <1>1, <2>2, <2>3, IdleBus DEF Inv, Next
    <2> QED
      BY <1>1, <2>2, <2>4 DEF Inv, SequenceInv, cartVars
  <1>2. ASSUME Inv, [Next]_vars
        PROVE  [busy /\ ~busy' /\ in.powered =>
                  ~gate' /\ (chip.mbc1 => modeReg' = 0) /\ busState' = "IDLE"]_vars
    BY <1>1, <1>2
  <1> QED
    BY InvHolds, <1>2, PTL DEF Spec, CleanExit

=============================================================================
