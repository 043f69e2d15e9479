---------------------------- MODULE RestorePromise ----------------------------
(***************************************************************************)
(* What the restore side of the core promises the owner of a cartridge,    *)
(* docs/SAVE-RESTORE.md put as a state machine: a save changes only while  *)
(* its cartridge is being written, a cartridge is written only when the    *)
(* save it holds at that moment is on the SD card, and recovery files are  *)
(* never taken away.                                                       *)
(***************************************************************************)
CONSTANTS Cart, Image

VARIABLES
  saves,    \* what each cartridge holds
  vault,    \* the contents of the recovery files on the SD card
  writing   \* the cartridge being written, as a set of at most one

custody == <<saves, vault, writing>>

Init ==
  /\ saves \in [Cart -> Image]
  /\ vault \in SUBSET Image
  /\ writing = {}

Deposit ==
  /\ \E s \in Image : vault' = vault \cup {s}
  /\ UNCHANGED <<saves, writing>>

Open(c) ==
  /\ writing = {}
  /\ saves[c] \in vault
  /\ writing' = {c}
  /\ UNCHANGED <<saves, vault>>

Overwrite(c) ==
  /\ c \in writing
  /\ \E s \in Image : saves' = [saves EXCEPT ![c] = s]
  /\ UNCHANGED <<vault, writing>>

Close ==
  /\ writing' = {}
  /\ UNCHANGED <<saves, vault>>

Next == Deposit \/ Close \/ \E c \in Cart : Open(c) \/ Overwrite(c)

Spec == Init /\ [][Next]_custody

=============================================================================
