------------------------- MODULE MCRestoreTransaction -------------------------
(* Two images; r1 and r2 have the same header, so only the whole-ROM pass     *)
(* tells those games apart.                                                   *)
EXTENDS RestoreTransaction, TLC

h1 == "h1"
WellFormedOnly == {m \in Meta : m.valid}
MCHeaderOf == [r \in Rom |-> h1]

\* What the buffers hold before the first preflight is never looked at.
MCInit ==
  /\ Init
  /\ mem.staged = mem.original /\ mem.readback = mem.original
  /\ mem.meta.save = mem.original /\ ~mem.meta.valid
  /\ mem.meta.rom = romOf[slot]
  /\ mem.target = h1 /\ mem.meta.header = h1
MCSpec == MCInit /\ [][Next]_vars
MCFairSpec == MCSpec /\ Fairness

\* The properties of the safety runs treat these alike.
Alike == Permutations(Image) \cup Permutations(Rom) \cup Permutations(Cart)
=============================================================================
