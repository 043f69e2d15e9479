----------------------------- MODULE GbaSizeProbe -----------------------------
(***************************************************************************)
(* How much ROM a Game Boy Advance cartridge has:                          *)
(* src/fpga/services/dump/gba_size_probe.sv.  At each of the sizes 1 to 16 *)
(* MiB it looks at four places beyond it, four halfwords each: if nothing  *)
(* drives them, or all are what the ROM holds `size' bytes before, the ROM *)
(* ends there.                                                             *)
(*                                                                         *)
(* A step is the clock a state of the module ends in.  A read - its SET,   *)
(* REQ, WAIT and GOT states - is one step; gba_cart_bus answers it while   *)
(* the connector is in GBA mode and never else.  The anchor at offset 0    *)
(* and what is kept for the screen are left out: nothing is decided by it. *)
(***************************************************************************)
EXTENDS Integers, Sequences

CONSTANTS
  Cartridges,        \* cartridges that may be in the slot, records as below
  Successors,        \* those a second probe may find
  MODE_WAIT_CYCLES,  \* clocks the connector has to turn round
  MaxRuns            \* bound on the probes

\* Where the probe looks, at any size, and where it looks for a cartridge.
PT_OFF == <<0, \h0AAAA6, \h13579C, \h1E0006>>
word_stride == <<0, 2, \h40, \h402>>
pres_addr == <<0, \hA0, \hB2, \h2468A, \h7BCDE, \hF1234>>

\* What is assumed of a cartridge, in the terms explained below.  Its ROM is of
\* 512 KiB to 32 MiB; not some of it is blank and some of it its own addresses;
\* and if one part repeats and another does not, there is nothing else to it, and
\* one that does not is among the first two places looked at beyond any size.
IsCartridge(c) ==
  /\ c.size \in {0} \cup {2 ^ n : n \in 19 .. 25} /\ c.wraps \in BOOLEAN
  /\ c.decays \in {"first", "second", "never"}
  /\ c.live \subseteq Nat /\ \A a \in c.live : a >= c.size
  /\ c.size = 0 => c.live = {}
  /\ c.blank \subseteq Nat \X Nat /\ c.own \subseteq Nat \X Nat /\ (c.blank = {} \/ c.own = {})
  /\ c.again \in Nat \X Nat /\ c.again[1] > 2 /\ c.again[2] \in 1 .. c.again[1]
  /\ c.again[1] # c.again[2] =>
       /\ c.blank \cup c.own = {}
       /\ \E p \in 1 .. 2 : \E k \in DOMAIN word_stride :
            (PT_OFF[p] + word_stride[k]) % c.again[1] >= c.again[2]

ASSUME ProbeAssumption ==
  /\ \A c \in Cartridges : IsCartridge(c)
  /\ Successors \subseteq Cartridges
  /\ MODE_WAIT_CYCLES \in Nat /\ MaxRuns \in Nat \ {0}

VARIABLES
  cart,      \* the cartridge in the slot
  cartMode,  \* the connector carries GBA mode, and the slot has power
  sz,        \* the registers of the probe
  runs       \* probes begun

vars == <<cart, cartMode, sz, runs>>

MiB == 2 ^ 20

-----------------------------------------------------------------------------
(* The cartridge, and the bus when nothing drives it.                        *)
(*                                                                           *)
(* cart.size is a power of two, or 0 for an empty slot; beyond it the ROM    *)
(* starts over (wraps), or nothing drives the bus but at the addresses of    *)
(* `live'.  Its content is found nowhere else, but that the parts [from, to) *)
(* of `blank' are blank, those of `own' hold their own halfword address, and *)
(* that the first `again[2]' bytes of every `again[1]' are those of the      *)
(* first.  `decays': whether the floating bus has lost its charge "first" at *)
(* once, at the "second" beat of a burst, or "never".                        *)

Half(n) == <<"half", n % 2 ^ 16>>
OpenBus(a) == Half(a \div 2)
Blank == Half(2 ^ 16 - 1)

Within(parts, a) == \E r \in parts : r[1] <= a /\ a < r[2]

Content(a) ==
  CASE Within(cart.blank, a) -> Blank
    [] ~Within(cart.blank, a) /\ Within(cart.own, a) -> OpenBus(a)
    [] ~Within(cart.blank \cup cart.own, a) ->
         <<"data", IF a % cart.again[1] < cart.again[2] THEN a % cart.again[1] ELSE a>>

Drives(a) == a < cart.size \/ (cart.wraps /\ cart.size # 0) \/ a \in cart.live

Driven(a) ==
  IF a \in cart.live THEN <<"live", a>>
  ELSE Content(IF cart.wraps THEN a % cart.size ELSE a)

\* A 16-bit read.  The bus keeps the address driven on it.
Read16(a) ==
  IF Drives(a) THEN Driven(a) ELSE IF cart.decays = "first" THEN Blank ELSE OpenBus(a)

\* The second halfword of a 32-bit read: the cartridge counts on, the bus is
\* not driven again but at the end of a page of 128 KiB.
SecondBeat(a) ==
  IF Drives(a + 2) THEN Driven(a + 2)
  ELSE CASE cart.decays # "never" -> Blank
         [] cart.decays = "never" /\ a % 2 ^ 17 = 2 ^ 17 - 2 -> OpenBus(a + 2)
         [] OTHER -> OpenBus(a)

-----------------------------------------------------------------------------
(* What is looked at *)

NCAND == 5

cand_size == MiB * 2 ^ sz.cand
point_base == cand_size + PT_OFF[sz.point]
probe_addr == point_base + word_stride[sz.word]
mirror_addr == probe_addr % cand_size

-----------------------------------------------------------------------------
(* The probe *)

In(state) == sz.state = state

Ends(size, valid, status) ==
  sz' = [sz EXCEPT !.state = "DONE", !.size_bytes = size, !.size_valid = valid, !.status = status]

\* Also where the abort itself leads.
AbandonedInDone == sz.state \notin {"IDLE", "MODE"} /\ ~cartMode

\* The connector has left GBA mode: the read under way is never answered.
Abandoned == sz.state \notin {"IDLE", "MODE", "DONE"} /\ ~cartMode

Abort == Abandoned /\ Ends(0, FALSE, "NO_POWER")

Mode ==
  /\ In("MODE")
  /\ IF cartMode THEN sz' = [sz EXCEPT !.state = "PRES"]
     ELSE IF sz.mode_wait = 0 THEN Ends(sz.size_bytes, FALSE, "NO_POWER")
     ELSE sz' = [sz EXCEPT !.mode_wait = @ - 1]

pres_val == Read16(pres_addr[sz.pres])
pres_open_n == sz.pres_all_open /\ pres_val = OpenBus(pres_addr[sz.pres])
pres_varied_n == sz.pres_varied \/ (sz.pres # 1 /\ pres_val # sz.pres_first)

\* Six reads that must not all be of the floating bus, nor all alike.
Presence ==
  /\ In("PRES")
  /\ CASE sz.pres < Len(pres_addr) ->
            sz' = [sz EXCEPT !.pres = @ + 1, !.pres_first = IF sz.pres = 1 THEN pres_val ELSE @,
                             !.pres_all_open = pres_open_n, !.pres_varied = pres_varied_n]
       [] sz.pres = Len(pres_addr) /\ (pres_open_n \/ ~pres_varied_n) ->
            Ends(0, FALSE, IF pres_open_n THEN "NO_CART" ELSE "CONSTANT")
       [] OTHER -> sz' = [sz EXCEPT !.state = "PT", !.cand = 0, !.point = 1]

Point ==
  /\ In("PT")
  /\ sz' = [sz EXCEPT !.state = "REF", !.word = 1, !.pt_open = TRUE, !.pt_mirror = TRUE,
                      !.pt_varied = FALSE, !.pt_conf = FALSE, !.pt_ref_open = TRUE]

Reference ==
  /\ In("REF")
  /\ LET rv == Read16(mirror_addr)
     IN sz' = [sz EXCEPT !.state = "PRB", !.ref_val = rv,
                         !.pt_ref_open = @ /\ rv = OpenBus(mirror_addr)]

rv == Read16(probe_addr)
pt_open_n == sz.pt_open /\ rv = OpenBus(probe_addr)
pt_mirror_n == sz.pt_mirror /\ rv = sz.ref_val
pt_varied_n == sz.pt_varied \/ (sz.word # 1 /\ rv # sz.first_val)

\* The point is over at a word that is neither.
Probe ==
  /\ In("PRB")
  /\ LET last == sz.word = Len(word_stride)
     IN sz' = [sz EXCEPT
                 !.first_val = IF sz.word = 1 THEN rv ELSE @,
                 !.pt_open = pt_open_n, !.pt_mirror = pt_mirror_n, !.pt_varied = pt_varied_n,
                 !.word = IF last \/ (~pt_open_n /\ ~pt_mirror_n) THEN @ ELSE @ + 1,
                 !.state = CASE ~pt_open_n /\ ~pt_mirror_n -> "POINT"
                             [] last /\ pt_open_n -> "CONF"
                             [] last /\ ~pt_open_n /\ pt_mirror_n -> "POINT"
                             [] OTHER -> "REF"]

\* One 32-bit read tells the floating bus from a ROM that holds its addresses.
Confirm ==
  /\ In("CONF")
  /\ sz' = [sz EXCEPT !.state = "POINT",
                      !.pt_conf = /\ Read16(point_base) = OpenBus(point_base)
                                  /\ SecondBeat(point_base) # OpenBus(point_base + 2)]

\* Without a look at the reference.
pt_endTrusting == (sz.pt_open /\ sz.pt_conf) \/ (sz.pt_mirror /\ sz.pt_varied)

\* A reference that looks like the floating bus is no evidence of a mirror.
pt_end == (sz.pt_open /\ sz.pt_conf) \/ (sz.pt_mirror /\ sz.pt_varied /\ ~sz.pt_ref_open)

Verdict ==
  /\ In("POINT")
  /\ \/ ~pt_end /\ sz.cand = NCAND - 1 /\ Ends(32 * MiB, TRUE, "CEILING")
     \/ /\ ~pt_end /\ sz.cand < NCAND - 1
        /\ sz' = [sz EXCEPT !.state = "PT", !.cand = @ + 1, !.point = 1]
     \/ pt_end /\ sz.point = Len(PT_OFF) /\ Ends(cand_size, TRUE, "SIZED")
     \/ /\ pt_end /\ sz.point < Len(PT_OFF)
        /\ sz' = [sz EXCEPT !.state = "PT", !.point = @ + 1]

Done ==
  /\ In("DONE")
  /\ sz' = [sz EXCEPT !.state = "IDLE", !.want_gba = FALSE]

Clock ==
  /\ \/ Abort
     \/ ~Abandoned /\ (Mode \/ Presence \/ Point \/ Reference \/ Probe \/ Confirm \/ Verdict \/ Done)
  /\ UNCHANGED <<cart, cartMode, runs>>

\* core_top starts it when cart_probe has found a GBA cartridge.
Start ==
  /\ In("IDLE") /\ runs < MaxRuns
  /\ cart' \in IF runs = 0 THEN {cart} ELSE Successors
  /\ sz' = [sz EXCEPT !.state = "MODE", !.want_gba = TRUE, !.size_bytes = 0, !.size_valid = FALSE,
                      !.status = "IDLE", !.pres = 1, !.pres_all_open = TRUE,
                      !.pres_varied = FALSE, !.mode_wait = MODE_WAIT_CYCLES]
  /\ runs' = runs + 1
  /\ UNCHANGED cartMode

\* The connector follows what is asked of it, or the slot loses its power.
ModeFollows ==
  /\ cartMode' = ~cartMode /\ (cartMode' => sz.want_gba)
  /\ UNCHANGED <<cart, sz, runs>>

Init ==
  /\ cart \in Cartridges /\ cartMode = FALSE /\ runs = 0
  /\ sz = [state |-> "IDLE", want_gba |-> FALSE, size_bytes |-> 0, size_valid |-> FALSE,
           status |-> "IDLE", cand |-> 0, point |-> 1, word |-> 1, pres |-> 1, mode_wait |-> 0,
           pres_first |-> Half(0), pres_all_open |-> TRUE, pres_varied |-> FALSE,
           ref_val |-> Half(0), first_val |-> Half(0), pt_open |-> FALSE, pt_mirror |-> FALSE,
           pt_varied |-> FALSE, pt_conf |-> FALSE, pt_ref_open |-> FALSE]

Next == Clock \/ Start \/ ModeFollows

Spec == Init /\ [][Next]_vars

\* The clock runs; nothing is assumed of the connector.
FairSpec == Spec /\ WF_vars(Clock)

-----------------------------------------------------------------------------
(* Properties *)

\* The result of a probe stands until the next one.
Result == In("IDLE") /\ runs > 0

\* The whole ROM is so many bytes over and over.
Repeats(size) == cart.again[1] = cart.again[2] /\ size % cart.again[1] = 0

\* A cartridge that shows where it ends: it has a header, and beyond its ROM
\* the bus floats, or the ROM starts over with nothing of it blank or its own
\* address.
ShowsItsEnd ==
  /\ cart.size # 0 /\ cart.live = {} /\ cart.decays # "first"
  /\ cart.wraps => cart.blank \cup cart.own = {}

\* Every place that is looked at for a cartridge, and that the smallest ROM has, is
\* blank or holds its own address.
Featureless ==
  \A i \in DOMAIN pres_addr :
    pres_addr[i] < 2 ^ 19 => Within(cart.blank \cup cart.own, pres_addr[i])

\* "Every tie-break fails towards a larger size, never a smaller one": no ROM
\* is taken for a shorter one unless it is that shorter one over and over,
\* whatever parts of it are blank, hold their own addresses or repeat; one that
\* shows its end is taken for no larger one either; and an empty slot has no
\* size.  A refusal is given only for an empty slot, for lost power, and for a
\* ROM that is blank, or its own addresses, wherever it is looked at.
SizeIsSound ==
  Result =>
    /\ sz.size_valid =>
         /\ cart.size # 0
         /\ sz.size_bytes >= cart.size \/ Repeats(sz.size_bytes)
         /\ ShowsItsEnd => sz.size_bytes <= cart.size \/ sz.size_bytes = MiB
    /\ ~sz.size_valid =>
         \/ sz.status = "NO_POWER"
         \/ cart.size = 0
         \/ Featureless

\* A probe ends, also when the connector never carries GBA mode or leaves it
\* between any two reads.
ProbeEnds == sz.want_gba ~> ~sz.want_gba

=============================================================================
