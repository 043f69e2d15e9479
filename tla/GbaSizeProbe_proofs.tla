-------------------------- MODULE GbaSizeProbe_proofs --------------------------
(***************************************************************************)
(* Proofs about the GBA size probe, for every cartridge there may be       *)
(* (IsCartridge), any connector and any number of probes.                  *)
(*                                                                         *)
(* First what two reads can have in common: below the end of the ROM       *)
(* (TwoPointsTell), at its end (EndIsSeen) and at the six places of the    *)
(* presence pass.  Then the registers: at each state they hold what a look *)
(* at the words, points and sizes so far gives (Inv).                      *)
(***************************************************************************)
EXTENDS GbaSizeProbe, TLAPS

-----------------------------------------------------------------------------
(* Arithmetic *)

\* A multiple leaves no rest.
LEMMA MultipleIsZero ==
  ASSUME NEW A \in Nat, A > 0, NEW n \in Int
  PROVE  (A * n) % A = 0
BY SMT

\* Addresses that are one modulo a period are a multiple of it apart.
LEMMA SameRest ==
  ASSUME NEW A \in Nat, A > 0, NEW x \in Nat, NEW t \in Nat, (x + t) % A = x % A
  PROVE  t % A = 0
<1> DEFINE n == ((x + t) \div A) - (x \div A)
<1>1. /\ (x + t) \div A \in Int /\ x \div A \in Int
      /\ x = (A * (x \div A)) + (x % A) /\ x + t = (A * ((x + t) \div A)) + ((x + t) % A)
  BY SMT
<1>2. t = A * n /\ n \in Int BY <1>1, SMT
<1>. HIDE DEF n
<1>3. (A * n) % A = 0 BY <1>2, MultipleIsZero
<1>. QED BY <1>2, <1>3

\* A period of more than two bytes tells neighbours apart.
LEMMA NeighboursDiffer ==
  ASSUME NEW A \in Nat, A > 2, NEW x \in Nat
  PROVE  (x + 2) % A # x % A
<1>. SUFFICES ASSUME NEW t \in Nat, t = 2, (x + t) % A = x % A PROVE FALSE BY SMT
<1>1. A > 0 BY SMT
<1>2. t % A = 0 BY <1>1, SameRest
<1>3. t % A = 2 BY SMT
<1>. QED BY <1>2, <1>3

\* No such period fits both distances between the addresses of the header.
LEMMA NoPeriod ==
  ASSUME NEW A \in Nat, A > 2, 160 % A = 0, 178 % A = 0
  PROVE  FALSE
<1> DEFINE q == 160 \div A
           r == 178 \div A
<1>1. A > 0 /\ q \in Int /\ r \in Int /\ 160 = A * q /\ 178 = A * r BY SMT
<1>. HIDE DEF q, r
<1>2. A * ((9 * q) - (8 * r)) = 16 /\ A * (r - q) = 18 BY <1>1, SMT
<1> DEFINE n == r - q - ((9 * q) - (8 * r))
<1>3. A * n = 2 /\ n \in Int BY <1>1, <1>2, SMT
<1>. HIDE DEF n
<1>4. (A * n) % A = 0 BY <1>1, <1>3, MultipleIsZero
<1>5. 2 % A = 2 BY SMT
<1>. QED BY <1>3, <1>4, <1>5

\* The sizes tried and the sizes of ROMs.
Tried == {1048576, 2097152, 4194304, 8388608, 16777216}
Sizes == {524288, 1048576, 2097152, 4194304, 8388608, 16777216, 33554432}

\* The powers of two by their values.
LEMMA Powers ==
  /\ 2 ^ 16 = 65536 /\ 2 ^ 17 = 131072 /\ 2 ^ 19 = 524288 /\ MiB = 1048576
  /\ MiB * 2 ^ 0 = 1048576 /\ MiB * 2 ^ 1 = 2097152 /\ MiB * 2 ^ 2 = 4194304
  /\ MiB * 2 ^ 3 = 8388608 /\ MiB * 2 ^ 4 = 16777216
<1>1. 2 ^ 16 = 65536 /\ 2 ^ 17 = 131072 /\ 2 ^ 19 = 524288 /\ 2 ^ 20 = 1048576 BY SMT
<1>2. MiB = 1048576 BY <1>1, SMT DEF MiB
<1>3. 2 ^ 0 = 1 /\ 2 ^ 1 = 2 /\ 2 ^ 2 = 4 /\ 2 ^ 3 = 8 /\ 2 ^ 4 = 16 BY SMT
<1>. QED BY <1>1, <1>2, <1>3, SMT

\* The sizes a ROM may have, by their values.
LEMMA SizeIs ==
  ASSUME NEW s \in {2 ^ n : n \in 19 .. 25}
  PROVE  s \in Sizes
<1>1. /\ 2 ^ 19 = 524288 /\ 2 ^ 20 = 1048576 /\ 2 ^ 21 = 2097152 /\ 2 ^ 22 = 4194304
      /\ 2 ^ 23 = 8388608 /\ 2 ^ 24 = 16777216 /\ 2 ^ 25 = 33554432
  BY SMT
<1>. QED BY <1>1, SMT DEF Sizes

\* The sizes tried, by their values; each is twice the one before.
LEMMA TriedIs ==
  ASSUME NEW c \in 0 .. 4
  PROVE  /\ MiB * 2 ^ c \in Tried
         /\ c < 4 => MiB * 2 ^ (c + 1) = 2 * (MiB * 2 ^ c)
<1>1. c = 0 \/ c = 1 \/ c = 2 \/ c = 3 \/ c = 4 BY SMT
<1>2. CASE c = 0 BY <1>2, Powers, SMT DEF Tried
<1>3. CASE c = 1 BY <1>3, Powers, SMT DEF Tried
<1>4. CASE c = 2 BY <1>4, Powers, SMT DEF Tried
<1>5. CASE c = 3 BY <1>5, Powers, SMT DEF Tried
<1>6. CASE c = 4 BY <1>6, Powers, SMT DEF Tried
<1>. QED BY <1>1, <1>2, <1>3, <1>4, <1>5, <1>6

\* A ROM longer than a size tried has all of it twice.
LEMMA TriedAndSizes ==
  ASSUME NEW t \in Tried, NEW s \in Sizes
  PROVE  /\ t \in Nat /\ t >= 1048576 /\ t % 131072 = 0 /\ s \in Nat /\ s >= 524288
         /\ t < s => 2 * t <= s
         /\ t >= s => t % s = 0
<1>1. \/ t = 1048576 \/ t = 2097152 \/ t = 4194304 \/ t = 8388608 \/ t = 16777216 BY SMT DEF Tried
<1>2. \/ s = 524288 \/ s = 1048576 \/ s = 2097152 \/ s = 4194304 \/ s = 8388608 \/ s = 16777216
      \/ s = 33554432
  BY SMT DEF Sizes
<1>3. t % 131072 = 0 BY <1>1, SMT
<1>4. t < s => 2 * t <= s BY <1>1, <1>2, SMT
<1>5. ASSUME t >= s PROVE t % s = 0
  <2>1. CASE s = 524288 BY <1>1, <2>1, SMT
  <2>2. CASE s = 1048576 BY <1>1, <2>2, SMT
  <2>3. CASE s = 2097152 BY <1>1, <1>5, <2>3, SMT
  <2>4. CASE s = 4194304 BY <1>1, <1>5, <2>4, SMT
  <2>5. CASE s = 8388608 BY <1>1, <1>5, <2>5, SMT
  <2>6. CASE s = 16777216 BY <1>1, <1>5, <2>6, SMT
  <2>7. CASE s = 33554432 BY <1>1, <1>5, <2>7, SMT
  <2>. QED BY <1>2, <2>1, <2>2, <2>3, <2>4, <2>5, <2>6, <2>7
<1>6. t \in Nat /\ t >= 1048576 /\ s \in Nat /\ s >= 524288 BY <1>1, <1>2, SMT
<1>. QED BY <1>3, <1>4, <1>5, <1>6

-----------------------------------------------------------------------------
(* Where the probe looks *)

Place(p, k) == PT_OFF[p] + word_stride[k]

\* No place looked at is at the end of a page of 128 KiB, where a burst is
\* addressed anew, and those of the first two points are within the smallest size.
LEMMA PlaceIs ==
  /\ \A p \in 1 .. 4 : /\ PT_OFF[p] \in Nat /\ PT_OFF[p] % 131072 < 131000
                       /\ PT_OFF[p] % 524288 < 524000 /\ PT_OFF[p] % 2 = 0
  /\ word_stride[1] = 0 /\ word_stride[2] = 2
  /\ \A k \in 1 .. 4 : word_stride[k] \in Nat /\ word_stride[k] < 1100
  /\ \A p \in 1 .. 4, k \in 1 .. 4 : Place(p, k) \in Nat /\ Place(p, k) % 131072 < 131000
  /\ \A p \in 1 .. 2, k \in 1 .. 4 : Place(p, k) < 1048576
<1>1. /\ PT_OFF[1] = 0 /\ PT_OFF[2] = 699046 /\ PT_OFF[3] = 1267612 /\ PT_OFF[4] = 1966086
      /\ word_stride[1] = 0 /\ word_stride[2] = 2 /\ word_stride[3] = 64 /\ word_stride[4] = 1026
  BY SMT DEF PT_OFF, word_stride
<1>2. \A p \in 1 .. 4 : p = 1 \/ p = 2 \/ p = 3 \/ p = 4 BY SMT
<1>3. \A p \in 1 .. 4 : /\ PT_OFF[p] \in Nat /\ PT_OFF[p] % 131072 < 131000
                        /\ PT_OFF[p] % 524288 < 524000 /\ PT_OFF[p] % 2 = 0
  BY <1>1, <1>2, SMT
<1>4. \A k \in 1 .. 4 : word_stride[k] \in Nat /\ word_stride[k] < 1100 BY <1>1, <1>2, SMT
<1>5. \A p \in 1 .. 4 : PT_OFF[p] % 131072 < 120000 BY <1>1, <1>2, SMT
<1>6. ASSUME NEW p \in 1 .. 4, NEW k \in 1 .. 4
      PROVE  Place(p, k) \in Nat /\ Place(p, k) % 131072 < 131000
  <2>1. PT_OFF[p] \in Nat /\ PT_OFF[p] % 131072 < 120000 BY <1>3, <1>5
  <2>2. word_stride[k] \in Nat /\ word_stride[k] < 1100 BY <1>4
  <2>. QED BY <2>1, <2>2, SMT DEF Place
<1>7. ASSUME NEW p \in 1 .. 2, NEW k \in 1 .. 4 PROVE Place(p, k) < 1048576
  <2>1. PT_OFF[p] \in Nat /\ PT_OFF[p] < 700000 BY <1>1, SMT
  <2>2. word_stride[k] \in Nat /\ word_stride[k] < 1100 BY <1>4
  <2>. QED BY <2>1, <2>2, SMT DEF Place
<1>. QED BY <1>1, <1>3, <1>4, <1>6, <1>7

\* What is looked at beyond a size, and the reference it is compared with.
Addr(t, p, k) == t + Place(p, k)
Ref(t, p, k) == Addr(t, p, k) % t
Base(t, p) == t + PT_OFF[p]

Open(t, p, k) == Read16(Addr(t, p, k)) = OpenBus(Addr(t, p, k))
Mirrored(t, p, k) == Read16(Addr(t, p, k)) = Read16(Ref(t, p, k))
RefOpen(t, p, k) == Read16(Ref(t, p, k)) = OpenBus(Ref(t, p, k))
Differs(t, p, k) == Read16(Addr(t, p, k)) # Read16(Addr(t, p, 1))
Conf(t, p) == /\ Read16(Base(t, p)) = OpenBus(Base(t, p))
              /\ SecondBeat(Base(t, p)) # OpenBus(Base(t, p) + 2)

\* The verdict of a point, from what can be read there.
Floats(t, p) == (\A k \in 1 .. 4 : Open(t, p, k)) /\ Conf(t, p)
Mirrors(t, p) ==
  /\ \A k \in 1 .. 4 : Mirrored(t, p, k)
  /\ (\E k \in 1 .. 4 : Differs(t, p, k)) /\ (\E k \in 1 .. 4 : ~RefOpen(t, p, k))
EndsAt(t, p) == Floats(t, p) \/ Mirrors(t, p)

\* So with the addresses, and the first two words are neighbours.
LEMMA AddrIs ==
  ASSUME NEW t \in Tried, NEW p \in 1 .. 4, NEW k \in 1 .. 4
  PROVE  /\ Addr(t, p, k) \in Nat /\ Addr(t, p, k) >= t /\ Addr(t, p, k) % 131072 < 131000
         /\ Addr(t, p, 1) = Base(t, p) /\ Addr(t, p, 2) = Base(t, p) + 2
         /\ Base(t, p) \in Nat
<1>1. t \in Nat /\ t % 131072 = 0
  <2>1. 524288 \in Sizes BY SMT DEF Sizes
  <2>. QED BY <2>1, TriedAndSizes, SMT
<1>2. Place(p, k) \in Nat /\ Place(p, k) % 131072 < 131000 BY PlaceIs
<1>3. PT_OFF[p] \in Nat /\ word_stride[1] = 0 /\ word_stride[2] = 2 BY PlaceIs
<1>4. Addr(t, p, k) = t + Place(p, k) BY DEF Addr
<1>5. (t + Place(p, k)) % 131072 < 131000 BY <1>1, <1>2, SMT
<1>6. Addr(t, p, 1) = Base(t, p) /\ Addr(t, p, 2) = Base(t, p) + 2 /\ Base(t, p) \in Nat
  BY <1>1, <1>3, SMT DEF Addr, Place, Base
<1>7. t + Place(p, k) \in Nat /\ t + Place(p, k) >= t BY <1>1, <1>2, SMT
<1>. QED BY <1>4, <1>5, <1>6, <1>7

\* The first two points are looked at within another ROM of the same size.
LEMMA NearPlaces ==
  ASSUME NEW t \in Tried, NEW p \in 1 .. 2, NEW k \in 1 .. 4
  PROVE  Ref(t, p, k) = Place(p, k) /\ Addr(t, p, k) < 2 * t /\ Place(p, k) < t
<1>1. Place(p, k) \in Nat /\ Place(p, k) < 1048576 BY PlaceIs
<1>2. \/ t = 1048576 \/ t = 2097152 \/ t = 4194304 \/ t = 8388608 \/ t = 16777216 BY SMT DEF Tried
<1> DEFINE r == Place(p, k)
<1>3. r \in Nat /\ r < 1048576 BY <1>1
<1>. HIDE DEF r
<1>4. (t + r) % t = r /\ t + r < 2 * t /\ r < t BY <1>2, <1>3, SMT
<1>. QED BY <1>4 DEF r, Addr, Ref

-----------------------------------------------------------------------------
(* What a read returns *)

IsBlank(x) == Within(cart.blank, x)
IsOwn(x) == Within(cart.own, x)
IsData(x) == ~IsBlank(x) /\ ~IsOwn(x)
Datum(x) == IF x % cart.again[1] < cart.again[2] THEN x % cart.again[1] ELSE x

\* What is neither blank nor its own address is data.
LEMMA MarkedIs ==
  ASSUME NEW x
  PROVE  Within(cart.blank \cup cart.own, x) <=> ~IsData(x)
BY DEF Within, IsBlank, IsOwn, IsData

\* The three kinds of content.
LEMMA ContentIs ==
  ASSUME NEW x
  PROVE  /\ IsBlank(x) => Content(x) = Blank
         /\ IsOwn(x) /\ ~IsBlank(x) => Content(x) = OpenBus(x)
         /\ IsData(x) => Content(x) = <<"data", Datum(x)>>
<1>1. IsBlank(x) => Content(x) = Blank BY MarkedIs DEF Content, IsBlank, IsOwn, IsData
<1>2. IsOwn(x) /\ ~IsBlank(x) => Content(x) = OpenBus(x)
  BY MarkedIs DEF Content, IsBlank, IsOwn, IsData
<1>3. IsData(x) => Content(x) = <<"data", Datum(x)>>
  BY MarkedIs DEF Content, IsBlank, IsOwn, IsData, Datum
<1>. QED BY <1>1, <1>2, <1>3

\* The halfword on a bus that nothing drives: another at the next address, the
\* same a page of 128 KiB on, and blank only at the end of such a page.
LEMMA BusIs ==
  ASSUME NEW x \in Nat
  PROVE  /\ x % 131072 < 131000 => OpenBus(x) # Blank
         /\ OpenBus(x + 2) # OpenBus(x)
         /\ \A t \in Nat : t % 131072 = 0 => OpenBus(t + x) = OpenBus(x)
<1>1. \A a, b \in Nat : OpenBus(a) = OpenBus(b) <=> (a \div 2) % 65536 = (b \div 2) % 65536
  BY Powers DEF OpenBus, Half
<1>2. \A a \in Nat : OpenBus(a) = Blank => (a \div 2) % 65536 = 65535
  <2>1. 65535 % 65536 = 65535 BY SMT
  <2>. QED BY <2>1, Powers, SMT DEF OpenBus, Half, Blank
<1>3. x % 131072 < 131000 => (x \div 2) % 65536 # 65535 BY SMT
<1>4. ((x + 2) \div 2) % 65536 # (x \div 2) % 65536 /\ x + 2 \in Nat BY SMT
<1>5. ASSUME NEW t \in Nat, t % 131072 = 0
      PROVE  ((t + x) \div 2) % 65536 = (x \div 2) % 65536 /\ t + x \in Nat
  BY <1>5, SMT
<1>. QED BY <1>1, <1>2, <1>3, <1>4, <1>5

\* Data is not what an undriven bus shows, nor blank.
LEMMA DataIsData ==
  ASSUME NEW x, NEW y
  PROVE  <<"data", x>> # OpenBus(y) /\ <<"data", x>> # Blank
BY DEF OpenBus, Half, Blank

\* Below its end a cartridge shows its content.
LEMMA BelowItsEnd ==
  ASSUME IsCartridge(cart), NEW x \in Nat, x < cart.size
  PROVE  Drives(x) /\ Driven(x) = Content(x) /\ Read16(x) = Content(x)
<1>1. cart.size \in Nat
  <2>1. \A s \in Sizes : s \in Nat BY SMT DEF Sizes
  <2>. QED BY <2>1, SizeIs DEF IsCartridge
<1>2. x \notin cart.live BY <1>1 DEF IsCartridge
<1>3. x % cart.size = x BY <1>1, SMT
<1>. QED BY <1>2, <1>3 DEF Drives, Driven, Read16

-----------------------------------------------------------------------------
(* Below the end of the ROM *)

\* A point that ends a ROM before its end is a mirror: the bus does not float there.
LEMMA NoFloatBelow ==
  ASSUME IsCartridge(cart), NEW t \in Tried, NEW p \in 1 .. 2, 2 * t <= cart.size
  PROVE  ~Floats(t, p)
<1>. SUFFICES ASSUME Floats(t, p) PROVE FALSE OBVIOUS
<1>1. 2 \in 1 .. 4 /\ p \in 1 .. 4 BY SMT
<1>2. Addr(t, p, 2) = Base(t, p) + 2 /\ Base(t, p) \in Nat /\ Addr(t, p, 2) \in Nat BY <1>1, AddrIs
<1>3. Addr(t, p, 2) < cart.size
  <2>1. Addr(t, p, 2) < 2 * t BY <1>1, NearPlaces
  <2>2. cart.size \in Nat /\ t \in Nat
    <3>1. cart.size \in Sizes \cup {0} BY SizeIs DEF IsCartridge
    <3>. QED BY <3>1, SMT DEF Sizes, Tried
  <2>. QED BY <1>2, <2>1, <2>2, SMT
<1>4. Read16(Base(t, p) + 2) = OpenBus(Base(t, p) + 2) BY <1>1, <1>2 DEF Floats, Open
<1>5. Drives(Base(t, p) + 2) /\ Driven(Base(t, p) + 2) = Read16(Base(t, p) + 2)
  BY <1>2, <1>3, BelowItsEnd
<1>6. SecondBeat(Base(t, p)) = Driven(Base(t, p) + 2) BY <1>5 DEF SecondBeat
<1>. QED BY <1>4, <1>5, <1>6 DEF Floats, Conf

\* Two places with one content hold the same data, or neither holds any.
LEMMA SameContent ==
  ASSUME NEW x \in Nat, NEW y \in Nat, Content(x) = Content(y),
         x % 131072 < 131000, y % 131072 < 131000
  PROVE  /\ IsBlank(x) <=> IsBlank(y)
         /\ IsData(x) <=> IsData(y)
         /\ IsData(x) => Datum(x) = Datum(y)
<1>1. /\ OpenBus(x) # Blank /\ OpenBus(y) # Blank BY BusIs
<1>2. \A a, b : <<"data", a>> # OpenBus(b) /\ <<"data", a>> # Blank BY DataIsData
<1>3. /\ IsBlank(x) => Content(x) = Blank
      /\ IsOwn(x) /\ ~IsBlank(x) => Content(x) = OpenBus(x)
      /\ IsData(x) => Content(x) = <<"data", Datum(x)>>
  BY ContentIs
<1>4. /\ IsBlank(y) => Content(y) = Blank
      /\ IsOwn(y) /\ ~IsBlank(y) => Content(y) = OpenBus(y)
      /\ IsData(y) => Content(y) = <<"data", Datum(y)>>
  BY ContentIs
<1>5. \A a, b : <<"data", a>> = <<"data", b>> => a = b OBVIOUS
<1>. QED BY <1>1, <1>2, <1>3, <1>4, <1>5 DEF IsData

\* The same data t bytes on: the ROM starts over every t bytes, and this place of
\* it is one that repeats.
LEMMA SameData ==
  ASSUME IsCartridge(cart), NEW x \in Nat, NEW t \in Nat, t > 0, Datum(x) = Datum(t + x)
  PROVE  t % cart.again[1] = 0 /\ x % cart.again[1] < cart.again[2]
<1> DEFINE A == cart.again[1]
           B == cart.again[2]
           y == t + x
<1>1. A \in Nat /\ A > 0 /\ B \in Nat /\ B <= A BY DEF IsCartridge
<1>2. y \in Nat /\ y > x /\ y = x + t BY SMT
<1>3. /\ Datum(x) = IF x % A < B THEN x % A ELSE x
      /\ Datum(y) = IF y % A < B THEN y % A ELSE y
  BY DEF Datum
<1>4. Datum(x) = Datum(y) OBVIOUS
<1>. HIDE DEF A, B, y
<1>5. /\ x % A \in Nat /\ x % A <= x /\ y % A \in Nat /\ (x < A => x % A = x) BY <1>1, <1>2, SMT
<1>6. x % A < B /\ y % A < B
  <2>1. ~(x % A >= B /\ y % A >= B) BY <1>2, <1>3, <1>4, <1>5, <1>1
  <2>2. ~(x % A < B /\ y % A >= B) BY <1>2, <1>3, <1>4, <1>5, <1>1
  <2>3. ~(x % A >= B /\ y % A < B)
    <3>. SUFFICES ASSUME x % A >= B, y % A < B PROVE FALSE OBVIOUS
    <3>1. x = y % A BY <1>1, <1>3, <1>4, <1>5
    <3>2. x < A BY <3>1, <1>1, <1>5
    <3>. QED BY <3>1, <3>2, <1>1, <1>5
  <2>. QED BY <2>1, <2>2, <2>3, <1>1, <1>5
<1>7. x % A = y % A BY <1>3, <1>4, <1>6
<1>8. t % A = 0 BY <1>1, <1>2, <1>7, SameRest
<1>. QED BY <1>6, <1>8 DEF A, B

\* The mirror is one: at some place that is looked at there is data.
LEMMA MirrorHoldsData ==
  ASSUME IsCartridge(cart), NEW t \in Tried, NEW p \in 1 .. 2, 2 * t <= cart.size, Mirrors(t, p)
  PROVE  /\ \E k \in 1 .. 4 : IsData(Place(p, k))
         /\ \A k \in 1 .. 4 : IsData(Place(p, k)) =>
              t % cart.again[1] = 0 /\ Place(p, k) % cart.again[1] < cart.again[2]
<1>0. cart.size \in Nat /\ t \in Nat /\ t > 0 /\ t % 131072 = 0
  <2>1. cart.size \in Sizes \cup {0} BY SizeIs DEF IsCartridge
  <2>2. 524288 \in Sizes BY SMT DEF Sizes
  <2>3. t \in Nat /\ t >= 1048576 /\ t % 131072 = 0 BY <2>2, TriedAndSizes
  <2>4. cart.size \in Nat BY <2>1, SMT DEF Sizes
  <2>. QED BY <2>3, <2>4, SMT
<1>1. ASSUME NEW k \in 1 .. 4
      PROVE  /\ Place(p, k) \in Nat /\ t + Place(p, k) \in Nat
             /\ Place(p, k) % 131072 < 131000 /\ (t + Place(p, k)) % 131072 < 131000
             /\ Read16(Addr(t, p, k)) = Content(t + Place(p, k))
             /\ Read16(Ref(t, p, k)) = Content(Place(p, k))
             /\ Content(t + Place(p, k)) = Content(Place(p, k))
             /\ Ref(t, p, k) = Place(p, k)
  <2>1. p \in 1 .. 4 BY SMT
  <2>2. Place(p, k) \in Nat /\ Place(p, k) % 131072 < 131000 BY <2>1, PlaceIs
  <2>3. Addr(t, p, k) \in Nat /\ Addr(t, p, k) % 131072 < 131000 BY <2>1, AddrIs
  <2>4. Ref(t, p, k) = Place(p, k) /\ Addr(t, p, k) < 2 * t /\ Place(p, k) < t BY NearPlaces
  <2>5. Addr(t, p, k) < cart.size /\ Place(p, k) < cart.size BY <1>0, <2>2, <2>3, <2>4, SMT
  <2>6. Read16(Addr(t, p, k)) = Content(Addr(t, p, k)) BY <2>3, <2>5, BelowItsEnd
  <2>7. Read16(Place(p, k)) = Content(Place(p, k)) BY <2>2, <2>5, BelowItsEnd
  <2>8. Read16(Addr(t, p, k)) = Read16(Ref(t, p, k)) BY DEF Mirrors, Mirrored
  <2>. QED BY <2>2, <2>3, <2>4, <2>6, <2>7, <2>8 DEF Addr
<1>2. \A k \in 1 .. 4 : /\ IsBlank(t + Place(p, k)) <=> IsBlank(Place(p, k))
                        /\ IsData(t + Place(p, k)) <=> IsData(Place(p, k))
                        /\ IsData(Place(p, k)) => Datum(Place(p, k)) = Datum(t + Place(p, k))
  BY <1>1, SameContent
<1>3. \A k \in 1 .. 4 : IsData(Place(p, k)) =>
        t % cart.again[1] = 0 /\ Place(p, k) % cart.again[1] < cart.again[2]
  BY <1>0, <1>1, <1>2, SameData
<1>4. \E k \in 1 .. 4 : IsData(Place(p, k))
  <2>. SUFFICES ASSUME \A k \in 1 .. 4 : ~IsData(Place(p, k)) PROVE FALSE OBVIOUS
  <2>1. CASE cart.own = {}
    <3>1. \A k \in 1 .. 4 : IsBlank(t + Place(p, k))
      BY <1>2, <2>1 DEF IsData, IsOwn, Within
    <3>2. \A k \in 1 .. 4 : Read16(Addr(t, p, k)) = Blank BY <3>1, <1>1, ContentIs
    <3>3. 1 \in 1 .. 4 BY SMT
    <3>. QED BY <3>2, <3>3 DEF Mirrors, Differs
  <2>2. CASE cart.blank = {}
    <3>1. \A k \in 1 .. 4 : IsOwn(Place(p, k)) /\ ~IsBlank(Place(p, k))
      BY <2>2 DEF IsData, IsBlank, Within
    <3>2. \A k \in 1 .. 4 : Read16(Ref(t, p, k)) = OpenBus(Ref(t, p, k)) BY <3>1, <1>1, ContentIs
    <3>. QED BY <3>2 DEF Mirrors, RefOpen
  <2>. QED BY <2>1, <2>2 DEF IsCartridge
<1>. QED BY <1>3, <1>4

\* Two points tell a ROM from its first part, unless it is that part over and over.
LEMMA TwoPointsTell ==
  ASSUME IsCartridge(cart), NEW t \in Tried, t < cart.size, EndsAt(t, 1), EndsAt(t, 2)
  PROVE  Repeats(t)
<1>1. 2 * t <= cart.size
  <2>1. cart.size \in Sizes \cup {0} BY SizeIs DEF IsCartridge
  <2>2. cart.size \in Sizes BY <2>1, SMT DEF Tried
  <2>. QED BY <2>2, TriedAndSizes
<1>2. 1 \in 1 .. 2 /\ 2 \in 1 .. 2 BY SMT
<1>3. \A p \in 1 .. 2 : p = 1 \/ p = 2 BY SMT
<1>4. \A p \in 1 .. 2 : Mirrors(t, p) BY <1>1, <1>3, NoFloatBelow DEF EndsAt
<1>5. \A p \in 1 .. 2 :
        /\ \E k \in 1 .. 4 : IsData(Place(p, k))
        /\ \A k \in 1 .. 4 : IsData(Place(p, k)) =>
             t % cart.again[1] = 0 /\ Place(p, k) % cart.again[1] < cart.again[2]
  BY <1>1, <1>4, MirrorHoldsData
<1>6. t % cart.again[1] = 0 BY <1>2, <1>5
<1>7. cart.again[1] = cart.again[2]
  <2>. SUFFICES ASSUME cart.again[1] # cart.again[2] PROVE FALSE OBVIOUS
  <2>1. cart.blank \cup cart.own = {} BY DEF IsCartridge
  <2>2. PICK p \in 1 .. 2 : \E k \in DOMAIN word_stride :
          (PT_OFF[p] + word_stride[k]) % cart.again[1] >= cart.again[2]
    BY DEF IsCartridge
  <2>3. DOMAIN word_stride = 1 .. 4 BY SMT DEF word_stride
  <2>4. PICK k \in 1 .. 4 : Place(p, k) % cart.again[1] >= cart.again[2] BY <2>2, <2>3 DEF Place
  <2>5. IsData(Place(p, k)) BY <2>1, MarkedIs DEF Within
  <2>6. Place(p, k) % cart.again[1] < cart.again[2] BY <1>5, <2>5
  <2>7. /\ cart.again[1] \in Nat /\ cart.again[1] > 0 /\ cart.again[2] \in Nat BY DEF IsCartridge
  <2>8. Place(p, k) \in Nat
    <3>1. p \in 1 .. 4 BY SMT
    <3>. QED BY <3>1, PlaceIs
  <2>9. Place(p, k) % cart.again[1] \in Nat BY <2>7, <2>8, SMT
  <2>. QED BY <2>4, <2>6, <2>7, <2>9, SMT
<1>. QED BY <1>6, <1>7 DEF Repeats

-----------------------------------------------------------------------------
(* The end of the ROM *)

\* An address after a whole number of ROMs is the address in the ROM.
LEMMA RestOfRest ==
  ASSUME NEW t \in Tried, NEW s \in Sizes, t >= s, NEW x \in Nat
  PROVE  (x % t) % s = x % s
<1>1. \/ t = 1048576 \/ t = 2097152 \/ t = 4194304 \/ t = 8388608 \/ t = 16777216 BY SMT DEF Tried
<1>2. \/ s = 524288 \/ s = 1048576 \/ s = 2097152 \/ s = 4194304 \/ s = 8388608 \/ s = 16777216
      \/ s = 33554432
  BY SMT DEF Sizes
<1>3. CASE s = 524288 BY <1>1, <1>3, SMT
<1>4. CASE s = 1048576 BY <1>1, <1>4, SMT
<1>5. CASE s = 2097152 BY <1>1, <1>5, SMT
<1>6. CASE s = 4194304 BY <1>1, <1>6, SMT
<1>7. CASE s = 8388608 BY <1>1, <1>7, SMT
<1>8. CASE s = 16777216 BY <1>1, <1>8, SMT
<1>9. CASE s = 33554432 BY <1>1, <1>9, SMT
<1>. QED BY <1>2, <1>3, <1>4, <1>5, <1>6, <1>7, <1>8, <1>9

\* No ROM starts over between the first two words of a point.
LEMMA NoSeam ==
  ASSUME NEW t \in Tried, NEW p \in 1 .. 4, NEW s \in Sizes
  PROVE  /\ Base(t, p) % s \in Nat
         /\ (Base(t, p) + 2) % s = (Base(t, p) % s) + 2
<1> DEFINE o == PT_OFF[p]
           b == Base(t, p)
<1>1. o \in Nat /\ o % 524288 < 524000 BY PlaceIs
<1>2. b = t + o BY DEF Base
<1>. HIDE DEF o, b
<1>3. \/ t = 1048576 \/ t = 2097152 \/ t = 4194304 \/ t = 8388608 \/ t = 16777216 BY SMT DEF Tried
<1>4. b \in Nat /\ b % 524288 < 524000 BY <1>1, <1>2, <1>3, SMT
<1>5. \/ s = 524288 \/ s = 1048576 \/ s = 2097152 \/ s = 4194304 \/ s = 8388608 \/ s = 16777216
      \/ s = 33554432
  BY SMT DEF Sizes
<1>6. b % s \in Nat /\ (b + 2) % s = (b % s) + 2 BY <1>4, <1>5, SMT
<1>. QED BY <1>6 DEF b

\* Data differs from the data next to it.
LEMMA NextDatum ==
  ASSUME IsCartridge(cart), NEW x \in Nat
  PROVE  Datum(x + 2) # Datum(x)
<1> DEFINE A == cart.again[1]
           B == cart.again[2]
           y == x + 2
<1>1. A \in Nat /\ A > 2 /\ B \in Nat /\ B <= A BY DEF IsCartridge
<1>2. y \in Nat /\ y = x + 2 OBVIOUS
<1>3. /\ Datum(x) = IF x % A < B THEN x % A ELSE x
      /\ Datum(y) = IF y % A < B THEN y % A ELSE y
  BY DEF Datum
<1>4. y % A # x % A BY <1>1, NeighboursDiffer
<1>. HIDE DEF A, B, y
<1>5. /\ x % A \in Nat /\ x % A <= x /\ y % A \in Nat /\ y % A < A /\ (x < A => x % A = x)
  BY <1>1, <1>2, SMT
<1>6. Datum(y) # Datum(x) BY <1>1, <1>2, <1>3, <1>4, <1>5
<1>. QED BY <1>6 DEF y

\* Where nothing drives the bus, a point floats.
LEMMA FloatIsSeen ==
  ASSUME IsCartridge(cart), ShowsItsEnd, ~cart.wraps,
         NEW t \in Tried, NEW p \in 1 .. 4, t >= cart.size
  PROVE  Floats(t, p)
<1>1. cart.size \in Nat /\ t \in Nat
  <2>1. cart.size \in Sizes \cup {0} BY SizeIs DEF IsCartridge
  <2>. QED BY <2>1, SMT DEF Sizes, Tried
<1>2. ASSUME NEW x \in Nat, x >= t PROVE ~Drives(x) /\ Read16(x) = OpenBus(x)
  BY <1>1, <1>2 DEF ShowsItsEnd, Drives, Read16
<1>3. 1 \in 1 .. 4 /\ 2 \in 1 .. 4 BY SMT
<1>4. \A k \in 1 .. 4 : Open(t, p, k) BY <1>2, AddrIs DEF Open
<1>5. /\ Base(t, p) \in Nat /\ Base(t, p) >= t /\ Base(t, p) % 131072 < 131000
      /\ Base(t, p) + 2 \in Nat /\ Base(t, p) + 2 >= t /\ (Base(t, p) + 2) % 131072 < 131000
  BY <1>3, AddrIs
<1>6. Read16(Base(t, p)) = OpenBus(Base(t, p)) BY <1>2, <1>5
<1>7. ~Drives(Base(t, p) + 2) BY <1>2, <1>5
<1>8. /\ OpenBus(Base(t, p) + 2) # Blank
      /\ OpenBus(Base(t, p) + 2) # OpenBus(Base(t, p))
  BY <1>5, BusIs
<1>9. Base(t, p) % 2 ^ 17 # 2 ^ 17 - 2
  <2> DEFINE b == Base(t, p)
  <2>1. b \in Nat /\ b % 131072 < 131000 BY <1>5
  <2>. HIDE DEF b
  <2>2. b % 131072 # 131070 BY <2>1, SMT
  <2>3. 2 ^ 17 = 131072 /\ 2 ^ 17 - 2 = 131070 BY Powers, SMT
  <2>. QED BY <2>2, <2>3 DEF b
<1>10. SecondBeat(Base(t, p)) # OpenBus(Base(t, p) + 2) BY <1>7, <1>8, <1>9 DEF SecondBeat
<1>. QED BY <1>4, <1>6, <1>10 DEF Floats, Conf

\* Where the ROM starts over, a point mirrors it.
LEMMA MirrorIsSeen ==
  ASSUME IsCartridge(cart), ShowsItsEnd, cart.wraps,
         NEW t \in Tried, NEW p \in 1 .. 4, t >= cart.size
  PROVE  Mirrors(t, p)
<1>1. cart.size \in Sizes
  <2>1. cart.size \in Sizes \cup {0} BY SizeIs DEF IsCartridge
  <2>. QED BY <2>1 DEF ShowsItsEnd
<1>2. ASSUME NEW x \in Nat
      PROVE  Read16(x) = <<"data", Datum(x % cart.size)>>
  <2>1. Drives(x) /\ x \notin cart.live BY DEF ShowsItsEnd, Drives
  <2>2. IsData(x % cart.size) BY MarkedIs DEF ShowsItsEnd, Within
  <2>3. Content(x % cart.size) = <<"data", Datum(x % cart.size)>> BY <2>2, ContentIs
  <2>. QED BY <2>1, <2>3 DEF Read16, Driven
<1>3. ASSUME NEW k \in 1 .. 4
      PROVE  /\ Addr(t, p, k) \in Nat /\ Ref(t, p, k) \in Nat
             /\ Ref(t, p, k) % cart.size = Addr(t, p, k) % cart.size
  <2>1. Addr(t, p, k) \in Nat BY AddrIs
  <2>2. t \in Nat /\ t > 0 BY SMT DEF Tried
  <2>3. Ref(t, p, k) \in Nat BY <2>1, <2>2, SMT DEF Ref
  <2>. QED BY <1>1, <2>1, <2>3, RestOfRest DEF Ref
<1>4. \A k \in 1 .. 4 : Mirrored(t, p, k) BY <1>2, <1>3 DEF Mirrored
<1>5. 1 \in 1 .. 4 /\ 2 \in 1 .. 4 BY SMT
<1>6. ~RefOpen(t, p, 1) BY <1>2, <1>3, <1>5, DataIsData DEF RefOpen
<1>7. Differs(t, p, 2)
  <2>1. /\ Addr(t, p, 1) = Base(t, p) /\ Addr(t, p, 2) = Base(t, p) + 2
        /\ Base(t, p) \in Nat /\ Base(t, p) + 2 \in Nat
    BY <1>3, <1>5, AddrIs
  <2>2. /\ Base(t, p) % cart.size \in Nat
        /\ (Base(t, p) + 2) % cart.size = (Base(t, p) % cart.size) + 2
    BY <1>1, NoSeam
  <2>3. Datum((Base(t, p) % cart.size) + 2) # Datum(Base(t, p) % cart.size) BY <2>2, NextDatum
  <2>. QED BY <1>2, <2>1, <2>2, <2>3 DEF Differs
<1>. QED BY <1>4, <1>5, <1>6, <1>7 DEF Mirrors

\* Every point beyond the end of a ROM that shows it ends it.
LEMMA EndIsSeen ==
  ASSUME IsCartridge(cart), ShowsItsEnd, NEW t \in Tried, NEW p \in 1 .. 4, t >= cart.size
  PROVE  EndsAt(t, p)
BY FloatIsSeen, MirrorIsSeen DEF EndsAt

-----------------------------------------------------------------------------
(* The presence pass *)

PresOpen(i) == Read16(pres_addr[i]) = OpenBus(pres_addr[i])
PresVaries(i) == Read16(pres_addr[i]) # Read16(pres_addr[1])
IsThere == (\E i \in 1 .. 6 : ~PresOpen(i)) /\ (\E i \in 1 .. 6 : PresVaries(i))

\* All the presence addresses but the last are within the smallest ROM.
LEMMA PresenceIs ==
  /\ pres_addr[1] = 0 /\ pres_addr[2] = 160 /\ pres_addr[3] = 178
  /\ DOMAIN pres_addr = 1 .. 6 /\ Len(pres_addr) = 6
  /\ \A i \in 1 .. 6 : /\ pres_addr[i] \in Nat /\ pres_addr[i] % 131072 < 131000
                       /\ (pres_addr[i] < 524288 <=> i < 6)
<1>1. /\ pres_addr[1] = 0 /\ pres_addr[2] = 160 /\ pres_addr[3] = 178 /\ pres_addr[4] = 149130
      /\ pres_addr[5] = 507102 /\ pres_addr[6] = 987700
      /\ DOMAIN pres_addr = 1 .. 6 /\ Len(pres_addr) = 6
  BY SMT DEF pres_addr
<1>2. ASSUME NEW i \in 1 .. 6
      PROVE  /\ pres_addr[i] \in Nat /\ pres_addr[i] % 131072 < 131000
             /\ (pres_addr[i] < 524288 <=> i < 6)
  <2>1. i = 1 \/ i = 2 \/ i = 3 \/ i = 4 \/ i = 5 \/ i = 6 BY SMT
  <2>. QED BY <1>1, <2>1, SMT
<1>. QED BY <1>1, <1>2

\* Nothing is there when the slot is empty.
LEMMA EmptySlotIsSeen ==
  ASSUME IsCartridge(cart), cart.size = 0
  PROVE  ~IsThere
<1>1. \A i \in 1 .. 6 : pres_addr[i] \in Nat BY PresenceIs
<1>2. \A x \in Nat : ~Drives(x) BY DEF IsCartridge, Drives
<1>3. \A x \in Nat : Read16(x) = IF cart.decays = "first" THEN Blank ELSE OpenBus(x)
  BY <1>2 DEF Read16
<1>4. 1 \in 1 .. 6 BY SMT
<1>5. CASE cart.decays = "first"
  <2>1. \A i \in 1 .. 6 : ~PresVaries(i) BY <1>1, <1>3, <1>4, <1>5 DEF PresVaries
  <2>. QED BY <2>1 DEF IsThere
<1>6. CASE cart.decays # "first"
  <2>1. \A i \in 1 .. 6 : PresOpen(i) BY <1>1, <1>3, <1>6 DEF PresOpen
  <2>. QED BY <2>1 DEF IsThere
<1>. QED BY <1>5, <1>6

\* A ROM that is not seen has no data where it was looked for.
LEMMA NotThereIsFeatureless ==
  ASSUME IsCartridge(cart), cart.size # 0, ~IsThere
  PROVE  Featureless
<1>1. cart.size \in Nat /\ cart.size >= 524288
  <2>1. cart.size \in Sizes \cup {0} BY SizeIs DEF IsCartridge
  <2>. QED BY <2>1, SMT DEF Sizes
<1>2. ASSUME NEW i \in 1 .. 5
      PROVE  /\ pres_addr[i] \in Nat /\ pres_addr[i] % 131072 < 131000 /\ i \in 1 .. 6
             /\ Read16(pres_addr[i]) = Content(pres_addr[i])
  <2>1. i \in 1 .. 6 /\ i < 6 BY SMT
  <2>2. pres_addr[i] \in Nat /\ pres_addr[i] < 524288 BY <2>1, PresenceIs
  <2>3. pres_addr[i] < cart.size BY <1>1, <2>2, SMT
  <2>. QED BY <2>1, <2>2, <2>3, PresenceIs, BelowItsEnd
<1>3. \A i \in 1 .. 5 : ~IsData(pres_addr[i])
  <2>1. CASE \A i \in 1 .. 6 : PresOpen(i)
    <3>1. \A i \in 1 .. 5 : Content(pres_addr[i]) = OpenBus(pres_addr[i])
      BY <1>2, <2>1 DEF PresOpen
    <3>. QED BY <3>1, ContentIs, DataIsData
  <2>2. CASE \A i \in 1 .. 6 : ~PresVaries(i)
    <3>1. \A i \in 1 .. 5 : Content(pres_addr[i]) = Content(pres_addr[1])
      <4>1. 1 \in 1 .. 5 BY SMT
      <4>. QED BY <1>2, <2>2, <4>1 DEF PresVaries
    <3>2. 1 \in 1 .. 5 /\ 2 \in 1 .. 5 /\ 3 \in 1 .. 5 BY SMT
    <3>3. \A i \in 1 .. 5 : /\ IsData(pres_addr[i]) <=> IsData(pres_addr[1])
                            /\ IsData(pres_addr[i]) => Datum(pres_addr[i]) = Datum(pres_addr[1])
      BY <1>2, <3>1, <3>2, SameContent
    <3>. SUFFICES ASSUME IsData(pres_addr[1]) PROVE FALSE BY <3>3
    <3>4. Datum(0) = Datum(160 + 0) /\ Datum(0) = Datum(178 + 0)
      <4>1. 160 + 0 = 160 /\ 178 + 0 = 178 BY SMT
      <4>. QED BY <3>2, <3>3, <4>1, PresenceIs
    <3>5. 160 % cart.again[1] = 0 /\ 178 % cart.again[1] = 0
      <4>1. 160 > 0 /\ 178 > 0 /\ 0 \in Nat /\ 160 \in Nat /\ 178 \in Nat BY SMT
      <4>. QED BY <3>4, <4>1, SameData
    <3>6. cart.again[1] \in Nat /\ cart.again[1] > 2 BY DEF IsCartridge
    <3>. QED BY <3>5, <3>6, NoPeriod
  <2>. QED BY <2>1, <2>2 DEF IsThere
<1>4. ASSUME NEW i \in DOMAIN pres_addr, pres_addr[i] < 2 ^ 19
      PROVE  Within(cart.blank \cup cart.own, pres_addr[i])
  <2>1. i \in 1 .. 6 /\ 2 ^ 19 = 524288 BY PresenceIs, Powers
  <2>2. i < 6 BY <1>4, <2>1, PresenceIs
  <2>3. i \in 1 .. 5 BY <2>1, <2>2, SMT
  <2>. QED BY <1>3, <2>3, MarkedIs
<1>. QED BY <1>4 DEF Featureless

-----------------------------------------------------------------------------
(* The invariant *)

Fields ==
  {"state", "want_gba", "size_bytes", "size_valid", "status", "cand", "point", "word", "pres",
   "mode_wait", "pres_first", "pres_all_open", "pres_varied", "ref_val", "first_val", "pt_open",
   "pt_mirror", "pt_varied", "pt_conf", "pt_ref_open"}
Looking == {"PT", "REF", "PRB", "CONF", "POINT"}
States == {"IDLE", "MODE", "PRES", "DONE"} \cup Looking

TypeInv ==
  /\ IsCartridge(cart) /\ cartMode \in BOOLEAN /\ runs \in Nat /\ DOMAIN sz = Fields
  /\ sz.state \in States /\ sz.cand \in 0 .. 4 /\ sz.point \in 1 .. 4 /\ sz.word \in 1 .. 4
  /\ sz.pres \in 1 .. 6 /\ sz.mode_wait \in Nat
  /\ sz.want_gba \in BOOLEAN /\ sz.size_valid \in BOOLEAN
  /\ sz.pres_all_open \in BOOLEAN /\ sz.pres_varied \in BOOLEAN
  /\ sz.pt_open \in BOOLEAN /\ sz.pt_mirror \in BOOLEAN /\ sz.pt_varied \in BOOLEAN
  /\ sz.pt_conf \in BOOLEAN /\ sz.pt_ref_open \in BOOLEAN

\* The presence pass so far.
PresInv ==
  sz.state \in {"MODE", "PRES"} =>
    /\ sz.state = "MODE" => sz.pres = 1
    /\ sz.pres_all_open <=> \A i \in 1 .. 6 : i < sz.pres => PresOpen(i)
    /\ sz.pres_varied <=> \E i \in 1 .. 6 : i < sz.pres /\ PresVaries(i)
    /\ sz.pres > 1 => sz.pres_first = Read16(pres_addr[1])

\* The largest size that a ROM which shows its end is tried at.
Top == IF cart.size < MiB THEN MiB ELSE cart.size

\* The sizes and the points so far.
LookInv ==
  sz.state \in Looking =>
    /\ IsThere
    /\ ShowsItsEnd => cand_size <= Top
    /\ \A p \in 1 .. 4 : p < sz.point => EndsAt(cand_size, p)

\* The first n words of a point, and of its reference.
WordsLooked(n) ==
  /\ sz.pt_open <=> \A k \in 1 .. 4 : k <= n => Open(cand_size, sz.point, k)
  /\ sz.pt_mirror <=> \A k \in 1 .. 4 : k <= n => Mirrored(cand_size, sz.point, k)
  /\ sz.pt_varied <=> \E k \in 1 .. 4 : k <= n /\ Differs(cand_size, sz.point, k)
  /\ n >= 1 => sz.first_val = Read16(Addr(cand_size, sz.point, 1))
RefsLooked(n) ==
  sz.pt_ref_open <=> \A k \in 1 .. 4 : k <= n => RefOpen(cand_size, sz.point, k)

WordInv ==
  /\ sz.state = "REF" => WordsLooked(sz.word - 1) /\ RefsLooked(sz.word - 1)
  /\ sz.state = "PRB" =>
       /\ WordsLooked(sz.word - 1) /\ RefsLooked(sz.word)
       /\ sz.ref_val = Read16(Ref(cand_size, sz.point, sz.word))
  /\ sz.state = "CONF" => WordsLooked(4) /\ RefsLooked(4) /\ sz.pt_open
  /\ sz.state = "POINT" => (pt_end <=> EndsAt(cand_size, sz.point))

\* What SizeIsSound says of a result.
Sound ==
  /\ sz.size_valid =>
       /\ cart.size # 0
       /\ sz.size_bytes >= cart.size \/ Repeats(sz.size_bytes)
       /\ ShowsItsEnd => sz.size_bytes <= cart.size \/ sz.size_bytes = MiB
  /\ ~sz.size_valid =>
       \/ sz.status = "NO_POWER"
       \/ cart.size = 0
       \/ Featureless

DoneInv == sz.state = "DONE" \/ (sz.state = "IDLE" /\ runs > 0) => Sound

Inv == TypeInv /\ PresInv /\ LookInv /\ WordInv /\ DoneInv

-----------------------------------------------------------------------------
(* What a step leaves alone *)

\* The cartridge in the slot answers as before.
LEMMA ReadsStay ==
  ASSUME cart' = cart, NEW x
  PROVE  Read16(x)' = Read16(x) /\ SecondBeat(x)' = SecondBeat(x)
<1>1. \A y : Content(y)' = Content(y)
  BY DEF Content, Within, OpenBus, Blank, Half
<1>2. \A y : Driven(y)' = Driven(y) /\ (Drives(y)' <=> Drives(y)) BY <1>1 DEF Driven, Drives
<1>. QED BY <1>2 DEF Read16, SecondBeat, OpenBus, Blank, Half

\* So what a word, a point and the presence pass come to does not change.
LEMMA LooksStay ==
  ASSUME cart' = cart
  PROVE  \A t, p, k : /\ Open(t, p, k)' <=> Open(t, p, k)
                      /\ Mirrored(t, p, k)' <=> Mirrored(t, p, k)
                      /\ RefOpen(t, p, k)' <=> RefOpen(t, p, k)
                      /\ Differs(t, p, k)' <=> Differs(t, p, k)
                      /\ Read16(Addr(t, p, k))' = Read16(Addr(t, p, k))
                      /\ Read16(Ref(t, p, k))' = Read16(Ref(t, p, k))
BY ReadsStay DEF Open, Mirrored, RefOpen, Differs, OpenBus, Half, Addr, Ref, Place, PT_OFF,
   word_stride

\* Nor what is concluded from it, nor what is asked of the result.
LEMMA VerdictsStay ==
  ASSUME cart' = cart
  PROVE  /\ \A t, p : (Conf(t, p)' <=> Conf(t, p)) /\ (EndsAt(t, p)' <=> EndsAt(t, p))
         /\ ShowsItsEnd' <=> ShowsItsEnd
         /\ Featureless' <=> Featureless
         /\ Top' = Top
         /\ \A n : Repeats(n)' <=> Repeats(n)
<1>1. \A t, p : Conf(t, p)' <=> Conf(t, p)
  BY ReadsStay DEF Conf, OpenBus, Half, Base, PT_OFF
<1>2. \A t, p : EndsAt(t, p)' <=> EndsAt(t, p) BY <1>1, LooksStay DEF EndsAt, Floats, Mirrors
<1>3. /\ ShowsItsEnd' <=> ShowsItsEnd
      /\ Featureless' <=> Featureless
      /\ Top' = Top
      /\ \A n : Repeats(n)' <=> Repeats(n)
  BY DEF ShowsItsEnd, Featureless, Within, Top, Repeats, MiB, pres_addr
<1>. QED BY <1>1, <1>2, <1>3

\* Nor whether a cartridge is there.
LEMMA PresenceStays ==
  ASSUME cart' = cart
  PROVE  /\ \A i : (PresOpen(i)' <=> PresOpen(i)) /\ (PresVaries(i)' <=> PresVaries(i))
         /\ IsThere' <=> IsThere
         /\ Read16(pres_addr[1])' = Read16(pres_addr[1])
<1>1. /\ \A i : (PresOpen(i)' <=> PresOpen(i)) /\ (PresVaries(i)' <=> PresVaries(i))
      /\ Read16(pres_addr[1])' = Read16(pres_addr[1])
  BY ReadsStay DEF PresOpen, PresVaries, OpenBus, Half, pres_addr
<1>. QED BY <1>1 DEF IsThere

-----------------------------------------------------------------------------
(* The steps *)

\* The addresses looked at, in the terms of what can be seen there.
LEMMA LookedAt ==
  ASSUME TypeInv
  PROVE  /\ cand_size \in Tried
         /\ probe_addr = Addr(cand_size, sz.point, sz.word)
         /\ mirror_addr = Ref(cand_size, sz.point, sz.word)
         /\ point_base = Base(cand_size, sz.point)
<1>0. sz.cand \in 0 .. 4 BY DEF TypeInv
<1>1. cand_size \in Tried BY <1>0, TriedIs DEF cand_size
<1>2. cand_size \in Nat BY <1>1, SMT DEF Tried
<1>3. PT_OFF[sz.point] \in Nat /\ word_stride[sz.word] \in Nat BY PlaceIs DEF TypeInv
<1>4. point_base = Base(cand_size, sz.point) BY DEF point_base, Base
<1> DEFINE t == cand_size
           o == PT_OFF[sz.point]
           w == word_stride[sz.word]
<1>5. probe_addr = (t + o) + w BY DEF probe_addr, point_base
<1>6. Addr(cand_size, sz.point, sz.word) = t + (o + w) BY DEF Addr, Place
<1>7. t \in Nat /\ o \in Nat /\ w \in Nat BY <1>2, <1>3
<1>. HIDE DEF t, o, w
<1>8. (t + o) + w = t + (o + w) BY <1>7
<1>. QED BY <1>1, <1>4, <1>5, <1>6, <1>8 DEF mirror_addr, Ref

\* Nothing is claimed before the first probe.
LEMMA InitInv == Init => Inv
<1>. SUFFICES ASSUME Init PROVE Inv OBVIOUS
<1>1. IsCartridge(cart) /\ cartMode \in BOOLEAN /\ runs \in Nat BY ProbeAssumption DEF Init
<1>2. DOMAIN sz = Fields BY DEF Init, Fields
<1>3. /\ sz.state = "IDLE" /\ sz.cand = 0 /\ sz.point = 1 /\ sz.word = 1 /\ sz.pres = 1
      /\ sz.mode_wait = 0
  BY DEF Init
<1>3a. /\ sz.want_gba \in BOOLEAN /\ sz.size_valid \in BOOLEAN
       /\ sz.pres_all_open \in BOOLEAN /\ sz.pres_varied \in BOOLEAN
       /\ sz.pt_open \in BOOLEAN /\ sz.pt_mirror \in BOOLEAN /\ sz.pt_varied \in BOOLEAN
       /\ sz.pt_conf \in BOOLEAN /\ sz.pt_ref_open \in BOOLEAN
  BY DEF Init
<1>4. TypeInv BY <1>1, <1>2, <1>3, <1>3a DEF TypeInv, States
<1>5. PresInv /\ LookInv /\ WordInv BY <1>3 DEF PresInv, LookInv, WordInv, Looking
<1>6. DoneInv BY <1>3 DEF DoneInv, Init
<1>. QED BY <1>4, <1>5, <1>6 DEF Inv

\* Neither the connector nor a clock in which nothing happens disturbs it.
LEMMA StillInv ==
  ASSUME Inv, cart' = cart, sz' = sz, runs' = runs, cartMode' \in BOOLEAN
  PROVE  Inv'
<1>1. TypeInv' BY DEF Inv, TypeInv, IsCartridge
<1>2. cand_size' = cand_size BY DEF cand_size, MiB
<1>3. PresInv' BY PresenceStays DEF Inv, PresInv
<1>4. LookInv' BY <1>2, VerdictsStay, PresenceStays DEF Inv, LookInv
<1>5. WordInv'
  <2>1. \A n : (WordsLooked(n)' <=> WordsLooked(n)) /\ (RefsLooked(n)' <=> RefsLooked(n))
    BY <1>2, LooksStay DEF WordsLooked, RefsLooked
  <2>2. (pt_end' <=> pt_end) BY DEF pt_end
  <2>. QED BY <1>2, <2>1, <2>2, LooksStay, VerdictsStay DEF Inv, WordInv
<1>6. DoneInv' BY VerdictsStay DEF Inv, DoneInv, Sound, MiB
<1>. QED BY <1>1, <1>3, <1>4, <1>5, <1>6 DEF Inv

\* A step that ends the probe keeps all of it but what it says of the result.
LEMMA EndInv ==
  ASSUME Inv, cart' = cart, runs' = runs, cartMode' = cartMode,
         NEW n, NEW v \in BOOLEAN, NEW s, Ends(n, v, s), Sound'
  PROVE  Inv'
<1>1. /\ DOMAIN sz' = Fields /\ sz'.state = "DONE" /\ sz'.size_valid = v
      /\ sz'.cand = sz.cand /\ sz'.point = sz.point /\ sz'.word = sz.word /\ sz'.pres = sz.pres
      /\ sz'.mode_wait = sz.mode_wait /\ sz'.want_gba = sz.want_gba
      /\ sz'.pres_all_open = sz.pres_all_open /\ sz'.pres_varied = sz.pres_varied
      /\ sz'.pt_open = sz.pt_open /\ sz'.pt_mirror = sz.pt_mirror
      /\ sz'.pt_varied = sz.pt_varied /\ sz'.pt_conf = sz.pt_conf
      /\ sz'.pt_ref_open = sz.pt_ref_open
  BY DEF Ends, Inv, TypeInv, Fields
<1>2. TypeInv' BY <1>1 DEF Inv, TypeInv, States
<1>3. PresInv' /\ LookInv' /\ WordInv' BY <1>1 DEF PresInv, LookInv, WordInv, Looking
<1>4. DoneInv' BY <1>1 DEF DoneInv
<1>. QED BY <1>2, <1>3, <1>4 DEF Inv

\* A probe that ends without a size for want of power says so.
LEMMA NoPowerInv ==
  ASSUME Inv, cart' = cart, runs' = runs, cartMode' = cartMode, NEW n, Ends(n, FALSE, "NO_POWER")
  PROVE  Inv'
<1>1. sz'.size_valid = FALSE /\ sz'.status = "NO_POWER" BY DEF Ends, Inv, TypeInv, Fields
<1>2. Sound' BY <1>1 DEF Sound
<1>. QED BY <1>2, EndInv

\* Waiting for the connector.
LEMMA ModeInv ==
  ASSUME Inv, cart' = cart, runs' = runs, cartMode' = cartMode, Mode
  PROVE  Inv'
<1>1. CASE cartMode
  <2>1. sz' = [sz EXCEPT !.state = "PRES"] BY <1>1 DEF Mode
  <2>2. /\ DOMAIN sz' = Fields /\ sz'.state = "PRES" /\ sz'.size_valid = sz.size_valid
        /\ sz'.cand = sz.cand /\ sz'.point = sz.point /\ sz'.word = sz.word /\ sz'.pres = sz.pres
        /\ sz'.mode_wait = sz.mode_wait /\ sz'.want_gba = sz.want_gba
        /\ sz'.pres_all_open = sz.pres_all_open /\ sz'.pres_varied = sz.pres_varied
        /\ sz'.pres_first = sz.pres_first
        /\ sz'.pt_open = sz.pt_open /\ sz'.pt_mirror = sz.pt_mirror
        /\ sz'.pt_varied = sz.pt_varied /\ sz'.pt_conf = sz.pt_conf
        /\ sz'.pt_ref_open = sz.pt_ref_open
    BY <2>1 DEF Inv, TypeInv, Fields
  <2>3. TypeInv' BY <2>2 DEF Inv, TypeInv, States
  <2>4. PresInv' BY <2>2, PresenceStays DEF Inv, PresInv, Mode, In
  <2>5. LookInv' /\ WordInv' /\ DoneInv' BY <2>2 DEF LookInv, WordInv, DoneInv, Looking
  <2>. QED BY <2>3, <2>4, <2>5 DEF Inv
<1>2. CASE ~cartMode /\ sz.mode_wait = 0 BY <1>2, NoPowerInv DEF Mode
<1>3. CASE ~cartMode /\ sz.mode_wait # 0
  <2>1. sz' = [sz EXCEPT !.mode_wait = sz.mode_wait - 1] BY <1>3 DEF Mode
  <2>2. /\ DOMAIN sz' = Fields /\ sz'.state = sz.state /\ sz'.size_valid = sz.size_valid
        /\ sz'.cand = sz.cand /\ sz'.point = sz.point /\ sz'.word = sz.word /\ sz'.pres = sz.pres
        /\ sz'.mode_wait = sz.mode_wait - 1 /\ sz'.want_gba = sz.want_gba
        /\ sz'.pres_all_open = sz.pres_all_open /\ sz'.pres_varied = sz.pres_varied
        /\ sz'.pres_first = sz.pres_first
        /\ sz'.pt_open = sz.pt_open /\ sz'.pt_mirror = sz.pt_mirror
        /\ sz'.pt_varied = sz.pt_varied /\ sz'.pt_conf = sz.pt_conf
        /\ sz'.pt_ref_open = sz.pt_ref_open
    BY <2>1 DEF Inv, TypeInv, Fields
  <2>3. sz.mode_wait - 1 \in Nat BY <1>3 DEF Inv, TypeInv
  <2>4. TypeInv' BY <2>2, <2>3 DEF Inv, TypeInv
  <2>5. PresInv' BY <2>2, PresenceStays DEF Inv, PresInv
  <2>6. LookInv' /\ WordInv' /\ DoneInv' BY <2>2 DEF LookInv, WordInv, DoneInv, Looking, Mode, In
  <2>. QED BY <2>4, <2>5, <2>6 DEF Inv
<1>. QED BY <1>1, <1>2, <1>3

\* One more presence address.
LEMMA PresenceInv ==
  ASSUME Inv, cart' = cart, runs' = runs, cartMode' = cartMode, Presence
  PROVE  Inv'
<1> DEFINE i == sz.pres
           open == pres_open_n
           varied == pres_varied_n
<1>1. i \in 1 .. 6 /\ Len(pres_addr) = 6 /\ sz.state = "PRES"
  BY PresenceIs DEF Inv, TypeInv, Presence, In
<1>2. (open <=> sz.pres_all_open /\ PresOpen(i)) /\ (varied <=> sz.pres_varied \/ PresVaries(i))
  <2>1. i = 1 => ~PresVaries(i) BY DEF PresVaries
  <2>2. i > 1 => sz.pres_first = Read16(pres_addr[1]) BY <1>1 DEF Inv, PresInv
  <2>3. varied <=> sz.pres_varied \/ PresVaries(i)
    BY <1>1, <2>1, <2>2 DEF pres_varied_n, pres_val, PresVaries
  <2>. QED BY <2>3 DEF pres_open_n, pres_val, PresOpen
<1>3. (IF sz.pres = 1 THEN pres_val ELSE sz.pres_first) = Read16(pres_addr[1])
  BY <1>1 DEF Inv, PresInv, pres_val
<1>4. /\ open <=> \A j \in 1 .. 6 : j < i + 1 => PresOpen(j)
      /\ varied <=> \E j \in 1 .. 6 : j < i + 1 /\ PresVaries(j)
  <2>1. /\ sz.pres_all_open <=> \A j \in 1 .. 6 : j < i => PresOpen(j)
        /\ sz.pres_varied <=> \E j \in 1 .. 6 : j < i /\ PresVaries(j)
    BY <1>1 DEF Inv, PresInv
  <2>2. \A j \in 1 .. 6 : j < i + 1 <=> j < i \/ j = i BY <1>1
  <2>. QED BY <1>1, <1>2, <2>1, <2>2
<1>5. open \in BOOLEAN /\ varied \in BOOLEAN BY DEF pres_open_n, pres_varied_n
<1>6. i = 6 => (IsThere <=> ~open /\ varied)
  <2>1. i = 6 => \A j \in 1 .. 6 : j < i + 1 BY SMT
  <2>. QED BY <1>4, <2>1 DEF IsThere
<1>7. CASE i < 6
  <2>0. sz' = [sz EXCEPT !.pres = @ + 1, !.pres_first = IF sz.pres = 1 THEN pres_val ELSE @,
                         !.pres_all_open = pres_open_n, !.pres_varied = pres_varied_n]
    BY <1>1, <1>7 DEF Presence, Ends
  <2>1. /\ DOMAIN sz' = Fields /\ sz'.state = "PRES" /\ sz'.size_valid = sz.size_valid
        /\ sz'.cand = sz.cand /\ sz'.point = sz.point /\ sz'.word = sz.word /\ sz'.pres = i + 1
        /\ sz'.mode_wait = sz.mode_wait /\ sz'.want_gba = sz.want_gba
        /\ sz'.pres_all_open = open /\ sz'.pres_varied = varied
        /\ sz'.pres_first = IF sz.pres = 1 THEN pres_val ELSE sz.pres_first
        /\ sz'.pt_open = sz.pt_open /\ sz'.pt_mirror = sz.pt_mirror
        /\ sz'.pt_varied = sz.pt_varied /\ sz'.pt_conf = sz.pt_conf
        /\ sz'.pt_ref_open = sz.pt_ref_open
    BY <1>1, <2>0 DEF Inv, TypeInv, Fields
  <2>2. i + 1 \in 1 .. 6 BY <1>1, <1>7
  <2>3. TypeInv' BY <1>5, <2>1, <2>2 DEF Inv, TypeInv, States
  <2>4. PresInv' BY <1>3, <1>4, <2>1, PresenceStays DEF PresInv
  <2>5. LookInv' /\ WordInv' /\ DoneInv' BY <2>1 DEF LookInv, WordInv, DoneInv, Looking
  <2>. QED BY <2>3, <2>4, <2>5 DEF Inv
<1>8. CASE i = 6 /\ (open \/ ~varied)
  <2>1. ~IsThere BY <1>6, <1>8
  <2>2. cart.size = 0 \/ Featureless BY <2>1, NotThereIsFeatureless DEF Inv, TypeInv
  <2>3. \E s : Ends(0, FALSE, s)
    <3>1. ASSUME open PROVE Ends(0, FALSE, "NO_CART") BY <1>1, <1>8, <3>1 DEF Presence, Ends
    <3>2. ASSUME ~open PROVE Ends(0, FALSE, "CONSTANT") BY <1>1, <1>8, <3>2 DEF Presence, Ends
    <3>. QED BY <3>1, <3>2
  <2>4. PICK s : Ends(0, FALSE, s) BY <2>3
  <2>5. sz'.size_valid = FALSE BY <2>4 DEF Ends, Inv, TypeInv, Fields
  <2>6. Sound' BY <2>2, <2>5, VerdictsStay DEF Sound
  <2>. QED BY <2>4, <2>6, EndInv
<1>9. CASE i = 6 /\ ~(open \/ ~varied)
  <2>0. sz' = [sz EXCEPT !.state = "PT", !.cand = 0, !.point = 1]
    BY <1>1, <1>9 DEF Presence, Ends
  <2>1. /\ DOMAIN sz' = Fields /\ sz'.state = "PT" /\ sz'.size_valid = sz.size_valid
        /\ sz'.cand = 0 /\ sz'.point = 1 /\ sz'.word = sz.word /\ sz'.pres = sz.pres
        /\ sz'.mode_wait = sz.mode_wait /\ sz'.want_gba = sz.want_gba
        /\ sz'.pres_all_open = sz.pres_all_open /\ sz'.pres_varied = sz.pres_varied
        /\ sz'.pt_open = sz.pt_open /\ sz'.pt_mirror = sz.pt_mirror
        /\ sz'.pt_varied = sz.pt_varied /\ sz'.pt_conf = sz.pt_conf
        /\ sz'.pt_ref_open = sz.pt_ref_open
    BY <2>0 DEF Inv, TypeInv, Fields
  <2>2. TypeInv' BY <2>1 DEF Inv, TypeInv, States, Looking
  <2>3. IsThere' BY <1>6, <1>9, PresenceStays
  <2>4. cand_size' = 1048576
    <3>1. cand_size' = MiB * 2 ^ 0 BY <2>1 DEF cand_size, MiB
    <3>. QED BY <3>1, Powers, SMT
  <2>5. Top' >= 1048576
    <3>1. cart.size \in Nat
      <4>1. cart.size \in Sizes \cup {0} BY SizeIs DEF Inv, TypeInv, IsCartridge
      <4>. QED BY <4>1, SMT DEF Sizes
    <3>2. Top >= 1048576 BY <3>1, Powers, SMT DEF Top
    <3>. QED BY <3>2, VerdictsStay, SMT
  <2>6. \A p \in 1 .. 4 : ~(p < 1) BY SMT
  <2>7. LookInv'
    <3>1. cand_size' <= Top' BY <2>4, <2>5, SMT
    <3>. QED BY <2>1, <2>3, <2>6, <3>1 DEF LookInv
  <2>8. PresInv' /\ WordInv' /\ DoneInv' BY <2>1 DEF PresInv, WordInv, DoneInv
  <2>. QED BY <2>2, <2>7, <2>8 DEF Inv
<1>. QED BY <1>1, <1>7, <1>8, <1>9

\* Another cartridge may be in the slot when a probe begins.
LEMMA StartInv == Inv /\ Start => Inv'
<1>. SUFFICES ASSUME Inv, Start PROVE Inv' OBVIOUS
<1>1. IsCartridge(cart') /\ runs' \in Nat /\ cartMode' \in BOOLEAN
  BY ProbeAssumption DEF Inv, TypeInv, Start
<1>2. /\ DOMAIN sz' = Fields /\ sz'.state = "MODE"
      /\ sz'.cand = sz.cand /\ sz'.point = sz.point /\ sz'.word = sz.word /\ sz'.pres = 1
      /\ sz'.mode_wait = MODE_WAIT_CYCLES
      /\ sz'.pt_open = sz.pt_open /\ sz'.pt_mirror = sz.pt_mirror
      /\ sz'.pt_varied = sz.pt_varied /\ sz'.pt_conf = sz.pt_conf
      /\ sz'.pt_ref_open = sz.pt_ref_open
  BY DEF Start, Inv, TypeInv, Fields
<1>3. sz'.pres_all_open /\ ~sz'.pres_varied BY DEF Start, Inv, TypeInv, Fields
<1>4. /\ sz'.want_gba \in BOOLEAN /\ sz'.size_valid \in BOOLEAN
      /\ sz'.pres_all_open \in BOOLEAN /\ sz'.pres_varied \in BOOLEAN
  BY DEF Start, Inv, TypeInv, Fields
<1>5. TypeInv' BY <1>1, <1>2, <1>4, ProbeAssumption DEF Inv, TypeInv, States
<1>6. \A i \in 1 .. 6 : ~(i < 1) BY SMT
<1>7. PresInv' BY <1>2, <1>3, <1>6 DEF PresInv
<1>8. LookInv' /\ WordInv' /\ DoneInv' BY <1>2 DEF LookInv, WordInv, DoneInv, Looking
<1>. QED BY <1>5, <1>7, <1>8 DEF Inv

\* A look at more words of a point leaves the points before it as they were.
LEMMA LookKept ==
  ASSUME Inv, cart' = cart, sz.state \in Looking, sz'.cand = sz.cand, sz'.point = sz.point
  PROVE  LookInv' /\ cand_size' = cand_size
<1>1. cand_size' = cand_size BY DEF cand_size, MiB
<1>2. LookInv' BY <1>1, VerdictsStay, PresenceStays DEF Inv, LookInv
<1>. QED BY <1>1, <1>2

\* A new point: nothing of it is looked at.
LEMMA PointInv ==
  ASSUME Inv, cart' = cart, runs' = runs, cartMode' = cartMode, Point
  PROVE  Inv'
<1>1. sz.state = "PT" BY DEF Point, In
<1>2. /\ DOMAIN sz' = Fields /\ sz'.state = "REF" /\ sz'.size_valid = sz.size_valid
      /\ sz'.cand = sz.cand /\ sz'.point = sz.point /\ sz'.word = 1 /\ sz'.pres = sz.pres
      /\ sz'.mode_wait = sz.mode_wait /\ sz'.want_gba = sz.want_gba
      /\ sz'.pres_all_open = sz.pres_all_open /\ sz'.pres_varied = sz.pres_varied
  BY DEF Point, Inv, TypeInv, Fields
<1>3. sz'.pt_open /\ sz'.pt_mirror /\ ~sz'.pt_varied /\ sz'.pt_ref_open
  BY DEF Point, Inv, TypeInv, Fields
<1>4. /\ sz'.pt_open \in BOOLEAN /\ sz'.pt_mirror \in BOOLEAN /\ sz'.pt_varied \in BOOLEAN
      /\ sz'.pt_conf \in BOOLEAN /\ sz'.pt_ref_open \in BOOLEAN
  BY DEF Point, Inv, TypeInv, Fields
<1>5. TypeInv' BY <1>2, <1>4 DEF Inv, TypeInv, States, Looking
<1>6. LookInv' BY <1>1, <1>2, LookKept DEF Looking
<1>7. 1 - 1 = 0 /\ ~(0 >= 1) /\ \A k \in 1 .. 4 : ~(k <= 0) BY SMT
<1>8. WordsLooked(0)' /\ RefsLooked(0)' BY <1>3, <1>7 DEF WordsLooked, RefsLooked
<1>9. WordInv' BY <1>2, <1>7, <1>8 DEF WordInv
<1>10. PresInv' /\ DoneInv' BY <1>2 DEF PresInv, DoneInv
<1>. QED BY <1>5, <1>6, <1>9, <1>10 DEF Inv

\* One more reference.
LEMMA ReferenceInv ==
  ASSUME Inv, cart' = cart, runs' = runs, cartMode' = cartMode, Reference
  PROVE  Inv'
<1> DEFINE w == sz.word
           seen == sz.pt_ref_open /\ Read16(mirror_addr) = OpenBus(mirror_addr)
<1>1. sz.state = "REF" BY DEF Reference, In
<1>2. sz' = [sz EXCEPT !.state = "PRB", !.ref_val = Read16(mirror_addr), !.pt_ref_open = seen]
  BY DEF Reference
<1>3. /\ DOMAIN sz' = Fields /\ sz'.state = "PRB" /\ sz'.size_valid = sz.size_valid
      /\ sz'.cand = sz.cand /\ sz'.point = sz.point /\ sz'.word = sz.word /\ sz'.pres = sz.pres
      /\ sz'.mode_wait = sz.mode_wait /\ sz'.want_gba = sz.want_gba
      /\ sz'.pres_all_open = sz.pres_all_open /\ sz'.pres_varied = sz.pres_varied
      /\ sz'.pt_open = sz.pt_open /\ sz'.pt_mirror = sz.pt_mirror
      /\ sz'.pt_varied = sz.pt_varied /\ sz'.pt_conf = sz.pt_conf
      /\ sz'.first_val = sz.first_val /\ sz'.ref_val = Read16(mirror_addr)
  BY <1>2 DEF Inv, TypeInv, Fields
<1>4. (sz'.pt_ref_open <=> seen) /\ sz'.pt_ref_open \in BOOLEAN BY <1>2 DEF Inv, TypeInv, Fields
<1>5. TypeInv' BY <1>3, <1>4 DEF Inv, TypeInv, States, Looking
<1>6. LookInv' /\ cand_size' = cand_size BY <1>1, <1>3, LookKept DEF Looking
<1>7. mirror_addr = Ref(cand_size, sz.point, w) BY LookedAt DEF Inv
<1>8. seen <=> \A k \in 1 .. 4 : k <= w => RefOpen(cand_size, sz.point, k)
  <2>1. w \in 1 .. 4 BY DEF Inv, TypeInv
  <2>2. \A k \in 1 .. 4 : k <= w <=> k <= w - 1 \/ k = w BY <2>1
  <2>3. seen <=> sz.pt_ref_open /\ RefOpen(cand_size, sz.point, w) BY <1>7 DEF RefOpen
  <2>4. sz.pt_ref_open <=> \A k \in 1 .. 4 : k <= w - 1 => RefOpen(cand_size, sz.point, k)
    BY <1>1 DEF Inv, WordInv, RefsLooked
  <2>. HIDE DEF seen
  <2>. QED BY <2>1, <2>2, <2>3, <2>4
<1>. HIDE DEF seen
<1>9. RefsLooked(w)' BY <1>3, <1>4, <1>6, <1>8, LooksStay DEF RefsLooked
<1>10. WordsLooked(w - 1)'
  <2>1. WordsLooked(w - 1) BY <1>1 DEF Inv, WordInv
  <2>. QED BY <1>3, <1>6, <2>1, LooksStay DEF WordsLooked
<1>11. sz'.ref_val = Read16(Ref(cand_size, sz.point, w))' BY <1>3, <1>6, <1>7, LooksStay
<1>12. WordInv' BY <1>3, <1>9, <1>10, <1>11 DEF WordInv
<1>13. PresInv' /\ DoneInv' BY <1>3 DEF PresInv, DoneInv
<1>. QED BY <1>5, <1>6, <1>12, <1>13 DEF Inv

\* The 32-bit read decides whether the point floats.
LEMMA ConfirmInv ==
  ASSUME Inv, cart' = cart, runs' = runs, cartMode' = cartMode, Confirm
  PROVE  Inv'
<1> DEFINE p == sz.point
           conf == Conf(cand_size, p)
<1>1. sz.state = "CONF" BY DEF Confirm, In
<1>2. sz' = [sz EXCEPT !.state = "POINT", !.pt_conf = conf]
  BY LookedAt DEF Inv, Confirm, Conf
<1>3. /\ DOMAIN sz' = Fields /\ sz'.state = "POINT" /\ sz'.size_valid = sz.size_valid
      /\ sz'.cand = sz.cand /\ sz'.point = sz.point /\ sz'.word = sz.word /\ sz'.pres = sz.pres
      /\ sz'.mode_wait = sz.mode_wait /\ sz'.want_gba = sz.want_gba
      /\ sz'.pres_all_open = sz.pres_all_open /\ sz'.pres_varied = sz.pres_varied
      /\ sz'.pt_open = sz.pt_open /\ sz'.pt_mirror = sz.pt_mirror
      /\ sz'.pt_varied = sz.pt_varied /\ sz'.pt_ref_open = sz.pt_ref_open
  BY <1>2 DEF Inv, TypeInv, Fields
<1>4. (sz'.pt_conf <=> conf) /\ sz'.pt_conf \in BOOLEAN BY <1>2 DEF Inv, TypeInv, Fields, Conf
<1>5. TypeInv' BY <1>3, <1>4 DEF Inv, TypeInv, States, Looking
<1>6. LookInv' /\ cand_size' = cand_size BY <1>1, <1>3, LookKept DEF Looking
<1>7. /\ sz.pt_open /\ \A k \in 1 .. 4 : Open(cand_size, p, k)
      /\ sz.pt_mirror <=> \A k \in 1 .. 4 : Mirrored(cand_size, p, k)
      /\ sz.pt_varied <=> \E k \in 1 .. 4 : Differs(cand_size, p, k)
      /\ sz.pt_ref_open <=> \A k \in 1 .. 4 : RefOpen(cand_size, p, k)
  <2>1. \A k \in 1 .. 4 : k <= 4 BY SMT
  <2>2. WordsLooked(4) /\ RefsLooked(4) /\ sz.pt_open BY <1>1 DEF Inv, WordInv
  <2>. QED BY <2>1, <2>2 DEF WordsLooked, RefsLooked
<1>8. pt_end' <=> EndsAt(cand_size, p)
  <2>1. EndsAt(cand_size, p) <=>
          conf \/ (sz.pt_mirror /\ sz.pt_varied /\ ~sz.pt_ref_open)
    BY <1>7 DEF EndsAt, Floats, Mirrors
  <2>. QED BY <1>3, <1>4, <1>7, <2>1 DEF pt_end
<1>9. WordInv' BY <1>3, <1>6, <1>8, VerdictsStay DEF WordInv
<1>10. PresInv' /\ DoneInv' BY <1>3 DEF PresInv, DoneInv
<1>. QED BY <1>5, <1>6, <1>9, <1>10 DEF Inv

\* The result stands when the probe is idle again.
LEMMA DoneStepInv ==
  ASSUME Inv, cart' = cart, runs' = runs, cartMode' = cartMode, Done
  PROVE  Inv'
<1>1. sz.state = "DONE" BY DEF Done, In
<1>2. /\ DOMAIN sz' = Fields /\ sz'.state = "IDLE" /\ sz'.size_valid = sz.size_valid
      /\ sz'.size_bytes = sz.size_bytes /\ sz'.status = sz.status
      /\ sz'.cand = sz.cand /\ sz'.point = sz.point /\ sz'.word = sz.word /\ sz'.pres = sz.pres
      /\ sz'.mode_wait = sz.mode_wait /\ sz'.want_gba \in BOOLEAN
      /\ sz'.pres_all_open = sz.pres_all_open /\ sz'.pres_varied = sz.pres_varied
      /\ sz'.pt_open = sz.pt_open /\ sz'.pt_mirror = sz.pt_mirror
      /\ sz'.pt_varied = sz.pt_varied /\ sz'.pt_conf = sz.pt_conf
      /\ sz'.pt_ref_open = sz.pt_ref_open
  BY DEF Done, Inv, TypeInv, Fields
<1>3. TypeInv' BY <1>2 DEF Inv, TypeInv, States
<1>4. PresInv' /\ LookInv' /\ WordInv' BY <1>2 DEF PresInv, LookInv, WordInv, Looking
<1>5. Sound BY <1>1 DEF Inv, DoneInv
<1>6. Sound' BY <1>2, <1>5, VerdictsStay DEF Sound, MiB
<1>7. DoneInv' BY <1>6 DEF DoneInv
<1>. QED BY <1>3, <1>4, <1>7 DEF Inv

\* One more word, and what is known of the point when it is the last.
LEMMA ProbeInv ==
  ASSUME Inv, cart' = cart, runs' = runs, cartMode' = cartMode, Probe
  PROVE  Inv'
<1> DEFINE w == sz.word
           p == sz.point
           t == cand_size
           open == pt_open_n
           mirror == pt_mirror_n
           varied == pt_varied_n
<1>1. sz.state = "PRB" /\ w \in 1 .. 4 /\ Len(word_stride) = 4
  BY SMT DEF Probe, In, Inv, TypeInv, word_stride
<1>2. /\ probe_addr = Addr(t, p, w) /\ sz.ref_val = Read16(Ref(t, p, w))
      /\ w > 1 => sz.first_val = Read16(Addr(t, p, 1))
  BY <1>1, LookedAt DEF Inv, WordInv, WordsLooked
<1>3. /\ open <=> sz.pt_open /\ Open(t, p, w)
      /\ mirror <=> sz.pt_mirror /\ Mirrored(t, p, w)
      /\ varied <=> sz.pt_varied \/ Differs(t, p, w)
  <2>1. w = 1 => ~Differs(t, p, w) BY DEF Differs
  <2>2. varied <=> sz.pt_varied \/ Differs(t, p, w)
    BY <1>1, <1>2, <2>1 DEF pt_varied_n, rv, Differs
  <2>. QED BY <1>2, <2>2 DEF pt_open_n, pt_mirror_n, rv, Open, Mirrored
<1>4. /\ open <=> \A k \in 1 .. 4 : k <= w => Open(t, p, k)
      /\ mirror <=> \A k \in 1 .. 4 : k <= w => Mirrored(t, p, k)
      /\ varied <=> \E k \in 1 .. 4 : k <= w /\ Differs(t, p, k)
  <2>1. /\ sz.pt_open <=> \A k \in 1 .. 4 : k <= w - 1 => Open(t, p, k)
        /\ sz.pt_mirror <=> \A k \in 1 .. 4 : k <= w - 1 => Mirrored(t, p, k)
        /\ sz.pt_varied <=> \E k \in 1 .. 4 : k <= w - 1 /\ Differs(t, p, k)
    BY <1>1 DEF Inv, WordInv, WordsLooked
  <2>2. \A k \in 1 .. 4 : k <= w <=> k <= w - 1 \/ k = w BY <1>1
  <2>. QED BY <1>1, <1>3, <2>1, <2>2
<1>5. sz.pt_ref_open <=> \A k \in 1 .. 4 : k <= w => RefOpen(t, p, k)
  BY <1>1 DEF Inv, WordInv, RefsLooked
<1> DEFINE next == IF w = 4 \/ (~open /\ ~mirror) THEN w ELSE w + 1
           state == CASE ~open /\ ~mirror -> "POINT"
                      [] w = 4 /\ open -> "CONF"
                      [] w = 4 /\ ~open /\ mirror -> "POINT"
                      [] OTHER -> "REF"
<1>6. sz' = [sz EXCEPT !.first_val = IF sz.word = 1 THEN rv ELSE @,
                       !.pt_open = open, !.pt_mirror = mirror, !.pt_varied = varied,
                       !.word = next, !.state = state]
  BY <1>1 DEF Probe
<1>. HIDE DEF next, state
<1>7. /\ DOMAIN sz' = Fields /\ sz'.state = state /\ sz'.size_valid = sz.size_valid
      /\ sz'.cand = sz.cand /\ sz'.point = p /\ sz'.word = next /\ sz'.pres = sz.pres
      /\ sz'.mode_wait = sz.mode_wait /\ sz'.want_gba = sz.want_gba
      /\ sz'.pres_all_open = sz.pres_all_open /\ sz'.pres_varied = sz.pres_varied
      /\ sz'.pt_conf = sz.pt_conf /\ sz'.pt_ref_open = sz.pt_ref_open
      /\ sz'.first_val = IF sz.word = 1 THEN rv ELSE sz.first_val
  BY <1>6 DEF Inv, TypeInv, Fields
<1>8. /\ (sz'.pt_open <=> open) /\ (sz'.pt_mirror <=> mirror) /\ (sz'.pt_varied <=> varied)
      /\ sz'.pt_open \in BOOLEAN /\ sz'.pt_mirror \in BOOLEAN /\ sz'.pt_varied \in BOOLEAN
  BY <1>6 DEF Inv, TypeInv, Fields, pt_open_n, pt_mirror_n, pt_varied_n
<1>. HIDE DEF open, mirror, varied
<1>9. next \in 1 .. 4 /\ state \in {"POINT", "CONF", "REF"} BY <1>1 DEF next, state
<1>10. TypeInv' BY <1>7, <1>8, <1>9 DEF Inv, TypeInv, States, Looking
<1>11. LookInv' /\ cand_size' = t BY <1>1, <1>7, LookKept DEF Looking
<1>12. PresInv' /\ DoneInv' BY <1>7, <1>9 DEF PresInv, DoneInv
<1>13. sz'.first_val = Read16(Addr(t, p, 1)) BY <1>1, <1>2, <1>7 DEF rv
<1>14. ASSUME NEW n, n = w PROVE WordsLooked(n)'
  BY <1>4, <1>7, <1>8, <1>11, <1>13, <1>14, LooksStay DEF WordsLooked
<1>15. ASSUME NEW n, n = w PROVE RefsLooked(n)'
  BY <1>5, <1>7, <1>11, <1>15, LooksStay DEF RefsLooked
<1>16. state = "REF" => next - 1 = w BY <1>1 DEF next, state
<1>17. state = "CONF" => w = 4 /\ open BY <1>1 DEF state
<1>18. state = "POINT" => (pt_end' <=> EndsAt(t, p))
  <2>1. CASE ~open /\ ~mirror
    <3>1. ~pt_end' BY <1>8, <2>1 DEF pt_end
    <3>2. ~EndsAt(t, p) BY <1>4, <2>1 DEF EndsAt, Floats, Mirrors
    <3>. QED BY <3>1, <3>2
  <2>2. CASE w = 4 /\ ~open /\ mirror
    <3>1. \A k \in 1 .. 4 : k <= 4 BY SMT
    <3>2. EndsAt(t, p) <=> varied /\ ~sz.pt_ref_open
      BY <1>4, <1>5, <2>2, <3>1 DEF EndsAt, Floats, Mirrors
    <3>. QED BY <1>7, <1>8, <2>2, <3>2 DEF pt_end
  <2>3. state = "POINT" => (~open /\ ~mirror) \/ (w = 4 /\ ~open /\ mirror) BY <1>1 DEF state
  <2>. QED BY <2>1, <2>2, <2>3
<1>19. /\ state = "REF" => WordsLooked(sz.word - 1)' /\ RefsLooked(sz.word - 1)'
       /\ state = "CONF" => WordsLooked(4)' /\ RefsLooked(4)' /\ sz'.pt_open
       /\ state = "POINT" => (pt_end' <=> EndsAt(cand_size, sz.point)')
  BY <1>7, <1>8, <1>11, <1>14, <1>15, <1>16, <1>17, <1>18, VerdictsStay
<1>20. WordInv' BY <1>7, <1>9, <1>19 DEF WordInv
<1>. QED BY <1>10, <1>11, <1>12, <1>20 DEF Inv

\* A verdict: of all the ROM, of a part of it that is all there is to it, or that
\* the ROM goes on.
LEMMA VerdictIs ==
  ASSUME Inv, sz.state = "POINT"
  PROVE  /\ cart.size # 0 /\ cart.size \in Sizes /\ IsCartridge(cart) /\ cand_size \in Tried
         /\ pt_end /\ sz.point = 4 =>
              /\ cand_size >= cart.size \/ Repeats(cand_size)
              /\ ShowsItsEnd => cand_size <= cart.size \/ cand_size = MiB
         /\ ~pt_end /\ ShowsItsEnd => cart.size >= 2 * cand_size
<1> DEFINE t == cand_size
<1>1. /\ IsThere /\ (ShowsItsEnd => t <= Top) /\ (pt_end <=> EndsAt(t, sz.point))
      /\ \A p \in 1 .. 4 : p < sz.point => EndsAt(t, p)
  BY DEF Inv, LookInv, WordInv, Looking
<1>2. IsCartridge(cart) /\ sz.point \in 1 .. 4 BY DEF Inv, TypeInv
<1>3. cart.size # 0 BY <1>1, <1>2, EmptySlotIsSeen
<1>4. cart.size \in Sizes
  <2>1. cart.size \in Sizes \cup {0} BY <1>2, SizeIs DEF IsCartridge
  <2>. QED BY <1>3, <2>1
<1>5. t \in Tried BY LookedAt DEF Inv
<1>6. t \in Nat /\ cart.size \in Nat BY <1>4, <1>5, TriedAndSizes
<1>7. ASSUME pt_end, sz.point = 4
      PROVE  /\ t >= cart.size \/ Repeats(t)
             /\ ShowsItsEnd => t <= cart.size \/ t = MiB
  <2>1. 1 \in 1 .. 4 /\ 2 \in 1 .. 4 /\ 1 < 4 /\ 2 < 4 BY SMT
  <2>2. EndsAt(t, 1) /\ EndsAt(t, 2) BY <1>1, <1>7, <2>1
  <2>. HIDE DEF t
  <2>3. t < cart.size => Repeats(t) BY <1>2, <1>5, <2>2, TwoPointsTell
  <2>4. t >= MiB
    <3>1. t >= 1048576 BY <1>4, <1>5, TriedAndSizes
    <3>. QED BY <3>1, Powers, SMT
  <2>5. MiB \in Nat BY Powers, SMT
  <2>6. ShowsItsEnd => t <= cart.size \/ t = MiB
    <3>1. ShowsItsEnd => t <= Top BY <1>1 DEF t
    <3>. QED BY <1>6, <2>4, <2>5, <3>1, SMT DEF Top
  <2>. QED BY <1>6, <2>3, <2>6, SMT
<1>8. ASSUME ~pt_end, ShowsItsEnd PROVE cart.size >= 2 * t
  <2>1. ~EndsAt(t, sz.point) BY <1>1, <1>8
  <2>. HIDE DEF t
  <2>2. ~(t >= cart.size) BY <1>2, <1>5, <1>8, <2>1, EndIsSeen
  <2>3. t < cart.size BY <1>6, <2>2, SMT
  <2>4. 2 * t <= cart.size BY <1>4, <1>5, <2>3, TriedAndSizes
  <2>. QED BY <1>6, <2>4, SMT
<1>. QED BY <1>2, <1>3, <1>4, <1>5, <1>7, <1>8

\* With 16 MiB tried no larger size is left but one.
LEMMA CeilingIs ==
  ASSUME NEW s \in Sizes
  PROVE  /\ s \in Nat /\ 32 * MiB \in Nat /\ 32 * MiB >= s
         /\ s >= 2 * (MiB * 2 ^ 4) => 32 * MiB <= s
<1>1. /\ s = 524288 \/ s = 1048576 \/ s = 2097152 \/ s = 4194304 \/ s = 8388608 \/ s = 16777216
         \/ s = 33554432
  BY SMT DEF Sizes
<1>. QED BY <1>1, Powers, SMT

\* The end of a point: a result, the next point or the next size.
LEMMA VerdictInv ==
  ASSUME Inv, cart' = cart, runs' = runs, cartMode' = cartMode, Verdict
  PROVE  Inv'
<1> DEFINE c == sz.cand
           p == sz.point
<1>1. /\ sz.state = "POINT" /\ c \in 0 .. 4 /\ p \in 1 .. 4 /\ NCAND - 1 = 4 /\ Len(PT_OFF) = 4
  BY SMT DEF Verdict, In, Inv, TypeInv, NCAND, PT_OFF
<1>2. /\ cart.size # 0 /\ cart.size \in Sizes /\ IsCartridge(cart) /\ cand_size \in Tried
      /\ pt_end /\ p = 4 =>
           /\ cand_size >= cart.size \/ Repeats(cand_size)
           /\ ShowsItsEnd => cand_size <= cart.size \/ cand_size = MiB
      /\ ~pt_end /\ ShowsItsEnd => cart.size >= 2 * cand_size
  BY <1>1, VerdictIs
<1>3. ASSUME NEW n, NEW s, Ends(n, TRUE, s), n >= cart.size \/ Repeats(n),
             ShowsItsEnd => n <= cart.size \/ n = MiB
      PROVE  Inv'
  <2>1. sz'.size_valid /\ sz'.size_bytes = n BY <1>3 DEF Ends, Inv, TypeInv, Fields
  <2>2. Sound' BY <1>2, <1>3, <2>1, VerdictsStay DEF Sound, MiB
  <2>. QED BY <1>3, <2>2, EndInv
<1>4. ASSUME NEW d \in 0 .. 4, NEW q \in 1 .. 4,
             sz' = [sz EXCEPT !.state = "PT", !.cand = d, !.point = q],
             ShowsItsEnd => cand_size' <= Top,
             \A r \in 1 .. 4 : r < q => EndsAt(cand_size', r)
      PROVE  Inv'
  <2>1. /\ DOMAIN sz' = Fields /\ sz'.state = "PT" /\ sz'.size_valid = sz.size_valid
        /\ sz'.cand = d /\ sz'.point = q /\ sz'.word = sz.word /\ sz'.pres = sz.pres
        /\ sz'.mode_wait = sz.mode_wait /\ sz'.want_gba = sz.want_gba
        /\ sz'.pres_all_open = sz.pres_all_open /\ sz'.pres_varied = sz.pres_varied
        /\ sz'.pt_open = sz.pt_open /\ sz'.pt_mirror = sz.pt_mirror
        /\ sz'.pt_varied = sz.pt_varied /\ sz'.pt_conf = sz.pt_conf
        /\ sz'.pt_ref_open = sz.pt_ref_open
    BY <1>4 DEF Inv, TypeInv, Fields
  <2>2. TypeInv' BY <2>1 DEF Inv, TypeInv, States, Looking
  <2>3. IsThere' BY <1>1, PresenceStays DEF Inv, LookInv, Looking
  <2>4. LookInv' BY <1>4, <2>1, <2>3, VerdictsStay DEF LookInv
  <2>5. PresInv' /\ WordInv' /\ DoneInv' BY <2>1 DEF PresInv, WordInv, DoneInv
  <2>. QED BY <2>2, <2>4, <2>5 DEF Inv
<1>5. cand_size \in Nat /\ cart.size \in Nat BY <1>2, TriedAndSizes
<1>6. CASE ~pt_end /\ c = 4
  <2>1. Ends(32 * MiB, TRUE, "CEILING") BY <1>1, <1>6 DEF Verdict, Ends
  <2>2. cand_size = MiB * 2 ^ 4 BY <1>6 DEF cand_size
  <2>3. cart.size \in Nat /\ 32 * MiB \in Nat /\ 32 * MiB >= cart.size BY <1>2, CeilingIs
  <2>4. ShowsItsEnd => 32 * MiB <= cart.size BY <1>2, <1>6, <2>2, CeilingIs
  <2>. QED BY <1>3, <2>1, <2>3, <2>4
<1>7. CASE ~pt_end /\ c < 4
  <2>1. sz' = [sz EXCEPT !.state = "PT", !.cand = c + 1, !.point = 1]
    BY <1>1, <1>7 DEF Verdict, Ends
  <2>2. c + 1 \in 0 .. 4 /\ 1 \in 1 .. 4 /\ \A r \in 1 .. 4 : ~(r < 1) BY <1>1, <1>7
  <2>3. cand_size' = 2 * cand_size
    <3>1. sz'.cand = c + 1 BY <2>1 DEF Inv, TypeInv, Fields
    <3>2. cand_size' = MiB * 2 ^ (c + 1) BY <3>1 DEF cand_size, MiB
    <3>. QED BY <1>1, <1>7, <3>2, TriedIs DEF cand_size
  <2>4. Top >= cart.size
    <3>1. MiB \in Nat BY Powers, SMT
    <3>. QED BY <1>5, <3>1 DEF Top
  <2>5. Top \in Nat
    <3>1. MiB \in Nat BY Powers, SMT
    <3>. QED BY <1>5, <3>1 DEF Top
  <2>6. ShowsItsEnd => 2 * cand_size <= Top BY <1>2, <1>5, <1>7, <2>4, <2>5
  <2>7. ShowsItsEnd => cand_size' <= Top BY <2>3, <2>6
  <2>. QED BY <1>4, <2>1, <2>2, <2>7
<1>8. CASE pt_end /\ p = 4
  <2>1. Ends(cand_size, TRUE, "SIZED") BY <1>1, <1>8 DEF Verdict, Ends
  <2>. QED BY <1>2, <1>3, <1>8, <2>1
<1>9. CASE pt_end /\ p < 4
  <2>1. sz' = [sz EXCEPT !.state = "PT", !.cand = c, !.point = p + 1]
    <3>1. sz' = [sz EXCEPT !.state = "PT", !.point = p + 1] BY <1>1, <1>9 DEF Verdict, Ends
    <3>. QED BY <3>1 DEF Inv, TypeInv, Fields
  <2>2. p + 1 \in 1 .. 4 /\ \A r \in 1 .. 4 : r < p + 1 => r < p \/ r = p BY <1>1, <1>9
  <2>3. cand_size' = cand_size
    <3>1. sz'.cand = c BY <2>1 DEF Inv, TypeInv, Fields
    <3>. QED BY <3>1 DEF cand_size, MiB
  <2>4. /\ ShowsItsEnd => cand_size <= Top
        /\ \A r \in 1 .. 4 : r < p => EndsAt(cand_size, r)
        /\ EndsAt(cand_size, p)
    BY <1>1, <1>9 DEF Inv, LookInv, WordInv, Looking
  <2>5. \A r \in 1 .. 4 : r < p + 1 => EndsAt(cand_size', r) BY <2>2, <2>3, <2>4
  <2>. QED BY <1>1, <1>4, <2>1, <2>2, <2>3, <2>4, <2>5
<1>10. c = 4 \/ c < 4 BY <1>1
<1>11. p = 4 \/ p < 4 BY <1>1
<1>. QED BY <1>6, <1>7, <1>8, <1>9, <1>10, <1>11

-----------------------------------------------------------------------------
(* The theorems *)

\* Each state of the probe.
LEMMA ClockInv == Inv /\ Clock => Inv'
<1>. SUFFICES ASSUME Inv, Clock PROVE Inv' OBVIOUS
<1>1. cart' = cart /\ runs' = runs /\ cartMode' = cartMode BY DEF Clock
<1>2. CASE Abort BY <1>1, <1>2, NoPowerInv DEF Abort
<1>3. CASE Mode BY <1>1, <1>3, ModeInv
<1>4. CASE Presence BY <1>1, <1>4, PresenceInv
<1>5. CASE Point BY <1>1, <1>5, PointInv
<1>6. CASE Reference BY <1>1, <1>6, ReferenceInv
<1>7. CASE Probe BY <1>1, <1>7, ProbeInv
<1>8. CASE Confirm BY <1>1, <1>8, ConfirmInv
<1>9. CASE Verdict BY <1>1, <1>9, VerdictInv
<1>10. CASE Done BY <1>1, <1>10, DoneStepInv
<1>. QED BY <1>2, <1>3, <1>4, <1>5, <1>6, <1>7, <1>8, <1>9, <1>10 DEF Clock

\* At every state of the probe its registers hold what a look at the presence
\* addresses, words, points and sizes so far gives, whichever cartridge is in
\* the slot and however the connector comes and goes.
THEOREM SizeProbeInvariance == Spec => []Inv
<1>1. Inv /\ [Next]_vars => Inv'
  <2>. SUFFICES ASSUME Inv, [Next]_vars PROVE Inv' OBVIOUS
  <2>1. CASE Clock BY <2>1, ClockInv
  <2>2. CASE Start BY <2>2, StartInv
  <2>3. CASE ModeFollows
    <3>1. cartMode' \in BOOLEAN BY <2>3 DEF ModeFollows
    <3>. QED BY <2>3, <3>1, StillInv DEF ModeFollows
  <2>4. CASE UNCHANGED vars
    <3>1. cartMode' \in BOOLEAN BY <2>4 DEF Inv, TypeInv, vars
    <3>. QED BY <2>4, <3>1, StillInv DEF vars
  <2>. QED BY <2>1, <2>2, <2>3, <2>4 DEF Next
<1>. QED BY InitInv, <1>1, PTL DEF Spec

\* No ROM is taken for a shorter one unless it is that one over and over, one that
\* shows where it ends is taken for no longer one, and nothing is refused a size
\* that shows data where it is looked for.
THEOREM SizesAreSound == Spec => []SizeIsSound
<1>1. Inv => SizeIsSound BY DEF Inv, DoneInv, Sound, SizeIsSound, Result, In
<1>. QED BY SizeProbeInvariance, <1>1, PTL
=============
