------------------------------- MODULE CartImage -------------------------------
(***************************************************************************)
(* A file as the host tools see it: its length, the byte it is filled      *)
(* with, and the bytes that are different from that one.  Offsets, lengths *)
(* and byte values are the real ones; only the number of bytes that differ *)
(* is small.                                                               *)
(*                                                                         *)
(* A checksum is computed.  A hash (CRC32, SHA-1) is the image itself: two *)
(* files have one hash when they are one file.                             *)
(***************************************************************************)
EXTENDS Integers, FiniteSetsExt

Filled(len, fill) == [len |-> len, fill |-> fill, at |-> [o \in {} |-> 0]]

ByteAt(img, o) == IF o \in DOMAIN img.at THEN img.at[o] ELSE img.fill

\* The image with bytes put in; `at` never holds a byte equal to the fill.
With(img, bytes) ==
  LET new == [o \in DOMAIN img.at \cup DOMAIN bytes |->
                IF o \in DOMAIN bytes THEN bytes[o] ELSE img.at[o]]
  IN [img EXCEPT !.at = [o \in {d \in DOMAIN new : new[d] # img.fill} |-> new[o]]]

Truncated(img, len) ==
  [img EXCEPT !.len = len, !.at = [o \in {d \in DOMAIN @ : d < len} |-> @[o]]]

\* The sum of the bytes data[lo:hi], which a short file cuts off.
SliceSum(img, lo, hi) ==
  LET end == IF hi < img.len THEN hi ELSE img.len
  IN IF end <= lo THEN 0
     ELSE (end - lo) * img.fill
          + SumFunction([o \in {d \in DOMAIN img.at : lo <= d /\ d < end} |-> img.at[o] - img.fill])

\* The bytes [lo, lo + size) as an image of their own.
Piece(img, lo, size) ==
  LET at == {o - lo : o \in {d \in DOMAIN img.at : lo <= d /\ d < lo + size}}
      left == IF img.len - lo < size THEN img.len - lo ELSE size
  IN [len |-> left, fill |-> img.fill, at |-> [o \in at |-> img.at[lo + o]]]

\* The file cut into pieces of one size, the last perhaps shorter: which differ?
Pieces(img, size) == {Piece(img, i * size, size) : i \in 0 .. (img.len - 1) \div size}

\* The values of its bytes.
Values(img) ==
  {img.at[o] : o \in DOMAIN img.at}
  \cup (IF Cardinality(DOMAIN img.at) < img.len THEN {img.fill} ELSE {})

-----------------------------------------------------------------------------
(* The header of a Game Boy ROM *)

\* Four of the 48 bytes of Nintendo's logo: every data line is low in one of
\* them and high in another.
LogoAt == {\h104, \h105, \h10A, \h10D}
GB_LOGO(o) ==
  CASE o = \h104 -> \hCE [] o = \h105 -> \hED [] o = \h10A -> 0 [] o = \h10D -> \h73
HasLogo(rom) == \A o \in LogoAt : ByteAt(rom, o) = GB_LOGO(o)

CgbFlag(rom) == ByteAt(rom, \h143)
CartType(rom) == ByteAt(rom, \h147)
RomCode(rom) == ByteAt(rom, \h148)
RamCode(rom) == ByteAt(rom, \h149)

\* Each byte takes itself and one more off the sum.
gb_header_sum(rom) == (0 - SliceSum(rom, \h134, \h14D) - (\h14D - \h134)) % 256

gb_global_sum(rom) == (SliceSum(rom, 0, \h14E) + SliceSum(rom, \h150, rom.len)) % 65536

StoredGlobal(rom) == 256 * ByteAt(rom, \h14E) + ByteAt(rom, \h14F)

\* A ROM whose two checksums are right, as a manufacturer makes one.
Sealed(rom) ==
  LET head == With(rom, [o \in {\h14D} |-> gb_header_sum(rom)])
      sum == gb_global_sum(head)
  IN With(head, [o \in {\h14E, \h14F} |-> IF o = \h14E THEN sum \div 256 ELSE sum % 256])

GbRom(type, ram, code, cgb, body) ==
  Sealed(With(Filled(32768 * 2 ^ code, 0),
              [o \in LogoAt \cup {\h134, \h143, \h147, \h148, \h149, \h14C, \h2000} |->
                 CASE o \in LogoAt -> GB_LOGO(o) [] o = \h134 -> 84 [] o = \h143 -> cgb
                   [] o = \h147 -> type [] o = \h148 -> code [] o = \h149 -> ram
                   [] o = \h14C -> 1 [] o = \h2000 -> body]))

=============================================================================
