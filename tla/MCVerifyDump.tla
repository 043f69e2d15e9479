----------------------------- MODULE MCVerifyDump -----------------------------
(* Sessions on cards with two dumps of one cartridge, faultless or damaged in *)
(* every way a read goes wrong.                                               *)
EXTENDS VerifyDump

File(stem, ext) == [stem |-> stem, ext |-> ext]

\* -- cartridges ------------------------------------------------------------
Rom(type, ram) == GbRom(type, ram, 1, \h80, \hA5)
Gba == With(Filled(512, 0), [o \in {4, 5, \hA0, \hB2, \hBD} |->
         CASE o = 4 -> \h24 [] o = 5 -> \hDB [] o = \hA0 -> 84 [] o = \hB2 -> \h96
           [] o = \hBD -> (0 - 84 - \h96 - \h19) % 256])
Gg(size, h, region) ==
  LET bare == With(Filled(size, 3), [o \in {h, h + 10, h + 11, h + 12, h + 15} |->
                CASE o = h -> \h54 [] o \in {h + 10, h + 11} -> 0 [] o = h + 12 -> \h34
                  [] o = h + 15 -> region])
      sum == IF HasSum(bare, h, region % 16)
             THEN gg_checksum(bare, h, GG_CHECKSUM_SIZES[region % 16]) ELSE 0
  IN With(bare, [o \in {h + 10, h + 11} |-> IF o = h + 10 THEN sum % 256 ELSE sum \div 256])
GgRoms == {Gg(32768, \h7FF0, \h6C), Gg(16384, \h1FF0, \h4D), Gg(524288, \h3FF0, \h71)}
\* A Lynx cartridge of blocks of `size` bytes, as the core reads it.
Lynx(size) ==
  With(Filled(524288, 0),
       [o \in {6 + k * size : k \in 0 .. (2048 \div size) - 1}
              \cup {2048 * 5 + size - 1 + k * size : k \in 0 .. (2048 \div size) - 1} |->
          IF o < 2048 THEN 77 ELSE 99])
Save(code, pattern) ==
  With(Filled(total_bytes(code), IF pattern = "flat" THEN \hFF ELSE 0),
       [o \in CASE pattern = "first" -> {9} [] pattern = "flat" -> {}
                [] OTHER -> {5 + i * BANK : i \in 0 .. banks_of(code) - 1} |->
          1 + o \div BANK])

\* -- damage ----------------------------------------------------------------
FirstBank(img) ==
  With(img, [o \in DOMAIN img.at \cup {i * BANK + b : i \in 0 .. (img.len - 1) \div BANK,
                                                       b \in {d \in DOMAIN img.at : d < BANK}} |->
               IF o % BANK \in DOMAIN img.at THEN img.at[o % BANK] ELSE img.fill])
ByteFaults(img) == {With(img, [o \in {at} |-> (ByteAt(img, at) + 1) % 256]) :
                      at \in {o \in {\h104, \h140, \h148, \h14D, \h14E, \h14F, \h2000} : o < img.len}
                             \cup {img.len - 1}}
LineFaults(img) == {Stuck(img, k, high) : k \in 0 .. 7, high \in BOOLEAN}
Damaged(ext, img) ==
  {img, Truncated(img, img.len \div 2), Truncated(img, 256)}
  \cup (IF ext \in {".gb", ".gbc", ".gba", ".gg"} THEN ByteFaults(img) \cup LineFaults(img) ELSE {})
  \cup (IF ext = ".sav" THEN {FirstBank(img)} ELSE {})
  \cup (IF ext = ".sav" /\ img.len > BANK THEN {Truncated(img, BANK)} ELSE {})
  \cup (IF ext = ".lyx" THEN {With(Filled(524288, 0), [o \in {b * 2048 + 6 : b \in 0 .. 255} |-> 77]),
                              Filled(524288, 0)} ELSE {})

\* -- sessions --------------------------------------------------------------
Holding(pairs) == [n \in Names |-> IF \E p \in pairs : p[1] = n
                                   THEN (CHOOSE p \in pairs : p[1] = n)[2] ELSE NoFile]
Args(files, two) ==
  [files |-> files, compare |-> two, selftest |-> FALSE, ref |-> NoReference]
Single ==
  UNION {{[truth |-> Holding({<<File("A", s[1]), s[2]>>}), card |-> Holding({<<File("A", s[1]), d>>}),
           args |-> Args(<<File("A", s[1])>>, <<>>)] : d \in Damaged(s[1], s[2])} :
         s \in {<<".gb", Rom(3, 3)>>, <<".gbc", Rom(\h1B, 4)>>, <<".gb", Rom(6, 0)>>,
                <<".gba", Gba>>, <<".bin", Gba>>}
               \cup {<<".gg", g>> : g \in GgRoms} \cup {<<".lyx", Lynx(b)>> : b \in {512, 1024, 2048}}}
SaveBeside ==
  UNION {LET t == {<<File("A", ".gb"), Rom(c[1], c[2])>>, <<File("A", ".sav"), Save(c[2], p)>>}
         IN {[truth |-> Holding(t), args |-> Args(<<File("A", ".gb"), File("A", ".sav")>>, <<>>),
              card |-> [Holding(t) EXCEPT ![File("A", ".sav")] = d]] : d \in Damaged(".sav", Save(c[2], p))} :
         c \in {k \in {0, 3, \h10, \h13, \h1E} \X (1 .. 5) : supported(k[1], k[2])},
         p \in {"first", "flat", "each"}}
\* One reference, or all three.
References(img) ==
  {[NoReference EXCEPT !.sha1 = img], [NoReference EXCEPT !.crc32 = img],
   [NoReference EXCEPT !.size = img.len], [sha1 |-> img, crc32 |-> img, size |-> img.len]}
Reference ==
  LET whole == Gg(32768, \h7FF0, \h6C)
      Session(d, f, r) ==
        [truth |-> Holding({<<File("A", ".gg"), whole>>}), card |-> Holding({<<File("A", ".gg"), d>>}),
         args |-> [Args(f, <<>>) EXCEPT !.ref = r]]
      some == {whole, Truncated(whole, 8192)} \cup ByteFaults(whole)
  IN {Session(d, <<File("A", ".gg")>>, r) : d \in some, r \in References(whole)}
     \cup {Session(d, <<File("A", ".gg"), File("A", ".gg")>>, r) :
             d \in {whole}, r \in References(whole)}
Twice ==
  {[truth |-> Holding({}), card |-> Holding({<<File("A", ".sav"), Save(3, "each")>>, <<File("B", ".sav"), d>>}),
    args |-> Args(<<>>, <<File("A", ".sav"), File("B", ".sav")>>)] :
     d \in {Save(3, "each"), Truncated(Save(3, "each"), BANK)} \cup LineFaults(Save(3, "each"))
           \cup {With(Save(3, "each"), [o \in {a, b} |-> IF o = a THEN x ELSE y]) :
                   a \in {5, 100}, b \in {5 + BANK, 101}, x \in {0, 1, 129}, y \in {0, 2, 128, 130}}}
SelfTest == {[truth |-> Holding({}), card |-> Holding({}),
              args |-> [Args(f, <<>>) EXCEPT !.selftest = t]] : f \in {<<>>}, t \in BOOLEAN}

CardSessions == Single \cup SaveBeside \cup Reference \cup Twice \cup SelfTest
=============================================================================
