------------------------------ MODULE VerifyDump ------------------------------
(***************************************************************************)
(* scripts/verify_dump.py: what it says of the files the core wrote to the *)
(* card.  A step is one file, or one comparison; the card may lose a file  *)
(* between two of them.                                                    *)
(***************************************************************************)
EXTENDS CartImage, Sequences

CONSTANTS
  Names,   \* the files there may be: [stem, ext], the extension in lower case
  NoFile   \* what the card holds under a name that is free; no reference

VARIABLES
  card,     \* what is on it
  truth,    \* what a faultless read of the cartridge would have put there
  args,     \* the command line
  pc, left, \* where main is, and the files still to verify
  failures, \* its count of failed checks
  said,     \* the lines printed
  status,   \* the exit status
  \* History: the properties read it, and no step depends on it.
  seen,     \* what the card held when each of the files was verified
  compared  \* the two reads that were compared, once they were

vars == <<card, truth, args, pc, left, failures, said, status, seen, compared>>

-----------------------------------------------------------------------------
(* A report is a set of lines: kind, label, and a number where there is one. *)

Ok(label) == {<<"ok", label, 0>>}
Bad(label) == {<<"FAIL", label, 0>>}
Note(label, n) == {<<"note", label, n>>}
Warn(label) == {<<"??", label, 0>>}
Judge(label, good) == IF good THEN Ok(label) ELSE Bad(label)
When(cond, lines) == IF cond THEN lines ELSE {}
Failures(lines) == Cardinality({l \in lines : l[1] = "FAIL"})

\* In the order of the codes.
RAM_SIZESOrdered ==
  [c \in 0 .. 5 |-> CASE c = 0 -> 0 [] c = 1 -> 2048 [] c = 2 -> 8192 [] c = 3 -> 32768
                      [] c = 4 -> 65536 [] c = 5 -> 131072]

\* RAM code -> bytes; 0 stands for no RAM, and a code that is not in the table
\* has no size.
RAM_SIZES ==
  [c \in 0 .. 5 |-> CASE c = 0 -> 0 [] c = 1 -> 2048 [] c = 2 -> 8192 [] c = 3 -> 32768
                      [] c = 4 -> 131072 [] c = 5 -> 65536]
BANK == 8192
MBC2 == {\h05, \h06}

describe_ram(type, code) ==
  CASE type \in MBC2 -> Note("save RAM", 512)
    [] type \notin MBC2 /\ code \notin DOMAIN RAM_SIZES -> Note("save RAM unrecognised", code)
    [] OTHER -> Note("save RAM", RAM_SIZES[code])

verify_gb(img) ==
  IF img.len < \h150 THEN Bad("too short to hold a header")
  ELSE Judge("Nintendo logo", HasLogo(img))
       \cup Judge("header checksum", gb_header_sum(img) = ByteAt(img, \h14D))
       \cup Judge("global checksum", gb_global_sum(img) = StoredGlobal(img))
       \cup Judge("size matches header",
                  RomCode(img) <= 8 /\ img.len = 32768 * 2 ^ RomCode(img))
       \cup describe_ram(CartType(img), RamCode(img))

\* Two bytes stand for the 156 of the logo.
GBA_LOGO(img) == ByteAt(img, \h04) = \h24 /\ ByteAt(img, \h05) = \hDB
complement(img) == (0 - SliceSum(img, \hA0, \hBD) - \h19) % 256

verify_gba(img) ==
  IF img.len < \hC0 THEN Bad("too short to hold a header")
  ELSE Judge("Nintendo logo", GBA_LOGO(img))
       \cup Judge("fixed byte", ByteAt(img, \hB2) = \h96)
       \cup Judge("header complement", complement(img) = ByteAt(img, \hBD))
       \cup Judge("size is a power of two", \E k \in 0 .. 25 : img.len = 2 ^ k)

\* A ROM dump of the same cartridge, the first that exists.
find_rom_beside(files, name) ==
  LET there == SelectSeq(<<".gbc", ".gb", ".gba">>,
                         LAMBDA e : LET n == [name EXCEPT !.ext = e]
                                    IN n \in DOMAIN files /\ files[n] # NoFile)
  IN IF there = <<>> THEN "none" ELSE Head(there)

-----------------------------------------------------------------------------
(* Game Gear: hints, and a size in whole banks *)

GG_HEADERS == {\h1FF0, \h3FF0, \h7FF0}
GG_CHECKSUM_SIZES ==
  [c \in {0, 1, 2} \cup (10 .. 15) |->
     CASE c \in 0 .. 2 -> 262144 * 2 ^ c
       [] c \in 10 .. 12 -> 8192 * 2 ^ (c - 10)
       [] c = 13 -> 49152
       [] c \in 14 .. 15 -> 65536 * 2 ^ (c - 14)]

\* One byte stands for the eight letters TMR SEGA.
headers(img) == {h \in GG_HEADERS : h + 16 <= img.len /\ ByteAt(img, h) = \h54}

HasSum(img, h, code) ==
  /\ code \in DOMAIN GG_CHECKSUM_SIZES
  /\ GG_CHECKSUM_SIZES[code] # 49152
  /\ h + 16 <= GG_CHECKSUM_SIZES[code] /\ GG_CHECKSUM_SIZES[code] <= img.len

gg_checksum(img, h, extent) == (SliceSum(img, 0, h) + SliceSum(img, h + 16, extent)) % 65536

Decimal(byte) == byte \div 16 <= 9 /\ byte % 16 <= 9

gg_header(img, h) ==
  LET code == ByteAt(img, h + 15) % 16
      stored == ByteAt(img, h + 10) + 256 * ByteAt(img, h + 11)
  IN When(~(Decimal(ByteAt(img, h + 12)) /\ Decimal(ByteAt(img, h + 13))), Warn("product code"))
     \cup When(ByteAt(img, h + 15) \div 16 \notin {5, 6, 7}, Warn("region hint"))
     \cup When(code \notin DOMAIN GG_CHECKSUM_SIZES \/ GG_CHECKSUM_SIZES[code] # img.len,
               Warn("extent differs from file"))
     \cup When(~HasSum(img, h, code), Warn("checksum not evaluated"))
     \cup When(HasSum(img, h, code) /\ stored # gg_checksum(img, h, GG_CHECKSUM_SIZES[code]),
               Warn("diagnostic checksum"))

verify_gg(img) ==
  LET banks == img.len \div 16384
  IN Judge("whole 8 KiB units", img.len >= 8192 /\ img.len % 8192 = 0)
     \cup When(headers(img) = {}, Warn("TMR SEGA header"))
     \cup When(Cardinality({Piece(img, h, 16) : h \in headers(img)}) > 1, Warn("conflicting headers"))
     \cup (UNION {gg_header(img, h) : h \in headers(img)})
     \cup When(banks > 1 /\ Cardinality(Pieces(Truncated(img, banks * 16384), 16384)) # banks,
               Warn("duplicate 16 KiB banks"))
     \cup When(Cardinality(Values(img)) = 1, Warn("uniform data"))

-----------------------------------------------------------------------------
(* Saves, Lynx images, references *)

LegalSizes == {512, 2048, 8192, 32768, 65536, 131072}

\* What the ROM beside a save says of its size.
SizeBeside(img, ext, rom) ==
  LET type == CartType(rom)  code == RamCode(rom)
      known == type \in MBC2 \/ code \in DOMAIN RAM_SIZES
      expect == IF type \in MBC2 THEN 512 ELSE RAM_SIZES[code]
  IN IF ext = ".gba" \/ rom.len < \h150 THEN {}
     ELSE IF ~known THEN Warn("unrecognised code")
     ELSE Judge("size matches the cartridge header", img.len = expect)

Blank(img) == Values(img) \in {{}, {\hFF}, {0}}

\* The banks are not compared.
verify_savNoBanks(files, name, img) ==
  LET ext == find_rom_beside(files, name)
  IN Judge("a legal save size", img.len \in LegalSizes)
     \cup (IF ext = "none" THEN Warn("no ROM dump beside it")
           ELSE SizeBeside(img, ext, files[[name EXCEPT !.ext = ext]]))
     \cup (IF Blank(img) THEN Warn("blank") ELSE Ok("not blank"))

verify_sav(files, name, img) ==
  LET ext == find_rom_beside(files, name)
  IN Judge("a legal save size", img.len \in LegalSizes)
     \cup (IF ext = "none" THEN Warn("no ROM dump beside it")
           ELSE SizeBeside(img, ext, files[[name EXCEPT !.ext = ext]]))
     \cup (IF Blank(img) THEN Warn("blank") ELSE Ok("not blank"))
     \cup When(img.len > BANK,
               Judge("banks differ from each other", Cardinality(Pieces(img, BANK)) > 1))

\* A block that is its own first `span` bytes over and over.
Folds(img, span) == \A b \in Pieces(img, 2048) : Cardinality(Pieces(b, span)) = 1
BlockSize(img) ==
  IF Folds(img, 512) THEN 512 ELSE IF Folds(img, 1024) THEN 1024 ELSE 2048

verify_lyx(img) ==
  IF img.len # 256 * 2048 THEN Bad("256 blocks of 2048 bytes")
  ELSE IF Cardinality(Values(img)) = 1 THEN Bad("cartridge data")
  ELSE IF Cardinality(Pieces(img, 2048)) = 1 THEN Bad("every block identical")
  ELSE Ok("blocks differ") \cup Note("block size", BlockSize(img))

\* The expected SHA-1, CRC32 and size that were given.
verify_reference(img, ref) ==
  When(ref.sha1 # NoFile, Judge("reference SHA-1", ref.sha1 = img))
  \cup When(ref.crc32 # NoFile, Judge("reference CRC32", ref.crc32 = img))
  \cup When(ref.size # 0, Judge("reference size", ref.size = img.len))

verify(files, name, ref) ==
  LET img == files[name]
      checks == CASE name.ext \in {".gb", ".gbc"} -> verify_gb(img)
                  [] name.ext = ".gba" -> verify_gba(img)
                  [] name.ext = ".gg" -> verify_gg(img)
                  [] name.ext = ".lyx" -> verify_lyx(img)
                  [] name.ext = ".sav" -> verify_sav(files, name, img)
                  [] OTHER -> Warn("unrecognised extension")
  IN IF img = NoFile THEN Bad("unreadable") ELSE checks \cup verify_reference(img, ref)

Bits(byte) == {k \in 0 .. 7 : (byte \div 2 ^ k) % 2 = 1}
Differing(x, y) == (Bits(x) \ Bits(y)) \cup (Bits(y) \ Bits(x))

\* The data lines on which two reads of one length differ anywhere.
DiffBits(a, b) ==
  LET own == DOMAIN a.at \cup DOMAIN b.at
  IN (UNION {Differing(ByteAt(a, o), ByteAt(b, o)) : o \in own})
     \cup When(Cardinality(own) < a.len, Differing(a.fill, b.fill))

compare(a, b) ==
  IF a.len # b.len THEN Bad("same length")
  ELSE IF a = b THEN Ok("identical")
  ELSE Bad("identical")
       \cup When(Cardinality(DiffBits(a, b)) = 1,
                 Note("every difference is one bit", CHOOSE k \in DiffBits(a, b) : TRUE))

NoReference == [sha1 |-> NoFile, crc32 |-> NoFile, size |-> 0]

\* "Prove each check can fail": a good ROM, two bad ones, three saves beside it,
\* a save beside a GBA ROM, and two comparisons.
selftest ==
  LET file(ext) == [stem |-> "TESTROM", ext |-> ext]
      rom == GbRom(\h03, \h03, 0, 0, 0)
      Alone(img) == Failures(verify([n \in {file(".gb")} |-> img], file(".gb"), NoReference))
      Beside(ext, beside, save) ==
        Failures(verify([n \in {file(ext), file(".sav")} |-> IF n.ext = ext THEN beside ELSE save],
                        file(".sav"), NoReference))
      one_bank == With(Filled(BANK, 0), [o \in {5} |-> 9])
      repeated == With(Filled(4 * BANK, 0), [o \in {5 + i * BANK : i \in 0 .. 3} |-> 9])
      varied == With(Filled(4 * BANK, 0), [o \in {5 + i * BANK : i \in 0 .. 3} |-> 1 + o \div BANK])
      flipped == With(varied, [o \in {0, 3, 6} |-> 128])
  IN /\ Alone(rom) = 0
     /\ Alone(With(rom, [o \in {\h10A} |-> 1])) > 0
     /\ Alone(With(rom, [o \in {\h2000} |-> 255])) > 0
     /\ Beside(".gb", rom, repeated) > 0
     /\ Beside(".gb", rom, varied) = 0
     /\ Beside(".gb", rom, Truncated(varied, BANK)) > 0
     /\ Beside(".gba", Filled(512, 0), one_bank) = 0
     /\ Failures(compare(varied, flipped)) > 0
     /\ Failures(compare(varied, varied)) = 0

-----------------------------------------------------------------------------
(* main *)

Exit(s) == pc' = "ended" /\ status' = s

\* The reference options are for one file and nothing else.
Parse ==
  /\ pc = "parse"
  /\ IF args.ref # NoReference
         /\ (Len(args.files) # 1 \/ args.compare # <<>> \/ args.selftest)
     THEN Exit(2)
     ELSE IF args.selftest THEN Exit(IF selftest THEN 0 ELSE 1)
     ELSE pc' = "compare" /\ UNCHANGED status
  /\ UNCHANGED <<card, truth, args, left, failures, said, seen, compared>>

\* A file that cannot be opened ends the program here.
Compare ==
  /\ pc = "compare"
  /\ LET a == card[args.compare[1]]  b == card[args.compare[2]]
     IN IF args.compare = <<>>
        THEN pc' = "verify" /\ UNCHANGED <<failures, said, status, compared>>
        ELSE IF NoFile \in {a, b} THEN Exit(1) /\ UNCHANGED <<failures, said, compared>>
        ELSE /\ said' = said \cup compare(a, b)
             /\ failures' = failures + Failures(compare(a, b))
             /\ compared' = <<a, b>>
             /\ pc' = "verify" /\ UNCHANGED status
  /\ UNCHANGED <<card, truth, args, left, seen>>

Verify ==
  /\ pc = "verify" /\ left # <<>>
  /\ LET lines == verify(card, Head(left), args.ref)
     IN said' = said \cup lines /\ failures' = failures + Failures(lines)
  /\ left' = Tail(left)
  /\ seen' = Append(seen, card)
  /\ UNCHANGED <<card, truth, args, pc, status, compared>>

Finish ==
  /\ pc = "verify" /\ left = <<>>
  /\ Exit(IF args.files = <<>> /\ args.compare = <<>> THEN 2
          ELSE IF failures > 0 THEN 1 ELSE 0)
  /\ UNCHANGED <<card, truth, args, left, failures, said, seen, compared>>

\* The card is not the program's own.
FileGone(n) ==
  /\ pc # "ended" /\ card[n] # NoFile
  /\ card' = [card EXCEPT ![n] = NoFile]
  /\ UNCHANGED <<truth, args, pc, left, failures, said, status, seen, compared>>

\* A session: the card, what should be on it, and the command line.
Begins(session) ==
  /\ card = session.card /\ truth = session.truth /\ args = session.args
  /\ pc = "parse" /\ left = session.args.files
  /\ failures = 0 /\ said = {} /\ status = -1 /\ seen = <<>> /\ compared = <<>>

Next == Parse \/ Compare \/ Verify \/ Finish \/ \E n \in Names : FileGone(n)

-----------------------------------------------------------------------------
(* What the files and the command line may be *)

Byte == 0 .. 255

\* Most of an image is its fill.
IsImage(img) ==
  /\ img = [len |-> img.len, fill |-> img.fill, at |-> img.at]
  /\ img.len \in Nat /\ img.fill \in Byte /\ img.at \in [DOMAIN img.at -> Byte]
  /\ DOMAIN img.at \subseteq 0 .. img.len - 1
  /\ \A o \in DOMAIN img.at : img.at[o] # img.fill
  /\ 2 * Cardinality(DOMAIN img.at) < img.len

\* As a manufacturer makes a Game Boy ROM, and as long as the core reads a Lynx.
WellMade(n, img) ==
  /\ n.ext \in {".gb", ".gbc"} =>
       /\ RomCode(img) \in 0 .. 8 /\ img.len = 32768 * 2 ^ RomCode(img)
       /\ HasLogo(img) /\ gb_global_sum(img) = StoredGlobal(img)
  /\ n.ext = ".lyx" => img.len = 256 * 2048

\* Anything may be on the card; what should be there under a name that is given
\* is the content of a cartridge.
IsSession(s) ==
  /\ DOMAIN s.card = Names /\ \A n \in Names : s.card[n] = NoFile \/ IsImage(s.card[n])
  /\ s.args.files \in Seq(Names)
  /\ s.args.compare = <<>> \/ s.args.compare \in Names \X Names
  /\ \A i \in DOMAIN s.args.files :
       IsImage(s.truth[s.args.files[i]]) /\ WellMade(s.args.files[i], s.truth[s.args.files[i]])

-----------------------------------------------------------------------------
(* The core that writes the saves: which it reads, and how much (cart_save_gb) *)

banks_of(code) ==
  CASE code \in {1, 2} -> 1 [] code = 3 -> 4 [] code = 5 -> 8 [] code = 4 -> 16 [] OTHER -> 0
supported(type, code) ==
  type \notin MBC2 /\ banks_of(code) # 0 /\ (banks_of(code) <= 4 \/ type \in \h19 .. \h1E)
total_bytes(code) == IF code = 1 THEN 2048 ELSE BANK * banks_of(code)

-----------------------------------------------------------------------------
(* Properties *)

\* A read in which one data line of the cartridge is low, or high, throughout.
Stuck(img, k, high) ==
  LET By(byte) == IF high = (k \in Bits(byte)) THEN byte
                  ELSE IF high THEN byte + 2 ^ k ELSE byte - 2 ^ k
  IN [img EXCEPT !.fill = By(@), !.at = [o \in {d \in DOMAIN @ : By(@[d]) # By(img.fill)} |-> By(@[o])]]

\* A read in which the bank, or block, number did not reach the cartridge.
Repeats(img, size) == Cardinality(Pieces(img, size)) = 1

OneByteOff(got, want) ==
  /\ got.len = want.len
  /\ Cardinality({o \in DOMAIN got.at \cup DOMAIN want.at : ByteAt(got, o) # ByteAt(want, o)}) = 1
  /\ got.fill = want.fill

\* A read that ended early.
CutShort(got, want) == got.len < want.len /\ got = Truncated(want, got.len)

\* The lengths a save may have: beside a Game Boy ROM the core can read one of,
\* the one the core reads (total_bytes), and any legal one otherwise.
LengthsBeside(files, n) ==
  LET ext == find_rom_beside(files, n)
      rom == files[[n EXCEPT !.ext = ext]]
  IN IF ext \in {".gb", ".gbc"} /\ ~(rom.len < \h150) /\ supported(CartType(rom), RamCode(rom))
     THEN {total_bytes(RamCode(rom))} ELSE LegalSizes

\* The damage a read may do that its kind of file can show, on the card that
\* holds `files', where a faultless read would have put `want' under n.
Shows(files, n, want) ==
  LET got == files[n]
  IN CASE n.ext \in {".gb", ".gbc"} ->
            \/ CutShort(got, want) \/ OneByteOff(got, want)
            \/ got # want /\ (\E k \in 0 .. 7, high \in BOOLEAN : got = Stuck(want, k, high))
       [] n.ext = ".lyx" ->
            got.len # want.len \/ (Repeats(got, 2048) /\ ~Repeats(want, 2048))
       [] n.ext = ".sav" ->
            \/ got.len \notin LengthsBeside(files, n)
            \/ got.len > BANK /\ Repeats(got, BANK) /\ ~Repeats(want, BANK)
       [] OTHER -> FALSE

\* Whichever of the three the user gave.
AsReferenced(img, ref) ==
  /\ NoFile # ref.sha1 => img = ref.sha1
  /\ NoFile # ref.crc32 => img = ref.crc32
  /\ ref.size # 0 => img.len = ref.size

\* Exit status 0 of a check clears the files: every file that was named was there
\* when it was read, showed none of the damage above (a byte, a line, a length, a
\* bank select), and agreed with each reference that was given, SHA-1, CRC32 and
\* size; two reads to be compared were both there, and the same.
\* (A legal call that reaches status 0 with a damaged file is what the tool is
\* there to prevent: "prove the checks can fail".)
DamageIsCaught ==
  status = 0 /\ ~args.selftest =>
    /\ Len(seen) = Len(args.files)
    /\ \A i \in DOMAIN args.files :
         LET n == args.files[i]
         IN /\ seen[i][n] # NoFile
            /\ ~Shows(seen[i], n, truth[n])
            /\ AsReferenced(seen[i][n], args.ref)
    /\ args.compare # <<>> =>
         compared # <<>> /\ NoFile # compared[1] /\ compared[1] = compared[2]

\* A faultless dump of a sound cartridge fails nothing, whatever else it makes
\* the tool warn of, and the self test finds that each check can fail; the one
\* save it fails all the same is of several banks that are truly alike.
SoundDumpPasses ==
  status # -1 /\ (args.selftest \/ args.files # <<>>) /\ args.ref = NoReference
  /\ args.compare = <<>> /\ card = truth =>
    \/ status = 0
    \/ \E i \in DOMAIN args.files :
         LET n == args.files[i]
         IN n.ext = ".sav" /\ truth[n].len > BANK /\ Repeats(truth[n], BANK)

\* The line named as unreliable is the one that is: two reads of one cartridge
\* that only ever differ on one data line are told apart by its number, and no
\* number is given when a second line differs anywhere.
LineIsNamed ==
  status = 1 /\ args.files = <<>> /\ compared # <<>> /\ compared[1].len = compared[2].len =>
    LET named == {l \in said : l[2] = "every difference is one bit"}
    IN \A k \in 0 .. 7 :
         (\E l \in named : l[3] = k) <=> Stuck(compared[1], k, TRUE) = Stuck(compared[2], k, TRUE)

=============================================================================
