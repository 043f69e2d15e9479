------------------------------- MODULE MatchDats -------------------------------
(***************************************************************************)
(* scripts/match_dats.py: whether every dump has a published record.  The  *)
(* DAT files of a directory are read one by one, then the dumps are hashed *)
(* one by one.  A SHA-1 is the image itself; a CRC32 may be of two images. *)
(***************************************************************************)
EXTENDS Integers, Sequences, FiniteSets

CONSTANTS
  Image,        \* what a dump may hold
  crcOf, sizeOf, \* of an image
  NoImage       \* a file that cannot be read, a SHA-1 that a record lacks

VARIABLES
  dats,    \* the DAT directory, sorted
  dumps,   \* the files of the library: [rom, image], is it a ROM by its extension
  paths,   \* the command line: [library, files, selftest], a directory and files by name
  pc, at, left, \* where main is; the next DAT; the dumps still to hash
  entries, \* SHA-1 -> the records that have it
  missed,
  status

vars == <<dats, dumps, paths, pc, at, left, entries, missed, status>>

-----------------------------------------------------------------------------

\* A <rom> of a DAT that may enter the table.
Complete(r) == r.sha1 # NoImage /\ r.size > 0 /\ r.named

dat_records(xml) == IF xml.datafile THEN {r \in xml.roms : Complete(r)} ELSE {}

\* What becomes of a file of the directory.  A document that does not parse
\* voids its whole archive, and so does one that is too large; a stream that
\* zlib cannot inflate raises what load_dats does not catch.
Fate(dat) ==
  CASE dat.kind \notin {"zip", "xml"} -> "skipped"
    [] dat.kind \in {"zip", "xml"} /\ dat.large -> "refused"
    [] dat.kind = "zip" /\ dat.torn /\ ~dat.large -> "raised"
    [] OTHER -> IF \E d \in dat.documents : ~d.parses THEN "refused" ELSE "read"

Exit(s) == pc' = "ended" /\ status' = s

\* The entry of the last DAT replaces the others.
LoadDatReplaces ==
  /\ pc = "load" /\ ~paths.selftest /\ at <= Len(dats)
  /\ at' = at + 1
  /\ LET dat == dats[at]
         parsed == UNION {dat_records(d) : d \in dat.documents}
         Found(s) == {r \in parsed : r.sha1 = s}
     IN CASE Fate(dat) = "read" ->
               /\ entries' = [s \in Image |-> IF Found(s) = {} THEN entries[s] ELSE Found(s)]
               /\ UNCHANGED <<pc, status>>
          [] Fate(dat) = "raised" -> Exit(1) /\ UNCHANGED entries
          [] OTHER -> UNCHANGED <<entries, pc, status>>
  /\ UNCHANGED <<dats, dumps, paths, left, missed>>

\* An entry keeps every record that was ever found for its SHA-1.
LoadDat ==
  /\ pc = "load" /\ ~paths.selftest /\ at <= Len(dats)
  /\ at' = at + 1
  /\ LET dat == dats[at]
         parsed == UNION {dat_records(d) : d \in dat.documents}
     IN CASE Fate(dat) = "read" ->
               /\ entries' = [s \in Image |-> entries[s] \cup {r \in parsed : r.sha1 = s}]
               /\ UNCHANGED <<pc, status>>
          [] Fate(dat) = "raised" -> Exit(1) /\ UNCHANGED entries
          [] OTHER -> UNCHANGED <<entries, pc, status>>
  /\ UNCHANGED <<dats, dumps, paths, left, missed>>

\* Files that are named are all taken; of a directory, those with a ROM's extension.
collect(p) == p.files \cup {f \in DOMAIN dumps : p.library /\ dumps[f].rom}

Loaded ==
  /\ pc = "load" /\ ~paths.selftest /\ at > Len(dats)
  /\ LET files == collect(paths)
     IN IF (\A s \in Image : entries[s] = {}) \/ files = {}
        THEN Exit(2) /\ UNCHANGED left
        ELSE pc' = "report" /\ left' = files /\ UNCHANGED status
  /\ UNCHANGED <<dats, dumps, paths, at, entries, missed>>

hashes(image) == [sha1 |-> image, crc |-> crcOf[image], size |-> sizeOf[image]]

\* A record has to agree on the SHA-1, the CRC32 and the size.
Hit(table, image) ==
  LET h == hashes(image)
  IN \E r \in table[h.sha1] : r.size = h.size /\ r.crc = h.crc

\* One line of the report; the lines come in some order.
Report(f) ==
  /\ pc = "report" /\ f \in left
  /\ left' = left \ {f}
  /\ missed' = IF dumps[f].image = NoImage \/ ~Hit(entries, dumps[f].image)
               THEN missed \cup {f} ELSE missed
  /\ UNCHANGED <<dats, dumps, paths, pc, at, entries, status>>

Finish ==
  /\ pc = "report" /\ left = {}
  /\ Exit(IF missed = {} THEN 0 ELSE 1)
  /\ UNCHANGED <<dats, dumps, paths, at, left, entries, missed>>

\* "A match must be able to fail": no record, the wrong size, the wrong CRC32 and
\* the right record, for one dump.
selftest ==
  LET one == CHOOSE i \in Image : TRUE
      own == [sha1 |-> one, crc |-> crcOf[one], size |-> sizeOf[one], named |-> TRUE]
      Passes(records) == Hit([i \in {one} |-> records], one)
  IN /\ ~Passes({}) /\ Passes({own})
     /\ ~Passes({[own EXCEPT !.size = @ + 1]}) /\ ~Passes({[own EXCEPT !.crc = @ + 1]})

SelfTest ==
  /\ pc = "load" /\ paths.selftest
  /\ Exit(IF selftest THEN 0 ELSE 1)
  /\ UNCHANGED <<dats, dumps, paths, at, left, entries, missed>>

\* Another program removes a dump, or puts another one in its place.
Redump(f, image) ==
  /\ pc # "ended" /\ dumps[f].image # image
  /\ dumps' = [dumps EXCEPT ![f].image = image]
  /\ UNCHANGED <<dats, paths, pc, at, left, entries, missed, status>>

Begins(directory, library, files) ==
  /\ dats = directory /\ dumps = library /\ paths = files
  /\ pc = "load" /\ at = 1 /\ left = {} /\ status = -1
  /\ entries = [s \in Image |-> {}] /\ missed = {}

\* No two hashes are an image's, a file of the library is an image or cannot be
\* read, and no image is empty.
HashesAreReal ==
  /\ Image # {} /\ NoImage \notin Image
  /\ crcOf \in [Image -> Nat] /\ sizeOf \in [Image -> Nat \ {0}]
IsUse(directory, library, files) ==
  /\ DOMAIN directory = 1 .. Len(directory) /\ Len(directory) \in Nat
  /\ \A f \in DOMAIN library :
       library[f] \in [rom : BOOLEAN, image : Image \cup {NoImage}]
  /\ files.files \subseteq DOMAIN library

Next ==
  \/ LoadDat \/ Loaded \/ Finish \/ SelfTest
  \/ \E f \in DOMAIN dumps : Report(f) \/ \E image \in Image \cup {NoImage} : Redump(f, image)

-----------------------------------------------------------------------------
(* Properties *)

Usable(dat) ==
  dat.kind \in {"zip", "xml"} /\ ~dat.large /\ \A d \in dat.documents : d.parses

\* Some DAT that can be used lists this very image.
Recorded(image) ==
  /\ image # NoImage
  /\ \E i \in DOMAIN dats : Usable(dats[i]) /\ \E d \in dats[i].documents :
       d.datafile /\ \E r \in d.roms :
         r.named /\ r.sha1 = image /\ r.crc = crcOf[image] /\ r.size = sizeOf[image]

\* A dump passes exactly when a published record is its own, and no other DAT,
\* broken or contradicting, read before or after, changes that; and only a run
\* in which every dump asked for passed ends with 0, or the self test, which
\* always does ("loading another DAT cannot replace an otherwise matching
\* record", "each acceptance and rejection has to happen").
MatchStep ==
  /\ \A f \in left \ left' : f \in missed' <=> ~Recorded(dumps[f].image)
  /\ status # 0 /\ status' = 0 /\ ~paths.selftest =>
       pc = "report" /\ left = {} /\ missed = {} /\ collect(paths) # {}
  /\ status' # status /\ paths.selftest => status' = 0

MatchIsRecorded == [][MatchStep]_vars

=============================================================================
