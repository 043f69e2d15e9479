--------------------------- MODULE MCPrepareRestore ---------------------------
(* One preparer gets every header around the supported ones, the other a good *)
(* pair and seven bad ones.                                                   *)
EXTENDS PrepareRestore, Sequences

Types == <<\h01, \h03, \h10, \h13, \h1B>>
Rams == <<\h02, \h03, \h04>>
Cgbs == <<0, \h80, \hC0>>
HeaderCount == 225
Header(i) == <<Types[1 + (i % 5)], Rams[1 + ((i \div 5) % 3)], 4 + ((i \div 15) % 5), Cgbs[1 + (i \div 75)]>>
Pair(h) == [rom |-> GbRom(h[1], h[2], h[3], h[4], 7),
            save |-> With(Filled(IF h[2] = \h02 THEN 8192 ELSE 32768, \hFF), [o \in {9} |-> h[1]])]
Good == Pair(<<\h1B, \h03, 5, \h80>>)
Bad ==
  <<[rom |-> NoFile, save |-> Good.save],
    [rom |-> Good.rom, save |-> NoFile],
    [rom |-> Truncated(Good.rom, \h14F), save |-> Good.save],
    [rom |-> Truncated(Good.rom, Good.rom.len \div 2), save |-> Good.save],
    [rom |-> With(Good.rom, [o \in {\h14D} |-> 0]), save |-> Good.save],
    [rom |-> With(Good.rom, [o \in {\h2000} |-> 8]), save |-> Good.save],
    [rom |-> Good.rom, save |-> Truncated(Good.save, 8192)]>>

Stock == <<Good>> \o Bad \o [i \in 1 .. HeaderCount |-> Pair(Header(i - 1))]
MCSource == 1 .. Len(Stock)
MCFiles(i) == Stock[i]

=============================================================================
