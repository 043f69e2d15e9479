---------------------------- MODULE MCDumpEngineGb ----------------------------
(* A save of two banks of two bytes behind an MBC1, a ROM of two banks of two *)
(* bytes, chunks of three bytes: the last chunk of a file is a short one.     *)
EXTENDS DumpEngineGb

MCChip == [mbc1 |-> TRUE, banks |-> 2]
MCSave == [c \in Cell |-> 1 + ((c[1] + c[2]) % 2)]
MCRom == [c \in (0 .. RomBanks - 1) \X (0 .. RomBytes - 1) |-> 1 + ((c[1] + c[2]) % 2)]
=============================================================================
