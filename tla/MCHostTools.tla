------------------------------ MODULE MCHostTools ------------------------------
(* Uses of the four tools: the headers and files of MCPrepareRestore, the     *)
(* cards of MCVerifyDump, every directory of two of the DAT files below for a *)
(* library of two dumps, and of the repository's checks each on its own and   *)
(* two in turn, three benches, or nothing at all.                             *)
EXTENDS HostTools, MCPrepareRestore

HostNames == [stem : {"A", "B"}, ext : {".gb", ".gbc", ".gba", ".gg", ".lyx", ".sav", ".bin"}]
VM == INSTANCE MCVerifyDump WITH pc <- vpc, left <- vleft, status <- vstatus
HostSessions == VM!CardSessions

\* -- DAT files and a library -------------------------------------------------
HostImage == {"a", "b", "c"}
HostCrc == [i \in HostImage |-> IF i = "c" THEN 1 ELSE 0]
HostSize == [i \in HostImage |-> IF i = "b" THEN 2 ELSE 1]

Right(i) == [sha1 |-> i, crc |-> crcOf[i], size |-> sizeOf[i], named |-> TRUE]
Xml(roms) == [parses |-> TRUE, datafile |-> TRUE, roms |-> roms]
Dat(kind, docs) == [kind |-> kind, large |-> FALSE, torn |-> FALSE, documents |-> docs]
All == Xml({Right("a"), Right("b")})
Pool == {Dat("xml", {All}), Dat("zip", {Xml({Right("c")}), Xml({Right("a")})}), Dat("other", {}),
   Dat("xml", {Xml({[Right("a") EXCEPT !.size = 2], [Right("b") EXCEPT !.crc = 1]})}),
   Dat("xml", {Xml({[Right("a") EXCEPT !.sha1 = NoFile], [Right("b") EXCEPT !.named = FALSE]})}),
   Dat("zip", {All, [All EXCEPT !.parses = FALSE]}), [Dat("zip", {All}) EXCEPT !.torn = TRUE],
   Dat("xml", {[All EXCEPT !.datafile = FALSE]}),
   [Dat("zip", {All}) EXCEPT !.large = TRUE]}
Library == [f \in {"f", "g"} |-> [rom |-> f = "f", image |-> IF f = "f" THEN "a" ELSE "b"]]
HostLibraries ==
  {[dats |-> d, dumps |-> Library, paths |-> p] :
     d \in UNION {[1 .. n -> Pool] : n \in 0 .. 2},
     p \in [library : BOOLEAN, files : {{}, {"g"}}, selftest : BOOLEAN]}

\* -- checks and benches, on one, two or eight threads; 0 and 9 are refused ---
NC == INSTANCE NegativeControl WITH code <- scode
HostChecks ==
  <<NC!check_adapter_state, NC!check_cart_reset_admission, NC!check_dump_pair_integration,
    NC!check_gb_precharge_release, NC!check_gg_allocation_mutations, NC!check_gg_apf_serialization,
    NC!check_gg_electrical_mutations, NC!check_gg_integration, NC!check_gg_ui_strings, NC!PlainCheck,
    NC!check_restore_bridge, NC!check_restore_datatable, NC!check_restore_integration>>
HostBenches == <<"tb_a", "tb_b", "tb_c">>
HostSelections ==
  {[checks |-> <<c>>, benches |-> <<>>] : c \in {HostChecks[i] : i \in DOMAIN HostChecks}}
  \cup {[checks |-> <<NC!PlainCheck, NC!check_gg_allocation_mutations>>, benches |-> <<"tb_b">>],
        [checks |-> <<>>, benches |-> HostBenches], [checks |-> <<>>, benches |-> <<>>]}
HostHeaders == {<<>>, <<1800>>, <<0>>, <<1801>>, <<-1>>, <<300, 900>>}

\* The preparers' files are a bound of the instance.
HostMCInit == HostInit /\ (tool = "prepare" => source["p2"] <= 1 + Len(Bad))
HostMCSpec == HostMCInit /\ [][HostNext]_hostVars
=============================================================================
