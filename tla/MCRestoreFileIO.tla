---------------------------- MODULE MCRestoreFileIO ----------------------------
(* Two words a file, two recovery names, two recovery images. *)
EXTENDS RestoreFileIO

MCOthers == <<"a", "b">>
MCImages == {<<"b", "b">>, <<"b", "a">>}
MCInputFiles ==
  {[name |-> "META", content |-> <<"a", "b">>],
   [name |-> "SAVE", content |-> <<"b", "a">>],
   [name |-> "SAVE", content |-> <<"b">>]}

=============================================================================
