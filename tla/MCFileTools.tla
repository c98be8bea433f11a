---------------------------- MODULE MCFileTools -----------------------------
(* FileTools on a small instance: a file the policy may bar and one it does not. *)
EXTENDS FileTools

SomeContents == {<<"x">>, <<"x", "x">>, <<"y">>, <<"nul">>, <<"x", "y">>, <<"y", "y">>}
SomeDisks == {File(1) :> <<"x">>}
             \cup {File(1) :> <<"x">> @@ File(2) :> s : s \in {<<"x">>, <<"x", "x">>, <<"nul">>}}
SomeOptions ==
  {[hide |-> o = "hide", exts |-> o = "exts", readOnly |-> o = "readOnly",
    disableExtended |-> o = "basic"] : o \in {"none", "hide", "exts", "readOnly", "basic"}}
Edit(p, all, new) == [name |-> "edit_file", path |-> p, old |-> "x", new |-> new, all |-> all]
SomeCalls ==
  [name : {"read_file", "delete_file"}, path : Paths]
  \cup [name : {"write_file"}, path : Paths, content : {<<"y">>}]
  \cup {Edit(1, FALSE, <<"y">>), Edit(2, FALSE, <<"y">>), Edit(2, TRUE, <<"y">>),
         Edit(2, FALSE, <<"x", "y">>)}
  \cup [name : {"list_files"}]
  \cup [name : {"grep"}, pattern : {"x"}]
Symmetry == Permutations(Callers)
=============================================================================
