---------------------------- MODULE MCPlatePage ----------------------------
(***************************************************************************)
(* Instances of PlatePage for TLC: a repository that gains a license, a    *)
(* folder and another schema, one of which GitHub lists only a file of a   *)
(* folder, and a plate without repository.                                 *)
(***************************************************************************)
EXTENDS PlatePage, TLC

CONSTANTS f1, f2, m1, v1

Blob(path) == [path |-> path, type |-> "blob"]
Tree(path) == [path |-> path, type |-> "tree"]

OldSchema == [fields |-> f1 :> Empty @@ f2 :> v1, required |-> {f1}, modules |-> m1 :> TRUE]
NewSchema == [fields |-> f1 :> v1, required |-> {f1}, modules |-> <<>>]

MCContents ==
    {[repository |-> TRUE, readme |-> "old", license |-> None, hasSchema |-> TRUE,
      schema |-> OldSchema, tree |-> {Blob(<<"src", "main">>)}],
     [repository |-> TRUE, readme |-> "new", license |-> "mit", hasSchema |-> TRUE,
      schema |-> NewSchema,
      tree |-> {Tree(<<"src">>), Tree(<<"src", "lib">>), Blob(<<"src", "lib", "main">>)}],
     [repository |-> FALSE, readme |-> None, license |-> None, hasSchema |-> TRUE,
      schema |-> NewSchema, tree |-> {}]}

MCHashes == {"", "readme", "license", "schema", "files"}
=============================================================================
