------------------------------ MODULE MCStorageApi ------------------------------
(* StorageApi for TLC                                                       *)
EXTENDS StorageApi, TLC

(* Dicts that ask for upsert in one way or the other, refuse it or say      *)
(* nothing, with and without the entries a call pops                        *)
SomeDicts ==
  {Dict(None, "true", None, None, TRUE), Dict(0, "false", "true", None, TRUE),
   Dict(0, None, "true", None, FALSE), Dict(None, None, None, "true", FALSE)}

StorageSymmetry == Permutations(Paths)

=============================================================================
