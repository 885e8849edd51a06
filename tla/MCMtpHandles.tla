---------------------------- MODULE MCMtpHandles ----------------------------
(* One storage with folders d and e and files of the same name f inside and  *)
(* outside of them, so that a path that loses its folder meets another file. *)
EXTENDS MtpHandles

MCPaths == {<<1, "d">>, <<1, "f">>, <<1, "d", "f">>, <<1, "d", "g">>, <<1, "e">>, <<1, "e", "f">>}
\* The files share a bucket, the folders another; the root has its own.
MCHash(name) == CASE name \in DirNames -> 1 [] name = RootName -> 2 [] OTHER -> 3

MCInitialDisk == {<<1, "d">>, <<1, "d", "f">>}
=============================================================================
