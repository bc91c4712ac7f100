---------------------------- MODULE MCImageBuild ----------------------------
(* Small instances of ImageBuild for TLC. *)
EXTENDS ImageBuild
=============================================================================
