------------------------- MODULE MCCachePublication -------------------------
(* Small instances of CachePublication for TLC. *)
EXTENDS CachePublication
=============================================================================
