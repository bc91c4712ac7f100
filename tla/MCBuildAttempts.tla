--------------------------- MODULE MCBuildAttempts ---------------------------
(* Small instances of BuildAttempts for TLC. *)
EXTENDS BuildAttempts

TwoItems == <<{1}, {2}>>

(* No depends_on: the second step waits for the first. *)
Implicit == {<<>>}

(* Besides, the two steps wait for nothing; or the first step waits for    *)
(* the second, which either waits for nothing or, for want of a depends_on *)
(* of its own, for the first.                                              *)
Explicit == Implicit \cup {<<{}, {}>>, <<{2}, {}>>, <<{2}>>}
=============================================================================
