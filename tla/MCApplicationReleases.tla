------------------------ MODULE MCApplicationReleases ------------------------
(* A small instance of ApplicationReleases for TLC. *)
EXTENDS ApplicationReleases

(* One pipeline asks for latest, the other has no automatic channel and    *)
(* expects an image as well.                                               *)
MCPlans == {[auto |-> TRUE, outputs |-> Artifacts], [auto |-> FALSE, outputs |-> Outputs]}
=============================================================================
