------------------------------ MODULE MCJobFeed ------------------------------
(* Small instances of JobFeed. *)
EXTENDS JobFeed

SecondBlock == {2}
=============================================================================
