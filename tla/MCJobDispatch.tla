---------------------------- MODULE MCJobDispatch ----------------------------
(* Small instances of JobDispatch. *)
EXTENDS JobDispatch

CONSTANTS m1, s1

OneOfEach == {m1}
OneV2 == {s1}
Nobody == {}
=============================================================================
