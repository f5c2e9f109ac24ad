-------------------------- MODULE MCBackendCall ----------------------------
(* Small instance of BackendCall: a default and an out-of-range timeout,   *)
(* row caps on both sides of the answer's size, and a byte cap that two    *)
(* large rows exceed before the row cap does.                              *)
EXTENDS BackendCall

MCTimeoutArgs == {Unset, 1, 5}
MCRowArgs     == {Unset, 1, 9}
MCRowBytes    == {2, 5}
============================================================================
