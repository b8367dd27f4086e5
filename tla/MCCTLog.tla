------------------------------- MODULE MCCTLog -------------------------------
(* Two logs without and one with a write service, for TLC. *)
EXTENDS CTLog

MCLegs == {<<"production", "2022">>, <<"staging", "test">>, <<"staging", "log2026-1">>}
=============================================================================
