-------------------------- MODULE MCFredTestModes --------------------------
(***************************************************************************)
(* Both test modes on partition p1 with two slots and two hw-tasks and      *)
(* partition p2 with one of each.                                           *)
(***************************************************************************)
EXTENDS FredTestModesInv, MCFredDrivers

MCOneRequest == {r1}
MCTaskOrder == <<ta, tc, tb>>

TestView == <<DriversView, client>>
=============================================================================
