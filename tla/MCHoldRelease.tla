---------------------------- MODULE MCHoldRelease ----------------------------
(* Small instances of HoldRelease for TLC: one or two workers and a direct *)
(* caller, which together make at most four lock objects.                  *)
EXTENDS HoldRelease, TLC

CONSTANTS w1, c1, outer1, inner1, innerC, other

MCOuter == w1 :> outer1
MCInner == (w1 :> inner1) @@ (c1 :> innerC)
=============================================================================
