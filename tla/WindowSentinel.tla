--------------------------- MODULE WindowSentinel ---------------------------
(***************************************************************************)
(* What the sentinel promises, with no CPU in sight: windows that follow   *)
(* one another at more than WINDOW_MS, each starting from a count of zero  *)
(* in the same instant, and one alarm in a window, on the error that makes *)
(* the count reach the threshold.                                          *)
(***************************************************************************)
EXTENDS Integers

CONSTANTS WINDOW_MS, Threshold

VARIABLES start, count, alarm

vars == <<start, count, alarm>>

Init == start = 0 /\ count = 0 /\ alarm = FALSE

Open ==
  /\ start' \in Nat /\ start' - start > WINDOW_MS
  /\ count' = 0
  /\ alarm' = FALSE

Hit ==
  /\ count' = count + 1
  /\ alarm' = (alarm \/ count + 1 = Threshold)
  /\ start' = start

Next == Open \/ Hit

Spec == Init /\ [][Next]_vars
=============================================================================
