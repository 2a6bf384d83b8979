--------------------------- MODULE ScannedRemote ---------------------------
(***************************************************************************)
(* The remote control as the Pi meets it: on its own clock it pulls one    *)
(* scan line after the other low, with a gap in between.  `fresh' is how   *)
(* far the program that gates it has got with a whole round of its loop    *)
(* inside the present phase: "none", "started" or "done".                  *)
(***************************************************************************)
EXTENDS Integers, Sequences

\* What it scans, in its order.  Lines no wire reaches (channels B and C and
\* the function row) are members too: a column held low through one of them
\* presses its button.
CONSTANT Frame

ASSUME FrameAssumption == Len(Frame) \in Nat \ {0}

VARIABLES slot, lineLow,   \* the line it is at, and whether it is low
          fresh

remote == <<slot, lineLow>>

RemoteInit == slot = 1 /\ lineLow = FALSE /\ fresh = "none"

\* The scan line at `slot' rises: the gap before the next one begins.
RowRises ==
    /\ lineLow /\ lineLow' = FALSE
    /\ fresh' = "none"
    /\ UNCHANGED slot

\* The next line falls.
RowFalls ==
    /\ ~lineLow /\ lineLow' = TRUE
    /\ slot' = IF slot = Len(Frame) THEN 1 ELSE slot + 1
    /\ fresh' = "none"
=============================================================================
