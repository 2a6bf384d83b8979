--------------------------- MODULE MCMatrixGate ---------------------------
(* The GT004 harness: the two wired rows and, between them, one row nobody *)
(* watches on either side of the frame.                                    *)
EXTENDS MatrixGate

Pins == [a \in {"left-forward", "left-reverse", "right-forward", "right-reverse"} |->
    CASE a = "left-forward"  -> <<18, 17>>
      [] a = "left-reverse"  -> <<18, 20>>
      [] a = "right-forward" -> <<16, 20>>
      [] a = "right-reverse" -> <<16, 17>>]

ScanFrame == <<18, -1, 16, -1>>
=============================================================================
