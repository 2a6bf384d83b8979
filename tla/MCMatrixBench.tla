--------------------------- MODULE MCMatrixBench ---------------------------
(* The GT004 harness: two scan lines and two direction lines, each reaching *)
(* the Pi twice; the paired commands that share a column and the ones that *)
(* do not, and two pairs an operator names, with wires the map leaves out. *)
EXTENDS MatrixBench

Wired == <<16, 17, 18, 19, 20, 22, 23, 26>>

Nets == [w \in (4..7) \union {16, 17, 18, 19, 20, 22, 23, 26} |->
    CASE w \in 4..7 -> "unwired"
      [] w \in {18, 23} -> "A"  [] w \in {16, 26} -> "D"
      [] w \in {17, 19} -> "d1" [] w \in {20, 22} -> "d2"]

Candidates == [b \in {"left-forward", "left-reverse", "right-forward", "right-reverse"} |->
    CASE b = "left-forward"  -> <<17, 18>>
      [] b = "left-reverse"  -> <<22, 23>>
      [] b = "right-forward" -> <<19, 16>>
      [] b = "right-reverse" -> <<26, 20>>]

ScanFrame == <<"A", "B", "D">>

Pressed == {<<"left-forward", "right-forward">>,
            <<"left-forward", "right-reverse">>,
            <<"left-forward", "left-reverse">>}

Named == {<<<<18, 17>>, <<26, 22>>>>, <<<<23, 19>>>>}

\* The defaults; a harness wire the map leaves out; two buttons on one wire.
Defaults == [b \in {"left-forward", "left-reverse", "right-forward", "right-reverse"} |->
    CASE b = "left-forward" -> 4 [] b = "left-reverse" -> 5
      [] b = "right-forward" -> 6 [] b = "right-reverse" -> 7]

Maps == {[Defaults EXCEPT !["left-forward"] = 22],
         [Defaults EXCEPT !["left-forward"] = 5]}
=============================================================================
