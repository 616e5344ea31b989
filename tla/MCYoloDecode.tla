---------------------------- MODULE MCYoloDecode ----------------------------
(* Two branches of different grids, neither square, and quantizations.  Up *)
(* to MaxLoud cells are not quiet: on both sides of the byte thresholds    *)
(* (117 and 160 here), of the product's, and with ties of classes.         *)
EXTENDS YoloDecode, FiniteSetsExt

CONSTANT MaxLoud        \* bound: cells that may hold an object

MCStrides == <<16, 8>>

MCZeroPoint == <<5, 10>>
MCScaleNum == <<4, 3>>

MCAnchors == << << [w |-> 10, h |-> 13], [w |-> 62, h |-> 45] >>,
                << [w |-> 16, h |-> 30], [w |-> 33, h |-> 23] >> >>

Bytes(t) == [p \in 0 .. PropSize - 1 |-> t[p + 1]]

MCQuiet == Bytes(<<4, 4, 4, 4, 4, 4, 4, 4>>)

MCLoud == { Bytes(<<4, 255, 100, 255, 116, 255, 4, 255>>),
            Bytes(<<130, 130, 4, 60, 118, 254, 255, 255>>),
            Bytes(<<255, 4, 255, 4, 117, 100, 255, 99>>),
            Bytes(<<255, 4, 255, 4, 118, 254, 253, 254>>),
            Bytes(<<0, 30, 70, 90, 160, 240, 240, 241>>),
            Bytes(<<255, 255, 255, 255, 255, 255, 255, 255>>) }

MCLoudCells == UNION {kSubset(n, Cell) : n \in 0 .. MaxLoud}

=============================================================================
