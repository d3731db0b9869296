------------------------------ MODULE MCFigures ------------------------------
EXTENDS Figures
MCConfigs == [strategy : Strategies, size : {Null, 0, 1, 3, 25}, lock : {Null, 0, 2}]
MCContexts == [direction : {"LONG", "SHORT"}, entry : {8}, stop : {5, 8, 11}, mark : 4..12,
               step : {Null, 6, 8, 10}]
MCPositions ==
    {p \in [direction : {"LONG", "SHORT"}, trigger : {9}, fill : {Null, 10, 12}, filled : 0..3,
            exited : 0..3, proceeds : {0, 11, 24, 30}] :
       IsPosition(p) /\ (p.exited > 0 => p.proceeds > 0)}
MCMarks == {Null, 8, 13}
MCPriced == {p \in MCPositions : p.exited # 2 /\ p.proceeds # 24}
MCBooks == UNION {[1..n -> MCPriced] : n \in 0..2}
=============================================================================
