----------------------------- MODULE MCLighting -----------------------------
(* Two by two small chunks, with roofs over their borders.                 *)
EXTENDS Lighting

Map(f) == f @@ [c \in Pos |-> IF c[2] = 0 /\ c[1] > 0 /\ c[3] > 0 THEN "stone" ELSE "air"]
Of(S, k) == [c \in S |-> k]

\* A wall and a roof where the four chunks meet, a lamp under it.
Roof == [blocks |-> Map(Of({<<2, 2, 2>>, <<3, 2, 2>>, <<3, 2, 3>>, <<2, 1, 1>>}, "stone")
                        @@ Of({<<2, 1, 2>>}, "lampOff") @@ Of({<<2, 2, 3>>}, "slab")),
         sky |-> {4}, kinds |-> {"stone", "torch"},
         places |-> {<<2, 1, 2>>, <<3, 1, 2>>, <<3, 2, 2>>},
         blasts |-> {[at |-> <<2, 1, 2>>,
                      cells |-> {<<2, 1, 2>>, <<3, 1, 2>>, <<2, 2, 2>>, <<2, 1, 1>>}]}]
\* Lamps, glass and a torch in the last chunk, its far corner among the places.
Corner == [blocks |-> Map(Of({<<5, 1, 4>>, <<5, 2, 5>>}, "stone")
                          @@ Of({<<4, 1, 5>>}, "lampOn") @@ Of({<<4, 2, 4>>}, "glass")),
           sky |-> {5}, kinds |-> {"glass", "torch", "slab"},
           places |-> {<<5, 1, 5>>, <<4, 1, 5>>, <<3, 1, 4>>},
           blasts |-> {}]
TheLayouts == {Roof, Corner}
=============================================================================
