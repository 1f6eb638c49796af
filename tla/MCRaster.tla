------------------------------ MODULE MCRaster ------------------------------
(* Raster on a screen of 6 by 4 pixels.  The frames hold up to three faces  *)
(* of the chunks out of a list with one of every kind (in any order), a mob *)
(* and the cracks of a block; the quads of FaceWhole have their corners in  *)
(* and around the screen.                                                   *)
EXTENDS Raster

Corners == {<<x, y>> : x \in {-3, 2, 5, 8}, y \in {-1, 1, 3, 6}}
Turn(a, b, c) == (b[1] - a[1]) * (c[2] - b[2]) - (b[2] - a[2]) * (c[1] - b[1])
Convex(a, b, c, d) ==
    LET turns == {Turn(a, b, c), Turn(b, c, d), Turn(c, d, a), Turn(d, a, b)}
    IN  (\A n \in turns : n > 0) \/ (\A n \in turns : n < 0)
MCQuads == {[v |-> <<q[1], q[2], q[3], q[4]>>] :
            q \in {q \in Corners \X Corners \X Corners \X Corners :
                   /\ Turn(q[1], q[2], q[3]) # 0 /\ Convex(q[1], q[2], q[3], q[4])}}

Both(k) == [textured \in BOOLEAN |-> k]
Face(id, v, z, k, light, front) ==
    [id |-> id, v |-> v, z |-> z, kind |-> k, light |-> light, front |-> front,
     holes |-> {1, 4}, clipped |-> FALSE, mob |-> FALSE, hit |-> FALSE]

Wall   == Face("wall",   <<<<-1, 1>>, <<4, 0>>, <<5, 3>>, <<0, 5>>>>, 5, Both("opaque"), 16, TRUE)
Ground == Face("ground", <<<<1, 1>>, <<7, 2>>, <<5, 5>>, <<-2, 4>>>>, 7, Both("opaque"), 0, TRUE)
Same   == Face("same",   <<<<2, -1>>, <<5, 1>>, <<4, 4>>, <<1, 2>>>>, 5, Both("opaque"), 9, TRUE)
Back   == Face("back",   <<<<5, 0>>, <<0, 0>>, <<1, 3>>, <<6, 4>>>>, 2, Both("opaque"), 16, FALSE)
Leaves == Face("leaves", <<<<0, 0>>, <<5, 1>>, <<6, 3>>, <<1, 4>>>>, 3,
               [textured \in BOOLEAN |-> IF textured THEN "holed" ELSE "opaque"], 12, TRUE)
Glass  == Face("glass",  <<<<1, 0>>, <<6, 0>>, <<6, 3>>, <<2, 2>>>>, 6, Both("holed"), 16, FALSE)
Pool   == Face("pool",   <<<<-1, 2>>, <<3, 0>>, <<7, 2>>, <<2, 5>>>>, 4, Both("water"), 16, TRUE)
Stream == Face("stream", <<<<1, 1>>, <<5, -1>>, <<5, 3>>, <<1, 4>>>>, 6, Both("water"), 7, TRUE)
Cut    == [Wall EXCEPT !.id = "cut", !.z = 1, !.clipped = TRUE]
Pig    == [Face("pig", <<<<1, 1>>, <<4, 1>>, <<4, 3>>, <<1, 3>>>>, 4, Both("opaque"), 11, TRUE)
           EXCEPT !.mob = TRUE]
HitPig == [Pig EXCEPT !.id = "hitpig", !.hit = TRUE, !.z = 6]
Cracks == [Wall EXCEPT !.id = "cracks", !.holes = {2, 3}]

List1 == {Wall, Ground, Same, Back, Leaves, Glass, Pool, Stream, Cut}
Two   == {<<f, g>> : f, g \in List1}
Three == {<<f, g, h>> : f \in {Pool, Wall}, g \in {Leaves, Ground}, h \in {Same, Stream}}
Others == {<<<<>>, <<>>>>, <<<<Pig>>, <<>>>>, <<<<HitPig>>, <<>>>>, <<<<>>, <<Cracks>>>>}
MCScenes == {[chunks |-> c, entities |-> o[1], cracks |-> o[2]] :
             c \in {c \in Two : c[1].id # c[2].id}, o \in Others}
            \cup {[chunks |-> c, entities |-> <<Pig>>, cracks |-> <<Cracks>>] : c \in Three}
=============================================================================
