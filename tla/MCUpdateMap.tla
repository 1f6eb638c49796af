---------------------------- MODULE MCUpdateMap ----------------------------
(* Small worlds for UpdateMap: three by three chunks of two by two cells. *)
EXTENDS UpdateMap, TLC

Empty == [c \in Pos |-> "air"]
NoData == [c \in Pos |-> Zero]
\* A world with the given blocks and data in the middle of the map.
World(bs, data, moves) ==
    [blocks |-> bs @@ Empty, data |-> data @@ NoData, player |-> <<1, 1>>, distance |-> 2, watched |-> <<1, 1>>,
     uses |-> moves, breakable |-> {}, placeable |-> {}, settles |-> TRUE, calm |-> TRUE]
\* A row of cells at height y, from x1 to x2.
Row(x1, x2, y) == {<<x, y, 2>> : x \in x1..x2}
Of(cells, k) == [c \in cells |-> k]
At(x, y) == <<x, y, 2>>

\* A lever on a block, which stands at (2, 1).
Lever == At(1, 1) :> "lever" @@ At(2, 1) :> "stone"
LeverData == At(1, 1) :> Byte(FALSE, 4)

WireWorld == [World(Lever @@ Of(Row(3, 5, 1), "wire") @@ Of(Row(3, 4, 0), "stone")
                    @@ At(5, 0) :> "lampOff", LeverData, 2)
              EXCEPT !.breakable = {At(4, 1)}]
DoorWorld == World(Lever @@ At(3, 1) :> "doorBottom" @@ At(3, 2) :> "doorTop",
                   LeverData @@ At(3, 1) :> Byte(FALSE, 3) @@ At(3, 2) :> Byte(FALSE, 3), 3)
TorchWorld == World(Lever @@ At(2, 2) :> "torchOn" @@ At(2, 3) :> "stone" @@ At(3, 3) :> "lampOff",
                    LeverData @@ At(2, 2) :> Byte(TRUE, 0), 3)
RepeaterWorld == World(Lever @@ At(3, 1) :> "repeaterOff" @@ At(4, 1) :> "stone"
                       @@ At(5, 1) :> "lampOff", LeverData @@ At(3, 1) :> Byte(FALSE, 2), 3)
TntWorld == [World(Lever @@ At(2, 0) :> "tnt" @@ At(3, 1) :> "stone", LeverData, 1)
             EXCEPT !.settles = FALSE]
\* A torch that goes out just before it is blown up, and doors and wheat within
\* and out of reach of the tnt.
BlastWorld == [World(At(1, 2) :> "lever" @@ At(2, 2) :> "stone" @@ At(3, 2) :> "tnt"
                     @@ At(2, 3) :> "torchOn"
                     @@ At(3, 0) :> "doorBottom" @@ At(3, 1) :> "doorTop"
                     @@ At(5, 0) :> "doorBottom" @@ At(5, 1) :> "doorTop"
                     @@ At(4, 0) :> "farmland" @@ At(4, 1) :> "wheat"
                     @@ At(1, 0) :> "wetFarmland" @@ At(1, 1) :> "ripeWheat",
                     At(1, 2) :> Byte(FALSE, 4) @@ At(2, 3) :> Byte(TRUE, 0), 1)
               EXCEPT !.settles = FALSE]
\* A fluid that dries above two doors.
DripWorld == World(At(2, 0) :> "doorBottom" @@ At(2, 1) :> "doorTop"
                   @@ At(3, 0) :> "doorBottom" @@ At(3, 1) :> "doorTop"
                   @@ Of({At(2, 2), At(3, 2)}, "water"),
                   Of({At(3, 0), At(3, 1)}, Byte(FALSE, 1)) @@ Of({At(2, 2), At(3, 2)}, Byte(FALSE, 7)), 0)

Floor == Of(Row(1, 5, 0), "stone")
WaterWorld == [World(Floor @@ At(3, 1) :> "water", At(3, 1) :> Byte(TRUE, 1), 1)
               EXCEPT !.placeable = {At(3, 1)}]
LavaWorld == World(Floor @@ At(1, 1) :> "lava" @@ At(5, 1) :> "water",
                   At(1, 1) :> Byte(TRUE, 1) @@ At(5, 1) :> Byte(TRUE, 1), 0)
FallWorld == [World(Floor @@ At(3, 3) :> "water" @@ At(3, 1) :> "lava" @@ At(3, 2) :> "stone",
                    At(3, 3) :> Byte(TRUE, 1) @@ At(3, 1) :> Byte(TRUE, 1), 1)
              EXCEPT !.breakable = {At(3, 2)}]

CoolWorld == World(At(3, 0) :> "water" @@ At(3, 1) :> "lava", At(3, 1) :> Byte(FALSE, 1), 0)

FarmWorld == [World(At(2, 0) :> "farmland" @@ At(2, 1) :> "wheat" @@ At(3, 0) :> "water",
                    At(3, 0) :> Byte(TRUE, 1), 1)
              EXCEPT !.breakable = {At(2, 0)}]
DryWorld == World(At(2, 0) :> "farmland" @@ At(3, 0) :> "wetFarmland" @@ At(3, 1) :> "wheat", NoData, 0)
GrassWorld == [World(At(1, 0) :> "grass" @@ At(2, 0) :> "dirt" @@ At(2, 1) :> "flower"
                     @@ At(3, 0) :> "grass" @@ At(3, 1) :> "flower", NoData, 1)
               EXCEPT !.placeable = {At(1, 1)}]
TreeWorld == [World(At(2, 0) :> "sapling" @@ At(3, 2) :> "leaves", NoData, 0)
              EXCEPT !.calm = FALSE]
ButtonWorld == World(At(1, 1) :> "button" @@ At(2, 1) :> "stone", LeverData, 1)
EdgeWorld(p, d, c) ==
    [World(<<>>, <<>>, 0) EXCEPT !.player = p, !.distance = d, !.watched = c]

TheLayouts == {WireWorld, DoorWorld, TorchWorld, RepeaterWorld, TntWorld, BlastWorld,
               DripWorld, WaterWorld,
               LavaWorld, FallWorld, CoolWorld, FarmWorld,
               DryWorld, GrassWorld, TreeWorld, ButtonWorld}
              \cup {EdgeWorld(p, d, <<1, 1>>) : p \in {<<0, 0>>, <<1, 2>>, <<2, 1>>}, d \in 0..2}
              \cup {EdgeWorld(<<0, 0>>, 3, <<1, 1>>)}
              \cup {EdgeWorld(<<1, 1>>, 2, c) : c \in Chunk}
TheButton == {ButtonWorld}
=============================================================================
