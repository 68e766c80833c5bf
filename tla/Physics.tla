------------------------------- MODULE Physics -------------------------------
(***************************************************************************)
(* The physics of one player: World::ProcessInput, Update and MovePlayer   *)
(* over game/physics (players do not collide with each other).             *)
(*                                                                         *)
(* Coordinates and velocities are whole numbers and entry times fractions. *)
(* MovePlayer moves along one axis at a time, so velocity times entry time *)
(* is a whole number and nothing is rounded; the rounding of doubles is    *)
(* left out.                                                               *)
(***************************************************************************)
EXTENDS Integers

CONSTANTS
    Tile, GridX, GridY,           \* config tile_, grid_x_, grid_y_
    Solid,                        \* the indices of map_ that are not Empty
    Width, Height,                \* of the player
    StartX, StartY,               \* where CreatePlayer puts it
    Speed, Gravity, JumpForce,    \* 100.0, 9.8 and 400.0, per unit of dt
    Dts                           \* the durations a tick may have

\* SweptAxis takes grid_y as a uint8_t: a taller map is cut.  The unit of length
\* is small enough that boxes which overlap share a point with whole coordinates.
ASSUME PhysicsAssumption ==
    /\ Tile \in 1 .. 2^8 - 1
    /\ GridX \in 1 .. 2^16 - 1
    /\ GridY \in 1 .. 2^8 - 1
    /\ Solid \subseteq 0 .. GridX * GridY - 1
    /\ Width \in 0 .. 2^8 - 1 /\ Height \in 0 .. 2^8 - 1
    /\ Width + Tile > 1 /\ Height + Tile > 1
    /\ StartX \in Nat /\ StartY \in Nat
    /\ Speed \in Nat /\ Gravity \in Nat \ {0} /\ JumpForce \in Nat
    /\ Dts \subseteq Nat \ {0}

VARIABLES
    x, y, vel_x, vel_y, on_ground,   \* Player
    dt,                              \* of the current tick
    phase                            \* "sleep" or "input": where Tick is

vars == <<x, y, vel_x, vel_y, on_ground, dt, phase>>

\* World::AddPlayer makes the player while a tick processes its input; the first
\* tick of all measures a delta of about 0.
Init ==
    /\ x = StartX
    /\ y = StartY
    /\ vel_x = 0
    /\ vel_y = 0
    /\ on_ground = FALSE
    /\ dt \in Dts \cup {0}
    /\ phase = "input"

Box(px, py) == [x |-> px, y |-> py, w |-> Width, h |-> Height]

TileBox(i) == [x |-> (i % GridX) * Tile, y |-> (i \div GridX) * Tile,
               w |-> Tile, h |-> Tile]

Lo(a, b) == IF a < b THEN a ELSE b
Hi(a, b) == IF a < b THEN b ELSE a

-----------------------------------------------------------------------------
(* SweptAABB.  A time is a fraction <<n, d>> with d >= 0; <<-1, 0>> and    *)
(* <<1, 0>> are the infinities.                                            *)

Earlier(s, t) == s[1] * t[2] < t[1] * s[2]

Time(distance, v) == IF v > 0 THEN <<distance, v>> ELSE <<-distance, -v>>

\* Mutant of EntryTime: the distance is measured from the wrong side of box 1.
EntryTimeWrongSide(p1, s1, p2, s2, v) ==
    IF v = 0 THEN <<-1, 0>>
    ELSE Time(IF v > 0 THEN p2 - p1 ELSE (p2 + s2) - p1, v)

\* From p1 .. p1 + s1 to p2 .. p2 + s2 along one axis at speed v.
EntryTime(p1, s1, p2, s2, v) ==
    IF v = 0 THEN <<-1, 0>>
    ELSE Time(IF v > 0 THEN p2 - (p1 + s1) ELSE (p2 + s2) - p1, v)

ExitTime(p1, s1, p2, s2, v) ==
    IF v = 0 THEN <<1, 0>>
    ELSE Time(IF v > 0 THEN (p2 + s2) - p1 ELSE p2 - (p1 + s1), v)

Apart(p1, s1, p2, s2) == p1 + s1 <= p2 \/ p1 >= p2 + s2

NoHit == [entry_time |-> <<1, 1>>, hit |-> FALSE]

\* Mutant of SweptAABB: no test of the axis along which nothing moves.
SweptAABBOneAxis(a, b, vx, vy) ==
    LET entry == IF vx = 0 THEN EntryTime(a.y, a.h, b.y, b.h, vy)
                           ELSE EntryTime(a.x, a.w, b.x, b.w, vx)
    IN  IF (vx = 0 /\ vy = 0) \/ Earlier(entry, <<0, 1>>)
           \/ Earlier(<<1, 1>>, entry)
        THEN NoHit ELSE [entry_time |-> entry, hit |-> TRUE]

\* The normals are left out: nobody reads them.
SweptAABB(a, b, vx, vy) ==
    LET xEntry == EntryTime(a.x, a.w, b.x, b.w, vx)
        yEntry == EntryTime(a.y, a.h, b.y, b.h, vy)
        xExit  == ExitTime(a.x, a.w, b.x, b.w, vx)
        yExit  == ExitTime(a.y, a.h, b.y, b.h, vy)
        entry  == IF Earlier(xEntry, yEntry) THEN yEntry ELSE xEntry
        exit   == IF Earlier(xExit, yExit) THEN xExit ELSE yExit
        misses == \/ vx = 0 /\ vy = 0
                  \/ vx = 0 /\ Apart(a.x, a.w, b.x, b.w)
                  \/ vy = 0 /\ Apart(a.y, a.h, b.y, b.h)
                  \/ Earlier(exit, entry)
                  \/ Earlier(entry, <<0, 1>>)
                  \/ Earlier(<<1, 1>>, entry)
    IN  IF misses THEN NoHit ELSE [entry_time |-> entry, hit |-> TRUE]

-----------------------------------------------------------------------------
(* Collision.                                                              *)

\* Stands for a size_t above every index of the map.
SizeMax == 2147483647

\* A double converted to size_t.  For a negative one that is undefined: x86-64
\* wraps around, AArch64 saturates.
ToSizeT(v) == IF v < 0 THEN {0, SizeMax} ELSE {v}

\* Mutant of FindCollisionIndices: the height of the box is forgotten.
FindIndicesNoHeight(b, vx, vy) ==
    {{ty * GridX + tx :
        tx \in Lo(b.x, b.x + vx) \div Tile .. Hi(b.x + b.w, b.x + b.w + vx) \div Tile,
        ty \in Lo(b.y, b.y + vy) \div Tile .. Hi(b.y, b.y + vy) \div Tile}}

\* The sets of indices the bounding box of the move may give.
FindCollisionIndices(b, vx, vy) ==
    IF vx = 0 /\ vy = 0 THEN {{}}
    ELSE LET bbLeft   == Lo(b.x, b.x + vx) \div Tile
             bbTop    == Lo(b.y, b.y + vy) \div Tile
             bbRight  == Hi(b.x + b.w, b.x + b.w + vx) \div Tile
             bbBottom == Hi(b.y + b.h, b.y + b.h + vy) \div Tile
             Tiles(l, t, r, m) ==
                {ty * GridX + tx : tx \in l .. Lo(GridX - 1, r),
                                   ty \in t .. Lo(GridY - 1, m)}
         IN  {Tiles(l, t, r, m) : l \in ToSizeT(bbLeft), t \in ToSizeT(bbTop),
                                  r \in ToSizeT(bbRight),
                                  m \in ToSizeT(bbBottom)}

\* The earliest hit before time 1 with a solid tile of `indices`, if any.
EarliestHit(b, indices, vx, vy) ==
    LET hits == {SweptAABB(b, TileBox(i), vx, vy) : i \in indices \cap Solid}
        early == {s \in hits : Earlier(s.entry_time, <<1, 1>>)}
    IN  IF early = {} THEN NoHit
        ELSE CHOOSE s \in early :
                \A r \in early : ~Earlier(r.entry_time, s.entry_time)

\* What SweptAxis may return.
SweptAxis(b, vx, vy) ==
    {EarliestHit(b, indices, vx, vy) :
        indices \in FindCollisionIndices(b, vx, vy)}

Scaled(v, swept) == (v * swept.entry_time[1]) \div swept.entry_time[2]

-----------------------------------------------------------------------------
(* World.                                                                  *)

\* Tick stops the player's walk.
BeginTick(d) ==
    /\ phase = "sleep"
    /\ phase' = "input"
    /\ dt' = d
    /\ vel_x' = 0
    /\ UNCHANGED <<x, y, vel_y, on_ground>>

MoveLeft ==
    /\ phase = "input"
    /\ vel_x' = -(Speed * dt)
    /\ UNCHANGED <<x, y, vel_y, on_ground, dt, phase>>

MoveRight ==
    /\ phase = "input"
    /\ vel_x' = Speed * dt
    /\ UNCHANGED <<x, y, vel_y, on_ground, dt, phase>>

Jump ==
    /\ phase = "input"
    /\ on_ground
    /\ vel_y' = -(JumpForce * dt)
    /\ on_ground' = FALSE
    /\ UNCHANGED <<x, y, vel_x, dt, phase>>

\* Mutant of Update: a hit is a landing only when the player still moved down.
UpdateStrict ==
    /\ phase = "input"
    /\ phase' = "sleep"
    /\ \E vy \in {vel_y + Gravity * dt} :
       \E xSwept \in SweptAxis(Box(x, y), vel_x, 0) :
       \E dx \in {Scaled(vel_x, xSwept)} :
       \E ySwept \in SweptAxis(Box(x + dx, y), 0, vy) :
       \E dy \in {Scaled(vy, ySwept)} :
           /\ x' = x + dx
           /\ y' = y + dy
           /\ on_ground' = IF vy = 0 THEN on_ground ELSE ySwept.hit /\ dy > 0
           /\ vel_x' = IF ySwept.hit THEN dx
                       ELSE IF xSwept.hit THEN 0 ELSE vel_x
           /\ vel_y' = IF ySwept.hit THEN 0 ELSE vy
    /\ UNCHANGED dt

\* Mutant of Update: a hit moves the player less and leaves its velocity alone.
UpdateKeepsVelocity ==
    /\ phase = "input"
    /\ phase' = "sleep"
    /\ \E vy \in {vel_y + Gravity * dt} :
       \E xSwept \in SweptAxis(Box(x, y), vel_x, 0) :
       \E dx \in {Scaled(vel_x, xSwept)} :
       \E ySwept \in SweptAxis(Box(x + dx, y), 0, vy) :
       \E dy \in {Scaled(vy, ySwept)} :
           /\ x' = x + dx
           /\ y' = y + dy
           /\ on_ground' = IF vy = 0 THEN on_ground ELSE ySwept.hit /\ dy >= 0
           /\ vel_x' = vel_x
           /\ vel_y' = vy
    /\ UNCHANGED dt

\* Update: gravity, then MovePlayer along x, then along y from there.
Update ==
    /\ phase = "input"
    /\ phase' = "sleep"
    /\ \E vy \in {vel_y + Gravity * dt} :
       \E xSwept \in SweptAxis(Box(x, y), vel_x, 0) :
       \E dx \in {Scaled(vel_x, xSwept)} :
       \E ySwept \in SweptAxis(Box(x + dx, y), 0, vy) :
       \E dy \in {Scaled(vy, ySwept)} :
           /\ x' = x + dx
           /\ y' = y + dy
           /\ on_ground' = IF vy = 0 THEN on_ground ELSE ySwept.hit /\ dy >= 0
           /\ vel_x' = IF ySwept.hit THEN dx
                       ELSE IF xSwept.hit THEN 0 ELSE vel_x
           /\ vel_y' = IF ySwept.hit THEN 0 ELSE vy
    /\ UNCHANGED dt

Next ==
    \/ \E d \in Dts : BeginTick(d)
    \/ MoveLeft \/ MoveRight \/ Jump
    \/ Update

Spec == Init /\ [][Next]_vars

\* GameLoop ticks for ever, and a tick handles finitely many inputs.
FairSpec ==
    /\ Spec
    /\ WF_vars(\E d \in Dts : BeginTick(d))
    /\ WF_vars(Update)

-----------------------------------------------------------------------------
(* Properties.                                                             *)

\* Every variable has its type.
TypeOK ==
    /\ x \in Int /\ y \in Int
    /\ vel_x \in Int /\ vel_y \in Int
    /\ on_ground \in BOOLEAN
    /\ dt \in Dts \cup {0}
    /\ phase \in {"sleep", "input"}

Overlaps(a, b) == ~Apart(a.x, a.w, b.x, b.w) /\ ~Apart(a.y, a.h, b.y, b.h)

Free(b) == \A i \in Solid : ~Overlaps(b, TileBox(i))

\* The map has a solid border and the player, which starts inside it, moves up,
\* left or right by no more than a tile in one tick: config/*.json (tiles of 32,
\* 60 ticks per second, Speed 100 and JumpForce 400 per second).
MapHoldsPlayer ==
    /\ Width > 0 /\ Height > 0
    /\ \A i \in 0 .. GridX * GridY - 1 :
          i % GridX \in {0, GridX - 1} \/ i \div GridX \in {0, GridY - 1} =>
              i \in Solid
    /\ StartX >= Tile /\ StartX + Width <= (GridX - 1) * Tile
    /\ StartY >= Tile /\ StartY + Height <= (GridY - 1) * Tile
    /\ Free(Box(StartX, StartY))
    /\ \A d \in Dts : Speed * d <= Tile /\ (JumpForce - Gravity) * d <= Tile

\* No step goes through a wall, however fast the fall or long the tick: the
\* area the player sweeps along x and then along y is free of solid tiles
\* (world.cpp:170-211, collision.cpp:70-94).  This holds while no move reaches
\* above or left of the map, so when MapHoldsPlayer.
NeverThroughWalls ==
    [][/\ Free([x |-> Lo(x, x'), y |-> y, w |-> Width + Hi(x, x') - Lo(x, x'),
                h |-> Height])
       /\ Free([x |-> x', y |-> Lo(y, y'), w |-> Width,
                h |-> Height + Hi(y, y') - Lo(y, y')])]_vars

\* A player that moves less than its velocity has come up against a solid tile
\* on that side: nothing else stops it (swept_math.cpp:96, collision.cpp:31).
StopsOnlyAtWalls ==
    [][Update =>
        LET vy == vel_y + Gravity * dt
            Unit(v) == IF v > 0 THEN 1 ELSE -1
        IN  /\ x' # x + vel_x => ~Free(Box(x' + Unit(vel_x), y))
            /\ y' # y + vy => ~Free(Box(x', y' + Unit(vy)))]_vars

\* Box b moved k steps of the unit vector u.
Moved(b, k, u) == [b EXCEPT !.x = @ + k * u[1], !.y = @ + k * u[2]]

\* Reference for SweptAABB along one axis: the number of unit steps box a takes
\* until the next one would make it overlap b, if there is such a number.
FirstContact(a, b, u, limit) ==
    {k \in 0 .. limit :
        ~Overlaps(Moved(a, k, u), b) /\ Overlaps(Moved(a, k + 1, u), b)}

\* Wherever the player is between two ticks, SweptAABB agrees with the reference
\* for every solid tile and every move along one axis of up to two tiles: it hits
\* exactly when there is a contact within the move, at that time
\* (swept_math.cpp:9-115).
SweptIsFirstContact ==
    phase = "sleep" =>
        \A i \in Solid, u \in {<<1, 0>>, <<-1, 0>>, <<0, 1>>, <<0, -1>>} :
        \A speed \in 1 .. 2 * Tile :
            LET b == Box(x, y)
                s == SweptAABB(b, TileBox(i), speed * u[1], speed * u[2])
                first == FirstContact(b, TileBox(i), u, speed)
            IN  first = IF s.hit THEN {s.entry_time[1]} ELSE {}

\* Gravity wins: a player that stops jumping stands on a solid tile again and
\* again, however it walks, and may jump there (world.cpp:153, 200-204).
Lands == []<><<Jump>>_vars \/ []<>(on_ground /\ ~Free(Box(x, y + 1)))

\* Who stands gathers no speed, however long it stands, and no fall is faster than
\* the way from the top of the map: whoever walks off a ledge starts to fall from
\* rest (world.cpp:199-209).  When MapHoldsPlayer.
NoSpeedGathers ==
    /\ on_ground => vel_y = 0
    /\ vel_y <= y

\* collision.cpp:78 "Clamp bounding box": inside a map with a solid border the
\* player stays inside the map.
StaysInMap ==
    /\ x >= 0 /\ x + Width <= GridX * Tile
    /\ y >= 0 /\ y + Height <= GridY * Tile

\* world.cpp:202-204 sets on_ground for "HIT GROUND": whoever is on the ground
\* has a solid tile under its feet.
OnGroundIsSupported == on_ground => ~Free(Box(x, y + 1))
=============================================================================
