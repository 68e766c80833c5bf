---------------------------- MODULE PhysicsProofs ----------------------------
(***************************************************************************)
(* Proofs about Physics, for every map, player, speed and duration of a    *)
(* tick: SweptAABB finds the first contact, a player is stopped by walls   *)
(* only, and inside a map with a solid border no wall is ever crossed.     *)
(***************************************************************************)
EXTENDS Physics, NumberTheorems

-----------------------------------------------------------------------------
(* SweptAABB along one axis.                                               *)

Boxes == [x : Int, y : Int, w : Nat, h : Nat]

Abs(v) == IF v > 0 THEN v ELSE -v

\* The free space between p1 .. p1 + s1 and p2 .. p2 + s2 in the direction of v.
Gap(p1, s1, p2, s2, v) == IF v > 0 THEN p2 - (p1 + s1) ELSE p1 - (p2 + s2)

Hit(gap, v) == [entry_time |-> <<gap, Abs(v)>>, hit |-> TRUE]

\* The constants have their types.
LEMMA ConstantTypes ==
    /\ Tile \in Nat \ {0} /\ GridX \in Nat \ {0} /\ GridY \in Nat \ {0}
    /\ Width \in Nat /\ Height \in Nat
    /\ Width + Tile > 1 /\ Height + Tile > 1
    /\ \A i \in Solid : i \in Int /\ 0 <= i /\ i < GridX * GridY
<1> DEFINE n == GridX * GridY
<1>1. /\ Tile \in 1 .. 2^8 - 1 /\ GridX \in 1 .. 2^16 - 1 /\ GridY \in 1 .. 2^8 - 1
      /\ Width \in 0 .. 2^8 - 1 /\ Height \in 0 .. 2^8 - 1
      /\ Width + Tile > 1 /\ Height + Tile > 1
      /\ Solid \subseteq 0 .. n - 1
  BY PhysicsAssumption
<1>2. n \in Int
  BY <1>1
<1> HIDE DEF n
<1>3. \A i \in Solid : i \in Int /\ 0 <= i /\ i < n
  BY <1>1, <1>2
<1> QED  BY <1>1, <1>3 DEF n

\* The tiles and the player are boxes.
LEMMA BoxTypes ==
    /\ \A px, py \in Int : Box(px, py) \in Boxes
    /\ \A i \in Solid : TileBox(i) \in Boxes
<1>1. \A px, py \in Int : Box(px, py) \in Boxes
  BY PhysicsAssumption DEF Box, Boxes
<1>2. ASSUME NEW i \in Solid
      PROVE  TileBox(i) \in Boxes
  <2>1. i \in Int /\ GridX \in Nat \ {0} /\ Tile \in Nat
    BY ConstantTypes
  <2>2. i % GridX \in Int /\ i \div GridX \in Int
    BY <2>1
  <2>3. (i % GridX) * Tile \in Int /\ (i \div GridX) * Tile \in Int
    BY <2>1, <2>2
  <2> QED  BY <2>1, <2>3 DEF TileBox, Boxes
<1> QED  BY <1>1, <1>2

\* Without a move nothing is hit.
LEMMA SweptNothing ==
    ASSUME NEW a, NEW b
    PROVE  SweptAABB(a, b, 0, 0) = NoHit
BY DEF SweptAABB

\* Along x, SweptAABB hits exactly the boxes that are level with box a and that
\* the move reaches, and the entry time is the gap.
LEMMA SweptX ==
    ASSUME NEW a \in Boxes, NEW b \in Boxes, NEW v \in Int, v # 0
    PROVE  SweptAABB(a, b, v, 0) =
              IF /\ ~Apart(a.y, a.h, b.y, b.h)
                 /\ Gap(a.x, a.w, b.x, b.w, v) \in 0 .. Abs(v)
              THEN Hit(Gap(a.x, a.w, b.x, b.w, v), v) ELSE NoHit
<1> DEFINE xEntry == EntryTime(a.x, a.w, b.x, b.w, v)
           yEntry == EntryTime(a.y, a.h, b.y, b.h, 0)
           xExit  == ExitTime(a.x, a.w, b.x, b.w, v)
           yExit  == ExitTime(a.y, a.h, b.y, b.h, 0)
           entry  == IF Earlier(xEntry, yEntry) THEN yEntry ELSE xEntry
           exit   == IF Earlier(xExit, yExit) THEN xExit ELSE yExit
           gap    == Gap(a.x, a.w, b.x, b.w, v)
           d      == Abs(v)
<1>1. /\ a.x \in Int /\ a.w \in Nat /\ b.x \in Int /\ b.w \in Nat
      /\ a.y \in Int /\ a.h \in Nat /\ b.y \in Int /\ b.h \in Nat
  BY DEF Boxes
<1>2. d \in Nat \ {0} /\ gap \in Int
  BY <1>1 DEF Abs, Gap
<1>3. /\ xEntry = <<gap, d>> /\ yEntry = <<-1, 0>>
      /\ xExit = <<gap + a.w + b.w, d>> /\ yExit = <<1, 0>>
  BY <1>1 DEF EntryTime, ExitTime, Time, Gap, Abs
<1> HIDE DEF xEntry, yEntry, xExit, yExit, gap, d
<1>4. entry = <<gap, d>> /\ exit = <<gap + a.w + b.w, d>>
  BY <1>1, <1>2, <1>3 DEF Earlier
<1> HIDE DEF entry, exit
<1>5. /\ ~Earlier(exit, entry)
      /\ Earlier(entry, <<0, 1>>) <=> gap < 0
      /\ Earlier(<<1, 1>>, entry) <=> d < gap
  <2>1. ~((gap + a.w + b.w) * d < gap * d)
    BY <1>1, <1>2, MulLess
  <2> QED  BY <2>1, <1>1, <1>2, <1>4 DEF Earlier
<1>6. SweptAABB(a, b, v, 0) =
         IF \/ Apart(a.y, a.h, b.y, b.h)
            \/ Earlier(exit, entry)
            \/ Earlier(entry, <<0, 1>>)
            \/ Earlier(<<1, 1>>, entry)
         THEN NoHit ELSE [entry_time |-> entry, hit |-> TRUE]
  BY DEF SweptAABB, entry, exit, xEntry, yEntry, xExit, yExit
<1>7. gap \in 0 .. d <=> ~(gap < 0) /\ ~(d < gap)
  BY <1>2
<1>8. SweptAABB(a, b, v, 0) =
         IF ~Apart(a.y, a.h, b.y, b.h) /\ gap \in 0 .. d
         THEN [entry_time |-> <<gap, d>>, hit |-> TRUE] ELSE NoHit
  BY <1>4, <1>5, <1>6, <1>7
<1> QED  BY <1>8 DEF Hit, gap, d

\* Along y, SweptAABB hits exactly the boxes that are above or below box a and that
\* the move reaches, and the entry time is the gap.
LEMMA SweptY ==
    ASSUME NEW a \in Boxes, NEW b \in Boxes, NEW v \in Int, v # 0
    PROVE  SweptAABB(a, b, 0, v) =
              IF /\ ~Apart(a.x, a.w, b.x, b.w)
                 /\ Gap(a.y, a.h, b.y, b.h, v) \in 0 .. Abs(v)
              THEN Hit(Gap(a.y, a.h, b.y, b.h, v), v) ELSE NoHit
<1> DEFINE yEntry == EntryTime(a.y, a.h, b.y, b.h, v)
           xEntry == EntryTime(a.x, a.w, b.x, b.w, 0)
           yExit  == ExitTime(a.y, a.h, b.y, b.h, v)
           xExit  == ExitTime(a.x, a.w, b.x, b.w, 0)
           entry  == IF Earlier(xEntry, yEntry) THEN yEntry ELSE xEntry
           exit   == IF Earlier(xExit, yExit) THEN xExit ELSE yExit
           gap    == Gap(a.y, a.h, b.y, b.h, v)
           d      == Abs(v)
<1>1. /\ a.y \in Int /\ a.h \in Nat /\ b.y \in Int /\ b.h \in Nat
      /\ a.x \in Int /\ a.w \in Nat /\ b.x \in Int /\ b.w \in Nat
  BY DEF Boxes
<1>2. d \in Nat \ {0} /\ gap \in Int
  BY <1>1 DEF Abs, Gap
<1>3. /\ yEntry = <<gap, d>> /\ xEntry = <<-1, 0>>
      /\ yExit = <<gap + a.h + b.h, d>> /\ xExit = <<1, 0>>
  BY <1>1 DEF EntryTime, ExitTime, Time, Gap, Abs
<1> HIDE DEF yEntry, xEntry, yExit, xExit, gap, d
<1>4. entry = <<gap, d>> /\ exit = <<gap + a.h + b.h, d>>
  BY <1>1, <1>2, <1>3 DEF Earlier
<1> HIDE DEF entry, exit
<1>5. /\ ~Earlier(exit, entry)
      /\ Earlier(entry, <<0, 1>>) <=> gap < 0
      /\ Earlier(<<1, 1>>, entry) <=> d < gap
  <2>1. ~((gap + a.h + b.h) * d < gap * d)
    BY <1>1, <1>2, MulLess
  <2> QED  BY <2>1, <1>1, <1>2, <1>4 DEF Earlier
<1>6. SweptAABB(a, b, 0, v) =
         IF \/ Apart(a.x, a.w, b.x, b.w)
            \/ Earlier(exit, entry)
            \/ Earlier(entry, <<0, 1>>)
            \/ Earlier(<<1, 1>>, entry)
         THEN NoHit ELSE [entry_time |-> entry, hit |-> TRUE]
  BY DEF SweptAABB, entry, exit, yEntry, xEntry, yExit, xExit
<1>7. gap \in 0 .. d <=> ~(gap < 0) /\ ~(d < gap)
  BY <1>2
<1>8. SweptAABB(a, b, 0, v) =
         IF ~Apart(a.x, a.w, b.x, b.w) /\ gap \in 0 .. d
         THEN [entry_time |-> <<gap, d>>, hit |-> TRUE] ELSE NoHit
  BY <1>4, <1>5, <1>6, <1>7
<1> QED  BY <1>8 DEF Hit, gap, d

\* Along the move SweptAABB hits the tiles `ahead` whose gap is at most d.
HitsAhead(b, vx, vy, d, ahead, gap) ==
    \A i \in Solid : SweptAABB(b, TileBox(i), vx, vy) =
        IF i \in ahead /\ gap[i] \in 0 .. d
        THEN [entry_time |-> <<gap[i], d>>, hit |-> TRUE] ELSE NoHit

\* s is a hit with the nearest of these tiles, if one is nearer than d.
Nearest(s, indices, d, ahead, gap) ==
    \/ /\ s = NoHit
       /\ \A j \in indices \cap Solid : j \in ahead => ~(gap[j] \in 0 .. d - 1)
    \/ \E i \in indices \cap Solid :
          /\ i \in ahead /\ gap[i] \in 0 .. d - 1
          /\ s = [entry_time |-> <<gap[i], d>>, hit |-> TRUE]
          /\ \A j \in indices \cap Solid :
                j \in ahead /\ 0 <= gap[j] => gap[i] <= gap[j]

\* EarliestHit takes the nearest of the tiles that are hit.
LEMMA EarliestFacts ==
    ASSUME NEW b, NEW indices, NEW vx, NEW vy, NEW d \in Nat \ {0},
           NEW ahead, NEW gap \in [Solid -> Int],
           HitsAhead(b, vx, vy, d, ahead, gap)
    PROVE  Nearest(EarliestHit(b, indices, vx, vy), indices, d, ahead, gap)
<1> USE DEF HitsAhead, Nearest
<1> DEFINE near == {i \in indices \cap Solid : i \in ahead /\ gap[i] \in 0 .. d - 1}
           H(n) == [entry_time |-> <<n, d>>, hit |-> TRUE]
           hits == {SweptAABB(b, TileBox(i), vx, vy) : i \in indices \cap Solid}
           early == {s \in hits : Earlier(s.entry_time, <<1, 1>>)}
           best == CHOOSE s \in early :
                      \A r \in early : ~Earlier(r.entry_time, s.entry_time)
<1>1. EarliestHit(b, indices, vx, vy) = IF early = {} THEN NoHit ELSE best
  BY DEF EarliestHit
<1>2. /\ ~Earlier(NoHit.entry_time, <<1, 1>>)
      /\ \A n \in Int : Earlier(H(n).entry_time, <<1, 1>>) <=> n < d
  BY DEF Earlier, NoHit
<1>3. early = {H(gap[i]) : i \in near}
  <2>1. ASSUME NEW i \in near
        PROVE  H(gap[i]) \in early
    <3>1. gap[i] \in 0 .. d /\ gap[i] \in Int /\ gap[i] < d
      OBVIOUS
    <3>2. SweptAABB(b, TileBox(i), vx, vy) = H(gap[i])
      BY <3>1
    <3>3. Earlier(H(gap[i]).entry_time, <<1, 1>>)
      BY <3>1, <1>2
    <3> QED  BY <3>2, <3>3
  <2>2. ASSUME NEW s \in early
        PROVE  s \in {H(gap[i]) : i \in near}
    <3>1. PICK i \in indices \cap Solid : s = SweptAABB(b, TileBox(i), vx, vy)
      OBVIOUS
    <3>2. Earlier(s.entry_time, <<1, 1>>)
      OBVIOUS
    <3>3. i \in ahead /\ gap[i] \in 0 .. d /\ s = H(gap[i])
      <4>1. s # NoHit
        BY <3>2, <1>2
      <4> QED  BY <4>1, <3>1
    <3>4. gap[i] < d
      BY <3>2, <3>3, <1>2
    <3>5. gap[i] \in 0 .. d - 1
      BY <3>3, <3>4
    <3> QED  BY <3>3, <3>5
  <2> QED  BY <2>1, <2>2
<1> HIDE DEF hits, early
<1>4. CASE near = {}
  <2>1. early = {}
    BY <1>3, <1>4
  <2>2. \A j \in indices \cap Solid : j \in ahead => ~(gap[j] \in 0 .. d - 1)
    BY <1>4
  <2> QED  BY <2>1, <2>2, <1>1
<1>5. CASE near # {}
  <2> DEFINE T == {gap[i] : i \in near}
  <2>1. T \subseteq Nat /\ T # {}
    BY <1>5
  <2> HIDE DEF T
  <2>2. PICK m \in T : \A n \in T : m <= n
    BY <2>1, Least
  <2>3. PICK k \in near : gap[k] = m
    BY <2>2 DEF T
  <2>4. \A n1, n2 \in Int : Earlier(H(n1).entry_time, H(n2).entry_time) <=> n1 < n2
    BY MulLess DEF Earlier
  <2>5. H(m) \in early /\ \A r \in early : ~Earlier(r.entry_time, H(m).entry_time)
    <3>1. H(m) \in early
      BY <2>3, <1>3
    <3>2. ASSUME NEW r \in early
          PROVE  ~Earlier(r.entry_time, H(m).entry_time)
      <4>1. PICK i \in near : r = H(gap[i])
        BY <1>3
      <4>2. gap[i] \in T /\ gap[i] \in Int /\ m \in Int
        BY <2>3 DEF T
      <4>3. m <= gap[i]
        BY <4>2, <2>2
      <4>4. ~(gap[i] < m)
        BY <4>2, <4>3
      <4> QED  BY <4>1, <4>2, <4>4, <2>4
    <3> QED  BY <3>1, <3>2
  <2>6. best \in early /\ \A r \in early : ~Earlier(r.entry_time, best.entry_time)
    BY <2>5
  <2> HIDE DEF best
  <2>7. PICK i \in near : best = H(gap[i])
    BY <2>6, <1>3
  <2>8. gap[i] = m
    <3>1. gap[i] \in T /\ gap[i] \in Int /\ m \in Int
      BY <2>3 DEF T
    <3>2. ~(m < gap[i])
      BY <3>1, <2>4, <2>5, <2>6, <2>7
    <3>3. m <= gap[i]
      BY <3>1, <2>2
    <3> QED  BY <3>1, <3>2, <3>3
  <2>9. \A j \in indices \cap Solid : j \in ahead /\ 0 <= gap[j] => gap[i] <= gap[j]
    <3>1. SUFFICES ASSUME NEW j \in indices \cap Solid, j \in ahead, 0 <= gap[j]
          PROVE  gap[i] <= gap[j]
      OBVIOUS
    <3>2. CASE gap[j] < d
      <4>1. gap[j] \in Int
        OBVIOUS
      <4>2. j \in near
        BY <3>1, <3>2, <4>1
      <4>3. gap[j] \in T
        BY <4>2 DEF T
      <4> QED  BY <4>3, <2>2, <2>8
    <3>3. CASE ~(gap[j] < d)
      <4>1. gap[j] \in Int /\ gap[i] \in Int /\ gap[i] < d
        OBVIOUS
      <4> QED  BY <3>3, <4>1
    <3> QED  BY <3>2, <3>3
  <2>10. early # {}
    BY <2>5
  <2> QED  BY <2>7, <2>9, <2>10, <1>1
<1> QED  BY <1>4, <1>5

-----------------------------------------------------------------------------
(* Moves along one axis.                                                   *)

\* A move of dx where v was wanted: in the same direction, and no further.
Moves(v, dx) ==
    /\ dx \in Int
    /\ v > 0 => 0 <= dx /\ dx <= v
    /\ v <= 0 => v <= dx /\ dx <= 0

\* Box c is level with box b, so that a move of b along x can reach it, and the
\* gap to it in the direction of v.
LevelX(b, c) == ~Apart(b.y, b.h, c.y, c.h)
GapX(b, c, v) == Gap(b.x, b.w, c.x, c.w, v)

\* A move along x goes as far as the nearest of the tiles it looks at: never
\* beyond one of them, and short of v only up against one.
LEMMA MoveX ==
    ASSUME NEW b \in Boxes, NEW v \in Int, NEW s \in SweptAxis(b, v, 0)
    PROVE  /\ Moves(v, Scaled(v, s)) /\ s.hit \in BOOLEAN
           /\ \E indices \in FindCollisionIndices(b, v, 0) :
                 v # 0 => \A j \in indices \cap Solid :
                    LevelX(b, TileBox(j)) /\ 0 <= GapX(b, TileBox(j), v) =>
                        Abs(Scaled(v, s)) <= GapX(b, TileBox(j), v)
           /\ Scaled(v, s) # v =>
                 \E i \in Solid : /\ LevelX(b, TileBox(i))
                                  /\ Abs(Scaled(v, s)) = GapX(b, TileBox(i), v)
<1>1. PICK indices \in FindCollisionIndices(b, v, 0) :
              s = EarliestHit(b, indices, v, 0)
  BY DEF SweptAxis
<1>2. CASE v = 0
  <2>1. indices = {}
    BY <1>1, <1>2 DEF FindCollisionIndices
  <2>2. s = NoHit
    BY <1>1, <2>1 DEF EarliestHit
  <2>3. Scaled(v, s) = 0 /\ s.hit \in BOOLEAN
    BY <1>2, <2>2, DivExact DEF Scaled, NoHit
  <2> QED  BY <1>1, <1>2, <2>3 DEF Moves
<1>3. CASE v # 0
  <2> DEFINE d == Abs(v)
             ahead == {i \in Solid : LevelX(b, TileBox(i))}
             gap == [i \in Solid |-> GapX(b, TileBox(i), v)]
  <2>1. d \in Nat \ {0}
    BY <1>3 DEF Abs
  <2>2. gap \in [Solid -> Int]
    <3>1. ASSUME NEW i \in Solid
          PROVE  GapX(b, TileBox(i), v) \in Int
      <4>1. TileBox(i) \in Boxes
        BY BoxTypes
      <4> QED  BY <4>1 DEF GapX, Gap, Boxes
    <3> QED  BY <3>1
  <2>3. ASSUME NEW i \in Solid
        PROVE  SweptAABB(b, TileBox(i), v, 0) =
                  IF i \in ahead /\ gap[i] \in 0 .. d
                  THEN [entry_time |-> <<gap[i], d>>, hit |-> TRUE] ELSE NoHit
    <3>1. TileBox(i) \in Boxes
      BY BoxTypes
    <3>2. gap[i] = GapX(b, TileBox(i), v) /\ (i \in ahead <=> LevelX(b, TileBox(i)))
      OBVIOUS
    <3> HIDE DEF gap, ahead, d
    <3>3. SweptAABB(b, TileBox(i), v, 0) =
             IF LevelX(b, TileBox(i)) /\ GapX(b, TileBox(i), v) \in 0 .. Abs(v)
             THEN Hit(GapX(b, TileBox(i), v), v) ELSE NoHit
      BY <3>1, <1>3, SweptX DEF LevelX, GapX
    <3> QED  BY <3>2, <3>3 DEF Hit, d
  <2>4. \A i \in Solid :
           /\ gap[i] = GapX(b, TileBox(i), v)
           /\ i \in ahead <=> LevelX(b, TileBox(i))
    OBVIOUS
  <2> HIDE DEF gap, ahead, d
  <2>5. CASE /\ s = NoHit
             /\ \A j \in indices \cap Solid : j \in ahead => ~(gap[j] \in 0 .. d - 1)
    <3>1. Scaled(v, s) = v /\ s.hit \in BOOLEAN
      BY <2>5, DivExact DEF Scaled, NoHit
    <3>2. Moves(v, v)
      BY DEF Moves
    <3>3. \A j \in indices \cap Solid : j \in ahead /\ 0 <= gap[j] => d <= gap[j]
      BY <2>1, <2>2, <2>5
    <3> QED  BY <3>1, <3>2, <3>3, <2>4, <1>1 DEF d
  <2>6. CASE \E i \in indices \cap Solid :
                /\ i \in ahead /\ gap[i] \in 0 .. d - 1
                /\ s = [entry_time |-> <<gap[i], d>>, hit |-> TRUE]
                /\ \A j \in indices \cap Solid :
                      j \in ahead /\ 0 <= gap[j] => gap[i] <= gap[j]
    <3>1. PICK i \in indices \cap Solid :
                /\ i \in ahead /\ gap[i] \in 0 .. d - 1
                /\ s = [entry_time |-> <<gap[i], d>>, hit |-> TRUE]
                /\ \A j \in indices \cap Solid :
                      j \in ahead /\ 0 <= gap[j] => gap[i] <= gap[j]
      BY <2>6
    <3> DEFINE g == gap[i]
    <3>2. g \in Int /\ g >= 0 /\ g < d
      BY <3>1, <2>1, <2>2
    <3>3. Scaled(v, s) = (v * g) \div d /\ s.hit = TRUE
      BY <3>1 DEF Scaled
    <3> HIDE DEF g
    <3>4. /\ Scaled(v, s) = IF v > 0 THEN g ELSE -g
          /\ Moves(v, Scaled(v, s)) /\ Abs(Scaled(v, s)) = g
      <4>1. CASE v > 0
        <5>1. d = v /\ v * g = g * d
          BY <4>1, <3>2 DEF d, Abs
        <5>2. Scaled(v, s) = g
          BY <5>1, <3>2, <3>3, <2>1, DivExact
        <5> QED  BY <4>1, <5>1, <5>2, <3>2 DEF Moves, Abs
      <4>2. CASE ~(v > 0)
        <5>1. d = -v /\ v * g = (-g) * d /\ -g \in Int
          BY <4>2, <3>2 DEF d, Abs
        <5>2. Scaled(v, s) = -g
          BY <5>1, <3>2, <3>3, <2>1, DivExact
        <5> QED  BY <4>2, <5>1, <5>2, <3>2 DEF Moves, Abs
      <4> QED  BY <4>1, <4>2
    <3>5. LevelX(b, TileBox(i)) /\ Abs(Scaled(v, s)) = GapX(b, TileBox(i), v)
      BY <3>1, <3>4, <2>4 DEF g
    <3>6. \A j \in indices \cap Solid :
             LevelX(b, TileBox(j)) /\ 0 <= GapX(b, TileBox(j), v) =>
                 Abs(Scaled(v, s)) <= GapX(b, TileBox(j), v)
      BY <3>1, <3>4, <2>4 DEF g
    <3> QED  BY <3>3, <3>4, <3>5, <3>6, <1>1
  <2>7. HitsAhead(b, v, 0, d, ahead, gap)
    BY <2>3 DEF HitsAhead
  <2>8. Nearest(s, indices, d, ahead, gap)
    BY <1>1, <2>1, <2>2, <2>7, EarliestFacts
  <2> QED  BY <2>5, <2>6, <2>8 DEF Nearest
<1> QED  BY <1>2, <1>3

\* Box c is above or below box b, so that a move of b along y can reach it, and the
\* gap to it in the direction of v.
LevelY(b, c) == ~Apart(b.x, b.w, c.x, c.w)
GapY(b, c, v) == Gap(b.y, b.h, c.y, c.h, v)

\* A move along y goes as far as the nearest of the tiles it looks at: never
\* beyond one of them, and short of v only up against one.
LEMMA MoveY ==
    ASSUME NEW b \in Boxes, NEW v \in Int, NEW s \in SweptAxis(b, 0, v)
    PROVE  /\ Moves(v, Scaled(v, s)) /\ s.hit \in BOOLEAN
           /\ s.hit \/ Scaled(v, s) = v
           /\ \E indices \in FindCollisionIndices(b, 0, v) :
                 v # 0 => \A j \in indices \cap Solid :
                    LevelY(b, TileBox(j)) /\ 0 <= GapY(b, TileBox(j), v) =>
                        Abs(Scaled(v, s)) <= GapY(b, TileBox(j), v)
           /\ Scaled(v, s) # v =>
                 \E i \in Solid : /\ LevelY(b, TileBox(i))
                                  /\ Abs(Scaled(v, s)) = GapY(b, TileBox(i), v)
<1>1. PICK indices \in FindCollisionIndices(b, 0, v) :
              s = EarliestHit(b, indices, 0, v)
  BY DEF SweptAxis
<1>2. CASE v = 0
  <2>1. indices = {}
    BY <1>1, <1>2 DEF FindCollisionIndices
  <2>2. s = NoHit
    BY <1>1, <2>1 DEF EarliestHit
  <2>3. Scaled(v, s) = 0 /\ s.hit \in BOOLEAN
    BY <1>2, <2>2, DivExact DEF Scaled, NoHit
  <2> QED  BY <1>1, <1>2, <2>3 DEF Moves
<1>3. CASE v # 0
  <2> DEFINE d == Abs(v)
             ahead == {i \in Solid : LevelY(b, TileBox(i))}
             gap == [i \in Solid |-> GapY(b, TileBox(i), v)]
  <2>1. d \in Nat \ {0}
    BY <1>3 DEF Abs
  <2>2. gap \in [Solid -> Int]
    <3>1. ASSUME NEW i \in Solid
          PROVE  GapY(b, TileBox(i), v) \in Int
      <4>1. TileBox(i) \in Boxes
        BY BoxTypes
      <4> QED  BY <4>1 DEF GapY, Gap, Boxes
    <3> QED  BY <3>1
  <2>3. ASSUME NEW i \in Solid
        PROVE  SweptAABB(b, TileBox(i), 0, v) =
                  IF i \in ahead /\ gap[i] \in 0 .. d
                  THEN [entry_time |-> <<gap[i], d>>, hit |-> TRUE] ELSE NoHit
    <3>1. TileBox(i) \in Boxes
      BY BoxTypes
    <3>2. gap[i] = GapY(b, TileBox(i), v) /\ (i \in ahead <=> LevelY(b, TileBox(i)))
      OBVIOUS
    <3> HIDE DEF gap, ahead, d
    <3>3. SweptAABB(b, TileBox(i), 0, v) =
             IF LevelY(b, TileBox(i)) /\ GapY(b, TileBox(i), v) \in 0 .. Abs(v)
             THEN Hit(GapY(b, TileBox(i), v), v) ELSE NoHit
      BY <3>1, <1>3, SweptY DEF LevelY, GapY
    <3> QED  BY <3>2, <3>3 DEF Hit, d
  <2>4. \A i \in Solid :
           /\ gap[i] = GapY(b, TileBox(i), v)
           /\ i \in ahead <=> LevelY(b, TileBox(i))
    OBVIOUS
  <2> HIDE DEF gap, ahead, d
  <2>5. CASE /\ s = NoHit
             /\ \A j \in indices \cap Solid : j \in ahead => ~(gap[j] \in 0 .. d - 1)
    <3>1. Scaled(v, s) = v /\ s.hit \in BOOLEAN
      BY <2>5, DivExact DEF Scaled, NoHit
    <3>2. Moves(v, v)
      BY DEF Moves
    <3>3. \A j \in indices \cap Solid : j \in ahead /\ 0 <= gap[j] => d <= gap[j]
      BY <2>1, <2>2, <2>5
    <3> QED  BY <3>1, <3>2, <3>3, <2>4, <1>1 DEF d
  <2>6. CASE \E i \in indices \cap Solid :
                /\ i \in ahead /\ gap[i] \in 0 .. d - 1
                /\ s = [entry_time |-> <<gap[i], d>>, hit |-> TRUE]
                /\ \A j \in indices \cap Solid :
                      j \in ahead /\ 0 <= gap[j] => gap[i] <= gap[j]
    <3>1. PICK i \in indices \cap Solid :
                /\ i \in ahead /\ gap[i] \in 0 .. d - 1
                /\ s = [entry_time |-> <<gap[i], d>>, hit |-> TRUE]
                /\ \A j \in indices \cap Solid :
                      j \in ahead /\ 0 <= gap[j] => gap[i] <= gap[j]
      BY <2>6
    <3> DEFINE g == gap[i]
    <3>2. g \in Int /\ g >= 0 /\ g < d
      BY <3>1, <2>1, <2>2
    <3>3. Scaled(v, s) = (v * g) \div d /\ s.hit = TRUE
      BY <3>1 DEF Scaled
    <3> HIDE DEF g
    <3>4. /\ Scaled(v, s) = IF v > 0 THEN g ELSE -g
          /\ Moves(v, Scaled(v, s)) /\ Abs(Scaled(v, s)) = g
      <4>1. CASE v > 0
        <5>1. d = v /\ v * g = g * d
          BY <4>1, <3>2 DEF d, Abs
        <5>2. Scaled(v, s) = g
          BY <5>1, <3>2, <3>3, <2>1, DivExact
        <5> QED  BY <4>1, <5>1, <5>2, <3>2 DEF Moves, Abs
      <4>2. CASE ~(v > 0)
        <5>1. d = -v /\ v * g = (-g) * d /\ -g \in Int
          BY <4>2, <3>2 DEF d, Abs
        <5>2. Scaled(v, s) = -g
          BY <5>1, <3>2, <3>3, <2>1, DivExact
        <5> QED  BY <4>2, <5>1, <5>2, <3>2 DEF Moves, Abs
      <4> QED  BY <4>1, <4>2
    <3>5. LevelY(b, TileBox(i)) /\ Abs(Scaled(v, s)) = GapY(b, TileBox(i), v)
      BY <3>1, <3>4, <2>4 DEF g
    <3>6. \A j \in indices \cap Solid :
             LevelY(b, TileBox(j)) /\ 0 <= GapY(b, TileBox(j), v) =>
                 Abs(Scaled(v, s)) <= GapY(b, TileBox(j), v)
      BY <3>1, <3>4, <2>4 DEF g
    <3> QED  BY <3>3, <3>4, <3>5, <3>6, <1>1
  <2>7. HitsAhead(b, 0, v, d, ahead, gap)
    BY <2>3 DEF HitsAhead
  <2>8. Nearest(s, indices, d, ahead, gap)
    BY <1>1, <2>1, <2>2, <2>7, EarliestFacts
  <2> QED  BY <2>5, <2>6, <2>8 DEF Nearest
<1> QED  BY <1>2, <1>3

-----------------------------------------------------------------------------
(* The map.                                                                *)

\* A tile's box is that of its column and row, which are inside the grid.
LEMMA TileFacts ==
    ASSUME NEW i \in Solid
    PROVE  /\ i % GridX \in Int /\ 0 <= i % GridX /\ i % GridX <= GridX - 1
           /\ i \div GridX \in Int /\ 0 <= i \div GridX /\ i \div GridX <= GridY - 1
           /\ i = (i \div GridX) * GridX + (i % GridX)
           /\ TileBox(i).x = (i % GridX) * Tile
           /\ TileBox(i).y = (i \div GridX) * Tile
           /\ TileBox(i).w = Tile /\ TileBox(i).h = Tile
<1>1. GridX \in Nat \ {0} /\ GridY \in Nat \ {0} /\ i \in Int /\ 0 <= i
  BY ConstantTypes
<1>2. i < ((GridY - 1) + 1) * GridX /\ 0 * GridX <= i
  <2>1. i < GridX * GridY
    BY ConstantTypes
  <2> QED  BY <2>1, <1>1
<1>3. 0 <= i \div GridX /\ i \div GridX <= GridY - 1
  BY <1>1, <1>2, DivBetween
<1>4. i \div GridX \in Int
  BY <1>1, DivBounds
<1>5. i % GridX \in Int /\ 0 <= i % GridX /\ i % GridX <= GridX - 1
  BY <1>1
<1>6. i = (i \div GridX) * GridX + (i % GridX)
  BY <1>1
<1> QED  BY <1>3, <1>4, <1>5, <1>6 DEF TileBox

\* A move that stays below and right of the map's origin looks at every solid
\* tile that its bounding box meets.
LEMMA SeesTiles ==
    ASSUME NEW b \in Boxes, NEW vx \in Int, NEW vy \in Int, vx # 0 \/ vy # 0,
           Lo(b.x, b.x + vx) >= 0, Lo(b.y, b.y + vy) >= 0,
           NEW indices \in FindCollisionIndices(b, vx, vy), NEW i \in Solid,
           TileBox(i).x + Tile > Lo(b.x, b.x + vx),
           TileBox(i).x < Hi(b.x + b.w, b.x + b.w + vx),
           TileBox(i).y + Tile > Lo(b.y, b.y + vy),
           TileBox(i).y < Hi(b.y + b.h, b.y + b.h + vy)
    PROVE  i \in indices
<1> DEFINE xl == Lo(b.x, b.x + vx)
           yl == Lo(b.y, b.y + vy)
           xh == Hi(b.x + b.w, b.x + b.w + vx)
           yh == Hi(b.y + b.h, b.y + b.h + vy)
           tx == i % GridX
           ty == i \div GridX
<1>1. b.x \in Int /\ b.y \in Int /\ b.w \in Nat /\ b.h \in Nat
  BY DEF Boxes
<1>2. /\ xl \in Int /\ yl \in Int /\ xh \in Int /\ yh \in Int
      /\ xl >= 0 /\ yl >= 0 /\ xh >= 0 /\ yh >= 0
  <2>1. xl \in Int /\ yl \in Int /\ xl <= b.x /\ yl <= b.y
    BY <1>1 DEF Lo, Hi
  <2>2. xh \in Int /\ yh \in Int /\ xh >= b.x + b.w /\ yh >= b.y + b.h
    BY <1>1 DEF Lo, Hi
  <2> QED  BY <2>1, <2>2, <1>1
<1>3. /\ tx \in Int /\ 0 <= tx /\ tx <= GridX - 1
      /\ ty \in Int /\ 0 <= ty /\ ty <= GridY - 1
      /\ i = ty * GridX + tx
      /\ TileBox(i).x = tx * Tile /\ TileBox(i).y = ty * Tile
  BY TileFacts
<1>4. /\ tx * Tile + Tile > xl /\ tx * Tile < xh
      /\ ty * Tile + Tile > yl /\ ty * Tile < yh
  BY <1>3
<1>5. Tile \in Nat \ {0} /\ GridX \in Nat \ {0} /\ GridY \in Nat \ {0}
  BY ConstantTypes
<1>6. indices \in {{r * GridX + c : c \in p .. Lo(GridX - 1, q),
                                    r \in t .. Lo(GridY - 1, m)} :
                      p \in ToSizeT(xl \div Tile), t \in ToSizeT(yl \div Tile),
                      q \in ToSizeT(xh \div Tile), m \in ToSizeT(yh \div Tile)}
  BY DEF FindCollisionIndices
<1> HIDE DEF xl, yl, xh, yh, tx, ty
<1>7. /\ xl \div Tile \in Int /\ 0 <= xl \div Tile /\ xl \div Tile <= tx
      /\ yl \div Tile \in Int /\ 0 <= yl \div Tile /\ yl \div Tile <= ty
      /\ xh \div Tile \in Int /\ tx <= xh \div Tile
      /\ yh \div Tile \in Int /\ ty <= yh \div Tile
  <2>1. /\ xl \div Tile \in Int /\ yl \div Tile \in Int
        /\ xh \div Tile \in Int /\ yh \div Tile \in Int
    BY <1>2, <1>5, DivBounds
  <2>2. /\ xl < (tx + 1) * Tile /\ yl < (ty + 1) * Tile
        /\ 0 * Tile <= xl /\ 0 * Tile <= yl
        /\ tx * Tile <= xh /\ ty * Tile <= yh
    BY <1>2, <1>3, <1>4, <1>5
  <2>3. xl \div Tile <= tx /\ yl \div Tile <= ty
    BY <2>2, <1>2, <1>3, <1>5, DivBetween
  <2>4. 0 <= xl \div Tile /\ 0 <= yl \div Tile
    BY <2>2, <1>2, <1>5, DivBetween
  <2>5. tx <= xh \div Tile /\ ty <= yh \div Tile
    BY <2>2, <1>2, <1>3, <1>5, DivBetween
  <2> QED  BY <2>1, <2>3, <2>4, <2>5
<1>8. /\ ToSizeT(xl \div Tile) = {xl \div Tile}
      /\ ToSizeT(yl \div Tile) = {yl \div Tile}
      /\ ToSizeT(xh \div Tile) = {xh \div Tile}
      /\ ToSizeT(yh \div Tile) = {yh \div Tile}
  <2>1. ASSUME NEW n \in Int, 0 <= n
        PROVE  ToSizeT(n) = {n}
    BY <2>1 DEF ToSizeT
  <2>2. 0 <= xh \div Tile /\ 0 <= yh \div Tile
    BY <1>3, <1>7
  <2> QED  BY <2>1, <2>2, <1>7
<1>9. indices = {r * GridX + c : c \in xl \div Tile .. Lo(GridX - 1, xh \div Tile),
                                 r \in yl \div Tile .. Lo(GridY - 1, yh \div Tile)}
  BY <1>6, <1>8
<1>10. /\ tx \in xl \div Tile .. Lo(GridX - 1, xh \div Tile)
       /\ ty \in yl \div Tile .. Lo(GridY - 1, yh \div Tile)
  BY <1>3, <1>5, <1>7 DEF Lo
<1> QED  BY <1>3, <1>9, <1>10

\* What box b sweeps when it moves by dx along x.
AreaX(b, dx) ==
    [x |-> Lo(b.x, b.x + dx), y |-> b.y,
     w |-> b.w + Hi(b.x, b.x + dx) - Lo(b.x, b.x + dx), h |-> b.h]

\* A move along x that stays below and right of the map's origin crosses no wall.
LEMMA SweepX ==
    ASSUME NEW b \in Boxes, NEW v \in Int, NEW s \in SweptAxis(b, v, 0),
           b.x >= 0, b.x + v >= 0, b.y >= 0, Free(b)
    PROVE  Free(AreaX(b, Scaled(v, s)))
<1> DEFINE dx == Scaled(v, s)
<1>1. Moves(v, dx)
  BY MoveX
<1>2. PICK indices \in FindCollisionIndices(b, v, 0) :
         v # 0 => \A j \in indices \cap Solid :
            LevelX(b, TileBox(j)) /\ 0 <= GapX(b, TileBox(j), v) =>
                Abs(dx) <= GapX(b, TileBox(j), v)
  BY MoveX
<1> HIDE DEF dx
<1>3. b.x \in Int /\ b.y \in Int /\ b.w \in Nat /\ b.h \in Nat
  BY DEF Boxes
<1>4. SUFFICES ASSUME NEW i \in Solid, Overlaps(AreaX(b, dx), TileBox(i))
      PROVE  FALSE
  BY DEF Free, dx
<1> DEFINE c == TileBox(i)
<1>5. /\ c.x \in Int /\ c.y \in Int /\ c.w = Tile /\ c.h = Tile
      /\ Tile \in Nat \ {0}
  BY BoxTypes, TileFacts, ConstantTypes DEF Boxes
<1>6. ~Overlaps(b, c)
  BY DEF Free
<1> HIDE DEF c
<1>7. /\ AreaX(b, dx).y = b.y /\ AreaX(b, dx).h = b.h
      /\ AreaX(b, dx).x = Lo(b.x, b.x + dx)
      /\ AreaX(b, dx).w = b.w + Hi(b.x, b.x + dx) - Lo(b.x, b.x + dx)
  BY DEF AreaX, Boxes
<1>8. /\ LevelX(b, c) /\ c.y < b.y + b.h /\ c.y + Tile > b.y
      /\ c.x + Tile > Lo(b.x, b.x + dx)
      /\ c.x < Hi(b.x, b.x + dx) + b.w
      /\ c.x + Tile <= b.x \/ b.x + b.w <= c.x
  <2>1. /\ ~Apart(AreaX(b, dx).x, AreaX(b, dx).w, c.x, c.w)
        /\ ~Apart(b.y, b.h, c.y, c.h)
    BY <1>4, <1>7 DEF Overlaps, c
  <2>2. Apart(b.x, b.w, c.x, c.w)
    BY <2>1, <1>6 DEF Overlaps
  <2>3. /\ Lo(b.x, b.x + dx) \in Int /\ Hi(b.x, b.x + dx) \in Int
    BY <1>1, <1>3 DEF Moves, Lo, Hi
  <2> QED  BY <2>1, <2>2, <2>3, <1>3, <1>5, <1>7 DEF LevelX, Apart
<1>9. ASSUME v # 0, 0 <= GapX(b, c, v),
             c.x + Tile > Lo(b.x, b.x + v), c.x < Hi(b.x + b.w, b.x + b.w + v)
      PROVE  Abs(dx) <= GapX(b, c, v)
  <2>1. Lo(b.x, b.x + v) >= 0 /\ Lo(b.y, b.y + 0) = b.y
        /\ Hi(b.y + b.h, b.y + b.h + 0) = b.y + b.h
    BY <1>3 DEF Lo, Hi
  <2>2. i \in indices
    BY <2>1, <1>3, <1>8, <1>9, SeesTiles DEF c
  <2> QED  BY <2>2, <1>2, <1>8, <1>9 DEF c
<1>10. CASE v = 0
  <2>1. dx = 0 /\ Lo(b.x, b.x + dx) = b.x /\ Hi(b.x, b.x + dx) = b.x
    BY <1>1, <1>3, <1>10 DEF Moves, Lo, Hi
  <2> QED  BY <2>1, <1>3, <1>5, <1>8
<1>11. CASE v > 0
  <2>1. /\ dx \in Int /\ 0 <= dx /\ dx <= v /\ Abs(dx) = dx
        /\ Lo(b.x, b.x + dx) = b.x /\ Hi(b.x, b.x + dx) = b.x + dx
        /\ Lo(b.x, b.x + v) = b.x /\ Hi(b.x + b.w, b.x + b.w + v) = b.x + b.w + v
        /\ GapX(b, c, v) = c.x - (b.x + b.w)
    BY <1>1, <1>3, <1>11 DEF Moves, Lo, Hi, Abs, GapX, Gap
  <2>2. b.x + b.w <= c.x /\ c.x < b.x + dx + b.w
    BY <2>1, <1>3, <1>5, <1>8
  <2>3. dx <= c.x - (b.x + b.w)
    BY <2>1, <2>2, <1>3, <1>5, <1>8, <1>9, <1>11
  <2> QED  BY <2>1, <2>2, <2>3, <1>3, <1>5
<1>12. CASE v < 0
  <2>1. /\ dx \in Int /\ v <= dx /\ dx <= 0 /\ Abs(dx) = -dx
        /\ Lo(b.x, b.x + dx) = b.x + dx /\ Hi(b.x, b.x + dx) = b.x
        /\ Lo(b.x, b.x + v) = b.x + v /\ Hi(b.x + b.w, b.x + b.w + v) = b.x + b.w
        /\ GapX(b, c, v) = b.x - (c.x + Tile)
    BY <1>1, <1>3, <1>5, <1>12 DEF Moves, Lo, Hi, Abs, GapX, Gap
  <2>2. c.x + Tile <= b.x /\ c.x + Tile > b.x + dx
    BY <2>1, <1>3, <1>5, <1>8
  <2>3. -dx <= b.x - (c.x + Tile)
    BY <2>1, <2>2, <1>3, <1>5, <1>8, <1>9, <1>12
  <2> QED  BY <2>1, <2>2, <2>3, <1>3, <1>5
<1> QED  BY <1>10, <1>11, <1>12

\* A move along x that is cut short ends at a solid tile.
LEMMA StopX ==
    ASSUME NEW b \in Boxes, NEW v \in Int, NEW s \in SweptAxis(b, v, 0),
           b.w + Tile > 1, Scaled(v, s) # v, NEW c \in Boxes,
           c.x = b.x + Scaled(v, s) + (IF v > 0 THEN 1 ELSE -1),
           c.y = b.y, c.w = b.w, c.h = b.h
    PROVE  ~Free(c)
<1> DEFINE dx == Scaled(v, s)
<1>1. Moves(v, dx)
  BY MoveX
<1>2. PICK i \in Solid : /\ LevelX(b, TileBox(i))
                         /\ Abs(dx) = GapX(b, TileBox(i), v)
  BY MoveX
<1> HIDE DEF dx
<1>3. /\ b.x \in Int /\ b.y \in Int /\ b.w \in Nat /\ b.h \in Nat
      /\ c.x = b.x + dx + (IF v > 0 THEN 1 ELSE -1) /\ dx # v
  BY DEF Boxes, dx
<1>4. /\ TileBox(i).x \in Int /\ TileBox(i).w = Tile /\ Tile \in Nat \ {0}
  BY BoxTypes, TileFacts, ConstantTypes DEF Boxes
<1>5. ~Apart(c.y, c.h, TileBox(i).y, TileBox(i).h)
  BY <1>2 DEF LevelX
<1>6. ~Apart(c.x, c.w, TileBox(i).x, TileBox(i).w)
  <2>1. CASE v > 0
    <3>1. c.x = b.x + dx + 1 /\ dx = TileBox(i).x - (b.x + b.w)
      BY <2>1, <1>1, <1>2, <1>3 DEF Moves, Abs, GapX, Gap
    <3> QED  BY <3>1, <1>1, <1>3, <1>4 DEF Apart, Moves
  <2>2. CASE v < 0
    <3>1. c.x = b.x + dx - 1 /\ -dx = b.x - (TileBox(i).x + Tile)
      BY <2>2, <1>1, <1>2, <1>3, <1>4 DEF Moves, Abs, GapX, Gap
    <3> QED  BY <3>1, <1>1, <1>3, <1>4 DEF Apart, Moves
  <2>3. v # 0
    BY <1>1, <1>3 DEF Moves
  <2> QED  BY <2>1, <2>2, <2>3
<1> QED  BY <1>5, <1>6 DEF Free, Overlaps

\* What box b sweeps when it moves by dx along y.
AreaY(b, dx) ==
    [x |-> b.x, y |-> Lo(b.y, b.y + dx),
     w |-> b.w, h |-> b.h + Hi(b.y, b.y + dx) - Lo(b.y, b.y + dx)]

\* A move along y that stays below and right of the map's origin crosses no wall.
LEMMA SweepY ==
    ASSUME NEW b \in Boxes, NEW v \in Int, NEW s \in SweptAxis(b, 0, v),
           b.y >= 0, b.y + v >= 0, b.x >= 0, Free(b)
    PROVE  Free(AreaY(b, Scaled(v, s)))
<1> DEFINE dx == Scaled(v, s)
<1>1. Moves(v, dx)
  BY MoveY
<1>2. PICK indices \in FindCollisionIndices(b, 0, v) :
         v # 0 => \A j \in indices \cap Solid :
            LevelY(b, TileBox(j)) /\ 0 <= GapY(b, TileBox(j), v) =>
                Abs(dx) <= GapY(b, TileBox(j), v)
  BY MoveY
<1> HIDE DEF dx
<1>3. b.y \in Int /\ b.x \in Int /\ b.h \in Nat /\ b.w \in Nat
  BY DEF Boxes
<1>4. SUFFICES ASSUME NEW i \in Solid, Overlaps(AreaY(b, dx), TileBox(i))
      PROVE  FALSE
  BY DEF Free, dx
<1> DEFINE c == TileBox(i)
<1>5. /\ c.y \in Int /\ c.x \in Int /\ c.h = Tile /\ c.w = Tile
      /\ Tile \in Nat \ {0}
  BY BoxTypes, TileFacts, ConstantTypes DEF Boxes
<1>6. ~Overlaps(b, c)
  BY DEF Free
<1> HIDE DEF c
<1>7. /\ AreaY(b, dx).x = b.x /\ AreaY(b, dx).w = b.w
      /\ AreaY(b, dx).y = Lo(b.y, b.y + dx)
      /\ AreaY(b, dx).h = b.h + Hi(b.y, b.y + dx) - Lo(b.y, b.y + dx)
  BY DEF AreaY, Boxes
<1>8. /\ LevelY(b, c) /\ c.x < b.x + b.w /\ c.x + Tile > b.x
      /\ c.y + Tile > Lo(b.y, b.y + dx)
      /\ c.y < Hi(b.y, b.y + dx) + b.h
      /\ c.y + Tile <= b.y \/ b.y + b.h <= c.y
  <2>1. /\ ~Apart(AreaY(b, dx).y, AreaY(b, dx).h, c.y, c.h)
        /\ ~Apart(b.x, b.w, c.x, c.w)
    BY <1>4, <1>7 DEF Overlaps, c
  <2>2. Apart(b.y, b.h, c.y, c.h)
    BY <2>1, <1>6 DEF Overlaps
  <2>3. /\ Lo(b.y, b.y + dx) \in Int /\ Hi(b.y, b.y + dx) \in Int
    BY <1>1, <1>3 DEF Moves, Lo, Hi
  <2> QED  BY <2>1, <2>2, <2>3, <1>3, <1>5, <1>7 DEF LevelY, Apart
<1>9. ASSUME v # 0, 0 <= GapY(b, c, v),
             c.y + Tile > Lo(b.y, b.y + v), c.y < Hi(b.y + b.h, b.y + b.h + v)
      PROVE  Abs(dx) <= GapY(b, c, v)
  <2>1. Lo(b.y, b.y + v) >= 0 /\ Lo(b.x, b.x + 0) = b.x
        /\ Hi(b.x + b.w, b.x + b.w + 0) = b.x + b.w
    BY <1>3 DEF Lo, Hi
  <2>2. i \in indices
    BY <2>1, <1>3, <1>8, <1>9, SeesTiles DEF c
  <2> QED  BY <2>2, <1>2, <1>8, <1>9 DEF c
<1>10. CASE v = 0
  <2>1. dx = 0 /\ Lo(b.y, b.y + dx) = b.y /\ Hi(b.y, b.y + dx) = b.y
    BY <1>1, <1>3, <1>10 DEF Moves, Lo, Hi
  <2> QED  BY <2>1, <1>3, <1>5, <1>8
<1>11. CASE v > 0
  <2>1. /\ dx \in Int /\ 0 <= dx /\ dx <= v /\ Abs(dx) = dx
        /\ Lo(b.y, b.y + dx) = b.y /\ Hi(b.y, b.y + dx) = b.y + dx
        /\ Lo(b.y, b.y + v) = b.y /\ Hi(b.y + b.h, b.y + b.h + v) = b.y + b.h + v
        /\ GapY(b, c, v) = c.y - (b.y + b.h)
    BY <1>1, <1>3, <1>11 DEF Moves, Lo, Hi, Abs, GapY, Gap
  <2>2. b.y + b.h <= c.y /\ c.y < b.y + dx + b.h
    BY <2>1, <1>3, <1>5, <1>8
  <2>3. dx <= c.y - (b.y + b.h)
    BY <2>1, <2>2, <1>3, <1>5, <1>8, <1>9, <1>11
  <2> QED  BY <2>1, <2>2, <2>3, <1>3, <1>5
<1>12. CASE v < 0
  <2>1. /\ dx \in Int /\ v <= dx /\ dx <= 0 /\ Abs(dx) = -dx
        /\ Lo(b.y, b.y + dx) = b.y + dx /\ Hi(b.y, b.y + dx) = b.y
        /\ Lo(b.y, b.y + v) = b.y + v /\ Hi(b.y + b.h, b.y + b.h + v) = b.y + b.h
        /\ GapY(b, c, v) = b.y - (c.y + Tile)
    BY <1>1, <1>3, <1>5, <1>12 DEF Moves, Lo, Hi, Abs, GapY, Gap
  <2>2. c.y + Tile <= b.y /\ c.y + Tile > b.y + dx
    BY <2>1, <1>3, <1>5, <1>8
  <2>3. -dx <= b.y - (c.y + Tile)
    BY <2>1, <2>2, <1>3, <1>5, <1>8, <1>9, <1>12
  <2> QED  BY <2>1, <2>2, <2>3, <1>3, <1>5
<1> QED  BY <1>10, <1>11, <1>12

\* A move along y that is cut short ends at a solid tile.
LEMMA StopY ==
    ASSUME NEW b \in Boxes, NEW v \in Int, NEW s \in SweptAxis(b, 0, v),
           b.h + Tile > 1, Scaled(v, s) # v, NEW c \in Boxes,
           c.y = b.y + Scaled(v, s) + (IF v > 0 THEN 1 ELSE -1),
           c.x = b.x, c.h = b.h, c.w = b.w
    PROVE  ~Free(c)
<1> DEFINE dx == Scaled(v, s)
<1>1. Moves(v, dx)
  BY MoveY
<1>2. PICK i \in Solid : /\ LevelY(b, TileBox(i))
                         /\ Abs(dx) = GapY(b, TileBox(i), v)
  BY MoveY
<1> HIDE DEF dx
<1>3. /\ b.y \in Int /\ b.x \in Int /\ b.h \in Nat /\ b.w \in Nat
      /\ c.y = b.y + dx + (IF v > 0 THEN 1 ELSE -1) /\ dx # v
  BY DEF Boxes, dx
<1>4. /\ TileBox(i).y \in Int /\ TileBox(i).h = Tile /\ Tile \in Nat \ {0}
  BY BoxTypes, TileFacts, ConstantTypes DEF Boxes
<1>5. ~Apart(c.x, c.w, TileBox(i).x, TileBox(i).w)
  BY <1>2 DEF LevelY
<1>6. ~Apart(c.y, c.h, TileBox(i).y, TileBox(i).h)
  <2>1. CASE v > 0
    <3>1. c.y = b.y + dx + 1 /\ dx = TileBox(i).y - (b.y + b.h)
      BY <2>1, <1>1, <1>2, <1>3 DEF Moves, Abs, GapY, Gap
    <3> QED  BY <3>1, <1>1, <1>3, <1>4 DEF Apart, Moves
  <2>2. CASE v < 0
    <3>1. c.y = b.y + dx - 1 /\ -dx = b.y - (TileBox(i).y + Tile)
      BY <2>2, <1>1, <1>2, <1>3, <1>4 DEF Moves, Abs, GapY, Gap
    <3> QED  BY <3>1, <1>1, <1>3, <1>4 DEF Apart, Moves
  <2>3. v # 0
    BY <1>1, <1>3 DEF Moves
  <2> QED  BY <2>1, <2>2, <2>3
<1> QED  BY <1>5, <1>6 DEF Free, Overlaps

-----------------------------------------------------------------------------
(* Types, and what Update does.                                            *)

\* Update moves along x and then, from there, along y.
LEMMA UpdateFacts ==
    ASSUME TypeOK, Update
    PROVE  \E vy \in Int, xs \in SweptAxis(Box(x, y), vel_x, 0) :
              /\ on_ground' => vel_y' = 0
              /\ vy = vel_y + Gravity * dt
              /\ Moves(vel_x, Scaled(vel_x, xs)) /\ x' = x + Scaled(vel_x, xs)
              /\ vel_x' \in {Scaled(vel_x, xs), 0, vel_x}
              /\ vel_y' \in {0, vy}
              /\ \E ys \in SweptAxis(Box(x', y), 0, vy) :
                    /\ Moves(vy, Scaled(vy, ys)) /\ y' = y + Scaled(vy, ys)
                    /\ vel_y' = 0 \/ Scaled(vy, ys) = vy
              /\ x' \in Int /\ y' \in Int /\ on_ground' \in BOOLEAN
<1>1. PICK vy, xs, dx, ys, dy :
              /\ vy = vel_y + Gravity * dt
              /\ xs \in SweptAxis(Box(x, y), vel_x, 0) /\ dx = Scaled(vel_x, xs)
              /\ ys \in SweptAxis(Box(x + dx, y), 0, vy) /\ dy = Scaled(vy, ys)
              /\ x' = x + dx /\ y' = y + dy
              /\ on_ground' = IF vy = 0 THEN on_ground ELSE ys.hit /\ dy >= 0
              /\ vel_x' = IF ys.hit THEN dx ELSE IF xs.hit THEN 0 ELSE vel_x
              /\ vel_y' = IF ys.hit THEN 0 ELSE vy
  BY DEF Update
<1>2. /\ x \in Int /\ y \in Int /\ vel_x \in Int /\ vel_y \in Int
      /\ on_ground \in BOOLEAN /\ dt \in Dts \cup {0}
  BY DEF TypeOK
<1>3. vy \in Int /\ vy = vel_y + Gravity * dt
  BY <1>1, <1>2, PhysicsAssumption
<1>4. Moves(vel_x, dx) /\ dx = Scaled(vel_x, xs)
  BY <1>1, <1>2, BoxTypes, MoveX
<1>5. x + dx \in Int
  BY <1>2, <1>4 DEF Moves
<1>6. /\ Moves(vy, dy) /\ dy = Scaled(vy, ys) /\ ys.hit \in BOOLEAN
      /\ ys.hit \/ dy = vy
  BY <1>1, <1>2, <1>3, <1>5, BoxTypes, MoveY
<1>7. y + dy \in Int /\ dy \in Int
  BY <1>2, <1>6 DEF Moves
<1>8. on_ground' \in BOOLEAN
  BY <1>1, <1>2, <1>6, <1>7
<1>9. vel_x' \in {dx, 0, vel_x} /\ vel_y' \in {0, vy}
  BY <1>1
<1>10. (on_ground' => vel_y' = 0) /\ (vel_y' = 0 \/ dy = vy)
  BY <1>1, <1>6
<1> QED  BY <1>1, <1>3, <1>4, <1>5, <1>6, <1>7, <1>8, <1>9, <1>10

\* Every step keeps the types.
LEMMA TypeStep == TypeOK /\ [Next]_vars => TypeOK'
<1> SUFFICES ASSUME TypeOK, [Next]_vars
             PROVE  TypeOK'
  OBVIOUS
<1>t. /\ x \in Int /\ y \in Int /\ vel_x \in Int /\ vel_y \in Int
      /\ on_ground \in BOOLEAN /\ phase \in {"sleep", "input"}
      /\ dt \in Dts \cup {0} /\ dt \in Nat
  BY PhysicsAssumption DEF TypeOK
<1>c. Speed \in Nat /\ Gravity \in Nat /\ JumpForce \in Nat
  BY PhysicsAssumption
<1>1. CASE \E d \in Dts : BeginTick(d)
  BY <1>1, <1>t DEF BeginTick, TypeOK
<1>2. CASE MoveLeft
  <2>1. vel_x' \in Int
    BY <1>2, <1>t, <1>c DEF MoveLeft
  <2> QED  BY <2>1, <1>2, <1>t DEF MoveLeft, TypeOK
<1>3. CASE MoveRight
  <2>1. vel_x' \in Int
    BY <1>3, <1>t, <1>c DEF MoveRight
  <2> QED  BY <2>1, <1>3, <1>t DEF MoveRight, TypeOK
<1>4. CASE Jump
  <2>1. vel_y' \in Int
    BY <1>4, <1>t, <1>c DEF Jump
  <2> QED  BY <2>1, <1>4, <1>t DEF Jump, TypeOK
<1>5. CASE Update
  <2>1. /\ x' \in Int /\ y' \in Int /\ on_ground' \in BOOLEAN
        /\ vel_x' \in Int /\ vel_y' \in Int
    BY <1>5, <1>t, UpdateFacts DEF Moves
  <2>2. phase' = "sleep" /\ dt' = dt
    BY <1>5 DEF Update
  <2> QED  BY <2>1, <2>2, <1>t DEF TypeOK
<1>6. CASE UNCHANGED vars
  BY <1>6, <1>t DEF vars, TypeOK
<1> QED  BY <1>1, <1>2, <1>3, <1>4, <1>5, <1>6 DEF Next

\* The types hold throughout.
LEMMA TypeCorrect == Spec => []TypeOK
<1>1. Init => TypeOK
  <2>1. StartX \in Int /\ StartY \in Int
    BY PhysicsAssumption
  <2>2. SUFFICES ASSUME Init
        PROVE  TypeOK
    OBVIOUS
  <2>3. on_ground \in BOOLEAN
    BY <2>2 DEF Init
  <2>4. /\ x \in Int /\ y \in Int /\ vel_x \in Int /\ vel_y \in Int
        /\ dt \in Dts \cup {0} /\ phase \in {"sleep", "input"}
    BY <2>1, <2>2 DEF Init
  <2> QED  BY <2>3, <2>4 DEF TypeOK
<1> QED  BY <1>1, TypeStep, PTL DEF Spec

-----------------------------------------------------------------------------
(* Stopping.                                                               *)

\* Wherever the player is and whatever its speed, a move of it that is cut short
\* ends at a solid tile on that side (swept_math.cpp:96, collision.cpp:31).
THEOREM OnlyWallsStop == Spec => StopsOnlyAtWalls
<1> DEFINE Unit(v) == IF v > 0 THEN 1 ELSE -1
           vy == vel_y + Gravity * dt
           Stops == Update => /\ x' # x + vel_x => ~Free(Box(x' + Unit(vel_x), y))
                              /\ y' # y + vy => ~Free(Box(x', y' + Unit(vy)))
<1>1. TypeOK => [Stops]_vars
  <2>1. SUFFICES ASSUME TypeOK, Update
        PROVE  /\ x' # x + vel_x => ~Free(Box(x' + Unit(vel_x), y))
               /\ y' # y + vy => ~Free(Box(x', y' + Unit(vy)))
    OBVIOUS
  <2>2. PICK v \in Int, xs \in SweptAxis(Box(x, y), vel_x, 0) :
              /\ v = vel_y + Gravity * dt
              /\ Moves(vel_x, Scaled(vel_x, xs)) /\ x' = x + Scaled(vel_x, xs)
              /\ \E ys \in SweptAxis(Box(x', y), 0, v) :
                    Moves(v, Scaled(v, ys)) /\ y' = y + Scaled(v, ys)
              /\ x' \in Int /\ y' \in Int
    BY <2>1, UpdateFacts
  <2>3. PICK ys \in SweptAxis(Box(x', y), 0, v) :
           Moves(v, Scaled(v, ys)) /\ y' = y + Scaled(v, ys)
    BY <2>2
  <2>4. x \in Int /\ y \in Int /\ vel_x \in Int /\ v = vy
    BY <2>1, <2>2 DEF TypeOK
  <2> HIDE DEF vy
  <2>5. Width + Tile > 1 /\ Height + Tile > 1
    BY ConstantTypes
  <2>6. Scaled(vel_x, xs) \in Int /\ Scaled(v, ys) \in Int
    BY <2>2, <2>3 DEF Moves
  <2>7. ASSUME NEW px, NEW py
        PROVE  /\ Box(px, py).x = px /\ Box(px, py).y = py
               /\ Box(px, py).w = Width /\ Box(px, py).h = Height
    BY DEF Box
  <2>8. ASSUME x' # x + vel_x
        PROVE  ~Free(Box(x' + Unit(vel_x), y))
    <3>1. Scaled(vel_x, xs) # vel_x
      BY <2>2, <2>8
    <3>2. x' + Unit(vel_x) \in Int
      BY <2>2
    <3>3. Box(x, y) \in Boxes /\ Box(x' + Unit(vel_x), y) \in Boxes
      BY <3>2, <2>4, BoxTypes
    <3>4. x' + Unit(vel_x) = x + Scaled(vel_x, xs) + (IF vel_x > 0 THEN 1 ELSE -1)
      BY <2>2
    <3> HIDE DEF Unit
    <3> QED  BY <3>1, <3>3, <3>4, <2>4, <2>5, <2>7, StopX
  <2>9. ASSUME y' # y + v
        PROVE  ~Free(Box(x', y' + Unit(v)))
    <3>1. Scaled(v, ys) # v
      BY <2>3, <2>9
    <3>2. y' + Unit(v) \in Int
      BY <2>2
    <3>3. Box(x', y) \in Boxes /\ Box(x', y' + Unit(v)) \in Boxes
      BY <3>2, <2>2, <2>4, BoxTypes
    <3>4. y' + Unit(v) = y + Scaled(v, ys) + (IF v > 0 THEN 1 ELSE -1)
      BY <2>3
    <3> HIDE DEF Unit
    <3> QED  BY <3>1, <3>3, <3>4, <2>5, <2>7, StopY
  <2> QED  BY <2>4, <2>8, <2>9
<1>2. StopsOnlyAtWalls <=> [][Stops]_vars
  BY DEF StopsOnlyAtWalls
<1> HIDE DEF Stops
<1> QED  BY <1>1, <1>2, TypeCorrect, PTL

-----------------------------------------------------------------------------
(* SweptAABB and the reference.                                            *)

\* For a move of `speed` along x, in direction e, SweptAABB hits box c when and
\* where a walk in single steps would run into it.
LEMMA ContactX ==
    ASSUME NEW b \in Boxes, NEW c \in Boxes, b.w + c.w > 1,
           NEW e \in {1, -1}, NEW speed \in Nat \ {0}
    PROVE  FirstContact(b, c, <<e, 0>>, speed) =
              IF SweptAABB(b, c, speed * e, speed * 0).hit
              THEN {SweptAABB(b, c, speed * e, speed * 0).entry_time[1]} ELSE {}
<1> DEFINE v == speed * e
           g == Gap(b.x, b.w, c.x, c.w, v)
           level == ~Apart(b.y, b.h, c.y, c.h)
<1>1. /\ b.x \in Int /\ b.y \in Int /\ b.w \in Nat /\ b.h \in Nat
      /\ c.x \in Int /\ c.y \in Int /\ c.w \in Nat /\ c.h \in Nat
  BY DEF Boxes
<1>2. v \in Int /\ v # 0 /\ Abs(v) = speed /\ speed * 0 = 0 /\ (v > 0 <=> e = 1)
  BY DEF Abs
<1> HIDE DEF v
<1>3. SweptAABB(b, c, v, 0) = IF level /\ g \in 0 .. speed THEN Hit(g, v) ELSE NoHit
  BY <1>2, SweptX
<1>4. g = IF e = 1 THEN c.x - (b.x + b.w) ELSE b.x - (c.x + c.w)
  BY <1>2 DEF Gap
<1>5. g \in Int
  BY <1>1, <1>4
<1> HIDE DEF g
<1>6. ASSUME NEW k \in Int
      PROVE  Overlaps(Moved(b, k, <<e, 0>>), c) <=>
                level /\ c.x < b.x + k * e + b.w /\ c.x + c.w > b.x + k * e
  <2>1. /\ Moved(b, k, <<e, 0>>).x = b.x + k * e
        /\ Moved(b, k, <<e, 0>>).w = b.w /\ Moved(b, k, <<e, 0>>).h = b.h
        /\ Moved(b, k, <<e, 0>>).y = b.y
    BY <1>1 DEF Moved, Boxes
  <2>2. k * e \in Int
    OBVIOUS
  <2> QED  BY <2>1, <2>2, <1>1 DEF Overlaps, Apart
<1>7. ASSUME NEW k \in 0 .. speed
      PROVE  /\ ~Overlaps(Moved(b, k, <<e, 0>>), c)
             /\ Overlaps(Moved(b, k + 1, <<e, 0>>), c)
             <=> level /\ k = g
  <2>1. k \in Int /\ k + 1 \in Int /\ 0 <= k
    OBVIOUS
  <2>2. /\ Overlaps(Moved(b, k, <<e, 0>>), c) <=>
              level /\ c.x < b.x + k * e + b.w /\ c.x + c.w > b.x + k * e
        /\ Overlaps(Moved(b, k + 1, <<e, 0>>), c) <=>
              level /\ c.x < b.x + (k + 1) * e + b.w
                    /\ c.x + c.w > b.x + (k + 1) * e
    BY <2>1, <1>6
  <2> HIDE DEF level
  <2>3. CASE e = 1
    <3>1. k * e = k /\ (k + 1) * e = k + 1 /\ g = c.x - (b.x + b.w)
      BY <2>1, <2>3, <1>4
    <3> QED  BY <3>1, <2>1, <2>2, <1>1
  <2>4. CASE e = -1
    <3>1. k * e = -k /\ (k + 1) * e = -k - 1 /\ g = b.x - (c.x + c.w)
      BY <2>1, <2>4, <1>4
    <3> QED  BY <3>1, <2>1, <2>2, <1>1
  <2> QED  BY <2>3, <2>4
<1> HIDE DEF level
<1>8. FirstContact(b, c, <<e, 0>>, speed) =
         {k \in 0 .. speed : level /\ k = g}
  BY <1>7 DEF FirstContact
<1>9. CASE level /\ g \in 0 .. speed
  <2>1. FirstContact(b, c, <<e, 0>>, speed) = {g}
    BY <1>8, <1>9
  <2>2. /\ SweptAABB(b, c, v, 0).hit = TRUE
        /\ SweptAABB(b, c, v, 0).entry_time[1] = g
    BY <1>3, <1>9 DEF Hit
  <2> QED  BY <2>1, <2>2, <1>2 DEF v
<1>10. CASE ~(level /\ g \in 0 .. speed)
  <2>1. FirstContact(b, c, <<e, 0>>, speed) = {}
    BY <1>8, <1>10
  <2>2. SweptAABB(b, c, v, 0).hit = FALSE
    BY <1>3, <1>10 DEF NoHit
  <2> QED  BY <2>1, <2>2, <1>2 DEF v
<1> QED  BY <1>9, <1>10

\* For a move of `speed` along y, in direction e, SweptAABB hits box c when and
\* where a walk in single steps would run into it.
LEMMA ContactY ==
    ASSUME NEW b \in Boxes, NEW c \in Boxes, b.h + c.h > 1,
           NEW e \in {1, -1}, NEW speed \in Nat \ {0}
    PROVE  FirstContact(b, c, <<0, e>>, speed) =
              IF SweptAABB(b, c, speed * 0, speed * e).hit
              THEN {SweptAABB(b, c, speed * 0, speed * e).entry_time[1]} ELSE {}
<1> DEFINE v == speed * e
           g == Gap(b.y, b.h, c.y, c.h, v)
           level == ~Apart(b.x, b.w, c.x, c.w)
<1>1. /\ b.y \in Int /\ b.x \in Int /\ b.h \in Nat /\ b.w \in Nat
      /\ c.y \in Int /\ c.x \in Int /\ c.h \in Nat /\ c.w \in Nat
  BY DEF Boxes
<1>2. v \in Int /\ v # 0 /\ Abs(v) = speed /\ speed * 0 = 0 /\ (v > 0 <=> e = 1)
  BY DEF Abs
<1> HIDE DEF v
<1>3. SweptAABB(b, c, 0, v) = IF level /\ g \in 0 .. speed THEN Hit(g, v) ELSE NoHit
  BY <1>2, SweptY
<1>4. g = IF e = 1 THEN c.y - (b.y + b.h) ELSE b.y - (c.y + c.h)
  BY <1>2 DEF Gap
<1>5. g \in Int
  BY <1>1, <1>4
<1> HIDE DEF g
<1>6. ASSUME NEW k \in Int
      PROVE  Overlaps(Moved(b, k, <<0, e>>), c) <=>
                level /\ c.y < b.y + k * e + b.h /\ c.y + c.h > b.y + k * e
  <2>1. /\ Moved(b, k, <<0, e>>).y = b.y + k * e
        /\ Moved(b, k, <<0, e>>).h = b.h /\ Moved(b, k, <<0, e>>).w = b.w
        /\ Moved(b, k, <<0, e>>).x = b.x
    BY <1>1 DEF Moved, Boxes
  <2>2. k * e \in Int
    OBVIOUS
  <2> QED  BY <2>1, <2>2, <1>1 DEF Overlaps, Apart
<1>7. ASSUME NEW k \in 0 .. speed
      PROVE  /\ ~Overlaps(Moved(b, k, <<0, e>>), c)
             /\ Overlaps(Moved(b, k + 1, <<0, e>>), c)
             <=> level /\ k = g
  <2>1. k \in Int /\ k + 1 \in Int /\ 0 <= k
    OBVIOUS
  <2>2. /\ Overlaps(Moved(b, k, <<0, e>>), c) <=>
              level /\ c.y < b.y + k * e + b.h /\ c.y + c.h > b.y + k * e
        /\ Overlaps(Moved(b, k + 1, <<0, e>>), c) <=>
              level /\ c.y < b.y + (k + 1) * e + b.h
                    /\ c.y + c.h > b.y + (k + 1) * e
    BY <2>1, <1>6
  <2> HIDE DEF level
  <2>3. CASE e = 1
    <3>1. k * e = k /\ (k + 1) * e = k + 1 /\ g = c.y - (b.y + b.h)
      BY <2>1, <2>3, <1>4
    <3> QED  BY <3>1, <2>1, <2>2, <1>1
  <2>4. CASE e = -1
    <3>1. k * e = -k /\ (k + 1) * e = -k - 1 /\ g = b.y - (c.y + c.h)
      BY <2>1, <2>4, <1>4
    <3> QED  BY <3>1, <2>1, <2>2, <1>1
  <2> QED  BY <2>3, <2>4
<1> HIDE DEF level
<1>8. FirstContact(b, c, <<0, e>>, speed) =
         {k \in 0 .. speed : level /\ k = g}
  BY <1>7 DEF FirstContact
<1>9. CASE level /\ g \in 0 .. speed
  <2>1. FirstContact(b, c, <<0, e>>, speed) = {g}
    BY <1>8, <1>9
  <2>2. /\ SweptAABB(b, c, 0, v).hit = TRUE
        /\ SweptAABB(b, c, 0, v).entry_time[1] = g
    BY <1>3, <1>9 DEF Hit
  <2> QED  BY <2>1, <2>2, <1>2 DEF v
<1>10. CASE ~(level /\ g \in 0 .. speed)
  <2>1. FirstContact(b, c, <<0, e>>, speed) = {}
    BY <1>8, <1>10
  <2>2. SweptAABB(b, c, 0, v).hit = FALSE
    BY <1>3, <1>10 DEF NoHit
  <2> QED  BY <2>1, <2>2, <1>2 DEF v
<1> QED  BY <1>9, <1>10

\* SweptAABB is the first contact with every solid tile, on every map, wherever the
\* player is and for every move along one axis of up to two tiles
\* (swept_math.cpp:9-115); ContactX and ContactY have no bound on the move.
THEOREM SweptFindsFirstContact == Spec => []SweptIsFirstContact
<1>1. TypeOK => SweptIsFirstContact
  <2>1. SUFFICES ASSUME TypeOK, NEW i \in Solid,
                        NEW u \in {<<1, 0>>, <<-1, 0>>, <<0, 1>>, <<0, -1>>},
                        NEW speed \in 1 .. 2 * Tile
        PROVE  FirstContact(Box(x, y), TileBox(i), u, speed) =
                 IF SweptAABB(Box(x, y), TileBox(i), speed * u[1], speed * u[2]).hit
                 THEN {SweptAABB(Box(x, y), TileBox(i), speed * u[1],
                                 speed * u[2]).entry_time[1]}
                 ELSE {}
    BY DEF SweptIsFirstContact
  <2>2. Box(x, y) \in Boxes /\ TileBox(i) \in Boxes
    BY <2>1, BoxTypes DEF TypeOK
  <2>3. Box(x, y).w + TileBox(i).w > 1 /\ Box(x, y).h + TileBox(i).h > 1
    BY ConstantTypes DEF Box, TileBox
  <2>4. speed \in Nat \ {0}
    BY ConstantTypes
  <2>5. CASE u \in {<<1, 0>>, <<-1, 0>>}
    <3>1. PICK e \in {1, -1} : u = <<e, 0>>
      BY <2>5
    <3>2. u[1] = e /\ u[2] = 0
      BY <3>1
    <3>3. FirstContact(Box(x, y), TileBox(i), <<e, 0>>, speed) =
             IF SweptAABB(Box(x, y), TileBox(i), speed * e, speed * 0).hit
             THEN {SweptAABB(Box(x, y), TileBox(i),
                             speed * e, speed * 0).entry_time[1]}
             ELSE {}
      BY <2>2, <2>3, <2>4, ContactX
    <3> QED  BY <3>1, <3>2, <3>3
  <2>6. CASE u \in {<<0, 1>>, <<0, -1>>}
    <3>1. PICK e \in {1, -1} : u = <<0, e>>
      BY <2>6
    <3>2. u[1] = 0 /\ u[2] = e
      BY <3>1
    <3>3. FirstContact(Box(x, y), TileBox(i), <<0, e>>, speed) =
             IF SweptAABB(Box(x, y), TileBox(i), speed * 0, speed * e).hit
             THEN {SweptAABB(Box(x, y), TileBox(i),
                             speed * 0, speed * e).entry_time[1]}
             ELSE {}
      BY <2>2, <2>3, <2>4, ContactY
    <3> QED  BY <3>1, <3>2, <3>3
  <2> QED  BY <2>5, <2>6
<1> QED  BY <1>1, TypeCorrect, PTL

-----------------------------------------------------------------------------
(* Inside a solid border.                                                  *)

\* The tile in column c and row r of the border is solid and where it should be.
LEMMA BorderTile ==
    ASSUME MapHoldsPlayer, NEW c \in Int, NEW r \in Int,
           0 <= c, c <= GridX - 1, 0 <= r, r <= GridY - 1,
           c \in {0, GridX - 1} \/ r \in {0, GridY - 1}
    PROVE  \E i \in Solid : /\ TileBox(i).x = c * Tile /\ TileBox(i).y = r * Tile
                            /\ TileBox(i).w = Tile /\ TileBox(i).h = Tile
<1> DEFINE i == r * GridX + c
<1>1. GridX \in Nat \ {0} /\ GridY \in Nat \ {0}
  BY ConstantTypes
<1>2. i \in Int /\ r * GridX <= i /\ i < (r + 1) * GridX /\ 0 <= i
  <2>1. r * GridX \in Int /\ (r + 1) * GridX = r * GridX + GridX
    BY <1>1
  <2>2. 0 <= r * GridX
    BY <1>1
  <2> QED  BY <2>1, <2>2, <1>1
<1>3. i < GridX * GridY
  <2>1. ~(GridY * GridX < (r + 1) * GridX)
    BY <1>1, MulLess
  <2>2. GridY * GridX \in Int /\ GridY * GridX = GridX * GridY
        /\ (r + 1) * GridX \in Int
    BY <1>1
  <2> QED  BY <2>1, <2>2, <1>2
<1> DEFINE n == GridX * GridY
<1>4. i \in 0 .. n - 1
  <2>1. n \in Int /\ i < n
    BY <1>1, <1>3
  <2> HIDE DEF n, i
  <2> QED  BY <2>1, <1>2 DEF i
<1>5. i \div GridX = r
  <2>1. i \div GridX \in Int
    BY <1>1, <1>2, DivBounds
  <2>2. i \div GridX <= r /\ r <= i \div GridX
    BY <1>1, <1>2, DivBetween
  <2> QED  BY <2>1, <2>2
<1>6. i % GridX = c
  <2>1. i = (i \div GridX) * GridX + (i % GridX) /\ i % GridX \in Int
    BY <1>1, <1>2
  <2>2. r * GridX \in Int
    BY <1>1
  <2> QED  BY <2>1, <2>2, <1>5
<1> HIDE DEF i
<1>7. i \in Solid
  BY <1>4, <1>5, <1>6 DEF MapHoldsPlayer
<1> QED  BY <1>5, <1>6, <1>7 DEF TileBox

\* The row or column a position inside the border is in.
LEMMA RowOf ==
    ASSUME NEW p \in Int, NEW size \in Nat, NEW grid \in Nat \ {0},
           p >= Tile, size > 0, p + size <= (grid - 1) * Tile
    PROVE  \E r \in Int : /\ 0 <= r /\ r <= grid - 1
                          /\ r * Tile <= p /\ p < r * Tile + Tile
<1>1. Tile \in Nat \ {0}
  BY ConstantTypes
<1> DEFINE r == p \div Tile
<1>2. r \in Int /\ r * Tile <= p /\ p < (r + 1) * Tile
  BY <1>1, DivBounds
<1>3. (r + 1) * Tile = r * Tile + Tile
  <2> HIDE DEF r
  <2> QED  BY <1>1, <1>2
<1>4. r <= grid - 1 /\ 0 <= r
  <2>1. p < ((grid - 1) + 1) * Tile /\ 0 * Tile <= p
    BY <1>1
  <2> QED  BY <2>1, <1>1, DivBetween
<1> HIDE DEF r
<1>5. r * Tile \in Int
  BY <1>1, <1>2
<1> QED  BY <1>2, <1>3, <1>4, <1>5

\* A player inside the border: px and py are its position.
Inside(px, py) ==
    /\ px >= Tile /\ px + Width <= (GridX - 1) * Tile
    /\ py >= Tile /\ py + Height <= (GridY - 1) * Tile

\* Who moves along x without crossing a wall stays inside the border and stands
\* where it overlaps no wall.
LEMMA StayX ==
    ASSUME MapHoldsPlayer, NEW px \in Int, NEW py \in Int, NEW d \in Int,
           Inside(px, py), Free(AreaX(Box(px, py), d))
    PROVE  Inside(px + d, py) /\ Free(Box(px + d, py))
<1> DEFINE b == Box(px, py)
           a == AreaX(b, d)
           E == (GridX - 1) * Tile
           F == (GridY - 1) * Tile
<1>1. /\ Tile \in Nat \ {0} /\ GridX \in Nat \ {0} /\ GridY \in Nat \ {0}
      /\ Width \in Nat /\ Height \in Nat /\ Width > 0 /\ Height > 0
  BY ConstantTypes DEF MapHoldsPlayer
<1>2. /\ a.x = Lo(px, px + d) /\ a.w = Width + Hi(px, px + d) - Lo(px, px + d)
      /\ a.y = py /\ a.h = Height
  BY DEF AreaX, Box
<1>3. ASSUME NEW i \in Solid
      PROVE  Apart(a.x, a.w, TileBox(i).x, TileBox(i).w)
                \/ Apart(a.y, a.h, TileBox(i).y, TileBox(i).h)
  BY DEF Free, Overlaps
<1> HIDE DEF a, b
<1>4. E \in Int /\ F \in Int
  BY <1>1
<1>5. /\ px >= Tile /\ px + Width <= E
      /\ py >= Tile /\ py + Height <= F
  BY DEF Inside
<1>6. PICK r \in Int : /\ 0 <= r /\ r <= GridY - 1
                       /\ r * Tile <= py /\ py < r * Tile + Tile
  BY <1>1, <1>5, RowOf
<1>7. r * Tile \in Int
  BY <1>1
\* The border tile in column c of that row is not in the way.
<1>8. ASSUME NEW c \in {0, GridX - 1}
      PROVE  Apart(a.x, a.w, c * Tile, Tile)
  <2>1. c \in Int /\ 0 <= c /\ c <= GridX - 1
    BY <1>1
  <2>2. PICK i \in Solid : /\ TileBox(i).x = c * Tile /\ TileBox(i).y = r * Tile
                           /\ TileBox(i).w = Tile /\ TileBox(i).h = Tile
    BY <2>1, <1>6, BorderTile
  <2>3. ~Apart(a.y, a.h, TileBox(i).y, TileBox(i).h)
    BY <2>2, <1>1, <1>2, <1>6, <1>7 DEF Apart
  <2> QED  BY <2>2, <2>3, <1>3
<1>9. Apart(a.x, a.w, 0, Tile) /\ Apart(a.x, a.w, E, Tile)
  <2>1. 0 * Tile = 0
    BY <1>1
  <2> QED  BY <2>1, <1>8
<1> HIDE DEF E, F
<1>10. px + d >= Tile
  BY <1>1, <1>2, <1>4, <1>5, <1>9 DEF Apart, Lo, Hi
<1>11. px + d + Width <= E
  BY <1>1, <1>2, <1>4, <1>5, <1>9 DEF Apart, Lo, Hi
<1>12. Inside(px + d, py)
  BY <1>5, <1>10, <1>11 DEF Inside, E, F
<1>13. ASSUME NEW i \in Solid
       PROVE  ~Overlaps(Box(px + d, py), TileBox(i))
  <2>1. /\ TileBox(i).x \in Int /\ TileBox(i).y \in Int
        /\ TileBox(i).w \in Nat /\ TileBox(i).h \in Nat
    BY BoxTypes DEF Boxes
  <2>2. /\ Box(px + d, py).x = px + d /\ Box(px + d, py).y = py
        /\ Box(px + d, py).w = Width /\ Box(px + d, py).h = Height
    BY DEF Box
  <2> QED  BY <2>1, <2>2, <1>1, <1>2, <1>3 DEF Overlaps, Apart, Lo, Hi
<1> QED  BY <1>12, <1>13 DEF Free

\* Who moves along y without crossing a wall stays inside the border and stands
\* where it overlaps no wall.
LEMMA StayY ==
    ASSUME MapHoldsPlayer, NEW px \in Int, NEW py \in Int, NEW d \in Int,
           Inside(px, py), Free(AreaY(Box(px, py), d))
    PROVE  Inside(px, py + d) /\ Free(Box(px, py + d))
<1> DEFINE b == Box(px, py)
           a == AreaY(b, d)
           E == (GridY - 1) * Tile
           F == (GridX - 1) * Tile
<1>1. /\ Tile \in Nat \ {0} /\ GridY \in Nat \ {0} /\ GridX \in Nat \ {0}
      /\ Height \in Nat /\ Width \in Nat /\ Height > 0 /\ Width > 0
  BY ConstantTypes DEF MapHoldsPlayer
<1>2. /\ a.y = Lo(py, py + d) /\ a.h = Height + Hi(py, py + d) - Lo(py, py + d)
      /\ a.x = px /\ a.w = Width
  BY DEF AreaY, Box
<1>3. ASSUME NEW i \in Solid
      PROVE  Apart(a.y, a.h, TileBox(i).y, TileBox(i).h)
                \/ Apart(a.x, a.w, TileBox(i).x, TileBox(i).w)
  BY DEF Free, Overlaps
<1> HIDE DEF a, b
<1>4. E \in Int /\ F \in Int
  BY <1>1
<1>5. /\ py >= Tile /\ py + Height <= E
      /\ px >= Tile /\ px + Width <= F
  BY DEF Inside
<1>6. PICK r \in Int : /\ 0 <= r /\ r <= GridX - 1
                       /\ r * Tile <= px /\ px < r * Tile + Tile
  BY <1>1, <1>5, RowOf
<1>7. r * Tile \in Int
  BY <1>1
\* The border tile in row c of that column is not in the way.
<1>8. ASSUME NEW c \in {0, GridY - 1}
      PROVE  Apart(a.y, a.h, c * Tile, Tile)
  <2>1. c \in Int /\ 0 <= c /\ c <= GridY - 1
    BY <1>1
  <2>2. PICK i \in Solid : /\ TileBox(i).y = c * Tile /\ TileBox(i).x = r * Tile
                           /\ TileBox(i).h = Tile /\ TileBox(i).w = Tile
    BY <2>1, <1>6, BorderTile
  <2>3. ~Apart(a.x, a.w, TileBox(i).x, TileBox(i).w)
    BY <2>2, <1>1, <1>2, <1>6, <1>7 DEF Apart
  <2> QED  BY <2>2, <2>3, <1>3
<1>9. Apart(a.y, a.h, 0, Tile) /\ Apart(a.y, a.h, E, Tile)
  <2>1. 0 * Tile = 0
    BY <1>1
  <2> QED  BY <2>1, <1>8
<1> HIDE DEF E, F
<1>10. py + d >= Tile
  BY <1>1, <1>2, <1>4, <1>5, <1>9 DEF Apart, Lo, Hi
<1>11. py + d + Height <= E
  BY <1>1, <1>2, <1>4, <1>5, <1>9 DEF Apart, Lo, Hi
<1>12. Inside(px, py + d)
  BY <1>5, <1>10, <1>11 DEF Inside, E, F
<1>13. ASSUME NEW i \in Solid
       PROVE  ~Overlaps(Box(px, py + d), TileBox(i))
  <2>1. /\ TileBox(i).y \in Int /\ TileBox(i).x \in Int
        /\ TileBox(i).h \in Nat /\ TileBox(i).w \in Nat
    BY BoxTypes DEF Boxes
  <2>2. /\ Box(px, py + d).y = py + d /\ Box(px, py + d).x = px
        /\ Box(px, py + d).h = Height /\ Box(px, py + d).w = Width
    BY DEF Box
  <2> QED  BY <2>1, <2>2, <1>1, <1>2, <1>3 DEF Overlaps, Apart, Lo, Hi
<1> QED  BY <1>12, <1>13 DEF Free

-----------------------------------------------------------------------------
(* The player never leaves the border.                                     *)

\* The player is inside the border, in no wall, and slow enough that no move of
\* the next Update reaches above or left of the map.
HeldInv ==
    /\ TypeOK
    /\ Inside(x, y)
    /\ Free(Box(x, y))
    /\ NoSpeedGathers
    /\ -Tile <= vel_x /\ vel_x <= Tile
    /\ phase = "sleep" => -Tile <= vel_y
    /\ phase = "input" => -Tile <= vel_y + Gravity * dt

\* Update sweeps no wall and keeps the player inside.
LEMMA UpdateHeld ==
    ASSUME MapHoldsPlayer, HeldInv, Update
    PROVE  /\ Free(AreaX(Box(x, y), x' - x))
           /\ Free(AreaY(Box(x', y), y' - y))
           /\ HeldInv'
<1>1. /\ TypeOK /\ Inside(x, y) /\ Free(Box(x, y))
      /\ -Tile <= vel_x /\ vel_x <= Tile
  BY DEF HeldInv
<1>2. phase = "input" /\ phase' = "sleep" /\ dt' = dt
  BY DEF Update
<1>3. -Tile <= vel_y + Gravity * dt
  BY <1>2 DEF HeldInv
<1>4. /\ x \in Int /\ y \in Int /\ vel_x \in Int /\ vel_y \in Int
      /\ Tile \in Nat \ {0}
  BY <1>1, ConstantTypes DEF TypeOK
<1>5. PICK v \in Int, xs \in SweptAxis(Box(x, y), vel_x, 0) :
            /\ v = vel_y + Gravity * dt
            /\ Moves(vel_x, Scaled(vel_x, xs)) /\ x' = x + Scaled(vel_x, xs)
            /\ vel_x' \in {Scaled(vel_x, xs), 0, vel_x}
            /\ vel_y' \in {0, v} /\ (on_ground' => vel_y' = 0)
            /\ \E ys \in SweptAxis(Box(x', y), 0, v) :
                  /\ Moves(v, Scaled(v, ys)) /\ y' = y + Scaled(v, ys)
                  /\ vel_y' = 0 \/ Scaled(v, ys) = v
            /\ x' \in Int /\ y' \in Int
  BY <1>1, UpdateFacts
<1>6. PICK ys \in SweptAxis(Box(x', y), 0, v) :
         /\ Moves(v, Scaled(v, ys)) /\ y' = y + Scaled(v, ys)
         /\ vel_y' = 0 \/ Scaled(v, ys) = v
  BY <1>5
<1>7. ASSUME NEW px \in Int, NEW py \in Int
      PROVE  /\ Box(px, py) \in Boxes
             /\ Box(px, py).x = px /\ Box(px, py).y = py
  BY BoxTypes DEF Box
<1>8. x >= Tile /\ y >= Tile
  BY <1>1 DEF Inside
<1>9. Free(AreaX(Box(x, y), x' - x))
  <2>1. Scaled(vel_x, xs) \in Int /\ x' - x = Scaled(vel_x, xs)
    BY <1>4, <1>5 DEF Moves
  <2>2. x + vel_x >= 0 /\ x >= 0 /\ y >= 0
    BY <1>1, <1>4, <1>8
  <2>3. Free(AreaX(Box(x, y), Scaled(vel_x, xs)))
    BY <2>2, <1>1, <1>4, <1>7, SweepX
  <2> QED  BY <2>1, <2>3
<1>10. Inside(x', y) /\ Free(Box(x', y))
  <2>1. x' - x \in Int /\ x + (x' - x) = x'
    BY <1>4, <1>5
  <2>2. Inside(x + (x' - x), y) /\ Free(Box(x + (x' - x), y))
    BY <2>1, <1>1, <1>4, <1>9, StayX
  <2> QED  BY <2>1, <2>2
<1>11. Free(AreaY(Box(x', y), y' - y))
  <2>1. Scaled(v, ys) \in Int /\ y' - y = Scaled(v, ys)
    BY <1>4, <1>6 DEF Moves
  <2>2. y + v >= 0 /\ x' >= 0 /\ y >= 0
    BY <1>3, <1>4, <1>5, <1>8, <1>10 DEF Inside
  <2>3. Free(AreaY(Box(x', y), Scaled(v, ys)))
    BY <2>2, <1>4, <1>5, <1>7, <1>10, SweepY
  <2> QED  BY <2>1, <2>3
<1>12. Inside(x', y') /\ Free(Box(x', y'))
  <2>1. y' - y \in Int /\ y + (y' - y) = y'
    BY <1>4, <1>5
  <2>2. Inside(x', y + (y' - y)) /\ Free(Box(x', y + (y' - y)))
    BY <2>1, <1>4, <1>5, <1>10, <1>11, StayY
  <2> QED  BY <2>1, <2>2
<1>13. -Tile <= vel_x' /\ vel_x' <= Tile /\ -Tile <= vel_y'
  BY <1>1, <1>3, <1>4, <1>5 DEF Moves
<1>14. TypeOK'
  BY <1>1, TypeStep DEF Next
\* A fall that is not stopped adds all its speed to y, which is not negative.
<1>15. NoSpeedGathers'
  <2>1. y' \in Int /\ y' >= 0 /\ y >= 0
    BY <1>4, <1>5, <1>8, <1>12 DEF Inside
  <2>2. CASE vel_y' = 0
    BY <2>1, <2>2 DEF NoSpeedGathers
  <2>3. CASE vel_y' # 0
    <3>1. vel_y' = v /\ y' = y + v /\ ~on_ground'
      BY <2>3, <1>5, <1>6
    <3> QED  BY <2>1, <3>1, <1>4 DEF NoSpeedGathers
  <2> QED  BY <2>2, <2>3
<1> QED  BY <1>2, <1>9, <1>11, <1>12, <1>13, <1>14, <1>15 DEF HeldInv

\* Every step keeps the player inside.
LEMMA HeldStep ==
    ASSUME MapHoldsPlayer, HeldInv, [Next]_vars
    PROVE  HeldInv'
<1>1. /\ TypeOK /\ Inside(x, y) /\ Free(Box(x, y)) /\ NoSpeedGathers
      /\ -Tile <= vel_x /\ vel_x <= Tile
      /\ phase = "sleep" => -Tile <= vel_y
      /\ phase = "input" => -Tile <= vel_y + Gravity * dt
  BY DEF HeldInv
<1>2. TypeOK'
  BY <1>1, TypeStep
<1>3. /\ x \in Int /\ y \in Int /\ vel_x \in Int /\ vel_y \in Int
      /\ dt \in Dts \cup {0} /\ y >= 0
      /\ Tile \in Nat \ {0} /\ Dts \subseteq Nat
      /\ Speed \in Nat /\ Gravity \in Nat /\ JumpForce \in Nat
  BY <1>1, ConstantTypes, PhysicsAssumption DEF TypeOK, Inside
<1>4. \A d \in Dts \cup {0} : Speed * d <= Tile /\ (JumpForce - Gravity) * d <= Tile
  BY <1>3 DEF MapHoldsPlayer
<1>5. CASE \E d \in Dts : BeginTick(d)
  <2>1. PICK d \in Dts : BeginTick(d)
    BY <1>5
  <2>2. /\ phase' = "input" /\ dt' = d /\ vel_x' = 0 /\ phase = "sleep"
        /\ UNCHANGED <<x, y, vel_y, on_ground>>
    BY <2>1 DEF BeginTick
  <2>3. Gravity * d \in Nat
    BY <1>3
  <2>4. -Tile <= vel_y' + Gravity * dt'
    BY <2>2, <2>3, <1>1, <1>3
  <2> QED  BY <2>2, <2>4, <1>1, <1>2, <1>3 DEF HeldInv, NoSpeedGathers
<1>6. CASE MoveLeft \/ MoveRight
  <2>1. /\ vel_x' = Speed * dt \/ vel_x' = -(Speed * dt)
        /\ phase = "input" /\ UNCHANGED <<x, y, vel_y, on_ground, dt, phase>>
    BY <1>6 DEF MoveLeft, MoveRight
  <2>2. Speed * dt \in Nat /\ Speed * dt <= Tile
    BY <1>3, <1>4
  <2>3. -Tile <= vel_x' /\ vel_x' <= Tile
    BY <2>1, <2>2, <1>3
  <2> QED  BY <2>1, <2>3, <1>1, <1>2 DEF HeldInv, NoSpeedGathers
<1>7. CASE Jump
  <2>1. /\ vel_y' = -(JumpForce * dt) /\ phase = "input" /\ ~on_ground'
        /\ UNCHANGED <<x, y, vel_x, dt, phase>>
    BY <1>7 DEF Jump
  <2>2. /\ (JumpForce - Gravity) * dt <= Tile
        /\ (JumpForce - Gravity) * dt = JumpForce * dt - Gravity * dt
        /\ JumpForce * dt \in Nat /\ Gravity * dt \in Nat
    BY <1>3, <1>4
  <2>3. -Tile <= vel_y' + Gravity * dt'
    BY <2>1, <2>2, <1>3
  <2>4. NoSpeedGathers'
    BY <2>1, <2>2, <1>3 DEF NoSpeedGathers
  <2> QED  BY <2>1, <2>3, <2>4, <1>1, <1>2 DEF HeldInv
<1>8. CASE Update
  BY <1>8, UpdateHeld
<1>9. CASE UNCHANGED vars
  BY <1>1, <1>2, <1>9 DEF vars, HeldInv, NoSpeedGathers
<1> QED  BY <1>5, <1>6, <1>7, <1>8, <1>9 DEF Next

\* The player is held from the start.
LEMMA HeldInit ==
    ASSUME MapHoldsPlayer, Init
    PROVE  HeldInv
<1>1. StartX \in Int /\ StartY \in Int
  BY PhysicsAssumption
<1>2. /\ Dts \subseteq Nat /\ Gravity \in Nat /\ Tile \in Nat \ {0}
  BY ConstantTypes, PhysicsAssumption
<1>3. TypeOK
  <2>1. on_ground \in BOOLEAN
    BY DEF Init
  <2>2. /\ x \in Int /\ y \in Int /\ vel_x \in Int /\ vel_y \in Int
        /\ dt \in Dts \cup {0} /\ phase \in {"sleep", "input"}
    BY <1>1 DEF Init
  <2> QED  BY <2>1, <2>2 DEF TypeOK
<1>4. x = StartX /\ y = StartY /\ vel_x = 0 /\ vel_y = 0 /\ phase = "input"
      /\ ~on_ground /\ dt \in Nat
  BY <1>2 DEF Init
<1>5. Inside(x, y) /\ Free(Box(x, y))
  BY <1>4 DEF MapHoldsPlayer, Inside
<1>6. NoSpeedGathers
  BY <1>4, PhysicsAssumption DEF NoSpeedGathers
<1>7. Gravity * dt \in Nat
  BY <1>2, <1>4
<1> QED  BY <1>2, <1>3, <1>4, <1>5, <1>6, <1>7 DEF HeldInv

\* Inside a solid border, and while a tick moves nobody up or sideways by more
\* than a tile, the player is always inside.
THEOREM Held ==
    ASSUME MapHoldsPlayer
    PROVE  Spec => []HeldInv
<1>1. Init => HeldInv
  BY HeldInit
<1>2. HeldInv /\ [Next]_vars => HeldInv'
  BY HeldStep
<1> QED  BY <1>1, <1>2, PTL DEF Spec

\* A sweep of the box from px to qx, or from py to qy, covers what lies between
\* the two positions (collision.cpp:70-94).
LEMMA SweptSpan ==
    ASSUME NEW px \in Int, NEW py \in Int, NEW qx \in Int, NEW qy \in Int
    PROVE  /\ AreaX(Box(px, py), qx - px) =
                 [x |-> Lo(px, qx), y |-> py,
                  w |-> Width + Hi(px, qx) - Lo(px, qx), h |-> Height]
           /\ AreaY(Box(qx, py), qy - py) =
                 [x |-> qx, y |-> Lo(py, qy), w |-> Width,
                  h |-> Height + Hi(py, qy) - Lo(py, qy)]
<1>1. px + (qx - px) = qx /\ py + (qy - py) = qy
  OBVIOUS
<1>2. /\ Box(px, py).x = px /\ Box(px, py).y = py
      /\ Box(px, py).w = Width /\ Box(px, py).h = Height
      /\ Box(qx, py).x = qx /\ Box(qx, py).y = py
      /\ Box(qx, py).w = Width /\ Box(qx, py).h = Height
  BY DEF Box
<1> QED  BY <1>1, <1>2 DEF AreaX, AreaY

\* On such a map no step goes through a wall, however fast the fall
\* (world.cpp:170-211, collision.cpp:70-94).
THEOREM NoWallCrossed ==
    ASSUME MapHoldsPlayer
    PROVE  Spec => NeverThroughWalls
<1> DEFINE Clear ==
              /\ Free([x |-> Lo(x, x'), y |-> y, w |-> Width + Hi(x, x') - Lo(x, x'),
                       h |-> Height])
              /\ Free([x |-> x', y |-> Lo(y, y'), w |-> Width,
                       h |-> Height + Hi(y, y') - Lo(y, y')])
<1>1. HeldInv /\ HeldInv' /\ [Next]_vars => [Clear]_vars
  <2>1. SUFFICES ASSUME HeldInv, HeldInv', Next
        PROVE  Clear
    OBVIOUS
  <2>2. /\ x \in Int /\ y \in Int /\ x' \in Int /\ y' \in Int
        /\ Width \in Nat /\ Height \in Nat /\ Free(Box(x, y))
    BY <2>1, ConstantTypes DEF HeldInv, TypeOK
  <2>3. /\ AreaX(Box(x, y), x' - x) =
              [x |-> Lo(x, x'), y |-> y, w |-> Width + Hi(x, x') - Lo(x, x'),
               h |-> Height]
        /\ AreaY(Box(x', y), y' - y) =
              [x |-> x', y |-> Lo(y, y'), w |-> Width,
               h |-> Height + Hi(y, y') - Lo(y, y')]
    BY <2>2, SweptSpan
  <2>4. CASE Update
    BY <2>1, <2>3, <2>4, UpdateHeld
  <2>5. CASE ~Update
    <3>1. x' = x /\ y' = y
      BY <2>1, <2>5 DEF Next, BeginTick, MoveLeft, MoveRight, Jump
    <3>2. /\ Lo(x, x') = x /\ Hi(x, x') = x /\ Lo(y, y') = y /\ Hi(y, y') = y
          /\ Width + x - x = Width /\ Height + y - y = Height
      BY <3>1, <2>2 DEF Lo, Hi
    <3> QED  BY <3>1, <3>2, <2>2 DEF Box
  <2> QED  BY <2>4, <2>5
<1>2. NeverThroughWalls <=> [][Clear]_vars
  BY DEF NeverThroughWalls
<1> HIDE DEF Clear
<1> QED  BY <1>1, <1>2, Held, PTL DEF Spec

\* On such a map nobody gathers speed at rest, and no fall is faster than the way
\* from the top of the map (world.cpp:199-209).
THEOREM NobodyGathersSpeed ==
    ASSUME MapHoldsPlayer
    PROVE  Spec => []NoSpeedGathers
<1>1. HeldInv => NoSpeedGathers
  BY DEF HeldInv
<1> QED  BY <1>1, Held, PTL

\* On such a map the player stays inside the map: what "Clamp bounding box"
\* (collision.cpp:78) means holds until a tick is long enough to jump over a
\* tile.
THEOREM InMap ==
    ASSUME MapHoldsPlayer
    PROVE  Spec => []StaysInMap
<1>1. HeldInv => StaysInMap
  <2>1. SUFFICES ASSUME HeldInv
        PROVE  StaysInMap
    OBVIOUS
  <2>2. /\ x \in Int /\ y \in Int /\ Width \in Nat /\ Height \in Nat
        /\ Tile \in Nat \ {0} /\ GridX \in Nat \ {0} /\ GridY \in Nat \ {0}
    BY <2>1, ConstantTypes DEF HeldInv, TypeOK
  <2>3. /\ (GridX - 1) * Tile \in Int /\ (GridY - 1) * Tile \in Int
        /\ GridX * Tile = (GridX - 1) * Tile + Tile
        /\ GridY * Tile = (GridY - 1) * Tile + Tile
    BY <2>2
  <2>4. Inside(x, y)
    BY <2>1 DEF HeldInv
  <2> QED  BY <2>2, <2>3, <2>4 DEF Inside, StaysInMap
<1> QED  BY <1>1, Held, PTL
=============================================================================
