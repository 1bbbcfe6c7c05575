-------------------------- MODULE PongAtomic_proofs --------------------------
(***************************************************************************)
(* Proof that PongBoard implements PongAtomic: with the row mutexes,       *)
(* place() and move() take effect at one instant, on a board of any size   *)
(* with any number of balls.                                               *)
(***************************************************************************)
EXTENDS PongBoard_proofs

Heading(b) == <<dx[b], dy[b]>>

(* A ball about to be placed moves diagonally; a ball in motion had a       *)
(* direction when it locked its rows, and what it has now is that direction *)
(* turned round at the edges.  No other ball can have changed it since.     *)
Turned(v, at, low) == IF at + v \in low THEN v ELSE -v
DirectionsKept ==
    \A b \in Balls :
        /\ op[b] = "placing" => dx[b] \in {-1, 1} /\ dy[b] \in {-1, 1}
        /\ op[b] = "locked" => was[b] = Heading(b)
        /\ op[b] \in {"turned", "looked"} =>
              /\ was[b] # <<0, 0>>
              /\ dx[b] = Turned(was[b][1], x[b], Columns)
              /\ dy[b] = Turned(was[b][2], y[b], Lines)

-----------------------------------------------------------------------------
(* A ball whose operation is under way keeps its position, its direction    *)
(* and the state of its operation when another ball takes a step.           *)
Kept(o) == /\ op'[o] = op[o] /\ was'[o] = was[o] /\ placed'[o] = placed[o]
           /\ x'[o] = x[o] /\ y'[o] = y[o]
           /\ dx'[o] = dx[o] /\ dy'[o] = dy[o]

(* The ball that a move hits is not itself being operated on. *)
LEMMA HitIsIdle ==
    ASSUME IInv, NEW b \in Balls, op[b] = "looked", saw[b] = "ball"
    PROVE  /\ ball[Next_(b)] \in Balls
           /\ placed[ball[Next_(b)]] /\ Here(ball[Next_(b)]) = Next_(b)
           /\ ball[Next_(b)] # b => op[ball[Next_(b)]] = "idle"
<1> DEFINE n == ball[Next_(b)]
<1>1. Next_(b) \in Cells /\ Next_(b)[2] + 1 \in RowsOf(b)
  BY NextInRows
<1>2. n \in Balls
  <2>1. BallAt(Next_(b)[1], Next_(b)[2]) = n
    BY <1>1 DEF BallAt, Next_
  <2>2. Outlook(b) = "ball"
    BY DEF IInv, DecisionStable
  <2>3. TypeAt(Next_(b)[1], Next_(b)[2]) # "ball"
    BY SMTT(60) DEF TypeAt, IInv, TypeOK, CellTypes
  <2> QED BY <1>1, <2>1, <2>2, <2>3 DEF Outlook, IInv, TypeOK
<1>3. placed[n] /\ Here(n) = Next_(b)
  BY <1>1, <1>2, NoBallAssumption DEF IInv, CellsMatchBalls
<1>4. ASSUME n # b, Moving(n) PROVE FALSE
  <2>1. RowsOf(b) \cap RowsOf(n) = {}
    BY <1>2, <1>4, RowsDisjoint DEF Moving
  <2>2. y[n] \in Lines /\ y[n] = Next_(b)[2]
    BY <1>2, <1>3, RowsExist DEF Here
  <2>3. y[n] + 1 \in RowsOf(n)
    BY <2>2 DEF RowsOf
  <2> QED BY <1>1, <2>1, <2>2, <2>3
<1>5. op[n] # "placing"
  BY <1>2, <1>3 DEF IInv, OpsPlaced
<1>6. n # b => op[n] = "idle"
  BY <1>2, <1>4, <1>5 DEF IInv, TypeOK, Moving
<1> QED BY <1>2, <1>3, <1>6

(* A step of one ball leaves alone what the operation of another has fixed. *)
LEMMA BusyUndisturbed ==
    ASSUME IInv, NEW b \in Balls, NEW o \in Balls, o # b, op[o] # "idle",
           \/ PlaceStart(b) \/ (\E c \in Cells : PlaceTry(b, c))
           \/ MoveLock(b) \/ MoveTurn(b) \/ MoveLook(b)
           \/ MoveBlocked(b) \/ MoveFall(b) \/ MoveAdvance(b)
    PROVE  Kept(o)
<1>1. CASE PlaceStart(b)
  BY <1>1 DEF PlaceStart, Kept, IInv, TypeOK
<1>2. CASE \E c \in Cells : PlaceTry(b, c)
  BY <1>2 DEF PlaceTry, Kept, IInv, TypeOK
<1>3. CASE MoveLock(b)
  BY <1>3 DEF MoveLock, Kept, IInv, TypeOK
<1>4. CASE MoveTurn(b)
  BY <1>4 DEF MoveTurn, Return, Kept, IInv, TypeOK
<1>5. CASE MoveLook(b)
  BY <1>5 DEF MoveLook, Kept, IInv, TypeOK
<1>6. CASE MoveBlocked(b)
  <2>1. CASE saw[b] = "ball"
    <3>1. o # ball[Next_(b)] /\ ball[Next_(b)] \in Balls
      BY <1>6, <2>1, HitIsIdle DEF MoveBlocked
    <3>2. dx'[o] = dx[o] /\ dy'[o] = dy[o]
      BY <1>6, <2>1, <3>1 DEF MoveBlocked, Collided, IInv, TypeOK
    <3> QED BY <1>6, <3>2 DEF MoveBlocked, Return, Kept, IInv, TypeOK
  <2>2. CASE saw[b] # "ball"
    BY <1>6, <2>2 DEF MoveBlocked, Return, Kept, IInv, TypeOK
  <2> QED BY <2>1, <2>2
<1>7. CASE MoveFall(b)
  BY <1>7 DEF MoveFall, Return, Kept, IInv, TypeOK
<1>8. CASE MoveAdvance(b)
  BY <1>8 DEF MoveAdvance, Return, Kept, IInv, TypeOK
<1> QED BY <1>1, <1>2, <1>3, <1>4, <1>5, <1>6, <1>7, <1>8

(* DirectionsKept is inductive, given IInv. *)
LEMMA DirectionsKeptKept ==
    IInv /\ DirectionsKept /\ [Next]_vars => DirectionsKept'
<1> SUFFICES ASSUME IInv, DirectionsKept, [Next]_vars PROVE DirectionsKept'
  OBVIOUS
<1> DEFINE Good(o) ==
        /\ op[o] = "placing" => dx[o] \in {-1, 1} /\ dy[o] \in {-1, 1}
        /\ op[o] = "locked" => was[o] = Heading(o)
        /\ op[o] \in {"turned", "looked"} =>
              /\ was[o] # <<0, 0>>
              /\ dx[o] = Turned(was[o][1], x[o], Columns)
              /\ dy[o] = Turned(was[o][2], y[o], Lines)
<1>0. \A o \in Balls : Good(o)
  BY DEF DirectionsKept
<1>1. CASE UNCHANGED vars
  BY <1>1 DEF vars, DirectionsKept, Heading, Turned, Columns, Lines
<1>2. ASSUME NEW b \in Balls, NEW o \in Balls, o # b, op'[o] = op[o],
             Kept(o) \/ op[o] = "idle"
      PROVE  Good(o)'
  BY <1>0, <1>2 DEF Kept, Heading, Turned, Columns, Lines
<1>3. ASSUME NEW b \in Balls,
             \/ PlaceStart(b) \/ (\E c \in Cells : PlaceTry(b, c))
             \/ MoveLock(b) \/ MoveTurn(b) \/ MoveLook(b)
             \/ MoveBlocked(b) \/ MoveFall(b) \/ MoveAdvance(b)
      PROVE  DirectionsKept'
  <2>1. \A o \in Balls \ {b} : op'[o] = op[o]
    BY <1>3 DEF PlaceStart, PlaceTry, MoveLock, MoveTurn, MoveLook, MoveBlocked,
                MoveFall, MoveAdvance, Return, IInv, TypeOK
  <2>2. \A o \in Balls \ {b} : Good(o)'
    BY <1>2, <1>3, <2>1, BusyUndisturbed
  <2>3. Good(b)'
    <3>1. CASE PlaceStart(b)
      BY <3>1 DEF PlaceStart, IInv, TypeOK
    <3>2. CASE MoveLock(b)
      BY <3>2 DEF MoveLock, Heading, IInv, TypeOK
    <3>3. CASE MoveTurn(b)
      <4>1. CASE Stuck(b)
        BY <3>3, <4>1 DEF MoveTurn, Return, IInv, TypeOK
      <4>2. CASE ~Stuck(b)
        <5>1. /\ x[b] \in Columns /\ y[b] \in Lines
              /\ was[b] = <<dx[b], dy[b]>> /\ was'[b] = was[b]
              /\ dx[b] \in Int /\ dy[b] \in Int /\ x'[b] = x[b] /\ y'[b] = y[b]
          BY <3>3, <4>2, <1>0, RowsExist
             DEF MoveTurn, Heading, IInv, OpsPlaced, Moving, TypeOK
        <5>2. TypeAt(x[b] + dx[b], y[b]) = "obstacle" <=> x[b] + dx[b] \notin Columns
          BY <5>1 DEF TypeAt, Cells, IInv, TypeOK, CellTypes
        <5>3. TypeAt(x[b], y[b] + dy[b]) = "obstacle" <=> y[b] + dy[b] \notin Lines
          BY <5>1 DEF TypeAt, Cells, IInv, TypeOK, CellTypes
        <5>4. /\ dx'[b] = Turned(dx[b], x[b], Columns)
              /\ dy'[b] = Turned(dy[b], y[b], Lines)
          BY <3>3, <4>2, <5>2, <5>3 DEF MoveTurn, Turned, IInv, TypeOK
        <5>5. op'[b] = "turned" /\ was[b] # <<0, 0>>
          BY <3>3, <4>2, <5>1 DEF MoveTurn, Stuck, IInv, TypeOK
        <5> QED BY <5>1, <5>4, <5>5 DEF Turned, Columns, Lines
      <4> QED BY <4>1, <4>2
    <3>4. CASE MoveLook(b)
      BY <3>4, <1>0 DEF MoveLook, Turned, Columns, Lines, IInv, TypeOK
    <3>5. CASE \/ \E c \in Cells : PlaceTry(b, c)
               \/ MoveBlocked(b) \/ MoveFall(b) \/ MoveAdvance(b)
      BY <3>5 DEF PlaceTry, MoveBlocked, MoveFall, MoveAdvance, Return, IInv, TypeOK
    <3> QED BY <1>3, <3>1, <3>2, <3>3, <3>4, <3>5
  <2> QED BY <2>2, <2>3 DEF DirectionsKept
<1> QED BY <1>1, <1>3 DEF Next

-----------------------------------------------------------------------------
(* The abstract state. *)
Dir(b) == IF ~placed[b] THEN <<0, 0>>
          ELSE IF op[b] \in {"turned", "looked"} THEN was[b] ELSE Heading(b)
Wheres == [b \in Balls |-> Here(b)]
Dirs == [b \in Balls |-> Dir(b)]

(* A step of ball b that leaves every other ball's place and abstract       *)
(* direction alone, but perhaps that of ball o.                             *)
LEMMA OthersAlone ==
    ASSUME IInv, NEW b \in Balls, NEW o \in Balls, o # b,
           \/ PlaceStart(b) \/ (\E c \in Cells : PlaceTry(b, c))
           \/ MoveLock(b) \/ MoveTurn(b) \/ MoveLook(b)
           \/ MoveBlocked(b) \/ MoveFall(b) \/ MoveAdvance(b)
    PROVE  /\ Here(o)' = Here(o)
           /\ ~(MoveBlocked(b) /\ saw[b] = "ball" /\ o = ball[Next_(b)]) =>
                 Dir(o)' = Dir(o)
<1>1. op'[o] = op[o] /\ was'[o] = was[o] /\ placed'[o] = placed[o]
      /\ x'[o] = x[o] /\ y'[o] = y[o]
  BY DEF PlaceStart, PlaceTry, MoveLock, MoveTurn, MoveLook, MoveBlocked,
         MoveFall, MoveAdvance, Return, IInv, TypeOK
<1>2. ASSUME ~(MoveBlocked(b) /\ saw[b] = "ball" /\ o = ball[Next_(b)])
      PROVE  dx'[o] = dx[o] /\ dy'[o] = dy[o]
  <2>1. CASE MoveBlocked(b) /\ saw[b] = "ball"
    <3>1. o # ball[Next_(b)] /\ ball[Next_(b)] \in Balls
      BY <1>2, <2>1, HitIsIdle DEF MoveBlocked
    <3> QED BY <2>1, <3>1 DEF MoveBlocked, Collided, IInv, TypeOK
  <2>2. CASE MoveBlocked(b) /\ saw[b] # "ball"
    BY <2>2 DEF MoveBlocked, IInv, TypeOK
  <2>3. CASE ~MoveBlocked(b)
    BY <2>3 DEF PlaceStart, PlaceTry, MoveLock, MoveTurn, MoveLook,
                MoveFall, MoveAdvance, IInv, TypeOK
  <2> QED BY <2>1, <2>2, <2>3
<1> QED BY <1>1, <1>2 DEF Here, Dir, Heading

(* What a move that acts knows: where the ball goes, and its direction       *)
(* after the turns at the edges, as the abstract board computes them.        *)
LEMMA ActsOnTarget ==
    ASSUME IInv, DirectionsKept, NEW b \in Balls, op[b] = "looked"
    PROVE  /\ placed[b] /\ Here(b) \in Cells /\ Here(b) # <<-1, -1>>
           /\ Dir(b) = was[b] /\ was[b] # <<0, 0>>
           /\ Heading(b) = << Turned(was[b][1], x[b], Columns),
                              Turned(was[b][2], y[b], Lines) >>
           /\ Next_(b) \in Cells /\ Next_(b) # Here(b)
           /\ saw[b] = IF ball[Next_(b)] # NoBall THEN "ball" ELSE type[Next_(b)]
<1>1. placed[b] /\ Here(b) \in Cells /\ Next_(b) \in Cells
  BY RowsExist, NextInRows DEF IInv, OpsPlaced, Moving
<1>2. x[b] \in Int /\ y[b] \in Int /\ dx[b] \in Int /\ dy[b] \in Int
      /\ was[b] \in {-1, 0, 1} \X {-1, 0, 1}
  BY DEF IInv, TypeOK, Columns, Lines
<1>3. Here(b) # <<-1, -1>>
  BY <1>1 DEF Cells, Columns, Lines
<1>4. Dir(b) = was[b] /\ was[b] # <<0, 0>>
      /\ Heading(b) = << Turned(was[b][1], x[b], Columns),
                         Turned(was[b][2], y[b], Lines) >>
  BY <1>1 DEF Dir, DirectionsKept, Heading
<1>5. dx[b] # 0 \/ dy[b] # 0
  BY <1>2, <1>4 DEF Heading, Turned
<1>6. Next_(b) # Here(b)
  <2> DEFINE i == x[b]   j == y[b]   d == dx[b]   e == dy[b]
  <2>0. i \in Int /\ j \in Int /\ d \in Int /\ e \in Int /\ (d # 0 \/ e # 0)
    BY <1>2, <1>5
  <2> HIDE DEF i, j, d, e
  <2>1. i + d # i \/ j + e # j
    BY <2>0
  <2> USE DEF i, j, d, e
  <2> QED BY <2>1 DEF Next_, Here
<1>7. /\ BallAt(Next_(b)[1], Next_(b)[2]) = ball[Next_(b)]
      /\ TypeAt(Next_(b)[1], Next_(b)[2]) = type[Next_(b)]
  BY <1>1 DEF BallAt, TypeAt, Next_
<1>8. saw[b] = IF ball[Next_(b)] # NoBall THEN "ball" ELSE type[Next_(b)]
  BY <1>7 DEF IInv, DecisionStable, Outlook
<1> QED BY <1>1, <1>3, <1>4, <1>6, <1>8

-----------------------------------------------------------------------------
(* The steps that map to no step. *)
LEMMA QuietSteps ==
    ASSUME IInv, DirectionsKept, NEW b \in Balls,
           PlaceStart(b) \/ MoveLock(b) \/ MoveTurn(b) \/ MoveLook(b)
    PROVE  UNCHANGED <<type, Wheres, Dirs>>
<1>1. type' = type /\ Here(b)' = Here(b)
  BY DEF PlaceStart, MoveLock, MoveTurn, MoveLook, Here
<1>2. Dir(b)' = Dir(b)
  <2>1. CASE PlaceStart(b)
    BY <2>1 DEF PlaceStart, Dir
  <2>2. CASE MoveLock(b)
    BY <2>2 DEF MoveLock, Dir, Heading, IInv, TypeOK
  <2>3. CASE MoveTurn(b)
    <3>1. placed[b] /\ Dir(b) = Heading(b) /\ was[b] = Heading(b)
      BY <2>3 DEF MoveTurn, Dir, DirectionsKept, IInv, OpsPlaced, Moving
    <3>2. CASE Stuck(b)
      BY <2>3, <3>1, <3>2 DEF MoveTurn, Return, Dir, Heading, IInv, TypeOK
    <3>3. CASE ~Stuck(b)
      BY <2>3, <3>1, <3>3 DEF MoveTurn, Dir, IInv, TypeOK
    <3> QED BY <3>2, <3>3
  <2>4. CASE MoveLook(b)
    BY <2>4 DEF MoveLook, Dir, Heading, IInv, TypeOK
  <2> QED BY <2>1, <2>2, <2>3, <2>4
<1>3. \A o \in Balls \ {b} : Here(o)' = Here(o) /\ Dir(o)' = Dir(o)
  <2> SUFFICES ASSUME NEW o \in Balls \ {b}
               PROVE  Here(o)' = Here(o) /\ Dir(o)' = Dir(o)
    OBVIOUS
  <2>1. ~MoveBlocked(b)
    BY DEF PlaceStart, MoveLock, MoveTurn, MoveLook, MoveBlocked
  <2> QED BY <2>1, OthersAlone
<1> QED BY <1>1, <1>2, <1>3 DEF Wheres, Dirs

(* A placement takes effect when the ball enters its cell. *)
LEMMA PlaceTryPlaces ==
    ASSUME IInv, DirectionsKept, NEW b \in Balls, NEW c \in Cells, PlaceTry(b, c)
    PROVE  Atomic!Place(b)
<1>1. ~placed[b] /\ dx[b] \in {-1, 1} /\ dy[b] \in {-1, 1} /\ x[b] = -1 /\ y[b] = -1
  BY DEF PlaceTry, DirectionsKept, IInv, OpsPlaced, CellsMatchBalls
<1>2. \A o \in Balls : Here(o) # c
  <2> SUFFICES ASSUME NEW o \in Balls, Here(o) = c PROVE FALSE
    OBVIOUS
  <2>1. placed[o]
    BY DEF IInv, CellsMatchBalls, Here, Cells, Columns, Lines
  <2> QED BY <2>1, NoBallAssumption DEF PlaceTry, Suitable, IInv, CellsMatchBalls
<1>3. Here(b)' = c /\ Dir(b)' = <<dx[b], dy[b]>>
  BY DEF PlaceTry, Here, Dir, Heading, Cells, IInv, TypeOK
<1>4. \A o \in Balls \ {b} : Here(o)' = Here(o) /\ Dir(o)' = Dir(o)
  <2> SUFFICES ASSUME NEW o \in Balls \ {b}
               PROVE  Here(o)' = Here(o) /\ Dir(o)' = Dir(o)
    OBVIOUS
  <2>1. ~MoveBlocked(b)
    BY DEF PlaceTry, MoveBlocked
  <2> QED BY <2>1, OthersAlone
<1>5. Wheres' = [Wheres EXCEPT ![b] = c]
  BY <1>3, <1>4 DEF Wheres
<1>6. Dirs' = [Dirs EXCEPT ![b] = <<dx[b], dy[b]>>]
  BY <1>3, <1>4 DEF Dirs
<1>7. type[c] # "hole" /\ type' = type
  BY DEF PlaceTry, Suitable
<1>8. Wheres[b] = <<-1, -1>> /\ \A o \in Balls : Wheres[o] # c
  BY <1>1, <1>2 DEF Wheres, Here
<1>9. <<dx[b], dy[b]>> \in {-1, 1} \X {-1, 1}
  BY <1>1
<1>10. \E k \in Cells, d \in {-1, 1} \X {-1, 1} :
          /\ type[k] # "hole"
          /\ \A o \in Balls : Wheres[o] # k
          /\ Wheres' = [Wheres EXCEPT ![b] = k]
          /\ Dirs' = [Dirs EXCEPT ![b] = d]
  BY <1>5, <1>6, <1>7, <1>8, <1>9
<1> QED BY <1>7, <1>8, <1>10
        DEF Atomic!Place, Atomic!Off, Atomic!Cells, Cells, Columns, Lines,
            Wheres, Dirs, Dir, Heading

(* The abstract target of a move that acts is the cell that move() reads. *)
LEMMA AbstractTarget ==
    ASSUME IInv, DirectionsKept, NEW b \in Balls, op[b] = "looked"
    PROVE  Atomic!Bounced(b) = Heading(b) /\ Atomic!Target(b) = Next_(b)
<1>1. Wheres[b] = <<x[b], y[b]>> /\ Dirs[b] = was[b]
  BY ActsOnTarget DEF Wheres, Dirs, Here
<1>2. Atomic!Bounced(b) =
        << IF Wheres[b][1] + Dirs[b][1] \in 0..Width-1 THEN Dirs[b][1] ELSE -Dirs[b][1],
           IF Wheres[b][2] + Dirs[b][2] \in 0..Height-1 THEN Dirs[b][2] ELSE -Dirs[b][2] >>
  BY DEF Atomic!Bounced, Wheres, Dirs, Dir, Heading
<1>3. Atomic!Bounced(b) = Heading(b)
  BY <1>1, <1>2, ActsOnTarget DEF Turned, Columns, Lines
<1>4. Atomic!Target(b) = << Wheres[b][1] + Atomic!Bounced(b)[1],
                            Wheres[b][2] + Atomic!Bounced(b)[2] >>
  BY DEF Atomic!Target, Wheres
<1>5. Atomic!Target(b) = Next_(b)
  BY <1>1, <1>3, <1>4 DEF Heading, Next_
<1> QED BY <1>3, <1>5

(* A collision: the ball that was read in the next cell is idle, so that    *)
(* its direction is the abstract one.                                       *)
LEMMA BlockedCollides ==
    ASSUME IInv, DirectionsKept, NEW b \in Balls, MoveBlocked(b)
    PROVE  Atomic!Move(b)
<1>0. op[b] = "looked" /\ saw[b] = "ball"
  BY ActsOnTarget DEF MoveBlocked, IInv, TypeOK, CellTypes
<1>1. PICK n \in Balls : n = ball[Next_(b)]
  BY <1>0, HitIsIdle
<1>2. /\ n # b /\ placed[n] /\ Here(n) = Next_(b) /\ op[n] = "idle"
  BY <1>0, <1>1, HitIsIdle, ActsOnTarget
<1>3. type' = type /\ \A o \in Balls : Here(o)' = Here(o)
  BY DEF MoveBlocked, Here
<1>4. Dirs[b] = was[b] /\ Dirs[n] = Heading(n) /\ Dir(n) = Heading(n)
  BY <1>0, <1>2, ActsOnTarget DEF Dirs, Dir
<1>5. \A o \in Balls : o # b /\ o # n => Dir(o)' = Dir(o)
  BY <1>0, <1>1, OthersAlone
<1>6. /\ Dir(b)' = Atomic!Rebound(Heading(b), Heading(n))
      /\ Dir(n)' = Heading(b)
  <2>1. /\ placed'[b] /\ op'[b] = "idle" /\ placed'[n] /\ op'[n] = "idle"
    BY <1>0, <1>2, ActsOnTarget DEF MoveBlocked, Return, IInv, TypeOK
  <2>2. /\ dx'[b] = IF dx[n] # dx[b] THEN -dx[b] ELSE dx[b]
        /\ dy'[b] = IF dy[n] # dy[b] THEN -dy[b] ELSE dy[b]
        /\ dx'[n] = dx[b] /\ dy'[n] = dy[b]
    BY <1>0, <1>1, <1>2 DEF MoveBlocked, Collided, IInv, TypeOK
  <2>3. Dir(b)' = <<dx'[b], dy'[b]>> /\ Dir(n)' = <<dx'[n], dy'[n]>>
    BY <2>1 DEF Dir, Heading
  <2> QED BY <2>2, <2>3 DEF Atomic!Rebound, Heading
<1>7. Wheres' = Wheres
  BY <1>3 DEF Wheres
<1>8. Dirs' = [Dirs EXCEPT ![b] = Atomic!Rebound(Atomic!Bounced(b), Dirs[n]),
                           ![n] = Atomic!Bounced(b)]
  BY <1>0, <1>2, <1>4, <1>5, <1>6, AbstractTarget DEF Dirs
<1>9. Wheres[n] = Atomic!Target(b) /\ Wheres[b] # <<-1, -1>> /\ Dirs[b] # <<0, 0>>
  BY <1>0, <1>2, <1>4, AbstractTarget, ActsOnTarget DEF Wheres
<1>10. Atomic!Collide(b, n)
  BY <1>3, <1>7, <1>8, <1>9 DEF Atomic!Collide, Wheres, Dirs, Dir, Heading
<1> QED BY <1>2, <1>9, <1>10
        DEF Atomic!Move, Atomic!Off, Atomic!Still, Wheres, Dirs, Dir, Heading

(* The step in which a ball falls into a hole is the end of an atomic move. *)
LEMMA FallFalls ==
    ASSUME IInv, DirectionsKept, NEW b \in Balls, MoveFall(b)
    PROVE  Atomic!Move(b)
<1>1. op[b] = "looked" /\ saw[b] = "hole"
  BY DEF MoveFall
<1>2. type[Atomic!Target(b)] = "hole" /\ type' = type
  BY <1>1, AbstractTarget, ActsOnTarget DEF MoveFall
<1>3. Here(b)' = <<-1, -1>> /\ Dir(b)' = <<0, 0>>
  BY DEF MoveFall, Here, Dir, IInv, TypeOK
<1>4. \A o \in Balls \ {b} : Here(o)' = Here(o) /\ Dir(o)' = Dir(o)
  <2> SUFFICES ASSUME NEW o \in Balls \ {b}
               PROVE  Here(o)' = Here(o) /\ Dir(o)' = Dir(o)
    OBVIOUS
  <2>1. ~(MoveBlocked(b) /\ saw[b] = "ball" /\ o = ball[Next_(b)])
    BY <1>1
  <2> QED BY <2>1, OthersAlone
<1>5. Wheres' = [Wheres EXCEPT ![b] = <<-1, -1>>]
  BY <1>3, <1>4 DEF Wheres
<1>6. Dirs' = [Dirs EXCEPT ![b] = <<0, 0>>]
  BY <1>3, <1>4 DEF Dirs
<1>7. Wheres[b] # <<-1, -1>> /\ Dirs[b] # <<0, 0>>
  BY <1>1, ActsOnTarget DEF Wheres, Dirs
<1>8. Atomic!Fall(b)
  BY <1>2, <1>5, <1>6
     DEF Atomic!Fall, Atomic!Off, Atomic!Still, Wheres, Dirs, Dir, Heading
<1> QED BY <1>7, <1>8
        DEF Atomic!Move, Atomic!Off, Atomic!Still, Wheres, Dirs, Dir, Heading

(* So is the step in which it advances. *)
LEMMA AdvanceAdvances ==
    ASSUME IInv, DirectionsKept, NEW b \in Balls, MoveAdvance(b)
    PROVE  Atomic!Move(b)
<1>1. op[b] = "looked" /\ saw[b] \in {"empty", "sticky"}
  BY DEF MoveAdvance
<1>2. /\ ball[Next_(b)] = NoBall /\ type[Next_(b)] = saw[b] /\ type' = type
      /\ Next_(b) \in Cells
  BY <1>1, ActsOnTarget DEF MoveAdvance
<1>3. /\ Here(b)' = Next_(b)
      /\ Dir(b)' = IF saw[b] = "sticky" THEN <<0, 0>> ELSE Heading(b)
  <2>1. placed'[b] /\ op'[b] = "idle"
    BY <1>1, ActsOnTarget DEF MoveAdvance, Return, IInv, TypeOK
  <2>2. x'[b] = x[b] + dx[b] /\ y'[b] = y[b] + dy[b]
    BY DEF MoveAdvance, IInv, TypeOK
  <2>3. /\ dx'[b] = IF saw[b] = "sticky" THEN 0 ELSE dx[b]
        /\ dy'[b] = IF saw[b] = "sticky" THEN 0 ELSE dy[b]
    BY DEF MoveAdvance, IInv, TypeOK
  <2> QED BY <2>1, <2>2, <2>3 DEF Here, Next_, Dir, Heading
<1>4. \A o \in Balls \ {b} : Here(o)' = Here(o) /\ Dir(o)' = Dir(o)
  <2> SUFFICES ASSUME NEW o \in Balls \ {b}
               PROVE  Here(o)' = Here(o) /\ Dir(o)' = Dir(o)
    OBVIOUS
  <2>1. ~(MoveBlocked(b) /\ saw[b] = "ball" /\ o = ball[Next_(b)])
    BY <1>1
  <2> QED BY <2>1, OthersAlone
<1>5. Wheres' = [Wheres EXCEPT ![b] = Next_(b)]
  BY <1>3, <1>4 DEF Wheres
<1>6. Dirs' = [Dirs EXCEPT ![b] = IF saw[b] = "sticky" THEN <<0, 0>> ELSE Heading(b)]
  BY <1>3, <1>4 DEF Dirs
<1>7. \A o \in Balls : Wheres[o] # Next_(b)
  <2> SUFFICES ASSUME NEW o \in Balls, Here(o) = Next_(b) PROVE FALSE
    BY DEF Wheres
  <2>1. placed[o]
    BY <1>2 DEF IInv, CellsMatchBalls, Here, Cells, Columns, Lines
  <2> QED BY <2>1, <1>2, NoBallAssumption DEF IInv, CellsMatchBalls
<1>8. Wheres[b] # <<-1, -1>> /\ Dirs[b] # <<0, 0>>
  BY <1>1, ActsOnTarget DEF Wheres, Dirs
<1>9. /\ type[Atomic!Target(b)] # "hole"
      /\ \A o \in Balls : Wheres[o] # Atomic!Target(b)
      /\ Wheres' = [Wheres EXCEPT ![b] = Atomic!Target(b)]
      /\ Dirs' = [Dirs EXCEPT ![b] = IF type[Atomic!Target(b)] = "sticky"
                                     THEN <<0, 0>> ELSE Atomic!Bounced(b)]
  BY <1>1, <1>2, <1>5, <1>6, <1>7, AbstractTarget
<1>10. Atomic!Advance(b)
  BY <1>2, <1>9 DEF Atomic!Advance, Atomic!Still, Wheres, Dirs, Dir, Heading
<1> QED BY <1>8, <1>10
        DEF Atomic!Move, Atomic!Off, Atomic!Still, Wheres, Dirs, Dir, Heading

-----------------------------------------------------------------------------
(* The board starts as the atomic board does, *)
LEMMA InitMaps == Init => Atomic!Init /\ DirectionsKept
<1> SUFFICES ASSUME Init PROVE Atomic!Init /\ DirectionsKept
  OBVIOUS
<1>1. type \in [Atomic!Cells -> {"empty", "sticky", "hole"}]
  BY DEF Init, Layouts, CellTypes, Atomic!Cells, Cells, Columns, Lines
<1>2. Wheres = [b \in Balls |-> <<-1, -1>>] /\ Dirs = [b \in Balls |-> <<0, 0>>]
  BY DEF Init, Wheres, Dirs, Dir, Here
<1>3. DirectionsKept
  BY DEF Init, DirectionsKept
<1> QED BY <1>1, <1>2, <1>3
        DEF Atomic!Init, Atomic!Off, Atomic!Still, Wheres, Dirs, Dir, Heading

(* and every step of it is one of the atomic board or is not seen. *)
LEMMA NextMaps ==
    IInv /\ DirectionsKept /\ [Next]_vars => [Atomic!Next]_(Atomic!vars)
<1> SUFFICES ASSUME IInv, DirectionsKept, [Next]_vars
             PROVE  [Atomic!Next]_(Atomic!vars)
  OBVIOUS
<1>1. ASSUME UNCHANGED <<type, Wheres, Dirs>> PROVE UNCHANGED Atomic!vars
  BY <1>1 DEF Atomic!vars, Wheres, Dirs, Dir, Heading
<1>2. CASE UNCHANGED vars
  BY <1>1, <1>2 DEF vars, Wheres, Dirs, Dir, Heading, Here
<1>3. ASSUME NEW b \in Balls,
             PlaceStart(b) \/ MoveLock(b) \/ MoveTurn(b) \/ MoveLook(b)
      PROVE  UNCHANGED Atomic!vars
  BY <1>1, <1>3, QuietSteps
<1>4. ASSUME NEW b \in Balls,
             \/ \E c \in Cells : PlaceTry(b, c)
             \/ MoveBlocked(b) \/ MoveFall(b) \/ MoveAdvance(b)
      PROVE  Atomic!Place(b) \/ Atomic!Move(b)
  BY <1>4, PlaceTryPlaces, BlockedCollides, FallFalls, AdvanceAdvances
<1> QED BY <1>2, <1>3, <1>4 DEF Next, Atomic!Next

(* ImplementsAtomic: however the threads of the balls interleave, what an   *)
(* observer sees of the board is a sequence of placements and moves that    *)
(* each happen at one instant.                                              *)
THEOREM Atomicity == Spec => ImplementsAtomic
<1>1. Spec => []IInv
  BY Invariance
<1>2. Init => DirectionsKept /\ Atomic!Init
  BY InitMaps
<1>3. IInv /\ DirectionsKept /\ [Next]_vars => DirectionsKept'
  BY DirectionsKeptKept
<1>4. IInv /\ DirectionsKept /\ [Next]_vars => [Atomic!Next]_(Atomic!vars)
  BY NextMaps
<1> QED BY <1>1, <1>2, <1>3, <1>4, PTL DEF Spec, ImplementsAtomic, Atomic!Spec
==============================================================================
