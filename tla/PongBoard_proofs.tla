-------------------------- MODULE PongBoard_proofs --------------------------
(***************************************************************************)
(* Proofs that the row mutexes of PongBoard do their work on a board of    *)
(* any size with any number of balls.                                      *)
(***************************************************************************)
EXTENDS PongBoard, TLAPS

(* A ball that is moved is on the board, one that is being placed is not.   *)
OpsPlaced == \A b \in Balls : /\ Moving(b) => placed[b]
                              /\ op[b] = "placing" => ~placed[b]

(* The inductive invariant: consistency of the board needs the decisions to *)
(* be stable, these need the mutexes, and the mutexes need the positions.   *)
IInv == /\ TypeOK
        /\ OpsPlaced
        /\ CellsMatchBalls
        /\ RowsHeldByMoves
        /\ NextOnBoard
        /\ DecisionStable

-----------------------------------------------------------------------------
(* The lines of a ball on the board have mutexes. *)
LEMMA RowsExist ==
    ASSUME IInv, NEW b \in Balls, placed[b]
    PROVE  /\ x[b] \in Columns /\ y[b] \in Lines
           /\ RowsOf(b) \subseteq Rows
           /\ Here(b) \in Cells /\ ball[Here(b)] = b
<1>1. Here(b) \in Cells /\ ball[Here(b)] = b
  BY DEF IInv, CellsMatchBalls
<1>2. x[b] \in Columns /\ y[b] \in Lines
  BY <1>1 DEF Here, Cells
<1>3. RowsOf(b) \subseteq Rows
  BY <1>2, SizeAssumption DEF RowsOf, Rows, Lines
<1> QED BY <1>1, <1>2, <1>3

(* Two moves in progress have no line in common. *)
LEMMA RowsDisjoint ==
    ASSUME IInv, NEW b \in Balls, NEW o \in Balls, b # o, Moving(b), Moving(o)
    PROVE  RowsOf(b) \cap RowsOf(o) = {}
<1>1. RowsOf(b) \subseteq Rows
  BY RowsExist DEF IInv, OpsPlaced
<1> QED BY <1>1 DEF IInv, RowsHeldByMoves

(* Whatever a move in progress looks at or writes lies on its lines. *)
LEMMA NextInRows ==
    ASSUME IInv, NEW b \in Balls, op[b] \in {"turned", "looked"}
    PROVE  /\ Next_(b) \in Cells
           /\ Next_(b)[2] + 1 \in RowsOf(b)
           /\ Here(b)[2] + 1 \in RowsOf(b)
<1>1. Next_(b) \in Cells
  BY DEF IInv, NextOnBoard
<1>2. y[b] \in Lines /\ dy[b] \in {-1, 0, 1}
  BY RowsExist DEF IInv, OpsPlaced, Moving, TypeOK
<1>3. Next_(b)[2] = y[b] + dy[b] /\ Here(b)[2] = y[b]
  BY DEF Next_, Here
<1> QED BY <1>1, <1>2, <1>3 DEF RowsOf, Lines

-----------------------------------------------------------------------------
(* The invariant is kept by the start of a placement. *)
LEMMA PlaceStartKeeps ==
    ASSUME IInv, NEW b \in Balls, PlaceStart(b)
    PROVE  IInv'
<1> USE DEF PlaceStart
<1>1. TypeOK'
  BY DEF IInv, TypeOK
<1>2. OpsPlaced'
  BY DEF IInv, OpsPlaced, Moving, TypeOK
<1>3. CellsMatchBalls'
  BY DEF IInv, CellsMatchBalls, Here
<1>4. RowsHeldByMoves'
  BY DEF IInv, RowsHeldByMoves, Moving, RowsOf, TypeOK
<1>5. NextOnBoard'
  BY DEF IInv, NextOnBoard, Next_, TypeOK
<1>6. DecisionStable'
  BY DEF IInv, DecisionStable, Outlook, BallAt, TypeAt, Next_, TypeOK
<1> QED BY <1>1, <1>2, <1>3, <1>4, <1>5, <1>6 DEF IInv

(* The cell a ball is placed on is free and no move in progress has its     *)
(* line.                                                                    *)
LEMMA PlaceTryKeeps ==
    ASSUME IInv, NEW b \in Balls, NEW c \in Cells, PlaceTry(b, c)
    PROVE  IInv'
<1> USE DEF PlaceTry, Suitable
<1>0. /\ c = <<c[1], c[2]>> /\ c[1] \in Columns /\ c[2] \in Lines
      /\ ~placed[b] /\ ~Moving(b) /\ b # NoBall
  BY NoBallAssumption DEF Cells, IInv, OpsPlaced, Moving
<1>1. TypeOK'
  BY <1>0 DEF IInv, TypeOK
<1>2. OpsPlaced'
  BY DEF IInv, OpsPlaced, Moving, TypeOK
<1>3. CellsMatchBalls'
  <2>1. Here(b)' = c /\ \A o \in Balls \ {b} : Here(o)' = Here(o)
    BY <1>0 DEF Here, IInv, TypeOK
  <2>2. \A d \in Cells \ {c} : ball[d] # b
    BY <1>0 DEF IInv, CellsMatchBalls
  <2>3. \A o \in Balls : ball[c] # o
    BY NoBallAssumption
  <2>4. ASSUME NEW o \in Balls, placed'[o]
        PROVE  Here(o)' \in Cells /\ ball'[Here(o)'] = o
    BY <2>1, <2>3, <2>4 DEF IInv, CellsMatchBalls, TypeOK
  <2>5. ASSUME NEW d \in Cells, ball'[d] # NoBall
        PROVE  placed'[ball'[d]] /\ <<x'[ball'[d]], y'[ball'[d]]>> = d
    BY <1>0, <2>1, <2>2, <2>5 DEF IInv, CellsMatchBalls, TypeOK, Here
  <2>6. \A o \in Balls : ~placed'[o] => x'[o] = -1 /\ y'[o] = -1
    BY DEF IInv, CellsMatchBalls, TypeOK
  <2> QED BY <2>4, <2>5, <2>6 DEF CellsMatchBalls, Here
<1>4. RowsHeldByMoves'
  BY <1>0 DEF IInv, RowsHeldByMoves, Moving, RowsOf, TypeOK
<1>5. NextOnBoard'
  BY <1>0 DEF IInv, NextOnBoard, Next_, TypeOK, Moving
<1>6. DecisionStable'
  <2> SUFFICES ASSUME NEW o \in Balls, op'[o] = "looked"
               PROVE  saw'[o] = Outlook(o)'
    BY DEF DecisionStable
  <2>1. o # b /\ op[o] = "looked" /\ Moving(o)
    BY DEF IInv, TypeOK, Moving
  <2>2. c[2] + 1 \notin RowsOf(o)
    BY <1>0, <2>1, NoBallAssumption, RowsExist
       DEF IInv, RowsHeldByMoves, RowFree, OpsPlaced
  <2>3. Next_(o) # c
    BY <2>1, <2>2, NextInRows
  <2>4. Next_(o)' = Next_(o)
    BY <2>1 DEF Next_, IInv, TypeOK
  <2>5. Outlook(o)' = Outlook(o)
    BY ZenonT(60), <2>3, <2>4 DEF Outlook, BallAt, TypeAt, Next_, IInv, TypeOK
  <2> QED BY <2>1, <2>5 DEF IInv, DecisionStable
<1> QED BY <1>1, <1>2, <1>3, <1>4, <1>5, <1>6 DEF IInv

(* Taking the mutexes. *)
LEMMA MoveLockKeeps ==
    ASSUME IInv, NEW b \in Balls, MoveLock(b)
    PROVE  IInv'
<1> USE DEF MoveLock
<1>1. TypeOK'
  BY DEF IInv, TypeOK
<1>2. OpsPlaced'
  BY DEF IInv, OpsPlaced, Moving, TypeOK
<1>3. CellsMatchBalls'
  BY DEF IInv, CellsMatchBalls, Here
<1>4. RowsHeldByMoves'
  BY NoBallAssumption
     DEF IInv, RowsHeldByMoves, Moving, RowsOf, RowFree, TypeOK
<1>5. NextOnBoard'
  BY DEF IInv, NextOnBoard, Next_, TypeOK
<1>6. DecisionStable'
  BY DEF IInv, DecisionStable, Outlook, BallAt, TypeAt, Next_, TypeOK
<1> QED BY <1>1, <1>2, <1>3, <1>4, <1>5, <1>6 DEF IInv

(* After turning, the next cell is on the board: it has two lines and two   *)
(* columns at least.                                                        *)
LEMMA MoveTurnKeeps ==
    ASSUME IInv, NEW b \in Balls, MoveTurn(b)
    PROVE  IInv'
<1> USE DEF MoveTurn
<1>0. /\ Moving(b) /\ placed[b] /\ x[b] \in Columns /\ y[b] \in Lines
      /\ dx[b] \in {-1, 0, 1} /\ dy[b] \in {-1, 0, 1}
  BY RowsExist DEF IInv, OpsPlaced, Moving, TypeOK
<1>1. TypeOK'
  <2>1. CASE Stuck(b)
    <3>1. was' \in [Balls -> {-1, 0, 1} \X {-1, 0, 1}]
      BY SMTT(60), <2>1 DEF IInv, TypeOK, Return
    <3>2. rowOwner' \in [Rows -> Balls \cup {NoBall}]
      BY <2>1 DEF IInv, TypeOK, Return, Unlock
    <3> QED BY ZenonT(60), <2>1, <3>1, <3>2 DEF IInv, TypeOK, Return
  <2>2. CASE ~Stuck(b)
    <3>1. -dx[b] \in {-1, 0, 1} /\ -dy[b] \in {-1, 0, 1}
      BY <1>0
    <3>2. PICK v \in {-1, 0, 1} : dx' = [dx EXCEPT ![b] = v]
      BY <2>2, <1>0, <3>1
    <3>3. PICK w \in {-1, 0, 1} : dy' = [dy EXCEPT ![b] = w]
      BY <2>2, <1>0, <3>1
    <3>4. dx' \in [Balls -> {-1, 0, 1}]
      BY <3>2 DEF IInv, TypeOK
    <3>5. dy' \in [Balls -> {-1, 0, 1}]
      BY <3>3 DEF IInv, TypeOK
    <3> QED BY <2>2, <3>4, <3>5 DEF IInv, TypeOK
  <2> QED BY <2>1, <2>2
<1>2. OpsPlaced'
  BY DEF IInv, OpsPlaced, Moving, TypeOK, Return
<1>3. CellsMatchBalls'
  BY DEF IInv, CellsMatchBalls, Here
<1>4. RowsHeldByMoves'
  <2>1. CASE Stuck(b)
    BY SMTT(60), <2>1, <1>0, RowsDisjoint, NoBallAssumption
       DEF IInv, RowsHeldByMoves, Moving, RowsOf, Return, Unlock, TypeOK
  <2>2. CASE ~Stuck(b)
    BY <2>2, <1>0 DEF IInv, RowsHeldByMoves, Moving, RowsOf, TypeOK
  <2> QED BY <2>1, <2>2
<1>5. NextOnBoard'
  <2> SUFFICES ASSUME NEW o \in Balls, op'[o] \in {"turned", "looked"}
               PROVE  Next_(o)' \in Cells
    BY DEF NextOnBoard
  <2>1. CASE o # b
    BY <2>1 DEF IInv, NextOnBoard, Next_, Return, TypeOK
  <2>2. CASE o = b
    <3>1. ~Stuck(b)
      BY <2>2 DEF Return, IInv, TypeOK
    <3>2. x[b] + dx'[b] \in Columns
      BY SMTT(60), <3>1, <1>0, SizeAssumption
         DEF IInv, TypeOK, TypeAt, Cells, Columns, Lines, CellTypes
    <3>3. y[b] + dy'[b] \in Lines
      BY SMTT(60), <3>1, <1>0, SizeAssumption
         DEF IInv, TypeOK, TypeAt, Cells, Columns, Lines, CellTypes
    <3> QED BY <2>2, <3>2, <3>3 DEF Next_, Cells
  <2> QED BY <2>1, <2>2
<1>6. DecisionStable'
  <2> SUFFICES ASSUME NEW o \in Balls, op'[o] = "looked"
               PROVE  saw'[o] = Outlook(o)'
    BY DEF DecisionStable
  <2>1. o # b /\ op[o] = "looked"
    BY DEF Return, IInv, TypeOK
  <2>2. Outlook(o)' = Outlook(o) /\ saw'[o] = saw[o]
    BY ZenonT(60), <2>1 DEF Outlook, BallAt, TypeAt, Next_, Return, IInv, TypeOK
  <2> QED BY <2>1, <2>2 DEF IInv, DecisionStable
<1> QED BY <1>1, <1>2, <1>3, <1>4, <1>5, <1>6 DEF IInv

(* Reading the next cell. *)
LEMMA MoveLookKeeps ==
    ASSUME IInv, NEW b \in Balls, MoveLook(b)
    PROVE  IInv'
<1> USE DEF MoveLook
<1>1. TypeOK'
  BY DEF IInv, TypeOK, Outlook, BallAt, TypeAt, CellTypes
<1>2. OpsPlaced'
  BY DEF IInv, OpsPlaced, Moving, TypeOK
<1>3. CellsMatchBalls'
  BY DEF IInv, CellsMatchBalls, Here
<1>4. RowsHeldByMoves'
  BY DEF IInv, RowsHeldByMoves, Moving, RowsOf, TypeOK
<1>5. NextOnBoard'
  BY DEF IInv, NextOnBoard, Next_, TypeOK
<1>6. DecisionStable'
  BY ZenonT(60) DEF IInv, DecisionStable, Outlook, BallAt, TypeAt, Next_, TypeOK
<1> QED BY <1>1, <1>2, <1>3, <1>4, <1>5, <1>6 DEF IInv

-----------------------------------------------------------------------------
(* What every return of move() does to the mutexes and to the moves in      *)
(* progress of other balls.                                                 *)
LEMMA ReturnReleases ==
    ASSUME IInv, NEW b \in Balls, Moving(b), Return(b),
           \A o \in Balls \ {b} : y'[o] = y[o]
    PROVE  /\ RowsHeldByMoves'
           /\ rowOwner' \in [Rows -> Balls \cup {NoBall}]
           /\ op' \in [Balls -> {"idle", "placing", "locked", "turned", "looked"}]
           /\ saw' \in [Balls -> {"none", "ball", "obstacle", "empty", "sticky", "hole"}]
           /\ was' \in [Balls -> {-1, 0, 1} \X {-1, 0, 1}]
           /\ ~Moving(b)' /\ op'[b] = "idle"
           /\ \A o \in Balls \ {b} : op'[o] = op[o] /\ saw'[o] = saw[o]
<1> USE DEF Return
<1>1. rowOwner' \in [Rows -> Balls \cup {NoBall}]
  BY DEF Unlock, IInv, TypeOK
<1>2. /\ op' \in [Balls -> {"idle", "placing", "locked", "turned", "looked"}]
      /\ saw' \in [Balls -> {"none", "ball", "obstacle", "empty", "sticky", "hole"}]
  BY DEF IInv, TypeOK
<1>3. was' \in [Balls -> {-1, 0, 1} \X {-1, 0, 1}]
  BY DEF IInv, TypeOK
<1>4. ~Moving(b)' /\ op'[b] = "idle"
  BY DEF Moving, IInv, TypeOK
<1>5. \A o \in Balls \ {b} : op'[o] = op[o] /\ saw'[o] = saw[o]
  BY DEF IInv, TypeOK
<1>6. RowsHeldByMoves'
  <2> SUFFICES ASSUME NEW r \in Rows, NEW o \in Balls
               PROVE  rowOwner'[r] = o <=> Moving(o)' /\ r \in RowsOf(o)'
    BY DEF RowsHeldByMoves
  <2>1. CASE o = b
    BY <2>1, <1>4, NoBallAssumption
       DEF Unlock, IInv, RowsHeldByMoves, TypeOK
  <2>2. CASE o # b
    <3>1. (Moving(o)' <=> Moving(o)) /\ RowsOf(o)' = RowsOf(o)
      BY <2>2, <1>5 DEF Moving, RowsOf
    <3>2. r \in RowsOf(b) => ~(Moving(o) /\ r \in RowsOf(o))
      BY <2>2, RowsDisjoint
    <3>3. CASE r \in RowsOf(b)
      BY <3>1, <3>2, <3>3, NoBallAssumption DEF Unlock
    <3>4. CASE r \notin RowsOf(b)
      BY <3>1, <3>4 DEF Unlock, IInv, RowsHeldByMoves
    <3> QED BY <3>3, <3>4
  <2> QED BY <2>1, <2>2
<1> QED BY <1>1, <1>2, <1>3, <1>4, <1>5, <1>6

(* A move that acts on its two cells disturbs no other ball's decision: the *)
(* next cell of that ball lies on lines of its own.                         *)
LEMMA OthersUndisturbed ==
    ASSUME IInv, NEW b \in Balls, op[b] = "looked",
           NEW o \in Balls, o # b, op[o] \in {"turned", "looked"}
    PROVE  Next_(o) # Here(b) /\ Next_(o) # Next_(b) /\ Here(o) # Next_(b)
<1>1. Moving(b) /\ Moving(o)
  BY DEF Moving
<1>2. RowsOf(b) \cap RowsOf(o) = {}
  BY <1>1, RowsDisjoint
<1>3. /\ Next_(b)[2] + 1 \in RowsOf(b) /\ Here(b)[2] + 1 \in RowsOf(b)
      /\ Next_(o)[2] + 1 \in RowsOf(o) /\ Here(o)[2] + 1 \in RowsOf(o)
  BY NextInRows
<1> QED BY <1>2, <1>3

(* The ball a move collides with is not itself being moved, so that the     *)
(* change of its direction upsets no decision.                              *)
LEMMA MoveBlockedKeeps ==
    ASSUME IInv, NEW b \in Balls, MoveBlocked(b)
    PROVE  IInv'
<1> USE DEF MoveBlocked
<1>0. /\ Moving(b) /\ placed[b] /\ op[b] = "looked" /\ Return(b)
      /\ Next_(b) \in Cells
      /\ \A o \in Balls : dx[o] \in {-1, 0, 1} /\ -dx[o] \in {-1, 0, 1}
      /\ \A o \in Balls : dy[o] \in {-1, 0, 1} /\ -dy[o] \in {-1, 0, 1}
  BY NextInRows DEF IInv, OpsPlaced, Moving, TypeOK
<1>1. saw[b] = "ball" /\ ball[Next_(b)] \in Balls
  <2>1. saw[b] = Outlook(b)
    BY <1>0 DEF IInv, DecisionStable
  <2>2. /\ BallAt(Next_(b)[1], Next_(b)[2]) = ball[Next_(b)]
        /\ TypeAt(Next_(b)[1], Next_(b)[2]) = type[Next_(b)]
    BY <1>0 DEF BallAt, TypeAt, Next_
  <2>3. type[Next_(b)] \in {"empty", "sticky", "hole"}
    BY <1>0 DEF IInv, TypeOK, CellTypes
  <2> QED BY <1>0, <2>1, <2>2, <2>3 DEF Outlook, IInv, TypeOK
<1> DEFINE n == ball[Next_(b)]
<1>2. /\ dx' \in [Balls -> {-1, 0, 1}] /\ dy' \in [Balls -> {-1, 0, 1}]
      /\ \A o \in Balls : o # b /\ o # n => dx'[o] = dx[o] /\ dy'[o] = dy[o]
  BY ZenonT(60), <1>0, <1>1 DEF Collided, IInv, TypeOK
<1>3. RowsHeldByMoves' /\ ~Moving(b)'
      /\ \A o \in Balls \ {b} : op'[o] = op[o] /\ saw'[o] = saw[o]
  BY <1>0, ReturnReleases
<1>4. TypeOK'
  BY <1>0, <1>2, ReturnReleases DEF IInv, TypeOK
<1>5. OpsPlaced'
  BY <1>0, <1>3, ReturnReleases DEF IInv, OpsPlaced, Moving
<1>6. CellsMatchBalls'
  BY DEF IInv, CellsMatchBalls, Here
<1>7. ASSUME NEW o \in Balls, op'[o] \in {"turned", "looked"}
      PROVE  /\ op[o] \in {"turned", "looked"} /\ o # b
             /\ Next_(o)' = Next_(o)
  <2>1. o # b /\ op[o] = op'[o]
    BY <1>3, <1>7 DEF Moving
  <2>2. o # n
    <3>1. Here(n) = Next_(b)
      BY <1>0, <1>1, NoBallAssumption DEF IInv, CellsMatchBalls
    <3> QED BY <3>1, <2>1, <1>0, <1>7, OthersUndisturbed
  <2> QED BY <1>2, <1>7, <2>1, <2>2 DEF Next_
<1>8. NextOnBoard'
  BY <1>7 DEF IInv, NextOnBoard, Cells, Columns, Lines
<1>9. DecisionStable'
  <2> SUFFICES ASSUME NEW o \in Balls, op'[o] = "looked"
               PROVE  saw'[o] = Outlook(o)'
    BY DEF DecisionStable
  <2>1. o # b /\ op[o] = "looked" /\ Next_(o)' = Next_(o) /\ saw'[o] = saw[o]
    BY <1>3, <1>7
  <2>2. Outlook(o)' = Outlook(o)
    BY <2>1 DEF Outlook, BallAt, TypeAt, Cells, Columns, Lines
  <2> QED BY <2>1, <2>2 DEF IInv, DecisionStable
<1> QED BY <1>3, <1>4, <1>5, <1>6, <1>8, <1>9 DEF IInv

(* Falling: the ball leaves its cell, the other balls keep theirs. *)
LEMMA MoveFallKeeps ==
    ASSUME IInv, NEW b \in Balls, MoveFall(b)
    PROVE  IInv'
<1> USE DEF MoveFall, Vacate
<1>0. /\ Moving(b) /\ placed[b] /\ op[b] = "looked" /\ Return(b)
      /\ Here(b) \in Cells /\ ball[Here(b)] = b
      /\ \A o \in Balls \ {b} : /\ x'[o] = x[o] /\ y'[o] = y[o]
                                /\ dx'[o] = dx[o] /\ dy'[o] = dy[o]
                                /\ placed'[o] = placed[o]
  BY RowsExist DEF IInv, OpsPlaced, Moving, TypeOK
<1>1. RowsHeldByMoves' /\ ~Moving(b)' /\ op'[b] = "idle"
      /\ \A o \in Balls \ {b} : op'[o] = op[o] /\ saw'[o] = saw[o]
  BY <1>0, ReturnReleases
<1>2. TypeOK'
  <2>1. ball' \in [Cells -> Balls \cup {NoBall}]
    BY DEF IInv, TypeOK
  <2> QED BY <1>0, <2>1, ReturnReleases DEF IInv, TypeOK
<1>3. OpsPlaced'
  BY <1>0, <1>1 DEF IInv, OpsPlaced, Moving
<1>4. CellsMatchBalls'
  <2>1. ASSUME NEW o \in Balls, placed'[o]
        PROVE  Here(o)' \in Cells /\ ball'[Here(o)'] = o
    <3>1. o # b
      BY <2>1 DEF IInv, TypeOK
    <3>2. Here(o)' = Here(o) /\ Here(o) \in Cells /\ ball[Here(o)] = o
      BY <2>1, <3>1, <1>0 DEF Here, IInv, CellsMatchBalls
    <3> QED BY <3>1, <3>2, <1>0 DEF IInv, TypeOK
  <2>2. ASSUME NEW d \in Cells, ball'[d] # NoBall
        PROVE  placed'[ball'[d]] /\ <<x'[ball'[d]], y'[ball'[d]]>> = d
    <3>1. d # Here(b) /\ ball'[d] = ball[d]
      BY <2>2, <1>0 DEF IInv, TypeOK
    <3>2. placed[ball[d]] /\ Here(ball[d]) = d /\ ball[d] \in Balls
      BY <2>2, <3>1 DEF IInv, CellsMatchBalls, TypeOK
    <3>3. ball[d] # b
      BY <3>1, <3>2
    <3> QED BY <3>1, <3>2, <3>3, <1>0 DEF Here
  <2>3. \A o \in Balls : ~placed'[o] => x'[o] = -1 /\ y'[o] = -1
    BY <1>0 DEF IInv, CellsMatchBalls, TypeOK
  <2> QED BY <2>1, <2>2, <2>3 DEF CellsMatchBalls, Here
<1>5. ASSUME NEW o \in Balls, op'[o] \in {"turned", "looked"}
      PROVE  /\ op[o] \in {"turned", "looked"} /\ o # b
             /\ Next_(o)' = Next_(o)
  BY <1>0, <1>1, <1>5 DEF Next_, Moving
<1>6. NextOnBoard'
  BY <1>5 DEF IInv, NextOnBoard, Cells, Columns, Lines
<1>7. DecisionStable'
  <2> SUFFICES ASSUME NEW o \in Balls, op'[o] = "looked"
               PROVE  saw'[o] = Outlook(o)'
    BY DEF DecisionStable
  <2>1. o # b /\ op[o] = "looked" /\ Next_(o)' = Next_(o) /\ saw'[o] = saw[o]
    BY <1>1, <1>5
  <2>2. Next_(o) # Here(b)
    BY <2>1, <1>0, OthersUndisturbed
  <2>3. Outlook(o)' = Outlook(o)
    BY <2>1, <2>2 DEF Outlook, BallAt, TypeAt, Next_, Cells, Columns, Lines, IInv, TypeOK
  <2> QED BY <2>1, <2>3 DEF IInv, DecisionStable
<1> QED BY <1>1, <1>2, <1>3, <1>4, <1>6, <1>7 DEF IInv

(* Advancing: the next cell was seen free, so it is free still. *)
LEMMA MoveAdvanceKeeps ==
    ASSUME IInv, NEW b \in Balls, MoveAdvance(b)
    PROVE  IInv'
<1> USE DEF MoveAdvance
<1>0. /\ Moving(b) /\ placed[b] /\ op[b] = "looked" /\ Return(b) /\ b # NoBall
      /\ Here(b) \in Cells /\ ball[Here(b)] = b /\ Next_(b) \in Cells
      /\ \A o \in Balls \ {b} : /\ x'[o] = x[o] /\ y'[o] = y[o]
                                /\ dx'[o] = dx[o] /\ dy'[o] = dy[o]
                                /\ placed'[o] = placed[o]
  BY RowsExist, NextInRows, NoBallAssumption
     DEF IInv, OpsPlaced, Moving, TypeOK
<1>1. ball[Next_(b)] = NoBall
  <2>1. saw[b] = Outlook(b) /\ saw[b] # "ball"
    BY <1>0 DEF IInv, DecisionStable
  <2>2. BallAt(Next_(b)[1], Next_(b)[2]) = ball[Next_(b)]
    BY <1>0 DEF BallAt, Next_
  <2> QED BY <2>1, <2>2 DEF Outlook
<1>2. Next_(b) # Here(b) /\ placed'[b]
  BY <1>0, <1>1
<1>3. <<x'[b], y'[b]>> = Next_(b)
  BY DEF Next_, IInv, TypeOK
<1>4. \A d \in Cells : ball'[d] = IF d = Next_(b) THEN b
                                  ELSE IF d = Here(b) THEN NoBall ELSE ball[d]
  BY <1>0, <1>2 DEF IInv, TypeOK
<1>5. RowsHeldByMoves' /\ ~Moving(b)' /\ op'[b] = "idle"
      /\ \A o \in Balls \ {b} : op'[o] = op[o] /\ saw'[o] = saw[o]
  BY <1>0, ReturnReleases
<1>6. TypeOK'
  <2>1. ball' \in [Cells -> Balls \cup {NoBall}]
    BY DEF IInv, TypeOK
  <2>2. x[b] + dx[b] \in Columns /\ y[b] + dy[b] \in Lines
    BY <1>0 DEF Next_, Cells
  <2>3. x' \in [Balls -> Columns \cup {-1}] /\ y' \in [Balls -> Lines \cup {-1}]
    BY <2>2 DEF IInv, TypeOK
  <2>4. dx' \in [Balls -> {-1, 0, 1}] /\ dy' \in [Balls -> {-1, 0, 1}]
    BY DEF IInv, TypeOK
  <2> QED BY <1>0, <2>1, <2>3, <2>4, ReturnReleases DEF IInv, TypeOK
<1>7. OpsPlaced'
  BY <1>0, <1>5 DEF IInv, OpsPlaced, Moving
<1>8. CellsMatchBalls'
  <2>1. ASSUME NEW o \in Balls, placed'[o]
        PROVE  <<x'[o], y'[o]>> \in Cells /\ ball'[<<x'[o], y'[o]>>] = o
    <3>1. CASE o = b
      <4>1. <<x'[o], y'[o]>> = Next_(b)
        BY <3>1, <1>3
      <4>2. ball'[Next_(b)] = b
        BY Zenon, <1>0, <1>4
      <4> QED BY <3>1, <4>1, <4>2, <1>0
    <3>2. CASE o # b
      <4>1. <<x'[o], y'[o]>> = Here(o) /\ Here(o) \in Cells /\ ball[Here(o)] = o
        BY <2>1, <3>2, <1>0 DEF Here, IInv, CellsMatchBalls
      <4>2. Here(o) # Here(b) /\ Here(o) # Next_(b)
        BY <3>2, <4>1, <1>0, <1>1, NoBallAssumption
      <4> QED BY <4>1, <4>2, <1>4
    <3> QED BY <3>1, <3>2
  <2>2. ASSUME NEW d \in Cells, ball'[d] # NoBall
        PROVE  placed'[ball'[d]] /\ <<x'[ball'[d]], y'[ball'[d]]>> = d
    <3>1. CASE d = Next_(b)
      BY <3>1, <1>2, <1>3, <1>4
    <3>2. CASE d # Next_(b)
      <4>1. d # Here(b) /\ ball'[d] = ball[d]
        BY <2>2, <3>2, <1>4
      <4>2. placed[ball[d]] /\ Here(ball[d]) = d /\ ball[d] \in Balls
        BY <2>2, <4>1 DEF IInv, CellsMatchBalls, TypeOK
      <4>3. ball[d] # b
        BY <4>1, <4>2
      <4> QED BY <4>1, <4>2, <4>3, <1>0 DEF Here
    <3> QED BY <3>1, <3>2
  <2>3. \A o \in Balls : ~placed'[o] => x'[o] = -1 /\ y'[o] = -1
    BY <1>0, <1>2 DEF IInv, CellsMatchBalls
  <2> QED BY <2>1, <2>2, <2>3 DEF CellsMatchBalls, Here
<1>9. ASSUME NEW o \in Balls, op'[o] \in {"turned", "looked"}
      PROVE  /\ op[o] \in {"turned", "looked"} /\ o # b
             /\ Next_(o)' = Next_(o)
  BY <1>0, <1>5, <1>9 DEF Next_, Moving
<1>10. NextOnBoard'
  BY <1>9 DEF IInv, NextOnBoard, Cells, Columns, Lines
<1>11. DecisionStable'
  <2> SUFFICES ASSUME NEW o \in Balls, op'[o] = "looked"
               PROVE  saw'[o] = Outlook(o)'
    BY DEF DecisionStable
  <2>1. o # b /\ op[o] = "looked" /\ Next_(o)' = Next_(o) /\ saw'[o] = saw[o]
    BY <1>5, <1>9
  <2>2. Next_(o) # Here(b) /\ Next_(o) # Next_(b)
    BY <2>1, <1>0, OthersUndisturbed
  <2>3. Next_(o) \in Cells => ball'[Next_(o)] = ball[Next_(o)]
    BY <2>2, <1>4
  <2>4. <<Next_(o)[1], Next_(o)[2]>> = Next_(o) /\ Cells' = Cells
    BY DEF Next_, Cells, Columns, Lines
  <2>5. BallAt(Next_(o)[1], Next_(o)[2])' = BallAt(Next_(o)[1], Next_(o)[2])
    BY <2>1, <2>3, <2>4 DEF BallAt
  <2>6. TypeAt(Next_(o)[1], Next_(o)[2])' = TypeAt(Next_(o)[1], Next_(o)[2])
    BY <2>1, <2>4 DEF TypeAt
  <2>7. Outlook(o)' = Outlook(o)
    BY <2>5, <2>6 DEF Outlook
  <2> QED BY <2>1, <2>7 DEF IInv, DecisionStable
<1> QED BY <1>5, <1>6, <1>7, <1>8, <1>10, <1>11 DEF IInv

-----------------------------------------------------------------------------
(* The empty board main() lays out satisfies the invariant. *)
LEMMA InitIInv == Init => IInv
<1> SUFFICES ASSUME Init PROVE IInv
  OBVIOUS
<1> USE DEF Init
<1>1. TypeOK
  BY DEF TypeOK, Layouts
<1>2. OpsPlaced /\ NextOnBoard /\ DecisionStable
  BY DEF OpsPlaced, Moving, NextOnBoard, DecisionStable
<1>3. CellsMatchBalls
  BY DEF CellsMatchBalls
<1>4. RowsHeldByMoves
  BY NoBallAssumption DEF RowsHeldByMoves, Moving
<1> QED BY <1>1, <1>2, <1>3, <1>4 DEF IInv

(* A stuttering step keeps the invariant. *)
LEMMA StutterKeeps == IInv /\ UNCHANGED vars => IInv'
BY DEF vars, IInv, TypeOK, OpsPlaced, Moving, CellsMatchBalls, Here,
       RowsHeldByMoves, RowsOf, NextOnBoard, Next_, DecisionStable, Outlook,
       BallAt, TypeAt

(* The invariant is kept by every step. *)
LEMMA NextKeeps == IInv /\ [Next]_vars => IInv'
<1> SUFFICES ASSUME IInv, [Next]_vars PROVE IInv'
  OBVIOUS
<1>1. CASE UNCHANGED vars
  BY <1>1, StutterKeeps
<1>2. ASSUME NEW b \in Balls, PlaceStart(b) PROVE IInv'
  BY <1>2, PlaceStartKeeps
<1>3. ASSUME NEW b \in Balls, NEW c \in Cells, PlaceTry(b, c) PROVE IInv'
  BY <1>3, PlaceTryKeeps
<1>4. ASSUME NEW b \in Balls, MoveLock(b) PROVE IInv'
  BY <1>4, MoveLockKeeps
<1>5. ASSUME NEW b \in Balls, MoveTurn(b) PROVE IInv'
  BY <1>5, MoveTurnKeeps
<1>6. ASSUME NEW b \in Balls, MoveLook(b) PROVE IInv'
  BY <1>6, MoveLookKeeps
<1>7. ASSUME NEW b \in Balls, MoveBlocked(b) PROVE IInv'
  BY <1>7, MoveBlockedKeeps
<1>8. ASSUME NEW b \in Balls, MoveFall(b) PROVE IInv'
  BY <1>8, MoveFallKeeps
<1>9. ASSUME NEW b \in Balls, MoveAdvance(b) PROVE IInv'
  BY <1>9, MoveAdvanceKeeps
<1> QED BY <1>1, <1>2, <1>3, <1>4, <1>5, <1>6, <1>7, <1>8, <1>9 DEF Next

(* IInv holds in every reachable state. *)
THEOREM Invariance == Spec => []IInv
BY NextKeeps, InitIInv, PTL DEF Spec

(* The variables stay in their ranges. *)
THEOREM TypeCorrect == Spec => []TypeOK
<1>1. IInv => TypeOK
  BY DEF IInv
<1> QED BY <1>1, Invariance, PTL

(* Cells and balls never disagree, on any board with any number of balls:   *)
(* move()'s assertion that its ball is stored in its cell (line 141).       *)
THEOREM BoardConsistent == Spec => []CellsMatchBalls
<1>1. IInv => CellsMatchBalls
  BY DEF IInv
<1> QED BY <1>1, Invariance, PTL

(* Every mutex is held by the move whose lines it protects, and by no other. *)
THEOREM MutexDiscipline == Spec => []RowsHeldByMoves
<1>1. IInv => RowsHeldByMoves
  BY DEF IInv
<1> QED BY <1>1, Invariance, PTL

(* What move() read in the next cell still holds when it acts on it. *)
THEOREM NoStaleDecision == Spec => []DecisionStable
<1>1. IInv => DecisionStable
  BY DEF IInv
<1> QED BY <1>1, Invariance, PTL

(* move()'s branch for an obstacle ahead is never taken. *)
THEOREM NeverAgainstObstacle == Spec => []NextOnBoard
<1>1. IInv => NextOnBoard
  BY DEF IInv
<1> QED BY <1>1, Invariance, PTL

-----------------------------------------------------------------------------
(* A ball comes to rest in a cell only if that cell is no hole. *)
LEMMA NoBallOnHoleKept == IInv /\ NoBallOnHole /\ [Next]_vars => NoBallOnHole'
<1> SUFFICES ASSUME IInv, NoBallOnHole, [Next]_vars PROVE NoBallOnHole'
  OBVIOUS
<1>0. type' = type
  <2>1. ASSUME NEW b \in Balls,
               PlaceStart(b) \/ (\E d \in Cells : PlaceTry(b, d)) \/ MoveLock(b)
        PROVE  type' = type
    BY <2>1 DEF PlaceStart, PlaceTry, MoveLock
  <2>2. ASSUME NEW b \in Balls, MoveTurn(b) \/ MoveLook(b) \/ MoveBlocked(b)
        PROVE  type' = type
    BY <2>2 DEF MoveTurn, MoveLook, MoveBlocked
  <2>3. ASSUME NEW b \in Balls, MoveFall(b) \/ MoveAdvance(b)
        PROVE  type' = type
    BY <2>3 DEF MoveFall, MoveAdvance
  <2>4. CASE UNCHANGED vars
    BY <2>4 DEF vars
  <2> QED BY <2>1, <2>2, <2>3, <2>4 DEF Next
<1> SUFFICES ASSUME NEW c \in Cells, ball'[c] # NoBall, ball'[c] # ball[c]
             PROVE  type'[c] \in {"empty", "sticky"}
  BY <1>0 DEF NoBallOnHole, Cells, Columns, Lines
<1>1. CASE UNCHANGED vars
  BY <1>1 DEF vars
<1>2. ASSUME NEW b \in Balls, NEW d \in Cells, PlaceTry(b, d)
      PROVE  type'[c] \in {"empty", "sticky"}
  BY <1>2 DEF PlaceTry, Suitable, IInv, TypeOK
<1>3. ASSUME NEW b \in Balls, MoveFall(b)
      PROVE  type'[c] \in {"empty", "sticky"}
  BY <1>3 DEF MoveFall, Vacate, IInv, TypeOK
<1>4. ASSUME NEW b \in Balls, MoveAdvance(b)
      PROVE  type'[c] \in {"empty", "sticky"}
  <2>1. c = Next_(b)
    BY <1>4 DEF MoveAdvance, IInv, TypeOK
  <2>2. saw[b] = Outlook(b) /\ saw[b] \in {"empty", "sticky"}
    BY <1>4 DEF MoveAdvance, IInv, DecisionStable
  <2>3. Outlook(b) = type[c]
    <3>1. TypeAt(Next_(b)[1], Next_(b)[2]) = type[c]
      BY <2>1 DEF TypeAt, Next_
    <3> QED BY <3>1, <2>2 DEF Outlook
  <2> QED BY <1>4, <2>2, <2>3 DEF MoveAdvance
<1> QED BY <1>1, <1>2, <1>3, <1>4
        DEF Next, PlaceStart, MoveLock, MoveTurn, MoveLook, MoveBlocked

(* The assertion of signal_handler (simpong61.cc, line 122), at any moment. *)
THEOREM HolesStayClear == Spec => []NoBallOnHole
<1>1. Init => NoBallOnHole
  BY DEF Init, NoBallOnHole
<1> QED BY <1>1, NoBallOnHoleKept, Invariance, PTL DEF Spec

-----------------------------------------------------------------------------
(* While a move acts, its ball has a direction to act on. *)
ActsInMotion ==
    \A b \in Balls : op[b] \in {"placing", "turned", "looked"} => dx[b] # 0

(* No step takes one coordinate of a direction only, nor both elsewhere     *)
(* than on a sticky cell.                                                   *)
LEMMA StillOnlyOnStickyKept ==
    IInv /\ StillOnlyOnSticky /\ ActsInMotion /\ [Next]_vars
        => StillOnlyOnSticky' /\ ActsInMotion'
<1> DEFINE Good(b) == /\ dx[b] = 0 <=> dy[b] = 0
                      /\ placed[b] /\ dx[b] = 0 => type[Here(b)] = "sticky"
                      /\ op[b] \in {"placing", "turned", "looked"} => dx[b] # 0
<1> SUFFICES ASSUME IInv, \A b \in Balls : Good(b), [Next]_vars, NEW q \in Balls
             PROVE  Good(q)'
  BY DEF StillOnlyOnSticky, ActsInMotion
<1>0. \A b \in Balls : dx[b] \in {-1, 0, 1} /\ dy[b] \in {-1, 0, 1}
  BY DEF IInv, TypeOK
<1>1. CASE UNCHANGED vars
  BY <1>1 DEF vars, Here
<1>2. ASSUME NEW b \in Balls, PlaceStart(b) PROVE Good(q)'
  BY <1>2 DEF PlaceStart, Here, IInv, TypeOK
<1>3. ASSUME NEW b \in Balls, NEW c \in Cells, PlaceTry(b, c) PROVE Good(q)'
  BY ZenonT(60), <1>3 DEF PlaceTry, Here, IInv, TypeOK
<1>4. ASSUME NEW b \in Balls, MoveLock(b) PROVE Good(q)'
  BY <1>4 DEF MoveLock, Here, IInv, TypeOK
<1>5. ASSUME NEW b \in Balls, MoveTurn(b) PROVE Good(q)'
  <2>1. /\ Here(q)' = Here(q) /\ placed' = placed /\ type' = type
        /\ q # b => op'[q] = op[q] /\ dx'[q] = dx[q] /\ dy'[q] = dy[q]
    BY <1>5 DEF MoveTurn, Return, Here, IInv, TypeOK
  <2>2. CASE Stuck(b)
    BY <1>5, <2>1, <2>2 DEF MoveTurn, Return, IInv, TypeOK
  <2>3. CASE ~Stuck(b)
    <3>1. dx[b] # 0 /\ dy[b] # 0
      BY <2>3 DEF Stuck
    <3>2. dx'[b] # 0 /\ dy'[b] # 0
      BY <1>5, <1>0, <2>3, <3>1 DEF MoveTurn, IInv, TypeOK
    <3> QED BY <2>1, <3>1, <3>2
  <2> QED BY <2>2, <2>3
<1>6. ASSUME NEW b \in Balls, MoveLook(b) PROVE Good(q)'
  BY <1>6 DEF MoveLook, Here, IInv, TypeOK
<1>7. ASSUME NEW b \in Balls, MoveBlocked(b) PROVE Good(q)'
  <2> DEFINE n == ball[Next_(b)]
  <2>1. op[b] = "looked" /\ dx[b] # 0 /\ dy[b] # 0
    BY <1>7 DEF MoveBlocked
  <2>2. /\ Here(q)' = Here(q) /\ placed' = placed /\ type' = type
        /\ op'[q] \in {"placing", "turned", "looked"} => op'[q] = op[q]
    BY <1>7 DEF MoveBlocked, Return, Here, IInv, TypeOK
  <2>3. CASE saw[b] = "ball" /\ (q = n \/ q = b)
    <3>1. dx'[q] # 0 /\ dy'[q] # 0
      BY SMTT(60), <1>7, <1>0, <2>1, <2>3 DEF MoveBlocked, Collided, IInv, TypeOK
    <3> QED BY <3>1
  <2>4. CASE saw[b] # "ball" /\ q = b
    <3>1. dx'[q] # 0 /\ dy'[q] # 0
      BY <1>7, <1>0, <2>1, <2>4 DEF MoveBlocked, IInv, TypeOK
    <3> QED BY <3>1
  <2>5. CASE q # b /\ (saw[b] = "ball" => q # n)
    <3>1. dx'[q] = dx[q] /\ dy'[q] = dy[q]
      BY <1>7, <2>5 DEF MoveBlocked, Collided, IInv, TypeOK
    <3> QED BY <3>1, <2>2
  <2> QED BY <2>3, <2>4, <2>5
<1>8. ASSUME NEW b \in Balls, MoveFall(b) PROVE Good(q)'
  BY <1>8 DEF MoveFall, Return, Here, IInv, TypeOK
<1>9. ASSUME NEW b \in Balls, MoveAdvance(b) PROVE Good(q)'
  <2>1. CASE q # b
    BY <1>9, <2>1 DEF MoveAdvance, Return, Here, IInv, TypeOK
  <2>2. CASE q = b /\ saw[b] = "empty"
    BY <1>9, <2>2 DEF MoveAdvance, Return, IInv, TypeOK
  <2>3. CASE q = b /\ saw[b] = "sticky"
    <3>1. dx'[b] = 0 /\ dy'[b] = 0 /\ op'[b] = "idle"
      BY <1>9, <2>3 DEF MoveAdvance, Return, IInv, TypeOK
    <3>2. Here(b)' = Next_(b) /\ type' = type
      BY <1>9 DEF MoveAdvance, Here, Next_, IInv, TypeOK
    <3>3. Outlook(b) = "sticky" /\ Next_(b) \in Cells
      BY <1>9, <2>3, NextInRows DEF MoveAdvance, IInv, DecisionStable
    <3>4. TypeAt(Next_(b)[1], Next_(b)[2]) = type[Next_(b)]
      BY <3>3 DEF TypeAt, Next_
    <3> QED BY <2>3, <3>1, <3>2, <3>3, <3>4 DEF Outlook
  <2> QED BY <1>9, <2>1, <2>2, <2>3 DEF MoveAdvance
<1> QED BY <1>1, <1>2, <1>3, <1>4, <1>5, <1>6, <1>7, <1>8, <1>9 DEF Next

(* A ball stands still on a sticky cell only, and in both coordinates at    *)
(* once, whatever collides with it.                                         *)
THEOREM StillIsStuck == Spec => []StillOnlyOnSticky
<1>1. Init => StillOnlyOnSticky /\ ActsInMotion
  BY DEF Init, StillOnlyOnSticky, ActsInMotion
<1> QED BY <1>1, StillOnlyOnStickyKept, Invariance, PTL DEF Spec

-----------------------------------------------------------------------------
(* The mutex of a line that a move in progress covers is held. *)
LEMMA HeldByMove ==
    ASSUME IInv, NEW b \in Balls, Moving(b), NEW q \in Balls, placed[q],
           y[q] + 1 \in RowsOf(b)
    PROVE  rowOwner[y[q] + 1] # NoBall
<1>1. y[q] + 1 \in Rows
  <2>1. y[q] \in Lines
    BY RowsExist
  <2> QED BY <2>1, SizeAssumption DEF Lines, Rows
<1> QED BY <1>1, NoBallAssumption DEF IInv, RowsHeldByMoves

(* Whatever step moves or turns ball q, the mutex of its line is held. *)
LEMMA StepChangesOnlyUnderLock ==
    ASSUME IInv, [Next]_vars, NEW q \in Balls, placed[q],
           <<x'[q], y'[q], dx'[q], dy'[q]>> # <<x[q], y[q], dx[q], dy[q]>>
    PROVE  rowOwner[y[q] + 1] # NoBall
<1>0. ASSUME NEW b \in Balls, Moving(b), q = b
      PROVE  rowOwner[y[q] + 1] # NoBall
  <2>1. y[q] + 1 \in RowsOf(b)
    BY <1>0 DEF RowsOf
  <2> QED BY <1>0, <2>1, HeldByMove
<1>1. CASE UNCHANGED vars
  BY <1>1 DEF vars
<1>2. ASSUME NEW b \in Balls, PlaceStart(b)
      PROVE  rowOwner[y[q] + 1] # NoBall
  BY <1>2 DEF PlaceStart, IInv, TypeOK
<1>3. ASSUME NEW b \in Balls, NEW c \in Cells, PlaceTry(b, c)
      PROVE  rowOwner[y[q] + 1] # NoBall
  <2>1. q # b
    BY <1>3 DEF PlaceTry, IInv, OpsPlaced
  <2> QED BY <1>3, <2>1 DEF PlaceTry, IInv, TypeOK
<1>4. ASSUME NEW b \in Balls, MoveLock(b) \/ MoveLook(b)
      PROVE  rowOwner[y[q] + 1] # NoBall
  BY <1>4 DEF MoveLock, MoveLook
<1>5. ASSUME NEW b \in Balls, MoveTurn(b)
      PROVE  rowOwner[y[q] + 1] # NoBall
  <2>1. q = b
    BY <1>5 DEF MoveTurn, IInv, TypeOK
  <2> QED BY <1>5, <2>1, <1>0 DEF MoveTurn, Moving
<1>6. ASSUME NEW b \in Balls, MoveFall(b)
      PROVE  rowOwner[y[q] + 1] # NoBall
  <2>1. q = b
    BY <1>6 DEF MoveFall, IInv, TypeOK
  <2> QED BY <1>6, <2>1, <1>0 DEF MoveFall, Moving
<1>7. ASSUME NEW b \in Balls, MoveAdvance(b)
      PROVE  rowOwner[y[q] + 1] # NoBall
  <2>1. q = b
    BY <1>7 DEF MoveAdvance, IInv, TypeOK
  <2> QED BY <1>7, <2>1, <1>0 DEF MoveAdvance, Moving
<1>8. ASSUME NEW b \in Balls, MoveBlocked(b)
      PROVE  rowOwner[y[q] + 1] # NoBall
  <2>1. Moving(b) /\ op[b] = "looked"
    BY <1>8 DEF MoveBlocked, Moving
  <2>2. q = b \/ (saw[b] = "ball" /\ q = ball[Next_(b)])
    BY <1>8 DEF MoveBlocked, Collided, IInv, TypeOK
  <2>3. CASE q # b
    <3>1. /\ Next_(b) \in Cells /\ Next_(b)[2] + 1 \in RowsOf(b)
      BY <2>1, NextInRows
    <3>2. Here(q) = Next_(b)
      BY <2>2, <2>3, <3>1, NoBallAssumption DEF IInv, CellsMatchBalls
    <3>3. y[q] + 1 \in RowsOf(b)
      BY <3>1, <3>2 DEF Here
    <3> QED BY <2>1, <3>3, HeldByMove
  <2> QED BY <2>1, <2>3, <1>0
<1> QED BY <1>1, <1>2, <1>3, <1>4, <1>5, <1>6, <1>7, <1>8 DEF Next

(* The position and direction of a ball on the board change only while the  *)
(* mutex of its line is held, also when another ball's move changes them.   *)
THEOREM ChangesLocked == Spec => ChangesOnlyUnderLock
<1>1. IInv /\ [Next]_vars =>
        [\A b \in Balls :
            placed[b] /\ <<x[b], y[b], dx[b], dy[b]>>' # <<x[b], y[b], dx[b], dy[b]>>
                => rowOwner[y[b] + 1] # NoBall]_vars
  BY StepChangesOnlyUnderLock
<1> QED BY <1>1, Invariance, PTL DEF Spec, ChangesOnlyUnderLock
=============================================================================
