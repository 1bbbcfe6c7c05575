------------------------------ MODULE PongBoard ------------------------------
(***************************************************************************)
(* The pong board of src/pset6/pongboard.hh: cells, balls, one mutex per   *)
(* row, and the operations place() and move(), cut at every point where    *)
(* another thread can observe or disturb them.  A ball is operated on by   *)
(* one thread at a time (SimPong checks that the program keeps to this),   *)
(* so the steps of an operation are indexed by the ball.                   *)
(*                                                                         *)
(* Left out: ncollisions_ (a statistic that is only printed) and the       *)
(* return value of move(), which is the action that ended it: MoveStuck    *)
(* inside MoveTurn and MoveBlocked return 0, MoveAdvance 1, MoveFall -1.   *)
(***************************************************************************)
EXTENDS Integers, FiniteSets

CONSTANTS Balls,           \* the balls
          NoBall,          \* nullptr
          Width, Height,   \* the board's size
          NSticky, NHoles  \* how many sticky cells and holes main() lays out

(* main() refuses a board that is narrower or lower than 2: usage(), 195. *)
ASSUME SizeAssumption == /\ Width \in Nat /\ Width >= 2
                         /\ Height \in Nat /\ Height >= 2
ASSUME NoBallAssumption == NoBall \notin Balls

Columns == 0..Width-1
Lines   == 0..Height-1
Cells   == Columns \X Lines
Rows    == 0..Height+1        \* indices of mutexes_per_row; line r has index r+1
CellTypes == {"empty", "sticky", "hole"}

VARIABLES type,      \* cell |-> type_ (laid out once; no cell is an obstacle)
          ball,      \* cell |-> ball_
          placed,    \* ball |-> placed_
          x, y,      \* ball |-> x_, y_
          dx, dy,    \* ball |-> dx_, dy_
          rowOwner,  \* row index |-> the ball whose operation holds the mutex
          op,        \* ball |-> how far its operation has come
          saw,       \* ball |-> what move() read in next_cell
          was        \* ball |-> history: its direction when move() locked
vars == <<type, ball, placed, x, y, dx, dy, rowOwner, op, saw, was>>

Layouts == {t \in [Cells -> CellTypes] :
               /\ Cardinality({c \in Cells : t[c] = "sticky"}) = NSticky
               /\ Cardinality({c \in Cells : t[c] = "hole"}) = NHoles}

Init ==
    /\ type \in Layouts
    /\ ball = [c \in Cells |-> NoBall]
    /\ placed = [b \in Balls |-> FALSE]
    /\ x = [b \in Balls |-> -1] /\ y = [b \in Balls |-> -1]
    /\ dx = [b \in Balls |-> 0] /\ dy = [b \in Balls |-> 0]
    /\ rowOwner = [r \in Rows |-> NoBall]
    /\ op = [b \in Balls |-> "idle"]
    /\ saw = [b \in Balls |-> "none"]
    /\ was = [b \in Balls |-> <<0, 0>>]

------------------------------------------------------------------------------
(* Definitions named Bug... are wrong variants of the definition that       *)
(* follows them; no specification uses them, and TLC must refute the        *)
(* variant for the properties to be worth anything.                         *)

(* pong_board::cell(): positions off the board read obstacle_cell_. *)
BugTypeAtWide(i, j) == IF <<i, j>> \in Cells THEN type[<<i, j>>]
                       ELSE IF i = Width THEN "empty" ELSE "obstacle"
TypeAt(i, j) == IF <<i, j>> \in Cells THEN type[<<i, j>>] ELSE "obstacle"
BallAt(i, j) == IF <<i, j>> \in Cells THEN ball[<<i, j>>] ELSE NoBall

Here(b) == <<x[b], y[b]>>
Next_(b) == <<x[b] + dx[b], y[b] + dy[b]>>
Stuck(b) == dx[b] = 0 /\ dy[b] = 0

(* The mutexes move() takes: the ball's line and the lines above and below. *)
BugRowsOfOwn(b) == {y[b] + 1}
BugRowsOfUpper(b) == {y[b], y[b] + 1}
RowsOf(b) == {y[b], y[b] + 1, y[b] + 2}

RowFree(r) == rowOwner[r] = NoBall

BugUnlockTwo(b) ==
    rowOwner' = [r \in Rows |-> IF r \in {y[b], y[b] + 1} THEN NoBall ELSE rowOwner[r]]
Unlock(b) ==
    rowOwner' = [r \in Rows |-> IF r \in RowsOf(b) THEN NoBall ELSE rowOwner[r]]

(* move() returns: the guards release the rows. *)
Return(b) ==
    /\ Unlock(b)
    /\ op' = [op EXCEPT ![b] = "idle"]
    /\ saw' = [saw EXCEPT ![b] = "none"]
    /\ was' = [was EXCEPT ![b] = <<0, 0>>]

------------------------------------------------------------------------------
(* The cells place() accepts. *)
BugSuitableUntyped(c) == ball[c] = NoBall
Suitable(c) == type[c] \in {"empty", "sticky"} /\ ball[c] = NoBall

(* place() starts: the direction is chosen before any lock is taken. *)
PlaceStart(b) ==
    /\ op[b] = "idle" /\ ~placed[b]
    /\ \E d, e \in {-1, 1} : /\ dx' = [dx EXCEPT ![b] = d]
                             /\ dy' = [dy EXCEPT ![b] = e]
    /\ op' = [op EXCEPT ![b] = "placing"]
    /\ UNCHANGED <<type, ball, placed, x, y, rowOwner, saw, was>>

(* An iteration of place()'s loop that finds a suitable cell c, under the   *)
(* mutex of c's line.  An iteration that does not changes nothing.          *)
PlaceTry(b, c) ==
    /\ op[b] = "placing"
    /\ RowFree(c[2] + 1)
    /\ Suitable(c)
    /\ x' = [x EXCEPT ![b] = c[1]] /\ y' = [y EXCEPT ![b] = c[2]]
    /\ ball' = [ball EXCEPT ![c] = b]
    /\ placed' = [placed EXCEPT ![b] = TRUE]
    /\ op' = [op EXCEPT ![b] = "idle"]
    /\ UNCHANGED <<type, dx, dy, rowOwner, saw, was>>

(* move() takes its three row mutexes, all or none (std::lock).  Only balls  *)
(* on the board are moved (SimPong checks this), so that the early return -1 *)
(* of a removed ball does not arise.                                         *)
MoveLock(b) ==
    /\ op[b] = "idle" /\ placed[b]
    /\ \A r \in RowsOf(b) : RowFree(r)
    /\ rowOwner' = [r \in Rows |-> IF r \in RowsOf(b) THEN b ELSE rowOwner[r]]
    /\ op' = [op EXCEPT ![b] = "locked"]
    /\ was' = [was EXCEPT ![b] = <<dx[b], dy[b]>>]
    /\ UNCHANGED <<type, ball, placed, x, y, dx, dy, saw>>

(* A stuck ball returns 0; any other is turned round at the board's edges. *)
MoveTurn(b) ==
    /\ op[b] = "locked"
    /\ IF Stuck(b)
       THEN Return(b) /\ UNCHANGED <<dx, dy>>
       ELSE /\ dx' = [dx EXCEPT ![b] =
                         IF TypeAt(x[b] + dx[b], y[b]) = "obstacle" THEN -@ ELSE @]
            /\ dy' = [dy EXCEPT ![b] =
                         IF TypeAt(x[b], y[b] + dy[b]) = "obstacle" THEN -@ ELSE @]
            /\ op' = [op EXCEPT ![b] = "turned"]
            /\ UNCHANGED <<rowOwner, saw, was>>
    /\ UNCHANGED <<type, ball, placed, x, y>>

(* What the chain of conditions on next_cell finds. *)
Outlook(b) ==
    LET n == Next_(b) IN
    IF BallAt(n[1], n[2]) # NoBall THEN "ball" ELSE TypeAt(n[1], n[2])

MoveLook(b) ==
    /\ op[b] = "turned"
    /\ saw' = [saw EXCEPT ![b] = Outlook(b)]
    /\ op' = [op EXCEPT ![b] = "looked"]
    /\ UNCHANGED <<type, ball, placed, x, y, dx, dy, rowOwner, was>>

(* One coordinate of a collision: v holds the directions of this ball (b)   *)
(* and of the ball it hits (o).                                             *)
BugCollidedSwap(v, b, o) ==
    IF v[o] # v[b] THEN [v EXCEPT ![o] = v[b], ![b] = v[o]] ELSE v
BugCollidedOne(v, b, o) ==
    IF v[o] # v[b] THEN [v EXCEPT ![o] = v[b]] ELSE v
Collided(v, b, o) ==
    IF v[o] # v[b] THEN [v EXCEPT ![o] = v[b], ![b] = -v[b]] ELSE v

(* move() finds its way blocked and returns 0: a collision changes the      *)
(* directions of both balls, an obstacle reverses this one.                 *)
MoveBlocked(b) ==
    /\ op[b] = "looked" /\ saw[b] \in {"ball", "obstacle"}
    /\ IF saw[b] = "ball"
       THEN /\ dx' = Collided(dx, b, ball[Next_(b)])
            /\ dy' = Collided(dy, b, ball[Next_(b)])
       ELSE /\ dx' = [dx EXCEPT ![b] = -@]
            /\ dy' = [dy EXCEPT ![b] = -@]
    /\ Return(b)
    /\ UNCHANGED <<type, ball, placed, x, y>>

(* The ball leaves its cell for good. *)
Vacate(b) == ball' = [ball EXCEPT ![Here(b)] = NoBall]

(* The next cell is a hole: the ball leaves the board, move() returns -1. *)
MoveFall(b) ==
    /\ op[b] = "looked" /\ saw[b] = "hole"
    /\ Vacate(b)
    /\ x' = [x EXCEPT ![b] = -1] /\ y' = [y EXCEPT ![b] = -1]
    /\ dx' = [dx EXCEPT ![b] = 0] /\ dy' = [dy EXCEPT ![b] = 0]
    /\ placed' = [placed EXCEPT ![b] = FALSE]
    /\ Return(b)
    /\ UNCHANGED type

(* The next cell is free: the ball moves there, sticks if it is sticky, and *)
(* move() returns 1.                                                        *)
MoveAdvance(b) ==
    /\ op[b] = "looked" /\ saw[b] \in {"empty", "sticky"}
    /\ ball' = [ball EXCEPT ![Here(b)] = NoBall, ![Next_(b)] = b]
    /\ x' = [x EXCEPT ![b] = @ + dx[b]] /\ y' = [y EXCEPT ![b] = @ + dy[b]]
    /\ dx' = [dx EXCEPT ![b] = IF saw[b] = "sticky" THEN 0 ELSE @]
    /\ dy' = [dy EXCEPT ![b] = IF saw[b] = "sticky" THEN 0 ELSE @]
    /\ Return(b)
    /\ UNCHANGED <<type, placed>>

Next ==
    \E b \in Balls :
        \/ PlaceStart(b)
        \/ \E c \in Cells : PlaceTry(b, c)
        \/ MoveLock(b) \/ MoveTurn(b) \/ MoveLook(b)
        \/ MoveBlocked(b) \/ MoveFall(b) \/ MoveAdvance(b)

Spec == Init /\ [][Next]_vars

------------------------------------------------------------------------------
(* Every variable stays in its range; only a direction's sign ever varies.  *)
TypeOK ==
    /\ type \in [Cells -> CellTypes]
    /\ ball \in [Cells -> Balls \cup {NoBall}]
    /\ placed \in [Balls -> BOOLEAN]
    /\ x \in [Balls -> Columns \cup {-1}] /\ y \in [Balls -> Lines \cup {-1}]
    /\ dx \in [Balls -> {-1, 0, 1}] /\ dy \in [Balls -> {-1, 0, 1}]
    /\ rowOwner \in [Rows -> Balls \cup {NoBall}]
    /\ op \in [Balls -> {"idle", "placing", "locked", "turned", "looked"}]
    /\ saw \in [Balls -> {"none", "ball", "obstacle", "empty", "sticky", "hole"}]
    /\ was \in [Balls -> {-1, 0, 1} \X {-1, 0, 1}]

Moving(b) == op[b] \in {"locked", "turned", "looked"}

(* The cells and the balls agree: the assertion cur_cell.ball_ == this of   *)
(* move() (line 141), for all balls at all times, and its converse: no cell *)
(* points to a ball that is elsewhere.                                      *)
CellsMatchBalls ==
    /\ \A b \in Balls : placed[b] => Here(b) \in Cells /\ ball[Here(b)] = b
    /\ \A c \in Cells : ball[c] # NoBall => placed[ball[c]] /\ Here(ball[c]) = c
    /\ \A b \in Balls : ~placed[b] => x[b] = -1 /\ y[b] = -1

(* No ball rests on a hole: the assertion of signal_handler (simpong61.cc,  *)
(* line 122), which reads the board without locks at any moment.            *)
NoBallOnHole == \A c \in Cells : ball[c] # NoBall => type[c] \in {"empty", "sticky"}

(* A ball on the board never loses one coordinate of its direction only,    *)
(* and it can stand still on a sticky cell only: collisions, which write    *)
(* another ball's dx_ and dy_ one by one, keep this.                        *)
StillOnlyOnSticky ==
    \A b \in Balls : /\ dx[b] = 0 <=> dy[b] = 0
                     /\ placed[b] /\ dx[b] = 0 => type[Here(b)] = "sticky"

(* A move in progress holds the mutexes of its three lines, and every mutex *)
(* that is held belongs to such a move: nothing is leaked at any return.    *)
RowsHeldByMoves ==
    \A r \in Rows, b \in Balls : rowOwner[r] = b <=> Moving(b) /\ r \in RowsOf(b)

(* What move() read in next_cell is still so when it acts on it, whatever   *)
(* the other balls' threads did in between.                                 *)
DecisionStable == \A b \in Balls : op[b] = "looked" => saw[b] = Outlook(b)

(* After the turns at the edges the next cell is on the board: the branch   *)
(* for an obstacle ahead is dead code on the boards main() lays out.        *)
NextOnBoard ==
    \A b \in Balls : op[b] \in {"turned", "looked"} => Next_(b) \in Cells

(* The position and direction of a ball on the board change only while the  *)
(* mutex of its line is held, whichever ball's thread writes them.          *)
ChangesOnlyUnderLock ==
    [][\A b \in Balls :
          placed[b] /\ <<x[b], y[b], dx[b], dy[b]>>' # <<x[b], y[b], dx[b], dy[b]>>
              => rowOwner[y[b] + 1] # NoBall]_vars

------------------------------------------------------------------------------
(* The locking makes place() and move() atomic: a placed ball is where the  *)
(* abstract ball is, and until move() acts the abstract direction is the    *)
(* one it started from.                                                     *)
Atomic == INSTANCE PongAtomic WITH
    where <- [b \in Balls |-> Here(b)],
    dir   <- [b \in Balls |-> IF ~placed[b] THEN <<0, 0>>
                              ELSE IF op[b] \in {"turned", "looked"} THEN was[b]
                              ELSE <<dx[b], dy[b]>>]

(* PongBoard implements PongAtomic. *)
ImplementsAtomic == Atomic!Spec
==============================================================================
