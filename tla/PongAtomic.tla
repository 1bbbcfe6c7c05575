----------------------------- MODULE PongAtomic -----------------------------
(***************************************************************************)
(* What the pong board of pset6 promises: place() and move() of a ball     *)
(* (src/pset6/pongboard.hh) each take effect at one instant.  There are no *)
(* locks, no cells that point to balls and no half-done moves here; a ball *)
(* is on one cell or off the board, and at most one ball is on a cell.     *)
(* PongBoard, which models the row mutexes and the separate reads and      *)
(* writes of the code, is checked to implement this module.                *)
(***************************************************************************)
EXTENDS Integers

CONSTANTS Balls,          \* the balls
          Width, Height   \* the board's size

Cells == (0..Width-1) \X (0..Height-1)
Off   == <<-1, -1>>       \* where a ball is that is not on the board
Still == <<0, 0>>

VARIABLES type,   \* cell |-> "empty", "sticky" or "hole"
          where,  \* ball |-> its cell, or Off
          dir     \* ball |-> its direction
vars == <<type, where, dir>>

Init ==
    /\ type \in [Cells -> {"empty", "sticky", "hole"}]
    /\ where = [b \in Balls |-> Off]
    /\ dir = [b \in Balls |-> Still]

(* A ball lands on a free cell that is not a hole, moving diagonally. *)
Place(b) ==
    /\ where[b] = Off
    /\ \E c \in Cells, d \in {-1, 1} \X {-1, 1} :
          /\ type[c] # "hole"
          /\ \A o \in Balls : where[o] # c
          /\ where' = [where EXCEPT ![b] = c]
          /\ dir' = [dir EXCEPT ![b] = d]
    /\ UNCHANGED type

(* The direction of b once the edges of the board have turned it round. *)
Bounced(b) ==
    << IF where[b][1] + dir[b][1] \in 0..Width-1 THEN dir[b][1] ELSE -dir[b][1],
       IF where[b][2] + dir[b][2] \in 0..Height-1 THEN dir[b][2] ELSE -dir[b][2] >>

Target(b) == << where[b][1] + Bounced(b)[1], where[b][2] + Bounced(b)[2] >>

(* What is left of direction d after hitting a ball that moves in direction e. *)
Rebound(d, e) == << IF e[1] # d[1] THEN -d[1] ELSE d[1],
                    IF e[2] # d[2] THEN -d[2] ELSE d[2] >>

Collide(b, o) ==
    /\ where[o] = Target(b)
    /\ dir' = [dir EXCEPT ![b] = Rebound(Bounced(b), dir[o]), ![o] = Bounced(b)]
    /\ UNCHANGED <<type, where>>

Fall(b) ==
    /\ type[Target(b)] = "hole"
    /\ where' = [where EXCEPT ![b] = Off]
    /\ dir' = [dir EXCEPT ![b] = Still]
    /\ UNCHANGED type

Advance(b) ==
    /\ type[Target(b)] # "hole"
    /\ \A o \in Balls : where[o] # Target(b)
    /\ where' = [where EXCEPT ![b] = Target(b)]
    /\ dir' = [dir EXCEPT ![b] = IF type[Target(b)] = "sticky" THEN Still
                                                                ELSE Bounced(b)]
    /\ UNCHANGED type

Move(b) ==
    /\ where[b] # Off
    /\ dir[b] # Still
    /\ \/ \E o \in Balls : Collide(b, o)
       \/ Fall(b)
       \/ Advance(b)

Next == \E b \in Balls : Place(b) \/ Move(b)

Spec == Init /\ [][Next]_vars
=============================================================================
