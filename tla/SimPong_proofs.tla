--------------------------- MODULE SimPong_proofs ---------------------------
(***************************************************************************)
(* Proofs about simpong61 with any number of balls and threads on a board  *)
(* of any size: its threads use the board as PongBoard says, so that what  *)
(* is proved of the board holds in the program; balls and threads are      *)
(* neither lost nor doubled; only free balls are moved.                    *)
(***************************************************************************)
EXTENDS SimPong, TLAPS, FiniteSetTheorems

P == INSTANCE PongBoard_proofs

(* What main() checks of its arguments is what the board proofs assume. *)
LEMMA BoardFacts == P!SizeAssumption /\ P!NoBallAssumption
BY BoardAssumption, ArgsAssumption
   DEF Accepts, P!SizeAssumption, P!NoBallAssumption

(* P is PongBoard with its proofs: the two instances are the same. *)
LEMMA SameBoard ==
    /\ Board!Init <=> P!Init
    /\ Board!vars = P!vars
    /\ Board!Cells = P!Cells
    /\ \A b \in Balls :
        /\ Board!Stuck(b) <=> P!Stuck(b)
        /\ Board!PlaceStart(b) <=> P!PlaceStart(b)
        /\ \A c \in Board!Cells : Board!PlaceTry(b, c) <=> P!PlaceTry(b, c)
        /\ Board!MoveLock(b) <=> P!MoveLock(b)
        /\ Board!MoveTurn(b) <=> P!MoveTurn(b)
        /\ Board!MoveLook(b) <=> P!MoveLook(b)
        /\ Board!MoveBlocked(b) <=> P!MoveBlocked(b)
        /\ Board!MoveFall(b) <=> P!MoveFall(b)
        /\ Board!MoveAdvance(b) <=> P!MoveAdvance(b)
<1>1. /\ Board!Init <=> P!Init
      /\ Board!vars = P!vars
      /\ Board!Cells = P!Cells
  BY DEF Board!Init, P!Init, Board!vars, P!vars, Board!Cells, P!Cells,
         Board!Columns, P!Columns, Board!Lines, P!Lines, Board!Rows, P!Rows,
         Board!Layouts, P!Layouts, Board!CellTypes, P!CellTypes,
         Board!Cardinality, P!Cardinality
<1>2. ASSUME NEW b \in Balls
      PROVE  /\ Board!Stuck(b) <=> P!Stuck(b)
             /\ Board!PlaceStart(b) <=> P!PlaceStart(b)
             /\ \A c \in Board!Cells : Board!PlaceTry(b, c) <=> P!PlaceTry(b, c)
             /\ Board!MoveLock(b) <=> P!MoveLock(b)
  BY <1>1 DEF Board!Stuck, P!Stuck, Board!PlaceStart, P!PlaceStart,
         Board!PlaceTry, P!PlaceTry, Board!Suitable, P!Suitable,
         Board!RowFree, P!RowFree, Board!MoveLock, P!MoveLock,
         Board!RowsOf, P!RowsOf, Board!Rows, P!Rows
<1>3. ASSUME NEW b \in Balls
      PROVE  /\ Board!MoveTurn(b) <=> P!MoveTurn(b)
             /\ Board!MoveLook(b) <=> P!MoveLook(b)
             /\ Board!MoveBlocked(b) <=> P!MoveBlocked(b)
             /\ Board!MoveFall(b) <=> P!MoveFall(b)
             /\ Board!MoveAdvance(b) <=> P!MoveAdvance(b)
  <2>1. /\ Board!Return(b) <=> P!Return(b)
        /\ Board!Stuck(b) <=> P!Stuck(b)
        /\ Board!Next_(b) = P!Next_(b)
        /\ Board!Vacate(b) <=> P!Vacate(b)
    BY DEF Board!Return, P!Return, Board!Unlock, P!Unlock, Board!RowsOf, P!RowsOf,
           Board!Rows, P!Rows, Board!Stuck, P!Stuck, Board!Next_, P!Next_,
           Board!Vacate, P!Vacate, Board!Here, P!Here
  <2>2. \A i, j : Board!TypeAt(i, j) = P!TypeAt(i, j) /\ Board!BallAt(i, j) = P!BallAt(i, j)
    BY <1>1 DEF Board!TypeAt, P!TypeAt, Board!BallAt, P!BallAt
  <2>3. Board!Outlook(b) = P!Outlook(b)
    BY <2>1, <2>2 DEF Board!Outlook, P!Outlook
  <2>4. \A v, o : Board!Collided(v, b, o) = P!Collided(v, b, o)
    BY DEF Board!Collided, P!Collided
  <2>5. Board!MoveTurn(b) <=> P!MoveTurn(b)
    BY <2>1, <2>2 DEF Board!MoveTurn, P!MoveTurn
  <2>6. Board!MoveLook(b) <=> P!MoveLook(b)
    BY <2>3 DEF Board!MoveLook, P!MoveLook
  <2>7. Board!MoveBlocked(b) <=> P!MoveBlocked(b)
    BY <2>1, <2>4 DEF Board!MoveBlocked, P!MoveBlocked
  <2>8. Board!MoveFall(b) <=> P!MoveFall(b)
    BY <2>1 DEF Board!MoveFall, P!MoveFall
  <2>9. Board!MoveAdvance(b) <=> P!MoveAdvance(b)
    BY <2>1 DEF Board!MoveAdvance, P!MoveAdvance, Board!Here, P!Here
  <2> QED BY <2>5, <2>6, <2>7, <2>8, <2>9
<1> QED BY <1>1, <1>2, <1>3

-----------------------------------------------------------------------------
(* The parts of the inductive invariant. *)

(* What is proved of the board. *)
BoardIInv == P!IInv /\ P!StillOnlyOnSticky /\ P!ActsInMotion

ThreadTypeOK ==
    /\ reserve \in Seq(Balls)
    /\ pc \in [Threads -> {"none", "fetch", "noball", "place", "placing", "move",
                           "moving", "notify", "advanced", "check", "stuck",
                           "asleep", "exit"}]
    /\ hold \in [Threads -> Balls \cup {NoBall}]
    /\ stickyMutex \in BOOLEAN /\ uncounted \in BOOLEAN
    /\ nrunning \in Int /\ started \in 0..NThreads

(* A thread holds a ball from Fetch to Exit, and no ball is in two places. *)
Owned ==
    /\ \A t \in Threads : hold[t] = NoBall <=> pc[t] \in {"none", "fetch", "noball"}
    /\ \A t, u \in Threads : t # u /\ hold[t] = hold[u] => hold[t] = NoBall
    /\ \A i, j \in 1..Len(reserve) : reserve[i] = reserve[j] => i = j
    /\ \A i \in 1..Len(reserve), t \in Threads : reserve[i] # hold[t]
    /\ \A b \in Balls : (\E i \in 1..Len(reserve) : reserve[i] = b)
                            \/ (\E t \in Threads : hold[t] = b)

(* How far the operation of a ball is whose thread is at label l. *)
AtStage(l, b) ==
    /\ op[b] = "placing" <=> l = "placing"
    /\ P!Moving(b) <=> l = "moving"
    /\ placed[b] <=> l \notin {"place", "placing", "exit"}
    /\ l \in {"placing", "move", "moving", "notify"} => ~P!Stuck(b)

Stages ==
    /\ \A i \in 1..Len(reserve) : op[reserve[i]] = "idle" /\ ~placed[reserve[i]]
    /\ \A t \in Threads : hold[t] # NoBall => AtStage(pc[t], hold[t])

(* main() starts NThreads threads before it replaces any. *)
Counted ==
    /\ nrunning + (IF uncounted THEN 1 ELSE 0) = Cardinality(Live)
    /\ Cardinality(Live) <= NThreads
    /\ started < NThreads => Cardinality(Live) <= started

ThreadInv == ThreadTypeOK /\ Owned /\ Stages /\ Counted
IInv == BoardIInv /\ ThreadInv

-----------------------------------------------------------------------------
(* The board under the steps of its balls. *)

BoardAct(b) ==
    \/ P!PlaceStart(b) \/ (\E c \in P!Cells : P!PlaceTry(b, c))
    \/ P!MoveLock(b) \/ P!MoveTurn(b) \/ P!MoveLook(b)
    \/ P!MoveBlocked(b) \/ P!MoveFall(b) \/ P!MoveAdvance(b)

(* The invariants proved in PongBoard_proofs survive a step of any ball. *)
LEMMA BoardActKeeps ==
    ASSUME BoardIInv, NEW b \in Balls, BoardAct(b)
    PROVE  BoardIInv' /\ P!Next
<1>1. P!Next
  BY DEF BoardAct, P!Next
<1>2. P!IInv'
  BY <1>1, BoardFacts, P!NextKeeps DEF BoardIInv
<1>3. P!StillOnlyOnSticky' /\ P!ActsInMotion'
  BY <1>1, BoardFacts, P!StillOnlyOnStickyKept DEF BoardIInv
<1> QED BY <1>1, <1>2, <1>3 DEF BoardIInv

(* A step that leaves the board alone leaves what is known of it alone. *)
LEMMA BoardRests ==
    ASSUME BoardIInv, UNCHANGED board
    PROVE  /\ BoardIInv'
           /\ op' = op /\ placed' = placed
           /\ \A b \in Balls : P!Stuck(b)' <=> P!Stuck(b)
           /\ \A b \in Balls : P!Moving(b)' <=> P!Moving(b)
<1>1. UNCHANGED P!vars
  BY DEF board, P!vars
<1>2. P!IInv'
  BY <1>1, BoardFacts, P!StutterKeeps DEF BoardIInv
<1>3. P!StillOnlyOnSticky' /\ P!ActsInMotion'
  BY <1>1, BoardFacts, P!StillOnlyOnStickyKept DEF BoardIInv
<1>4. \A b \in Balls : P!Stuck(b)' <=> P!Stuck(b)
  BY DEF P!Stuck, board
<1>5. \A b \in Balls : P!Moving(b)' <=> P!Moving(b)
  BY DEF P!Moving, board
<1> QED BY <1>2, <1>3, <1>4, <1>5 DEF BoardIInv, board

(* A step of one ball leaves the others where they are in their operations; *)
(* the ball it hits gets a direction it can move in, never none.            *)
LEMMA OthersKept ==
    ASSUME BoardIInv, NEW b \in Balls, BoardAct(b), NEW o \in Balls, o # b
    PROVE  /\ op'[o] = op[o] /\ placed'[o] = placed[o]
           /\ ~P!Stuck(o) => ~P!Stuck(o)'
           /\ P!MoveBlocked(b) \/ (dx'[o] = dx[o] /\ dy'[o] = dy[o])
<1> USE DEF BoardIInv, P!IInv, P!TypeOK, P!Stuck
<1>1. CASE P!PlaceStart(b)
  BY <1>1 DEF P!PlaceStart
<1>2. ASSUME NEW c \in P!Cells, P!PlaceTry(b, c) PROVE P!MoveBlocked(b)
          \/ (op'[o] = op[o] /\ placed'[o] = placed[o] /\ dx' = dx /\ dy' = dy)
  BY <1>2 DEF P!PlaceTry
<1>3. CASE P!MoveLock(b)
  BY <1>3 DEF P!MoveLock
<1>4. CASE P!MoveTurn(b)
  BY <1>4 DEF P!MoveTurn, P!Return
<1>5. CASE P!MoveLook(b)
  BY <1>5 DEF P!MoveLook
<1>6. CASE P!MoveFall(b)
  BY <1>6 DEF P!MoveFall, P!Return
<1>7. CASE P!MoveAdvance(b)
  BY <1>7 DEF P!MoveAdvance, P!Return
<1>8. CASE P!MoveBlocked(b)
  <2>1. op[b] = "looked" /\ dx[b] # 0 /\ dy[b] # 0
    BY <1>8 DEF P!MoveBlocked, P!ActsInMotion, P!StillOnlyOnSticky
  <2>2. op'[o] = op[o] /\ placed'[o] = placed[o]
    BY <1>8 DEF P!MoveBlocked, P!Return
  <2>3. dx'[o] \in {dx[o], dx[b]} /\ dy'[o] \in {dy[o], dy[b]}
    BY <1>8 DEF P!MoveBlocked, P!Collided
  <2> QED BY <1>8, <2>1, <2>2, <2>3
<1> QED BY <1>1, <1>2, <1>3, <1>4, <1>5, <1>6, <1>7, <1>8 DEF BoardAct

(* What the steps do to the ball that takes them. *)
LEMMA OwnStep ==
    ASSUME BoardIInv, NEW b \in Balls
    PROVE  /\ P!PlaceStart(b) => op'[b] = "placing" /\ ~placed'[b] /\ ~P!Stuck(b)'
           /\ \A c \in P!Cells : P!PlaceTry(b, c) =>
                 op'[b] = "idle" /\ placed'[b] /\ (P!Stuck(b)' <=> P!Stuck(b))
           /\ P!MoveLock(b) =>
                 P!Moving(b)' /\ placed'[b] /\ (P!Stuck(b)' <=> P!Stuck(b))
           /\ P!MoveTurn(b) /\ ~P!Stuck(b) =>
                 P!Moving(b)' /\ placed'[b] /\ ~P!Stuck(b)'
           /\ P!MoveLook(b) =>
                 P!Moving(b)' /\ placed'[b] /\ ~P!Stuck(b)'
           /\ P!MoveBlocked(b) => op'[b] = "idle" /\ placed'[b] /\ ~P!Stuck(b)'
           /\ P!MoveFall(b) => op'[b] = "idle" /\ ~placed'[b]
           /\ P!MoveAdvance(b) => op'[b] = "idle" /\ placed'[b]
<1> USE DEF BoardIInv, P!IInv, P!TypeOK
<1>0. P!Moving(b) => placed[b]
  BY DEF P!OpsPlaced
<1>1. ASSUME P!PlaceStart(b)
      PROVE  op'[b] = "placing" /\ ~placed'[b] /\ ~P!Stuck(b)'
  BY <1>1 DEF P!PlaceStart, P!Stuck
<1>2. ASSUME NEW c \in P!Cells, P!PlaceTry(b, c)
      PROVE  op'[b] = "idle" /\ placed'[b] /\ (P!Stuck(b)' <=> P!Stuck(b))
  BY <1>2 DEF P!PlaceTry, P!Stuck
<1>3. ASSUME P!MoveLock(b)
      PROVE  P!Moving(b)' /\ placed'[b] /\ (P!Stuck(b)' <=> P!Stuck(b))
  BY <1>3 DEF P!MoveLock, P!Stuck, P!Moving
<1>4. ASSUME P!MoveTurn(b), ~P!Stuck(b)
      PROVE  P!Moving(b)' /\ placed'[b] /\ ~P!Stuck(b)'
  <2>1. op'[b] = "turned" /\ placed'[b]
    BY <1>0, <1>4 DEF P!MoveTurn, P!Moving
  <2>2. P!ActsInMotion'
    BY <1>4, BoardActKeeps DEF BoardAct
  <2> QED BY <2>1, <2>2 DEF P!ActsInMotion, P!Moving, P!Stuck
<1>5. ASSUME P!MoveLook(b)
      PROVE  P!Moving(b)' /\ placed'[b] /\ ~P!Stuck(b)'
  <2>1. op'[b] = "looked" /\ placed'[b]
    BY <1>0, <1>5 DEF P!MoveLook, P!Moving
  <2>2. P!ActsInMotion'
    BY <1>5, BoardActKeeps DEF BoardAct
  <2> QED BY <2>1, <2>2 DEF P!ActsInMotion, P!Moving, P!Stuck
<1>6. ASSUME P!MoveBlocked(b)
      PROVE  op'[b] = "idle" /\ placed'[b] /\ ~P!Stuck(b)'
  <2>1. op'[b] = "idle" /\ placed'[b] /\ op[b] = "looked" /\ dx[b] # 0
    BY <1>0, <1>6 DEF P!MoveBlocked, P!Return, P!Moving, P!ActsInMotion
  <2>2. dx[b] \in {-1, 1}
    BY <2>1
  <2>3. dx'[b] = -dx[b] \/ dx'[b] = dx[b]
    BY <1>6 DEF P!MoveBlocked, P!Collided
  <2>4. dx'[b] # 0
    BY <2>2, <2>3
  <2> QED BY <2>1, <2>4 DEF P!Stuck
<1>7. ASSUME P!MoveFall(b)
      PROVE  op'[b] = "idle" /\ ~placed'[b]
  BY <1>7 DEF P!MoveFall, P!Return
<1>8. ASSUME P!MoveAdvance(b)
      PROVE  op'[b] = "idle" /\ placed'[b]
  BY <1>0, <1>8 DEF P!MoveAdvance, P!Return, P!Moving
<1> QED BY <1>1, <1>2, <1>3, <1>4, <1>5, <1>6, <1>7, <1>8

-----------------------------------------------------------------------------
(* The threads. *)

Labels == {"none", "fetch", "noball", "place", "placing", "move", "moving",
           "notify", "advanced", "check", "stuck", "asleep", "exit"}

(* There are finitely many threads, so that they can be counted. *)
LEMMA LiveFinite ==
    /\ IsFiniteSet(Live) /\ Cardinality(Live) \in Nat
    /\ Live' \subseteq Threads
    /\ IsFiniteSet(Live') /\ Cardinality(Live') \in Nat
<1>1. Live \in SUBSET Threads /\ Live' \in SUBSET Threads
  BY DEF Live
<1> QED BY <1>1, FiniteAssumption, FS_Subset, FS_CardinalityType

(* A step that only moves thread t on, with its ball, on a resting board. *)
LEMMA RestingStep ==
    ASSUME IInv, NEW t \in Threads, hold[t] # NoBall, UNCHANGED board,
           NEW l \in Labels \ {"none", "fetch", "noball"},
           Goto(t, l), UNCHANGED <<reserve, hold, nrunning, started, uncounted>>,
           stickyMutex' \in BOOLEAN, AtStage(l, hold[t])
    PROVE  IInv'
<1> USE DEF IInv, ThreadInv, ThreadTypeOK, Labels, Goto
<1>1. /\ BoardIInv' /\ op' = op /\ placed' = placed
      /\ \A b \in Balls : P!Stuck(b)' <=> P!Stuck(b)
      /\ \A b \in Balls : P!Moving(b)' <=> P!Moving(b)
  BY BoardRests
<1>2. ThreadTypeOK'
  OBVIOUS
<1>3. Owned'
  BY DEF Owned
<1>4. Stages'
  <2>1. \A i \in 1..Len(reserve)' : op'[reserve'[i]] = "idle" /\ ~placed'[reserve'[i]]
    BY <1>1 DEF Stages
  <2>2. ASSUME NEW u \in Threads, hold'[u] # NoBall
        PROVE  AtStage(pc[u], hold[u])' /\ hold'[u] = hold[u]
    <3>1. hold[u] \in Balls /\ hold'[u] = hold[u]
      BY <2>2
    <3>2. CASE u = t
      BY <1>1, <3>1, <3>2 DEF AtStage
    <3>3. CASE u # t
      BY <1>1, <2>2, <3>1, <3>3 DEF AtStage, Stages
    <3> QED BY <3>1, <3>2, <3>3
  <2> QED BY <2>1, <2>2 DEF Stages
<1>5. Counted'
  <2>1. Live' = Live
    BY DEF Live, Owned
  <2> QED BY <2>1 DEF Counted
<1> QED BY <1>1, <1>2, <1>3, <1>4, <1>5

(* A step of thread t's ball on the board. *)
LEMMA BallStep ==
    ASSUME IInv, NEW t \in Threads, hold[t] # NoBall, BoardAct(hold[t]),
           NEW l \in Labels \ {"none", "fetch", "noball"},
           Goto(t, l), BoardStep(t), AtStage(l, hold[t])'
    PROVE  IInv'
<1> USE DEF IInv, ThreadInv, ThreadTypeOK, Labels, Goto, BoardStep
<1>0. hold[t] \in Balls /\ hold' = hold /\ reserve' = reserve
  OBVIOUS
<1>1. BoardIInv'
  BY <1>0, BoardActKeeps
<1>2. ThreadTypeOK'
  OBVIOUS
<1>3. Owned'
  BY DEF Owned
<1>4. Stages'
  <2>1. ASSUME NEW i \in 1..Len(reserve)
        PROVE  op'[reserve[i]] = "idle" /\ ~placed'[reserve[i]]
    <3>1. reserve[i] \in Balls /\ reserve[i] # hold[t]
      BY DEF Owned
    <3> QED BY <1>0, <3>1, OthersKept DEF Stages
  <2>2. ASSUME NEW u \in Threads, hold[u] # NoBall
        PROVE  AtStage(pc[u], hold[u])'
    <3>1. CASE u = t
      BY <1>0, <3>1 DEF AtStage
    <3>2. CASE u # t
      <4>1. hold[u] \in Balls /\ hold[u] # hold[t] /\ pc'[u] = pc[u]
        BY <2>2, <3>2 DEF Owned
      <4>2. /\ op'[hold[u]] = op[hold[u]] /\ placed'[hold[u]] = placed[hold[u]]
            /\ ~P!Stuck(hold[u]) => ~P!Stuck(hold[u])'
        BY <1>0, <4>1, OthersKept
      <4>3. AtStage(pc[u], hold[u])
        BY <2>2 DEF Stages
      <4> QED BY <1>0, <4>1, <4>2, <4>3 DEF AtStage, P!Moving, P!Stuck
    <3> QED BY <3>1, <3>2
  <2> QED BY <1>0, <2>1, <2>2 DEF Stages
<1>5. Counted'
  <2>1. Live' = Live
    BY DEF Live, Owned
  <2> QED BY <2>1 DEF Counted
<1> QED BY <1>1, <1>2, <1>3, <1>4, <1>5

(* Place, Land, Lock, Turn, Look, Blocked, Fall and Advance: the thread's   *)
(* ball takes the step, and what pc says of the ball stays right.           *)
LEMMA BoardStepsKeep ==
    ASSUME IInv, NEW t \in Threads,
           \/ Place(t) \/ Land(t) \/ Lock(t) \/ Turn(t) \/ Look(t)
           \/ Blocked(t) \/ Fall(t) \/ Advance(t)
    PROVE  IInv' /\ hold[t] # NoBall /\ BoardAct(hold[t])
                 /\ (P!MoveBlocked(hold[t]) => pc'[t] = "notify")
<1> USE DEF IInv, ThreadInv, ThreadTypeOK
<1>0. /\ hold[t] # NoBall /\ hold[t] \in Balls /\ AtStage(pc[t], hold[t])
      /\ hold' = hold
  BY DEF Place, Land, Lock, Turn, Look, Blocked, Fall, Advance, BoardStep,
         Owned, Stages
<1> DEFINE b == hold[t]
<1>1. CASE Place(t)
  <2>1. P!PlaceStart(b) /\ Goto(t, "placing") /\ BoardStep(t)
    BY <1>0, <1>1, SameBoard DEF Place
  <2>2. op'[b] = "placing" /\ ~placed'[b] /\ ~P!Stuck(b)'
    BY <1>0, <2>1, OwnStep
  <2>3. AtStage("placing", hold[t])'
    BY <1>0, <2>2 DEF AtStage, P!Moving, P!Stuck
  <2>4. ~P!MoveBlocked(b)
    BY <2>1 DEF P!PlaceStart, P!MoveBlocked
  <2> QED BY <1>0, <2>1, <2>3, <2>4, BallStep DEF BoardAct, Labels
<1>2. CASE Land(t)
  <2>1. PICK c \in P!Cells : P!PlaceTry(b, c)
    BY <1>0, <1>2, SameBoard DEF Land
  <2>2. op'[b] = "idle" /\ placed'[b] /\ ~P!Stuck(b)'
    <3>1. ~P!Stuck(b)
      BY <1>0, <1>2 DEF AtStage, Land
    <3> QED BY <1>0, <2>1, <3>1, OwnStep
  <2>3. AtStage("move", hold[t])'
    BY <1>0, <2>2 DEF AtStage, P!Moving, P!Stuck
  <2>4. ~P!MoveBlocked(b)
    BY <2>1 DEF P!PlaceTry, P!MoveBlocked
  <2> QED BY <1>0, <1>2, <2>1, <2>3, <2>4, BallStep DEF Land, BoardAct, Labels
<1>3. CASE Lock(t)
  <2>1. P!MoveLock(b) /\ Goto(t, "moving") /\ BoardStep(t)
    BY <1>0, <1>3, SameBoard DEF Lock
  <2>2. P!Moving(b)' /\ placed'[b] /\ ~P!Stuck(b)'
    <3>1. ~P!Stuck(b)
      BY <1>0, <1>3 DEF AtStage, Lock
    <3> QED BY <1>0, <2>1, <3>1, OwnStep
  <2>3. AtStage("moving", hold[t])'
    BY <1>0, <2>2 DEF AtStage, P!Moving, P!Stuck
  <2>4. ~P!MoveBlocked(b)
    BY <2>1 DEF P!MoveLock, P!MoveBlocked
  <2> QED BY <1>0, <2>1, <2>3, <2>4, BallStep DEF BoardAct, Labels
<1>4. CASE Turn(t)
  <2>0. ~P!Stuck(b)
    BY <1>0, <1>4 DEF AtStage, Turn
  <2>1. P!MoveTurn(b) /\ Goto(t, "moving") /\ BoardStep(t)
    BY <1>0, <1>4, <2>0, SameBoard DEF Turn
  <2>2. P!Moving(b)' /\ placed'[b] /\ ~P!Stuck(b)'
    BY <1>0, <2>0, <2>1, OwnStep
  <2>3. AtStage("moving", hold[t])'
    BY <1>0, <2>2 DEF AtStage, P!Moving, P!Stuck
  <2>4. ~P!MoveBlocked(b)
    BY <2>1 DEF P!MoveTurn, P!MoveBlocked
  <2> QED BY <1>0, <2>1, <2>3, <2>4, BallStep DEF BoardAct, Labels
<1>5. CASE Look(t)
  <2>1. P!MoveLook(b) /\ Goto(t, "moving") /\ BoardStep(t)
    BY <1>0, <1>5, SameBoard DEF Look, Goto
  <2>2. P!Moving(b)' /\ placed'[b] /\ ~P!Stuck(b)'
    BY <1>0, <2>1, OwnStep
  <2>3. AtStage("moving", hold[t])'
    BY <1>0, <2>2 DEF AtStage, P!Moving, P!Stuck
  <2>4. ~P!MoveBlocked(b)
    BY <2>1 DEF P!MoveLook, P!MoveBlocked
  <2> QED BY <1>0, <2>1, <2>3, <2>4, BallStep DEF BoardAct, Labels
<1>6. CASE Blocked(t)
  <2>1. P!MoveBlocked(b) /\ Goto(t, "notify") /\ BoardStep(t)
    BY <1>0, <1>6, SameBoard DEF Blocked, IfStayed
  <2>2. op'[b] = "idle" /\ placed'[b] /\ ~P!Stuck(b)'
    BY <1>0, <2>1, OwnStep
  <2>3. AtStage("notify", hold[t])'
    BY <1>0, <2>2 DEF AtStage, P!Moving, P!Stuck
  <2> QED BY <1>0, <2>1, <2>3, BallStep DEF BoardAct, Labels, Goto
<1>7. CASE Fall(t)
  <2>1. P!MoveFall(b) /\ Goto(t, "exit") /\ BoardStep(t)
    BY <1>0, <1>7, SameBoard DEF Fall
  <2>2. op'[b] = "idle" /\ ~placed'[b]
    BY <1>0, <2>1, OwnStep
  <2>3. AtStage("exit", hold[t])'
    BY <1>0, <2>2 DEF AtStage, P!Moving, P!Stuck
  <2>4. ~P!MoveBlocked(b)
    BY <2>1 DEF P!MoveFall, P!MoveBlocked
  <2> QED BY <1>0, <2>1, <2>3, <2>4, BallStep DEF BoardAct, Labels
<1>8. CASE Advance(t)
  <2>1. P!MoveAdvance(b) /\ Goto(t, "advanced") /\ BoardStep(t)
    BY <1>0, <1>8, SameBoard DEF Advance
  <2>2. op'[b] = "idle" /\ placed'[b]
    BY <1>0, <2>1, OwnStep
  <2>3. AtStage("advanced", hold[t])'
    BY <1>0, <2>2 DEF AtStage, P!Moving, P!Stuck
  <2>4. ~P!MoveBlocked(b)
    BY <2>1 DEF P!MoveAdvance, P!MoveBlocked
  <2> QED BY <1>0, <2>1, <2>3, <2>4, BallStep DEF BoardAct, Labels
<1> QED BY <1>1, <1>2, <1>3, <1>4, <1>5, <1>6, <1>7, <1>8

(* The steps of a thread that holds a ball and leaves the board alone. *)
LEMMA StickyStepsKeep ==
    ASSUME IInv, NEW t \in Threads,
           LockSticky(t) \/ CheckStick(t) \/ Sleep(t) \/ WakeSpuriously(t)
    PROVE  IInv'
<1> USE DEF IInv, ThreadInv, ThreadTypeOK
<1>0. hold[t] # NoBall /\ hold[t] \in Balls /\ AtStage(pc[t], hold[t])
  BY DEF LockSticky, CheckStick, Sleep, WakeSpuriously, Owned, Stages
<1>1. CASE LockSticky(t)
  <2>1. AtStage("check", hold[t])
    BY <1>0, <1>1 DEF LockSticky, AtStage
  <2> QED BY <1>0, <1>1, <2>1, RestingStep DEF LockSticky, Labels
<1>2. CASE CheckStick(t)
  <2>1. CASE P!Stuck(hold[t])
    <3>1. AtStage("stuck", hold[t])
      BY <1>0, <1>2 DEF CheckStick, AtStage
    <3> QED BY <1>0, <1>2, <2>1, <3>1, SameBoard, RestingStep DEF CheckStick, Labels
  <2>2. CASE ~P!Stuck(hold[t])
    <3>1. AtStage("move", hold[t])
      BY <1>0, <1>2, <2>2 DEF CheckStick, AtStage
    <3> QED BY <1>0, <1>2, <2>2, <3>1, SameBoard, RestingStep
            DEF CheckStick, ReleaseSticky, Labels
  <2> QED BY <2>1, <2>2
<1>3. CASE Sleep(t)
  <2>1. AtStage("asleep", hold[t])
    BY <1>0, <1>3 DEF Sleep, AtStage
  <2> QED BY <1>0, <1>3, <2>1, RestingStep DEF Sleep, ReleaseSticky, Labels
<1>4. CASE WakeSpuriously(t)
  <2>1. AtStage("advanced", hold[t])
    BY <1>0, <1>4 DEF WakeSpuriously, AtStage
  <2> QED BY <1>0, <1>4, <2>1, RestingStep DEF WakeSpuriously, Labels
<1> QED BY <1>1, <1>2, <1>3, <1>4

-----------------------------------------------------------------------------
(* The steps that start, count, supply, notify and end threads. *)

(* Without a step of the board, what Stages says of the balls stays so.     *)
LEMMA StageRests ==
    ASSUME IInv, UNCHANGED board
    PROVE  /\ BoardIInv' /\ op' = op /\ placed' = placed
           /\ \A b \in Balls, l \in Labels : AtStage(l, b)' <=> AtStage(l, b)
BY BoardRests DEF IInv, AtStage

(* main() starts a thread: there is room for it by its own count, which is  *)
(* exact at that moment.                                                    *)
LEMMA CreateKeeps ==
    ASSUME IInv, StartInitial \/ StartReplacement
    PROVE  IInv'
<1> USE DEF IInv, ThreadInv, ThreadTypeOK
<1>0. PICK t \in Threads : pc[t] = "none" /\ Goto(t, "fetch")
  BY DEF StartInitial, StartReplacement, Create
<1>1. /\ ~uncounted /\ uncounted' = TRUE
      /\ UNCHANGED <<board, reserve, hold, stickyMutex, nrunning>>
      /\ started' \in 0..NThreads
  BY ArgsAssumption DEF StartInitial, StartReplacement, Create
<1>2. ThreadTypeOK'
  BY <1>0, <1>1 DEF Goto
<1>3. Owned'
  BY <1>0, <1>1 DEF Goto, Owned
<1>4. BoardIInv' /\ Stages'
  <2>1. hold[t] = NoBall
    BY <1>0 DEF Owned
  <2>2. \A u \in Threads : hold[u] # NoBall => pc'[u] = pc[u] /\ hold[u] \in Balls
    BY <1>0, <2>1 DEF Goto
  <2>3. \A u \in Threads : pc[u] \in Labels
    BY DEF Labels
  <2> QED BY <1>0, <1>1, <2>2, <2>3, StageRests DEF Stages, AtStage
<1>5. Counted'
  <2>1. Live' = Live \cup {t} /\ t \notin Live
    BY <1>0 DEF Goto, Live
  <2>2. Cardinality(Live') = Cardinality(Live) + 1
    BY <2>1, LiveFinite, FS_AddElement
  <2>3. CASE StartInitial
    BY <1>1, <2>2, <2>3, LiveFinite, ArgsAssumption DEF StartInitial, Counted
  <2>4. CASE StartReplacement
    BY <1>1, <2>2, <2>4, LiveFinite, ArgsAssumption
       DEF StartReplacement, MayStart, Counted
  <2> QED BY <2>3, <2>4
<1> QED BY <1>2, <1>3, <1>4, <1>5

(* ++nrunning in main(): the thread it started is now counted. *)
LEMMA CountThreadKeeps ==
    ASSUME IInv, CountThread
    PROVE  IInv'
<1> USE DEF IInv, ThreadInv, ThreadTypeOK, CountThread
<1>1. ThreadTypeOK'
  <2>1. nrunning' \in Int
    OBVIOUS
  <2>2. uncounted' \in BOOLEAN
    BY Zenon
  <2> QED BY <2>1, <2>2
<1>2. Owned'
  BY DEF Owned
<1>3. BoardIInv' /\ Stages'
  <2>1. \A u \in Threads : pc[u] \in Labels
    BY DEF Labels
  <2> QED BY <2>1, StageRests DEF Stages, AtStage
<1>4. Counted'
  <2>1. Live' = Live
    BY DEF Live
  <2> QED BY <2>1, LiveFinite DEF Counted
<1> QED BY <1>1, <1>2, <1>3, <1>4

(* The ball at the front of the reserve changes hands. *)
LEMMA FetchKeeps ==
    ASSUME IInv, NEW t \in Threads, Fetch(t)
    PROVE  IInv'
<1> USE DEF IInv, ThreadInv, ThreadTypeOK, Fetch
<1>0. hold[t] = NoBall /\ pc[t] = "fetch" /\ NoBall \notin Balls
  BY BoardAssumption DEF Owned
<1>1. Live' = Live
  BY DEF Live, Goto
<1>2. Counted'
  BY <1>1 DEF Counted
<1>3. CASE reserve = <<>>
  <2>1. ThreadTypeOK'
    BY <1>3 DEF Goto
  <2>2. Owned'
    BY <1>0, <1>3 DEF Goto, Owned
  <2>3. BoardIInv' /\ Stages'
    <3>1. \A u \in Threads : hold[u] # NoBall => pc'[u] = pc[u] /\ hold[u] \in Balls
      BY <1>0, <1>3 DEF Goto
    <3>2. \A u \in Threads : pc[u] \in Labels
      BY DEF Labels
    <3> QED BY <1>0, <1>3, <3>1, <3>2, StageRests DEF Stages, AtStage
  <2> QED BY <1>2, <2>1, <2>2, <2>3
<1>4. CASE reserve # <<>>
  <2> DEFINE b == reserve[1]
  <2>1. /\ reserve' = Tail(reserve) /\ reserve' \in Seq(Balls)
        /\ Len(reserve) \in Nat \ {0} /\ Len(reserve') = Len(reserve) - 1
        /\ \A i \in 1..Len(reserve') : reserve'[i] = reserve[i + 1]
        /\ b \in Balls /\ hold' = [hold EXCEPT ![t] = b]
        /\ pc' = [pc EXCEPT ![t] = "place"]
    <3>1. reserve' = Tail(reserve) /\ hold' = [hold EXCEPT ![t] = Head(reserve)]
      BY <1>4 DEF TakeFront
    <3>2. Len(reserve) \in Nat \ {0}
      BY <1>4
    <3>3. /\ reserve' \in Seq(Balls) /\ Len(reserve') = Len(reserve) - 1
          /\ \A i \in 1..Len(reserve') : reserve'[i] = reserve[i + 1]
      BY <3>1, <3>2
    <3>4. Head(reserve) = b /\ b \in Balls
      BY <1>4, <3>2
    <3> QED BY <1>4, <3>1, <3>2, <3>3, <3>4 DEF Goto
  <2>2. ThreadTypeOK'
    BY <2>1
  <2>3. Owned'
    <3>1. \A u \in Threads : hold'[u] = NoBall <=> pc'[u] \in {"none", "fetch", "noball"}
      BY <1>0, <2>1 DEF Owned
    <3>2. \A u, v \in Threads : u # v /\ hold'[u] = hold'[v] => hold'[u] = NoBall
      BY <1>0, <2>1 DEF Owned
    <3>3. \A i, j \in 1..Len(reserve') : reserve'[i] = reserve'[j] => i = j
      BY <2>1 DEF Owned
    <3>4. \A i \in 1..Len(reserve'), u \in Threads : reserve'[i] # hold'[u]
      BY <2>1 DEF Owned
    <3>5. ASSUME NEW q \in Balls
          PROVE  (\E i \in 1..Len(reserve') : reserve'[i] = q)
                     \/ (\E u \in Threads : hold'[u] = q)
      <4>1. CASE \E i \in 1..Len(reserve) : reserve[i] = q
        <5>1. PICK i \in 1..Len(reserve) : reserve[i] = q
          BY <4>1
        <5>2. CASE i = 1
          BY <2>1, <5>1, <5>2
        <5>3. CASE i # 1
          <6>1. i - 1 \in 1..Len(reserve') /\ reserve'[i - 1] = q
            BY <2>1, <5>1, <5>3
          <6> QED BY <6>1
        <5> QED BY <5>2, <5>3
      <4>2. ASSUME NEW u \in Threads, hold[u] = q
            PROVE  \E v \in Threads : hold'[v] = q
        BY <1>0, <2>1, <4>2
      <4> QED BY <4>1, <4>2 DEF Owned
    <3> QED BY <3>1, <3>2, <3>3, <3>4, <3>5 DEF Owned
  <2>4. BoardIInv' /\ Stages'
    <3>1. /\ BoardIInv' /\ op' = op /\ placed' = placed
          /\ \A q \in Balls, l \in Labels : AtStage(l, q)' <=> AtStage(l, q)
      BY StageRests
    <3>2. \A i \in 1..Len(reserve') : op'[reserve'[i]] = "idle" /\ ~placed'[reserve'[i]]
      BY <2>1, <3>1 DEF Stages
    <3>3. ASSUME NEW u \in Threads, hold'[u] # NoBall
          PROVE  AtStage(pc[u], hold[u])'
      <4>1. CASE u = t
        <5>1. op[b] = "idle" /\ ~placed[b]
          BY <2>1 DEF Stages
        <5> QED BY <2>1, <3>1, <4>1, <5>1 DEF AtStage, P!Moving
      <4>2. CASE u # t
        <5>1. pc'[u] = pc[u] /\ hold'[u] = hold[u] /\ pc[u] \in Labels /\ hold[u] \in Balls
          BY <2>1, <3>3, <4>2 DEF Labels
        <5>2. AtStage(pc[u], hold[u])
          BY <3>3, <5>1 DEF Stages
        <5> QED BY <3>1, <5>1, <5>2 DEF AtStage
      <4> QED BY <4>1, <4>2
    <3> QED BY <3>1, <3>2, <3>3 DEF Stages
  <2> QED BY <1>2, <2>2, <2>3, <2>4
<1> QED BY <1>3, <1>4

(* The sleepers whose balls may have been knocked free look at them again. *)
LEMMA NotifyKeeps ==
    ASSUME IInv, NEW t \in Threads, Notify(t)
    PROVE  IInv'
<1> USE DEF IInv, ThreadInv, ThreadTypeOK, Notify
<1>0. \A u \in Threads : pc'[u] = IF u = t THEN "move"
                                  ELSE IF pc[u] = "asleep" THEN "advanced" ELSE pc[u]
  BY DEF WakeSleepers, Woken
<1>1. ThreadTypeOK'
  BY DEF WakeSleepers, Woken
<1>2. Owned'
  BY <1>0 DEF Owned
<1>3. BoardIInv' /\ Stages'
  <2>1. /\ BoardIInv' /\ op' = op /\ placed' = placed
        /\ \A b \in Balls, l \in Labels : AtStage(l, b)' <=> AtStage(l, b)
    BY StageRests
  <2>2. \A i \in 1..Len(reserve)' : op'[reserve'[i]] = "idle" /\ ~placed'[reserve'[i]]
    BY <2>1 DEF Stages
  <2>3. ASSUME NEW u \in Threads, hold'[u] # NoBall
        PROVE  AtStage(pc[u], hold[u])'
    <3>1. hold[u] \in Balls /\ hold'[u] = hold[u] /\ AtStage(pc[u], hold[u])
      BY <2>3 DEF Stages
    <3>2. AtStage(pc'[u], hold[u])
      BY <1>0, <3>1 DEF AtStage
    <3>3. pc'[u] \in Labels
      BY <1>1 DEF Labels
    <3> QED BY <2>1, <3>1, <3>2, <3>3 DEF AtStage
  <2> QED BY <2>1, <2>2, <2>3 DEF Stages
<1>4. Counted'
  <2>1. Live' = Live
    BY <1>0 DEF Live
  <2> QED BY <2>1 DEF Counted
<1> QED BY <1>1, <1>2, <1>3, <1>4

(* The ball goes to the back of the reserve. *)
LEMMA ExitKeeps ==
    ASSUME IInv, NEW t \in Threads, Exit(t)
    PROVE  IInv'
<1> USE DEF IInv, ThreadInv, ThreadTypeOK, Exit
<1> DEFINE b == hold[t]
<1>0. /\ b \in Balls /\ b # NoBall /\ NoBall \notin Balls
      /\ op[b] = "idle" /\ ~placed[b]
  <2>1. b \in Balls /\ b # NoBall /\ AtStage("exit", b)
    BY DEF Owned, Stages
  <2>2. op[b] \in {"idle", "placing", "locked", "turned", "looked"}
    BY <2>1 DEF BoardIInv, P!IInv, P!TypeOK
  <2> QED BY <2>1, <2>2, BoardAssumption DEF AtStage, P!Moving
<1>1. /\ \A u \in Threads : pc'[u] = IF u = t THEN "none"
                                ELSE IF pc[u] = "noball" THEN "fetch" ELSE pc[u]
      /\ hold' = [hold EXCEPT ![t] = NoBall]
  BY DEF Woken
<1>2. /\ reserve' = Append(reserve, b) /\ reserve' \in Seq(Balls)
      /\ Len(reserve) \in Nat /\ Len(reserve') = Len(reserve) + 1
      /\ \A i \in 1..Len(reserve) : reserve'[i] = reserve[i]
      /\ reserve'[Len(reserve) + 1] = b
  BY <1>0 DEF HandBack
<1>3. ThreadTypeOK'
  <2>1. nrunning' \in Int
    BY DEF Uncount
  <2> QED BY <1>0, <1>2, <2>1 DEF Woken
<1>4. Owned'
  <2>1. \A u \in Threads : hold'[u] = NoBall <=> pc'[u] \in {"none", "fetch", "noball"}
    BY <1>1 DEF Owned
  <2>2. \A u, v \in Threads : u # v /\ hold'[u] = hold'[v] => hold'[u] = NoBall
    BY <1>1 DEF Owned
  <2>3. \A i \in 1..Len(reserve) : reserve[i] # b
    BY DEF Owned
  <2>4. \A i, j \in 1..Len(reserve') : reserve'[i] = reserve'[j] => i = j
    BY SMTT(60), <1>2, <2>3 DEF Owned
  <2>5. \A i \in 1..Len(reserve'), u \in Threads : reserve'[i] # hold'[u]
    <3> SUFFICES ASSUME NEW i \in 1..Len(reserve'), NEW u \in Threads
                 PROVE  reserve'[i] # hold'[u]
      OBVIOUS
    <3>1. CASE u = t
      BY <1>0, <1>1, <1>2, <3>1
    <3>2. CASE u # t
      <4>1. hold'[u] = hold[u]
        BY <1>1, <3>2
      <4>2. hold[u] # b
        BY <1>0, <3>2 DEF Owned
      <4> QED BY <1>2, <4>1, <4>2 DEF Owned
    <3> QED BY <3>1, <3>2
  <2>6. ASSUME NEW q \in Balls
        PROVE  (\E i \in 1..Len(reserve') : reserve'[i] = q)
                   \/ (\E u \in Threads : hold'[u] = q)
    <3>1. ASSUME NEW i \in 1..Len(reserve), reserve[i] = q
          PROVE  \E j \in 1..Len(reserve') : reserve'[j] = q
      <4>1. i \in 1..Len(reserve') /\ reserve'[i] = q
        BY <1>2, <3>1
      <4> QED BY <4>1
    <3>2. ASSUME NEW u \in Threads, hold[u] = q, u # t
          PROVE  hold'[u] = q
      BY <1>1, <3>2
    <3>3. Len(reserve) + 1 \in 1..Len(reserve')
      BY <1>2
    <3> QED BY <1>2, <3>1, <3>2, <3>3 DEF Owned
  <2> QED BY <2>1, <2>2, <2>4, <2>5, <2>6 DEF Owned
<1>5. BoardIInv' /\ Stages'
  <2>1. /\ BoardIInv' /\ op' = op /\ placed' = placed
        /\ \A q \in Balls, l \in Labels : AtStage(l, q)' <=> AtStage(l, q)
    BY StageRests
  <2>2. \A i \in 1..Len(reserve') : op'[reserve'[i]] = "idle" /\ ~placed'[reserve'[i]]
    BY <1>0, <1>2, <2>1 DEF Stages
  <2>3. ASSUME NEW u \in Threads, hold'[u] # NoBall
        PROVE  AtStage(pc[u], hold[u])'
    <3>1. u # t /\ hold'[u] = hold[u] /\ hold[u] # NoBall
      BY <1>1, <2>3
    <3>2. pc'[u] = pc[u] /\ pc[u] \in Labels /\ hold[u] \in Balls
      BY <1>1, <3>1 DEF Owned, Labels
    <3>3. AtStage(pc[u], hold[u])
      BY <3>1 DEF Stages
    <3> QED BY <2>1, <3>1, <3>2, <3>3 DEF AtStage
  <2> QED BY <2>1, <2>2, <2>3 DEF Stages
<1>6. Counted'
  <2>1. Live' = Live \ {t} /\ t \in Live
    BY <1>1 DEF Live
  <2>2. Cardinality(Live') = Cardinality(Live) - 1
    BY <2>1, LiveFinite, FS_RemoveElement
  <2> QED BY <2>2, LiveFinite, ArgsAssumption DEF Counted, Uncount
<1> QED BY <1>3, <1>4, <1>5, <1>6

(* A stuttering step keeps the invariant. *)
LEMMA StutterKeeps == IInv /\ UNCHANGED vars => IInv'
<1> SUFFICES ASSUME IInv, UNCHANGED vars PROVE IInv'
  OBVIOUS
<1>1. /\ UNCHANGED board
      /\ UNCHANGED <<reserve, pc, hold, stickyMutex, nrunning, started, uncounted>>
  BY DEF vars
<1>2. \A u \in Threads : pc[u] \in Labels
  BY DEF IInv, ThreadInv, ThreadTypeOK, Labels
<1>3. ThreadTypeOK'
  BY <1>1 DEF IInv, ThreadInv, ThreadTypeOK
<1>4. Owned'
  BY <1>1 DEF IInv, ThreadInv, Owned
<1>5. BoardIInv' /\ Stages'
  BY <1>1, <1>2, StageRests DEF IInv, ThreadInv, ThreadTypeOK, Stages, AtStage
<1>6. Counted'
  BY <1>1 DEF IInv, ThreadInv, Counted, Live
<1> QED BY <1>3, <1>4, <1>5, <1>6 DEF IInv, ThreadInv

-----------------------------------------------------------------------------
(* Every step of main() or of a thread keeps the invariant. *)
LEMMA NextKeeps == IInv /\ [Next]_vars => IInv'
<1> SUFFICES ASSUME IInv, [Next]_vars PROVE IInv'
  OBVIOUS
<1>1. CASE UNCHANGED vars
  BY <1>1, StutterKeeps
<1>2. CASE Main
  BY <1>2, CreateKeeps, CountThreadKeeps DEF Main
<1>3. ASSUME NEW t \in Threads, Thread(t) PROVE IInv'
  BY <1>3, FetchKeeps, BoardStepsKeep, NotifyKeeps, StickyStepsKeep, ExitKeeps
     DEF Thread
<1>4. ASSUME NEW t \in Threads, WakeSpuriously(t) PROVE IInv'
  BY <1>4, StickyStepsKeep
<1> QED BY <1>1, <1>2, <1>3, <1>4 DEF Next

(* Initially every ball is in the reserve, and once only. *)
LEMMA InitIInv == Init => IInv
<1> SUFFICES ASSUME Init PROVE IInv
  OBVIOUS
<1>1. BoardIInv
  <2>1. P!Init
    BY SameBoard DEF Init
  <2>2. P!IInv
    BY <2>1, BoardFacts, P!InitIInv
  <2>3. P!StillOnlyOnSticky /\ P!ActsInMotion
    BY <2>1 DEF P!Init, P!StillOnlyOnSticky, P!ActsInMotion
  <2> QED BY <2>2, <2>3 DEF BoardIInv
<1> DEFINE n == Cardinality(Balls)
<1>2. n \in Nat /\ IsFiniteSet(1..n) /\ Cardinality(1..n) = n
  <2>1. n \in Nat
    BY FiniteAssumption, FS_CardinalityType
  <2>2. IsFiniteSet(1..n) /\ Cardinality(1..n) = IF 1 > n THEN 0 ELSE n - 1 + 1
    <3> HIDE DEF n
    <3> QED BY <2>1, FS_Interval
  <2> QED BY <2>1, <2>2
<1>3. /\ reserve \in [1..n -> Balls]
      /\ \A i, j \in 1..n : reserve[i] = reserve[j] => i = j
  BY DEF Init, SetToSeqs
<1>4. reserve \in Seq(Balls) /\ Len(reserve) = n
  <2> HIDE DEF n
  <2> QED BY <1>2, <1>3
<1>5. \A b \in Balls : \E i \in 1..n : reserve[i] = b
  <2>1. reserve \in Injection(1..n, Balls)
    BY <1>3 DEF Injection, IsInjective
  <2>2. reserve \in Surjection(1..n, Balls)
    BY <1>2, <2>1, FiniteAssumption, FS_Injection
  <2> QED BY <2>2 DEF Surjection
<1>6. ThreadTypeOK
  <2>1. uncounted \in BOOLEAN /\ stickyMutex \in BOOLEAN
    BY Zenon DEF Init
  <2>2. started \in 0..NThreads /\ nrunning \in Int
    BY ArgsAssumption DEF Init
  <2> QED BY <1>4, <2>1, <2>2 DEF Init, ThreadTypeOK
<1>7. Owned
  BY <1>3, <1>4, <1>5, BoardAssumption DEF Init, Owned
<1>8. Stages
  BY <1>4 DEF Init, Board!Init, Stages
<1>9. Counted
  <2>1. Live = {}
    BY DEF Init, Live
  <2> QED BY <2>1, FS_EmptySet, ArgsAssumption DEF Init, Counted
<1> QED BY <1>1, <1>6, <1>7, <1>8, <1>9 DEF IInv, ThreadInv

(* IInv holds in every reachable state of simpong61. *)
THEOREM Invariance == Spec => []IInv
BY InitIInv, NextKeeps, PTL DEF Spec

(* Every variable stays in its range; in particular nrunning, which wraps   *)
(* nowhere and never exceeds the number of threads wanted.                  *)
THEOREM TypeCorrect == Spec => []TypeOK
<1>1. IInv => TypeOK
  <2> SUFFICES ASSUME IInv PROVE TypeOK
    OBVIOUS
  <2>1. Board!TypeOK
    BY SameBoard
       DEF IInv, BoardIInv, P!IInv, P!TypeOK, Board!TypeOK, P!CellTypes,
           Board!CellTypes, P!Columns, Board!Columns, P!Lines, Board!Lines,
           P!Rows, Board!Rows
  <2>2. nrunning \in -1..NThreads
    BY LiveFinite, ArgsAssumption DEF IInv, ThreadInv, ThreadTypeOK, Counted
  <2> QED BY <2>1, <2>2 DEF IInv, ThreadInv, ThreadTypeOK, TypeOK
<1> QED BY <1>1, Invariance, PTL

(* Balls are neither lost nor doubled, however threads fetch them, move     *)
(* them and hand them back.                                                 *)
THEOREM NoBallLost == Spec => []BallsPartitioned
<1>1. IInv => BallsPartitioned
  <2> SUFFICES ASSUME IInv, NEW b \in Balls
               PROVE  Cardinality({i \in DOMAIN reserve : reserve[i] = b})
                         + Cardinality(Holders(b)) = 1
    BY DEF BallsPartitioned
  <2> DEFINE R == {i \in DOMAIN reserve : reserve[i] = b}
             H == Holders(b)
  <2>1. DOMAIN reserve = 1..Len(reserve) /\ b # NoBall
    BY BoardAssumption DEF IInv, ThreadInv, ThreadTypeOK
  <2>2. CASE \E i \in 1..Len(reserve) : reserve[i] = b
    <3>1. PICK i \in 1..Len(reserve) : reserve[i] = b
      BY <2>2
    <3>2. R = {i} /\ H = {}
      BY <2>1, <3>1 DEF IInv, ThreadInv, Owned, Holders
    <3>3. Cardinality({i}) = 1 /\ Cardinality({}) = 0
      BY FS_Singleton, FS_EmptySet
    <3> HIDE DEF R, H
    <3>4. Cardinality(R) + Cardinality(H) = 1
      BY <3>2, <3>3
    <3> QED BY <3>4 DEF R, H
  <2>3. CASE ~ \E i \in 1..Len(reserve) : reserve[i] = b
    <3>1. PICK t \in Threads : hold[t] = b
      BY <2>3 DEF IInv, ThreadInv, Owned
    <3>2. R = {} /\ H = {t}
      BY <2>1, <2>3, <3>1 DEF IInv, ThreadInv, Owned, Holders
    <3>3. Cardinality({t}) = 1 /\ Cardinality({}) = 0
      BY FS_Singleton, FS_EmptySet
    <3> HIDE DEF R, H
    <3>4. Cardinality(R) + Cardinality(H) = 1
      BY <3>2, <3>3
    <3> QED BY <3>4 DEF R, H
  <2> QED BY <2>2, <2>3
<1> QED BY <1>1, Invariance, PTL

(* main() never runs more threads than it was asked for, although it counts *)
(* a thread only after starting it.                                         *)
THEOREM CountExact == Spec => []ThreadsCounted
<1>1. IInv => ThreadsCounted
  BY DEF IInv, ThreadInv, Counted, ThreadsCounted
<1> QED BY <1>1, Invariance, PTL

(* move() is called for balls on the board only, and never for a stuck one: *)
(* its branch for a removed ball and its branch for a stuck ball are dead.  *)
THEOREM OnlyFreeBallsMove == Spec => []MovesOnlyFreeBalls
<1>1. IInv => MovesOnlyFreeBalls
  <2> SUFFICES ASSUME IInv, NEW t \in Threads, pc[t] \in {"move", "moving"}
               PROVE  /\ placed[hold[t]] /\ ~Board!Stuck(hold[t])
                      /\ pc[t] = "move" <=> op[hold[t]] = "idle"
    BY DEF MovesOnlyFreeBalls
  <2>1. hold[t] \in Balls /\ AtStage(pc[t], hold[t])
    BY DEF IInv, ThreadInv, ThreadTypeOK, Owned, Stages
  <2>2. op[hold[t]] \in {"idle", "placing", "locked", "turned", "looked"}
    BY <2>1 DEF IInv, BoardIInv, P!IInv, P!TypeOK
  <2> QED BY <2>1, <2>2, SameBoard DEF AtStage, P!Moving
<1> QED BY <1>1, Invariance, PTL

-----------------------------------------------------------------------------
(* Each step of simpong61 is a step of the board or leaves it alone. *)
LEMMA StepOnBoard == IInv /\ [Next]_vars => [Board!Next]_Board!vars
<1> SUFFICES ASSUME IInv, [Next]_vars PROVE Board!Next \/ UNCHANGED Board!vars
  OBVIOUS
<1>1. UNCHANGED board => UNCHANGED Board!vars
  BY DEF board, Board!vars
<1>2. CASE UNCHANGED vars
  BY <1>1, <1>2 DEF vars
<1>3. CASE Main
  BY <1>1, <1>3 DEF Main, StartInitial, StartReplacement, CountThread
<1>4. ASSUME NEW t \in Threads,
             \/ Place(t) \/ Land(t) \/ Lock(t) \/ Turn(t) \/ Look(t)
             \/ Blocked(t) \/ Fall(t) \/ Advance(t)
      PROVE  Board!Next
  <2>1. hold[t] \in Balls /\ BoardAct(hold[t])
    BY <1>4, BoardStepsKeep DEF IInv, ThreadInv, ThreadTypeOK
  <2> QED BY <2>1, SameBoard DEF BoardAct, Board!Next
<1>5. ASSUME NEW t \in Threads, Fetch(t) \/ Notify(t) \/ Exit(t)
      PROVE  UNCHANGED Board!vars
  BY <1>1, <1>5 DEF Fetch, Notify, Exit
<1>6. ASSUME NEW t \in Threads,
             LockSticky(t) \/ CheckStick(t) \/ Sleep(t) \/ WakeSpuriously(t)
      PROVE  UNCHANGED Board!vars
  BY <1>1, <1>6 DEF LockSticky, CheckStick, Sleep, WakeSpuriously
<1> QED BY <1>2, <1>3, <1>4, <1>5, <1>6 DEF Next, Thread

(* The program uses the board as PongBoard prescribes: one operation at a   *)
(* time for each ball, by whichever thread holds it.                        *)
THEOREM FollowsBoard == Spec => Board!Spec
<1>1. Init => Board!Init
  BY DEF Init
<1> QED BY <1>1, Invariance, StepOnBoard, PTL DEF Spec, Board!Spec

(* So what is proved of the board holds in the program: move()'s assertion  *)
(* (pongboard.hh, line 141) and signal_handler()'s (simpong61.cc, line 122).*)
THEOREM AssertionsHold == Spec => [](P!CellsMatchBalls /\ P!NoBallOnHole)
<1>1. Board!Spec => P!Spec
  <2>1. Board!Next <=> P!Next
    BY SameBoard DEF Board!Next, P!Next
  <2>2. Board!Init => P!Init
    BY SameBoard
  <2>3. [Board!Next]_Board!vars => [P!Next]_P!vars
    BY <2>1 DEF Board!vars, P!vars
  <2> QED BY <2>2, <2>3, PTL DEF Board!Spec, P!Spec
<1>2. P!Spec => []P!CellsMatchBalls /\ []P!NoBallOnHole
  BY BoardFacts, P!BoardConsistent, P!HolesStayClear, PTL
<1> QED BY <1>1, <1>2, FollowsBoard, PTL

(* Whoever knocks the ball of a sleeping thread free goes on to notify. *)
THEOREM KnockersNotify == Spec => KnocksNotify
<1>1. IInv /\ [Next]_vars =>
        [\A t \in Threads :
            pc[t] = "asleep" /\ Board!Stuck(hold[t]) /\ ~Board!Stuck(hold[t])'
                => \E u \in Threads : pc'[u] = "notify"]_vars
  <2> SUFFICES ASSUME IInv, Next, NEW t \in Threads, pc[t] = "asleep",
                      Board!Stuck(hold[t]), ~Board!Stuck(hold[t])'
               PROVE  \E u \in Threads : pc'[u] = "notify"
    BY DEF vars
  <2>1. hold[t] # NoBall /\ hold[t] \in Balls
    BY DEF IInv, ThreadInv, ThreadTypeOK, Owned
  <2>2. UNCHANGED <<board, hold>> => FALSE
    BY DEF board, Board!Stuck
  <2>3. ASSUME NEW u \in Threads,
               \/ Place(u) \/ Land(u) \/ Lock(u) \/ Turn(u) \/ Look(u)
               \/ Blocked(u) \/ Fall(u) \/ Advance(u)
        PROVE  pc'[u] = "notify"
    <3>1. /\ hold[u] # NoBall /\ hold[u] \in Balls /\ BoardAct(hold[u])
          /\ P!MoveBlocked(hold[u]) => pc'[u] = "notify"
      BY <2>3, BoardStepsKeep DEF IInv, ThreadInv, ThreadTypeOK
    <3>2. u # t /\ hold' = hold
      BY <2>3 DEF Place, Land, Lock, Turn, Look, Blocked, Fall, Advance, BoardStep
    <3>3. hold[t] # hold[u]
      BY <3>1, <3>2 DEF IInv, ThreadInv, Owned
    <3>4. dx'[hold[t]] # dx[hold[t]] \/ dy'[hold[t]] # dy[hold[t]]
      BY <3>2 DEF Board!Stuck
    <3> QED BY <2>1, <3>1, <3>3, <3>4, OthersKept DEF IInv
  <2>4. ASSUME NEW u \in Threads, Fetch(u) \/ Exit(u)
        PROVE  FALSE
    <3>1. u # t
      BY <2>4 DEF Fetch, Exit
    <3>2. hold'[t] = hold[t] /\ UNCHANGED board
      BY <2>4, <3>1 DEF Fetch, Exit, TakeFront, IInv, ThreadInv, ThreadTypeOK
    <3> QED BY <3>2 DEF board, Board!Stuck
  <2>5. CASE Main
    BY <2>2, <2>5 DEF Main, StartInitial, StartReplacement, CountThread
  <2>6. ASSUME NEW u \in Threads,
               \/ Notify(u) \/ LockSticky(u) \/ CheckStick(u) \/ Sleep(u)
               \/ WakeSpuriously(u)
        PROVE  FALSE
    BY <2>2, <2>6 DEF Notify, LockSticky, CheckStick, Sleep, WakeSpuriously
  <2> QED BY <2>3, <2>4, <2>5, <2>6 DEF Next, Thread
<1> QED BY <1>1, Invariance, PTL DEF Spec, KnocksNotify
=============================================================================
