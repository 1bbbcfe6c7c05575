------------------------------- MODULE SimPong -------------------------------
(***************************************************************************)
(* The multi-threaded pong simulator of src/pset6/simpong61.cc: the ball   *)
(* threads, the main thread that starts them, the reserve of balls behind  *)
(* mutex_hole, and the sticky-cell condition variable behind mutex_sticky. *)
(* The board is the module PongBoard, whose steps the ball threads take.   *)
(*                                                                         *)
(* A std::thread is a member of Threads from the moment main() creates it  *)
(* until it has decremented nrunning; there are more members than main()   *)
(* should ever use.  Waiting on a condition variable releases its mutex    *)
(* and sleeps in one step; a sleeper wakes by notify_all or spuriously.    *)
(* Left out: nstarted (printed only), the delays, the signal handlers.     *)
(***************************************************************************)
EXTENDS Integers, Sequences, FiniteSets, SequencesExt

CONSTANTS Balls, NoBall, Width, Height, NSticky, NHoles,
          Threads,     \* identities for the ball threads
          NThreads,    \* nthreads: how many ball threads main() wants
          SpuriousWakeups  \* may wait() return without a notification?

ASSUME SpuriousAssumption == SpuriousWakeups \in BOOLEAN
(* main() creates finitely many balls and threads, on a board with unsigned *)
(* dimensions; a null pointer is no ball.                                   *)
ASSUME FiniteAssumption == IsFiniteSet(Balls) /\ IsFiniteSet(Threads)
ASSUME BoardAssumption == Width \in Nat /\ Height \in Nat /\ NoBall \notin Balls
(* main() refuses other arguments: usage().  Without -j (here -1) there are *)
(* as many threads as balls.                                                *)
Accepts(width, height, nballs, nsticky, nholes, j) ==
    LET nthreads == IF j < 0 THEN nballs ELSE j
        moving   == IF nthreads < nballs THEN nthreads ELSE nballs IN
    /\ width >= 2 /\ height >= 2
    /\ moving + nsticky + nholes < width * height
    /\ nthreads # 0 /\ nthreads <= nballs
ASSUME ArgsAssumption ==
    /\ NThreads \in Nat
    /\ Accepts(Width, Height, Cardinality(Balls), NSticky, NHoles, NThreads)

VARIABLES type, ball, placed, x, y, dx, dy, rowOwner, op, saw, was,
          reserve,       \* ball_reserve
          pc,            \* thread |-> where it is in ball_thread()
          hold,          \* thread |-> its local variable ball
          stickyMutex,   \* is mutex_sticky held?
          nrunning,
          started,       \* main(): threads of the initial loop started so far
          uncounted      \* main(): created a thread, did not yet ++nrunning
board == <<type, ball, placed, x, y, dx, dy, rowOwner, op, saw, was>>
vars == <<board, reserve, pc, hold, stickyMutex, nrunning, started, uncounted>>

Board == INSTANCE PongBoard

Init ==
    /\ Board!Init
    /\ reserve \in SetToSeqs(Balls)
    /\ pc = [t \in Threads |-> "none"]
    /\ hold = [t \in Threads |-> NoBall]
    /\ stickyMutex = FALSE
    /\ nrunning = 0 /\ started = 0 /\ uncounted = FALSE

Goto(t, l) == pc' = [pc EXCEPT ![t] = l]

(* notify_all: every thread asleep at label l wakes up at label m. *)
Woken(l, m) == [t \in Threads |-> IF pc[t] = l THEN m ELSE pc[t]]

------------------------------------------------------------------------------
(* main().  Definitions named Bug... are wrong variants of the definition    *)
(* that follows them; no specification uses them, and TLC must refute them. *)

(* std::thread t(ball_thread): the thread may run before it is counted. *)
Create ==
    /\ \E t \in Threads : pc[t] = "none" /\ Goto(t, "fetch")
    /\ uncounted' = TRUE

StartInitial ==
    /\ started < NThreads /\ ~uncounted
    /\ Create
    /\ started' = started + 1
    /\ UNCHANGED <<board, reserve, hold, stickyMutex, nrunning>>

MayStart == nrunning < NThreads

(* With holes main() polls nrunning for ever; it alone raises it. *)
StartReplacement ==
    /\ started = NThreads /\ ~uncounted
    /\ NHoles > 0 /\ MayStart
    /\ Create
    /\ UNCHANGED <<board, reserve, hold, stickyMutex, nrunning, started>>

CountThread ==
    /\ uncounted
    /\ nrunning' = nrunning + 1
    /\ uncounted' = FALSE
    /\ UNCHANGED <<board, reserve, pc, hold, stickyMutex, started>>

Main == StartInitial \/ StartReplacement \/ CountThread

------------------------------------------------------------------------------
(* ball_thread(), thread t *)

BugTakeFrontKeep(t) ==
    hold' = [hold EXCEPT ![t] = Head(reserve)] /\ UNCHANGED reserve
TakeFront(t) ==
    hold' = [hold EXCEPT ![t] = Head(reserve)] /\ reserve' = Tail(reserve)

(* The critical section that takes a ball from the front of the reserve, or *)
(* waits for one on cv_hole.                                                *)
Fetch(t) ==
    /\ pc[t] = "fetch"
    /\ IF reserve = <<>>
       THEN Goto(t, "noball") /\ UNCHANGED <<hold, reserve>>
       ELSE TakeFront(t) /\ Goto(t, "place")
    /\ UNCHANGED <<board, stickyMutex, nrunning, started, uncounted>>

BoardStep(t) ==
    UNCHANGED <<reserve, hold, stickyMutex, nrunning, started, uncounted>>

Place(t) ==
    /\ pc[t] = "place"
    /\ Board!PlaceStart(hold[t])
    /\ Goto(t, "placing")
    /\ BoardStep(t)

Land(t) ==
    /\ pc[t] = "placing"
    /\ \E c \in Board!Cells : Board!PlaceTry(hold[t], c)
    /\ Goto(t, "move")
    /\ BoardStep(t)

Lock(t) ==
    /\ pc[t] = "move"
    /\ Board!MoveLock(hold[t])
    /\ Goto(t, "moving")
    /\ BoardStep(t)

(* Where ball_thread() goes when move() returned 0. *)
BugIfStayed == "move"
IfStayed == "notify"

(* A stuck ball's move() ends at once, returning 0. *)
Turn(t) ==
    /\ pc[t] = "moving"
    /\ Board!MoveTurn(hold[t])
    /\ Goto(t, IF Board!Stuck(hold[t]) THEN IfStayed ELSE "moving")
    /\ BoardStep(t)

Look(t) ==
    /\ pc[t] = "moving"
    /\ Board!MoveLook(hold[t])
    /\ UNCHANGED pc
    /\ BoardStep(t)

Blocked(t) ==
    /\ pc[t] = "moving"
    /\ Board!MoveBlocked(hold[t])
    /\ Goto(t, IfStayed)
    /\ BoardStep(t)

Fall(t) ==
    /\ pc[t] = "moving"
    /\ Board!MoveFall(hold[t])
    /\ Goto(t, "exit")
    /\ BoardStep(t)

Advance(t) ==
    /\ pc[t] = "moving"
    /\ Board!MoveAdvance(hold[t])
    /\ Goto(t, "advanced")
    /\ BoardStep(t)

(* The sleepers on cv_sticky wake, reacquire the mutex and check again. *)
BugWakeSleepersIf == Woken("asleep", "move")
BugWakeSleepersOther == Woken("noball", "fetch")
WakeSleepers == Woken("asleep", "advanced")

(* mval = 0: cv_sticky.notify_all(), without mutex_sticky. *)
Notify(t) ==
    /\ pc[t] = "notify"
    /\ pc' = [WakeSleepers EXCEPT ![t] = "move"]
    /\ UNCHANGED <<board, reserve, hold, stickyMutex, nrunning, started, uncounted>>

(* mval > 0, or awake again: take mutex_sticky. *)
LockSticky(t) ==
    /\ pc[t] = "advanced"
    /\ ~stickyMutex /\ stickyMutex' = TRUE
    /\ Goto(t, "check")
    /\ UNCHANGED <<board, reserve, hold, nrunning, started, uncounted>>

BugReleaseStickyNot == UNCHANGED stickyMutex
ReleaseSticky == stickyMutex' = FALSE

(* check_cell_stick() reads the ball under the mutex of its line; if it is  *)
(* not stuck the thread releases mutex_sticky and moves on.                 *)
CheckStick(t) ==
    /\ pc[t] = "check"
    /\ Board!RowFree(y[hold[t]] + 1)
    /\ IF Board!Stuck(hold[t])
       THEN Goto(t, "stuck") /\ UNCHANGED stickyMutex
       ELSE Goto(t, "move") /\ ReleaseSticky
    /\ UNCHANGED <<board, reserve, hold, nrunning, started, uncounted>>

(* cv_sticky.wait(mutex_sticky) *)
Sleep(t) ==
    /\ pc[t] = "stuck"
    /\ Goto(t, "asleep")
    /\ ReleaseSticky
    /\ UNCHANGED <<board, reserve, hold, nrunning, started, uncounted>>

(* The C++ standard lets wait() return without a notification. *)
WakeSpuriously(t) ==
    /\ SpuriousWakeups
    /\ pc[t] = "asleep"
    /\ Goto(t, "advanced")
    /\ UNCHANGED <<board, reserve, hold, stickyMutex, nrunning, started, uncounted>>

BugHandBackFront(t) == reserve' = <<hold[t]>> \o reserve
HandBack(t) == reserve' = Append(reserve, hold[t])

BugUncountNot == UNCHANGED nrunning
Uncount == nrunning' = nrunning - 1

(* The last critical section: the ball goes to the back of the reserve. *)
Exit(t) ==
    /\ pc[t] = "exit"
    /\ HandBack(t)
    /\ hold' = [hold EXCEPT ![t] = NoBall]
    /\ pc' = [Woken("noball", "fetch") EXCEPT ![t] = "none"]
    /\ Uncount
    /\ UNCHANGED <<board, stickyMutex, started, uncounted>>

Thread(t) ==
    \/ Fetch(t) \/ Place(t) \/ Land(t)
    \/ Lock(t) \/ Turn(t) \/ Look(t) \/ Blocked(t) \/ Fall(t) \/ Advance(t)
    \/ Notify(t) \/ LockSticky(t) \/ CheckStick(t) \/ Sleep(t) \/ Exit(t)

Next == Main \/ \E t \in Threads : Thread(t) \/ WakeSpuriously(t)

Spec == Init /\ [][Next]_vars

(* Every thread that can go on does so some time.  Nothing is assumed about *)
(* who wins a contended mutex, nor that spurious wake-ups ever happen.      *)
Fairness == WF_vars(Main) /\ \A t \in Threads : WF_vars(Thread(t))
FairSpec == Spec /\ Fairness

------------------------------------------------------------------------------
Live == {t \in Threads : pc[t] # "none"}
Holders(b) == {t \in Threads : hold[t] = b}
InReserve(b) == \E i \in DOMAIN reserve : reserve[i] = b

(* Every variable stays in its range. *)
TypeOK ==
    /\ Board!TypeOK
    /\ reserve \in Seq(Balls)
    /\ pc \in [Threads -> {"none", "fetch", "noball", "place", "placing", "move",
                           "moving", "notify", "advanced", "check", "stuck",
                           "asleep", "exit"}]
    /\ hold \in [Threads -> Balls \cup {NoBall}]
    /\ stickyMutex \in BOOLEAN /\ uncounted \in BOOLEAN
    /\ nrunning \in -1..NThreads /\ started \in 0..NThreads

(* Each ball is once in the reserve or in the hands of one thread: no two   *)
(* threads ever operate on one ball, and none is lost when threads end.     *)
BallsPartitioned ==
    \A b \in Balls :
       Cardinality({i \in DOMAIN reserve : reserve[i] = b})
          + Cardinality(Holders(b)) = 1

(* nrunning, which main() reads and ball threads write with no common lock, *)
(* is right up to the thread main() has not counted yet, and it never lets  *)
(* main() run more threads than it was asked for.                           *)
ThreadsCounted ==
    /\ nrunning + (IF uncounted THEN 1 ELSE 0) = Cardinality(Live)
    /\ Cardinality(Live) <= NThreads

(* A thread calls move() only for a ball that is on the board, and only for *)
(* one that is not stuck: once check_cell_stick() has said so, no other     *)
(* thread can make the ball stick.                                          *)
MovesOnlyFreeBalls ==
    \A t \in Threads : pc[t] \in {"move", "moving"} =>
        /\ placed[hold[t]] /\ ~Board!Stuck(hold[t])
        /\ pc[t] = "move" <=> op[hold[t]] = "idle"

(* The threads never block each other: if none of them and not main() can   *)
(* take a step, then each of them sleeps on cv_sticky.  In particular       *)
(* mutex_sticky and the row mutexes are never waited for in a circle.       *)
StopsOnlyAsleep ==
    \/ ENABLED Main
    \/ \E t \in Threads : ENABLED Thread(t)
    \/ \A t \in Live : pc[t] = "asleep"

(* Every ball in the reserve gets its turn on the board again: main()       *)
(* replaces the threads that end, and the reserve is a queue.               *)
ReserveServed == \A b \in Balls : InReserve(b) ~> ~InReserve(b)

(* Whoever knocks a sleeping thread's ball free goes on to notify.           *)
KnocksNotify ==
    [][\A t \in Threads :
          pc[t] = "asleep" /\ Board!Stuck(hold[t]) /\ ~Board!Stuck(hold[t])'
              => \E u \in Threads : pc'[u] = "notify"]_vars

(* A notification that is under way when a thread sleeps does wake it.      *)
NotifyWakes ==
    \A t \in Threads :
       pc[t] = "asleep" /\ (\E u \in Threads : pc[u] = "notify") ~> pc[t] # "asleep"

(* "2. Move the ball until it falls down a hole" (simpong61.cc:38): a       *)
(* thread whose ball was knocked free does not sleep on.                    *)
FreedBallWakesThread ==
    \A t \in Threads :
       pc[t] = "asleep" /\ ~Board!Stuck(hold[t]) ~> pc[t] # "asleep"
==============================================================================
