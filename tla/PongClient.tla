------------------------------ MODULE PongClient ------------------------------
(***************************************************************************)
(* src/pset6/pong61.cc: the client moves one ball over a board of its own  *)
(* and asks an HTTP server, from a new detached thread for each position,  *)
(* to draw it.  The main thread polls move_done until the thread is done.  *)
(*                                                                         *)
(* Thread 0 stands for main() itself in the reset exchange, thread k for   *)
(* the k-th move.  A response is a sequence of symbols: lines of text, CR, *)
(* LF, and numbers in the body; it arrives in pieces of any size.  What    *)
(* the server answers is external: a status, headers, a body, perhaps cut  *)
(* short by the end of the connection.                                     *)
(* Left out: options and addresses, EINTR and EAGAIN (the code tries       *)
(* again), the size of buf_, delays, and messages.                         *)
(***************************************************************************)
EXTENDS Integers, Sequences, SequencesExt

CONSTANTS MaxMoves,   \* bound: the moves that are asked for
          Asserts,    \* FALSE in a build with NDEBUG
          Resets,     \* the responses to reset, and to move
          Moves

Symbols == [is : STRING, n : Int]
ASSUME ClientAssumption ==
    /\ MaxMoves \in Nat /\ Asserts \in BOOLEAN
    /\ \A r \in Resets \cup Moves : r.sent \in Seq(Symbols) /\ r.closes \in BOOLEAN

VARIABLES main,       \* main(): where it is; "exited" ends all threads
          board,      \* [width, height, at: the position whose ball_ is set]
          ball,       \* the ball: x, y, dx, dy
          move_done,
          thread,     \* thread |-> where it is
          conn,       \* thread |-> its http_connection
          wire,       \* thread |-> the response: what has not been read, what was sent
          asked       \* history: the positions requested, in order
clientVars == <<main, board, ball, move_done, thread, conn, wire, asked>>

Threads == 0..MaxMoves
NoPos == <<-1, -1>>
Unused == [state |-> "none", status |-> -1, length |-> 0, has |-> FALSE, eof |-> FALSE, buf |-> <<>>]
Silent == [left |-> <<>>, sent |-> <<>>, closes |-> FALSE, response |-> <<>>]
ExitOne == main' = "exited" /\ UNCHANGED <<board, ball, move_done, thread, conn, wire, asked>>
Goto(t, l) == thread' = [thread EXCEPT ![t] = l]

(* A line is its text, CR and LF; the text of the header that matters says  *)
(* the length of the body, the status line says the status, or is garbage.  *)
Text(kind, n) == [is |-> kind, n |-> n]
CR == Text("cr", 0)
LF == Text("lf", 0)
EndOfLine(buf) == {i \in 1..Len(buf) - 1 : buf[i] = CR /\ buf[i + 1] = LF}
Waiting(c) == c.state \in {"waiting", "headers"}

(* process_response_headers(): what a whole line does to the connection. *)
Line(c, line, rest) ==
    IF c.state = "waiting"
    THEN IF line # <<>> /\ line[1].is = "status"
         THEN [c EXCEPT !.buf = rest, !.state = "headers", !.status = line[1].n]
         ELSE [c EXCEPT !.buf = rest, !.state = "broken"]
    ELSE IF line = <<>> THEN [c EXCEPT !.buf = rest, !.state = "body"]
    ELSE IF line[1].is = "length" THEN [c EXCEPT !.buf = rest, !.length = line[1].n, !.has = TRUE]
    ELSE [c EXCEPT !.buf = rest]
Consumed(c) ==   \* the first line that buf_ holds
    LET i == Min(EndOfLine(c.buf)) IN
    Line(c, SubSeq(c.buf, 1, i - 1), SubSeq(c.buf, i + 2, Len(c.buf)))

(* check_response_body() *)
BugCheckBody(c) ==   \* without a length, whatever has come is the body
    LET whole == c.state = "body" /\ Len(c.buf) >= c.length
        s == IF whole THEN "idle" ELSE c.state IN
    [c EXCEPT !.state = IF ~c.eof THEN s
                        ELSE IF s \in {"idle", "closed"} THEN "closed" ELSE "broken"]
CheckBody(c) ==
    LET whole == c.state = "body" /\ (c.has \/ c.eof) /\ Len(c.buf) >= c.length
        s == IF whole THEN "idle" ELSE c.state IN
    [c EXCEPT !.state = IF ~c.eof THEN s
                        ELSE IF s \in {"idle", "closed"} THEN "closed" ELSE "broken"]

(* read(2): some of what has arrived, or the end of the connection. *)
Read(t, c) ==
    \/ \E n \in 1..Len(wire[t].left) :
         /\ conn' = [conn EXCEPT ![t] = [c EXCEPT !.buf = @ \o SubSeq(wire[t].left, 1, n)]]
         /\ wire' = [wire EXCEPT ![t].left = SubSeq(@, n + 1, Len(@))]
    \/ /\ wire[t].left = <<>> /\ wire[t].closes
       /\ conn' = [conn EXCEPT ![t] = [c EXCEPT !.eof = TRUE]]
       /\ wire' = wire

------------------------------------------------------------------------------
(* http_connect() and send_request(); either may fail, which ends the       *)
(* program.  The server then has its response ready.                        *)
Connect(t) == /\ thread[t] = "connect"
              /\ \/ /\ Goto(t, "send")
                    /\ UNCHANGED <<main, board, ball, move_done, conn, wire, asked>>
                 \/ ExitOne
Send(t) ==
    /\ thread[t] = "send"
    /\ \/ /\ \E r \in IF t = 0 THEN Resets ELSE Moves :
               wire' = [wire EXCEPT ![t] = [left |-> r.sent, sent |-> r.sent,
                                            closes |-> r.closes, response |-> r]]
          /\ conn' = [conn EXCEPT ![t] = [Unused EXCEPT !.state = "waiting"]]
          /\ asked' = IF t = 0 THEN asked ELSE Append(asked, <<ball.x, ball.y>>)
          /\ Goto(t, "headers")
          /\ UNCHANGED <<main, board, ball, move_done>>
       \/ ExitOne

(* receive_response_headers(): consume the lines that are whole, then read, *)
(* until the headers are over; statuses of 500 and more end the program.    *)
ReceiveHeaders(t) ==
    LET c == conn[t] IN
    /\ thread[t] = "headers"
    /\ \/ /\ Waiting(c) /\ EndOfLine(c.buf) # {}
          /\ conn' = [conn EXCEPT ![t] = Consumed(c)]
          /\ UNCHANGED <<main, thread, wire>>
       \/ /\ Waiting(c) /\ EndOfLine(c.buf) = {} /\ ~c.eof
          /\ Read(t, c)
          /\ UNCHANGED <<main, thread>>
       \/ /\ ~Waiting(c) \/ c.eof
          /\ conn' = [conn EXCEPT ![t].state = IF c.eof THEN "broken" ELSE @]
          /\ main' = IF c.status >= 500 THEN "exited" ELSE main
          /\ Goto(t, "body")
          /\ UNCHANGED wire
    /\ UNCHANGED <<board, ball, move_done, asked>>

(* receive_response_body(): nothing to do if the connection is broken. *)
ReceiveBody(t) ==
    LET c == IF conn[t].state = "broken" THEN conn[t] ELSE CheckBody(conn[t]) IN
    /\ thread[t] = "body"
    /\ IF c.state = "body" THEN Read(t, c) /\ UNCHANGED thread
       ELSE conn' = [conn EXCEPT ![t] = c] /\ wire' = wire /\ Goto(t, "judge")
    /\ UNCHANGED <<main, board, ball, move_done, asked>>

(* What strtod() and sscanf() find at the start of buf_. *)
Numbers(buf) == {n \in 0..Len(buf) : \A i \in 1..n : buf[i].is = "number"}
Value(c) == IF c.buf # <<>> /\ c.buf[1].is = "number" THEN c.buf[1].n ELSE 0

(* pong_thread(): a status other than 200 is a warning, a negative result   *)
(* the end; a response that never came counts as success.                   *)
JudgeMove(t) ==
    /\ t # 0 /\ thread[t] = "judge"
    /\ IF Value(conn[t]) < 0 THEN ExitOne
       ELSE /\ conn' = [conn EXCEPT ![t] = Unused] /\ wire' = [wire EXCEPT ![t] = Silent]
            /\ Goto(t, "signal")
            /\ UNCHANGED <<main, board, ball, move_done, asked>>
BugSignal(t) ==   \* it exits first, and signals only if main still waits
    /\ thread[t] = "signal"
    /\ Goto(t, "ended")
    /\ move_done' = (main # "poll")
    /\ UNCHANGED <<main, board, ball, conn, wire, asked>>
Signal(t) ==
    /\ thread[t] = "signal"
    /\ Goto(t, "ended")
    /\ move_done' = TRUE
    /\ UNCHANGED <<main, board, ball, conn, wire, asked>>

(* main(): the answer to reset gives the board its size; the ball starts in *)
(* a corner, and no cell of the board knows of it.                          *)
JudgeReset ==
    LET b == conn[0].buf IN
    /\ thread[0] = "judge"
    /\ IF conn[0].status # 200 \/ 2 \notin Numbers(b) \/ b[1].n <= 0 \/ b[2].n <= 0 THEN ExitOne
       ELSE /\ board' = [width |-> b[1].n, height |-> b[2].n, at |-> NoPos]
            /\ ball' = [x |-> 0, y |-> 0, dx |-> 1, dy |-> 1]
            /\ conn' = [conn EXCEPT ![0] = Unused] /\ wire' = [wire EXCEPT ![0] = Silent]
            /\ Goto(0, "ended")
            /\ main' = "spawn"
            /\ UNCHANGED <<move_done, asked>>
Spawned == {t \in Threads : t # 0 /\ thread[t] # "none"}
Spawn ==
    /\ main = "spawn"
    /\ \/ /\ \E t \in Threads \ {0} : /\ thread[t] = "none"
                                      /\ \A u \in 1..t - 1 : u \in Spawned
                                      /\ Goto(t, "connect")
          /\ main' = "poll"
          /\ UNCHANGED <<board, ball, move_done, conn, wire, asked>>
       \/ ExitOne
BugPoll ==   \* the flag is left set
    /\ main = "poll" /\ move_done
    /\ main' = "move" /\ move_done' = move_done
    /\ UNCHANGED <<board, ball, thread, conn, wire, asked>>
Poll ==
    /\ main = "poll" /\ move_done
    /\ main' = "move" /\ move_done' = FALSE
    /\ UNCHANGED <<board, ball, thread, conn, wire, asked>>

(* pong_ball::move() for the only ball on a board without holes or sticky   *)
(* cells; main() calls it until it returns more than 0.                     *)
Obstacle(x, y) == x \notin 0..board.width - 1 \/ y \notin 0..board.height - 1
Bounced(b) ==
    LET c == [b EXCEPT !.dx = IF Obstacle(b.x + @, b.y) THEN -@ ELSE @] IN
    [c EXCEPT !.dy = IF Obstacle(b.x, b.y + @) THEN -@ ELSE @]
Move ==
    /\ main = "move"
    /\ LET b == Bounced(ball)  x == b.x + b.dx  y == b.y + b.dy IN
       IF Asserts /\ board.at # <<ball.x, ball.y>>
       THEN main' = "aborted" /\ UNCHANGED <<board, ball>>
       ELSE IF Obstacle(x, y)
       THEN ball' = [b EXCEPT !.dx = -@, !.dy = -@] /\ UNCHANGED <<main, board>>
       ELSE /\ ball' = [b EXCEPT !.x = x, !.y = y]
            /\ board' = [board EXCEPT !.at = <<x, y>>]
            /\ main' = "spawn"
    /\ UNCHANGED <<move_done, thread, conn, wire, asked>>

Client(t) == \/ Connect(t) \/ Send(t) \/ ReceiveHeaders(t) \/ ReceiveBody(t)
             \/ JudgeMove(t) \/ Signal(t) \/ (t = 0 /\ JudgeReset)
Main == Spawn \/ Poll \/ Move
Running == main \notin {"exited", "aborted"}
Init == /\ main = "reset" /\ move_done = FALSE /\ asked = <<>>
        /\ board = [width |-> 0, height |-> 0, at |-> NoPos]
        /\ ball = [x |-> -1, y |-> -1, dx |-> 0, dy |-> 0]
        /\ thread = [t \in Threads |-> IF t = 0 THEN "connect" ELSE "none"]
        /\ conn = [t \in Threads |-> Unused] /\ wire = [t \in Threads |-> Silent]
Next == Running /\ ((\E t \in Threads : Client(t)) \/ Main)
(* Every thread that can run is scheduled; main() polls on. *)
Spec == /\ Init /\ [][Next]_clientVars
        /\ WF_clientVars(Running /\ Main)
        /\ \A t \in Threads : WF_clientVars(Running /\ Client(t))
=============================================================================
