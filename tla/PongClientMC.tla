----------------------------- MODULE PongClientMC -----------------------------
(***************************************************************************)
(* pong61 with servers that answer anything: every status, with and without *)
(* a length, with bodies too short, too long or empty, cut off anywhere.   *)
(***************************************************************************)
EXTENDS PongClient, FiniteSets

CONSTANTS Codes, Lengths,   \* statuses (0: no status line) and Content-Length (-1: none)
          Boards            \* bodies of the response to reset, each a sequence of numbers

Num(ns) == [i \in 1..Len(ns) |-> Text("number", ns[i])]
StatusLine(code) == IF code = 0 THEN Text("garbage", 0) ELSE Text("status", code)
Headers(code, len) ==
    <<StatusLine(code), CR, LF, Text("other", 0), CR, LF>>
    \o (IF len = -1 THEN <<>> ELSE <<Text("length", len), CR, LF>>) \o <<CR, LF>>
Full(r) == Headers(r.code, r.length) \o Num(r.body)
(* The server sends all of a response or only its start; it may keep the    *)
(* connection open if the client can tell that the response is complete.    *)
Answers(codes, lengths, bodies) ==
    UNION {LET full == Full(r) IN
           {[code |-> r.code, length |-> r.length, body |-> r.body,
             sent |-> SubSeq(full, 1, n), closes |-> c] : n \in 0..Len(full), c \in {TRUE}}
           \cup {[code |-> r.code, length |-> r.length, body |-> r.body, sent |-> full,
                  closes |-> FALSE] : n \in IF r.length \in 0..Len(r.body) THEN {0} ELSE {}}
           : r \in [code : codes, length : lengths, body : bodies]}
DefLengths == {-1, 0, 1}
DefBoards == {<<2, 3>>, <<3, 2>>, <<3>>, <<0, 2>>}
DefResets == Answers({200, 404}, {-1, 2}, Boards)
DefMoves == Answers(Codes, Lengths, {<<>>, <<0, 5>>, <<-1>>})
ASSUME AnswersAssumption ==
    \A r \in Resets \cup Moves :
       /\ r.code \in Nat /\ r.length \in Nat \cup {-1} /\ r.body \in Seq(Int)
       /\ \E n \in 0..Len(Full(r)) :
            /\ r.sent = SubSeq(Full(r), 1, n)
            /\ r.closes \/ (n = Len(Full(r)) /\ r.length \in 0..Len(r.body))

(* What a response is worth, from the bytes that were sent of it and not    *)
(* from the pieces they came in: the statuses that may be seen, its body,   *)
(* and how it ended.                                                        *)
HeaderLength(r) == Len(Headers(r.code, r.length))
Wanted(r) ==
    LET n == Len(r.sent)  got == n - HeaderLength(r)
        broken(codes) == [state |-> "broken", status |-> codes, body |-> <<>>] IN
    IF n < 3 \/ r.code = 0 THEN broken({-1})
    ELSE IF got < 0 THEN broken({-1, r.code})
    ELSE IF r.length = -1
    THEN [state |-> "closed", status |-> {r.code}, body |-> SubSeq(r.sent, n - got + 1, n)]
    ELSE IF got < r.length THEN broken({r.code})
    ELSE [state |-> "idle", status |-> {r.code}, body |-> SubSeq(r.sent, n - got + 1, n)]
(* receive_response_headers() and receive_response_body(): in whatever      *)
(* pieces a response arrives, the thread ends with the status the server    *)
(* sent, with at least the announced part of the body and nothing that is   *)
(* not in it, and sees a response that was cut off as broken; a connection  *)
(* is not read again once its response is complete.  Of headers that were   *)
(* cut off it may have the status or none: see CutOffUnknown.               *)
ResponseRight == \A t \in Threads : thread[t] = "judge" =>
    LET w == Wanted(wire[t].response)  c == conn[t] IN
    /\ c.status \in w.status /\ c.state = w.state
    /\ w.state # "broken" => /\ IsPrefix(c.buf, w.body)
                             /\ Len(c.buf) >= c.length
                             /\ w.state = "closed" => c.buf = w.body

(* Where a ball that started in a corner is after k moves along one axis;   *)
(* on a board one cell wide it stays there.                                 *)
Wave(k, n) == IF n = 1 THEN 0
              ELSE LET m == k % (2 * (n - 1)) IN IF m < n THEN m ELSE (2 * (n - 1)) - m
(* main() and pong_thread(): the server is asked for just the positions of  *)
(* the ball's path, in order, each asked for after the one before has been  *)
(* answered; no thread is forgotten and none is waited for twice.           *)
MovesInOrder ==
    /\ \A k \in 1..Len(asked) :
         asked[k] = <<Wave(k - 1, board.width), Wave(k - 1, board.height)>>
    /\ \A t, u \in Spawned : thread[t] # "ended" /\ thread[u] # "ended" => t = u
    /\ main \in {"spawn", "move"} => ~move_done /\ \A t \in Spawned : thread[t] = "ended"
    /\ main \in {"spawn", "move"} => Len(asked) = Cardinality(Spawned)

(* The game goes on: with a server that answers or hangs up, every move is  *)
(* followed by the next one or by the end of the program.                   *)
GameGoesOn == \A k \in 0..MaxMoves - 1 :
    Len(asked) = k ~> Len(asked) = k + 1 \/ ~Running

(* receive_response_headers(): "If the connection terminates prematurely,   *)
(* `status_code_` is set to -1."                                            *)
CutOffUnknown == \A t \in Threads :
    thread[t] = "body" /\ Len(wire[t].response.sent) < HeaderLength(wire[t].response)
        => conn[t].status = -1
=============================================================================
