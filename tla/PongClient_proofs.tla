--------------------------- MODULE PongClient_proofs ---------------------------
(***************************************************************************)
(* Proofs about pong61's client (PongClient, with the properties of        *)
(* PongClientMC), for any number of moves and any responses.               *)
(***************************************************************************)
EXTENDS PongClientMC, FiniteSetTheorems, NaturalsInduction, WellFoundedInduction, TLAPS

Locs == {"none", "connect", "send", "headers", "body", "judge", "signal", "ended"}
States == {"none", "waiting", "headers", "body", "idle", "closed", "broken"}
ConnType == [state : States, status : Int, length : Int, has : BOOLEAN, eof : BOOLEAN,
             buf : Seq(Symbols)]

WireType == [left : Seq(Symbols), sent : Seq(Symbols), closes : BOOLEAN,
             response : Resets \cup Moves \cup {<<>>}]

(* Types. *)
Typed ==
    /\ main \in {"reset", "spawn", "poll", "move", "exited", "aborted"}
    /\ thread \in [Threads -> Locs]
    /\ move_done \in BOOLEAN
    /\ board \in [width : Int, height : Int, at : Int \X Int]
    /\ ball \in [x : Int, y : Int, dx : Int, dy : Int]
    /\ asked \in Seq(Int \X Int)
    /\ conn \in [Threads -> ConnType]
    /\ wire \in [Threads -> WireType]

(* m threads have been started, one after the other; main() waits for the   *)
(* last one, whose end is what move_done says.                              *)
Stage(m) ==
    /\ \A t \in 1..MaxMoves : /\ t < m => thread[t] = "ended"
                              /\ t = m => thread[t] # "none"
                              /\ t > m => thread[t] = "none"
    /\ thread[0] \notin {"none", "signal"}
    /\ main = "reset" => m = 0 /\ ~move_done
    /\ main \in {"spawn", "poll", "move"} => thread[0] = "ended"
    /\ main = "poll" => m > 0 /\ (move_done <=> thread[m] = "ended")
    /\ main \in {"spawn", "move"} => ~move_done /\ (m > 0 => thread[m] = "ended")
    /\ main = "move" => m > 0
    /\ Len(asked) = IF m > 0 /\ thread[m] \in {"connect", "send"} THEN m - 1 ELSE m

(* Which way the ball goes on from place p along an axis of n cells. *)
Heads(p, d, n) == IF p + d \in 0..n - 1 THEN d ELSE -d

(* The ball has made j moves along the path. *)
Along(j) ==
    /\ board.width > 0 /\ board.height > 0
    /\ ball.x = Wave(j, board.width) /\ ball.y = Wave(j, board.height)
    /\ ball.dx \in {-1, 1} /\ ball.dy \in {-1, 1}
    /\ IF board.width = 1 \/ board.height = 1 THEN j = 0
       ELSE /\ Wave(j + 1, board.width) = ball.x + Heads(ball.x, ball.dx, board.width)
            /\ Wave(j + 1, board.height) = ball.y + Heads(ball.y, ball.dy, board.height)

Path(m) ==
    /\ \A k \in 1..Len(asked) : asked[k] = <<Wave(k - 1, board.width), Wave(k - 1, board.height)>>
    /\ main = "reset" => asked = <<>>
    /\ main = "spawn" => Along(m)
    /\ main \in {"poll", "move"} => Along(m - 1)

IInv == Typed /\ \E m \in 0..MaxMoves : Stage(m) /\ Path(m)

------------------------------------------------------------------------------
(* The path along one axis.                                                 *)

LEMMA Divided ==
    ASSUME NEW k \in Nat, NEW p \in Nat, p > 0
    PROVE  k \div p \in Int /\ k = p * (k \div p) + (k % p) /\ k % p \in 0..p - 1
BY SMTT(60)

LEMMA OneRemainder ==
    ASSUME NEW p \in Nat, p > 0, NEW q \in Int, NEW u \in Int, NEW r \in 0..p - 1, NEW s \in 0..p - 1,
           p * q + r = p * u + s
    PROVE  r = s
BY SMTT(60)

LEMMA NextRemainder ==
    ASSUME NEW k \in Nat, NEW p \in Nat, p > 0
    PROVE  (k + 1) % p = IF k % p = p - 1 THEN 0 ELSE (k % p) + 1
<1>1. PICK q, r : q = k \div p /\ r = k % p
  OBVIOUS
<1>2. q \in Int /\ r \in 0..p - 1 /\ k = p * q + r
  BY <1>1, Divided
<1>3. PICK u, s : u = (k + 1) \div p /\ s = (k + 1) % p
  OBVIOUS
<1>4. u \in Int /\ s \in 0..p - 1 /\ k + 1 = p * u + s
  <2>1. k + 1 \in Nat
    OBVIOUS
  <2> QED
    BY <1>3, <2>1, Divided
<1>5. CASE r = p - 1
  <2>1. p * (q + 1) + 0 = p * u + s
    BY <1>2, <1>4, <1>5
  <2>2. q + 1 \in Int /\ 0 \in 0..p - 1
    BY <1>2
  <2>3. 0 = s
    BY <1>4, <2>1, <2>2, OneRemainder
  <2> QED
    BY <1>1, <1>3, <1>5, <2>3
<1>6. CASE r # p - 1
  <2>1. p * q + (r + 1) = p * u + s /\ r + 1 \in 0..p - 1
    BY <1>2, <1>4, <1>6
  <2>2. r + 1 = s
    BY <1>2, <1>4, <2>1, OneRemainder
  <2> QED
    BY <1>1, <1>3, <1>6, <2>2
<1> QED
  BY <1>5, <1>6

(* A place on an axis of n cells, and the way to the next: the remainder    *)
(* says both.                                                               *)
Fold(r, n) == IF r < n THEN r ELSE (2 * (n - 1)) - r

LEMMA WaveStep ==
    ASSUME NEW n \in Nat, n >= 2, NEW k \in Nat, NEW d \in {-1, 1},
           Wave(k + 1, n) = Wave(k, n) + Heads(Wave(k, n), d, n)
    PROVE  /\ Wave(k, n) \in 0..n - 1 /\ Wave(k + 1, n) \in 0..n - 1
           /\ Wave(k + 2, n) = Wave(k + 1, n)
                 + Heads(Wave(k + 1, n), Heads(Wave(k, n), d, n), n)
<1>1. PICK p : p = 2 * (n - 1)
  OBVIOUS
<1>2. p \in Nat /\ p > 0
  BY <1>1
<1>3. PICK r, s, t : r = k % p /\ s = (k + 1) % p /\ t = (k + 2) % p
  OBVIOUS
<1>4. r \in 0..p - 1 /\ s = IF r = p - 1 THEN 0 ELSE r + 1
  BY <1>2, <1>3, Divided, NextRemainder
<1>5. t = IF s = p - 1 THEN 0 ELSE s + 1
  <2>1. k + 1 \in Nat /\ (k + 1) + 1 = k + 2
    OBVIOUS
  <2> QED
    BY <1>2, <1>3, <2>1, NextRemainder
<1>6. Wave(k, n) = Fold(r, n) /\ Wave(k + 1, n) = Fold(s, n) /\ Wave(k + 2, n) = Fold(t, n)
  <2>1. n # 1
    OBVIOUS
  <2> QED
    BY Zenon, <1>1, <1>3, <2>1 DEF Wave, Fold
<1>7. PICK a, b, c : a = Fold(r, n) /\ b = Fold(s, n) /\ c = Fold(t, n)
  OBVIOUS
<1>8. PICK e : e = Heads(a, d, n)
  OBVIOUS
<1>9. b = a + e
  BY Zenon, <1>6, <1>7, <1>8
<1>10. a \in 0..n - 1 /\ b \in 0..n - 1 /\ c = b + Heads(b, e, n)
  BY SMTT(60), <1>1, <1>2, <1>4, <1>5, <1>7, <1>8, <1>9 DEF Fold, Heads
<1> QED
  BY Zenon, <1>6, <1>7, <1>8, <1>10

LEMMA WaveStart ==
    ASSUME NEW n \in Nat, n >= 1
    PROVE  /\ Wave(0, n) = 0
           /\ n >= 2 => Wave(1, n) = 0 + Heads(0, 1, n)
<1>1. CASE n = 1
  BY <1>1 DEF Wave
<1>2. CASE n >= 2
  <2>1. PICK p : p = 2 * (n - 1)
    OBVIOUS
  <2>2. p \in Nat /\ p >= 2
    BY <1>2, <2>1
  <2>3. 0 % p = 0 /\ 1 % p = 1
    BY SMTT(60), <2>2
  <2> QED
    BY <1>2, <2>1, <2>2, <2>3 DEF Wave, Heads
<1> QED
  BY <1>1, <1>2

------------------------------------------------------------------------------
(* Types.                                                                   *)

(* A set of numbers with an element has a least one. *)
LEMMA LeastIs ==
    ASSUME NEW T, T \subseteq Nat, T # {}
    PROVE  Min(T) \in T /\ \A k \in T : Min(T) <= k
<1> DEFINE R == {ss \in Nat \X Nat : ss[1] < ss[2]}
<1>1. \E a \in T : \A b \in T : ~ (<<b, a>> \in R)
  <2>1. IsWellFoundedOn(R, Nat)
    BY NatLessThanWellFounded DEF OpToRel
  <2> HIDE DEF R
  <2> QED
    BY <2>1, WFMin
<1>2. PICK a \in T : \A b \in T : ~ (<<b, a>> \in R)
  BY <1>1
<1>3. ASSUME NEW b \in T PROVE a <= b
  <2>1. a \in Nat /\ b \in Nat /\ ~(<<b, a>> \in Nat \X Nat /\ b < a)
    BY <1>2
  <2> QED
    BY <2>1
<1>4. \E x \in T : \A y \in T : x <= y
  BY <1>3
<1> QED
  BY Zenon, <1>4 DEF Min

LEMMA FirstEnd ==
    ASSUME NEW b \in Seq(Symbols), EndOfLine(b) # {}
    PROVE  /\ Min(EndOfLine(b)) \in EndOfLine(b) /\ Min(EndOfLine(b)) \in 1..Len(b) - 1
           /\ \A i \in EndOfLine(b) : Min(EndOfLine(b)) <= i
<1>1. EndOfLine(b) \subseteq 1..Len(b) - 1 /\ EndOfLine(b) \subseteq Nat
  BY DEF EndOfLine
<1>2. Min(EndOfLine(b)) \in EndOfLine(b) /\ \A i \in EndOfLine(b) : Min(EndOfLine(b)) <= i
  BY Zenon, <1>1, LeastIs
<1> QED
  BY <1>1, <1>2

LEMMA PieceTyped ==
    ASSUME NEW S, NEW d \in Seq(S), NEW m \in Nat, NEW n \in Nat, m >= 1, n <= Len(d)
    PROVE  SubSeq(d, m, n) \in Seq(S)
BY SMTT(60)

LEMMA ConnChanged ==
    ASSUME NEW c \in ConnType
    PROVE  /\ \A b \in Seq(Symbols) : [c EXCEPT !.buf = b] \in ConnType
           /\ \A s \in States : [c EXCEPT !.state = s] \in ConnType
           /\ \A h \in BOOLEAN : [c EXCEPT !.eof = h] \in ConnType
           /\ \A b \in Seq(Symbols), s \in States : [c EXCEPT !.buf = b, !.state = s] \in ConnType
           /\ \A b \in Seq(Symbols), s \in States, n \in Int :
                 [c EXCEPT !.buf = b, !.state = s, !.status = n] \in ConnType
           /\ \A b \in Seq(Symbols), n \in Int, h \in BOOLEAN :
                 [c EXCEPT !.buf = b, !.length = n, !.has = h] \in ConnType
<1>1. PICK f : f = c.buf
  OBVIOUS
<1>2. f \in Seq(Symbols)
  BY <1>1 DEF ConnType
<1> QED
  BY Zenon DEF ConnType

LEMMA LineTyped ==
    ASSUME NEW c \in ConnType, NEW line \in Seq(Symbols), NEW rest \in Seq(Symbols)
    PROVE  Line(c, line, rest) \in ConnType
<1>1. /\ [c EXCEPT !.buf = rest, !.state = "broken"] \in ConnType
      /\ [c EXCEPT !.buf = rest, !.state = "body"] \in ConnType
      /\ [c EXCEPT !.buf = rest] \in ConnType
  <2>1. "broken" \in States /\ "body" \in States
    BY DEF States
  <2> QED
    BY Zenon, <2>1, ConnChanged
<1>2. ASSUME line # <<>>
      PROVE  /\ [c EXCEPT !.buf = rest, !.state = "headers", !.status = line[1].n] \in ConnType
             /\ [c EXCEPT !.buf = rest, !.length = line[1].n, !.has = TRUE] \in ConnType
  <2>1. line[1] \in Symbols
    BY <1>2
  <2>2. PICK n : n = line[1].n
    OBVIOUS
  <2>3. n \in Int
    BY <2>1, <2>2 DEF Symbols
  <2>4. "headers" \in States /\ TRUE \in BOOLEAN
    BY DEF States
  <2> QED
    BY Zenon, <2>2, <2>3, <2>4, ConnChanged
<1> QED
  BY Zenon, <1>1, <1>2 DEF Line

LEMMA ConsumedTyped ==
    ASSUME NEW c \in ConnType, EndOfLine(c.buf) # {}
    PROVE  Consumed(c) \in ConnType
<1>1. PICK b, i : b = c.buf /\ i = Min(EndOfLine(c.buf))
  OBVIOUS
<1>2. b \in Seq(Symbols)
  BY <1>1 DEF ConnType
<1>3. i \in 1..Len(b) - 1
  BY <1>1, <1>2, FirstEnd
<1>4. SubSeq(b, 1, i - 1) \in Seq(Symbols) /\ SubSeq(b, i + 2, Len(b)) \in Seq(Symbols)
  <2>1. i - 1 \in Nat /\ i + 2 \in Nat /\ Len(b) \in Nat /\ 1 \in Nat /\ i - 1 <= Len(b) /\ i + 2 >= 1
        /\ 1 >= 1 /\ Len(b) <= Len(b)
    BY <1>2, <1>3
  <2> QED
    BY <1>2, <2>1, PieceTyped
<1>5. Line(c, SubSeq(b, 1, i - 1), SubSeq(b, i + 2, Len(b))) \in ConnType
  BY <1>4, LineTyped
<1> QED
  BY Zenon, <1>1, <1>5 DEF Consumed

LEMMA CheckBodyTyped ==
    ASSUME NEW c \in ConnType
    PROVE  CheckBody(c) \in ConnType
<1>1. \A s \in States : [c EXCEPT !.state = s] \in ConnType
  BY Zenon, ConnChanged
<1>2. c.state \in States
  BY DEF ConnType
<1>3. \E s \in States : CheckBody(c) = [c EXCEPT !.state = s]
  BY <1>2 DEF CheckBody, States
<1> QED
  BY <1>1, <1>3

LEMMA ReadTyped ==
    ASSUME Typed, NEW t \in Threads, NEW c \in ConnType, Read(t, c)
    PROVE  conn' \in [Threads -> ConnType] /\ wire' \in [Threads -> WireType]
<1>1. wire[t] \in WireType /\ wire \in [Threads -> WireType] /\ conn \in [Threads -> ConnType]
  BY DEF Typed
<1>2. PICK l, b : l = wire[t].left /\ b = c.buf
  OBVIOUS
<1>3. l \in Seq(Symbols) /\ b \in Seq(Symbols) /\ Len(l) \in Nat
  BY <1>1, <1>2 DEF WireType, ConnType
<1>4. ASSUME NEW n \in 1..Len(l),
             conn' = [conn EXCEPT ![t] = [c EXCEPT !.buf = @ \o SubSeq(wire[t].left, 1, n)]],
             wire' = [wire EXCEPT ![t].left = SubSeq(@, n + 1, Len(@))]
      PROVE  conn' \in [Threads -> ConnType] /\ wire' \in [Threads -> WireType]
  <2>1. PICK x, y : x = SubSeq(l, 1, n) /\ y = SubSeq(l, n + 1, Len(l))
    OBVIOUS
  <2>2. x \in Seq(Symbols) /\ y \in Seq(Symbols)
    <3>1. n \in Nat /\ n + 1 \in Nat /\ 1 \in Nat /\ 1 >= 1 /\ n + 1 >= 1 /\ n <= Len(l) /\ Len(l) <= Len(l)
      BY <1>3
    <3> QED
      BY <1>3, <2>1, <3>1, PieceTyped
  <2>3. PICK z : z = b \o x
    OBVIOUS
  <2>4. z \in Seq(Symbols)
    BY <1>3, <2>2, <2>3
  <2>5. [c EXCEPT !.buf = z] \in ConnType
    BY Zenon, <2>4, ConnChanged
  <2>6. [wire[t] EXCEPT !.left = y] \in WireType
    BY <1>1, <2>2 DEF WireType
  <2>7. conn' = [conn EXCEPT ![t] = [c EXCEPT !.buf = z]]
    BY Zenon, <1>2, <1>4, <2>1, <2>3
  <2>8. wire' = [wire EXCEPT ![t] = [wire[t] EXCEPT !.left = y]]
    BY <1>1, <1>2, <1>4, <2>1
  <2> QED
    BY <1>1, <2>5, <2>6, <2>7, <2>8
<1>5. ASSUME conn' = [conn EXCEPT ![t] = [c EXCEPT !.eof = TRUE]], wire' = wire
      PROVE  conn' \in [Threads -> ConnType] /\ wire' \in [Threads -> WireType]
  <2>1. [c EXCEPT !.eof = TRUE] \in ConnType
    BY Zenon, ConnChanged
  <2> QED
    BY <1>1, <1>5, <2>1
<1> QED
  BY <1>2, <1>4, <1>5 DEF Read

------------------------------------------------------------------------------
(* The steps.                                                               *)

(* What is left when the program ends: nothing else changes. *)
LEMMA ExitKeeps ==
    ASSUME IInv, ExitOne
    PROVE  IInv'
<1>1. PICK m \in 0..MaxMoves : Stage(m) /\ Path(m)
  BY DEF IInv
<1>2. Typed'
  BY DEF IInv, Typed, ExitOne
<1>3. Stage(m)' /\ Path(m)'
  BY <1>1 DEF ExitOne, Stage, Path
<1> QED
  BY Zenon, <1>2, <1>3 DEF IInv

(* A thread that is running is the last one that was started. *)
LEMMA OnlyLast ==
    ASSUME NEW m \in 0..MaxMoves, Stage(m), Typed, NEW t \in Threads,
           thread[t] \notin {"none", "ended"}
    PROVE  /\ t # 0 => t = m
           /\ Running => IF t = 0 THEN main = "reset" ELSE main = "poll" /\ ~move_done
<1>1. m \in Nat /\ t \in Nat /\ MaxMoves \in Nat
  BY ClientAssumption DEF Threads
<1>2. ASSUME t # 0 PROVE t = m
  <2>1. t \in 1..MaxMoves
    BY <1>1, <1>2 DEF Threads
  <2>2. ~(t < m) /\ ~(t > m)
    BY <2>1 DEF Stage
  <2> QED
    BY <1>1, <2>2
<1> QED
  BY <1>1, <1>2 DEF Stage, Typed, Running

(* A step inside a connection. *)
LEMMA Stays ==
    ASSUME NEW m \in 0..MaxMoves, Typed, Stage(m), Path(m),
           UNCHANGED <<main, thread, board, ball, move_done, asked>>,
           conn' \in [Threads -> ConnType], wire' \in [Threads -> WireType]
    PROVE  IInv'
<1>1. Stage(m)' /\ Path(m)'
  BY DEF Stage, Path, Along
<1>2. Typed'
  BY DEF Typed
<1> QED
  BY Zenon, <1>1, <1>2 DEF IInv

(* A thread goes on to another place of its own. *)
LEMMA Advances ==
    ASSUME NEW m \in 0..MaxMoves, Typed, Stage(m), Path(m), NEW t \in Threads,
           thread[t] \in {"connect", "headers", "body", "judge"},
           NEW l \in {"send", "headers", "body", "judge", "signal"},
           l = "send" <=> thread[t] = "connect", t = 0 => l # "signal",
           thread' = [thread EXCEPT ![t] = l], main' \in {main, "exited"},
           UNCHANGED <<board, ball, move_done, asked>>
    PROVE  Stage(m)' /\ Path(m)'
<1>1. t # 0 => t = m
  BY OnlyLast
<1>2. Threads = 0..MaxMoves /\ m \in Nat /\ t \in Nat /\ thread \in [Threads -> Locs]
  BY DEF Threads, Typed
<1>3. \A u \in Threads : thread'[u] = IF u = t THEN l ELSE thread[u]
  BY <1>2
<1>4. main' # "exited" => main' = main
  OBVIOUS
<1>5. Path(m)'
  BY <1>4 DEF Path, Along
<1>6. \A u \in 1..MaxMoves : /\ u < m => thread'[u] = "ended"
                             /\ u = m => thread'[u] # "none"
                             /\ u > m => thread'[u] = "none"
  BY <1>1, <1>2, <1>3 DEF Stage
<1>7. thread'[0] \notin {"none", "signal"}
  BY <1>2, <1>3 DEF Stage
<1>8. m > 0 => (thread'[m] = "ended" <=> thread[m] = "ended")
               /\ (thread'[m] \in {"connect", "send"} <=> thread[m] \in {"connect", "send"})
  BY <1>1, <1>2, <1>3
<1>9. thread[0] = "ended" => thread'[0] = "ended"
  BY <1>2, <1>3
<1>10. Stage(m)'
  BY <1>4, <1>6, <1>7, <1>8, <1>9 DEF Stage
<1> QED
  BY <1>5, <1>10

LEMMA ConnectKeeps ==
    ASSUME IInv, Running, NEW t \in Threads, Connect(t)
    PROVE  IInv'
<1>1. CASE ExitOne
  BY <1>1, ExitKeeps
<1>2. CASE Goto(t, "send") /\ UNCHANGED <<main, board, ball, move_done, conn, wire, asked>>
  <2>1. PICK m \in 0..MaxMoves : Stage(m) /\ Path(m)
    BY DEF IInv
  <2>2. Typed /\ thread \in [Threads -> Locs]
    BY DEF IInv, Typed
  <2>3. thread' = [thread EXCEPT ![t] = "send"] /\ thread[t] = "connect"
    BY <1>2 DEF Goto, Connect
  <2>4. Typed'
    BY <1>2, <2>2, <2>3 DEF Typed, Locs
  <2>5. Stage(m)' /\ Path(m)'
    BY <1>2, <2>1, <2>2, <2>3, Advances
  <2> QED
    BY Zenon, <2>4, <2>5 DEF IInv
<1> QED
  BY Zenon, <1>1, <1>2 DEF Connect

LEMMA UnusedTyped == Unused \in ConnType
<1>1. <<>> \in Seq(Symbols) /\ -1 \in Int /\ 0 \in Int /\ FALSE \in BOOLEAN /\ "none" \in States
  BY DEF States
<1> QED
  BY <1>1 DEF Unused, ConnType

(* What the server sends. *)
LEMMA SendTyped ==
    ASSUME Typed, NEW t \in Threads, NEW r \in Resets \cup Moves,
           wire' = [wire EXCEPT ![t] = [left |-> r.sent, sent |-> r.sent,
                                        closes |-> r.closes, response |-> r]],
           conn' = [conn EXCEPT ![t] = [Unused EXCEPT !.state = "waiting"]]
    PROVE  conn' \in [Threads -> ConnType] /\ wire' \in [Threads -> WireType]
<1>1. conn \in [Threads -> ConnType] /\ wire \in [Threads -> WireType]
  BY DEF Typed
<1>2. PICK s, c : s = r.sent /\ c = r.closes
  OBVIOUS
<1>3. s \in Seq(Symbols) /\ c \in BOOLEAN
  BY <1>2, ClientAssumption
<1>4. [left |-> s, sent |-> s, closes |-> c, response |-> r] \in WireType
  BY <1>3 DEF WireType
<1>5. [Unused EXCEPT !.state = "waiting"] \in ConnType
  <2>1. Unused \in ConnType
    BY UnusedTyped
  <2>2. "waiting" \in States
    BY DEF States
  <2> QED
    BY Zenon, <2>1, <2>2, ConnChanged
<1>6. PICK w : w = [left |-> s, sent |-> s, closes |-> c, response |-> r]
  OBVIOUS
<1>7. PICK d : d = [Unused EXCEPT !.state = "waiting"]
  OBVIOUS
<1>8. /\ wire' = [wire EXCEPT ![t] = w] /\ w \in WireType
      /\ conn' = [conn EXCEPT ![t] = d] /\ d \in ConnType
  BY Zenon, <1>2, <1>4, <1>5, <1>6, <1>7
<1> QED
  BY <1>1, <1>8

LEMMA SendKeeps ==
    ASSUME IInv, Running, NEW t \in Threads, Send(t)
    PROVE  IInv'
<1>1. CASE ExitOne
  BY <1>1, ExitKeeps
<1>2. ASSUME NEW r \in IF t = 0 THEN Resets ELSE Moves,
             wire' = [wire EXCEPT ![t] = [left |-> r.sent, sent |-> r.sent,
                                          closes |-> r.closes, response |-> r]],
             conn' = [conn EXCEPT ![t] = [Unused EXCEPT !.state = "waiting"]],
             asked' = IF t = 0 THEN asked ELSE Append(asked, <<ball.x, ball.y>>),
             Goto(t, "headers"), UNCHANGED <<main, board, ball, move_done>>
      PROVE  IInv'
  <2>1. PICK m \in 0..MaxMoves : Stage(m) /\ Path(m)
    BY DEF IInv
  <2>2. /\ Typed /\ thread \in [Threads -> Locs] /\ asked \in Seq(Int \X Int)
        /\ ball.x \in Int /\ ball.y \in Int
    BY DEF IInv, Typed
  <2>3. thread' = [thread EXCEPT ![t] = "headers"] /\ thread[t] = "send"
    BY <1>2 DEF Goto, Send
  <2>4. conn' \in [Threads -> ConnType] /\ wire' \in [Threads -> WireType]
    BY <1>2, <2>2, SendTyped
  <2>5. thread' \in [Threads -> Locs]
    BY <2>2, <2>3 DEF Locs
  <2>6. PICK b : b = <<ball.x, ball.y>>
    OBVIOUS
  <2>7. b \in Int \X Int /\ asked' = IF t = 0 THEN asked ELSE Append(asked, b)
    BY <1>2, <2>2, <2>6
  <2>8. asked' \in Seq(Int \X Int)
    BY <2>2, <2>7
  <2>9. Typed'
    BY <1>2, <2>2, <2>4, <2>5, <2>8 DEF Typed
  <2>10. /\ t # 0 => t = m
         /\ IF t = 0 THEN main = "reset" ELSE main = "poll" /\ ~move_done
    BY <2>1, <2>2, <2>3, OnlyLast
  <2>11. Threads = 0..MaxMoves /\ m \in Nat /\ t \in Nat /\ Len(asked) \in Nat
    BY <2>2 DEF Threads
  <2>12. \A u \in Threads : thread'[u] = IF u = t THEN "headers" ELSE thread[u]
    BY <2>2, <2>3
  <2>13. Len(asked) = IF m > 0 /\ thread[m] \in {"connect", "send"} THEN m - 1 ELSE m
    BY <2>1 DEF Stage
  <2>14. CASE t = 0
    <3>1. m = 0 /\ asked' = asked
      BY <2>1, <2>7, <2>10, <2>14 DEF Stage
    <3>2. Stage(m)'
      BY <1>2, <2>1, <2>10, <2>11, <2>12, <2>13, <2>14, <3>1 DEF Stage
    <3>3. Path(m)'
      BY <1>2, <2>1, <3>1 DEF Path, Along
    <3> QED
      BY Zenon, <2>9, <3>2, <3>3 DEF IInv
  <2>15. CASE t # 0
    <3>1. t = m /\ m > 0 /\ Len(asked) = m - 1 /\ asked' = Append(asked, b)
      BY <2>3, <2>7, <2>10, <2>11, <2>13, <2>15
    <3>2. Len(asked') = m /\ \A k \in 1..Len(asked') : asked'[k] = IF k = m THEN b ELSE asked[k]
      BY <2>2, <2>7, <3>1
    <3>3. Stage(m)'
      <4>1. \A u \in 1..MaxMoves : /\ u < m => thread'[u] = "ended"
                                   /\ u = m => thread'[u] # "none"
                                   /\ u > m => thread'[u] = "none"
        BY <2>1, <2>11, <2>12, <3>1 DEF Stage
      <4>2. thread'[0] = thread[0] /\ thread'[m] = "headers"
        <5>1. 0 \in Threads /\ m \in Threads
          BY <2>11, <3>1, ClientAssumption
        <5> QED
          BY Zenon, <2>12, <2>15, <3>1, <5>1
      <4>3. main' = main /\ main = "poll" /\ move_done' = move_done /\ ~move_done
        BY <1>2, <2>10, <2>15
      <4> QED
        BY <2>1, <3>1, <3>2, <4>1, <4>2, <4>3 DEF Stage
    <3>4. b = <<Wave(m - 1, board.width), Wave(m - 1, board.height)>>
      BY <2>1, <2>6, <2>10, <2>15 DEF Path, Along
    <3>5. Path(m)'
      <4>1. \A k \in 1..Len(asked') : asked'[k] = <<Wave(k - 1, board.width), Wave(k - 1, board.height)>>
        BY <2>1, <2>11, <3>1, <3>2, <3>4 DEF Path
      <4> QED
        BY <1>2, <2>1, <2>10, <2>15, <4>1 DEF Path, Along
    <3> QED
      BY Zenon, <2>9, <3>3, <3>5 DEF IInv
  <2> QED
    BY <2>14, <2>15
<1> QED
  BY Zenon, <1>1, <1>2 DEF Send

LEMMA ReceiveHeadersKeeps ==
    ASSUME IInv, Running, NEW t \in Threads, ReceiveHeaders(t)
    PROVE  IInv'
<1>1. PICK m \in 0..MaxMoves : Stage(m) /\ Path(m)
  BY DEF IInv
<1>2. /\ Typed /\ thread \in [Threads -> Locs] /\ conn \in [Threads -> ConnType]
      /\ wire \in [Threads -> WireType] /\ conn[t] \in ConnType
  BY DEF IInv, Typed
<1>3. thread[t] = "headers" /\ UNCHANGED <<board, ball, move_done, asked>>
  BY Zenon DEF ReceiveHeaders
<1>4. ASSUME EndOfLine(conn[t].buf) # {}, conn' = [conn EXCEPT ![t] = Consumed(conn[t])],
             UNCHANGED <<main, thread, wire>>
      PROVE  IInv'
  <2>1. conn' \in [Threads -> ConnType]
    BY <1>2, <1>4, ConsumedTyped
  <2> QED
    BY <1>1, <1>2, <1>3, <1>4, <2>1, Stays
<1>5. ASSUME Read(t, conn[t]), UNCHANGED <<main, thread>>
      PROVE  IInv'
  <2>1. conn' \in [Threads -> ConnType] /\ wire' \in [Threads -> WireType]
    BY <1>2, <1>5, ReadTyped
  <2> QED
    BY <1>1, <1>2, <1>3, <1>5, <2>1, Stays
<1>6. ASSUME conn' = [conn EXCEPT ![t].state = IF conn[t].eof THEN "broken" ELSE @],
             main' = IF conn[t].status >= 500 THEN "exited" ELSE main,
             Goto(t, "body"), UNCHANGED wire
      PROVE  IInv'
  <2>1. PICK s : s = IF conn[t].eof THEN "broken" ELSE conn[t].state
    OBVIOUS
  <2>2. s \in States
    BY <1>2, <2>1 DEF ConnType, States
  <2>3. [conn[t] EXCEPT !.state = s] \in ConnType
    BY Zenon, <1>2, <2>2, ConnChanged
  <2>4. conn' = [conn EXCEPT ![t] = [conn[t] EXCEPT !.state = s]]
    BY <1>2, <1>6, <2>1
  <2>5. conn' \in [Threads -> ConnType]
    BY <1>2, <2>3, <2>4
  <2>6. thread' = [thread EXCEPT ![t] = "body"] /\ main' \in {main, "exited"}
    BY <1>6 DEF Goto
  <2>7. Typed'
    BY <1>2, <1>3, <1>6, <2>5, <2>6 DEF Typed, Locs
  <2>8. Stage(m)' /\ Path(m)'
    BY <1>1, <1>2, <1>3, <2>6, Advances
  <2> QED
    BY Zenon, <2>7, <2>8 DEF IInv
<1> QED
  BY Zenon, <1>4, <1>5, <1>6 DEF ReceiveHeaders

LEMMA ReceiveBodyKeeps ==
    ASSUME IInv, Running, NEW t \in Threads, ReceiveBody(t)
    PROVE  IInv'
<1>1. PICK m \in 0..MaxMoves : Stage(m) /\ Path(m)
  BY DEF IInv
<1>2. /\ Typed /\ thread \in [Threads -> Locs] /\ conn \in [Threads -> ConnType]
      /\ wire \in [Threads -> WireType] /\ conn[t] \in ConnType
  BY DEF IInv, Typed
<1>3. PICK c : c = IF conn[t].state = "broken" THEN conn[t] ELSE CheckBody(conn[t])
  OBVIOUS
<1>4. c \in ConnType
  BY Zenon, <1>2, <1>3, CheckBodyTyped
<1>5. /\ thread[t] = "body" /\ UNCHANGED <<main, board, ball, move_done, asked>>
      /\ \/ Read(t, c) /\ UNCHANGED thread
         \/ conn' = [conn EXCEPT ![t] = c] /\ wire' = wire /\ Goto(t, "judge")
  BY Zenon, <1>3 DEF ReceiveBody
<1>6. CASE Read(t, c) /\ UNCHANGED thread
  <2>1. conn' \in [Threads -> ConnType] /\ wire' \in [Threads -> WireType]
    BY <1>2, <1>4, <1>6, ReadTyped
  <2> QED
    BY <1>1, <1>2, <1>5, <1>6, <2>1, Stays
<1>7. CASE conn' = [conn EXCEPT ![t] = c] /\ wire' = wire /\ Goto(t, "judge")
  <2>1. thread' = [thread EXCEPT ![t] = "judge"] /\ main' \in {main, "exited"}
    BY <1>5, <1>7 DEF Goto
  <2>2. Typed'
    BY <1>2, <1>4, <1>5, <1>7, <2>1 DEF Typed, Locs
  <2>3. Stage(m)' /\ Path(m)'
    BY <1>1, <1>2, <1>5, <2>1, Advances
  <2> QED
    BY Zenon, <2>2, <2>3 DEF IInv
<1> QED
  BY <1>5, <1>6, <1>7

LEMMA SilentTyped == Silent \in WireType
<1>1. <<>> \in Seq(Symbols) /\ FALSE \in BOOLEAN
  OBVIOUS
<1> QED
  BY <1>1 DEF Silent, WireType

LEMMA JudgeMoveKeeps ==
    ASSUME IInv, Running, NEW t \in Threads, JudgeMove(t)
    PROVE  IInv'
<1>1. CASE ExitOne
  BY <1>1, ExitKeeps
<1>2. CASE /\ conn' = [conn EXCEPT ![t] = Unused] /\ wire' = [wire EXCEPT ![t] = Silent]
           /\ Goto(t, "signal") /\ UNCHANGED <<main, board, ball, move_done, asked>>
  <2>1. PICK m \in 0..MaxMoves : Stage(m) /\ Path(m)
    BY DEF IInv
  <2>2. /\ Typed /\ thread \in [Threads -> Locs] /\ conn \in [Threads -> ConnType]
        /\ wire \in [Threads -> WireType]
    BY DEF IInv, Typed
  <2>3. thread' = [thread EXCEPT ![t] = "signal"] /\ thread[t] = "judge" /\ t # 0
    BY <1>2 DEF Goto, JudgeMove
  <2>4. conn' \in [Threads -> ConnType] /\ wire' \in [Threads -> WireType]
    BY <1>2, <2>2, UnusedTyped, SilentTyped
  <2>5. Typed'
    BY <1>2, <2>2, <2>3, <2>4 DEF Typed, Locs
  <2>6. Stage(m)' /\ Path(m)'
    BY <1>2, <2>1, <2>2, <2>3, Advances
  <2> QED
    BY Zenon, <2>5, <2>6 DEF IInv
<1> QED
  BY Zenon, <1>1, <1>2 DEF JudgeMove

LEMMA SignalKeeps ==
    ASSUME IInv, Running, NEW t \in Threads, Signal(t)
    PROVE  IInv'
<1>1. PICK m \in 0..MaxMoves : Stage(m) /\ Path(m)
  BY DEF IInv
<1>2. Typed /\ thread \in [Threads -> Locs]
  BY DEF IInv, Typed
<1>3. /\ thread' = [thread EXCEPT ![t] = "ended"] /\ thread[t] = "signal"
      /\ move_done' = TRUE /\ UNCHANGED <<main, board, ball, conn, wire, asked>>
  BY DEF Signal, Goto
<1>4. t # 0
  BY <1>1, <1>3 DEF Stage
<1>5. t = m /\ main = "poll" /\ m \in Nat /\ m > 0 /\ Threads = 0..MaxMoves /\ 0 \in Threads
  <2>1. t = m /\ main = "poll"
    BY <1>1, <1>2, <1>3, <1>4, OnlyLast
  <2> QED
    BY <1>4, <2>1, ClientAssumption DEF Threads
<1>6. \A u \in Threads : thread'[u] = IF u = m THEN "ended" ELSE thread[u]
  BY <1>2, <1>3, <1>5
<1>7. thread'[0] = thread[0] /\ thread'[m] = "ended"
  BY <1>5, <1>6
<1>8. \A u \in 1..MaxMoves : /\ u < m => thread'[u] = "ended"
                             /\ u = m => thread'[u] # "none"
                             /\ u > m => thread'[u] = "none"
  BY <1>1, <1>5, <1>6 DEF Stage
<1>9. Len(asked') = m
  BY <1>1, <1>3, <1>5 DEF Stage
<1>10. Stage(m)'
  BY <1>1, <1>3, <1>5, <1>7, <1>8, <1>9 DEF Stage
<1>11. Path(m)'
  BY <1>1, <1>3 DEF Path, Along
<1>12. Typed'
  BY <1>2, <1>3 DEF Typed, Locs
<1> QED
  BY Zenon, <1>10, <1>11, <1>12 DEF IInv

(* main(): the answer to reset. *)
LEMMA JudgeResetKeeps ==
    ASSUME IInv, Running, JudgeReset
    PROVE  IInv'
<1>1. CASE ExitOne
  BY <1>1, ExitKeeps
<1>2. ASSUME NEW b, b = conn[0].buf, 2 \in Numbers(b), ~(b[1].n <= 0), ~(b[2].n <= 0),
             board' = [width |-> b[1].n, height |-> b[2].n, at |-> NoPos],
             ball' = [x |-> 0, y |-> 0, dx |-> 1, dy |-> 1],
             conn' = [conn EXCEPT ![0] = Unused], wire' = [wire EXCEPT ![0] = Silent],
             Goto(0, "ended"), main' = "spawn", UNCHANGED <<move_done, asked>>
      PROVE  IInv'
  <2>1. PICK m \in 0..MaxMoves : Stage(m) /\ Path(m)
    BY DEF IInv
  <2>2. /\ Typed /\ thread \in [Threads -> Locs] /\ conn \in [Threads -> ConnType]
        /\ wire \in [Threads -> WireType]
    BY DEF IInv, Typed
  <2>3. thread' = [thread EXCEPT ![0] = "ended"] /\ thread[0] = "judge"
    BY <1>2 DEF Goto, JudgeReset
  <2>4. 0 \in Threads /\ Threads = 0..MaxMoves /\ m \in Nat /\ MaxMoves \in Nat
    BY ClientAssumption DEF Threads
  <2>5. main = "reset" /\ m = 0 /\ ~move_done /\ asked = <<>>
    <3>1. main = "reset"
      BY <2>1, <2>2, <2>3, <2>4, OnlyLast
    <3> QED
      BY <2>1, <3>1 DEF Stage, Path
  <2>6. PICK w, h : w = b[1].n /\ h = b[2].n
    OBVIOUS
  <2>7. w \in Nat /\ h \in Nat /\ w >= 1 /\ h >= 1
    <3>1. b \in Seq(Symbols)
      BY <1>2, <2>2, <2>4 DEF ConnType
    <3>2. Len(b) >= 2
      BY <1>2, <3>1 DEF Numbers
    <3>3. b[1] \in Symbols /\ b[2] \in Symbols
      BY <3>1, <3>2
    <3>4. w \in Int /\ h \in Int
      BY <2>6, <3>3 DEF Symbols
    <3> QED
      BY <1>2, <2>6, <3>4
  <2>8. board' = [width |-> w, height |-> h, at |-> NoPos]
    BY <1>2, <2>6
  <2>9. conn' \in [Threads -> ConnType] /\ wire' \in [Threads -> WireType]
    BY <1>2, <2>2, UnusedTyped, SilentTyped
  <2>10. board' \in [width : Int, height : Int, at : Int \X Int]
    BY <2>7, <2>8 DEF NoPos
  <2>11. ball' \in [x : Int, y : Int, dx : Int, dy : Int]
    BY <1>2
  <2>12. thread' \in [Threads -> Locs] /\ \A u \in Threads : thread'[u] = IF u = 0 THEN "ended" ELSE thread[u]
    BY <2>2, <2>3 DEF Locs
  <2>13. Typed'
    BY <1>2, <2>2, <2>9, <2>10, <2>11, <2>12 DEF Typed
  <2>14. Stage(0)'
    <3>1. \A t \in 1..MaxMoves : thread'[t] = "none"
      BY <2>1, <2>4, <2>5, <2>12 DEF Stage
    <3>2. thread'[0] = "ended"
      BY <2>4, <2>12
    <3> QED
      BY <1>2, <2>5, <3>1, <3>2 DEF Stage
  <2>15. Along(0)'
    <3>1. /\ Wave(0, w) = 0 /\ Wave(0, h) = 0
          /\ w >= 2 => Wave(1, w) = 0 + Heads(0, 1, w)
          /\ h >= 2 => Wave(1, h) = 0 + Heads(0, 1, h)
      BY <2>7, WaveStart
    <3>2. /\ board'.width = w /\ board'.height = h
          /\ ball'.x = 0 /\ ball'.y = 0 /\ ball'.dx = 1 /\ ball'.dy = 1
      BY <1>2, <2>8
    <3>3. w > 0 /\ h > 0 /\ (w # 1 => w >= 2) /\ (h # 1 => h >= 2) /\ 0 + 1 = 1
      BY <2>7
    <3> QED
      BY <3>1, <3>2, <3>3 DEF Along
  <2>16. Path(0)'
    <3>1. Len(asked') = 0
      BY <1>2, <2>5
    <3> QED
      BY <1>2, <2>15, <3>1 DEF Path
  <2> QED
    BY Zenon, <2>4, <2>5, <2>13, <2>14, <2>16 DEF IInv
<1>3. PICK b : b = conn[0].buf
  OBVIOUS
<1> QED
  BY Zenon, <1>1, <1>2, <1>3 DEF JudgeReset

(* main() starts the next thread. *)
LEMMA SpawnKeeps ==
    ASSUME IInv, Running, Spawn
    PROVE  IInv'
<1>1. CASE ExitOne
  BY <1>1, ExitKeeps
<1>2. ASSUME NEW t \in Threads \ {0}, thread[t] = "none", \A u \in 1..t - 1 : u \in Spawned,
             Goto(t, "connect"), main' = "poll",
             UNCHANGED <<board, ball, move_done, conn, wire, asked>>
      PROVE  IInv'
  <2>1. PICK m \in 0..MaxMoves : Stage(m) /\ Path(m)
    BY DEF IInv
  <2>2. Typed /\ thread \in [Threads -> Locs] /\ main = "spawn"
    BY DEF IInv, Typed, Spawn
  <2>3. Threads = 0..MaxMoves /\ m \in Nat /\ MaxMoves \in Nat /\ t \in 1..MaxMoves
    BY ClientAssumption DEF Threads
  <2>4. ~(t < m) /\ t # m
    BY <1>2, <2>1, <2>3 DEF Stage
  <2>5. ~(t > m + 1)
    <3>1. ASSUME t > m + 1 PROVE FALSE
      <4>1. m + 1 \in 1..t - 1 /\ m + 1 \in 1..MaxMoves /\ m + 1 > m
        BY <2>3, <3>1
      <4>2. thread[m + 1] = "none" /\ m + 1 \in Spawned
        BY <1>2, <2>1, <4>1 DEF Stage
      <4> QED
        BY <4>2 DEF Spawned
    <3> QED
      BY <3>1
  <2>6. t = m + 1 /\ t \in 0..MaxMoves /\ t > 0 /\ t - 1 = m
    BY <2>3, <2>4, <2>5
  <2>7. thread' = [thread EXCEPT ![t] = "connect"]
    BY <1>2 DEF Goto
  <2>8. thread' \in [Threads -> Locs] /\ \A u \in Threads : thread'[u] = IF u = t THEN "connect" ELSE thread[u]
    BY <1>2, <2>2, <2>7 DEF Locs
  <2>9. Typed'
    BY <1>2, <2>2, <2>8 DEF Typed
  <2>10. Len(asked) = m /\ ~move_done
    BY <2>1, <2>2 DEF Stage
  <2>11. \A u \in 1..MaxMoves : /\ u < t => thread'[u] = "ended"
                                /\ u = t => thread'[u] # "none"
                                /\ u > t => thread'[u] = "none"
    BY <2>1, <2>2, <2>3, <2>6, <2>8 DEF Stage
  <2>12. thread'[0] = thread[0] /\ thread[0] = "ended" /\ thread'[t] = "connect"
    <3>1. 0 \in Threads /\ t \in Threads /\ 0 # t
      BY <2>3
    <3>2. thread'[0] = thread[0] /\ thread'[t] = "connect"
      BY Zenon, <2>8, <3>1
    <3> QED
      BY <2>1, <2>2, <3>2 DEF Stage
  <2>13. Stage(t)'
    BY <1>2, <2>6, <2>10, <2>11, <2>12 DEF Stage
  <2>14. Path(t)'
    BY <1>2, <2>1, <2>2, <2>6 DEF Path, Along
  <2> QED
    BY Zenon, <2>6, <2>9, <2>13, <2>14 DEF IInv
<1> QED
  BY Zenon, <1>1, <1>2 DEF Spawn

LEMMA PollKeeps ==
    ASSUME IInv, Running, Poll
    PROVE  IInv'
<1>1. PICK m \in 0..MaxMoves : Stage(m) /\ Path(m)
  BY DEF IInv
<1>2. /\ main = "poll" /\ move_done /\ main' = "move" /\ move_done' = FALSE
      /\ UNCHANGED <<board, ball, thread, conn, wire, asked>>
  BY DEF Poll
<1>3. Typed'
  BY <1>2 DEF IInv, Typed
<1>4. Stage(m)'
  BY <1>1, <1>2 DEF Stage
<1>5. Path(m)'
  BY <1>1, <1>2 DEF Path, Along
<1> QED
  BY Zenon, <1>3, <1>4, <1>5 DEF IInv

(* One axis of a move: the ball turns when it must, and moves on. *)
LEMMA AxisMoves ==
    ASSUME NEW n \in Nat, n >= 2, NEW j \in Nat, NEW p, NEW d \in {-1, 1},
           p = Wave(j, n), Wave(j + 1, n) = p + Heads(p, d, n)
    PROVE  /\ p \in 0..n - 1 /\ Heads(p, d, n) \in {-1, 1}
           /\ p + Heads(p, d, n) \in 0..n - 1
           /\ Wave((j + 1) + 1, n) = (p + Heads(p, d, n))
                 + Heads(p + Heads(p, d, n), Heads(p, d, n), n)
<1>1. Wave(j + 1, n) = Wave(j, n) + Heads(Wave(j, n), d, n)
  BY Zenon
<1>2. /\ Wave(j, n) \in 0..n - 1 /\ Wave(j + 1, n) \in 0..n - 1
      /\ Wave(j + 2, n) = Wave(j + 1, n) + Heads(Wave(j + 1, n), Heads(Wave(j, n), d, n), n)
  BY <1>1, WaveStep
<1>3. (j + 1) + 1 = j + 2
  OBVIOUS
<1>4. d \in {-1, 1} => Heads(p, d, n) \in {-1, 1}
  BY DEF Heads
<1> QED
  BY Zenon, <1>2, <1>3, <1>4

(* pong_ball::move(): the ball's next position is the next of the path.  On *)
(* a board one cell wide the ball has nowhere to go, and main() tries on.   *)
LEMMA MoveKeeps ==
    ASSUME IInv, Running, Move
    PROVE  IInv'
<1> DEFINE b == Bounced(ball)
<1>1. PICK m \in 0..MaxMoves : Stage(m) /\ Path(m)
  BY DEF IInv
<1>2. /\ Typed /\ main = "move" /\ UNCHANGED <<move_done, thread, conn, wire, asked>>
      /\ ball \in [x : Int, y : Int, dx : Int, dy : Int]
      /\ board \in [width : Int, height : Int, at : Int \X Int]
  BY DEF IInv, Typed, Move
<1>3. Along(m - 1) /\ m \in Nat /\ m > 0
  BY <1>1, <1>2, ClientAssumption DEF Path, Stage
<1>4. PICK p, q, d, e, w, h : /\ p = ball.x /\ q = ball.y /\ d = ball.dx /\ e = ball.dy
                              /\ w = board.width /\ h = board.height
  OBVIOUS
<1>5. /\ p \in Int /\ q \in Int /\ d \in {-1, 1} /\ e \in {-1, 1} /\ w \in Nat /\ h \in Nat
      /\ w > 0 /\ h > 0
  BY <1>2, <1>3, <1>4 DEF Along
<1>6. ball = [x |-> p, y |-> q, dx |-> d, dy |-> e]
  BY <1>2, <1>4
<1>7. \A x, y : Obstacle(x, y) <=> x \notin 0..w - 1 \/ y \notin 0..h - 1
  BY Zenon, <1>4 DEF Obstacle
<1>8. PICK f, g : /\ f = (IF Obstacle(p + d, q) THEN -d ELSE d)
                  /\ g = (IF Obstacle(p, q + e) THEN -e ELSE e)
  OBVIOUS
<1>9. f \in {-1, 1} /\ g \in {-1, 1}
  BY <1>5, <1>8
<1>10. b = [x |-> p, y |-> q, dx |-> f, dy |-> g]
  <2>1. [ball EXCEPT !.dx = IF Obstacle(ball.x + @, ball.y) THEN -@ ELSE @]
          = [x |-> p, y |-> q, dx |-> f, dy |-> e]
    <3>1. (IF Obstacle(ball.x + ball.dx, ball.y) THEN -ball.dx ELSE ball.dx) = f
      BY Zenon, <1>4, <1>8
    <3> QED
      BY <1>6, <3>1
  <2>2. PICK c : c = [x |-> p, y |-> q, dx |-> f, dy |-> e]
    OBVIOUS
  <2>3. b = [c EXCEPT !.dy = IF Obstacle(ball.x, ball.y + c.dy) THEN -c.dy ELSE c.dy]
    BY Zenon, <2>1, <2>2 DEF Bounced
  <2>4. c.dy = e
    BY <2>2
  <2>5. (IF Obstacle(ball.x, ball.y + c.dy) THEN -c.dy ELSE c.dy) = g
    BY Zenon, <1>4, <1>8, <2>4
  <2>6. b = [c EXCEPT !.dy = g]
    BY Zenon, <2>3, <2>5
  <2> HIDE DEF b
  <2> QED
    BY <2>2, <2>6
<1>11. b.x = p /\ b.y = q /\ b.dx = f /\ b.dy = g
  BY <1>10
<1> HIDE DEF b
<1>12. ASSUME main' \in {main, "aborted"}, board' = board,
              ball' \in [x : Int, y : Int, dx : {-1, 1}, dy : {-1, 1}],
              ball'.x = p, ball'.y = q, main' = "aborted" \/ w = 1 \/ h = 1
       PROVE  IInv'
  <2>1. Typed'
    <3>1. ball' \in [x : Int, y : Int, dx : Int, dy : Int] /\ main' \in {"move", "aborted"}
      BY <1>2, <1>12
    <3> QED
      BY <1>2, <1>12, <3>1 DEF Typed
  <2>2. Stage(m)'
    BY <1>1, <1>2, <1>12 DEF Stage
  <2>3. main' # "aborted" => Along(m - 1)'
    BY <1>3, <1>4, <1>12 DEF Along
  <2>4. Path(m)'
    BY <1>1, <1>2, <1>12, <2>3 DEF Path
  <2> QED
    BY Zenon, <2>1, <2>2, <2>4 DEF IInv
<1>13. CASE Asserts /\ board.at # <<ball.x, ball.y>>
  <2>1. main' = "aborted" /\ UNCHANGED <<board, ball>>
    BY Zenon, <1>13 DEF Move
  <2>2. ball \in [x : Int, y : Int, dx : {-1, 1}, dy : {-1, 1}]
    BY <1>5, <1>6
  <2> QED
    BY <1>4, <1>12, <2>1, <2>2
<1>14. CASE ~(Asserts /\ board.at # <<ball.x, ball.y>>)
  <2>1. IF Obstacle(p + f, q + g)
        THEN ball' = [b EXCEPT !.dx = -@, !.dy = -@] /\ UNCHANGED <<main, board>>
        ELSE /\ ball' = [b EXCEPT !.x = p + f, !.y = q + g]
             /\ board' = [board EXCEPT !.at = <<p + f, q + g>>]
             /\ main' = "spawn"
    <3>1. IF Obstacle(b.x + b.dx, b.y + b.dy)
          THEN ball' = [b EXCEPT !.dx = -@, !.dy = -@] /\ UNCHANGED <<main, board>>
          ELSE /\ ball' = [b EXCEPT !.x = b.x + b.dx, !.y = b.y + b.dy]
               /\ board' = [board EXCEPT !.at = <<b.x + b.dx, b.y + b.dy>>]
               /\ main' = "spawn"
      BY Zenon, <1>14 DEF Move, b
    <3> QED
      BY Zenon, <1>11, <3>1
  <2>2. CASE w = 1 \/ h = 1
    <3>1. p = 0 \/ w # 1
      BY <1>3, <1>4 DEF Along, Wave
    <3>2. q = 0 \/ h # 1
      BY <1>3, <1>4 DEF Along, Wave
    <3>3. Obstacle(p + f, q + g)
      BY <1>5, <1>7, <1>9, <2>2, <3>1, <3>2
    <3>4. ball' = [b EXCEPT !.dx = -@, !.dy = -@] /\ UNCHANGED <<main, board>>
      BY Zenon, <2>1, <3>3
    <3>5. ball' = [x |-> p, y |-> q, dx |-> -f, dy |-> -g]
      BY <1>10, <3>4
    <3>6. ball' \in [x : Int, y : Int, dx : {-1, 1}, dy : {-1, 1}] /\ ball'.x = p /\ ball'.y = q
      BY <1>5, <1>9, <3>5
    <3> QED
      BY <1>12, <2>2, <3>4, <3>6
  <2>3. CASE w >= 2 /\ h >= 2
    <3>1. /\ p = Wave(m - 1, w) /\ Wave((m - 1) + 1, w) = p + Heads(p, d, w)
          /\ q = Wave(m - 1, h) /\ Wave((m - 1) + 1, h) = q + Heads(q, e, h)
      BY <1>3, <1>4, <2>3 DEF Along
    <3>2. PICK x, y : x = p + Heads(p, d, w) /\ y = q + Heads(q, e, h)
      OBVIOUS
    <3>3. PICK r, s : r = Heads(p, d, w) /\ s = Heads(q, e, h)
      OBVIOUS
    <3>4. m - 1 \in Nat /\ (m - 1) + 1 = m
      BY <1>3
    <3>5. /\ p \in 0..w - 1 /\ r \in {-1, 1} /\ x \in 0..w - 1 /\ x = p + r
          /\ Wave(m + 1, w) = x + Heads(x, r, w)
      <4>1. /\ p \in 0..w - 1 /\ Heads(p, d, w) \in {-1, 1} /\ p + Heads(p, d, w) \in 0..w - 1
            /\ Wave(((m - 1) + 1) + 1, w) = (p + Heads(p, d, w))
                  + Heads(p + Heads(p, d, w), Heads(p, d, w), w)
        BY <1>5, <2>3, <3>1, <3>4, AxisMoves
      <4> QED
        BY Zenon, <3>2, <3>3, <3>4, <4>1
    <3>6. /\ q \in 0..h - 1 /\ s \in {-1, 1} /\ y \in 0..h - 1 /\ y = q + s
          /\ Wave(m + 1, h) = y + Heads(y, s, h)
      <4>1. /\ q \in 0..h - 1 /\ Heads(q, e, h) \in {-1, 1} /\ q + Heads(q, e, h) \in 0..h - 1
            /\ Wave(((m - 1) + 1) + 1, h) = (q + Heads(q, e, h))
                  + Heads(q + Heads(q, e, h), Heads(q, e, h), h)
        BY <1>5, <2>3, <3>1, <3>4, AxisMoves
      <4> QED
        BY Zenon, <3>2, <3>3, <3>4, <4>1
    <3>7. f = r /\ g = s
      <4>1. Obstacle(p + d, q) <=> p + d \notin 0..w - 1
        BY <1>7, <3>6
      <4>2. Obstacle(p, q + e) <=> q + e \notin 0..h - 1
        BY <1>7, <3>5
      <4> QED
        BY Zenon, <1>8, <3>3, <4>1, <4>2 DEF Heads
    <3>8. ~Obstacle(p + f, q + g) /\ x = p + f /\ y = q + g
      BY Zenon, <1>7, <3>5, <3>6, <3>7
    <3>9. /\ ball' = [b EXCEPT !.x = x, !.y = y] /\ board' = [board EXCEPT !.at = <<x, y>>]
          /\ main' = "spawn"
      BY Zenon, <2>1, <3>8
    <3>10. ball' = [x |-> x, y |-> y, dx |-> r, dy |-> s]
      BY <1>10, <3>7, <3>9
    <3>11. x \in Int /\ y \in Int /\ r \in Int /\ s \in Int
      BY <1>5, <3>5, <3>6
    <3>12. board' \in [width : Int, height : Int, at : Int \X Int] /\ board'.width = w /\ board'.height = h
      BY <1>2, <1>4, <3>9, <3>11
    <3>13. Typed'
      <4>1. ball' \in [x : Int, y : Int, dx : Int, dy : Int]
        BY <3>10, <3>11
      <4> QED
        BY Zenon, <1>2, <3>9, <3>12, <4>1 DEF Typed
    <3>14. Stage(m)'
      BY <1>1, <1>2, <3>9 DEF Stage
    <3>15. Along(m)'
      <4>1. ball'.x = x /\ ball'.y = y /\ ball'.dx = r /\ ball'.dy = s
        BY <3>10
      <4>2. x = Wave(m, w) /\ y = Wave(m, h) /\ w # 1 /\ h # 1
        BY <2>3, <3>1, <3>2, <3>4
      <4> QED
        BY <1>5, <3>5, <3>6, <3>12, <4>1, <4>2 DEF Along
    <3>16. Path(m)'
      BY <1>1, <1>2, <1>4, <3>9, <3>12, <3>15 DEF Path
    <3> QED
      BY Zenon, <3>13, <3>14, <3>16 DEF IInv
  <2> QED
    BY <1>5, <2>2, <2>3
<1> QED
  BY <1>13, <1>14

LEMMA InitKeeps == Init => IInv
<1> SUFFICES ASSUME Init PROVE IInv
  OBVIOUS
<1>1. Threads = 0..MaxMoves /\ MaxMoves \in Nat /\ 0 \in Threads /\ 0 \in 0..MaxMoves
  BY ClientAssumption DEF Threads
<1>2. \A t \in Threads : thread[t] = IF t = 0 THEN "connect" ELSE "none"
  BY DEF Init
<1>3. thread \in [Threads -> Locs]
  BY DEF Init, Locs
<1>4. conn \in [Threads -> ConnType] /\ wire \in [Threads -> WireType]
  BY UnusedTyped, SilentTyped DEF Init
<1>5. Typed
  <2>1. /\ board \in [width : Int, height : Int, at : Int \X Int]
        /\ ball \in [x : Int, y : Int, dx : Int, dy : Int]
    BY DEF Init, NoPos
  <2>2. asked = <<>> /\ move_done = FALSE /\ main = "reset"
    BY Zenon DEF Init
  <2>3. asked \in Seq(Int \X Int)
    BY <2>2
  <2> QED
    BY <1>3, <1>4, <2>1, <2>2, <2>3 DEF Typed
<1>6. Stage(0)
  <2>1. thread[0] = "connect" /\ \A t \in 1..MaxMoves : thread[t] = "none"
    BY <1>1, <1>2
  <2> QED
    BY <2>1 DEF Init, Stage
<1>7. Path(0)
  BY DEF Init, Path
<1> QED
  BY Zenon, <1>1, <1>5, <1>6, <1>7 DEF IInv

LEMMA StepKeeps == IInv /\ [Next]_clientVars => IInv'
<1> SUFFICES ASSUME IInv, [Next]_clientVars PROVE IInv'
  OBVIOUS
<1>1. CASE UNCHANGED clientVars
  <2>1. PICK m \in 0..MaxMoves : Stage(m) /\ Path(m)
    BY DEF IInv
  <2>2. Typed'
    BY <1>1 DEF IInv, Typed, clientVars
  <2>3. Stage(m)'
    BY <1>1, <2>1 DEF Stage, clientVars
  <2>4. Path(m)'
    BY <1>1, <2>1 DEF Path, Along, clientVars
  <2> QED
    BY Zenon, <2>2, <2>3, <2>4 DEF IInv
<1>2. ASSUME Running, NEW t \in Threads, Client(t) PROVE IInv'
  BY Zenon, <1>2, ConnectKeeps, SendKeeps, ReceiveHeadersKeeps, ReceiveBodyKeeps, JudgeMoveKeeps,
     SignalKeeps, JudgeResetKeeps DEF Client
<1>3. ASSUME Running, Main PROVE IInv'
  BY Zenon, <1>3, SpawnKeeps, PollKeeps, MoveKeeps DEF Main
<1> QED
  BY Zenon, <1>1, <1>2, <1>3 DEF Next

LEMMA IInvIs == Spec => []IInv
<1> QED
  BY InitKeeps, StepKeeps, PTL DEF Spec

LEMMA InOrder == IInv => MovesInOrder
<1> SUFFICES ASSUME IInv PROVE MovesInOrder
  OBVIOUS
<1>1. PICK m \in 0..MaxMoves : Stage(m) /\ Path(m)
  BY DEF IInv
<1>2. m \in Nat /\ MaxMoves \in Nat /\ Threads = 0..MaxMoves
  BY ClientAssumption DEF Threads
<1>3. Spawned = 1..m
  <2>1. ASSUME NEW t \in 1..MaxMoves PROVE thread[t] # "none" <=> t <= m
    BY <1>1, <1>2 DEF Stage
  <2> QED
    BY <1>2, <2>1 DEF Spawned
<1>4. Cardinality(Spawned) = m
  <2>1. Cardinality(1..m) = IF 1 > m THEN 0 ELSE m - 1 + 1
    BY <1>2, FS_Interval
  <2> QED
    BY <1>2, <1>3, <2>1
<1>5. \A t \in Spawned : thread[t] # "ended" => t = m
  BY <1>1, <1>2, <1>3 DEF Stage
<1>6. ASSUME main \in {"spawn", "move"}
      PROVE  ~move_done /\ Len(asked) = m /\ \A t \in Spawned : thread[t] = "ended"
  <2>1. ~move_done /\ (m > 0 => thread[m] = "ended")
    BY <1>1, <1>6 DEF Stage
  <2>2. Len(asked) = m
    BY <1>1, <2>1 DEF Stage
  <2> QED
    BY <1>2, <1>3, <1>5, <2>1, <2>2
<1>7. \A k \in 1..Len(asked) : asked[k] = <<Wave(k - 1, board.width), Wave(k - 1, board.height)>>
  BY <1>1 DEF Path
<1> QED
  BY Zenon, <1>4, <1>5, <1>6, <1>7 DEF MovesInOrder

(* main(), pong_thread() and pong_ball::move(): with any server, however    *)
(* its responses are cut into pieces, the positions asked for are those of  *)
(* the ball's path, one after the other, and never two threads are under    *)
(* way.                                                                     *)
THEOREM MovesInOrderHolds == Spec => []MovesInOrder
<1> QED
  BY IInvIs, InOrder, PTL

------------------------------------------------------------------------------
(* Responses, in whatever pieces they come.                                 *)

(* Sequences, and their pieces. *)
LEMMA SeqSame ==
    ASSUME NEW S, NEW d \in Seq(S), NEW e \in Seq(S), Len(d) = Len(e),
           \A i \in 1..Len(d) : d[i] = e[i]
    PROVE  d = e
BY SMTT(60)

LEMMA PieceOf ==
    ASSUME NEW S, NEW d \in Seq(S), NEW m \in Nat, NEW n \in Nat, m <= n, n <= Len(d)
    PROVE  /\ SubSeq(d, m + 1, n) \in Seq(S) /\ Len(SubSeq(d, m + 1, n)) = n - m
           /\ \A i \in 1..n - m : SubSeq(d, m + 1, n)[i] = d[m + i]
BY SMTT(60)

LEMMA JoinIs ==
    ASSUME NEW S, NEW d \in Seq(S), NEW e \in Seq(S)
    PROVE  /\ d \o e \in Seq(S) /\ Len(d \o e) = Len(d) + Len(e)
           /\ \A i \in 1..Len(d) + Len(e) :
                (d \o e)[i] = IF i <= Len(d) THEN d[i] ELSE e[i - Len(d)]
BY SMTT(60)

PieceIn(d, m, n, i, j) ==
    SubSeq(SubSeq(d, m + 1, n), i + 1, j) = SubSeq(d, m + i + 1, m + j)

LEMMA PieceOfPiece ==
    ASSUME NEW S, NEW d \in Seq(S), NEW m \in Nat, NEW n \in Nat, m <= n, n <= Len(d),
           NEW i \in Nat, NEW j \in Nat, i <= j, j <= n - m
    PROVE  PieceIn(d, m, n, i, j)
<1>1. PICK p : p = SubSeq(d, m + 1, n)
  OBVIOUS
<1>2. p \in Seq(S) /\ Len(p) = n - m /\ \A k \in 1..n - m : p[k] = d[m + k]
  BY <1>1, PieceOf
<1>3. PICK x, y : x = SubSeq(p, i + 1, j) /\ y = SubSeq(d, (m + i) + 1, m + j)
  OBVIOUS
<1>4. x \in Seq(S) /\ Len(x) = j - i /\ \A k \in 1..j - i : x[k] = p[i + k]
  BY <1>2, <1>3, PieceOf
<1>5. y \in Seq(S) /\ Len(y) = j - i /\ \A k \in 1..j - i : y[k] = d[m + i + k]
  <2>1. m + i \in Nat /\ m + j \in Nat /\ m + i <= m + j /\ m + j <= Len(d) /\ (m + j) - (m + i) = j - i
    OBVIOUS
  <2>2. /\ y \in Seq(S) /\ Len(y) = (m + j) - (m + i)
        /\ \A k \in 1..(m + j) - (m + i) : y[k] = d[(m + i) + k]
    BY <1>3, <2>1, PieceOf
  <2> QED
    BY <2>1, <2>2
<1>6. \A k \in 1..j - i : x[k] = y[k]
  <2>1. ASSUME NEW k \in 1..j - i PROVE x[k] = y[k]
    <3>1. i + k \in 1..n - m /\ m + (i + k) = m + i + k
      OBVIOUS
    <3> QED
      BY Zenon, <1>2, <1>4, <1>5, <3>1
  <2> QED
    BY <2>1
<1>7. x = y
  BY <1>4, <1>5, <1>6, SeqSame
<1> QED
  BY Zenon, <1>1, <1>3, <1>7 DEF PieceIn

LEMMA JoinPieces ==
    ASSUME NEW S, NEW d \in Seq(S), NEW m \in Nat, NEW n \in Nat, NEW o \in Nat,
           m <= n, n <= o, o <= Len(d)
    PROVE  SubSeq(d, m + 1, n) \o SubSeq(d, n + 1, o) = SubSeq(d, m + 1, o)
<1>1. PICK x, y, z : /\ x = SubSeq(d, m + 1, n) /\ y = SubSeq(d, n + 1, o)
                     /\ z = SubSeq(d, m + 1, o)
  OBVIOUS
<1>2. n <= Len(d) /\ m <= o
  OBVIOUS
<1>3. x \in Seq(S) /\ Len(x) = n - m /\ \A k \in 1..n - m : x[k] = d[m + k]
  BY <1>1, <1>2, PieceOf
<1>4. y \in Seq(S) /\ Len(y) = o - n /\ \A k \in 1..o - n : y[k] = d[n + k]
  BY <1>1, PieceOf
<1>5. z \in Seq(S) /\ Len(z) = o - m /\ \A k \in 1..o - m : z[k] = d[m + k]
  BY ZenonT(60), <1>1, <1>2, PieceOf
<1>6. PICK j : j = x \o y
  OBVIOUS
<1>7. /\ j \in Seq(S) /\ Len(j) = o - m
      /\ \A k \in 1..o - m : j[k] = IF k <= n - m THEN x[k] ELSE y[k - (n - m)]
  <2>1. /\ j \in Seq(S) /\ Len(j) = Len(x) + Len(y)
        /\ \A k \in 1..Len(x) + Len(y) : j[k] = IF k <= Len(x) THEN x[k] ELSE y[k - Len(x)]
    BY ZenonT(60), <1>3, <1>4, <1>6, JoinIs
  <2> QED
    BY <1>3, <1>4, <2>1
<1>8. \A k \in 1..o - m : j[k] = z[k]
  BY <1>3, <1>4, <1>5, <1>7
<1>9. j = z
  BY <1>5, <1>7, <1>8, SeqSame
<1> QED
  BY Zenon, <1>1, <1>6, <1>9

(* A line of one symbol: it ends where its third symbol is there. *)
IsText(s, q) ==
    /\ q + 1 <= Len(s) => s[q + 1] # CR
    /\ q + 2 <= Len(s) => s[q + 2] = CR
    /\ q + 3 <= Len(s) => s[q + 3] = LF
TextEnds(s, q, a, b) ==
    /\ EndOfLine(b) # {} <=> a >= q + 3
    /\ a >= q + 3 => /\ Min(EndOfLine(b)) = 2
                     /\ SubSeq(b, 1, 1) = <<s[q + 1]>>
                     /\ SubSeq(b, 4, Len(b)) = SubSeq(s, q + 4, a)

LEMMA TextLine ==
    ASSUME NEW s \in Seq(Symbols), NEW q \in Nat, NEW a \in Nat, q <= a, a <= Len(s),
           NEW b, b = SubSeq(s, q + 1, a), IsText(s, q)
    PROVE  TextEnds(s, q, a, b)
<1>0. /\ q + 1 <= Len(s) => s[q + 1] # CR
      /\ q + 2 <= Len(s) => s[q + 2] = CR
      /\ q + 3 <= Len(s) => s[q + 3] = LF
  BY Zenon DEF IsText
<1>1. b \in Seq(Symbols) /\ Len(b) = a - q /\ \A k \in 1..a - q : b[k] = s[q + k]
  BY PieceOf
<1>2. \A i \in EndOfLine(b) : i \in 1..(a - q) - 1 /\ b[i] = CR /\ b[i + 1] = LF
  BY <1>1 DEF EndOfLine
<1>3. ASSUME NEW i \in EndOfLine(b) PROVE i >= 2 /\ a >= q + 3
  <2>1. i \in 1..(a - q) - 1 /\ b[i] = CR
    BY <1>2
  <2>2. i # 1
    <3>1. ASSUME i = 1 PROVE FALSE
      <4>1. b[1] = s[q + 1] /\ q + 1 <= Len(s)
        BY <1>1, <2>1, <3>1
      <4> QED
        BY Zenon, <1>0, <2>1, <3>1, <4>1
    <3> QED
      BY <3>1
  <2> QED
    BY <2>1, <2>2
<1>4. ASSUME a >= q + 3
      PROVE  2 \in EndOfLine(b)
  <2>1. b[2] = s[q + 2] /\ b[3] = s[q + 3] /\ 2 \in 1..Len(b) - 1 /\ q + 2 <= Len(s) /\ q + 3 <= Len(s)
        /\ 2 + 1 = 3
    BY <1>1, <1>4
  <2>2. b[2] = CR /\ b[2 + 1] = LF
    BY Zenon, <1>0, <2>1
  <2> QED
    BY Zenon, <2>1, <2>2 DEF EndOfLine
<1>5. ASSUME a >= q + 3
      PROVE  /\ Min(EndOfLine(b)) = 2 /\ SubSeq(b, 1, 1) = <<s[q + 1]>>
             /\ SubSeq(b, 4, Len(b)) = SubSeq(s, q + 4, a)
  <2>1. Min(EndOfLine(b)) \in EndOfLine(b) /\ Min(EndOfLine(b)) <= 2
    BY Zenon, <1>1, <1>4, <1>5, FirstEnd
  <2>2. Min(EndOfLine(b)) >= 2 /\ Min(EndOfLine(b)) \in Nat
    BY <1>2, <1>3, <2>1
  <2>3. Min(EndOfLine(b)) = 2
    BY <2>1, <2>2
  <2>4. SubSeq(b, 1, 1) = <<s[q + 1]>>
    <3>1. b[1] = s[q + 1] /\ Len(b) >= 1
      BY <1>1, <1>5
    <3>2. SubSeq(b, 1, 1) = <<b[1]>>
      <4>1. PICK y, z : y = SubSeq(b, 0 + 1, 1) /\ z = <<b[1]>>
        OBVIOUS
      <4>2. y \in Seq(Symbols) /\ Len(y) = 1 - 0 /\ \A i \in 1..1 - 0 : y[i] = b[0 + i]
        BY <1>1, <3>1, <4>1, PieceOf
      <4>3. z \in Seq(Symbols) /\ Len(z) = 1 /\ z[1] = b[1]
        BY <1>1, <3>1, <4>1
      <4>4. y = z
        <5>1. Len(y) = 1 /\ Len(z) = 1 /\ y[1] = z[1]
          <6>1. 1 - 0 = 1 /\ 0 + 1 = 1 /\ 1 \in 1..1 - 0
            OBVIOUS
          <6> QED
            BY Zenon, <4>2, <4>3, <6>1
        <5>2. Len(y) = Len(z) /\ \A i \in 1..Len(y) : y[i] = z[i]
          BY <5>1
        <5> QED
          BY <4>2, <4>3, <5>2, SeqSame
      <4>5. 0 + 1 = 1
        OBVIOUS
      <4> QED
        BY Zenon, <4>1, <4>4, <4>5
    <3> QED
      BY Zenon, <3>1, <3>2
  <2>5. SubSeq(b, 4, Len(b)) = SubSeq(s, q + 4, a)
    <3>1. PieceIn(s, q, a, 3, a - q)
      BY <1>5, PieceOfPiece
    <3>2. 3 + 1 = 4 /\ q + 3 + 1 = q + 4 /\ q + (a - q) = a
      OBVIOUS
    <3> QED
      BY Zenon, <1>1, <3>1, <3>2 DEF PieceIn
  <2> QED
    BY Zenon, <2>3, <2>4, <2>5
<1>6. EndOfLine(b) # {} <=> a >= q + 3
  BY <1>3, <1>4
<1> QED
  BY Zenon, <1>5, <1>6 DEF TextEnds

(* The blank line ends where its second symbol is there. *)
LEMMA BlankLine ==
    ASSUME NEW s \in Seq(Symbols), NEW q \in Nat, NEW a \in Nat, q <= a, a <= Len(s),
           NEW b, b = SubSeq(s, q + 1, a),
           q + 1 <= Len(s) => s[q + 1] = CR,
           q + 2 <= Len(s) => s[q + 2] = LF
    PROVE  /\ EndOfLine(b) # {} <=> a >= q + 2
           /\ a >= q + 2 => /\ Min(EndOfLine(b)) = 1
                            /\ SubSeq(b, 1, 0) = <<>>
                            /\ SubSeq(b, 3, Len(b)) = SubSeq(s, q + 3, a)
<1>1. b \in Seq(Symbols) /\ Len(b) = a - q /\ \A k \in 1..a - q : b[k] = s[q + k]
  BY PieceOf
<1>2. \A i \in EndOfLine(b) : i \in 1..(a - q) - 1
  BY <1>1 DEF EndOfLine
<1>3. ASSUME a >= q + 2
      PROVE  1 \in EndOfLine(b)
  <2>1. b[1] = s[q + 1] /\ b[2] = s[q + 2] /\ 1 \in 1..Len(b) - 1 /\ q + 1 <= Len(s) /\ q + 2 <= Len(s)
        /\ 1 + 1 = 2
    BY <1>1, <1>3
  <2>2. b[1] = CR /\ b[1 + 1] = LF
    BY Zenon, <2>1
  <2> QED
    BY Zenon, <2>1, <2>2 DEF EndOfLine
<1>4. ASSUME a >= q + 2
      PROVE  /\ Min(EndOfLine(b)) = 1 /\ SubSeq(b, 1, 0) = <<>>
             /\ SubSeq(b, 3, Len(b)) = SubSeq(s, q + 3, a)
  <2>1. Min(EndOfLine(b)) \in EndOfLine(b) /\ Min(EndOfLine(b)) <= 1
    BY Zenon, <1>1, <1>3, <1>4, FirstEnd
  <2>2. Min(EndOfLine(b)) >= 1 /\ Min(EndOfLine(b)) \in Nat
    BY <1>2, <2>1
  <2>3. Min(EndOfLine(b)) = 1
    BY <2>1, <2>2
  <2>4. SubSeq(b, 1, 0) = <<>>
    BY <1>1
  <2>5. SubSeq(b, 3, Len(b)) = SubSeq(s, q + 3, a)
    <3>1. PieceIn(s, q, a, 2, a - q)
      BY <1>4, PieceOfPiece
    <3>2. 2 + 1 = 3 /\ q + 2 + 1 = q + 3 /\ q + (a - q) = a
      OBVIOUS
    <3> QED
      BY Zenon, <1>1, <3>1, <3>2 DEF PieceIn
  <2> QED
    BY Zenon, <2>3, <2>4, <2>5
<1>5. EndOfLine(b) # {} => a >= q + 2
  BY <1>2
<1> QED
  BY <1>3, <1>4, <1>5

(* How a response is laid out: lines of three symbols, then a blank one.    *)
HeadersOf(length) == IF length = -1 THEN 8 ELSE 11
Laid(s, code, length) ==
    LET h == HeadersOf(length) IN
    /\ 1 <= Len(s) => s[1] = StatusLine(code) /\ s[1] # CR
    /\ 2 <= Len(s) => s[2] = CR
    /\ 3 <= Len(s) => s[3] = LF
    /\ 4 <= Len(s) => s[4] = Text("other", 0) /\ s[4] # CR
    /\ 5 <= Len(s) => s[5] = CR
    /\ 6 <= Len(s) => s[6] = LF
    /\ length # -1 => /\ 7 <= Len(s) => s[7] = Text("length", length) /\ s[7] # CR
                      /\ 8 <= Len(s) => s[8] = CR
                      /\ 9 <= Len(s) => s[9] = LF
    /\ h - 1 <= Len(s) => s[h - 1] = CR
    /\ h <= Len(s) => s[h] = LF

LEMMA HeadersAre ==
    ASSUME NEW code, NEW length \in Nat \cup {-1}, code \in Nat
    PROVE  /\ Headers(code, length) \in Seq([is : {"status", "garbage", "cr", "lf", "other",
                                                     "length", "number"}, n : Int])
           /\ Len(Headers(code, length)) = HeadersOf(length)
           /\ Laid(Headers(code, length), code, length)
<1> DEFINE T == [is : {"status", "garbage", "cr", "lf", "other", "length", "number"}, n : Int]
<1>1. PICK A, B, L : A = StatusLine(code) /\ B = Text("other", 0) /\ L = Text("length", length)
  OBVIOUS
<1>2. PICK R, N : R = CR /\ N = LF
  OBVIOUS
<1>3. A \in T /\ B \in T /\ L \in T /\ R \in T /\ N \in T /\ A # R /\ B # R /\ L # R
  BY <1>1, <1>2 DEF StatusLine, Text, CR, LF
<1> HIDE DEF T
<1>4. PICK f, g, e : /\ f = <<A, R, N, B, R, N>>
                     /\ g = (IF length = -1 THEN <<>> ELSE <<L, R, N>>)
                     /\ e = <<R, N>>
  OBVIOUS
<1>5. /\ f \in Seq(T) /\ Len(f) = 6 /\ f[1] = A /\ f[2] = R /\ f[3] = N /\ f[4] = B /\ f[5] = R
      /\ f[6] = N
  BY <1>3, <1>4
<1>6. /\ g \in Seq(T) /\ Len(g) = IF length = -1 THEN 0 ELSE 3
      /\ length # -1 => g[1] = L /\ g[2] = R /\ g[3] = N
  BY <1>3, <1>4
<1>7. e \in Seq(T) /\ Len(e) = 2 /\ e[1] = R /\ e[2] = N
  BY <1>3, <1>4
<1>8. PICK x : x = f \o g
  OBVIOUS
<1>9. /\ x \in Seq(T) /\ Len(x) = Len(f) + Len(g)
      /\ \A i \in 1..Len(f) + Len(g) : x[i] = IF i <= Len(f) THEN f[i] ELSE g[i - Len(f)]
  <2>1. f \in Seq(T) /\ g \in Seq(T)
    BY <1>5, <1>6
  <2> QED
    BY Zenon, <1>8, <2>1, JoinIs
<1>10. PICK y : y = x \o e
  OBVIOUS
<1>11. /\ y \in Seq(T) /\ Len(y) = Len(x) + Len(e)
       /\ \A i \in 1..Len(x) + Len(e) : y[i] = IF i <= Len(x) THEN x[i] ELSE e[i - Len(x)]
  <2>1. x \in Seq(T) /\ e \in Seq(T)
    BY <1>7, <1>9
  <2> QED
    BY Zenon, <1>10, <2>1, JoinIs
<1>12. Headers(code, length) = y
  BY Zenon, <1>1, <1>2, <1>4, <1>8, <1>10 DEF Headers
<1>13. Len(y) = HeadersOf(length)
  BY <1>5, <1>6, <1>7, <1>9, <1>11 DEF HeadersOf
<1>14. y[1] = A /\ y[2] = R /\ y[3] = N /\ y[4] = B /\ y[5] = R /\ y[6] = N
  <2>1. \A i \in {1, 2, 3, 4, 5, 6} : x[i] = f[i]
    BY SMTT(60), <1>5, <1>6, <1>9
  <2>2. \A i \in {1, 2, 3, 4, 5, 6} : y[i] = x[i]
    <3>1. Len(x) \in Nat /\ Len(x) >= 6 /\ Len(e) = 2
      BY <1>5, <1>6, <1>7, <1>9
    <3>2. \A i \in {1, 2, 3, 4, 5, 6} : i \in 1..Len(x) + Len(e) /\ i <= Len(x)
      BY <3>1
    <3> QED
      BY Zenon, <1>11, <3>2
  <2> QED
    BY Zenon, <1>5, <2>1, <2>2
<1>15. /\ length # -1 => y[7] = L /\ y[8] = R /\ y[9] = N /\ y[10] = R /\ y[11] = N
       /\ length = -1 => y[7] = R /\ y[8] = N
  <2>1. CASE length = -1
    <3>1. Len(x) = 6 /\ Len(e) = 2
      BY <1>5, <1>6, <1>7, <1>9, <2>1
    <3>2. y[7] = e[1] /\ y[8] = e[2]
      BY <1>11, <3>1
    <3> QED
      BY Zenon, <1>7, <2>1, <3>2
  <2>2. CASE length # -1
    <3>1. Len(f) = 6 /\ Len(g) = 3 /\ Len(x) = 9 /\ Len(e) = 2
      BY <1>5, <1>6, <1>7, <1>9, <2>2
    <3>2. x[7] = g[1] /\ x[8] = g[2] /\ x[9] = g[3]
      BY <1>9, <3>1
    <3>3. y[7] = x[7] /\ y[8] = x[8] /\ y[9] = x[9] /\ y[10] = e[1] /\ y[11] = e[2]
      BY <1>11, <3>1
    <3> QED
      BY Zenon, <1>6, <1>7, <2>2, <3>2, <3>3
  <2> QED
    BY Zenon, <2>1, <2>2
<1>16. /\ length # -1 => HeadersOf(length) = 11 /\ HeadersOf(length) - 1 = 10
       /\ length = -1 => HeadersOf(length) = 8 /\ HeadersOf(length) - 1 = 7
  BY DEF HeadersOf
<1>17. Laid(y, code, length)
  BY Zenon, <1>1, <1>2, <1>3, <1>14, <1>15, <1>16 DEF Laid
<1> QED
  BY Zenon, <1>11, <1>12, <1>13, <1>17 DEF T

(* The start of a response is laid out as the response is. *)
LEMMA StartLaid ==
    ASSUME NEW S, NEW s \in Seq(S), NEW f \in Seq(S), NEW code, NEW length,
           \A i \in 1..Len(s) : i <= HeadersOf(length) => i <= Len(f) /\ s[i] = f[i],
           Laid(f, code, length)
    PROVE  Laid(s, code, length)
<1>1. Len(s) \in Nat
  OBVIOUS
<1>2. \A i \in Nat \ {0} : i <= HeadersOf(length) /\ i <= Len(s) => i <= Len(f) /\ s[i] = f[i]
  BY <1>1
<1>3. CASE length = -1
  <2>1. HeadersOf(length) = 8 /\ HeadersOf(length) - 1 = 7
    BY <1>3 DEF HeadersOf
  <2>2. \A i \in {1, 2, 3, 4, 5, 6, 7, 8} : i <= Len(s) => i <= Len(f) /\ s[i] = f[i]
    BY <1>2, <2>1
  <2> QED
    BY ZenonT(60), <1>3, <2>1, <2>2 DEF Laid
<1>4. CASE length # -1
  <2>1. HeadersOf(length) = 11 /\ HeadersOf(length) - 1 = 10
    BY <1>4 DEF HeadersOf
  <2>2. \A i \in {1, 2, 3, 4, 5, 6, 7, 8, 9, 10, 11} : i <= Len(s) => i <= Len(f) /\ s[i] = f[i]
    BY <1>2, <2>1
  <2> QED
    BY ZenonT(60), <1>4, <2>1, <2>2 DEF Laid
<1> QED
  BY <1>3, <1>4

LEMMA ResponseIs ==
    ASSUME NEW r \in Resets \cup Moves
    PROVE  /\ r.sent \in Seq(Symbols) /\ r.code \in Nat /\ r.length \in Nat \cup {-1}
           /\ HeaderLength(r) = HeadersOf(r.length)
           /\ Laid(r.sent, r.code, r.length)
           /\ r.closes \/ r.length \in 0..Len(r.sent) - HeadersOf(r.length)
<1> DEFINE T == [is : {"status", "garbage", "cr", "lf", "other", "length", "number"}, n : Int]
<1>1. /\ r.sent \in Seq(Symbols) /\ r.code \in Nat /\ r.length \in Nat \cup {-1}
      /\ r.body \in Seq(Int)
  BY Zenon, ClientAssumption, AnswersAssumption
<1>2. PICK n \in 0..Len(Full(r)) :
         /\ r.sent = SubSeq(Full(r), 1, n)
         /\ r.closes \/ (n = Len(Full(r)) /\ r.length \in 0..Len(r.body))
  BY Zenon, AnswersAssumption
<1>3. PICK H, N, b, f, h : /\ H = Headers(r.code, r.length) /\ N = Num(r.body) /\ b = r.body
                           /\ f = Full(r) /\ h = HeadersOf(r.length)
  OBVIOUS
<1>4. H \in Seq(T) /\ Len(H) = h /\ Laid(H, r.code, r.length)
  BY Zenon, <1>1, <1>3, HeadersAre
<1>5. N \in Seq(T) /\ Len(N) = Len(b)
  <2>1. b \in Seq(Int) /\ N = [i \in 1..Len(b) |-> Text("number", b[i])]
    BY Zenon, <1>1, <1>3 DEF Num
  <2>2. \A i \in 1..Len(b) : Text("number", b[i]) \in T
    BY <2>1 DEF Text
  <2> HIDE DEF T
  <2> QED
    BY <2>1, <2>2
<1> HIDE DEF T
<1>6. /\ f = H \o N /\ f \in Seq(T) /\ Len(f) = Len(H) + Len(N)
      /\ \A i \in 1..Len(H) + Len(N) : f[i] = IF i <= Len(H) THEN H[i] ELSE N[i - Len(H)]
  <2>1. f = H \o N
    BY Zenon, <1>3 DEF Full
  <2>2. H \in Seq(T) /\ N \in Seq(T)
    BY <1>4, <1>5
  <2> QED
    BY Zenon, <2>1, <2>2, JoinIs
<1>7. h \in Nat /\ Len(b) \in Nat /\ Len(f) = h + Len(b) /\ n \in 0..Len(f)
  <2>1. h \in Nat
    BY <1>3 DEF HeadersOf
  <2>2. Len(b) \in Nat
    BY <1>1, <1>3
  <2>3. n \in 0..Len(f)
    BY Zenon, <1>2, <1>3
  <2> QED
    BY <1>4, <1>5, <1>6, <2>1, <2>2, <2>3
<1>8. PICK s : s = SubSeq(f, 0 + 1, n)
  OBVIOUS
<1>9. s \in Seq(T) /\ Len(s) = n /\ \A i \in 1..n : s[i] = f[i]
  <2>1. f \in Seq(T) /\ 0 \in Nat /\ n \in Nat /\ 0 <= n /\ n <= Len(f)
    BY <1>6, <1>7
  <2>2. s \in Seq(T) /\ Len(s) = n - 0 /\ \A i \in 1..n - 0 : s[i] = f[0 + i]
    BY Zenon, <1>8, <2>1, PieceOf
  <2>3. n - 0 = n /\ \A i \in 1..n : 0 + i = i
    BY <2>1
  <2> QED
    BY Zenon, <2>2, <2>3
<1>10. s = r.sent
  <2>1. 0 + 1 = 1
    OBVIOUS
  <2> QED
    BY Zenon, <1>2, <1>3, <1>8, <2>1
<1>11. Laid(s, r.code, r.length)
  <2>1. \A i \in 1..Len(s) : i <= HeadersOf(r.length) => i <= Len(H) /\ s[i] = H[i]
    <3>1. ASSUME NEW i \in 1..Len(s), i <= h PROVE i <= Len(H) /\ s[i] = H[i]
      <4>1. i <= Len(H) /\ i \in 1..n /\ i \in 1..Len(H) + Len(N)
        BY <1>4, <1>6, <1>7, <1>9, <3>1
      <4> QED
        BY Zenon, <1>6, <1>9, <4>1
    <3> QED
      BY Zenon, <1>3, <3>1
  <2> QED
    BY Zenon, <1>4, <1>9, <2>1, StartLaid
<1>12. r.closes \/ r.length \in 0..Len(s) - h
  <2>1. CASE n = Len(f) /\ r.length \in 0..Len(b)
    <3>1. Len(s) - h = Len(b)
      BY <1>7, <1>9, <2>1
    <3> QED
      BY Zenon, <2>1, <3>1
  <2> QED
    BY Zenon, <1>2, <1>3, <2>1
<1>13. HeaderLength(r) = h
  BY Zenon, <1>3, <1>4 DEF HeaderLength
<1> QED
  BY Zenon, <1>1, <1>3, <1>10, <1>11, <1>12, <1>13

(* What a response is worth. *)
LEMMA WantedIs ==
    ASSUME NEW r \in Resets \cup Moves, NEW n, NEW h, n = Len(r.sent), h = HeadersOf(r.length)
    PROVE  /\ n \in Nat /\ h \in Nat /\ h >= 8
           /\ n < 3 \/ r.code = 0 => Wanted(r).state = "broken" /\ -1 \in Wanted(r).status
           /\ n >= 3 /\ r.code # 0 =>
                /\ r.code \in Wanted(r).status
                /\ n < h \/ (r.length # -1 /\ n - h < r.length) => Wanted(r).state = "broken"
                /\ n >= h /\ r.length = -1 => Wanted(r).state = "closed"
                /\ n >= h /\ r.length # -1 /\ n - h >= r.length => Wanted(r).state = "idle"
                /\ n >= h /\ (r.length = -1 \/ n - h >= r.length) =>
                     Wanted(r).body = SubSeq(r.sent, h + 1, n)
<1>1. r.sent \in Seq(Symbols) /\ r.length \in Nat \cup {-1} /\ HeaderLength(r) = h
  BY ResponseIs
<1>2. n \in Nat /\ h \in Nat /\ h >= 8
  BY <1>1 DEF HeadersOf
<1>3. PICK g : g = n - h
  OBVIOUS
<1>4. g \in Int /\ n - g + 1 = h + 1 /\ (g < 0 <=> n < h)
  BY <1>2, <1>3
<1>5. PICK w, l, c, d : w = Wanted(r) /\ l = r.length /\ c = r.code /\ d = SubSeq(r.sent, h + 1, n)
  OBVIOUS
<1>6. w = IF n < 3 \/ c = 0 THEN [state |-> "broken", status |-> {-1}, body |-> <<>>]
          ELSE IF g < 0 THEN [state |-> "broken", status |-> {-1, c}, body |-> <<>>]
          ELSE IF l = -1 THEN [state |-> "closed", status |-> {c}, body |-> d]
          ELSE IF g < l THEN [state |-> "broken", status |-> {c}, body |-> <<>>]
          ELSE [state |-> "idle", status |-> {c}, body |-> d]
  BY Zenon, <1>1, <1>3, <1>4, <1>5 DEF Wanted
<1>7. l \in Nat \cup {-1}
  BY Zenon, <1>1, <1>5
<1>8. /\ n < 3 \/ c = 0 => w.state = "broken" /\ -1 \in w.status
      /\ n >= 3 /\ c # 0 =>
           /\ c \in w.status
           /\ n < h \/ (l # -1 /\ g < l) => w.state = "broken"
           /\ n >= h /\ l = -1 => w.state = "closed"
           /\ n >= h /\ l # -1 /\ g >= l => w.state = "idle"
           /\ n >= h /\ (l = -1 \/ g >= l) => w.body = d
  BY <1>2, <1>4, <1>6, <1>7
<1> QED
  BY Zenon, <1>2, <1>3, <1>5, <1>8

(* What a connection knows of a response after its first q symbols.         *)
Knows(c, r, q) ==
    LET told == c.status = r.code /\ r.code # 0
        new == c.has = FALSE /\ c.length = 0
        sized == c.has = TRUE /\ c.length = r.length IN
    \/ c.state = "waiting" /\ q = 0 /\ c.status = -1 /\ new
    \/ c.state = "headers" /\ q \in {3, 6} /\ told /\ new
    \/ c.state = "headers" /\ q = 9 /\ r.length # -1 /\ told /\ sized
    \/ c.state = "body" /\ q = HeadersOf(r.length) /\ told /\ (IF r.length = -1 THEN new ELSE sized)
    \/ c.state = "broken" /\ q = 3 /\ r.code = 0 /\ c.status = -1

(* It has consumed q symbols of those sent and holds the others up to a.    *)
Holds(c, r, q, a) ==
    /\ q \in Nat /\ a \in Nat /\ q <= a /\ a <= Len(r.sent)
    /\ c.buf = SubSeq(r.sent, q + 1, a)
    /\ c.eof => a = Len(r.sent) /\ r.closes

(* The line that comes next. *)
ComesNext(c, r, q, a) ==
    LET x == SubSeq(r.sent, q + 3, a)  y == SubSeq(r.sent, q + 4, a) IN
    \/ /\ c.state = "waiting" /\ q = 0
       /\ EndOfLine(c.buf) # {} <=> a >= 3
       /\ a >= 3 => Consumed(c) = Line(c, <<StatusLine(r.code)>>, y)
    \/ /\ c.state = "headers" /\ q = 3
       /\ EndOfLine(c.buf) # {} <=> a >= 6
       /\ a >= 6 => Consumed(c) = Line(c, <<Text("other", 0)>>, y)
    \/ /\ c.state = "headers" /\ q = 6 /\ r.length # -1
       /\ EndOfLine(c.buf) # {} <=> a >= 9
       /\ a >= 9 => Consumed(c) = Line(c, <<Text("length", r.length)>>, y)
    \/ /\ c.state = "headers" /\ q + 2 = HeadersOf(r.length)
       /\ q = IF r.length = -1 THEN 6 ELSE 9
       /\ EndOfLine(c.buf) # {} <=> a >= HeadersOf(r.length)
       /\ a >= HeadersOf(r.length) => Consumed(c) = Line(c, <<>>, x)

LEMMA NextLine ==
    ASSUME NEW r \in Resets \cup Moves, NEW c \in ConnType, NEW q, NEW a, Holds(c, r, q, a),
           Waiting(c), Knows(c, r, q)
    PROVE  ComesNext(c, r, q, a)
<1>0. PICK x, y : x = SubSeq(r.sent, q + 3, a) /\ y = SubSeq(r.sent, q + 4, a)
  OBVIOUS
<1>1. r.sent \in Seq(Symbols) /\ Laid(r.sent, r.code, r.length)
  BY ResponseIs
<1>2. PICK s, b : s = r.sent /\ b = c.buf
  OBVIOUS
<1>3. /\ s \in Seq(Symbols) /\ q \in Nat /\ a \in Nat /\ q <= a /\ a <= Len(s)
      /\ b = SubSeq(s, q + 1, a) /\ Laid(s, r.code, r.length)
  BY Zenon, <1>1, <1>2 DEF Holds
<1>4. \/ c.state = "waiting" /\ q = 0
      \/ c.state = "headers" /\ (q \in {3, 6} \/ (q = 9 /\ r.length # -1))
  BY Zenon DEF Knows, Waiting
<1>5. ASSUME q + 1 <= Len(s) => s[q + 1] # CR, q + 2 <= Len(s) => s[q + 2] = CR,
             q + 3 <= Len(s) => s[q + 3] = LF
      PROVE  /\ EndOfLine(b) # {} <=> a >= q + 3
             /\ a >= q + 3 => Consumed(c) = Line(c, <<s[q + 1]>>, y)
  <2>1. TextEnds(s, q, a, b)
    <3>1. IsText(s, q)
      BY Zenon, <1>5 DEF IsText
    <3> QED
      BY Zenon, <1>3, <3>1, TextLine
  <2>2. 2 - 1 = 1 /\ 2 + 2 = 4
    OBVIOUS
  <2> QED
    BY Zenon, <1>0, <1>2, <2>1, <2>2 DEF Consumed, TextEnds
<1>6. ASSUME q + 1 <= Len(s) => s[q + 1] = CR, q + 2 <= Len(s) => s[q + 2] = LF
      PROVE  /\ EndOfLine(b) # {} <=> a >= q + 2
             /\ a >= q + 2 => Consumed(c) = Line(c, <<>>, x)
  <2>1. /\ EndOfLine(b) # {} <=> a >= q + 2
        /\ a >= q + 2 => /\ Min(EndOfLine(b)) = 1 /\ SubSeq(b, 1, 0) = <<>>
                         /\ SubSeq(b, 3, Len(b)) = SubSeq(s, q + 3, a)
    BY ZenonT(60), <1>3, <1>6, BlankLine
  <2>2. 1 - 1 = 0 /\ 1 + 2 = 3
    OBVIOUS
  <2> QED
    BY Zenon, <1>0, <1>2, <2>1, <2>2 DEF Consumed
<1>7. CASE q = 0
  <2>1. q + 1 = 1 /\ q + 2 = 2 /\ q + 3 = 3
    BY <1>7
  <2>2. /\ EndOfLine(b) # {} <=> a >= 3
        /\ a >= 3 => Consumed(c) = Line(c, <<s[1]>>, y)
    BY Zenon, <1>3, <1>5, <2>1 DEF Laid
  <2>3. a >= 3 => 1 <= Len(s)
    BY <1>3
  <2>4. a >= 3 => s[1] = StatusLine(r.code)
    BY Zenon, <1>3, <2>3 DEF Laid
  <2>5. c.state = "waiting"
    BY <1>4, <1>7
  <2> QED
    BY Zenon, <1>0, <1>2, <1>7, <2>2, <2>4, <2>5 DEF ComesNext
<1>8. CASE q = 3
  <2>1. q + 1 = 4 /\ q + 2 = 5 /\ q + 3 = 6
    BY <1>8
  <2>2. /\ EndOfLine(b) # {} <=> a >= 6
        /\ a >= 6 => Consumed(c) = Line(c, <<s[4]>>, y)
    BY Zenon, <1>3, <1>5, <2>1 DEF Laid
  <2>3. a >= 6 => 4 <= Len(s)
    BY <1>3
  <2>4. a >= 6 => s[4] = Text("other", 0)
    BY Zenon, <1>3, <2>3 DEF Laid
  <2>5. c.state = "headers"
    BY <1>4, <1>8
  <2> QED
    BY Zenon, <1>0, <1>2, <1>8, <2>2, <2>4, <2>5 DEF ComesNext
<1>9. CASE q = 6 /\ r.length # -1
  <2>1. q + 1 = 7 /\ q + 2 = 8 /\ q + 3 = 9
    BY <1>9
  <2>2. /\ EndOfLine(b) # {} <=> a >= 9
        /\ a >= 9 => Consumed(c) = Line(c, <<s[7]>>, y)
    BY Zenon, <1>3, <1>5, <1>9, <2>1 DEF Laid
  <2>3. a >= 9 => 7 <= Len(s)
    BY <1>3
  <2>4. a >= 9 => s[7] = Text("length", r.length)
    BY Zenon, <1>3, <1>9, <2>3 DEF Laid
  <2>5. c.state = "headers"
    BY <1>4, <1>9
  <2> QED
    BY Zenon, <1>0, <1>2, <1>9, <2>2, <2>4, <2>5 DEF ComesNext
<1>10. CASE q = IF r.length = -1 THEN 6 ELSE 9
  <2>1. PICK h : h = HeadersOf(r.length)
    OBVIOUS
  <2>2. q + 1 = h - 1 /\ q + 2 = h
    BY <1>10, <2>1 DEF HeadersOf
  <2>3. /\ EndOfLine(b) # {} <=> a >= h
        /\ a >= h => Consumed(c) = Line(c, <<>>, x)
    BY Zenon, <1>3, <1>6, <2>1, <2>2 DEF Laid
  <2>4. c.state = "headers"
    BY <1>4, <1>10
  <2> QED
    BY Zenon, <1>0, <1>2, <1>10, <2>1, <2>2, <2>3, <2>4 DEF ComesNext
<1>11. q = 0 \/ q = 3 \/ (q = 6 /\ r.length # -1) \/ q = IF r.length = -1 THEN 6 ELSE 9
  BY <1>4
<1> QED
  BY Zenon, <1>7, <1>8, <1>9, <1>10, <1>11

After(c, v, y) ==
    IF c.state = "waiting"
    THEN IF v.is = "status"
         THEN [c EXCEPT !.buf = y, !.state = "headers", !.status = v.n]
         ELSE [c EXCEPT !.buf = y, !.state = "broken"]
    ELSE IF v.is = "length" THEN [c EXCEPT !.buf = y, !.length = v.n, !.has = TRUE]
    ELSE [c EXCEPT !.buf = y]

LEMMA LineDoes ==
    ASSUME NEW c \in ConnType, NEW v, NEW y
    PROVE  /\ Line(c, <<v>>, y) = After(c, v, y)
           /\ c.state # "waiting" => Line(c, <<>>, y) = [c EXCEPT !.buf = y, !.state = "body"]
<1>1. PICK u : u = <<v>>
  OBVIOUS
<1>2. u # <<>> /\ u[1] = v
  BY <1>1
<1>3. Line(c, u, y) = After(c, v, y)
  BY Zenon, <1>2 DEF Line, After
<1>4. c.state # "waiting" => Line(c, <<>>, y) = [c EXCEPT !.buf = y, !.state = "body"]
  BY Zenon DEF Line
<1> QED
  BY Zenon, <1>1, <1>3, <1>4

(* process_response_headers() knows the more after a line. *)
LEMMA ConsumedKnows ==
    ASSUME NEW r \in Resets \cup Moves, NEW c \in ConnType, NEW q, NEW a, Holds(c, r, q, a),
           Waiting(c), Knows(c, r, q), EndOfLine(c.buf) # {}
    PROVE  \E p : /\ Holds(Consumed(c), r, p, a) /\ Knows(Consumed(c), r, p)
                  /\ Consumed(c).eof = c.eof
<1>1. PICK d, x, y : /\ d = Consumed(c) /\ x = SubSeq(r.sent, q + 3, a)
                     /\ y = SubSeq(r.sent, q + 4, a)
  OBVIOUS
<1>2. /\ q \in Nat /\ a \in Nat /\ q <= a /\ a <= Len(r.sent)
      /\ c.eof => a = Len(r.sent) /\ r.closes
  BY Zenon DEF Holds
<1>3. r.code \in Nat /\ r.length \in Nat \cup {-1}
  BY ResponseIs
<1>4. PICK o, z : o = r.code /\ z = r.length
  OBVIOUS
<1>5. CASE c.state = "waiting" /\ q = 0 /\ a >= 3 /\ d = Line(c, <<StatusLine(o)>>, y)
  <2>1. PICK v : v = StatusLine(o)
    OBVIOUS
  <2>2. /\ o = 0 => v.is # "status"
        /\ o # 0 => v.is = "status" /\ v.n = o
    BY <2>1 DEF StatusLine, Text
  <2>3. d = IF v.is = "status" THEN [c EXCEPT !.buf = y, !.state = "headers", !.status = v.n]
            ELSE [c EXCEPT !.buf = y, !.state = "broken"]
    <3>1. d = After(c, v, y)
      BY ZenonT(60), <1>5, <2>1, LineDoes
    <3> QED
      BY Zenon, <1>5, <3>1 DEF After
  <2>4. /\ d.buf = y /\ d.eof = c.eof /\ d.has = c.has /\ d.length = c.length
        /\ o # 0 => d.state = "headers" /\ d.status = o
        /\ o = 0 => d.state = "broken" /\ d.status = c.status
    BY <2>2, <2>3 DEF ConnType
  <2>5. q + 4 = 3 + 1 /\ 3 \in Nat /\ 3 <= a /\ 3 \in {3, 6}
    BY <1>5
  <2>6. Holds(d, r, 3, a)
    BY Zenon, <1>1, <1>2, <2>4, <2>5 DEF Holds
  <2>7. c.status = -1 /\ c.has = FALSE /\ c.length = 0
    BY Zenon, <1>5 DEF Knows
  <2>8. Knows(d, r, 3)
    BY Zenon, <1>4, <2>4, <2>5, <2>7 DEF Knows
  <2> QED
    BY Zenon, <1>1, <2>4, <2>6, <2>8
<1>6. ASSUME c.state = "headers"
      PROVE  /\ c.status = o /\ o # 0
             /\ q \in {3, 6} => c.has = FALSE /\ c.length = 0
             /\ q = 9 => c.has = TRUE /\ c.length = z
  <2>1. q = 9 => q \notin {3, 6}
    OBVIOUS
  <2> QED
    BY Zenon, <1>4, <1>6, <2>1 DEF Knows
<1>7. CASE c.state = "headers" /\ q = 3 /\ a >= 6 /\ d = Line(c, <<Text("other", 0)>>, y)
  <2>1. PICK v : v = Text("other", 0)
    OBVIOUS
  <2>2. v.is # "length"
    BY <2>1 DEF Text
  <2>3. d = [c EXCEPT !.buf = y]
    <3>1. d = After(c, v, y)
      BY ZenonT(60), <1>7, <2>1, LineDoes
    <3>2. c.state # "waiting"
      BY <1>7
    <3> QED
      BY Zenon, <2>2, <3>1, <3>2 DEF After
  <2>4. /\ d.buf = y /\ d.eof = c.eof /\ d.has = c.has /\ d.length = c.length
        /\ d.state = c.state /\ d.status = c.status
    BY <2>3 DEF ConnType
  <2>5. q + 4 = 6 + 1 /\ 6 \in Nat /\ 6 <= a /\ 6 \in {3, 6} /\ q \in {3, 6}
    BY <1>7
  <2>6. Holds(d, r, 6, a)
    BY Zenon, <1>1, <1>2, <2>4, <2>5 DEF Holds
  <2>7. Knows(d, r, 6)
    BY Zenon, <1>4, <1>6, <1>7, <2>4, <2>5 DEF Knows
  <2> QED
    BY Zenon, <1>1, <2>4, <2>6, <2>7
<1>8. CASE /\ c.state = "headers" /\ q = 6 /\ z # -1 /\ a >= 9
           /\ d = Line(c, <<Text("length", z)>>, y)
  <2>1. PICK v : v = Text("length", z)
    OBVIOUS
  <2>2. v.is = "length" /\ v.n = z
    BY <2>1 DEF Text
  <2>3. d = [c EXCEPT !.buf = y, !.length = z, !.has = TRUE]
    <3>1. d = After(c, v, y)
      BY ZenonT(60), <1>8, <2>1, LineDoes
    <3>2. c.state # "waiting"
      BY <1>8
    <3> QED
      BY Zenon, <2>2, <3>1, <3>2 DEF After
  <2>4. /\ d.buf = y /\ d.eof = c.eof /\ d.has = TRUE /\ d.length = z
        /\ d.state = c.state /\ d.status = c.status
    BY <2>3 DEF ConnType
  <2>5. q + 4 = 9 + 1 /\ 9 \in Nat /\ 9 <= a
    BY <1>8
  <2>6. Holds(d, r, 9, a)
    BY Zenon, <1>1, <1>2, <2>4, <2>5 DEF Holds
  <2>7. Knows(d, r, 9)
    BY Zenon, <1>4, <1>6, <1>8, <2>4 DEF Knows
  <2> QED
    BY Zenon, <1>1, <2>4, <2>6, <2>7
<1>9. CASE /\ c.state = "headers" /\ q + 2 = HeadersOf(z) /\ q = (IF z = -1 THEN 6 ELSE 9)
           /\ a >= HeadersOf(z) /\ d = Line(c, <<>>, x)
  <2>1. PICK h : h = HeadersOf(z)
    OBVIOUS
  <2>2. h \in Nat /\ h <= a /\ q + 3 = h + 1
    BY <1>2, <1>9, <2>1
  <2>3. d = [c EXCEPT !.buf = x, !.state = "body"]
    BY Zenon, <1>9, LineDoes
  <2>4. /\ d.buf = x /\ d.eof = c.eof /\ d.has = c.has /\ d.length = c.length
        /\ d.state = "body" /\ d.status = c.status
    BY <2>3 DEF ConnType
  <2>5. Holds(d, r, h, a)
    BY Zenon, <1>1, <1>2, <2>2, <2>4 DEF Holds
  <2>6. /\ z = -1 => q \in {3, 6}
        /\ z # -1 => q = 9
    BY <1>9
  <2>7. Knows(d, r, h)
    BY Zenon, <1>4, <1>6, <1>9, <2>1, <2>4, <2>6 DEF Knows
  <2> QED
    BY Zenon, <1>1, <2>4, <2>5, <2>7
<1>10. ComesNext(c, r, q, a)
  BY Zenon, NextLine
<1> QED
  BY Zenon, <1>1, <1>4, <1>5, <1>7, <1>8, <1>9, <1>10 DEF ComesNext

(* receive_response_headers(): a response that ends in its headers is       *)
(* broken.                                                                  *)
LEMMA CutOff ==
    ASSUME NEW r \in Resets \cup Moves, NEW c \in ConnType, NEW q, NEW a, Holds(c, r, q, a),
           Waiting(c), Knows(c, r, q), EndOfLine(c.buf) = {}, a = Len(r.sent)
    PROVE  Wanted(r).state = "broken" /\ c.status \in Wanted(r).status
<1>1. PICK h : h = HeadersOf(r.length)
  OBVIOUS
<1>2. /\ a \in Nat /\ h \in Nat /\ h >= 8
      /\ a < 3 \/ r.code = 0 => Wanted(r).state = "broken" /\ -1 \in Wanted(r).status
      /\ a >= 3 /\ r.code # 0 => /\ r.code \in Wanted(r).status
                                 /\ a < h => Wanted(r).state = "broken"
  BY Zenon, <1>1, WantedIs
<1>3. q \in Nat /\ q <= a
  BY Zenon DEF Holds
<1>4. \/ c.state = "waiting" /\ ~(a >= 3)
      \/ c.state = "headers" /\ q = 3 /\ ~(a >= 6)
      \/ c.state = "headers" /\ q = 6 /\ ~(a >= 9) /\ r.length # -1
      \/ c.state = "headers" /\ q = (IF r.length = -1 THEN 6 ELSE 9) /\ ~(a >= h)
  <2>1. ComesNext(c, r, q, a)
    BY Zenon, NextLine
  <2> QED
    BY Zenon, <1>1, <2>1 DEF ComesNext
<1>5. CASE c.state = "waiting" /\ ~(a >= 3)
  <2>1. c.status = -1
    BY Zenon, <1>5 DEF Knows
  <2>2. a < 3
    BY <1>2, <1>5
  <2> QED
    BY Zenon, <1>2, <2>1, <2>2
<1>6. CASE c.state = "headers"
  <2>1. c.status = r.code /\ r.code # 0
    BY Zenon, <1>6 DEF Knows
  <2>2. a >= 3 /\ a < h
    <3>1. r.length # -1 => h = 11
      BY <1>1 DEF HeadersOf
    <3> QED
      BY <1>2, <1>3, <1>4, <1>6, <3>1
  <2> QED
    BY Zenon, <1>2, <2>1, <2>2
<1> QED
  BY Zenon, <1>4, <1>5, <1>6

(* Knows() is about these parts of a connection. *)
LEMMA SameKnows ==
    ASSUME NEW r, NEW q, NEW c, NEW d, Knows(c, r, q), d.state = c.state, d.status = c.status,
           d.has = c.has, d.length = c.length
    PROVE  Knows(d, r, q)
BY Zenon DEF Knows

(* read(2) appends a piece of what is left, or finds the end. *)
Grown(c, d, x) == d = [c EXCEPT !.buf = c.buf \o x]
Ended(c, d) == d = [c EXCEPT !.eof = TRUE]
Same(c, d) == /\ d.state = c.state /\ d.status = c.status
              /\ d.has = c.has /\ d.length = c.length
Arrived(c, d, r, q, a, left, n) ==
    /\ Holds(d, r, q, a + n)
    /\ SubSeq(left, n + 1, Len(left)) = SubSeq(r.sent, (a + n) + 1, Len(r.sent))
    /\ Same(c, d) /\ d.eof = c.eof

LEMMA PieceArrives ==
    ASSUME NEW r \in Resets \cup Moves, NEW c \in ConnType, NEW q, NEW a, Holds(c, r, q, a),
           ~c.eof, NEW left, left = SubSeq(r.sent, a + 1, Len(r.sent)), NEW n \in 1..Len(left),
           NEW d, Grown(c, d, SubSeq(left, 1, n))
    PROVE  Arrived(c, d, r, q, a, left, n)
<1>1. PICK s, o : s = r.sent /\ o = Len(r.sent)
  OBVIOUS
<1>2. /\ s \in Seq(Symbols) /\ q \in Nat /\ a \in Nat /\ q <= a /\ a <= o /\ o = Len(s)
      /\ c.buf = SubSeq(s, q + 1, a)
  BY Zenon, <1>1, ResponseIs DEF Holds
<1>3. left = SubSeq(s, a + 1, o) /\ Len(left) = o - a /\ o \in Nat /\ o <= Len(s)
  <2>1. o \in Nat /\ o <= Len(s)
    BY <1>2
  <2>2. left = SubSeq(s, a + 1, o)
    BY Zenon, <1>1
  <2>3. Len(SubSeq(s, a + 1, o)) = o - a
    BY <1>2, <2>1, PieceOf
  <2> QED
    BY Zenon, <2>1, <2>2, <2>3
<1>4. /\ n \in Nat /\ n <= o - a /\ a + n \in Nat /\ a + n <= o /\ q <= a + n /\ a <= a + n
      /\ o - a \in Nat /\ o - a <= o - a /\ a + (o - a) = o /\ 0 <= n
  <2>1. a \in Nat /\ o \in Nat /\ q \in Nat /\ q <= a /\ a <= o /\ n \in 1..o - a
    BY Zenon, <1>2, <1>3
  <2> QED
    BY <2>1
<1>5. SubSeq(left, 1, n) = SubSeq(s, a + 1, a + n)
  <2>1. PieceIn(s, a, o, 0, n)
    <3>1. /\ s \in Seq(Symbols) /\ a \in Nat /\ o \in Nat /\ a <= o /\ o <= Len(s)
          /\ 0 \in Nat /\ n \in Nat /\ 0 <= n /\ n <= o - a
      BY Zenon, <1>2, <1>3, <1>4
    <3> QED
      BY <3>1, PieceOfPiece
  <2>2. 0 + 1 = 1 /\ a + 0 + 1 = a + 1
    BY <1>2
  <2> QED
    BY Zenon, <1>3, <2>1, <2>2 DEF PieceIn
<1>6. SubSeq(left, n + 1, Len(left)) = SubSeq(s, (a + n) + 1, o)
  <2>1. PieceIn(s, a, o, n, o - a)
    <3>1. /\ s \in Seq(Symbols) /\ a \in Nat /\ o \in Nat /\ a <= o /\ o <= Len(s)
          /\ o - a \in Nat /\ n \in Nat /\ n <= o - a /\ o - a <= o - a
      BY Zenon, <1>2, <1>3, <1>4
    <3> QED
      BY <3>1, PieceOfPiece
  <2> QED
    BY Zenon, <1>3, <1>4, <2>1 DEF PieceIn
<1>7. c.buf \o SubSeq(left, 1, n) = SubSeq(s, q + 1, a + n)
  <2>1. SubSeq(s, q + 1, a) \o SubSeq(s, a + 1, a + n) = SubSeq(s, q + 1, a + n)
    <3>1. /\ s \in Seq(Symbols) /\ q \in Nat /\ a \in Nat /\ a + n \in Nat /\ q <= a
          /\ a <= a + n /\ a + n <= Len(s)
      BY Zenon, <1>2, <1>4
    <3> QED
      BY <3>1, JoinPieces
  <2> QED
    BY Zenon, <1>2, <1>5, <2>1
<1>8. PICK b : b = c.buf \o SubSeq(left, 1, n)
  OBVIOUS
<1>9. d = [c EXCEPT !.buf = b]
  BY Zenon, <1>8 DEF Grown
<1>10. /\ d.buf = b /\ d.state = c.state /\ d.status = c.status /\ d.has = c.has
       /\ d.length = c.length /\ d.eof = c.eof
  BY <1>9 DEF ConnType
<1>11. Holds(d, r, q, a + n)
  BY Zenon, <1>1, <1>2, <1>4, <1>7, <1>8, <1>10 DEF Holds
<1> QED
  BY Zenon, <1>1, <1>6, <1>10, <1>11 DEF Arrived, Same

(* read(2) returns 0 when the connection has ended. *)
LEMMA EofArrives ==
    ASSUME NEW r \in Resets \cup Moves, NEW c \in ConnType, NEW q, NEW a, Holds(c, r, q, a),
           NEW left, left = SubSeq(r.sent, a + 1, Len(r.sent)), left = <<>>, r.closes,
           NEW d, Ended(c, d)
    PROVE  Holds(d, r, q, a) /\ d.buf = c.buf /\ d.eof = TRUE /\ Same(c, d)
<1>1. PICK s, o : s = r.sent /\ o = Len(r.sent)
  OBVIOUS
<1>2. /\ s \in Seq(Symbols) /\ q \in Nat /\ a \in Nat /\ q <= a /\ a <= o /\ o = Len(s)
      /\ c.buf = SubSeq(s, q + 1, a)
  BY Zenon, <1>1, ResponseIs DEF Holds
<1>3. a = o
  <2>1. o \in Nat /\ o <= Len(s)
    BY <1>2
  <2>2. Len(SubSeq(s, a + 1, o)) = o - a
    BY <1>2, <2>1, PieceOf
  <2>3. SubSeq(s, a + 1, o) = <<>>
    BY Zenon, <1>1
  <2>4. o - a = 0
    BY <2>2, <2>3
  <2> QED
    BY <1>2, <2>1, <2>4
<1>4. /\ d.buf = c.buf /\ d.eof = TRUE
      /\ d.state = c.state /\ d.status = c.status /\ d.has = c.has /\ d.length = c.length
  BY DEF ConnType, Ended
<1>5. Holds(d, r, q, a)
  BY Zenon, <1>1, <1>2, <1>3, <1>4 DEF Holds
<1> QED
  BY Zenon, <1>4, <1>5 DEF Same

(* What ResponseRight says of a response that is over. *)
Right(c, w) ==
    /\ c.status \in w.status /\ c.state = w.state
    /\ w.state # "broken" => /\ IsPrefix(c.buf, w.body)
                             /\ Len(c.buf) >= c.length
                             /\ w.state = "closed" => c.buf = w.body

(* A connection in receive_response_body(). *)
InBody(c, r, q) ==
    \/ c.state = "body" /\ Knows(c, r, q) /\ (c.eof /\ c.has => Len(c.buf) < c.length)
    \/ c.state = "broken" /\ Wanted(r).state = "broken" /\ c.status \in Wanted(r).status

LEMMA PieceIsPrefix ==
    ASSUME NEW S, NEW d \in Seq(S), NEW m \in Nat, NEW n \in Nat, NEW o \in Nat,
           m <= n, n <= o, o <= Len(d)
    PROVE  IsPrefix(SubSeq(d, m + 1, n), SubSeq(d, m + 1, o))
<1>1. PICK x, y : x = SubSeq(d, m + 1, n) /\ y = SubSeq(d, m + 1, o)
  OBVIOUS
<1>2. n <= Len(d) /\ m <= o /\ n - m \in Nat /\ n - m <= n - m /\ n - m <= o - m /\ 0 <= n - m
      /\ 0 \in Nat /\ 0 + 1 = 1 /\ m + 0 + 1 = m + 1 /\ m + (n - m) = n
  OBVIOUS
<1>3. Len(x) = n - m /\ Len(y) = o - m
  BY <1>1, <1>2, PieceOf
<1>4. PieceIn(d, m, n, 0, n - m) /\ PieceIn(d, m, o, 0, n - m)
  BY <1>2, PieceOfPiece
<1>5. SubSeq(x, 1, n - m) = SubSeq(d, m + 1, n) /\ SubSeq(y, 1, n - m) = SubSeq(d, m + 1, n)
  BY Zenon, <1>1, <1>2, <1>4 DEF PieceIn
<1>6. SubSeq(x, 1, Len(x)) = SubSeq(y, 1, Len(x)) /\ Len(x) <= Len(y)
  BY Zenon, <1>2, <1>3, <1>5
<1> QED
  BY Zenon, <1>1, <1>6 DEF IsPrefix

(* check_response_body() goes on reading just as long as more must come,    *)
(* and what it leaves is what the server sent.                              *)
LEMMA BodyJudged ==
    ASSUME NEW r \in Resets \cup Moves, NEW c \in ConnType, NEW q, NEW a, Holds(c, r, q, a),
           InBody(c, r, q), NEW d, d = IF c.state = "broken" THEN c ELSE CheckBody(c)
    PROVE  \/ /\ d.state = "body" /\ c.state = "body" /\ d.eof = FALSE /\ c.eof = FALSE
              /\ d.has => Len(d.buf) < d.length
              /\ d.buf = c.buf /\ d.status = c.status /\ d.has = c.has /\ d.length = c.length
           \/ d.state # "body" /\ Right(d, Wanted(r))
<1>1. CASE c.state = "broken"
  <2>1. d = c
    BY Zenon, <1>1
  <2>2. Wanted(r).state = "broken" /\ c.status \in Wanted(r).status /\ "broken" # "body"
    BY Zenon, <1>1 DEF InBody
  <2> QED
    BY Zenon, <1>1, <2>1, <2>2 DEF Right
<1>2. CASE c.state # "broken"
  <2>1. c.state = "body" /\ Knows(c, r, q) /\ (c.eof /\ c.has => Len(c.buf) < c.length)
    BY Zenon, <1>2 DEF InBody
  <2>2. PICK h, n, s, z, b : /\ h = HeadersOf(r.length) /\ n = Len(r.sent) /\ s = r.sent
                             /\ z = r.length /\ b = c.buf
    OBVIOUS
  <2>3. /\ q = h /\ c.status = r.code /\ r.code # 0
        /\ z = -1 => c.has = FALSE /\ c.length = 0
        /\ z # -1 => c.has = TRUE /\ c.length = z
    BY Zenon, <2>1, <2>2 DEF Knows
  <2>4. /\ h \in Nat /\ a \in Nat /\ h <= a /\ a <= n /\ b = SubSeq(s, h + 1, a)
        /\ c.eof => a = n
    BY Zenon, <2>2, <2>3 DEF Holds
  <2>5. s \in Seq(Symbols) /\ z \in Nat \cup {-1} /\ n = Len(s)
    BY Zenon, <2>2, ResponseIs
  <2>6. Len(b) = a - h /\ n \in Nat
    <3>1. n \in Nat
      BY <2>5
    <3>2. Len(SubSeq(s, h + 1, a)) = a - h
      BY <2>4, <2>5, PieceOf
    <3> QED
      BY Zenon, <2>4, <3>1, <3>2
  <2>7. n >= 3 /\ n >= h
    <3>1. h >= 8
      BY Zenon, <2>2, WantedIs
    <3> QED
      BY <2>4, <2>6, <3>1
  <2>8. PICK w : w = Wanted(r)
    OBVIOUS
  <2>9. /\ r.code \in w.status
        /\ z # -1 /\ n - h < z => w.state = "broken"
        /\ z = -1 => w.state = "closed" /\ w.body = SubSeq(s, h + 1, n)
        /\ z # -1 /\ n - h >= z => w.state = "idle" /\ w.body = SubSeq(s, h + 1, n)
    BY ZenonT(60), <2>2, <2>3, <2>7, <2>8, WantedIs
  <2>10. IsPrefix(b, SubSeq(s, h + 1, n))
    <3>1. n <= Len(s)
      BY <2>5, <2>6
    <3> QED
      BY Zenon, <2>4, <2>5, <2>6, <3>1, PieceIsPrefix
  <2>11. PICK x : x = IF (c.has \/ c.eof) /\ Len(b) >= c.length THEN "idle" ELSE "body"
    OBVIOUS
  <2>12. PICK y : y = IF ~c.eof THEN x ELSE IF x \in {"idle", "closed"} THEN "closed" ELSE "broken"
    OBVIOUS
  <2>13. d = [c EXCEPT !.state = y]
    <3>1. (c.state = "body" /\ (c.has \/ c.eof) /\ Len(c.buf) >= c.length)
            <=> ((c.has \/ c.eof) /\ Len(b) >= c.length)
      BY Zenon, <2>1, <2>2
    <3> QED
      BY Zenon, <1>2, <2>1, <2>11, <2>12, <3>1 DEF CheckBody
  <2>14. /\ d.state = y /\ d.buf = b /\ d.status = c.status /\ d.has = c.has
         /\ d.length = c.length /\ d.eof = c.eof
    <3> HIDE DEF Knows
    <3> QED
      BY <2>2, <2>13 DEF ConnType
  <2>15. c.eof \in BOOLEAN /\ c.has \in BOOLEAN /\ c.length \in Int
    BY DEF ConnType
  <2>16. CASE c.eof = FALSE /\ ~(c.has = TRUE /\ Len(b) >= c.length)
    <3>1. y = "body"
      BY Zenon, <2>11, <2>12, <2>15, <2>16
    <3>2. c.has = TRUE => Len(b) < c.length
      BY <2>4, <2>6, <2>15, <2>16
    <3> QED
      BY Zenon, <2>1, <2>2, <2>14, <2>15, <2>16, <3>1, <3>2
  <2>17. CASE c.eof = FALSE /\ c.has = TRUE /\ Len(b) >= c.length
    <3>1. y = "idle"
      BY Zenon, <2>11, <2>12, <2>17
    <3>2. z # -1 /\ c.length = z
      BY Zenon, <2>3, <2>17
    <3>3. n - h >= z
      BY <2>4, <2>5, <2>6, <2>17, <3>2
    <3>4. w.state = "idle" /\ w.body = SubSeq(s, h + 1, n)
      BY Zenon, <2>9, <3>2, <3>3
    <3>5. "idle" # "body" /\ "idle" # "closed"
      OBVIOUS
    <3> QED
      BY Zenon, <2>3, <2>8, <2>9, <2>10, <2>14, <2>17, <3>1, <3>4, <3>5 DEF Right
  <2>18. CASE c.eof = TRUE /\ c.has = TRUE
    <3>1. Len(b) < c.length
      BY Zenon, <2>1, <2>2, <2>18
    <3>2. z # -1 /\ c.length = z
      BY Zenon, <2>3, <2>18
    <3>3. n - h < z /\ ~(Len(b) >= c.length)
      BY <2>4, <2>5, <2>6, <2>18, <3>1, <3>2
    <3>4. x = "body" /\ "body" \notin {"idle", "closed"} /\ "broken" # "body"
      BY Zenon, <2>11, <3>3
    <3>5. y = "broken" /\ w.state = "broken"
      BY Zenon, <2>9, <2>12, <2>18, <3>2, <3>3, <3>4
    <3> QED
      BY Zenon, <2>3, <2>8, <2>9, <2>14, <3>4, <3>5 DEF Right
  <2>19. CASE c.eof = TRUE /\ c.has = FALSE
    <3>1. z = -1 /\ c.length = 0 /\ a = n
      BY Zenon, <2>3, <2>4, <2>19
    <3>2. Len(b) >= c.length
      BY <2>4, <2>6, <3>1
    <3>3. x = "idle"
      BY Zenon, <2>11, <2>19, <3>2
    <3>4. y = "closed"
      BY Zenon, <2>12, <2>19, <3>3
    <3>5. w.state = "closed" /\ w.body = b /\ "closed" # "body"
      BY Zenon, <2>4, <2>9, <3>1
    <3>6. IsPrefix(b, w.body)
      BY Zenon, <2>9, <2>10, <3>1
    <3> QED
      BY Zenon, <2>3, <2>8, <2>9, <2>14, <3>2, <3>4, <3>5, <3>6 DEF Right
  <2> QED
    BY Zenon, <2>15, <2>16, <2>17, <2>18, <2>19
<1> QED
  BY Zenon, <1>1, <1>2

(* The exchange of a thread at place l, over connection c, of response w.   *)
Exchange(l, c, w) ==
    LET r == w.response  Left(a) == w.left = SubSeq(r.sent, a + 1, Len(r.sent)) IN
    /\ r \in Resets \cup Moves /\ w.closes = r.closes
    /\ l = "headers" => \E q, a : /\ Holds(c, r, q, a) /\ Left(a) /\ Knows(c, r, q)
                                  /\ c.eof => Waiting(c) /\ EndOfLine(c.buf) = {}
    /\ l = "body" => \E q, a : Holds(c, r, q, a) /\ Left(a) /\ InBody(c, r, q)
    /\ l = "judge" => Right(c, Wanted(r))
Exchanging == {"headers", "body", "judge"}
RInv == IInv /\ \A t \in Threads : thread[t] \in Exchanging => Exchange(thread[t], conn[t], wire[t])

(* A step of one thread leaves the exchanges of the others alone. *)
LEMMA OneExchange ==
    ASSUME RInv, IInv', NEW t \in Threads,
           \A u \in Threads \ {t} : thread'[u] = thread[u] /\ conn'[u] = conn[u] /\ wire'[u] = wire[u],
           thread'[t] \in Exchanging => Exchange(thread'[t], conn'[t], wire'[t])
    PROVE  RInv'
<1>1. ASSUME NEW u \in Threads, thread'[u] \in Exchanging
      PROVE  Exchange(thread'[u], conn'[u], wire'[u])
  <2>1. CASE u = t
    BY Zenon, <1>1, <2>1
  <2>2. CASE u # t
    <3>1. u \in Threads \ {t}
      BY Zenon, <2>2
    <3>2. thread'[u] = thread[u] /\ conn'[u] = conn[u] /\ wire'[u] = wire[u]
      BY Zenon, <3>1
    <3> QED
      BY Zenon, <1>1, <3>2 DEF RInv
  <2> QED
    BY Zenon, <2>1, <2>2
<1> QED
  BY Zenon, <1>1 DEF RInv, Exchanging

LEMMA HeadersRead ==
    ASSUME NEW c \in ConnType, NEW w, NEW d, Exchange("headers", c, w), Waiting(c), ~c.eof,
           EndOfLine(c.buf) = {}
    PROVE  /\ \A n \in 1..Len(w.left) :
                Grown(c, d, SubSeq(w.left, 1, n)) =>
                  \A v : v.response = w.response /\ v.closes = w.closes
                         /\ v.left = SubSeq(w.left, n + 1, Len(w.left)) => Exchange("headers", d, v)
           /\ w.left = <<>> /\ w.closes /\ Ended(c, d) => Exchange("headers", d, w)
<1>1. PICK r : r = w.response
  OBVIOUS
<1>2. r \in Resets \cup Moves /\ w.closes = r.closes
  BY Zenon, <1>1 DEF Exchange
<1>3. PICK q, a : /\ Holds(c, r, q, a) /\ w.left = SubSeq(r.sent, a + 1, Len(r.sent))
                  /\ Knows(c, r, q)
  BY Zenon, <1>1 DEF Exchange
<1>4. ASSUME NEW n \in 1..Len(w.left), Grown(c, d, SubSeq(w.left, 1, n)), NEW v, v.response = w.response, v.closes = w.closes,
             v.left = SubSeq(w.left, n + 1, Len(w.left))
      PROVE  Exchange("headers", d, v)
  <2>1. Arrived(c, d, r, q, a, w.left, n)
    BY Zenon, <1>2, <1>3, <1>4, PieceArrives
  <2>2. Knows(d, r, q)
    BY Zenon, <1>3, <2>1, SameKnows DEF Arrived, Same
  <2>3. "headers" # "body" /\ "headers" # "judge"
    OBVIOUS
  <2> QED
    BY Zenon, <1>1, <1>2, <1>4, <2>1, <2>2, <2>3 DEF Exchange, Arrived
<1>5. ASSUME w.left = <<>>, w.closes, Ended(c, d)
      PROVE  Exchange("headers", d, w)
  <2>1. Holds(d, r, q, a) /\ d.buf = c.buf /\ d.eof = TRUE /\ Same(c, d)
    BY Zenon, <1>2, <1>3, <1>5, EofArrives
  <2>2. Knows(d, r, q)
    BY Zenon, <1>3, <2>1, SameKnows DEF Same
  <2>3. Waiting(d) /\ EndOfLine(d.buf) = {}
    BY Zenon, <2>1 DEF Waiting, Same
  <2>4. "headers" # "body" /\ "headers" # "judge"
    OBVIOUS
  <2> QED
    BY Zenon, <1>1, <1>2, <1>3, <2>1, <2>2, <2>3, <2>4 DEF Exchange
<1> QED
  BY Zenon, <1>4, <1>5

LEMMA HeadersConsume ==
    ASSUME NEW c \in ConnType, NEW w, Exchange("headers", c, w), Waiting(c), EndOfLine(c.buf) # {}
    PROVE  Exchange("headers", Consumed(c), w)
<1>1. PICK r : r = w.response
  OBVIOUS
<1>2. r \in Resets \cup Moves /\ w.closes = r.closes
  BY Zenon, <1>1 DEF Exchange
<1>3. PICK q, a : /\ Holds(c, r, q, a) /\ w.left = SubSeq(r.sent, a + 1, Len(r.sent))
                  /\ Knows(c, r, q) /\ ~c.eof
  BY Zenon, <1>1 DEF Exchange
<1>4. \E p : /\ Holds(Consumed(c), r, p, a) /\ Knows(Consumed(c), r, p)
             /\ Consumed(c).eof = c.eof
  BY Zenon, <1>2, <1>3, ConsumedKnows
<1>5. "headers" # "body" /\ "headers" # "judge"
  OBVIOUS
<1> QED
  BY Zenon, <1>1, <1>2, <1>3, <1>4, <1>5 DEF Exchange

LEMMA HeadersOver ==
    ASSUME NEW c \in ConnType, NEW w, Exchange("headers", c, w), ~Waiting(c) \/ c.eof,
           NEW d, d = [c EXCEPT !.state = IF c.eof THEN "broken" ELSE c.state]
    PROVE  Exchange("body", d, w)
<1>1. PICK r : r = w.response
  OBVIOUS
<1>2. r \in Resets \cup Moves /\ w.closes = r.closes
  BY Zenon, <1>1 DEF Exchange
<1>3. PICK q, a : /\ Holds(c, r, q, a) /\ w.left = SubSeq(r.sent, a + 1, Len(r.sent))
                  /\ Knows(c, r, q) /\ (c.eof => Waiting(c) /\ EndOfLine(c.buf) = {})
  BY Zenon, <1>1 DEF Exchange
<1>4. /\ d.state = IF c.eof THEN "broken" ELSE c.state
      /\ d.buf = c.buf /\ d.eof = c.eof /\ d.status = c.status /\ d.has = c.has
      /\ d.length = c.length
  <2>1. PICK x : x = IF c.eof THEN "broken" ELSE c.state
    OBVIOUS
  <2>2. d = [c EXCEPT !.state = x]
    BY Zenon, <2>1
  <2> QED
    BY <2>1, <2>2 DEF ConnType
<1>5. Holds(d, r, q, a)
  BY Zenon, <1>3, <1>4 DEF Holds
<1>6. InBody(d, r, q)
  <2>1. CASE c.eof
    <3>1. Wanted(r).state = "broken" /\ c.status \in Wanted(r).status
      <4>1. a = Len(r.sent)
        BY Zenon, <1>3, <2>1 DEF Holds
      <4> QED
        BY Zenon, <1>2, <1>3, <2>1, <4>1, CutOff
    <3> QED
      BY Zenon, <1>4, <2>1, <3>1 DEF InBody
  <2>2. CASE ~c.eof
    <3>1. d.state = c.state /\ Knows(d, r, q)
      BY ZenonT(60), <1>3, <1>4, <2>2, SameKnows
    <3>2. c.state \notin {"waiting", "headers"}
      BY Zenon, <2>2 DEF Waiting
    <3>3. \/ d.state = "body"
          \/ d.state = "broken" /\ r.code = 0 /\ d.status = -1
      BY Zenon, <3>1, <3>2 DEF Knows
    <3>4. r.code = 0 => Wanted(r).state = "broken" /\ -1 \in Wanted(r).status
      BY Zenon, <1>2, WantedIs
    <3> QED
      BY Zenon, <1>4, <2>2, <3>1, <3>3, <3>4 DEF InBody
  <2> QED
    BY Zenon, <2>1, <2>2
<1>7. "body" # "headers" /\ "body" # "judge"
  OBVIOUS
<1> QED
  BY Zenon, <1>1, <1>2, <1>3, <1>5, <1>6, <1>7 DEF Exchange

(* check_response_body() ends the reception, or read(2) goes on.            *)
LEMMA BodyOver ==
    ASSUME NEW c, NEW w, c \in ConnType, Exchange("body", c, w),
           NEW d, d = IF c.state = "broken" THEN c ELSE CheckBody(c), d.state # "body"
    PROVE  Exchange("judge", d, w)
<1>1. PICK r : r = w.response
  OBVIOUS
<1>2. r \in Resets \cup Moves /\ w.closes = r.closes
  BY Zenon, <1>1 DEF Exchange
<1>3. PICK q, a : Holds(c, r, q, a) /\ InBody(c, r, q)
  BY Zenon, <1>1 DEF Exchange
<1>4. Right(d, Wanted(r))
  BY Zenon, <1>2, <1>3, BodyJudged
<1>5. "judge" # "headers" /\ "judge" # "body"
  OBVIOUS
<1> QED
  BY Zenon, <1>1, <1>2, <1>4, <1>5 DEF Exchange

LEMMA BodyRead ==
    ASSUME NEW c \in ConnType, NEW w, Exchange("body", c, w),
           NEW d \in ConnType, d = IF c.state = "broken" THEN c ELSE CheckBody(c), d.state = "body",
           NEW e
    PROVE  /\ \A n \in 1..Len(w.left) :
                Grown(d, e, SubSeq(w.left, 1, n)) =>
                  \A v : v.response = w.response /\ v.closes = w.closes
                         /\ v.left = SubSeq(w.left, n + 1, Len(w.left)) => Exchange("body", e, v)
           /\ w.left = <<>> /\ w.closes /\ Ended(d, e) => Exchange("body", e, w)
<1>1. PICK r : r = w.response
  OBVIOUS
<1>2. r \in Resets \cup Moves /\ w.closes = r.closes
  BY Zenon, <1>1 DEF Exchange
<1>3. PICK q, a : /\ Holds(c, r, q, a) /\ w.left = SubSeq(r.sent, a + 1, Len(r.sent))
                  /\ InBody(c, r, q)
  BY Zenon, <1>1 DEF Exchange
<1>4. /\ c.state = "body" /\ d.eof = FALSE /\ c.eof = FALSE
      /\ d.has => Len(d.buf) < d.length
      /\ d.buf = c.buf /\ d.status = c.status /\ d.has = c.has /\ d.length = c.length
  BY Zenon, <1>2, <1>3, BodyJudged
<1>5. Holds(d, r, q, a) /\ Knows(d, r, q) /\ ~d.eof
  <2>1. ~d.eof
    BY <1>4
  <2>3. Holds(d, r, q, a)
    BY Zenon, <1>3, <1>4, <2>1 DEF Holds
  <2>2. Knows(c, r, q)
    <3>1. "body" # "broken"
      OBVIOUS
    <3> QED
      BY Zenon, <1>3, <1>4, <3>1 DEF InBody
  <2> QED
    BY Zenon, <1>4, <2>1, <2>2, <2>3, SameKnows
<1>6. "body" # "headers" /\ "body" # "judge"
  OBVIOUS
<1>7. ASSUME NEW n \in 1..Len(w.left), Grown(d, e, SubSeq(w.left, 1, n)), NEW v,
             v.response = w.response, v.closes = w.closes,
             v.left = SubSeq(w.left, n + 1, Len(w.left))
      PROVE  Exchange("body", e, v)
  <2>1. Arrived(d, e, r, q, a, w.left, n)
    BY Zenon, <1>2, <1>3, <1>4, <1>5, <1>7, PieceArrives
  <2>2. Knows(e, r, q)
    BY Zenon, <1>5, <2>1, SameKnows DEF Arrived, Same
  <2>3. InBody(e, r, q)
    <3>1. ~e.eof
      <4>1. e.eof = d.eof
        BY Zenon, <2>1 DEF Arrived
      <4> QED
        BY <1>5, <4>1
    <3>2. e.state = "body"
      BY Zenon, <2>1 DEF Arrived, Same
    <3> QED
      BY Zenon, <2>2, <3>1, <3>2 DEF InBody
  <2> QED
    BY Zenon, <1>1, <1>2, <1>6, <1>7, <2>1, <2>3 DEF Exchange, Arrived
<1>8. ASSUME w.left = <<>>, w.closes, Ended(d, e)
      PROVE  Exchange("body", e, w)
  <2>1. Holds(e, r, q, a) /\ e.buf = d.buf /\ Same(d, e)
    BY ZenonT(60), <1>2, <1>3, <1>5, <1>8, EofArrives
  <2>2. Knows(e, r, q)
    BY Zenon, <1>5, <2>1, SameKnows DEF Same
  <2>3. InBody(e, r, q)
    <3>1. e.state = "body" /\ e.has = d.has /\ e.length = d.length
      BY Zenon, <2>1 DEF Same
    <3>2. e.has => Len(e.buf) < e.length
      <4>1. d.has => Len(d.buf) < d.length
        BY Zenon, <1>4
      <4> QED
        BY <2>1, <3>1, <4>1
    <3> QED
      BY Zenon, <2>2, <3>1, <3>2 DEF InBody
  <2> QED
    BY Zenon, <1>1, <1>2, <1>3, <1>6, <2>1, <2>3 DEF Exchange
<1> QED
  BY Zenon, <1>7, <1>8

(* All of the response is still to come when a request has been sent.       *)
LEMMA Begun ==
    ASSUME NEW r \in Resets \cup Moves, NEW c, c = [Unused EXCEPT !.state = "waiting"], NEW w,
           w = [left |-> r.sent, sent |-> r.sent, closes |-> r.closes, response |-> r]
    PROVE  Exchange("headers", c, w)
<1>1. PICK s, k : s = r.sent /\ k = r.closes
  OBVIOUS
<1>2. s \in Seq(Symbols)
  BY Zenon, <1>1, ResponseIs
<1>3. w.left = s /\ w.closes = k /\ w.response = r
  <2>1. w = [left |-> s, sent |-> s, closes |-> k, response |-> r]
    BY Zenon, <1>1
  <2> QED
    BY <2>1
<1>4. /\ c.state = "waiting" /\ c.status = -1 /\ c.length = 0 /\ c.has = FALSE /\ ~c.eof
      /\ c.buf = <<>>
  BY DEF Unused
<1>5. SubSeq(s, 0 + 1, 0) = <<>> /\ s = SubSeq(s, 0 + 1, Len(s)) /\ 0 <= Len(s) /\ 0 \in Nat /\ 0 <= 0
  <2>1. SubSeq(s, 1, 0) = <<>>
    BY <1>2
  <2>2. s = SubSeq(s, 1, Len(s))
    BY <1>2
  <2>3. 0 + 1 = 1 /\ 0 <= Len(s) /\ 0 \in Nat /\ 0 <= 0
    BY <1>2
  <2> QED
    BY Zenon, <2>1, <2>2, <2>3
<1>6. Holds(c, r, 0, 0) /\ Knows(c, r, 0)
  <2>1. Holds(c, r, 0, 0)
    BY Zenon, <1>1, <1>4, <1>5 DEF Holds
  <2>2. Knows(c, r, 0)
    BY Zenon, <1>4 DEF Knows
  <2> QED
    BY <2>1, <2>2
<1>7. "headers" # "body" /\ "headers" # "judge"
  OBVIOUS
<1> QED
  BY Zenon, <1>1, <1>3, <1>4, <1>5, <1>6, <1>7 DEF Exchange

------------------------------------------------------------------------------
(* What each step does to the exchanges.                                    *)

LEMMA ReadDoes ==
    ASSUME Typed, NEW t \in Threads, NEW c, Read(t, c)
    PROVE  /\ \A u \in Threads \ {t} : conn'[u] = conn[u] /\ wire'[u] = wire[u]
           /\ \/ \E n \in 1..Len(wire[t].left) :
                   /\ Grown(c, conn'[t], SubSeq(wire[t].left, 1, n))
                   /\ wire'[t].response = wire[t].response /\ wire'[t].closes = wire[t].closes
                   /\ wire'[t].left = SubSeq(wire[t].left, n + 1, Len(wire[t].left))
              \/ /\ wire[t].left = <<>> /\ wire[t].closes /\ Ended(c, conn'[t])
                 /\ wire'[t] = wire[t]
<1>1. conn \in [Threads -> ConnType] /\ wire \in [Threads -> WireType]
  BY DEF Typed
<1>2. PICK l : l = wire[t].left
  OBVIOUS
<1>3. CASE \E n \in 1..Len(wire[t].left) :
             /\ conn' = [conn EXCEPT ![t] = [c EXCEPT !.buf = @ \o SubSeq(wire[t].left, 1, n)]]
             /\ wire' = [wire EXCEPT ![t].left = SubSeq(@, n + 1, Len(@))]
  <2>1. PICK n \in 1..Len(l) :
             /\ conn' = [conn EXCEPT ![t] = [c EXCEPT !.buf = c.buf \o SubSeq(l, 1, n)]]
             /\ wire' = [wire EXCEPT ![t].left = SubSeq(l, n + 1, Len(l))]
    BY Zenon, <1>2, <1>3
  <2>2. PICK e, y : e = [c EXCEPT !.buf = c.buf \o SubSeq(l, 1, n)] /\ y = SubSeq(l, n + 1, Len(l))
    OBVIOUS
  <2>3. conn' = [conn EXCEPT ![t] = e] /\ wire' = [wire EXCEPT ![t].left = y]
    BY Zenon, <2>1, <2>2
  <2>4. /\ conn'[t] = e /\ wire'[t].left = y
        /\ wire'[t].response = wire[t].response /\ wire'[t].closes = wire[t].closes
        /\ \A u \in Threads \ {t} : conn'[u] = conn[u] /\ wire'[u] = wire[u]
    BY <1>1, <2>3 DEF WireType
  <2> QED
    BY Zenon, <1>2, <2>2, <2>4 DEF Grown
<1>4. CASE /\ wire[t].left = <<>> /\ wire[t].closes
           /\ conn' = [conn EXCEPT ![t] = [c EXCEPT !.eof = TRUE]]
           /\ wire' = wire
  <2>1. PICK e : e = [c EXCEPT !.eof = TRUE]
    OBVIOUS
  <2>2. conn' = [conn EXCEPT ![t] = e]
    BY Zenon, <1>4, <2>1
  <2>3. conn'[t] = e /\ \A u \in Threads \ {t} : conn'[u] = conn[u]
    BY <1>1, <2>2
  <2> QED
    BY Zenon, <1>4, <2>1, <2>3 DEF Ended
<1> QED
  BY Zenon, <1>3, <1>4 DEF Read

LEMMA GotoDoes ==
    ASSUME Typed, NEW t \in Threads, NEW l, Goto(t, l)
    PROVE  thread'[t] = l /\ \A u \in Threads \ {t} : thread'[u] = thread[u]
BY DEF Typed, Goto

LEMMA SendAnswers ==
    ASSUME RInv, IInv', NEW t \in Threads, Send(t)
    PROVE  RInv'
<1>1. CASE ExitOne
  <2>1. UNCHANGED <<thread, conn, wire>>
    BY <1>1 DEF ExitOne
  <2> QED
    BY <2>1 DEF RInv
<1>2. CASE ~ExitOne
  <2>1. /\ conn' = [conn EXCEPT ![t] = [Unused EXCEPT !.state = "waiting"]]
        /\ Goto(t, "headers") /\ Typed
    BY Zenon, <1>2 DEF Send, RInv, IInv
  <2>2. PICK r \in Resets \cup Moves :
           wire' = [wire EXCEPT ![t] = [left |-> r.sent, sent |-> r.sent,
                                        closes |-> r.closes, response |-> r]]
    <3>1. \E r \in IF t = 0 THEN Resets ELSE Moves :
             wire' = [wire EXCEPT ![t] = [left |-> r.sent, sent |-> r.sent,
                                          closes |-> r.closes, response |-> r]]
      BY Zenon, <1>2 DEF Send
    <3>2. (IF t = 0 THEN Resets ELSE Moves) \subseteq Resets \cup Moves
      OBVIOUS
    <3> QED
      BY Zenon, <3>1, <3>2
  <2>3. PICK c, w : /\ c = [Unused EXCEPT !.state = "waiting"]
                    /\ w = [left |-> r.sent, sent |-> r.sent, closes |-> r.closes, response |-> r]
    OBVIOUS
  <2>4. conn' = [conn EXCEPT ![t] = c] /\ wire' = [wire EXCEPT ![t] = w]
    BY Zenon, <2>1, <2>2, <2>3
  <2>5. /\ conn'[t] = c /\ wire'[t] = w
        /\ \A u \in Threads \ {t} : conn'[u] = conn[u] /\ wire'[u] = wire[u]
    BY <2>1, <2>4 DEF Typed
  <2>6. Exchange("headers", c, w)
    BY Zenon, <2>3, Begun
  <2>7. thread'[t] = "headers" /\ \A u \in Threads \ {t} : thread'[u] = thread[u]
    BY Zenon, <2>1, GotoDoes
  <2> QED
    BY Zenon, <2>5, <2>6, <2>7, OneExchange
<1> QED
  BY <1>1, <1>2

LEMMA HeadersAnswer ==
    ASSUME RInv, IInv', NEW t \in Threads, ReceiveHeaders(t)
    PROVE  RInv'
<1>1. PICK c, w : c = conn[t] /\ w = wire[t]
  OBVIOUS
<1>2. Typed /\ c \in ConnType /\ Exchange("headers", c, w)
  <2>1. Typed /\ thread[t] = "headers"
    BY Zenon DEF RInv, IInv, ReceiveHeaders
  <2>2. c \in ConnType
    BY <1>1, <2>1 DEF Typed
  <2>3. Exchange(thread[t], conn[t], wire[t])
    BY Zenon, <2>1 DEF RInv, Exchanging
  <2> QED
    BY Zenon, <1>1, <2>1, <2>2, <2>3
<1>3. CASE /\ Waiting(c) /\ EndOfLine(c.buf) # {}
           /\ conn' = [conn EXCEPT ![t] = Consumed(c)]
           /\ UNCHANGED <<main, thread, wire>>
  <2>1. Exchange("headers", Consumed(c), w)
    BY Zenon, <1>2, <1>3, HeadersConsume
  <2>2. PICK e : e = Consumed(c)
    OBVIOUS
  <2>3. conn' = [conn EXCEPT ![t] = e]
    BY Zenon, <1>3, <2>2
  <2>4. conn'[t] = e /\ \A u \in Threads \ {t} : conn'[u] = conn[u]
    BY <1>2, <2>3 DEF Typed
  <2>5. thread' = thread /\ wire' = wire /\ thread[t] = "headers"
    BY Zenon, <1>3 DEF ReceiveHeaders
  <2> QED
    BY Zenon, <1>1, <2>1, <2>2, <2>4, <2>5, OneExchange
<1>4. CASE /\ Waiting(c) /\ EndOfLine(c.buf) = {} /\ ~c.eof
           /\ Read(t, c)
           /\ UNCHANGED <<main, thread>>
  <2>1. thread' = thread /\ thread[t] = "headers"
    BY Zenon, <1>4 DEF ReceiveHeaders
  <2>2. /\ \A u \in Threads \ {t} : conn'[u] = conn[u] /\ wire'[u] = wire[u]
        /\ \/ \E n \in 1..Len(w.left) :
                /\ Grown(c, conn'[t], SubSeq(w.left, 1, n))
                /\ wire'[t].response = w.response /\ wire'[t].closes = w.closes
                /\ wire'[t].left = SubSeq(w.left, n + 1, Len(w.left))
           \/ w.left = <<>> /\ w.closes /\ Ended(c, conn'[t]) /\ wire'[t] = w
    BY Zenon, <1>1, <1>2, <1>4, ReadDoes
  <2>3. Exchange("headers", conn'[t], wire'[t])
    BY ZenonT(60), <1>2, <1>4, <2>2, HeadersRead
  <2> QED
    BY Zenon, <2>1, <2>2, <2>3, OneExchange
<1>5. CASE /\ ~Waiting(c) \/ c.eof
           /\ conn' = [conn EXCEPT ![t].state = IF c.eof THEN "broken" ELSE @]
           /\ Goto(t, "body")
           /\ UNCHANGED wire
  <2>1. PICK d : d = [c EXCEPT !.state = IF c.eof THEN "broken" ELSE c.state]
    OBVIOUS
  <2>2. PICK x : x = IF c.eof THEN "broken" ELSE c.state
    OBVIOUS
  <2>3. conn' = [conn EXCEPT ![t].state = x] /\ d = [c EXCEPT !.state = x]
    BY Zenon, <1>1, <1>5, <2>1, <2>2
  <2>4. conn'[t] = d /\ \A u \in Threads \ {t} : conn'[u] = conn[u]
    BY <1>1, <1>2, <2>3 DEF Typed
  <2>5. Exchange("body", d, w)
    BY Zenon, <1>2, <1>5, <2>1, HeadersOver
  <2>6. thread'[t] = "body" /\ \A u \in Threads \ {t} : thread'[u] = thread[u]
    BY Zenon, <1>2, <1>5, GotoDoes
  <2> QED
    BY Zenon, <1>1, <1>5, <2>4, <2>5, <2>6, OneExchange
<1> QED
  BY Zenon, <1>1, <1>3, <1>4, <1>5 DEF ReceiveHeaders

LEMMA BodyAnswers ==
    ASSUME RInv, IInv', NEW t \in Threads, ReceiveBody(t)
    PROVE  RInv'
<1>1. PICK c, w, d : /\ c = conn[t] /\ w = wire[t]
                     /\ d = IF c.state = "broken" THEN c ELSE CheckBody(c)
  OBVIOUS
<1>2. /\ Typed /\ c \in ConnType /\ Exchange("body", c, w) /\ thread[t] = "body"
      /\ IF d.state = "body" THEN Read(t, d) /\ UNCHANGED thread
         ELSE conn' = [conn EXCEPT ![t] = d] /\ wire' = wire /\ Goto(t, "judge")
  <2>1. Typed /\ thread[t] = "body"
    BY Zenon DEF RInv, IInv, ReceiveBody
  <2>2. c \in ConnType
    BY <1>1, <2>1 DEF Typed
  <2>3. Exchange(thread[t], conn[t], wire[t])
    BY Zenon, <2>1 DEF RInv, Exchanging
  <2> QED
    BY Zenon, <1>1, <2>1, <2>2, <2>3 DEF ReceiveBody
<1>3. CASE d.state = "body"
  <2>1. d \in ConnType
    BY Zenon, <1>1, <1>2, CheckBodyTyped
  <2>2. /\ \A u \in Threads \ {t} : conn'[u] = conn[u] /\ wire'[u] = wire[u]
        /\ \/ \E n \in 1..Len(w.left) :
                /\ Grown(d, conn'[t], SubSeq(w.left, 1, n))
                /\ wire'[t].response = w.response /\ wire'[t].closes = w.closes
                /\ wire'[t].left = SubSeq(w.left, n + 1, Len(w.left))
           \/ w.left = <<>> /\ w.closes /\ Ended(d, conn'[t]) /\ wire'[t] = w
    BY Zenon, <1>1, <1>2, <1>3, ReadDoes
  <2>3. Exchange("body", conn'[t], wire'[t])
    BY ZenonT(60), <1>1, <1>2, <1>3, <2>1, <2>2, BodyRead
  <2>4. thread' = thread
    BY Zenon, <1>2, <1>3
  <2> QED
    BY Zenon, <1>2, <2>2, <2>3, <2>4, OneExchange
<1>4. CASE d.state # "body"
  <2>1. conn' = [conn EXCEPT ![t] = d] /\ wire' = wire /\ Goto(t, "judge")
    BY Zenon, <1>2, <1>4
  <2>2. conn'[t] = d /\ \A u \in Threads \ {t} : conn'[u] = conn[u]
    BY <1>2, <2>1 DEF Typed
  <2>3. Exchange("judge", d, w)
    BY Zenon, <1>1, <1>2, <1>4, BodyOver
  <2>4. thread'[t] = "judge" /\ \A u \in Threads \ {t} : thread'[u] = thread[u]
    BY Zenon, <1>2, <2>1, GotoDoes
  <2> QED
    BY Zenon, <1>1, <2>1, <2>2, <2>3, <2>4, OneExchange
<1> QED
  BY Zenon, <1>3, <1>4

(* The other steps take no part in an exchange, or end one. *)
LEMMA OtherSteps ==
    ASSUME RInv, IInv',
           \A u \in Threads : thread'[u] \in Exchanging =>
              thread'[u] = thread[u] /\ conn'[u] = conn[u] /\ wire'[u] = wire[u]
    PROVE  RInv'
<1>1. ASSUME NEW u \in Threads, thread'[u] \in Exchanging
      PROVE  Exchange(thread'[u], conn'[u], wire'[u])
  <2>1. thread'[u] = thread[u] /\ conn'[u] = conn[u] /\ wire'[u] = wire[u]
    BY Zenon, <1>1
  <2> QED
    BY Zenon, <1>1, <2>1 DEF RInv
<1> QED
  BY Zenon, <1>1 DEF RInv, Exchanging

LEMMA OtherThreads ==
    ASSUME RInv, IInv', NEW t \in Threads, NEW l, l \notin Exchanging, Goto(t, l),
           \A u \in Threads \ {t} : conn'[u] = conn[u] /\ wire'[u] = wire[u]
    PROVE  RInv'
<1>1. thread'[t] = l /\ \A u \in Threads \ {t} : thread'[u] = thread[u]
  BY Zenon, GotoDoes DEF RInv, IInv
<1> QED
  BY Zenon, <1>1, OneExchange

LEMMA JudgeDoes ==
    ASSUME Typed, NEW t \in Threads,
           conn' = [conn EXCEPT ![t] = Unused], wire' = [wire EXCEPT ![t] = Silent]
    PROVE  \A u \in Threads \ {t} : conn'[u] = conn[u] /\ wire'[u] = wire[u]
BY DEF Typed

LEMMA RInvInit == Init => RInv
<1> SUFFICES ASSUME Init PROVE RInv
  OBVIOUS
<1>1. \A t \in Threads : thread[t] \notin Exchanging
  BY DEF Init, Exchanging
<1> QED
  BY Zenon, <1>1, InitKeeps DEF RInv

LEMMA RInvStep == RInv /\ [Next]_clientVars => RInv'
<1> SUFFICES ASSUME RInv, [Next]_clientVars PROVE RInv'
  OBVIOUS
<1>1. Typed /\ IInv'
  BY Zenon, StepKeeps DEF RInv, IInv
<1>2. /\ "send" \notin Exchanging /\ "connect" \notin Exchanging /\ "signal" \notin Exchanging
      /\ "ended" \notin Exchanging
  BY DEF Exchanging
<1>3. ASSUME UNCHANGED <<thread, conn, wire>>
      PROVE  RInv'
  BY Zenon, <1>1, <1>3, OtherSteps
<1>4. ASSUME NEW t \in Threads, Client(t)
      PROVE  RInv'
  <2>1. CASE ExitOne
    BY Zenon, <1>3, <2>1 DEF ExitOne
  <2>2. CASE Connect(t) /\ ~ExitOne
    <3>1. Goto(t, "send") /\ UNCHANGED <<conn, wire>>
      BY Zenon, <2>2 DEF Connect
    <3> QED
      BY Zenon, <1>1, <1>2, <3>1, OtherThreads
  <2>3. CASE Send(t)
    BY Zenon, <1>1, <2>3, SendAnswers
  <2>4. CASE ReceiveHeaders(t)
    BY Zenon, <1>1, <2>4, HeadersAnswer
  <2>5. CASE ReceiveBody(t)
    BY Zenon, <1>1, <2>5, BodyAnswers
  <2>6. CASE JudgeMove(t) /\ ~ExitOne
    <3>1. /\ conn' = [conn EXCEPT ![t] = Unused] /\ wire' = [wire EXCEPT ![t] = Silent]
          /\ Goto(t, "signal")
      BY Zenon, <2>6 DEF JudgeMove
    <3>2. \A u \in Threads \ {t} : conn'[u] = conn[u] /\ wire'[u] = wire[u]
      BY Zenon, <1>1, <3>1, JudgeDoes
    <3> QED
      BY Zenon, <1>1, <1>2, <3>1, <3>2, OtherThreads
  <2>7. CASE Signal(t)
    <3>1. Goto(t, "ended") /\ UNCHANGED <<conn, wire>>
      BY Zenon, <2>7 DEF Signal
    <3> QED
      BY Zenon, <1>1, <1>2, <3>1, OtherThreads
  <2>8. CASE t = 0 /\ JudgeReset /\ ~ExitOne
    <3>1. /\ conn' = [conn EXCEPT ![t] = Unused] /\ wire' = [wire EXCEPT ![t] = Silent]
          /\ Goto(t, "ended")
      BY Zenon, <2>8 DEF JudgeReset
    <3>2. \A u \in Threads \ {t} : conn'[u] = conn[u] /\ wire'[u] = wire[u]
      BY Zenon, <1>1, <3>1, JudgeDoes
    <3> QED
      BY Zenon, <1>1, <1>2, <3>1, <3>2, OtherThreads
  <2> QED
    BY Zenon, <1>4, <2>1, <2>2, <2>3, <2>4, <2>5, <2>6, <2>7, <2>8 DEF Client
<1>5. ASSUME Spawn
      PROVE  RInv'
  <2>1. CASE ExitOne
    BY Zenon, <1>3, <2>1 DEF ExitOne
  <2>2. CASE ~ExitOne
    <3>1. PICK t \in Threads : Goto(t, "connect") /\ UNCHANGED <<conn, wire>>
      BY Zenon, <1>5, <2>2 DEF Spawn
    <3> QED
      BY Zenon, <1>1, <1>2, <3>1, OtherThreads
  <2> QED
    BY Zenon, <2>1, <2>2
<1>6. ASSUME Poll
      PROVE  RInv'
  BY Zenon, <1>3, <1>6 DEF Poll
<1>7. ASSUME Move
      PROVE  RInv'
  <2>1. UNCHANGED <<thread, conn, wire>>
    BY <1>7 DEF Move
  <2> QED
    BY Zenon, <1>3, <2>1
<1>8. ASSUME UNCHANGED clientVars
      PROVE  RInv'
  <2>1. UNCHANGED <<thread, conn, wire>>
    BY <1>8 DEF clientVars
  <2> QED
    BY Zenon, <1>3, <2>1
<1> QED
  BY Zenon, <1>4, <1>5, <1>6, <1>7, <1>8 DEF Next, Main

LEMMA AnswerRight == RInv => ResponseRight
<1> SUFFICES ASSUME RInv, NEW t \in Threads, thread[t] = "judge"
             PROVE  Right(conn[t], Wanted(wire[t].response))
  BY Zenon DEF ResponseRight, Right
<1>1. Exchange("judge", conn[t], wire[t])
  BY Zenon DEF RInv, Exchanging
<1> QED
  BY Zenon, <1>1 DEF Exchange

(* http_connection::receive_response_headers() and receive_response_body(): *)
(* for any responses and any way read(2) divides them, a thread that goes   *)
(* on to judge has the status the server sent and at least the announced    *)
(* part of the body, nothing that is not in it, and takes a response that   *)
(* was cut off for broken.                                                  *)
THEOREM ResponseRightHolds == Spec => []ResponseRight
<1>1. Init => RInv
  BY RInvInit
<1>2. RInv /\ [Next]_clientVars => RInv'
  BY RInvStep
<1>3. RInv => ResponseRight
  BY AnswerRight
<1> QED
  BY <1>1, <1>2, <1>3, PTL DEF Spec
=============================================================================
