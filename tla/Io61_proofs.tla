----------------------------- MODULE Io61_proofs -----------------------------
(***************************************************************************)
(* The buffer of io61.cc is coherent, and io61.cc implements FileStream,   *)
(* for any program of Io61Client, any files, buffer and pipe sizes.        *)
(***************************************************************************)
EXTENDS Io61Client, TLAPS

Memory == Bytes \cup {Junk}
FileType == [kind : Kinds, data : Seq(Bytes)]
StreamType ==
    [file : Files, mode : {"r", "w"}, proc : Procs, open : {"open", "closed", "lost"},
     off : Nat, sent : Nat, buf : [0..BufSize - 1 -> Memory], beg : Int, pos : Int, end : Int]
Ops == {"none", "read", "readc", "write", "writec", "flush", "seek", "close"}
CallType ==
    [op : Ops, stream : Streams, at : {"run", "flush", "done", "dead"}, want : Nat,
     left : Seq(Bytes), got : Seq(Bytes), ok : BOOLEAN]

Typed == /\ file \in [Files -> FileType]
         /\ str \in [Streams -> StreamType]
         /\ call \in [Procs -> CallType]

(* The tags of a stream, whatever its file, and the bytes between them. *)
Tags(t) ==
    /\ t.end - t.beg \in 0..BufSize /\ t.beg <= t.pos /\ t.sent \in 0..t.end - t.beg
    /\ \A i \in 0..t.end - t.beg - 1 : t.buf[i] \in Bytes
    /\ t.mode = "w" => t.pos = t.end

(* A stream for writing has sent a part of its buffer only to a pipe, and   *)
(* everything before it was closed.                                         *)
WriterRight(t, k) ==
    t.mode = "w" => /\ t.open = "closed" => t.beg = t.pos
                    /\ k # "pipe" => t.sent = 0

(* A stream for reading, of a file of kind k that holds d: BufferCoherent;  *)
(* the tags of io61_fdopen() are only there until the first seek, and a     *)
(* position beyond the buffer is one beyond the file.                       *)
Mirrors(t, d) == LET n == t.end - t.beg IN
    n > 0 => /\ t.off >= n /\ t.off <= Len(d)
             /\ \A i \in 1..n : t.buf[i - 1] = d[t.off - n + i]
ReaderRight(t, k, d) ==
    t.mode = "r" =>
      /\ t.sent = 0
      /\ k # "reg" => t.pos <= t.end
      /\ k # "pipe" =>
           /\ Len(d) <= -ASanTag
           /\ t.end = t.off \/ (t.end = t.off + ASanTag /\ t.off <= Len(d) /\ t.pos <= t.end)
           /\ t.pos > t.end => t.off >= Len(d)
           /\ Mirrors(t, d)

StreamRight(t, k, d) ==
    /\ Tags(t) /\ WriterRight(t, k) /\ ReaderRight(t, k, d)
    /\ k = "pipe" => t.off = 0 /\ Len(d) <= PipeSize
    /\ k = "bad" => t.mode = "r" /\ d = <<>>

(* Process p in call c, on stream t of a file of kind k. *)
Reads == {"read", "readc"}
Writes == {"write", "writec"}
CallRight(p, c, t, k) ==
    /\ c.at \in {"run", "flush"} => t.proc = p /\ t.open = "open" /\ c.ok = TRUE
    /\ c.at = "flush" => t.mode = "w" /\ c.op \in Writes \cup {"flush", "seek", "close"}
    /\ c.at = "run" =>
         /\ c.op \in IF t.mode = "r" THEN Reads \cup {"seek", "close"}
                     ELSE Writes \cup {"seek", "close"}
         /\ c.op \in Reads => Len(c.got) < c.want /\ t.pos <= t.end
         /\ c.op = "readc" => c.want = 1
         /\ c.op \in {"seek", "close"} /\ t.mode = "w" => t.beg = t.pos
         /\ c.op = "seek" /\ t.mode = "r" /\ k # "reg" => k # "pipe" /\ c.want = 0 /\ t.off = 0
    /\ c.at \in {"run", "flush"} /\ c.op \in Writes => c.left # <<>>

(* Only its owner, in io61_flush() or killed there, leaves a buffer sent in *)
(* part.                                                                    *)
SentRight(s, t, c) == t.sent # 0 => c.at = "dead" \/ (c.at = "flush" /\ c.stream = s)

Wired == \A s, t \in Streams : s # t /\ str[s].file = str[t].file
                                 => Kind(s) = "pipe" /\ str[s].mode # str[t].mode

IInv ==
    /\ Typed /\ Wired
    /\ \A s \in Streams : StreamRight(str[s], Kind(s), Data(s))
    /\ \A p \in Procs : CallRight(p, call[p], str[call[p].stream], Kind(call[p].stream))
    /\ \A s \in Streams : SentRight(s, str[s], call[str[s].proc])

------------------------------------------------------------------------------
(* Sequences.                                                                *)

(* A function on 1..n is a sequence of length n. *)
LEMMA FcnIsSeq ==
    ASSUME NEW S, NEW n \in Nat, NEW f \in [1..n -> S]
    PROVE  f \in Seq(S) /\ Len(f) = n
BY SMT

(* Two sequences of the same length with the same elements are the same. *)
LEMMA SeqSame ==
    ASSUME NEW S, NEW d \in Seq(S), NEW e \in Seq(S), Len(d) = Len(e),
           \A i \in 1..Len(d) : d[i] = e[i]
    PROVE  d = e
BY SMT

(* The elements of a piece of a sequence. *)
LEMMA PieceOf ==
    ASSUME NEW S, NEW d \in Seq(S), NEW m \in Nat, NEW n \in Nat, m <= n, n <= Len(d)
    PROVE  /\ SubSeq(d, m + 1, n) \in Seq(S) /\ Len(SubSeq(d, m + 1, n)) = n - m
           /\ \A i \in 1..n - m : SubSeq(d, m + 1, n)[i] = d[m + i]
BY SMT

(* The elements of two sequences put together. *)
LEMMA JoinIs ==
    ASSUME NEW S, NEW d \in Seq(S), NEW e \in Seq(S)
    PROVE  /\ d \o e \in Seq(S) /\ Len(d \o e) = Len(d) + Len(e)
           /\ \A i \in 1..Len(d) + Len(e) :
                (d \o e)[i] = IF i <= Len(d) THEN d[i] ELSE e[i - Len(d)]
BY SMT

(* The piece that is all of it. *)
LEMMA WholePiece ==
    ASSUME NEW S, NEW d \in Seq(S)
    PROVE  SubSeq(d, 1, Len(d)) = d
BY SMT

------------------------------------------------------------------------------
(* IInv holds at the start.                                                  *)

LEMMA OpenedTyped ==
    ASSUME NEW f \in Files, NEW m \in {"r", "w"}, NEW p \in Procs, NEW tag \in Int,
           NEW o \in {"open", "closed", "lost"}, NEW b \in [0..BufSize - 1 -> Memory]
    PROVE  [file |-> f, mode |-> m, proc |-> p, open |-> o, off |-> 0, sent |-> 0,
            buf |-> b, beg |-> tag, pos |-> tag, end |-> tag] \in StreamType
BY DEF StreamType

LEMMA InitSound == Init => IInv
<1> SUFFICES ASSUME Init PROVE IInv
    OBVIOUS
<1> USE DEF Init
<1>1. file \in [Files -> FileType]
  BY InputsAssumption DEF FileType
<1>2. \A s \in Streams :
         /\ str[s] \in StreamType
         /\ str[s].off = 0 /\ str[s].sent = 0 /\ str[s].open # "lost"
         /\ str[s].beg = str[s].pos /\ str[s].pos = str[s].end
         /\ str[s].end = 0 \/ str[s].end = ASanTag
  <2> SUFFICES ASSUME NEW s \in Streams
               PROVE  LET t == str[s] IN
                      /\ t \in StreamType
                      /\ t.off = 0 /\ t.sent = 0 /\ t.open # "lost"
                      /\ t.beg = t.pos /\ t.pos = t.end
                      /\ t.end = 0 \/ t.end = ASanTag
      OBVIOUS
  <2>1. PICK f \in Files, m \in {"r", "w"}, p \in Procs, tag \in {0, ASanTag},
             o \in {"open", "closed"} : str[s] = [Opened(f, m, p, tag) EXCEPT !.open = o]
    OBVIOUS
  <2>2. PICK b : b = [i \in 0..BufSize - 1 |-> Junk]
    OBVIOUS
  <2>3. b \in [0..BufSize - 1 -> Memory]
    BY <2>2 DEF Memory
  <2>4. str[s] = [file |-> f, mode |-> m, proc |-> p, open |-> o, off |-> 0, sent |-> 0,
                  buf |-> b, beg |-> tag, pos |-> tag, end |-> tag]
    BY ZenonT(60), <2>1, <2>2 DEF Opened
  <2>5. tag \in Int
    BY DEF ASanTag
  <2> HIDE <2>1 DEF Init
  <2>6. str[s] \in StreamType
    BY <2>3, <2>4, <2>5, OpenedTyped
  <2> QED
    BY <2>4, <2>6
<1>3. NoCall \in CallType
  BY NamesAssumption DEF NoCall, CallType, Ops
<1>4. Typed
  BY <1>1, <1>2, <1>3 DEF Typed
<1>5. \A s \in Streams : StreamRight(str[s], Kind(s), Data(s))
  <2> SUFFICES ASSUME NEW s \in Streams PROVE StreamRight(str[s], Kind(s), Data(s))
      OBVIOUS
  <2>1. Data(s) \in Seq(Bytes) /\ Len(Data(s)) <= -ASanTag
    BY <1>2, InputsAssumption DEF Data, StreamType
  <2>2. /\ Kind(s) = "bad" => str[s].mode = "r" /\ Data(s) = <<>>
        /\ Kind(s) = "pipe" => Data(s) = <<>>
    BY <1>2 DEF WellWired, Kind, Data, StreamType
  <2> HIDE DEF Init
  <2> QED
    BY <1>2, <2>1, <2>2, SizesAssumption DEF StreamRight, Tags, WriterRight, ReaderRight, Mirrors, StreamType, ASanTag
<1>6. Wired
  BY DEF WellWired, Wired
<1>7. \A p \in Procs : CallRight(p, call[p], str[call[p].stream], Kind(call[p].stream))
  BY Zenon DEF CallRight, NoCall
<1>8. \A s \in Streams : SentRight(s, str[s], call[str[s].proc])
  BY <1>2 DEF SentRight
<1> QED
  BY <1>4, <1>5, <1>6, <1>7, <1>8 DEF IInv

------------------------------------------------------------------------------
(* A step of the library.                                                    *)

(* Process p, in a call on stream s, leaves stream s as t, its file with    *)
(* the bytes d, and its call as c.                                          *)
Moves(p, s, t, d, c) ==
    /\ call[p].at \in {"run", "flush"} /\ s = call[p].stream /\ s = c.stream
    /\ str' = [str EXCEPT ![s] = t]
    /\ file' = [file EXCEPT ![str[s].file].data = d]
    /\ call' = [call EXCEPT ![p] = c]
    /\ t.file = str[s].file /\ t.mode = str[s].mode /\ t.proc = str[s].proc

(* What such a step has to keep. *)
Keeps(p, s, t, d, c) ==
    /\ t \in StreamType /\ d \in Seq(Bytes) /\ c \in CallType
    /\ StreamRight(t, Kind(s), d) /\ CallRight(p, c, t, Kind(s))
    /\ t.sent # 0 => c.at = "flush"

LEMMA MoveSound ==
    ASSUME IInv, NEW p \in Procs, NEW s, NEW t, NEW d, NEW c, Moves(p, s, t, d, c), Keeps(p, s, t, d, c)
    PROVE  IInv'
<1> DEFINE f == str[s].file
<1>1. s \in Streams /\ f \in Files /\ call[p] \in CallType /\ str[s].proc = p /\ str[s].open = "open"
  <2>1. call[p] \in CallType /\ s = call[p].stream /\ call[p].at \in {"run", "flush"}
    BY DEF IInv, Typed, Moves
  <2>2. s \in Streams
    BY <2>1 DEF CallType
  <2>3. str[s] \in StreamType
    BY <2>2 DEF IInv, Typed
  <2>4. f \in Files
    BY <2>3 DEF StreamType
  <2>5. CallRight(p, call[p], str[s], Kind(s))
    BY <2>1 DEF IInv
  <2> QED
    BY <2>1, <2>2, <2>4, <2>5 DEF CallRight
<1>2. /\ str' \in [Streams -> StreamType] /\ str'[s] = t
      /\ \A u \in Streams \ {s} : str'[u] = str[u]
  BY <1>1 DEF IInv, Typed, Moves, Keeps
<1>3. /\ call' \in [Procs -> CallType] /\ call'[p] = c
      /\ \A q \in Procs \ {p} : call'[q] = call[q]
  BY <1>1 DEF IInv, Typed, Moves, Keeps
<1>4. /\ file' \in [Files -> FileType] /\ file'[f].data = d
      /\ \A g \in Files : file'[g].kind = file[g].kind
      /\ \A g \in Files \ {f} : file'[g] = file[g]
  BY Zenon, <1>1 DEF IInv, Typed, Moves, Keeps, FileType
<1>5. Typed'
  BY <1>2, <1>3, <1>4 DEF Typed
<1>6. \A u \in Streams : /\ str[u] \in StreamType /\ str'[u].file = str[u].file
                          /\ str'[u].mode = str[u].mode /\ str'[u].proc = str[u].proc
                          /\ Kind(u)' = Kind(u)
  BY SMTT(60), <1>1, <1>2, <1>4 DEF IInv, Typed, Moves, Kind, StreamType
<1>7. \A u \in Streams \ {s} : Data(u)' = Data(u) \/ (Kind(u) = "pipe" /\ Data(u)' = d)
  BY SMTT(60), <1>1, <1>2, <1>4, <1>6 DEF IInv, Wired, Data, StreamType
<1>8. Data(s)' = d
  BY <1>1, <1>4, <1>6 DEF Data
<1>9. Wired'
  BY <1>6 DEF IInv, Wired
<1>10. ASSUME NEW u \in Streams PROVE StreamRight(str[u], Kind(u), Data(u))'
  <2>1. CASE u = s
    BY <1>2, <1>6, <1>8, <2>1 DEF Keeps
  <2>2. CASE u # s
    <3>1. StreamRight(str[u], Kind(u), Data(u))
      BY DEF IInv
    <3>2. str'[u] = str[u] /\ Kind(u)' = Kind(u)
      BY <1>2, <1>6, <2>2
    <3>3. CASE Kind(u) = "pipe" /\ Data(u)' = d
      <4>1. CASE Kind(s) = "pipe"
        BY <3>1, <3>2, <3>3, <4>1 DEF StreamRight, ReaderRight, Keeps
      <4>2. CASE Kind(s) # "pipe"
        <5>1. str[u].file # f
          BY <3>3, <4>2 DEF Kind
        <5>2. Data(u)' = Data(u)
          BY <1>4, <1>6, <5>1 DEF Data, StreamType
        <5> QED
          BY <3>1, <3>2, <5>2
      <4> QED
        BY <4>1, <4>2
    <3>4. CASE Data(u)' = Data(u)
      BY <3>1, <3>2, <3>4
    <3> QED
      BY <1>7, <2>2, <3>3, <3>4
  <2> QED
    BY <2>1, <2>2
<1>11. ASSUME NEW q \in Procs
       PROVE  CallRight(q, call[q], str[call[q].stream], Kind(call[q].stream))'
  <2>1. CASE q = p
    <3>1. call'[q] = c /\ c.stream = s
      BY <1>3, <2>1 DEF Moves
    <3> QED
      BY <1>1, <1>2, <1>6, <2>1, <3>1 DEF Keeps
  <2>2. CASE q # p
    <3>1. CallRight(q, call[q], str[call[q].stream], Kind(call[q].stream))
      BY DEF IInv
    <3>2. call'[q] = call[q] /\ call[q].stream \in Streams
      BY <1>3, <2>2 DEF IInv, Typed, CallType
    <3>3. Kind(call[q].stream)' = Kind(call[q].stream)
      BY <1>6, <3>2
    <3>4. CASE call[q].stream # s
      BY <1>2, <3>1, <3>2, <3>3, <3>4
    <3>5. CASE call[q].stream = s
      <4>1. call[q].at \notin {"run", "flush"}
        BY <1>1, <2>2, <3>1, <3>5 DEF CallRight
      <4> QED
        BY <3>2, <4>1 DEF CallRight
    <3> QED
      BY <3>4, <3>5
  <2> QED
    BY <2>1, <2>2
<1>12. ASSUME NEW u \in Streams PROVE SentRight(u, str[u], call[str[u].proc])'
  <2>1. CASE u = s
    BY <1>1, <1>2, <1>3, <1>6, <2>1 DEF SentRight, Keeps, Moves
  <2>2. CASE u # s
    <3>1. SentRight(u, str[u], call[str[u].proc]) /\ str'[u] = str[u] /\ str[u].proc \in Procs
      BY <1>2, <2>2 DEF IInv, Typed, StreamType
    <3>2. CASE str[u].proc = p
      <4>1. str[u].sent = 0
        BY <1>1, <2>2, <3>1, <3>2 DEF SentRight, Moves
      <4> QED
        BY <3>1, <4>1 DEF SentRight
    <3>3. CASE str[u].proc # p
      BY <1>3, <3>1, <3>3
    <3> QED
      BY <3>2, <3>3
  <2> QED
    BY <2>1, <2>2
<1> QED
  BY <1>5, <1>9, <1>10, <1>11, <1>12 DEF IInv

------------------------------------------------------------------------------
(* read(2).                                                                  *)

(* bs are bytes that follow offset o of d. *)
Follows(bs, d, o) ==
    /\ bs \in Seq(Bytes) /\ Len(bs) <= BufSize
    /\ bs # <<>> => o + Len(bs) <= Len(d)
    /\ \A i \in 1..Len(bs) : bs[i] = d[o + i]

(* The beginning of what is left of d after offset o follows it. *)
LEMMA RestFollows ==
    ASSUME NEW d \in Seq(Bytes), NEW o \in Nat, NEW k \in Nat, k <= BufSize,
           k <= Len(SubSeq(d, o + 1, Len(d)))
    PROVE  LET bs == SubSeq(SubSeq(d, o + 1, Len(d)), 1, k) IN
           /\ Follows(bs, d, o) /\ Len(bs) = k
           /\ Len(SubSeq(d, o + 1, Len(d))) = IF o <= Len(d) THEN Len(d) - o ELSE 0
<1> DEFINE rest == SubSeq(d, o + 1, Len(d))
<1>1. /\ rest \in Seq(Bytes) /\ Len(rest) = IF o <= Len(d) THEN Len(d) - o ELSE 0
      /\ \A i \in 1..Len(rest) : rest[i] = d[o + i]
  BY SMTT(60)
<1> HIDE DEF rest
<1>2. SubSeq(rest, 1, k) \in Seq(Bytes) /\ Len(SubSeq(rest, 1, k)) = k
      /\ \A i \in 1..k : SubSeq(rest, 1, k)[i] = rest[i]
  BY <1>1, SizesAssumption, SMT
<1> QED
  BY <1>1, <1>2 DEF Follows, rest

(* What read(2) returns follows the offset; nothing at all is the end of    *)
(* the file, or of a pipe that is empty and that nobody can write.          *)
LEMMA ReturnsAre ==
    ASSUME NEW s \in Streams, str[s] \in StreamType, Data(s) \in Seq(Bytes), Kind(s) \in Kinds,
           Kind(s) = "bad" => Data(s) = <<>>, NEW bs \in ReadReturns(s)
    PROVE  /\ Follows(bs, Data(s), str[s].off)
           /\ bs = <<>> => /\ str[s].off >= Len(Data(s))
                           /\ Kind(s) = "pipe" => \A w \in Others(s, "w") : str[w].open # "open"
<1> DEFINE d == Data(s)
           o == str[s].off
           rest == SubSeq(d, o + 1, Len(d))
           n == Least(BufSize, Len(rest))
           Good(xs) == Follows(xs, d, o) /\ (xs = <<>> => o >= Len(d))
<1>1. d \in Seq(Bytes) /\ o \in Nat
  BY DEF StreamType
<1>2. Len(rest) \in Nat
  BY <1>1
<1>3. n \in Nat /\ n <= BufSize /\ n <= Len(rest) /\ (n = 0 => Len(rest) = 0)
  <2> HIDE DEF rest
  <2> QED
    BY <1>2, SizesAssumption DEF Least
<1>4. ASSUME NEW k \in Nat, k <= n, k = 0 => n = 0 PROVE Good(SubSeq(rest, 1, k))
  <2>1. k <= BufSize /\ k <= Len(rest)
    <3> HIDE DEF n, rest
    <3> QED
      BY <1>2, <1>3, <1>4, SizesAssumption
  <2> HIDE DEF n
  <2> HIDE DEF d, o
  <2>2. /\ Follows(SubSeq(rest, 1, k), d, o) /\ Len(SubSeq(rest, 1, k)) = k
        /\ Len(rest) = IF o <= Len(d) THEN Len(d) - o ELSE 0
    BY <1>1, <2>1, RestFollows
  <2>3. Len(d) \in Nat
    BY <1>1
  <2> HIDE DEF rest
  <2> QED
    BY <1>1, <1>3, <1>4, <2>2, <2>3
<1>9. Good(SubSeq(rest, 1, n))
  <2> HIDE DEF n, Good
  <2> QED
    BY <1>3, <1>4
<1>5. CASE Kind(s) = "bad"
  <2>1. bs = <<>>
    BY <1>5 DEF ReadReturns
  <2>2. d = <<>>
    BY <1>5
  <2> QED
    BY <1>1, <1>5, <2>1, <2>2, SizesAssumption DEF Follows
<1>6. CASE Kind(s) = "reg"
  <2>1. bs = SubSeq(rest, 1, n)
    BY <1>6 DEF ReadReturns
  <2> QED
    BY Zenon, <1>6, <1>9, <2>1
<1>7. CASE Kind(s) = "slow"
  <2>1. bs \in {SubSeq(rest, 1, k) : k \in Least(1, n)..n}
    BY <1>7 DEF ReadReturns
  <2>2. PICK k \in Least(1, n)..n : bs = SubSeq(rest, 1, k)
    BY <2>1
  <2> HIDE DEF n
  <2>3. k \in Nat /\ k <= n /\ (k = 0 => n = 0)
    BY <1>3 DEF Least
  <2> QED
    BY <1>4, <1>7, <2>2, <2>3
<1>8. CASE Kind(s) = "pipe"
  <2>1. /\ bs = SubSeq(rest, 1, n)
        /\ ~(rest = <<>> /\ \E w \in Others(s, "w") : str[w].open = "open")
    <3>1. bs = SubSeq(rest, 1, n) /\ ~(rest = <<>> /\ EndOpen(s, "w"))
      BY <1>8 DEF ReadReturns
    <3> QED
      BY Zenon, <3>1 DEF EndOpen
  <2>2. Good(bs)
    BY <1>9, <2>1
  <2>3. ASSUME bs = <<>> PROVE rest = <<>>
    <3>1. o >= Len(d)
      BY <2>2, <2>3
    <3> QED
      BY <1>1, <3>1
  <2> QED
    BY Zenon, <2>1, <2>2, <2>3
<1> QED
  BY <1>5, <1>6, <1>7, <1>8 DEF Kinds

------------------------------------------------------------------------------
(* io61_fill().                                                              *)

LEMMA FilledIs ==
    ASSUME NEW s \in Streams, NEW t \in StreamType, NEW bs \in Seq(Bytes), Len(bs) <= BufSize
    PROVE  LET u == Filled(s, t, bs) IN
           /\ u \in StreamType /\ u.file = t.file /\ u.mode = t.mode /\ u.proc = t.proc
           /\ u.open = t.open /\ u.sent = t.sent
           /\ u.beg = t.end /\ u.pos = t.end /\ u.end = t.end + Len(bs)
           /\ u.off = IF Kind(s) = "pipe" THEN 0 ELSE t.off + Len(bs)
           /\ \A i \in 1..Len(bs) : u.buf[i - 1] = bs[i]
<1>1. PICK b : b = [i \in 0..BufSize - 1 |-> IF i < Len(bs) THEN bs[i + 1] ELSE t.buf[i]]
  OBVIOUS
<1>2. t.buf \in [0..BufSize - 1 -> Memory]
  BY DEF StreamType
<1>3. b \in [0..BufSize - 1 -> Memory] /\ \A i \in 1..Len(bs) : b[i - 1] = bs[i]
  <2>1. \A i \in 1..Len(bs) : bs[i] \in Memory
    BY DEF Memory
  <2> QED
    BY <1>1, <1>2, <2>1, SizesAssumption
<1>4. PICK o : o = IF Kind(s) = "pipe" THEN 0 ELSE t.off + Len(bs)
  OBVIOUS
<1>5. o \in Nat /\ t.end \in Int /\ t.end + Len(bs) \in Int
  BY <1>4 DEF StreamType
<1>6. DOMAIN t.buf = 0..BufSize - 1
  BY <1>2
<1>7. Filled(s, t, bs) = [t EXCEPT !.beg = t.end, !.pos = t.end, !.end = t.end + Len(bs),
                                   !.off = o, !.buf = b]
  BY <1>1, <1>4, <1>6 DEF Filled
<1> QED
  BY ZenonT(60), <1>3, <1>4, <1>5, <1>7 DEF StreamType

(* Filled with bytes that follow its offset, a stream for reading is right. *)
LEMMA FillRight ==
    ASSUME NEW s \in Streams, NEW t \in StreamType, NEW d \in Seq(Bytes), NEW bs,
           t.mode = "r", t.sent = 0, Kind(s) \in Kinds, Follows(bs, d, t.off),
           Kind(s) = "bad" => d = <<>>,
           Kind(s) # "pipe" =>
               /\ Len(d) <= -ASanTag
               /\ t.end = t.off \/ (t.end = t.off + ASanTag /\ t.off <= Len(d))
    PROVE  /\ Kind(s) # "pipe" => StreamRight(Filled(s, t, bs), Kind(s), d)
           /\ Kind(s) = "pipe" => \A e : Len(e) <= PipeSize => StreamRight(Filled(s, t, bs), Kind(s), e)
<1>1. bs \in Seq(Bytes) /\ Len(bs) <= BufSize /\ Len(bs) \in Nat
  BY DEF Follows
<1>2. PICK u : u = Filled(s, t, bs)
  OBVIOUS
<1>3. /\ u \in StreamType /\ u.mode = "r" /\ u.sent = 0
      /\ u.beg = t.end /\ u.pos = t.end /\ u.end = t.end + Len(bs)
      /\ u.off = IF Kind(s) = "pipe" THEN 0 ELSE t.off + Len(bs)
      /\ \A i \in 1..Len(bs) : u.buf[i - 1] = bs[i]
  BY <1>1, <1>2, FilledIs
<1>4. t.end \in Int /\ t.off \in Nat /\ ASanTag \in Int
  BY DEF StreamType, ASanTag
<1>5. Tags(u)
  <2>1. u.end - u.beg = Len(bs)
    BY <1>1, <1>3, <1>4
  <2>2. \A i \in 0..Len(bs) - 1 : u.buf[i] \in Bytes
    <3> SUFFICES ASSUME NEW i \in 0..Len(bs) - 1 PROVE u.buf[i] \in Bytes
        OBVIOUS
    <3>1. i + 1 \in 1..Len(bs) /\ (i + 1) - 1 = i
      BY <1>1
    <3>2. bs[i + 1] \in Bytes
      BY <1>1, <3>1
    <3> QED
      BY <1>3, <3>1, <3>2
  <2> QED
    BY <1>1, <1>3, <1>4, <2>1, <2>2, SizesAssumption DEF Tags
<1>6. CASE Kind(s) = "pipe"
  <2>1. u.pos <= u.end /\ u.off = 0
    BY <1>1, <1>3, <1>4, <1>6
  <2>2. \A e : Len(e) <= PipeSize => StreamRight(u, "pipe", e)
    BY <1>3, <1>5, <2>1 DEF StreamRight, WriterRight, ReaderRight
  <2> QED
    BY <1>2, <1>6, <2>2
<1>7. CASE Kind(s) # "pipe"
  <2>1. Len(d) \in Nat
    OBVIOUS
  <2>2. Mirrors(u, d)
    <3>1. u.end - u.beg = Len(bs) /\ u.off = t.off + Len(bs)
      BY <1>1, <1>3, <1>4, <1>7
    <3>2. u.off - Len(bs) = t.off
      BY <1>1, <1>4, <3>1
    <3>3. ASSUME Len(bs) > 0 PROVE u.off >= Len(bs) /\ u.off <= Len(d)
      BY <1>1, <1>4, <3>1, <3>3 DEF Follows
    <3>4. \A i \in 1..Len(bs) : u.buf[i - 1] = d[u.off - Len(bs) + i]
      BY <1>3, <3>2 DEF Follows
    <3> QED
      BY <3>1, <3>3, <3>4 DEF Mirrors
  <2>3. u.end = u.off \/ (u.end = u.off + ASanTag /\ u.off <= Len(d) /\ u.pos <= u.end)
    <3>1. bs = <<>> => Len(bs) = 0
      OBVIOUS
    <3>2. u.pos <= u.end
      BY <1>1, <1>3, <1>4
    <3>3. CASE t.end = t.off
      BY <1>1, <1>3, <1>4, <1>7, <3>3
    <3>4. CASE t.end = t.off + ASanTag /\ t.off <= Len(d)
      BY SMTT(60), <1>1, <1>3, <1>4, <1>7, <2>1, <3>1, <3>2, <3>4 DEF Follows
    <3> QED
      BY <1>7, <3>3, <3>4
  <2>4. u.pos <= u.end
    BY <1>1, <1>3, <1>4
  <2>5. u.pos \in Int /\ u.end \in Int
    BY <1>3, <1>4, <1>1
  <2> QED
    BY <1>2, <1>3, <1>5, <1>7, <2>2, <2>3, <2>4, <2>5 DEF StreamRight, WriterRight, ReaderRight
<1> QED
  BY <1>2, <1>6, <1>7

------------------------------------------------------------------------------
(* Reading.                                                                  *)

(* What the invariant says of process p in a call on a stream for reading.  *)
LEMMA CallerIs ==
    ASSUME IInv, NEW p \in Procs, call[p].at \in {"run", "flush"}
    PROVE  LET c == call[p]  s == c.stream IN
           /\ c \in CallType /\ s \in Streams
           /\ str[s] \in StreamType /\ str[s].file \in Files /\ file[str[s].file] \in FileType
           /\ Kind(s) \in Kinds /\ Data(s) \in Seq(Bytes)
           /\ str[s].proc = p /\ str[s].open = "open"
           /\ CallRight(p, c, str[s], Kind(s)) /\ StreamRight(str[s], Kind(s), Data(s))
<1> DEFINE c == call[p]
           s == c.stream
<1>1. c \in CallType
  BY DEF IInv, Typed
<1>2. s \in Streams
  BY <1>1 DEF CallType
<1>3. str[s] \in StreamType /\ StreamRight(str[s], Kind(s), Data(s))
  BY <1>2 DEF IInv, Typed
<1>4. str[s].file \in Files
  BY <1>3 DEF StreamType
<1>5. file[str[s].file] \in FileType
  BY <1>4 DEF IInv, Typed
<1>6. Kind(s) \in Kinds /\ Data(s) \in Seq(Bytes)
  BY <1>5 DEF FileType, Kind, Data
<1>7. CallRight(p, c, str[s], Kind(s))
  BY DEF IInv
<1> QED
  BY Zenon, <1>1, <1>2, <1>3, <1>4, <1>5, <1>6, <1>7 DEF CallRight

(* Stream s before its bytes are copied: t, its file with d; bs was read(2) *)
(* if there was nothing to copy.                                            *)
Fetched(p, s, bs, t, d) ==
    /\ t \in StreamType /\ t.file = str[s].file /\ t.mode = "r" /\ t.proc = p
    /\ t.open = "open" /\ t.sent = 0 /\ t.pos <= t.end
    /\ d \in Seq(Bytes) /\ StreamRight(t, Kind(s), d)
    /\ file' = [file EXCEPT ![str[s].file].data = d]
    /\ \/ t = str[s] /\ t.pos < t.end /\ d = Data(s)
       \/ /\ str[s].pos = str[s].end /\ t = Filled(s, str[s], bs)
          /\ Follows(bs, Data(s), str[s].off)
          /\ bs = <<>> => /\ str[s].off >= Len(Data(s))
                          /\ Kind(s) = "pipe" => \A w \in Others(s, "w") : str[w].open # "open"
          /\ d = IF Kind(s) = "pipe" THEN SubSeq(Data(s), Len(bs) + 1, Len(Data(s))) ELSE Data(s)

(* Then nothing was there, or the first n bytes are copied. *)
Copied(t, n) == [i \in 1..n |-> t.buf[t.pos - t.beg + i - 1]]
Copies(p, s, t, n) ==
    LET c == call[p] IN
    \/ t.pos = t.end /\ Stops(p) /\ str' = [str EXCEPT ![s] = t]
    \/ /\ t.pos < t.end /\ n \in 1..t.end - t.pos /\ n <= c.want - Len(c.got)
       /\ str' = [str EXCEPT ![s] = [t EXCEPT !.pos = @ + n]]
       /\ call' = [call EXCEPT ![p].got = @ \o Copied(t, n),
                      ![p].at = IF Len(c.got) + n = c.want THEN "done" ELSE "run"]

LEMMA ReadIs ==
    ASSUME IInv, NEW p \in Procs, ReadStep(p)
    PROVE  \E bs, t, d, n : /\ Fetched(p, call[p].stream, bs, t, d)
                            /\ Copies(p, call[p].stream, t, n)
<1> DEFINE c == call[p]
           s == c.stream
           u == str[s]
<1>1. c.at = "run" /\ c.op \in Reads
  BY Zenon DEF ReadStep, Running, Reads
<1>2. /\ c \in CallType /\ s \in Streams
      /\ u \in StreamType /\ u.file \in Files /\ file[u.file] \in FileType
      /\ Kind(s) \in Kinds /\ Data(s) \in Seq(Bytes)
      /\ u.proc = p /\ u.open = "open"
      /\ CallRight(p, c, u, Kind(s)) /\ StreamRight(u, Kind(s), Data(s))
  BY <1>1, CallerIs
<1>3. /\ u.mode = "r" /\ u.pos <= u.end /\ Len(c.got) < c.want
      /\ c.op = "readc" => c.want = 1
  BY Zenon, <1>1, <1>2 DEF CallRight, Reads, Writes, StreamType
<1>4. u.pos \in Int /\ u.end \in Int /\ u.off \in Nat
  BY Zenon, <1>2 DEF StreamType
<1>5. \A t \in StreamType : t.pos <= t.end => (Dry(c.op, t) <=> t.pos = t.end)
  BY DEF Dry, StreamType
<1>6. PICK bs \in IF Dry(c.op, u) THEN ReadReturns(s) ELSE {<<>>} :
         LET t == IF Dry(c.op, u) THEN Filled(s, u, bs) ELSE u
             n == IF c.op = "readc" THEN 1 ELSE Least(t.end - t.pos, c.want - Len(c.got))
         IN /\ file' = Taken(s, bs)
            /\ IF Dry(c.op, t)
               THEN Stops(p) /\ str' = [str EXCEPT ![s] = t]
               ELSE /\ str' = [str EXCEPT ![s] = [t EXCEPT !.pos = @ + n]]
                    /\ call' = [call EXCEPT
                         ![p].got = @ \o [i \in 1..n |-> t.buf[t.pos - t.beg + i - 1]],
                         ![p].at = IF Len(c.got) + n = c.want THEN "done" ELSE "run"]
  BY Zenon DEF ReadStep
<1> DEFINE t == IF Dry(c.op, u) THEN Filled(s, u, bs) ELSE u
           n == IF c.op = "readc" THEN 1 ELSE Least(t.end - t.pos, c.want - Len(c.got))
           d == IF Kind(s) = "pipe" THEN SubSeq(Data(s), Len(bs) + 1, Len(Data(s))) ELSE Data(s)
<1>7. file' = Taken(s, bs)
  BY Zenon, <1>6
<1>8. IF Dry(c.op, t)
      THEN Stops(p) /\ str' = [str EXCEPT ![s] = t]
      ELSE /\ str' = [str EXCEPT ![s] = [t EXCEPT !.pos = @ + n]]
           /\ call' = [call EXCEPT ![p].got = @ \o Copied(t, n),
                          ![p].at = IF Len(c.got) + n = c.want THEN "done" ELSE "run"]
  BY Zenon, <1>6 DEF Copied
<1>9. bs \in Seq(Bytes) /\ file' = [file EXCEPT ![u.file].data = d]
  <2>1. bs \in Seq(Bytes)
    <3>1. CASE Dry(c.op, u)
      <4>1. Kind(s) = "bad" => Data(s) = <<>>
        BY <1>2 DEF StreamRight
      <4>2. Follows(bs, Data(s), u.off)
        BY Zenon, <1>2, <1>6, <3>1, <4>1, ReturnsAre
      <4> QED
        BY <4>2 DEF Follows
    <3>2. CASE ~Dry(c.op, u)
      <4>1. bs = <<>>
        BY Zenon, <1>6, <3>2
      <4> QED
        BY <4>1
    <3> QED
      BY <3>1, <3>2
  <2>2. CASE Kind(s) = "pipe"
    BY Zenon, <1>7, <2>1, <2>2 DEF Taken, Data
  <2>3. CASE Kind(s) # "pipe"
    <3>1. file' = file
      BY <1>7, <2>3 DEF Taken
    <3>2. d = file[u.file].data
      BY <2>3 DEF Data
    <3> HIDE DEF d, u
    <3>3. [file EXCEPT ![u.file].data = d] = file
      BY <1>2, <3>2 DEF IInv, Typed, FileType
    <3> QED
      BY <2>1, <3>1, <3>3
  <2> QED
    BY Zenon, <2>1, <2>2, <2>3
<1>10. Fetched(p, s, bs, t, d)
  <2>1. CASE ~Dry(c.op, u)
    <3>1. t = u /\ bs = <<>>
      BY Zenon, <1>6, <2>1
    <3>2. d = Data(s)
      <4>1. Len(bs) + 1 = 1
        BY <3>1
      <4>2. SubSeq(Data(s), 1, Len(Data(s))) = Data(s)
        BY <1>2, WholePiece
      <4> QED
        BY <4>1, <4>2
    <3>3. u.pos < u.end
      BY <1>2, <1>3, <1>4, <1>5, <2>1
    <3>4. u.sent = 0
      BY <1>2, <1>3 DEF StreamRight, ReaderRight
    <3> HIDE DEF t, d, c
    <3> QED
      BY <1>2, <1>3, <1>9, <3>1, <3>2, <3>3, <3>4 DEF Fetched
  <2>2. CASE Dry(c.op, u)
    <3>1. t = Filled(s, u, bs) /\ bs \in ReadReturns(s) /\ u.pos = u.end
      BY Zenon, <1>2, <1>3, <1>5, <1>6, <2>2
    <3>2. /\ u.sent = 0
          /\ Kind(s) = "bad" => Data(s) = <<>>
          /\ Kind(s) # "pipe" =>
               /\ Len(Data(s)) <= -ASanTag
               /\ u.end = u.off \/ (u.end = u.off + ASanTag /\ u.off <= Len(Data(s)))
      BY Zenon, <1>2, <1>3 DEF StreamRight, ReaderRight
    <3>3. /\ Follows(bs, Data(s), u.off)
          /\ bs = <<>> => /\ u.off >= Len(Data(s))
                          /\ Kind(s) = "pipe" => \A w \in Others(s, "w") : str[w].open # "open"
      BY <1>2, <3>1, <3>2, ReturnsAre
    <3>4. /\ Kind(s) # "pipe" => StreamRight(Filled(s, u, bs), Kind(s), Data(s))
          /\ Kind(s) = "pipe" => \A e : Len(e) <= PipeSize => StreamRight(Filled(s, u, bs), Kind(s), e)
      BY Zenon, <1>2, <1>3, <3>2, <3>3, FillRight
    <3>5. StreamRight(t, Kind(s), d)
      <4>1. ASSUME Kind(s) = "pipe" PROVE Len(d) <= PipeSize
        <5>1. Len(Data(s)) <= PipeSize
          BY <1>2, <4>1 DEF StreamRight
        <5>2. d = SubSeq(Data(s), Len(bs) + 1, Len(Data(s)))
          BY <4>1
        <5>3. u.off = 0
          BY <1>2, <4>1 DEF StreamRight
        <5> HIDE DEF d
        <5>4. Len(bs) \in Nat /\ Len(Data(s)) \in Nat /\ Len(bs) <= Len(Data(s))
          <6>1. /\ bs \in Seq(Bytes) /\ Data(s) \in Seq(Bytes) /\ u.off = 0
                /\ bs # <<>> => u.off + Len(bs) <= Len(Data(s))
            BY Zenon, <1>2, <1>9, <3>3, <5>3 DEF Follows
          <6> HIDE DEF c, s, u, t, n
          <6> QED
            BY <6>1
        <5>5. Len(d) = Len(Data(s)) - Len(bs)
          BY <1>2, <5>2, <5>4, PieceOf
        <5> QED
          BY <5>1, <5>4, <5>5, SizesAssumption
      <4> QED
        BY <3>1, <3>4, <4>1
    <3>6. Len(bs) <= BufSize
      BY <3>3 DEF Follows
    <3>7. /\ t \in StreamType /\ t.file = u.file /\ t.mode = u.mode /\ t.proc = u.proc
          /\ t.open = u.open /\ t.sent = u.sent
          /\ t.pos = u.end /\ t.end = u.end + Len(bs)
      <4> DEFINE v == Filled(s, u, bs)
      <4> HIDE DEF t, d, n, c
      <4>1. v \in StreamType /\ v.file = u.file /\ v.mode = u.mode /\ v.proc = u.proc
        BY ZenonT(60), <1>2, <1>9, <3>6, FilledIs
      <4>2. v.open = u.open /\ v.sent = u.sent /\ v.pos = u.end /\ v.end = u.end + Len(bs)
        BY Zenon, <1>2, <1>9, <3>6, FilledIs
      <4> HIDE DEF v
      <4>3. t = v
        BY Zenon, <3>1 DEF v
      <4> QED
        BY Zenon, <4>1, <4>2, <4>3
    <3>8. t.pos <= t.end
      <4>1. u.end \in Int /\ bs \in Seq(Bytes) /\ t.pos = u.end /\ t.end = u.end + Len(bs)
        BY Zenon, <1>4, <1>9, <3>7
      <4> HIDE DEF t, d, n, u, s, c
      <4> QED
        BY <4>1
    <3>9. d \in Seq(Bytes)
      <4>1. PICK f : f = Data(s)
        OBVIOUS
      <4>2. f \in Seq(Bytes) /\ bs \in Seq(Bytes)
        BY Zenon, <1>2, <1>9, <4>1
      <4>3. SubSeq(f, Len(bs) + 1, Len(f)) \in Seq(Bytes)
        <5> HIDE DEF t, d, n, u, s, c
        <5> QED
          BY <4>2
      <4> QED
        BY Zenon, <4>1, <4>2, <4>3
    <3> HIDE DEF t, c
    <3> QED
      BY Zenon, <1>2, <1>3, <1>9, <3>1, <3>2, <3>3, <3>5, <3>7, <3>8, <3>9 DEF Fetched
  <2> QED
    BY <2>1, <2>2
<1>11. Copies(p, s, t, n)
  <2>1. t \in StreamType /\ t.pos <= t.end
    BY Zenon, <1>10 DEF Fetched
  <2>2. t.pos \in Int /\ t.end \in Int /\ c.want \in Nat /\ Len(c.got) \in Nat
    <3> HIDE DEF t, c
    <3> QED
      BY <1>2, <2>1 DEF StreamType, CallType
  <2>3. Dry(c.op, t) <=> t.pos = t.end
    BY <1>5, <2>1
  <2>4. CASE t.pos = t.end
    BY Zenon, <1>8, <2>3, <2>4 DEF Copies
  <2>5. CASE t.pos # t.end
    <3>1. n \in 1..t.end - t.pos /\ n <= c.want - Len(c.got)
      <4> HIDE DEF t, c
      <4> QED
        BY SMTT(60), <1>3, <2>1, <2>2, <2>5 DEF Least
    <3>2. t.pos < t.end
      BY <2>1, <2>2, <2>5
    <3>3. /\ str' = [str EXCEPT ![s] = [t EXCEPT !.pos = @ + n]]
          /\ call' = [call EXCEPT ![p].got = @ \o Copied(t, n),
                         ![p].at = IF Len(c.got) + n = c.want THEN "done" ELSE "run"]
      BY Zenon, <1>8, <2>3, <2>5
    <3> HIDE DEF t, n
    <3> QED
      BY <3>1, <3>2, <3>3 DEF Copies
  <2> QED
    BY <2>4, <2>5
<1> HIDE DEF t, n, d, s
<1> QED
  BY <1>10, <1>11 DEF s

LEMMA CopiedIs ==
    ASSUME NEW t \in StreamType, Tags(t), NEW n \in 1..t.end - t.pos
    PROVE  Copied(t, n) \in Seq(Bytes) /\ Len(Copied(t, n)) = n
<1>1. t.pos \in Int /\ t.beg \in Int /\ t.end \in Int
  BY DEF StreamType
<1>2. \A i \in 1..n : t.pos - t.beg + i - 1 \in 0..t.end - t.beg - 1
  BY <1>1 DEF Tags
<1>3. \A i \in 1..n : t.buf[t.pos - t.beg + i - 1] \in Bytes
  BY <1>2 DEF Tags
<1>4. Copied(t, n) \in [1..n -> Bytes]
  BY <1>3 DEF Copied
<1>5. n \in Nat
  BY <1>1
<1> QED
  BY <1>4, <1>5, FcnIsSeq

(* A stream for reading stays right when its position moves in its buffer. *)
LEMMA PosRight ==
    ASSUME NEW t \in StreamType, t.mode = "r", NEW k, NEW d, StreamRight(t, k, d),
           NEW pos \in Int, t.beg <= pos,
           pos > t.end => k = "reg" /\ t.end = t.off /\ t.off >= Len(d)
    PROVE  /\ [t EXCEPT !.pos = pos] \in StreamType
           /\ StreamRight([t EXCEPT !.pos = pos], k, d)
<1> DEFINE u == [t EXCEPT !.pos = pos]
<1>1. /\ u \in StreamType /\ u.pos = pos /\ u.beg = t.beg /\ u.end = t.end /\ u.off = t.off
      /\ u.sent = t.sent /\ u.buf = t.buf /\ u.mode = t.mode /\ u.open = t.open
  BY DEF StreamType
<1>2. t.beg \in Int /\ t.end \in Int /\ t.pos \in Int
  BY DEF StreamType
<1> HIDE DEF u
<1>3. Tags(u)
  BY <1>1 DEF StreamRight, Tags
<1>4. Mirrors(u, d) <=> Mirrors(t, d)
  BY <1>1 DEF Mirrors
<1>5. ReaderRight(u, k, d)
  <2>1. k # "reg" => u.pos <= u.end
    BY <1>1, <1>2
  <2>2. ASSUME k # "pipe"
        PROVE  /\ Len(d) <= -ASanTag
               /\ u.end = u.off \/ (u.end = u.off + ASanTag /\ u.off <= Len(d) /\ u.pos <= u.end)
               /\ u.pos > u.end => u.off >= Len(d)
               /\ Mirrors(u, d)
    <3>1. /\ Len(d) <= -ASanTag /\ Mirrors(t, d)
          /\ t.end = t.off \/ (t.end = t.off + ASanTag /\ t.off <= Len(d))
      BY <2>2 DEF StreamRight, ReaderRight
    <3> QED
      BY <1>1, <1>2, <1>4, <3>1
  <2>3. u.sent = 0
    BY <1>1 DEF StreamRight, ReaderRight
  <2> QED
    BY <2>1, <2>2, <2>3 DEF ReaderRight
<1> QED
  BY <1>1, <1>3, <1>5 DEF StreamRight, WriterRight, u

LEMMA ReadSound ==
    ASSUME IInv, NEW p \in Procs, ReadStep(p)
    PROVE  IInv'
<1> DEFINE c == call[p]
           s == c.stream
<1>1. c.at = "run" /\ c.op \in Reads
  BY DEF ReadStep, Running, Reads
<1>2. PICK bs, t, d, n : Fetched(p, s, bs, t, d) /\ Copies(p, s, t, n)
  BY ReadIs
<1>3. c \in CallType /\ s \in Streams /\ call \in [Procs -> CallType] /\ CallRight(p, c, str[s], Kind(s))
  BY <1>1, CallerIs DEF IInv, Typed
<1>4. /\ t \in StreamType /\ t.file = str[s].file /\ t.mode = "r" /\ t.proc = p
      /\ t.open = "open" /\ t.sent = 0 /\ t.pos <= t.end
      /\ d \in Seq(Bytes) /\ StreamRight(t, Kind(s), d)
      /\ file' = [file EXCEPT ![str[s].file].data = d]
  BY Zenon, <1>2 DEF Fetched
<1>5. str[s].mode = "r" /\ str[s].proc = p /\ Len(c.got) < c.want
      /\ (c.op = "readc" => c.want = 1) /\ c.ok = TRUE
  BY <1>1, <1>3, CallerIs DEF CallRight, Reads, Writes, StreamType
<1>6. CASE t.pos = t.end /\ Stops(p) /\ str' = [str EXCEPT ![s] = t]
  <2>0. PICK ok \in BOOLEAN : ok = (c.got # <<>>)
    OBVIOUS
  <2> DEFINE e == [c EXCEPT !.ok = ok, !.at = "done"]
  <2>1. call' = [call EXCEPT ![p] = e]
    BY <1>3, <1>6, <2>0 DEF Stops
  <2>2. e \in CallType /\ e.stream = s /\ e.at = "done"
    BY <1>3 DEF CallType
  <2> HIDE DEF e
  <2>3. CallRight(p, e, t, Kind(s))
    BY <2>2 DEF CallRight
  <2>4. Moves(p, s, t, d, e)
    BY <1>1, <1>4, <1>5, <1>6, <2>1, <2>2 DEF Moves
  <2>5. Keeps(p, s, t, d, e)
    BY <1>4, <2>2, <2>3 DEF Keeps
  <2> QED
    BY <2>4, <2>5, MoveSound
<1>7. CASE /\ t.pos < t.end /\ n \in 1..t.end - t.pos /\ n <= c.want - Len(c.got)
           /\ str' = [str EXCEPT ![s] = [t EXCEPT !.pos = @ + n]]
           /\ call' = [call EXCEPT ![p].got = @ \o Copied(t, n),
                          ![p].at = IF Len(c.got) + n = c.want THEN "done" ELSE "run"]
  <2>1. PICK a : a = IF Len(c.got) + n = c.want THEN "done" ELSE "run"
    OBVIOUS
  <2>2. PICK g : g = c.got \o Copied(t, n)
    OBVIOUS
  <2> DEFINE e == [c EXCEPT !.got = g, !.at = a]
             u == [t EXCEPT !.pos = t.pos + n]
  <2>3. call' = [call EXCEPT ![p] = e]
    BY <1>3, <1>7, <2>1, <2>2
  <2>4. Copied(t, n) \in Seq(Bytes) /\ Len(Copied(t, n)) = n
    BY Zenon, <1>4, <1>7, CopiedIs DEF StreamRight
  <2>5. c.got \in Seq(Bytes) /\ Len(c.got) \in Nat /\ c.want \in Nat
    BY <1>3 DEF CallType
  <2>6. g \in Seq(Bytes) /\ Len(g) = Len(c.got) + n
    <3> DEFINE x == c.got
               y == Copied(t, n)
    <3>1. x \in Seq(Bytes) /\ y \in Seq(Bytes) /\ Len(y) = n /\ g = x \o y
      BY <2>2, <2>4, <2>5
    <3> HIDE DEF x, y
    <3>2. g \in Seq(Bytes) /\ Len(g) = Len(x) + n
      BY <3>1, JoinIs
    <3> QED
      BY <3>2 DEF x
  <2>7. e \in CallType /\ e.stream = s /\ e.at = a /\ e.op = c.op /\ e.got = g /\ e.want = c.want
        /\ e.ok = c.ok
    BY <1>3, <2>1, <2>6 DEF CallType
  <2>8. t.pos \in Int /\ t.end \in Int /\ t.beg \in Int /\ n \in Nat /\ t.beg <= t.pos
    <3>1. t.pos \in Int /\ t.end \in Int /\ t.beg \in Int /\ t.beg <= t.pos /\ n \in 1..t.end - t.pos
      BY Zenon, <1>4, <1>7 DEF StreamType, StreamRight, Tags
    <3> QED
      BY <3>1
  <2>9. t.pos + n \in Int /\ t.beg <= t.pos + n /\ t.pos + n <= t.end
    BY <1>7, <2>8
  <2>10. u \in StreamType /\ StreamRight(u, Kind(s), d)
    <3>1. ~(t.pos + n > t.end)
      BY <2>8, <2>9
    <3> QED
      BY Zenon, <1>4, <2>9, <3>1, PosRight
  <2>11. /\ u.pos = t.pos + n /\ u.end = t.end /\ u.mode = "r" /\ u.proc = p /\ u.open = "open"
         /\ u.file = t.file /\ u.sent = 0
    BY <1>4 DEF StreamType
  <2>12. str' = [str EXCEPT ![s] = u]
    BY <1>7
  <2> HIDE DEF e, u
  <2>13. a = "run" => Len(g) < c.want
    <3>1. PICK h, l, w : h = Len(c.got) /\ l = Len(g) /\ w = c.want
      OBVIOUS
    <3>2. h \in Nat /\ w \in Nat /\ n \in Nat /\ l = h + n /\ n <= w - h
      BY <1>7, <2>5, <2>6, <2>8, <3>1
    <3>3. a = "run" => h + n # w
      BY Zenon, <2>1, <3>1
    <3>4. a = "run" => l < w
      BY <3>2, <3>3
    <3> QED
      BY Zenon, <3>1, <3>4
  <2>14. CallRight(p, e, u, Kind(s))
    BY <1>1, <1>5, <2>1, <2>7, <2>9, <2>11, <2>13 DEF CallRight, Reads, Writes
  <2>15. Moves(p, s, u, d, e)
    BY Zenon, <1>1, <1>4, <1>5, <2>3, <2>7, <2>11, <2>12 DEF Moves
  <2>16. Keeps(p, s, u, d, e)
    BY <1>4, <2>7, <2>10, <2>11, <2>14 DEF Keeps
  <2> QED
    BY <2>15, <2>16, MoveSound
<1> QED
  BY Zenon, <1>2, <1>6, <1>7 DEF Copies

------------------------------------------------------------------------------
(* Writing.                                                                  *)

(* A file that keeps its bytes. *)
LEMMA SameFile ==
    ASSUME IInv, NEW s \in Streams
    PROVE  file = [file EXCEPT ![str[s].file].data = Data(s)]
<1>1. str[s].file \in Files
  BY DEF IInv, Typed, StreamType
<1> QED
  BY <1>1 DEF IInv, Typed, FileType, Data

(* The buffer b is that of t with the first n bytes of left behind its own. *)
Appended(t, b, left, n) ==
    LET w == t.pos - t.beg IN
    /\ b \in [0..BufSize - 1 -> Memory]
    /\ \A i \in 0..w - 1 : b[i] = t.buf[i]
    /\ \A i \in 1..n : b[w + i - 1] = left[i]

LEMMA WriteIs ==
    ASSUME IInv, NEW p \in Procs, WriteStep(p)
    PROVE  LET c == call[p]  s == c.stream  t == str[s] IN
           /\ c.at = "run" /\ c.op \in Writes /\ t.mode = "w" /\ c.left # <<>>
           /\ UNCHANGED file
           /\ \/ call' = [call EXCEPT ![p].at = "flush"] /\ UNCHANGED str
              \/ \E n \in 1..Len(c.left) : \E b :
                    /\ Appended(t, b, c.left, n) /\ t.end - t.beg + n <= BufSize
                    /\ str' = [str EXCEPT ![s] =
                                 [t EXCEPT !.pos = t.pos + n, !.end = t.end + n, !.buf = b]]
                    /\ call' = [call EXCEPT ![p].left = SubSeq(@, n + 1, Len(@)),
                                   ![p].at = IF Len(c.left) = n THEN "done" ELSE "run"]
<1> DEFINE c == call[p]
           s == c.stream
           t == str[s]
           n == Least(BufSize - (t.pos - t.beg), Len(c.left))
           w == t.pos - t.beg
<1>1. c.at = "run" /\ c.op \in Writes /\ UNCHANGED file
  BY Zenon DEF WriteStep, Running, Writes
<1>2. t \in StreamType /\ c \in CallType /\ CallRight(p, c, t, Kind(s)) /\ Tags(t)
  BY <1>1, CallerIs DEF StreamRight
<1>3. t.mode = "w" /\ c.left # <<>> /\ t.pos = t.end
  BY Zenon, <1>1, <1>2 DEF CallRight, Tags, Reads, Writes, StreamType
<1>4. CASE BufferFull(t)
  BY Zenon, <1>1, <1>3, <1>4 DEF WriteStep
<1>5. CASE ~BufferFull(t)
  <2>1. PICK b : b = [i \in DOMAIN t.buf |->
                        IF i >= t.pos - t.beg /\ i < t.pos - t.beg + n
                        THEN c.left[i - (t.pos - t.beg) + 1] ELSE t.buf[i]]
    OBVIOUS
  <2>2. /\ str' = [str EXCEPT ![s] = [t EXCEPT !.pos = t.pos + n, !.end = t.end + n, !.buf = b]]
        /\ call' = [call EXCEPT ![p].left = SubSeq(@, n + 1, Len(@)),
                       ![p].at = IF Len(c.left) = n THEN "done" ELSE "run"]
    BY Zenon, <1>5, <2>1 DEF WriteStep
  <2>3. t.beg \in Int /\ t.pos \in Int /\ t.buf \in [0..BufSize - 1 -> Memory]
    BY <1>2 DEF StreamType
  <2>4. c.left \in Seq(Bytes) /\ Len(c.left) \in Nat /\ Len(c.left) # 0
    BY <1>2, <1>3 DEF CallType
  <2>5. w \in 0..BufSize - 1
    BY SMTT(60), <1>2, <1>3, <1>5, <2>3, SizesAssumption DEF Tags, BufferFull
  <2>6. n \in 1..Len(c.left) /\ w + n <= BufSize
    <3> HIDE DEF w, c
    <3> QED
      BY SMTT(60), <2>4, <2>5, SizesAssumption DEF Least, w
  <2>7. Appended(t, b, c.left, n)
    <3> HIDE DEF n, c, t
    <3>1. \A i \in 1..n : c.left[i] \in Memory
      BY <2>4, <2>6 DEF Memory
    <3>2. b = [i \in 0..BufSize - 1 |-> IF i >= w /\ i < w + n THEN c.left[i - w + 1] ELSE t.buf[i]]
      BY <2>1, <2>3
    <3> HIDE DEF w
    <3>3. \A i \in 0..BufSize - 1 : i >= w /\ i < w + n => i - w + 1 \in 1..n
      BY <2>4, <2>5, <2>6
    <3>4. b \in [0..BufSize - 1 -> Memory]
      BY <2>3, <3>1, <3>2, <3>3
    <3>5. \A i \in 0..w - 1 : b[i] = t.buf[i]
      BY <2>4, <2>5, <2>6, <3>2, SizesAssumption
    <3>6. \A i \in 1..n : b[w + i - 1] = c.left[i]
      <4> SUFFICES ASSUME NEW i \in 1..n PROVE b[w + i - 1] = c.left[i]
          OBVIOUS
      <4>1. /\ w + i - 1 \in 0..BufSize - 1 /\ w + i - 1 >= w /\ w + i - 1 < w + n
            /\ (w + i - 1) - w + 1 = i
        BY <2>4, <2>5, <2>6, SizesAssumption
      <4> QED
        BY <3>2, <4>1
    <3> QED
      BY <3>4, <3>5, <3>6 DEF Appended, w
  <2>8. t.end - t.beg + n <= BufSize
    BY <1>3, <2>6
  <2> HIDE DEF n, c, t, s
  <2> QED
    BY Zenon, <1>1, <1>3, <2>2, <2>6, <2>7, <2>8 DEF c, t, s
<1> QED
  BY Zenon, <1>4, <1>5

LEMMA AppendTags ==
    ASSUME NEW t \in StreamType, Tags(t), t.mode = "w", NEW left \in Seq(Bytes),
           NEW n \in 1..Len(left), NEW b, Appended(t, b, left, n), t.end - t.beg + n <= BufSize,
           NEW u, u.buf = b, u.beg = t.beg, u.pos = t.pos + n, u.end = t.end + n,
           u.sent = 0, u.mode = "w"
    PROVE  Tags(u)
<1>1. /\ t.pos \in Int /\ t.end \in Int /\ t.beg \in Int /\ n \in Nat /\ n >= 1
      /\ BufSize \in Nat
  BY SizesAssumption DEF StreamType
<1>2. PICK w \in Nat : w = t.pos - t.beg /\ w = t.end - t.beg /\ t.pos = t.end
  BY <1>1 DEF Tags
<1>3. u.end - u.beg = w + n
  BY SMTT(60), <1>1, <1>2
<1>4. ASSUME NEW i \in 0..w + n - 1 PROVE b[i] \in Bytes
  <2>1. CASE i < w
    <3>1. i \in 0..w - 1
      BY <1>2, <2>1
    <3>2. b[i] = t.buf[i]
      BY <1>2, <3>1 DEF Appended
    <3> QED
      BY <1>2, <3>1, <3>2 DEF Tags
  <2>2. CASE i >= w
    <3>1. PICK j \in 1..n : w + j - 1 = i
      <4>1. (i - w) + 1 \in 1..n /\ w + ((i - w) + 1) - 1 = i
        BY <1>1, <2>2
      <4> QED
        BY <4>1
    <3>2. b[w + j - 1] = left[j]
      BY <1>2 DEF Appended
    <3>3. j \in 1..Len(left)
      BY <1>1
    <3> QED
      BY SMTT(60), <3>1, <3>2, <3>3
  <2> QED
    BY <1>1, <2>1, <2>2
<1>5. w + n \in 0..BufSize
  BY SMTT(60), <1>1, <1>2
<1>6. u.beg <= u.pos /\ u.pos = u.end
  BY SMTT(60), <1>1, <1>2
<1>7. \A i \in 0..u.end - u.beg - 1 : u.buf[i] \in Bytes
  <2>1. \A i \in 0..w + n - 1 : b[i] \in Bytes
    BY <1>4
  <2> QED
    BY <1>3, <2>1
<1>8. u.end - u.beg \in 0..BufSize /\ u.sent \in 0..u.end - u.beg
  BY <1>1, <1>2, <1>3, <1>5
<1> QED
  BY <1>6, <1>7, <1>8 DEF Tags

LEMMA WriteSound ==
    ASSUME IInv, NEW p \in Procs, WriteStep(p)
    PROVE  IInv'
<1> DEFINE c == call[p]
           s == c.stream
           t == str[s]
           d == Data(s)
<1>1. /\ c.at = "run" /\ c.op \in Writes /\ t.mode = "w" /\ c.left # <<>>
      /\ UNCHANGED file
      /\ \/ call' = [call EXCEPT ![p].at = "flush"] /\ UNCHANGED str
         \/ \E n \in 1..Len(c.left) : \E b :
               /\ Appended(t, b, c.left, n) /\ t.end - t.beg + n <= BufSize
               /\ str' = [str EXCEPT ![s] =
                            [t EXCEPT !.pos = t.pos + n, !.end = t.end + n, !.buf = b]]
               /\ call' = [call EXCEPT ![p].left = SubSeq(@, n + 1, Len(@)),
                              ![p].at = IF Len(c.left) = n THEN "done" ELSE "run"]
  BY Zenon, WriteIs
<1>2. /\ t \in StreamType /\ c \in CallType /\ s \in Streams /\ CallRight(p, c, t, Kind(s))
      /\ StreamRight(t, Kind(s), d) /\ d \in Seq(Bytes) /\ t.proc = p /\ t.open = "open"
  BY Zenon, <1>1, CallerIs
<1>3. call \in [Procs -> CallType] /\ str \in [Streams -> StreamType]
  BY DEF IInv, Typed
<1>4. file' = [file EXCEPT ![str[s].file].data = d]
  BY Zenon, <1>1, <1>2, SameFile
<1>5. t.sent = 0 /\ c.ok = TRUE
  BY Zenon, <1>1, <1>2 DEF IInv, SentRight, CallRight
<1>6. CASE call' = [call EXCEPT ![p].at = "flush"] /\ UNCHANGED str
  <2> DEFINE e == [c EXCEPT !.at = "flush"]
  <2>1. call' = [call EXCEPT ![p] = e]
    BY <1>3, <1>6
  <2>2. /\ e \in CallType /\ e.stream = s /\ e.at = "flush" /\ e.op = c.op /\ e.left = c.left
        /\ e.ok = c.ok
    BY <1>2 DEF CallType
  <2>3. str' = [str EXCEPT ![s] = t]
    BY <1>2, <1>3, <1>6
  <2> HIDE DEF e
  <2>4. CallRight(p, e, t, Kind(s))
    BY Zenon, <1>1, <1>2, <2>2 DEF CallRight, Writes
  <2>5. Moves(p, s, t, d, e)
    BY Zenon, <1>1, <1>4, <2>1, <2>2, <2>3 DEF Moves
  <2>6. Keeps(p, s, t, d, e)
    BY <1>2, <2>2, <2>4 DEF Keeps
  <2> QED
    BY <2>5, <2>6, MoveSound
<1>7. ASSUME NEW n \in 1..Len(c.left), NEW b, Appended(t, b, c.left, n),
             t.end - t.beg + n <= BufSize,
             str' = [str EXCEPT ![s] =
                       [t EXCEPT !.pos = t.pos + n, !.end = t.end + n, !.buf = b]],
             call' = [call EXCEPT ![p].left = SubSeq(@, n + 1, Len(@)),
                        ![p].at = IF Len(c.left) = n THEN "done" ELSE "run"]
      PROVE  IInv'
  <2>1. PICK a : a = IF Len(c.left) = n THEN "done" ELSE "run"
    OBVIOUS
  <2>2. PICK g : g = SubSeq(c.left, n + 1, Len(c.left))
    OBVIOUS
  <2> DEFINE e == [c EXCEPT !.left = g, !.at = a]
             u == [t EXCEPT !.pos = t.pos + n, !.end = t.end + n, !.buf = b]
  <2>3. call' = [call EXCEPT ![p] = e]
    BY <1>3, <1>7, <2>1, <2>2
  <2>4. c.left \in Seq(Bytes) /\ Len(c.left) \in Nat /\ n \in Nat /\ n >= 1 /\ n <= Len(c.left)
    BY <1>2 DEF CallType
  <2>5. g \in Seq(Bytes) /\ Len(g) = Len(c.left) - n
    <3> DEFINE x == c.left
    <3>1. x \in Seq(Bytes) /\ n <= Len(x) /\ Len(x) \in Nat /\ g = SubSeq(x, n + 1, Len(x))
      BY <2>2, <2>4
    <3> HIDE DEF x, c, t, e, u
    <3>2. g \in Seq(Bytes) /\ Len(g) = Len(x) - n
      BY <2>4, <3>1, PieceOf
    <3> QED
      BY <3>2 DEF x
  <2>6. e \in CallType /\ e.stream = s /\ e.at = a /\ e.op = c.op /\ e.left = g /\ e.ok = TRUE
    BY <1>2, <1>5, <2>1, <2>5 DEF CallType
  <2>7. t.pos \in Int /\ t.end \in Int /\ t.beg \in Int /\ t.pos + n \in Int /\ t.end + n \in Int
    <3>1. t \in StreamType
      BY Zenon, <1>2
    <3> HIDE DEF t, s, c, e, u
    <3> QED
      BY <2>4, <3>1 DEF StreamType
  <2>8. /\ u \in StreamType /\ u.pos = t.pos + n /\ u.end = t.end + n /\ u.buf = b
        /\ u.beg = t.beg /\ u.mode = "w" /\ u.proc = p /\ u.open = "open"
        /\ u.file = t.file /\ u.sent = 0 /\ u.off = t.off
    BY ZenonT(60), <1>1, <1>2, <1>5, <1>7, <2>7 DEF StreamType, Appended
  <2>9. str' = [str EXCEPT ![s] = u]
    BY <1>7
  <2> HIDE DEF e, u, c
  <2>10. Tags(u)
    <3>1. Tags(t)
      BY <1>2 DEF StreamRight
    <3> HIDE DEF t, s
    <3>2. t \in StreamType /\ t.mode = "w" /\ c.left \in Seq(Bytes) /\ n \in 1..Len(c.left)
      BY Zenon, <1>1, <1>2, <2>4
    <3>3. Appended(t, b, c.left, n) /\ t.end - t.beg + n <= BufSize
      BY <1>7
    <3>4. /\ u.buf = b /\ u.beg = t.beg /\ u.pos = t.pos + n /\ u.end = t.end + n
          /\ u.sent = 0 /\ u.mode = "w"
      BY <2>8
    <3> QED
      BY <3>1, <3>2, <3>3, <3>4, AppendTags
  <2>11. StreamRight(u, Kind(s), d)
    BY Zenon, <1>1, <1>2, <2>8, <2>10 DEF StreamRight, WriterRight, ReaderRight
  <2>12. a = "run" => g # <<>>
    BY <2>1, <2>4, <2>5
  <2>13. CallRight(p, e, u, Kind(s))
    BY Zenon, <1>1, <2>1, <2>6, <2>8, <2>12 DEF CallRight, Reads, Writes
  <2>14. Moves(p, s, u, d, e)
    BY ZenonT(60), <1>1, <1>2, <1>4, <2>3, <2>6, <2>8, <2>9 DEF Moves, c
  <2>15. Keeps(p, s, u, d, e)
    BY <1>2, <2>6, <2>8, <2>11, <2>13 DEF Keeps
  <2> QED
    BY <2>14, <2>15, MoveSound
<1> QED
  BY Zenon, <1>1, <1>6, <1>7

------------------------------------------------------------------------------
(* Flushing.                                                                 *)

(* The bytes d with bs laid over them at offset at. *)
Laid(d, at, bs) ==
    LET last == IF bs # <<>> /\ at + Len(bs) > Len(d) THEN at + Len(bs) ELSE Len(d) IN
    [i \in 1..last |-> IF i > at /\ i <= at + Len(bs) THEN bs[i - at]
                      ELSE IF i <= Len(d) THEN d[i] ELSE 0]

LEMMA LaidIs ==
    ASSUME NEW d \in Seq(Bytes), NEW at \in Nat, NEW bs \in Seq(Bytes)
    PROVE  /\ Laid(d, at, bs) \in Seq(Bytes)
           /\ Len(Laid(d, at, bs)) = IF bs # <<>> /\ at + Len(bs) > Len(d) THEN at + Len(bs) ELSE Len(d)
           /\ \A i \in 1..Len(Laid(d, at, bs)) :
                Laid(d, at, bs)[i] = IF i > at /\ i <= at + Len(bs) THEN bs[i - at]
                                     ELSE IF i <= Len(d) THEN d[i] ELSE 0
<1> DEFINE last == IF bs # <<>> /\ at + Len(bs) > Len(d) THEN at + Len(bs) ELSE Len(d)
<1>1. last \in Nat
  OBVIOUS
<1>2. \A i \in 1..last : (IF i > at /\ i <= at + Len(bs) THEN bs[i - at]
                          ELSE IF i <= Len(d) THEN d[i] ELSE 0) \in Bytes
  <2> SUFFICES ASSUME NEW i \in 1..last
               PROVE  /\ i > at /\ i <= at + Len(bs) => bs[i - at] \in Bytes
                      /\ i <= Len(d) => d[i] \in Bytes
      BY BytesAssumption
  <2>1. i \in Nat /\ i >= 1
    BY <1>1
  <2> HIDE DEF last
  <2>2. ASSUME i > at, i <= at + Len(bs) PROVE bs[i - at] \in Bytes
    <3>1. i - at \in 1..Len(bs)
      BY <2>1, <2>2
    <3> QED
      BY <3>1
  <2> QED
    BY <2>1, <2>2
<1>3. Laid(d, at, bs) = [i \in 1..last |-> IF i > at /\ i <= at + Len(bs) THEN bs[i - at]
                                          ELSE IF i <= Len(d) THEN d[i] ELSE 0]
  BY DEF Laid
<1> HIDE DEF last
<1>4. Laid(d, at, bs) \in [1..last -> Bytes]
  BY <1>2, <1>3
<1>5. Laid(d, at, bs) \in Seq(Bytes) /\ Len(Laid(d, at, bs)) = last
  BY <1>1, <1>4, FcnIsSeq
<1> QED
  BY <1>3, <1>5 DEF last

(* write(2) lays the bytes over the file, and at the end of a pipe. *)
LEMMA StoredIs ==
    ASSUME NEW s, NEW bs
    PROVE  Stored(s, bs) = [file EXCEPT ![str[s].file].data =
             Laid(Data(s), IF Kind(s) = "pipe" THEN Len(Data(s)) ELSE str[s].off, bs)]
BY DEF Stored, Laid

LEMMA UnsentIs ==
    ASSUME NEW t \in StreamType, Tags(t), t.mode = "w"
    PROVE  Unsent(t) \in Seq(Bytes) /\ Len(Unsent(t)) = t.pos - t.beg - t.sent
<1> DEFINE n == t.pos - t.beg - t.sent
<1>1. t.pos = t.end /\ t.sent \in Nat /\ t.end - t.beg \in Nat /\ n \in Nat
  <2>1. t.pos \in Int /\ t.beg \in Int /\ t.end \in Int
    BY DEF StreamType
  <2> QED
    BY <2>1, SizesAssumption DEF Tags
<1>2. \A i \in 1..n : t.sent + i - 1 \in 0..t.end - t.beg - 1
  BY <1>1
<1>3. \A i \in 1..n : t.buf[t.sent + i - 1] \in Bytes
  BY <1>2 DEF Tags
<1>4. Unsent(t) \in [1..n -> Bytes]
  BY <1>3 DEF Unsent
<1> QED
  BY SMTT(60), <1>1, <1>4, FcnIsSeq

(* One write(2) of io61_flush(): n of the bytes out. *)
Flushes(p, s, n) ==
    LET c == call[p]  t == str[s]  d == Data(s)  out == Unsent(t) IN
    /\ out \in Seq(Bytes) /\ Len(out) = t.pos - t.beg - t.sent
    /\ n \in 0..Len(out) /\ (n = Len(out) \/ Kind(s) = "pipe")
    /\ Kind(s) = "pipe" => Len(d) + n <= PipeSize
    /\ file' = [file EXCEPT ![t.file].data =
                  Laid(d, IF Kind(s) = "pipe" THEN Len(d) ELSE t.off, SubSeq(out, 1, n))]
    /\ IF n < Len(out)
       THEN str' = [str EXCEPT ![s] = [t EXCEPT !.sent = t.sent + n]] /\ UNCHANGED call
       ELSE /\ str' = [str EXCEPT ![s] = [t EXCEPT !.beg = t.pos, !.sent = 0,
                         !.off = IF Kind(s) = "pipe" THEN 0 ELSE t.off + n]]
            /\ call' = [call EXCEPT ![p].at = IF c.op = "flush" THEN "done" ELSE "run"]

LEMMA FlushIs ==
    ASSUME IInv, NEW p \in Procs, FlushStep(p)
    PROVE  call[p].at = "flush" /\ \E n : Flushes(p, call[p].stream, n)
<1> DEFINE c == call[p]
           s == c.stream
           t == str[s]
           d == Data(s)
           out == Unsent(t)
<1>1. c.at = "flush"
  BY Zenon DEF FlushStep
<1>2. /\ c \in CallType /\ s \in Streams /\ t \in StreamType /\ d \in Seq(Bytes)
      /\ CallRight(p, c, t, Kind(s)) /\ StreamRight(t, Kind(s), d)
  BY <1>1, CallerIs
<1>3. t.mode = "w"
  BY <1>1, <1>2 DEF CallRight
<1>4. out \in Seq(Bytes) /\ Len(out) = t.pos - t.beg - t.sent /\ Len(out) \in Nat
  BY <1>2, <1>3, UnsentIs DEF StreamRight
<1>5. PICK n \in IF Kind(s) # "pipe" THEN {Len(out)} ELSE {Least(Len(out), PipeSize - Len(d))} :
         /\ out = <<>> \/ n > 0
         /\ file' = Stored(s, SubSeq(out, 1, n))
         /\ IF n < Len(out)
            THEN str' = [str EXCEPT ![s].sent = @ + n] /\ UNCHANGED call
            ELSE /\ str' = [str EXCEPT ![s].beg = str[s].pos, ![s].sent = 0,
                              ![s].off = IF Kind(s) = "pipe" THEN 0 ELSE @ + n]
                 /\ call' = [call EXCEPT ![p].at = IF c.op = "flush" THEN "done" ELSE "run"]
  BY Zenon DEF FlushStep
<1>6. /\ n \in 0..Len(out) /\ (n = Len(out) \/ Kind(s) = "pipe")
      /\ Kind(s) = "pipe" => Len(d) + n <= PipeSize
  <2>1. CASE Kind(s) # "pipe"
    <3>1. n = Len(out)
      BY Zenon, <1>5, <2>1
    <3> QED
      BY <1>4, <2>1, <3>1
  <2>2. CASE Kind(s) = "pipe"
    <3>1. n = Least(Len(out), PipeSize - Len(d))
      BY Zenon, <1>5, <2>2
    <3>2. Len(d) \in Nat /\ Len(d) <= PipeSize
      BY <1>2, <2>2 DEF StreamRight
    <3> HIDE DEF out, d
    <3> QED
      BY <1>4, <2>2, <3>1, <3>2, SizesAssumption DEF Least
  <2> QED
    BY <2>1, <2>2
<1>7. file' = [file EXCEPT ![t.file].data =
                 Laid(d, IF Kind(s) = "pipe" THEN Len(d) ELSE t.off, SubSeq(out, 1, n))]
  BY Zenon, <1>5, StoredIs
<1>8. IF n < Len(out)
      THEN str' = [str EXCEPT ![s] = [t EXCEPT !.sent = t.sent + n]] /\ UNCHANGED call
      ELSE /\ str' = [str EXCEPT ![s] = [t EXCEPT !.beg = t.pos, !.sent = 0,
                        !.off = IF Kind(s) = "pipe" THEN 0 ELSE t.off + n]]
           /\ call' = [call EXCEPT ![p].at = IF c.op = "flush" THEN "done" ELSE "run"]
  BY Zenon, <1>2, <1>5 DEF IInv, Typed, StreamType
<1> QED
  BY Zenon, <1>1, <1>4, <1>6, <1>7, <1>8 DEF Flushes

(* In a pipe the bytes go to the end. *)
LEMMA LaidBehind ==
    ASSUME NEW d \in Seq(Bytes), NEW bs \in Seq(Bytes)
    PROVE  Laid(d, Len(d), bs) = d \o bs
<1>1. Len(d) \in Nat /\ Len(bs) \in Nat /\ (bs = <<>> <=> Len(bs) = 0)
  OBVIOUS
<1>2. /\ d \o bs \in Seq(Bytes) /\ Len(d \o bs) = Len(d) + Len(bs)
      /\ \A i \in 1..Len(d) + Len(bs) :
           (d \o bs)[i] = IF i <= Len(d) THEN d[i] ELSE bs[i - Len(d)]
  BY JoinIs
<1>3. PICK x : x = Laid(d, Len(d), bs)
  OBVIOUS
<1>4. /\ x \in Seq(Bytes) /\ Len(x) = Len(d) + Len(bs)
      /\ \A i \in 1..Len(x) : x[i] = IF i > Len(d) /\ i <= Len(d) + Len(bs) THEN bs[i - Len(d)]
                                     ELSE IF i <= Len(d) THEN d[i] ELSE 0
  BY <1>1, <1>3, LaidIs
<1>5. \A i \in 1..Len(x) : x[i] = (d \o bs)[i]
  BY <1>1, <1>2, <1>4
<1> QED
  BY <1>2, <1>3, <1>4, <1>5, SeqSame

(* Nothing laid over a file leaves it as it is. *)
LEMMA LaidNothing ==
    ASSUME NEW d \in Seq(Bytes), NEW at \in Nat, NEW bs \in Seq(Bytes), Len(bs) = 0
    PROVE  Laid(d, at, bs) = d
<1>1. PICK x : x = Laid(d, at, bs)
  OBVIOUS
<1>2. bs = <<>>
  OBVIOUS
<1>3. x \in Seq(Bytes)
  BY <1>1, LaidIs
<1>4. Len(x) = IF bs # <<>> /\ at + Len(bs) > Len(d) THEN at + Len(bs) ELSE Len(d)
  BY <1>1, LaidIs
<1>5. \A i \in 1..Len(x) : x[i] = IF i > at /\ i <= at + Len(bs) THEN bs[i - at]
                                 ELSE IF i <= Len(d) THEN d[i] ELSE 0
  BY Zenon, <1>1, LaidIs
<1>6. Len(x) = Len(d)
  BY <1>2, <1>4
<1>7. \A i \in 1..Len(x) : x[i] = d[i]
  BY <1>5, <1>6
<1> QED
  BY <1>1, <1>3, <1>6, <1>7, SeqSame

LEMMA FlushSound ==
    ASSUME IInv, NEW p \in Procs, FlushStep(p)
    PROVE  IInv'
<1> DEFINE c == call[p]
           s == c.stream
           t == str[s]
           d == Data(s)
           out == Unsent(t)
<1>1. c.at = "flush" /\ \E n : Flushes(p, s, n)
  BY FlushIs
<1>2. PICK n : Flushes(p, s, n)
  BY <1>1
<1>3. /\ c \in CallType /\ s \in Streams /\ t \in StreamType /\ d \in Seq(Bytes)
      /\ CallRight(p, c, t, Kind(s)) /\ StreamRight(t, Kind(s), d)
      /\ t.proc = p /\ t.open = "open"
  BY <1>1, CallerIs
<1>4. call \in [Procs -> CallType] /\ str \in [Streams -> StreamType]
  BY DEF IInv, Typed
<1>5. t.mode = "w" /\ c.op \in Writes \cup {"flush", "seek", "close"}
      /\ (c.op \in Writes => c.left # <<>>) /\ c.ok = TRUE
  BY <1>1, <1>3 DEF CallRight
<1>6. /\ out \in Seq(Bytes) /\ Len(out) = t.pos - t.beg - t.sent /\ Len(out) \in Nat
      /\ n \in 0..Len(out) /\ (n = Len(out) \/ Kind(s) = "pipe")
      /\ Kind(s) = "pipe" => Len(d) + n <= PipeSize
  <2>1. /\ out \in Seq(Bytes) /\ Len(out) = t.pos - t.beg - t.sent
        /\ n \in 0..Len(out) /\ (n = Len(out) \/ Kind(s) = "pipe")
        /\ Kind(s) = "pipe" => Len(d) + n <= PipeSize
    BY Zenon, <1>2 DEF Flushes
  <2> HIDE DEF out, d, t, s, c
  <2>2. Len(out) \in Nat
    BY <2>1
  <2> QED
    BY Zenon, <2>1, <2>2
<1>7. /\ t.pos \in Int /\ t.beg \in Int /\ t.end \in Int /\ t.sent \in Nat /\ t.off \in Nat
      /\ t.pos = t.end /\ n \in Nat /\ Tags(t)
  <2>1. /\ t.pos \in Int /\ t.beg \in Int /\ t.end \in Int /\ t.sent \in Nat /\ t.off \in Nat
    BY Zenon, <1>3 DEF StreamType
  <2>2. t.pos = t.end /\ Tags(t)
    BY Zenon, <1>3, <1>5 DEF StreamRight, Tags
  <2>3. n \in Nat
    <3> HIDE DEF c, s, t, d, out
    <3> QED
      BY <1>6
  <2> QED
    BY Zenon, <2>1, <2>2, <2>3
<1>8. PICK e : e = Laid(d, IF Kind(s) = "pipe" THEN Len(d) ELSE t.off, SubSeq(out, 1, n))
  OBVIOUS
<1>9. e \in Seq(Bytes) /\ (Kind(s) = "pipe" => Len(e) <= PipeSize)
  <2>1. PICK bs : bs = SubSeq(out, 1, n)
    OBVIOUS
  <2> HIDE DEF out, d
  <2>2. bs \in Seq(Bytes) /\ Len(bs) = n
    BY <1>6, <1>7, <2>1
  <2>3. e \in Seq(Bytes)
    <3>1. (IF Kind(s) = "pipe" THEN Len(d) ELSE t.off) \in Nat
      BY <1>3, <1>7
    <3> QED
      BY <1>3, <1>8, <2>1, <2>2, <3>1, LaidIs
  <2>4. ASSUME Kind(s) = "pipe" PROVE Len(e) <= PipeSize
    <3>1. e = d \o bs
      BY <1>3, <1>8, <2>1, <2>2, <2>4, LaidBehind
    <3>2. Len(e) = Len(d) + n
      BY <1>3, <2>2, <3>1, JoinIs
    <3> QED
      BY <1>6, <2>4, <3>2
  <2> QED
    BY <2>3, <2>4
<1>10. file' = [file EXCEPT ![t.file].data = e]
  BY Zenon, <1>2, <1>8 DEF Flushes
<1>11. CASE n < Len(out)
  <2> DEFINE u == [t EXCEPT !.sent = t.sent + n]
  <2>1. str' = [str EXCEPT ![s] = u] /\ call' = [call EXCEPT ![p] = c]
    BY <1>2, <1>4, <1>11 DEF Flushes
  <2>2. /\ u \in StreamType /\ u.sent = t.sent + n /\ u.mode = "w" /\ u.beg = t.beg /\ u.pos = t.pos
        /\ u.end = t.end /\ u.buf = t.buf /\ u.off = t.off /\ u.open = "open" /\ u.proc = p
        /\ u.file = t.file
    <3> HIDE DEF t
    <3>1. t.sent + n \in Nat
      BY <1>7
    <3> QED
      BY <1>3, <1>5, <3>1 DEF StreamType
  <2>3. Kind(s) = "pipe"
    BY <1>6, <1>7, <1>11
  <2> HIDE DEF u, c
  <2>4. Tags(u)
    <3>1. t.sent + n \in 0..t.end - t.beg
      BY SMTT(60), <1>6, <1>7, <1>11
    <3> QED
      BY <1>7, <2>2, <3>1 DEF Tags
  <2>5. StreamRight(u, Kind(s), e)
    BY <1>3, <1>9, <2>2, <2>3, <2>4 DEF StreamRight, WriterRight, ReaderRight
  <2>6. CallRight(p, c, u, Kind(s))
    BY <1>1, <1>3, <2>2 DEF CallRight, c
  <2>7. Moves(p, s, u, e, c)
    BY Zenon, <1>1, <1>3, <1>5, <1>10, <2>1, <2>2 DEF Moves, c
  <2>8. Keeps(p, s, u, e, c)
    BY <1>1, <1>3, <1>9, <2>2, <2>5, <2>6 DEF Keeps, c
  <2> QED
    BY <2>7, <2>8, MoveSound
<1>12. CASE ~(n < Len(out))
  <2>1. PICK a : a = IF c.op = "flush" THEN "done" ELSE "run"
    OBVIOUS
  <2>2. PICK o : o = IF Kind(s) = "pipe" THEN 0 ELSE t.off + n
    OBVIOUS
  <2> DEFINE u == [t EXCEPT !.beg = t.pos, !.sent = 0, !.off = o]
             h == [c EXCEPT !.at = a]
  <2>3. str' = [str EXCEPT ![s] = u] /\ call' = [call EXCEPT ![p] = h]
    BY Zenon, <1>2, <1>4, <1>12, <2>1, <2>2 DEF Flushes
  <2>4. o \in Nat
    BY <1>7, <2>2
  <2>5. /\ u \in StreamType /\ u.sent = 0 /\ u.mode = "w" /\ u.beg = t.pos /\ u.pos = t.pos
        /\ u.end = t.end /\ u.off = o /\ u.open = "open" /\ u.proc = p
        /\ u.file = t.file
    BY Zenon, <1>3, <1>5, <1>7, <2>4 DEF StreamType
  <2>6. h \in CallType /\ h.stream = s /\ h.at = a /\ h.op = c.op /\ h.left = c.left
        /\ h.ok = c.ok
    BY <1>3, <2>1 DEF CallType
  <2> HIDE DEF u, h, c
  <2>7. Tags(u)
    <3>1. u.end - u.beg = 0
      BY <1>7, <2>5
    <3> QED
      BY <1>7, <2>5, <3>1, SizesAssumption DEF Tags
  <2>8. StreamRight(u, Kind(s), e)
    BY <1>3, <1>5, <1>9, <2>2, <2>5, <2>7 DEF StreamRight, WriterRight, ReaderRight
  <2>9. CallRight(p, h, u, Kind(s))
    BY <1>5, <2>1, <2>5, <2>6 DEF CallRight, Reads, Writes
  <2>10. Moves(p, s, u, e, h)
    BY Zenon, <1>1, <1>3, <1>5, <1>10, <2>3, <2>5, <2>6 DEF Moves, c
  <2>11. Keeps(p, s, u, e, h)
    BY <1>9, <2>5, <2>6, <2>8, <2>9 DEF Keeps
  <2> QED
    BY <2>10, <2>11, MoveSound
<1> QED
  BY <1>11, <1>12

------------------------------------------------------------------------------
(* Seeking.                                                                  *)

(* A stream that was filled from offset new, for a position at most bufsize *)
(* behind it.                                                               *)
Sought(s, t, new, bs, pos) ==
    [Filled(s, [(IF Kind(s) = "reg" THEN [t EXCEPT !.off = new] ELSE t) EXCEPT !.end = new], bs)
       EXCEPT !.pos = pos]

(* What io61_seek() does: nothing but move in the buffer; rebase a stream   *)
(* for writing; or fill one for reading.                                    *)
Seeks(p, s, bs) ==
    LET t == str[s]  pos == call[p].want  new == (pos \div BufSize) * BufSize IN
    \/ /\ t.mode = "r" /\ t.beg <= pos /\ pos < t.end
       /\ str' = [str EXCEPT ![s] = [t EXCEPT !.pos = pos]]
       /\ call' = [call EXCEPT ![p].at = "done"] /\ UNCHANGED file
    \/ /\ ~InBuffer(t, pos)
       /\ call' = [call EXCEPT ![p].ok = (Kind(s) = "reg"), ![p].at = "done"]
       /\ \/ /\ t.mode = "w" /\ t.beg = t.pos
             /\ str' = [str EXCEPT ![s] = [t EXCEPT !.off = IF Kind(s) = "reg" THEN pos ELSE @,
                                                    !.beg = pos, !.pos = pos, !.end = pos]]
             /\ UNCHANGED file
          \/ /\ t.mode = "r" /\ Kind(s) # "pipe"
             /\ new \in Nat /\ new <= pos /\ pos < new + BufSize
             /\ Follows(bs, Data(s), new) /\ (Len(bs) < BufSize /\ Kind(s) = "reg" => new + Len(bs) >= Len(Data(s)))
             /\ Kind(s) # "reg" => pos = 0 /\ t.off = 0
             /\ str' = [str EXCEPT ![s] = Sought(s, t, new, bs, pos)]
             /\ UNCHANGED file

(* The block of bufsize bytes that pos is in. *)
LEMMA BlockOf ==
    ASSUME NEW pos \in Nat
    PROVE  LET new == (pos \div BufSize) * BufSize IN
           new \in Nat /\ new <= pos /\ pos < new + BufSize
<1>1. PICK b \in Nat : b = BufSize /\ b # 0
  BY SizesAssumption
<1>2. PICK q \in Nat : q = pos \div b
  BY <1>1
<1>3. PICK r \in Nat : r = pos % b
  BY <1>1
<1>4. pos = b * q + r /\ r < b
  BY <1>1, <1>2, <1>3
<1>5. b * q \in Nat /\ b * q = q * b
  BY <1>1
<1> QED
  BY <1>1, <1>2, <1>4, <1>5

LEMMA SeekIs ==
    ASSUME IInv, NEW p \in Procs, SeekStep(p)
    PROVE  call[p].at = "run" /\ call[p].op = "seek" /\ \E bs : Seeks(p, call[p].stream, bs)
<1> DEFINE c == call[p]
           s == c.stream
           t == str[s]
           d == Data(s)
           pos == c.want
           new == (pos \div BufSize) * BufSize
<1>1. c.at = "run" /\ c.op = "seek"
  BY Zenon DEF SeekStep, Running
<1>2. /\ c \in CallType /\ s \in Streams /\ t \in StreamType /\ d \in Seq(Bytes)
      /\ CallRight(p, c, t, Kind(s)) /\ StreamRight(t, Kind(s), d) /\ Kind(s) \in Kinds
  BY <1>1, CallerIs
<1>3. /\ pos \in Nat /\ t.beg \in Int /\ t.pos \in Int /\ t.end \in Int /\ t.off \in Nat
      /\ t.mode \in {"r", "w"}
  BY <1>2 DEF CallType, StreamType
<1>4. new \in Nat /\ new <= pos /\ pos < new + BufSize
  BY <1>3, BlockOf
<1>5. t.mode = "w" => t.beg = t.pos /\ t.pos = t.end
  BY <1>1, <1>2 DEF CallRight, StreamRight, Tags
<1>6. CASE InBuffer(t, pos)
  <2>1. t.beg <= pos /\ pos < t.end
    BY <1>3, <1>6 DEF InBuffer
  <2>2. t.mode = "r"
    BY <1>3, <1>5, <2>1
  <2>3. /\ str' = [str EXCEPT ![s].pos = pos]
        /\ call' = [call EXCEPT ![p].at = "done"] /\ UNCHANGED file
    BY <1>6 DEF SeekStep, Return
  <2>4. str' = [str EXCEPT ![s] = [t EXCEPT !.pos = pos]]
    BY <2>3
  <2> QED
    BY <1>1, <2>1, <2>2, <2>3, <2>4 DEF Seeks
<1>7. CASE ~InBuffer(t, pos) /\ t.mode = "w"
  <2>1. /\ call' = [call EXCEPT ![p].ok = (Kind(s) = "reg"), ![p].at = "done"]
        /\ str' = [str EXCEPT ![s] =
             Rebased(IF Kind(s) = "reg" THEN [t EXCEPT !.off = pos] ELSE t, pos)]
        /\ UNCHANGED file
    BY <1>7 DEF SeekStep
  <2>2. Rebased(IF Kind(s) = "reg" THEN [t EXCEPT !.off = pos] ELSE t, pos)
          = [t EXCEPT !.off = IF Kind(s) = "reg" THEN pos ELSE @, !.beg = pos, !.pos = pos, !.end = pos]
    <3> HIDE DEF t, pos
    <3>1. CASE Kind(s) = "reg"
      BY <1>2, <3>1 DEF Rebased, StreamType
    <3>2. CASE Kind(s) # "reg"
      BY <1>2, <3>2 DEF Rebased, StreamType
    <3> QED
      BY <3>1, <3>2
  <2> QED
    BY Zenon, <1>1, <1>5, <1>7, <2>1, <2>2 DEF Seeks
<1>8. CASE ~InBuffer(t, pos) /\ t.mode = "r"
  <2> DEFINE v == [(IF Kind(s) = "reg" THEN [t EXCEPT !.off = new] ELSE t) EXCEPT !.end = new]
  <2>1. PICK bs \in IF Kind(s) # "reg" THEN ReadReturns(s)
                    ELSE {SubSeq(d, new + 1, Least(new + BufSize, Len(d)))} :
          /\ str' = [str EXCEPT ![s] = [Filled(s, v, bs) EXCEPT !.pos = pos]]
          /\ file' = Taken(s, bs)
    BY Zenon, <1>8 DEF SeekStep
  <2>2. call' = [call EXCEPT ![p].ok = (Kind(s) = "reg"), ![p].at = "done"]
    BY Zenon, <1>8 DEF SeekStep
  <2>3. Kind(s) # "reg" => Kind(s) # "pipe" /\ pos = 0 /\ t.off = 0
    BY <1>1, <1>2, <1>8 DEF CallRight
  <2>4. UNCHANGED file /\ Kind(s) # "pipe"
    BY Zenon, <2>1, <2>3 DEF Taken
  <2>5. Follows(bs, d, new) /\ (Len(bs) < BufSize /\ Kind(s) = "reg" => new + Len(bs) >= Len(d))
    <3>1. CASE Kind(s) = "reg"
      <4>1. bs = SubSeq(d, new + 1, Least(new + BufSize, Len(d)))
        BY Zenon, <2>1, <3>1
      <4>2. PICK m \in Nat : m = Least(new + BufSize, Len(d)) /\ m <= Len(d) /\ m <= new + BufSize
                             /\ (m = Len(d) \/ m = new + BufSize)
        <5> HIDE DEF d, new
        <5> QED
          BY <1>2, <1>4, SizesAssumption DEF Least
      <4>3. CASE new <= m
        <5> HIDE DEF d, new
        <5>1. /\ bs \in Seq(Bytes) /\ Len(bs) = m - new
              /\ \A i \in 1..m - new : bs[i] = d[new + i]
          <6>1. bs = SubSeq(d, new + 1, m)
            BY <4>1, <4>2
          <6>2. d \in Seq(Bytes) /\ new \in Nat /\ new <= m /\ m <= Len(d)
            BY <1>2, <1>4, <4>2, <4>3
          <6> HIDE DEF c
          <6> QED
            BY <6>1, <6>2, PieceOf
        <5>2. bs # <<>> => new + Len(bs) <= Len(d)
          BY <1>2, <1>4, <4>2, <4>3, <5>1
        <5>3. Len(bs) <= BufSize /\ (Len(bs) < BufSize => new + Len(bs) >= Len(d))
          BY <1>2, <1>4, <4>2, <4>3, <5>1, SizesAssumption
        <5> QED
          BY <5>1, <5>2, <5>3 DEF Follows
      <4>4. CASE new > m
        <5> HIDE DEF d, new
        <5>1. bs = <<>>
          BY <1>2, <1>4, <4>1, <4>2, <4>4
        <5>2. bs \in Seq(Bytes) /\ Len(bs) = 0
          BY <5>1
        <5>3. new >= Len(d)
          BY <1>2, <1>4, <4>2, <4>4, SizesAssumption
        <5> QED
          BY <1>2, <1>4, <5>1, <5>2, <5>3, SizesAssumption DEF Follows
      <4> QED
        BY <1>4, <4>2, <4>3, <4>4
    <3>2. CASE Kind(s) # "reg"
      <4>1. Kind(s) = "bad" => d = <<>>
        BY <1>2 DEF StreamRight
      <4>2. bs \in ReadReturns(s)
        BY <2>1, <3>2
      <4>3. Follows(bs, d, t.off)
        BY <1>2, <4>1, <4>2, ReturnsAre
      <4>4. new = t.off
        BY <1>4, <2>3, <3>2
      <4> QED
        BY <3>2, <4>3, <4>4
    <3> QED
      BY <3>1, <3>2
  <2> QED
    BY Zenon, <1>1, <1>4, <1>8, <2>1, <2>2, <2>3, <2>4, <2>5 DEF Seeks, Sought
<1> QED
  BY <1>3, <1>6, <1>7, <1>8

LEMMA SeekSound ==
    ASSUME IInv, NEW p \in Procs, SeekStep(p)
    PROVE  IInv'
<1> DEFINE c == call[p]
           s == c.stream
           t == str[s]
           d == Data(s)
           pos == c.want
           new == (pos \div BufSize) * BufSize
<1>1. c.at = "run" /\ c.op = "seek"
  BY SeekIs
<1>2. PICK bs : Seeks(p, s, bs)
  BY SeekIs
<1>3. /\ c \in CallType /\ s \in Streams /\ t \in StreamType /\ d \in Seq(Bytes)
      /\ CallRight(p, c, t, Kind(s)) /\ StreamRight(t, Kind(s), d) /\ Kind(s) \in Kinds
      /\ t.proc = p /\ t.open = "open"
  BY <1>1, CallerIs
<1>4. call \in [Procs -> CallType] /\ str \in [Streams -> StreamType]
  BY DEF IInv, Typed
<1>5. /\ pos \in Nat /\ t.beg \in Int /\ t.pos \in Int /\ t.end \in Int /\ t.off \in Nat
      /\ t.sent \in Nat
  BY <1>3 DEF CallType, StreamType
<1>6. UNCHANGED file
  BY <1>2 DEF Seeks
<1>7. file' = [file EXCEPT ![t.file].data = d]
  BY <1>3, <1>6, SameFile
<1>8. PICK ok \in BOOLEAN : call' = [call EXCEPT ![p] = [c EXCEPT !.ok = ok, !.at = "done"]]
  <2>1. CASE call' = [call EXCEPT ![p].at = "done"]
    <3>1. c.ok \in BOOLEAN
      BY <1>3 DEF CallType
    <3>2. call' = [call EXCEPT ![p] = [c EXCEPT !.ok = c.ok, !.at = "done"]]
      BY <1>3, <1>4, <2>1 DEF CallType
    <3> QED
      BY Zenon, <3>1, <3>2
  <2>2. CASE call' = [call EXCEPT ![p].ok = (Kind(s) = "reg"), ![p].at = "done"]
    <3>1. PICK ok \in BOOLEAN : ok = (Kind(s) = "reg")
      OBVIOUS
    <3>2. call' = [call EXCEPT ![p] = [c EXCEPT !.ok = ok, !.at = "done"]]
      BY <1>4, <2>2, <3>1
    <3> QED
      BY Zenon, <3>2
  <2> QED
    BY Zenon, <1>2, <2>1, <2>2 DEF Seeks
<1> DEFINE e == [c EXCEPT !.ok = ok, !.at = "done"]
<1>9. e \in CallType /\ e.stream = s /\ e.at = "done"
  BY <1>3 DEF CallType
<1>10. call' = [call EXCEPT ![p] = e]
  BY <1>8
<1> HIDE DEF e
<1>11. ASSUME NEW u \in StreamType, str' = [str EXCEPT ![s] = u], StreamRight(u, Kind(s), d),
              u.file = t.file, u.mode = t.mode, u.proc = t.proc, u.sent = 0
       PROVE  IInv'
  <2>1. CallRight(p, e, u, Kind(s))
    BY <1>9 DEF CallRight
  <2>2. Moves(p, s, u, d, e)
    BY <1>1, <1>7, <1>9, <1>10, <1>11 DEF Moves
  <2>3. Keeps(p, s, u, d, e)
    BY <1>3, <1>9, <1>11, <2>1 DEF Keeps
  <2> QED
    BY <2>2, <2>3, MoveSound
<1>12. CASE /\ t.mode = "r" /\ t.beg <= pos /\ pos < t.end
            /\ str' = [str EXCEPT ![s] = [t EXCEPT !.pos = pos]]
  <2> DEFINE u == [t EXCEPT !.pos = pos]
  <2>1. pos \in Int /\ ~(pos > t.end)
    BY <1>5, <1>12
  <2>2. u \in StreamType /\ StreamRight(u, Kind(s), d)
    <3> HIDE DEF pos, t, d
    <3> QED
      BY <1>3, <1>12, <2>1, PosRight
  <2>3. u.file = t.file /\ u.mode = t.mode /\ u.proc = t.proc /\ u.sent = t.sent
    BY <1>3 DEF StreamType
  <2>4. t.sent = 0
    BY <1>3, <1>12 DEF StreamRight, ReaderRight
  <2>5. str' = [str EXCEPT ![s] = u]
    BY <1>12
  <2> HIDE DEF u
  <2> QED
    BY <1>11, <2>2, <2>3, <2>4, <2>5
<1>13. CASE /\ t.mode = "w" /\ t.beg = t.pos
            /\ str' = [str EXCEPT ![s] = [t EXCEPT !.off = IF Kind(s) = "reg" THEN pos ELSE @,
                                                  !.beg = pos, !.pos = pos, !.end = pos]]
  <2>1. PICK o : o = IF Kind(s) = "reg" THEN pos ELSE t.off
    OBVIOUS
  <2> DEFINE u == [t EXCEPT !.off = o, !.beg = pos, !.pos = pos, !.end = pos]
  <2>2. str' = [str EXCEPT ![s] = u]
    BY <1>13, <2>1
  <2>3. o \in Nat
    BY <1>5, <2>1
  <2>4. /\ u \in StreamType /\ u.beg = pos /\ u.pos = pos /\ u.end = pos /\ u.off = o
        /\ u.file = t.file /\ u.mode = t.mode /\ u.proc = t.proc /\ u.sent = t.sent /\ u.open = "open"
    <3> HIDE DEF pos, t
    <3>1. pos \in Int
      BY <1>5
    <3>2. u = [t EXCEPT !.off = o, !.beg = pos, !.pos = pos, !.end = pos]
      OBVIOUS
    <3> HIDE DEF u
    <3>3. t \in StreamType /\ t.open = "open"
      BY <1>3
    <3> QED
      BY <2>3, <3>1, <3>2, <3>3 DEF StreamType
  <2>5. t.sent = 0
    <3>1. t.pos = t.end /\ t.sent \in 0..t.end - t.beg
      BY Zenon, <1>3, <1>13 DEF StreamRight, Tags
    <3> QED
      BY <1>5, <1>13, <3>1
  <2> HIDE DEF u, pos, t
  <2>6. Tags(u)
    BY <1>5, <2>4, <2>5, SizesAssumption DEF Tags
  <2>7. StreamRight(u, Kind(s), d)
    BY <1>3, <1>13, <2>1, <2>4, <2>5, <2>6 DEF StreamRight, WriterRight, ReaderRight
  <2> QED
    BY <1>11, <2>2, <2>4, <2>5, <2>7
<1>14. CASE /\ t.mode = "r" /\ Kind(s) # "pipe"
            /\ new \in Nat /\ new <= pos /\ pos < new + BufSize
            /\ Follows(bs, d, new) /\ (Len(bs) < BufSize /\ Kind(s) = "reg" => new + Len(bs) >= Len(d))
            /\ Kind(s) # "reg" => pos = 0 /\ t.off = 0
            /\ str' = [str EXCEPT ![s] = Sought(s, t, new, bs, pos)]
  <2>1. PICK o : o = IF Kind(s) = "reg" THEN new ELSE t.off
    OBVIOUS
  <2> DEFINE v == [t EXCEPT !.off = o, !.end = new]
             x == Filled(s, v, bs)
             u == [x EXCEPT !.pos = pos]
  <2>2. o = new
    <3> HIDE DEF t, pos, new
    <3> QED
      BY <1>5, <1>14, <2>1
  <2>3. Sought(s, t, new, bs, pos) = u
    <3> HIDE DEF t, pos, new
    <3>1. CASE Kind(s) = "reg"
      BY <1>3, <2>1, <3>1 DEF Sought, StreamType
    <3>2. CASE Kind(s) # "reg"
      BY <1>3, <2>1, <3>2 DEF Sought, StreamType
    <3> QED
      BY <3>1, <3>2
  <2>4. str' = [str EXCEPT ![s] = u]
    BY <1>14, <2>3
  <2>5. /\ v \in StreamType /\ v.off = new /\ v.end = new /\ v.mode = "r" /\ v.sent = t.sent
        /\ v.file = t.file /\ v.proc = p
    <3> HIDE DEF pos, t, new
    <3>1. new \in Int /\ o \in Nat
      BY <1>14, <2>2
    <3>2. v = [t EXCEPT !.off = o, !.end = new]
      OBVIOUS
    <3> HIDE DEF v
    <3>3. t \in StreamType /\ t.proc = p /\ t.mode = "r"
      BY <1>3, <1>14
    <3> QED
      BY <2>2, <3>1, <3>2, <3>3 DEF StreamType
  <2>6. t.sent = 0 /\ Len(d) <= -ASanTag /\ (Kind(s) = "bad" => d = <<>>)
    BY Zenon, <1>3, <1>14 DEF StreamRight, ReaderRight
  <2> HIDE DEF v, t, pos, new, d
  <2>7. StreamRight(x, Kind(s), d)
    BY <1>3, <1>14, <2>5, <2>6, FillRight
  <2>8. bs \in Seq(Bytes) /\ Len(bs) <= BufSize /\ Len(bs) \in Nat
    BY <1>14 DEF Follows
  <2>9. /\ x \in StreamType /\ x.file = t.file /\ x.mode = "r" /\ x.proc = p /\ x.sent = 0
        /\ x.beg = new /\ x.end = new + Len(bs) /\ x.off = new + Len(bs)
    BY <1>3, <1>14, <2>5, <2>6, <2>8, FilledIs
  <2> HIDE DEF x
  <2>10. pos > x.end => Kind(s) = "reg" /\ x.end = x.off /\ x.off >= Len(d)
    <3>1. Len(d) \in Nat
      BY <1>3
    <3> QED
      BY <1>5, <1>14, <2>8, <2>9, <3>1, SizesAssumption
  <2>11. pos \in Int /\ x.beg <= pos
    BY <1>5, <1>14, <2>9
  <2>12. u \in StreamType /\ StreamRight(u, Kind(s), d)
    BY <2>7, <2>9, <2>10, <2>11, PosRight
  <2>13. u.file = t.file /\ u.mode = t.mode /\ u.proc = t.proc /\ u.sent = 0
    BY <1>3, <1>14, <2>9 DEF StreamType
  <2> HIDE DEF u
  <2> QED
    BY <1>11, <2>4, <2>12, <2>13 DEF d, t
<1> QED
  BY Zenon, <1>2, <1>12, <1>13, <1>14 DEF Seeks

------------------------------------------------------------------------------
(* Closing, calling and dying.                                               *)

LEMMA CloseSound ==
    ASSUME IInv, NEW p \in Procs, CloseStep(p)
    PROVE  IInv'
<1> DEFINE c == call[p]
           s == c.stream
           t == str[s]
           d == Data(s)
           u == [t EXCEPT !.open = "closed"]
           e == [c EXCEPT !.at = "done"]
<1>1. c.at = "run" /\ c.op = "close"
  BY DEF CloseStep, Running
<1>2. /\ c \in CallType /\ s \in Streams /\ t \in StreamType /\ d \in Seq(Bytes)
      /\ CallRight(p, c, t, Kind(s)) /\ StreamRight(t, Kind(s), d)
      /\ t.proc = p /\ t.open = "open"
  BY <1>1, CallerIs
<1>3. call \in [Procs -> CallType] /\ str \in [Streams -> StreamType]
  BY DEF IInv, Typed
<1>4. str' = [str EXCEPT ![s] = u] /\ call' = [call EXCEPT ![p] = e] /\ UNCHANGED file
  BY <1>2, <1>3 DEF CloseStep, Return
<1>5. file' = [file EXCEPT ![t.file].data = d]
  BY Zenon, <1>2, <1>4, SameFile
<1>6. e \in CallType /\ e.stream = s /\ e.at = "done"
  BY <1>2 DEF CallType
<1>7. /\ u \in StreamType /\ u.file = t.file /\ u.mode = t.mode /\ u.proc = t.proc /\ u.sent = t.sent
      /\ u.beg = t.beg /\ u.pos = t.pos /\ u.end = t.end /\ u.off = t.off /\ u.buf = t.buf
  <2> HIDE DEF t
  <2> QED
    BY <1>2 DEF StreamType
<1>8. t.mode = "w" => t.beg = t.pos
  BY <1>1, <1>2 DEF CallRight
<1> HIDE DEF e, u
<1>9. t.sent = 0
  <2>1. CASE t.mode = "r"
    BY <1>2, <2>1 DEF StreamRight, ReaderRight
  <2>2. CASE t.mode = "w"
    BY <1>1, <1>2 DEF IInv, SentRight
  <2> QED
    BY <1>2, <2>1, <2>2 DEF StreamType
<1>10. Tags(u) /\ (Mirrors(t, d) => Mirrors(u, d))
  BY Zenon, <1>2, <1>7 DEF StreamRight, Tags, Mirrors
<1>11. StreamRight(u, Kind(s), d)
  <2>1. ReaderRight(u, Kind(s), d)
    <3> HIDE DEF t, d, s
    <3> QED
      BY <1>2, <1>7, <1>10 DEF StreamRight, ReaderRight
  <2>2. WriterRight(u, Kind(s))
    BY <1>7, <1>8, <1>9 DEF WriterRight
  <2> QED
    BY <1>2, <1>7, <1>10, <2>1, <2>2 DEF StreamRight
<1>12. CallRight(p, e, u, Kind(s))
  BY <1>6 DEF CallRight
<1>13. Moves(p, s, u, d, e)
  BY Zenon, <1>1, <1>4, <1>5, <1>6, <1>7 DEF Moves
<1>14. Keeps(p, s, u, d, e)
  BY <1>2, <1>6, <1>7, <1>9, <1>11, <1>12 DEF Keeps
<1> QED
  BY <1>13, <1>14, MoveSound

LEMMA CallSound ==
    ASSUME IInv, NEW p \in Procs, Call(p)
    PROVE  IInv'
<1>1. PICK c \in Requests : Idle(p) /\ WellAsked(p, c) /\ InFile(c) /\ Make(p, c)
  BY DEF Call
<1> DEFINE s == c.stream
           t == str[s]
<1>2. UNCHANGED <<file, str>>
  BY <1>1 DEF Make
<1>3. /\ c.op \in Ops \ {"none"} /\ s \in Streams /\ c.want \in Nat /\ c.left \in Seq(Bytes)
      /\ c.op \in Reads => c.left = <<>>
      /\ c.op = "readc" => c.want = 1
  <2>1. <<>> \in Seq(Bytes)
    OBVIOUS
  <2>2. \/ c \in [op : {"read"}, stream : Streams, want : Sizes, left : {<<>>}]
        \/ c \in [op : {"readc"}, stream : Streams, want : {1}, left : {<<>>}]
        \/ c \in [op : {"seek"}, stream : Streams, want : Positions, left : {<<>>}]
        \/ c \in [op : {"flush", "close"}, stream : Streams, want : {0}, left : {<<>>}]
        \/ c \in [op : {"write", "writec"}, stream : Streams, want : {0}, left : Texts]
    BY DEF Requests
  <2>3. s \in Streams /\ c.want \in Nat /\ c.left \in Seq(Bytes)
    <3>1. c.stream \in Streams
      BY <2>2
    <3>2. c.want \in Nat
      <4>1. c.want \in Sizes \/ c.want \in Positions \/ c.want = 0 \/ c.want = 1
        BY <2>2
      <4>2. 0 \in Nat /\ 1 \in Nat /\ Sizes \subseteq Nat /\ Positions \subseteq Nat
        BY CallsAssumption
      <4> QED
        BY <4>1, <4>2, Zenon
    <3>3. c.left = <<>> \/ c.left \in Texts
      BY <2>2
    <3> QED
      BY <2>1, <3>1, <3>2, <3>3, CallsAssumption
  <2>4. /\ c.op \in {"read", "readc", "seek", "flush", "close", "write", "writec"}
        /\ c.op \in {"read", "readc"} => c.left = <<>>
        /\ c.op = "readc" => c.want = 1
    BY <2>2
  <2> QED
    BY <2>3, <2>4 DEF Ops, Reads
<1>4. PICK a : a = IF c.op \in {"flush", "seek", "close"} /\ t.mode = "w" THEN "flush"
                   ELSE IF (c.op = "read" /\ c.want = 0) \/ (c.op = "write" /\ c.left = <<>>) \/ c.op = "flush"
                   THEN "done" ELSE "run"
  OBVIOUS
<1>17. PICK ok \in BOOLEAN : ok = ~(c.op = "read" /\ c.want = 0)
  OBVIOUS
<1>5. PICK e : e = [op |-> c.op, stream |-> s, want |-> c.want, left |-> c.left, got |-> <<>>,
                    ok |-> ok, at |-> a]
  OBVIOUS
<1>6. call' = [call EXCEPT ![p] = e]
  BY <1>1, <1>4, <1>5, <1>17 DEF Make, Issue
<1>7. /\ e \in CallType /\ e.stream = s /\ e.at = a /\ e.op = c.op /\ e.want = c.want /\ e.left = c.left
      /\ e.got = <<>> /\ (a \in {"run", "flush"} => e.ok = TRUE)
  <2>1. /\ <<>> \in Seq(Bytes) /\ a \in {"run", "flush", "done", "dead"}
        /\ (a \in {"run", "flush"} => ok = TRUE)
    <3>1. a \in {"run", "flush", "done", "dead"}
      BY <1>4
    <3>2. ASSUME c.op = "read", c.want = 0 PROVE a = "done"
      <4>1. c.op \notin {"flush", "seek", "close"}
        BY <3>2
      <4> QED
        BY Zenon, <1>4, <3>2, <4>1
    <3>3. a \in {"run", "flush"} => ~(c.op = "read" /\ c.want = 0)
      BY <3>2
    <3>4. ASSUME a \in {"run", "flush"} PROVE ok = TRUE
      <4>1. ~(c.op = "read" /\ c.want = 0)
        BY <3>3, <3>4
      <4>2. ok
        BY Zenon, <1>17, <4>1
      <4> QED
        BY <4>2
    <3>5. <<>> \in Seq(Bytes)
      OBVIOUS
    <3> QED
      BY Zenon, <3>1, <3>4, <3>5
  <2> QED
    BY <1>3, <1>5, <2>1 DEF CallType
<1>8. /\ call \in [Procs -> CallType] /\ str \in [Streams -> StreamType] /\ t \in StreamType
      /\ StreamRight(t, Kind(s), Data(s))
  BY <1>3 DEF IInv, Typed
<1>9. call' \in [Procs -> CallType] /\ call'[p] = e /\ \A q \in Procs \ {p} : call'[q] = call[q]
  BY <1>6, <1>7, <1>8
<1>10. Typed'
  BY <1>2, <1>9 DEF IInv, Typed
<1>11. CallRight(p, e, t, Kind(s))
  <2>1. /\ t.proc = p /\ t.open = "open"
        /\ c.op \in IF t.mode = "r" THEN {"read", "readc", "seek", "close"}
                    ELSE {"write", "writec", "flush", "seek", "close"}
        /\ c.op = "writec" => Len(c.left) = 1
        /\ c.op = "seek" /\ t.mode = "r" /\ Kind(s) # "reg" =>
             Kind(s) # "pipe" /\ c.want = 0 /\ t.off = 0
    BY <1>1 DEF WellAsked
  <2>2. ASSUME c.op \in Reads, a = "run" PROVE Len(<<>>) < c.want
    BY <1>3, <1>4, <2>2 DEF Reads
  <2>3. ASSUME c.op \in Reads PROVE t.pos <= t.end
    <3>1. t.mode = "r"
      BY <1>8, <2>1, <2>3 DEF Reads
    <3>2. t.pos \in Int /\ t.end \in Int /\ t.off \in Nat /\ Data(s) \in Seq(Bytes)
      BY <1>3, <1>8 DEF StreamType, IInv, Typed, FileType, Data
    <3>3. CASE Kind(s) # "reg"
      BY <1>8, <3>1, <3>3 DEF StreamRight, ReaderRight
    <3>4. CASE Kind(s) = "reg"
      <4>1. Position(s) <= Len(Data(s))
        BY <1>1, <2>3, <3>4 DEF InFile, Reads
      <4>2. t.off - (t.end - t.pos) <= Len(Data(s))
        BY <4>1 DEF Position
      <4>3. t.pos > t.end => t.off >= Len(Data(s))
        BY <1>8, <3>1, <3>4 DEF StreamRight, ReaderRight
      <4> QED
        BY <3>2, <4>2, <4>3
    <3> QED
      BY <3>3, <3>4
  <2>4. ASSUME c.op \in Writes, a = "run" PROVE c.left # <<>>
    <3>1. CASE c.op = "write"
      BY <1>4, <2>4, <3>1
    <3>2. CASE c.op = "writec"
      <4>1. Len(c.left) = 1
        BY <2>1, <3>2
      <4>2. ASSUME NEW l, l = <<>> PROVE Len(l) # 1
        BY <4>2
      <4> QED
        BY <4>1, <4>2
    <3> QED
      BY <2>4, <3>1, <3>2 DEF Writes
  <2>5. a = "flush" => t.mode = "w" /\ c.op \in {"flush", "seek", "close"}
    BY <1>4
  <2>6. a = "run" => ~(c.op \in {"flush", "seek", "close"} /\ t.mode = "w") /\ c.op # "flush"
    BY <1>4
  <2> HIDE DEF t, s
  <2>7. c.op \in Writes => c.op \notin {"flush", "seek", "close"}
    BY DEF Writes
  <2>8. e.at \in {"run", "flush"} /\ e.op \in Writes => e.left # <<>>
    BY <1>7, <2>4, <2>5, <2>7
  <2>9. e.at = "run" /\ e.op \in Reads => Len(e.got) < e.want /\ t.pos <= t.end
    BY <1>7, <2>2, <2>3
  <2>10. e.at = "run" => e.op \in IF t.mode = "r" THEN Reads \cup {"seek", "close"}
                                 ELSE Writes \cup {"seek", "close"}
    BY <1>7, <2>1, <2>6 DEF Reads, Writes
  <2> QED
    BY <1>3, <1>7, <2>1, <2>5, <2>6, <2>8, <2>9, <2>10 DEF CallRight
<1>12. \A u \in Streams : Kind(u)' = Kind(u) /\ Data(u)' = Data(u) /\ str'[u] = str[u]
  BY <1>2 DEF Kind, Data
<1>13. ASSUME NEW q \in Procs
       PROVE  CallRight(q, call[q], str[call[q].stream], Kind(call[q].stream))'
  <2>1. CASE q = p
    BY <1>3, <1>7, <1>9, <1>11, <1>12, <2>1
  <2>2. CASE q # p
    <3>1. CallRight(q, call[q], str[call[q].stream], Kind(call[q].stream)) /\ call[q].stream \in Streams
      BY <1>8 DEF IInv, CallType
    <3> QED
      BY <1>9, <1>12, <2>2, <3>1
  <2> QED
    BY <2>1, <2>2
<1>14. ASSUME NEW u \in Streams PROVE SentRight(u, str[u], call[str[u].proc])'
  <2>1. SentRight(u, str[u], call[str[u].proc]) /\ str'[u] = str[u] /\ str[u].proc \in Procs
    BY <1>8, <1>12 DEF IInv, StreamType
  <2>2. CASE str[u].proc = p
    BY <1>1, <2>1, <2>2 DEF SentRight, Idle
  <2>3. CASE str[u].proc # p
    BY <1>9, <2>1, <2>3
  <2> QED
    BY <2>2, <2>3
<1>15. Wired'
  BY <1>12 DEF IInv, Wired
<1>16. \A u \in Streams : StreamRight(str[u], Kind(u), Data(u))'
  BY <1>12 DEF IInv
<1> QED
  BY <1>10, <1>13, <1>14, <1>15, <1>16 DEF IInv

LEMMA DieSound ==
    ASSUME IInv, NEW p \in Procs, Die(p)
    PROVE  IInv'
<1>1. /\ call \in [Procs -> CallType] /\ str \in [Streams -> StreamType] /\ file \in [Files -> FileType]
  BY DEF IInv, Typed
<1>2. UNCHANGED file
  BY DEF Die
<1> DEFINE e == [call[p] EXCEPT !.at = "dead"]
<1>3. call' = [call EXCEPT ![p] = e]
  BY <1>1 DEF Die
<1>4. e \in CallType /\ e.at = "dead"
  BY Zenon, <1>1 DEF CallType
<1> HIDE DEF e
<1>5. call' \in [Procs -> CallType] /\ call'[p] = e /\ \A q \in Procs \ {p} : call'[q] = call[q]
  BY <1>1, <1>3, <1>4
<1>6. ASSUME NEW s \in Streams
      PROVE  LET t == str[s]  u == str'[s] IN
             /\ u \in StreamType /\ u.file = t.file /\ u.mode = t.mode /\ u.proc = t.proc
             /\ u.sent = t.sent /\ u.beg = t.beg /\ u.pos = t.pos /\ u.end = t.end
             /\ u.off = t.off /\ u.buf = t.buf
             /\ u.open = "closed" => t.open = "closed"
             /\ t.proc # p => u = t
  <2>1. str[s] \in StreamType
    BY <1>1
  <2>2. str'[s] = IF str[s].proc = p /\ str[s].open = "open"
                  THEN [str[s] EXCEPT !.open = "lost"] ELSE str[s]
    BY DEF Die
  <2>3. PICK t : t = str[s]
    OBVIOUS
  <2>4. PICK u : u = str'[s]
    OBVIOUS
  <2>5. CASE t.proc = p /\ t.open = "open"
    <3>1. t \in StreamType /\ u = [t EXCEPT !.open = "lost"]
      BY <2>1, <2>2, <2>3, <2>4, <2>5
    <3>2. /\ u \in StreamType /\ u.file = t.file /\ u.mode = t.mode /\ u.proc = t.proc
          /\ u.sent = t.sent /\ u.beg = t.beg /\ u.pos = t.pos /\ u.end = t.end
          /\ u.off = t.off /\ u.buf = t.buf /\ u.open = "lost"
      BY <3>1 DEF StreamType
    <3> QED
      BY <2>3, <2>4, <2>5, <3>2
  <2>6. CASE ~(t.proc = p /\ t.open = "open")
    BY <2>1, <2>2, <2>3, <2>4, <2>6
  <2> QED
    BY <2>5, <2>6
<1>7. str' \in [Streams -> StreamType]
  <2>1. str' = [s \in Streams |-> str'[s]]
    BY DEF Die
  <2> QED
    BY <1>6, <2>1
<1>8. Typed'
  BY <1>1, <1>2, <1>5, <1>7 DEF Typed
<1>9. \A s \in Streams : Kind(s)' = Kind(s) /\ Data(s)' = Data(s)
  BY <1>2, <1>6 DEF Kind, Data
<1>10. Wired'
  BY <1>6, <1>9 DEF IInv, Wired
<1>11. ASSUME NEW s \in Streams PROVE StreamRight(str[s], Kind(s), Data(s))'
  <2>1. StreamRight(str[s], Kind(s), Data(s))
    BY DEF IInv
  <2>2. PICK t : t = str[s]
    OBVIOUS
  <2>3. PICK u : u = str'[s]
    OBVIOUS
  <2>4. PICK k : k = Kind(s) /\ k = Kind(s)'
    BY <1>9
  <2>5. PICK d : d = Data(s) /\ d = Data(s)'
    BY <1>9
  <2>6. /\ u.mode = t.mode /\ u.sent = t.sent /\ u.beg = t.beg /\ u.pos = t.pos /\ u.end = t.end
        /\ u.off = t.off /\ u.buf = t.buf /\ (u.open = "closed" => t.open = "closed")
    BY <1>6, <2>2, <2>3
  <2>7. StreamRight(t, k, d)
    BY <2>1, <2>2, <2>4, <2>5
  <2>8. Tags(u) /\ (Mirrors(t, d) => Mirrors(u, d))
    BY <2>6, <2>7 DEF StreamRight, Tags, Mirrors
  <2>9. ReaderRight(u, k, d) /\ WriterRight(u, k)
    BY <2>6, <2>7, <2>8 DEF StreamRight, ReaderRight, WriterRight
  <2>10. StreamRight(u, k, d)
    BY <2>6, <2>7, <2>8, <2>9 DEF StreamRight
  <2> QED
    BY <2>3, <2>4, <2>5, <2>10
<1>12. ASSUME NEW q \in Procs
       PROVE  CallRight(q, call[q], str[call[q].stream], Kind(call[q].stream))'
  <2>1. CASE q = p
    BY <1>4, <1>5, <2>1 DEF CallRight
  <2>2. CASE q # p
    <3>1. CallRight(q, call[q], str[call[q].stream], Kind(call[q].stream)) /\ call[q].stream \in Streams
      BY <1>1 DEF IInv, CallType
    <3>2. call'[q] = call[q] /\ Kind(call[q].stream)' = Kind(call[q].stream)
      BY <1>5, <1>9, <2>2, <3>1
    <3>3. CASE call[q].at \in {"run", "flush"}
      <4>1. str'[call[q].stream] = str[call[q].stream]
        BY <1>6, <2>2, <3>1, <3>3 DEF CallRight
      <4> QED
        BY <3>1, <3>2, <4>1
    <3>4. CASE call[q].at \notin {"run", "flush"}
      BY <3>2, <3>4 DEF CallRight
    <3> QED
      BY <3>3, <3>4
  <2> QED
    BY <2>1, <2>2
<1>13. ASSUME NEW s \in Streams PROVE SentRight(s, str[s], call[str[s].proc])'
  <2>1. SentRight(s, str[s], call[str[s].proc]) /\ str[s].proc \in Procs
    BY <1>1 DEF IInv, StreamType
  <2>2. str'[s].proc = str[s].proc /\ str'[s].sent = str[s].sent
    BY <1>6
  <2>3. CASE str[s].proc = p
    BY <1>4, <1>5, <2>2, <2>3 DEF SentRight
  <2>4. CASE str[s].proc # p
    BY <1>5, <2>1, <2>2, <2>4 DEF SentRight
  <2> QED
    BY <2>3, <2>4
<1> QED
  BY <1>8, <1>10, <1>11, <1>12, <1>13 DEF IInv

------------------------------------------------------------------------------
(* The buffer of every stream agrees with its file.                          *)

LEMMA NextSound ==
    ASSUME IInv, [Next]_ioVars
    PROVE  IInv'
<1>1. CASE UNCHANGED ioVars
  BY <1>1 DEF ioVars, IInv, Typed, Wired, Kind, Data
<1>2. ASSUME NEW p \in Procs, Call(p) \/ LibraryStep(p) \/ Killed(p) PROVE IInv'
  BY <1>2, CallSound, ReadSound, WriteSound, FlushSound, SeekSound, CloseSound, DieSound
     DEF LibraryStep, Killed, BrokenPipe
<1> QED
  BY <1>1, <1>2 DEF Next

LEMMA InvCoherent ==
    ASSUME IInv
    PROVE  BufferCoherent
<1> SUFFICES ASSUME NEW s \in Streams
             PROVE  LET t == str[s]  n == t.end - t.beg IN
                    /\ n \in 0..BufSize /\ t.beg <= t.pos /\ t.sent \in 0..n
                    /\ t.mode = "w" => t.pos = t.end
                    /\ t.mode = "r" /\ Kind(s) # "pipe" /\ n > 0 =>
                         /\ t.off >= n /\ t.off <= Len(Data(s))
                         /\ t.end \in {t.off, t.off + ASanTag}
                         /\ \A i \in 1..n : t.buf[i - 1] = Data(s)[t.off - n + i]
    BY DEF BufferCoherent
<1>1. StreamRight(str[s], Kind(s), Data(s))
  BY DEF IInv
<1> QED
  BY <1>1 DEF StreamRight, Tags, ReaderRight, Mirrors

(* io61.cc:50-65,160-200: for any program, files and sizes, the tags and    *)
(* the buffer of every stream agree with its file and the kernel's offset.  *)
THEOREM Coherent == Spec => []BufferCoherent
<1>1. Init => IInv
  BY InitSound
<1>2. IInv /\ [Next]_ioVars => IInv'
  BY NextSound
<1>3. IInv => BufferCoherent
  BY InvCoherent
<1> QED
  BY <1>1, <1>2, <1>3, PTL DEF Spec


------------------------------------------------------------------------------
(* What a program sees.                                                      *)

(* The bytes that stream t has buffered, of a file or pipe of kind k that   *)
(* holds d; with it, and the bytes e buffered at the other end of a pipe,   *)
(* the whole file; and its position.                                        *)
Held(t) == IF t.mode = "w" THEN Unsent(t) ELSE Copied(t, t.end - t.pos)
Far(s) == Buffered(str[s].file, IF str[s].mode = "w" THEN "r" ELSE "w")
SeenAs(k, d, t, e) ==
    IF k = "pipe" THEN IF t.mode = "w" THEN (e \o d) \o Unsent(t)
                       ELSE (Copied(t, t.end - t.pos) \o d) \o e
    ELSE IF t.mode = "w" THEN Laid(d, t.off, Unsent(t)) ELSE d
SeenAt(k, t) ==
    IF k = "pipe" THEN 0
    ELSE IF t.mode = "w" THEN t.off + (t.pos - t.beg) ELSE t.off - (t.end - t.pos)
StreamAs(k, t) ==
    [file |-> t.file, mode |-> t.mode, proc |-> t.proc, open |-> t.open, fp |-> SeenAt(k, t)]
CallAs(c) == [c EXCEPT !.at = IF @ = "flush" THEN "run" ELSE @]

LEMMA HeldTyped ==
    ASSUME NEW t \in StreamType, Tags(t)
    PROVE  Held(t) \in Seq(Bytes)
<1>1. CASE t.mode = "w"
  BY <1>1, UnsentIs DEF Held
<1>2. CASE t.mode # "w"
  <2> DEFINE n == t.end - t.pos
  <2>1. t.pos \in Int /\ t.end \in Int /\ t.beg \in Int
    BY DEF StreamType
  <2>2. CASE n \in 1..n
    <3>1. Copied(t, n) \in Seq(Bytes)
      BY <2>2, CopiedIs
    <3> QED
      BY <1>2, <3>1 DEF Held
  <2>3. CASE n \notin 1..n
    <3>1. 1..n = {} /\ n \in Int
      BY <2>1, <2>3
    <3> HIDE DEF n
    <3>2. Copied(t, n) = [i \in {} |-> t.buf[t.pos - t.beg + i - 1]]
      BY <3>1 DEF Copied
    <3>3. Copied(t, n) = <<>>
      BY <3>2
    <3>4. <<>> \in Seq(Bytes)
      OBVIOUS
    <3> QED
      BY <1>2, <3>3, <3>4 DEF Held, n
  <2> QED
    BY <2>2, <2>3
<1> QED
  BY <1>1, <1>2

(* A stream is the only one of its file in its direction, and of a file     *)
(* that is no pipe the only one.                                            *)
LEMMA OnlyOne ==
    ASSUME IInv, NEW s \in Streams
    PROVE  /\ Ordered(str[s].file, str[s].mode) = {s}
           /\ Kind(s) # "pipe" => \A m : m # str[s].mode => Ordered(str[s].file, m) = {}
BY DEF IInv, Wired, Ordered

LEMMA BufferedIs ==
    ASSUME IInv, NEW g, NEW m \in {"r", "w"}
    PROVE  /\ \A s \in Ordered(g, m) : Buffered(g, m) = Held(str[s])
           /\ Ordered(g, m) = {} => Buffered(g, m) = <<>>
           /\ Buffered(g, m) \in Seq(Bytes)
<1>1. Ordered(g, m) = {} => Buffered(g, m) = <<>>
  BY DEF Buffered
<1>2. ASSUME NEW s \in Ordered(g, m)
      PROVE  Buffered(g, m) = Held(str[s]) /\ Held(str[s]) \in Seq(Bytes)
  <2>1. s \in Streams /\ str[s].file = g /\ str[s].mode = m
    BY <1>2 DEF Ordered
  <2>2. Ordered(g, m) = {s}
    BY <2>1, OnlyOne
  <2>3. (CHOOSE x \in Ordered(g, m) : TRUE) = s
    BY <2>2
  <2>4. Held(str[s]) \in Seq(Bytes)
    BY <2>1, HeldTyped DEF IInv, Typed, StreamRight
  <2>5. Buffered(g, m) = Held(str[s])
    BY <2>1, <2>2, <2>3, Zenon DEF Buffered, Held, Copied
  <2> QED
    BY <2>4, <2>5
<1>3. <<>> \in Seq(Bytes)
  OBVIOUS
<1> QED
  BY <1>1, <1>2, <1>3

(* The file as SeenFile has it. *)
Writer(g) == CHOOSE s \in Ordered(g, "w") : TRUE
SeenIn(g) ==
    IF file[g].kind = "pipe" THEN (Buffered(g, "r") \o file[g].data) \o Buffered(g, "w")
    ELSE IF Ordered(g, "w") = {} THEN file[g].data
    ELSE Laid(file[g].data, str[Writer(g)].off, Buffered(g, "w"))

LEMMA SeenFileIs ==
    ASSUME IInv
    PROVE  SeenFile = [g \in Files |-> [file[g] EXCEPT !.data = SeenIn(g)]]
<1>1. file \in [Files -> FileType]
  BY DEF IInv, Typed
<1>2. ASSUME NEW g \in Files, file[g].kind # "pipe", Ordered(g, "w") # {}
      PROVE  Stored(CHOOSE s \in Ordered(g, "w") : TRUE, Buffered(g, "w"))[g].data = SeenIn(g)
  <2> DEFINE w == CHOOSE s \in Ordered(g, "w") : TRUE
             b == Buffered(g, "w")
  <2>1. w \in Ordered(g, "w")
    BY <1>2
  <2> HIDE DEF w, b
  <2>2. str[w].file = g /\ Kind(w) # "pipe" /\ Data(w) = file[g].data
    BY <1>2, <2>1 DEF Ordered, Kind, Data
  <2>3. Stored(w, b) = [file EXCEPT ![g].data = Laid(file[g].data, str[w].off, b)]
    BY <2>2, StoredIs
  <2> DEFINE x == Laid(file[g].data, str[w].off, b)
  <2>4. SeenIn(g) = x
    BY <1>2 DEF SeenIn, w, b, Writer
  <2> HIDE DEF x
  <2>5. Stored(w, b)[g].data = x
    BY <1>1, <2>3 DEF FileType, x
  <2> QED
    BY <2>4, <2>5 DEF w, b
<1>3. ASSUME NEW g \in Files
      PROVE  SeenFile[g] = [file[g] EXCEPT !.data = SeenIn(g)]
  <2>1. CASE file[g].kind # "pipe" /\ Ordered(g, "w") # {}
    BY <1>2, <2>1, Zenon DEF SeenFile
  <2>2. CASE ~(file[g].kind # "pipe" /\ Ordered(g, "w") # {})
    BY <2>2, Zenon DEF SeenFile, SeenIn
  <2> QED
    BY <2>1, <2>2
<1> QED
  BY <1>3, Zenon DEF SeenFile

(* Of the file of one of its streams. *)
LEMMA SeenOf ==
    IInv => \A s \in Streams :
              /\ Far(s) \in Seq(Bytes)
              /\ \A g : g = str[s].file => SeenIn(g) = SeenAs(Kind(s), Data(s), str[s], Far(s))
<1> SUFFICES ASSUME IInv, NEW s \in Streams
             PROVE  /\ Far(s) \in Seq(Bytes)
                    /\ \A g : g = str[s].file => SeenIn(g) = SeenAs(Kind(s), Data(s), str[s], Far(s))
  OBVIOUS
<1> DEFINE g == str[s].file
           m == str[s].mode
           n == IF m = "w" THEN "r" ELSE "w"
<1>1. str[s] \in StreamType /\ m \in {"r", "w"} /\ n \in {"r", "w"} /\ n # m
  BY DEF IInv, Typed, StreamType
<1>2. Far(s) = Buffered(g, n)
  BY Zenon DEF Far
<1>3. Ordered(g, m) = {s} /\ (Kind(s) # "pipe" => Ordered(g, n) = {})
  BY <1>1, OnlyOne
<1>4. Kind(s) = file[g].kind /\ Data(s) = file[g].data
  BY DEF Kind, Data
<1> HIDE DEF g, m, n
<1>5. Buffered(g, n) \in Seq(Bytes) /\ Buffered(g, m) = Held(str[s])
  BY <1>1, <1>3, BufferedIs
<1>6. SeenIn(g) = SeenAs(Kind(s), Data(s), str[s], Far(s))
  <2>1. CASE m = "w"
    <3>1. n = "r" /\ str[s].mode = "w"
      BY <2>1 DEF n, m
    <3>2. Buffered(g, "w") = Unsent(str[s]) /\ Writer(g) = s
      BY <1>3, <1>5, <2>1, <3>1 DEF Held, Writer
    <3>3. Ordered(g, "w") # {}
      BY <1>3, <2>1
    <3> QED
      BY <1>2, <1>4, <3>1, <3>2, <3>3, Zenon DEF SeenIn, SeenAs
  <2>2. CASE m = "r"
    <3>1. n = "w" /\ str[s].mode # "w"
      BY <2>2 DEF n, m
    <3>2. Buffered(g, "r") = Copied(str[s], str[s].end - str[s].pos)
      BY <1>5, <2>2, <3>1 DEF Held
    <3> QED
      BY <1>2, <1>3, <1>4, <3>1, <3>2, Zenon DEF SeenIn, SeenAs
  <2> QED
    BY <1>1, <2>1, <2>2
<1> QED
  BY <1>2, <1>5, <1>6 DEF g

(* In the next state, too. *)
LEMMA SeenOfNext ==
    IInv' => (\A s \in Streams :
                /\ Far(s) \in Seq(Bytes)
                /\ \A g : g = str[s].file => SeenIn(g) = SeenAs(Kind(s), Data(s), str[s], Far(s)))'
BY SeenOf, PTL

LEMMA SeenFileNext ==
    IInv' => (SeenFile = [g \in Files |-> [file[g] EXCEPT !.data = SeenIn(g)]])'
<1>1. IInv => SeenFile = [g \in Files |-> [file[g] EXCEPT !.data = SeenIn(g)]]
  BY SeenFileIs
<1> QED
  BY <1>1, PTL

(* A step of the library on stream s changes the buffer of no other. *)
LEMMA BufferedSame ==
    ASSUME IInv, NEW p \in Procs, NEW s \in Streams, NEW t, NEW d, NEW c, Moves(p, s, t, d, c),
           NEW g, NEW m
    PROVE  /\ Ordered(g, m)' = Ordered(g, m)
           /\ s \notin Ordered(g, m) => Buffered(g, m)' = Buffered(g, m)
<1>1. str \in [Streams -> StreamType]
  BY DEF IInv, Typed
<1>2. ASSUME NEW x \in Streams
      PROVE  /\ str'[x].file = str[x].file /\ str'[x].mode = str[x].mode
             /\ x # s => str'[x] = str[x]
  BY <1>1 DEF Moves
<1>3. Ordered(g, m)' = Ordered(g, m)
  BY <1>2 DEF Ordered
<1>4. ASSUME s \notin Ordered(g, m) PROVE Buffered(g, m)' = Buffered(g, m)
  <2>1. CASE Ordered(g, m) = {}
    BY <1>3, <2>1 DEF Buffered
  <2>2. CASE Ordered(g, m) # {}
    <3> DEFINE x == CHOOSE x \in Ordered(g, m) : TRUE
    <3>1. x \in Ordered(g, m)
      BY <2>2
    <3>2. x \in Streams /\ x # s
      BY <1>4, <3>1 DEF Ordered
    <3>3. str'[x] = str[x]
      BY <1>2, <3>2
    <3> QED
      BY <1>3, <2>2, <3>3, Zenon DEF Buffered, Unsent
  <2> QED
    BY <2>1, <2>2
<1> QED
  BY <1>3, <1>4

(* What a step of the library looks like to the program: SeenMoves says     *)
(* that in stream s, call p and the file of s it takes the bytes whole to   *)
(* whole2, the stream to t, the call to c.                                  *)
SeenMoves(p, s, whole2, t, c) ==
    /\ SeenFile' = [SeenFile EXCEPT ![str[s].file].data = whole2]
    /\ SeenStream' = [SeenStream EXCEPT ![s] = StreamAs(Kind(s), t)]
    /\ SeenCall' = [SeenCall EXCEPT ![p] = CallAs(c)]

LEMMA StreamSeen ==
    ASSUME NEW s \in Streams
    PROVE  SeenStream[s] = StreamAs(Kind(s), str[s])
BY Zenon DEF SeenStream, StreamAs, SeenAt

LEMMA StreamAsIs ==
    ASSUME NEW k, NEW t
    PROVE  /\ StreamAs(k, t).file = t.file /\ StreamAs(k, t).mode = t.mode
           /\ StreamAs(k, t).proc = t.proc /\ StreamAs(k, t).open = t.open
           /\ StreamAs(k, t).fp = SeenAt(k, t)
<1>1. PICK o : o = SeenAt(k, t)
  OBVIOUS
<1>2. PICK v : v = StreamAs(k, t)
  OBVIOUS
<1>3. v = [file |-> t.file, mode |-> t.mode, proc |-> t.proc, open |-> t.open, fp |-> o]
  BY <1>1, <1>2, Zenon DEF StreamAs
<1>4. v.file = t.file /\ v.mode = t.mode /\ v.proc = t.proc /\ v.open = t.open /\ v.fp = o
  BY <1>3
<1> QED
  BY <1>1, <1>2, <1>4

LEMMA SeenMove ==
    ASSUME IInv, IInv', NEW p \in Procs, NEW s \in Streams, NEW t, NEW d, NEW c, Moves(p, s, t, d, c)
    PROVE  SeenMoves(p, s, SeenAs(Kind(s), d, t, Far(s)), t, c)
<1>0. PICK f, w : f = str[s].file /\ w = SeenAs(Kind(s), d, t, Far(s))
  OBVIOUS
<1>1. /\ file \in [Files -> FileType] /\ str \in [Streams -> StreamType]
      /\ call \in [Procs -> CallType] /\ f \in Files
  BY <1>0 DEF IInv, Typed, StreamType
<1>2. /\ str'[s] = t /\ \A x \in Streams : x # s => str'[x] = str[x]
      /\ str' \in [Streams -> StreamType]
      /\ t.file = f /\ t.mode = str[s].mode
  BY <1>0, <1>1 DEF Moves, IInv, Typed
<1>3. /\ file'[f].data = d /\ \A g \in Files : file'[g].kind = file[g].kind
      /\ \A g \in Files : g # f => file'[g] = file[g]
  BY <1>0, <1>1 DEF Moves, FileType
<1>4. ASSUME NEW x \in Streams
      PROVE  str[x].file \in Files /\ str'[x].file = str[x].file /\ Kind(x)' = Kind(x)
  <2>1. str[x].file \in Files /\ str'[x].file = str[x].file
    BY <1>0, <1>1, <1>2 DEF StreamType
  <2> QED
    BY <1>3, <2>1 DEF Kind
<1>5. Data(s)' = d
  BY <1>0, <1>2, <1>3, <1>4 DEF Data
<1>6. Far(s)' = Far(s)
  <2>0. PICK m : m = IF str[s].mode = "w" THEN "r" ELSE "w"
    OBVIOUS
  <2>1. m # str[s].mode
    BY <1>1, <2>0 DEF StreamType
  <2>2. Far(s) = Buffered(f, m)
    BY <1>0, <2>0, Zenon DEF Far
  <2>4. str'[s].file = f /\ str'[s].mode = str[s].mode
    BY <1>2
  <2>5. Far(s)' = Buffered(f, m)'
    BY <2>0, <2>4, Zenon DEF Far
  <2>3. s \notin Ordered(f, m)
    BY <2>1 DEF Ordered
  <2>6. Buffered(f, m)' = Buffered(f, m)
    BY <2>3, BufferedSame
  <2> QED
    BY <2>2, <2>5, <2>6
<1>7. SeenIn(f)' = w
  <2>1. str'[s].file = f
    BY <1>2
  <2>2. SeenIn(f)' = (SeenAs(Kind(s), Data(s), str[s], Far(s)))'
    BY <2>1, SeenOfNext
  <2>3. (SeenAs(Kind(s), Data(s), str[s], Far(s)))' = w
    BY <1>0, <1>2, <1>4, <1>5, <1>6, Zenon DEF SeenAs
  <2> QED
    BY <2>1, <2>2, <2>3
<1>8. ASSUME NEW g \in Files, g # f PROVE SeenIn(g)' = SeenIn(g)
  <2>1. /\ s \notin Ordered(g, "r") /\ s \notin Ordered(g, "w")
    BY <1>0, <1>8 DEF Ordered
  <2>2. /\ Ordered(g, "w")' = Ordered(g, "w")
        /\ Buffered(g, "r")' = Buffered(g, "r") /\ Buffered(g, "w")' = Buffered(g, "w")
    BY <2>1, BufferedSame
  <2>3. file'[g] = file[g]
    BY <1>3, <1>8
  <2>4. CASE Ordered(g, "w") = {}
    BY <2>2, <2>3, <2>4, Zenon DEF SeenIn
  <2>5. CASE Ordered(g, "w") # {}
    <3>1. Writer(g) \in Streams /\ Writer(g) # s
      <4>1. Writer(g) \in Ordered(g, "w")
        BY <2>5 DEF Writer
      <4> QED
        BY <2>1, <4>1 DEF Ordered
    <3>2. Writer(g)' = Writer(g)
      BY <2>2 DEF Writer
    <3>3. str'[Writer(g)] = str[Writer(g)]
      BY <1>2, <3>1
    <3> QED
      BY <2>2, <2>3, <3>2, <3>3, Zenon DEF SeenIn
  <2> QED
    BY <2>4, <2>5
<1>9. SeenFile' = [SeenFile EXCEPT ![f].data = w]
  <2>1. SeenFile = [g \in Files |-> [file[g] EXCEPT !.data = SeenIn(g)]]
    BY SeenFileIs
  <2>2. SeenFile' = [g \in Files |-> [file'[g] EXCEPT !.data = SeenIn(g)']]
    BY SeenFileNext
  <2>3. ASSUME NEW g \in Files, g # f PROVE SeenFile'[g] = SeenFile[g]
    BY <1>3, <1>8, <2>1, <2>2, <2>3
  <2>4. SeenFile'[f] = [SeenFile[f] EXCEPT !.data = w]
    <3>0. PICK v : v = SeenIn(f)
      OBVIOUS
    <3>1. SeenFile[f] = [file[f] EXCEPT !.data = v] /\ SeenFile'[f] = [file'[f] EXCEPT !.data = w]
      BY <1>1, <1>7, <2>1, <2>2, <3>0, Zenon
    <3>2. PICK k, x, y : file[f] = [kind |-> k, data |-> x] /\ file'[f] = [kind |-> k, data |-> y]
      BY <1>1, <1>3 DEF FileType, IInv, Typed
    <3>3. SeenFile[f] = [kind |-> k, data |-> v] /\ SeenFile'[f] = [kind |-> k, data |-> w]
      <4>1. /\ [[kind |-> k, data |-> x] EXCEPT !.data = v] = [kind |-> k, data |-> v]
            /\ [[kind |-> k, data |-> y] EXCEPT !.data = w] = [kind |-> k, data |-> w]
        OBVIOUS
      <4> QED
        BY <3>1, <3>2, <4>1, Zenon
    <3>4. [[kind |-> k, data |-> v] EXCEPT !.data = w] = [kind |-> k, data |-> w]
      OBVIOUS
    <3> QED
      BY <3>3, <3>4, Zenon
  <2>5. SeenFile = [g \in Files |-> SeenFile[g]] /\ SeenFile' = [g \in Files |-> SeenFile'[g]]
    BY <2>1, <2>2
  <2> QED
    BY <1>1, <2>3, <2>4, <2>5
<1>10. SeenStream' = [SeenStream EXCEPT ![s] = StreamAs(Kind(s), t)]
  <2>1. ASSUME NEW x \in Streams
        PROVE  SeenStream'[x] = StreamAs(Kind(x), str'[x]) /\ SeenStream[x] = StreamAs(Kind(x), str[x])
    BY <1>4, StreamSeen, Zenon DEF SeenStream, StreamAs, SeenAt
  <2>2. SeenStream = [x \in Streams |-> SeenStream[x]] /\ SeenStream' = [x \in Streams |-> SeenStream'[x]]
    BY Zenon DEF SeenStream
  <2> QED
    BY <1>2, <2>1, <2>2
<1>11. SeenCall' = [SeenCall EXCEPT ![p] = CallAs(c)]
  <2>1. call'[p] = c /\ \A q \in Procs : q # p => call'[q] = call[q]
    BY <1>1 DEF Moves
  <2>2. SeenCall = [q \in Procs |-> CallAs(call[q])] /\ SeenCall' = [q \in Procs |-> CallAs(call'[q])]
    BY Zenon DEF SeenCall, CallAs
  <2> QED
    BY <2>1, <2>2
<1> QED
  BY <1>0, <1>9, <1>10, <1>11 DEF SeenMoves

------------------------------------------------------------------------------
(* Sequences put together.                                                   *)

LEMMA Regroup ==
    ASSUME NEW S, NEW x \in Seq(S), NEW y \in Seq(S), NEW z \in Seq(S)
    PROVE  (x \o y) \o z = x \o (y \o z)
BY SMT

Grouped(x, y, z) == (x \o y) \o z = x \o (y \o z)

LEMMA Grouping ==
    ASSUME NEW S, NEW x \in Seq(S), NEW y \in Seq(S), NEW z \in Seq(S)
    PROVE  Grouped(x, y, z)
BY SMTT(60) DEF Grouped

LEMMA Parts ==
    ASSUME NEW S, NEW x \in Seq(S), NEW y \in Seq(S)
    PROVE  /\ SubSeq(x \o y, 1, Len(x)) = x
           /\ SubSeq(x \o y, Len(x) + 1, Len(x \o y)) = y
<1>1. SubSeq(x \o y, 1, Len(x)) = x
  BY SMT
<1>2. SubSeq(x \o y, Len(x) + 1, Len(x \o y)) = y
  BY SMT
<1> QED
  BY <1>1, <1>2

LEMMA Whole ==
    ASSUME NEW S, NEW d \in Seq(S), NEW n \in 0..Len(d)
    PROVE  SubSeq(d, 1, n) \o SubSeq(d, n + 1, Len(d)) = d
<1>1. Len(d) \in Nat /\ n \in Nat /\ n <= Len(d)
  OBVIOUS
<1>2. PICK l, r : l = SubSeq(d, 1, n) /\ r = SubSeq(d, n + 1, Len(d))
  OBVIOUS
<1>3. l \in Seq(S) /\ Len(l) = n /\ \A i \in 1..n : l[i] = d[i]
  <2>1. 0 \in Nat /\ 0 <= n
    BY <1>1
  <2>2. SubSeq(d, 0 + 1, n) \in Seq(S) /\ Len(SubSeq(d, 0 + 1, n)) = n - 0
        /\ \A i \in 1..n - 0 : SubSeq(d, 0 + 1, n)[i] = d[0 + i]
    BY <1>1, <2>1, PieceOf
  <2> QED
    BY <1>1, <1>2, <2>2
<1>4. r \in Seq(S) /\ Len(r) = Len(d) - n /\ \A i \in 1..Len(d) - n : r[i] = d[n + i]
  BY <1>1, <1>2, PieceOf
<1>5. PICK a : a = l \o r
  OBVIOUS
<1>6. /\ a \in Seq(S) /\ Len(a) = Len(d)
      /\ \A i \in 1..Len(d) : a[i] = IF i <= n THEN l[i] ELSE r[i - n]
  BY <1>1, <1>3, <1>4, <1>5, JoinIs
<1>7. \A i \in 1..Len(a) : a[i] = d[i]
  BY <1>1, <1>3, <1>4, <1>6
<1>8. a = d
  BY <1>6, <1>7, SeqSame
<1> QED
  BY <1>2, <1>5, <1>8

(* Taking y from the bytes that begin with it. *)
Begins(v, y, w) ==
    /\ v \in Seq(Bytes) /\ Len(y) <= Len(v) /\ SubSeq(v, 1, Len(y)) = y
    /\ SubSeq(v, Len(y) + 1, Len(v)) = w

LEMMA TakeFirst ==
    ASSUME NEW y \in Seq(Bytes), NEW z \in Seq(Bytes), NEW d \in Seq(Bytes), NEW e \in Seq(Bytes)
    PROVE  Begins(((y \o z) \o d) \o e, y, (z \o d) \o e)
<1>0. PICK v, w : v = ((y \o z) \o d) \o e /\ w = (z \o d) \o e
  OBVIOUS
<1>1. PICK q : q = z \o d
  OBVIOUS
<1>2. q \in Seq(Bytes)
  BY <1>1, JoinIs
<1>3. (y \o z) \o d = y \o q
  <2>1. Grouped(y, z, d)
    BY Grouping
  <2> QED
    BY Zenon, <1>1, <2>1 DEF Grouped
<1>4. (y \o q) \o e = y \o (q \o e)
  <2>1. Grouped(y, q, e)
    BY <1>2, Grouping
  <2> QED
    BY Zenon, <2>1 DEF Grouped
<1>5. w \in Seq(Bytes) /\ Len(w) \in Nat
  BY <1>0, <1>1, <1>2, JoinIs
<1>6. v = y \o w
  BY <1>0, <1>1, <1>3, <1>4, Zenon
<1>7. Len(y) \in Nat /\ y \o w \in Seq(Bytes) /\ Len(y \o w) = Len(y) + Len(w)
  BY <1>5, JoinIs
<1>8. /\ SubSeq(y \o w, 1, Len(y)) = y
      /\ SubSeq(y \o w, Len(y) + 1, Len(y \o w)) = w
  BY <1>5, Parts
<1>9. Len(y) <= Len(y \o w)
  BY <1>5, <1>7
<1> QED
  BY <1>0, <1>6, <1>7, <1>8, <1>9, Zenon DEF Begins

LEMMA JoinNothing ==
    ASSUME NEW S, NEW d \in Seq(S), NEW e, Len(e) = 0, e \in Seq(S)
    PROVE  e \o d = d /\ d \o e = d
BY SMT

------------------------------------------------------------------------------
(* What a program sees of a read.                                            *)

(* What the bytes to be copied next are: those ahead of the position. *)
LEMMA CopiedAhead ==
    ASSUME NEW t \in StreamType, Tags(t), t.mode = "r", NEW n \in 1..t.end - t.pos,
           NEW d \in Seq(Bytes), Mirrors(t, d), t.sent = 0
    PROVE  LET o == t.off - (t.end - t.pos) IN
           /\ o \in Nat /\ o + n <= Len(d) /\ \A i \in 1..n : Copied(t, n)[i] = d[o + i]
           /\ n <= Len(SubSeq(d, o + 1, Len(d)))
           /\ Copied(t, n) = SubSeq(SubSeq(d, o + 1, Len(d)), 1, n)
<1> DEFINE o == t.off - (t.end - t.pos)
           m == t.end - t.beg
<1>1. /\ t.off \in Nat /\ t.pos \in Int /\ t.end \in Int /\ t.beg \in Int /\ n \in Nat /\ n >= 1
      /\ t.beg <= t.pos /\ n <= t.end - t.pos /\ Len(d) \in Nat
  BY DEF StreamType, Tags
<1>2. m > 0 /\ t.off >= m /\ t.off <= Len(d) /\ \A i \in 1..m : t.buf[i - 1] = d[t.off - m + i]
  BY SMTT(60), <1>1 DEF Mirrors
<1>3. o \in Nat /\ o + n <= Len(d)
  BY SMTT(60), <1>1, <1>2
<1>4. Copied(t, n) \in Seq(Bytes) /\ Len(Copied(t, n)) = n
  BY CopiedIs
<1>5. ASSUME NEW i \in 1..n PROVE Copied(t, n)[i] = d[o + i]
  <2>1. Copied(t, n)[i] = t.buf[t.pos - t.beg + i - 1]
    BY DEF Copied
  <2>2. PICK j \in Int : j = t.pos - t.beg + i
    BY <1>1
  <2>3. j \in 1..m /\ t.pos - t.beg + i - 1 = j - 1 /\ t.off - m + j = o + i
    BY SMTT(60), <1>1, <2>2
  <2> HIDE DEF o, m
  <2>4. t.buf[j - 1] = d[t.off - m + j]
    BY <1>2, <2>3
  <2> QED
    BY <2>1, <2>3, <2>4
<1> HIDE DEF o, m
<1>6. PICK r : r = SubSeq(d, o + 1, Len(d))
  OBVIOUS
<1>7. r \in Seq(Bytes) /\ Len(r) = Len(d) - o /\ \A i \in 1..Len(d) - o : r[i] = d[o + i]
  BY SMTT(60), <1>1, <1>3, <1>6, PieceOf
<1>8. PICK l : l = SubSeq(r, 1, n)
  OBVIOUS
<1>9. l \in Seq(Bytes) /\ Len(l) = n /\ \A i \in 1..n : l[i] = r[i]
  <2>1. 0 \in Nat /\ 0 <= n /\ n <= Len(r)
    BY <1>1, <1>3, <1>7
  <2>2. SubSeq(r, 0 + 1, n) \in Seq(Bytes) /\ Len(SubSeq(r, 0 + 1, n)) = n - 0
        /\ \A i \in 1..n - 0 : SubSeq(r, 0 + 1, n)[i] = r[0 + i]
    BY <1>1, <1>7, <2>1, PieceOf
  <2> QED
    BY <1>1, <1>8, <2>2
<1>10. PICK x : x = Copied(t, n)
  OBVIOUS
<1>11. ASSUME NEW i \in 1..Len(x) PROVE x[i] = l[i]
  <2>1. i \in 1..n /\ i \in 1..Len(d) - o
    BY <1>1, <1>3, <1>4, <1>10
  <2>2. x[i] = d[o + i] /\ l[i] = r[i] /\ r[i] = d[o + i]
    BY <1>5, <1>7, <1>9, <1>10, <2>1
  <2> QED
    BY <2>2
<1>12. x = l
  BY <1>4, <1>9, <1>10, <1>11, SeqSame
<1>13. n <= Len(r)
  BY <1>1, <1>3, <1>7
<1> QED
  BY <1>3, <1>5, <1>6, <1>8, <1>10, <1>12, <1>13 DEF o

(* Those copied later follow. *)
LEMMA CopiedParts ==
    ASSUME NEW t \in StreamType, Tags(t), NEW n \in 1..t.end - t.pos, NEW u,
           u = [t EXCEPT !.pos = t.pos + n]
    PROVE  /\ Copied(t, t.end - t.pos) = Copied(t, n) \o Copied(u, u.end - u.pos)
           /\ Copied(u, u.end - u.pos) \in Seq(Bytes)
<1> DEFINE m == t.end - t.pos
<1>1. /\ t.pos \in Int /\ t.end \in Int /\ t.beg \in Int /\ n \in Nat /\ n >= 1
      /\ t.beg <= t.pos /\ n <= m
  BY DEF StreamType, Tags
<1>2. u.pos = t.pos + n /\ u.end = t.end /\ u.beg = t.beg /\ u.buf = t.buf
  BY DEF StreamType
<1>3. m - n \in Nat /\ u.end - u.pos = m - n /\ m \in Nat
  BY <1>1, <1>2
<1>4. PICK x, y, z : x = Copied(t, m) /\ y = Copied(t, n) /\ z = Copied(u, m - n)
  OBVIOUS
<1>5. x \in Seq(Bytes) /\ Len(x) = m /\ y \in Seq(Bytes) /\ Len(y) = n
  BY SMTT(60), <1>1, <1>3, <1>4, CopiedIs
<1> HIDE DEF m
<1>6. ASSUME NEW i \in 1..m - n
      PROVE  z[i] = x[n + i]
  <2>1. z[i] = u.buf[u.pos - u.beg + i - 1]
    BY <1>4 DEF Copied
  <2>2. n + i \in 1..m
    BY <1>1, <1>3
  <2>3. x[n + i] = t.buf[t.pos - t.beg + (n + i) - 1]
    BY <1>4, <2>2 DEF Copied
  <2>4. t.pos - t.beg + (n + i) - 1 = u.pos - u.beg + i - 1
    BY <1>1, <1>2
  <2> QED
    BY <1>2, <2>1, <2>3, <2>4
<1>7. PICK w : w = SubSeq(x, n + 1, m)
  OBVIOUS
<1>8. w \in Seq(Bytes) /\ Len(w) = m - n /\ \A i \in 1..m - n : w[i] = x[n + i]
  <2>1. x \in Seq(Bytes) /\ n \in Nat /\ m \in Nat /\ n <= m /\ m <= Len(x)
    BY <1>1, <1>3, <1>5
  <2> QED
    BY SMTT(60), <1>7, <2>1, PieceOf
<1>9. w = z
  <2>1. w = [i \in 1..m - n |-> w[i]]
    BY <1>3, <1>8
  <2>2. z = [i \in 1..m - n |-> z[i]]
    BY <1>4 DEF Copied
  <2> QED
    BY <1>6, <1>8, <2>1, <2>2
<1>10. ASSUME NEW i \in 1..n PROVE y[i] = x[i]
  BY <1>1, <1>3, <1>4 DEF Copied
<1>11. PICK v : v = SubSeq(x, 1, n)
  OBVIOUS
<1>12. y = v
  <2>1. 0 \in Nat /\ 0 <= n /\ n <= Len(x)
    BY <1>1, <1>3, <1>5
  <2>2. SubSeq(x, 0 + 1, n) \in Seq(Bytes) /\ Len(SubSeq(x, 0 + 1, n)) = n - 0
        /\ \A i \in 1..n - 0 : SubSeq(x, 0 + 1, n)[i] = x[0 + i]
    BY SMTT(60), <1>1, <1>5, <2>1, PieceOf
  <2>3. v \in Seq(Bytes) /\ Len(v) = n /\ \A i \in 1..n : v[i] = x[i]
    BY <1>1, <1>11, <2>2
  <2>4. \A i \in 1..Len(y) : y[i] = v[i]
    BY <1>5, <1>10, <2>3
  <2> QED
    BY <1>5, <2>3, <2>4, SeqSame
<1>13. v \o w = x
  <2>1. n \in 0..Len(x) /\ m = Len(x)
    BY <1>1, <1>3, <1>5
  <2>2. SubSeq(x, 1, n) \o SubSeq(x, n + 1, Len(x)) = x
    BY <1>5, <2>1, Whole
  <2> QED
    BY <1>7, <1>11, <2>1, <2>2
<1> QED
  BY <1>3, <1>4, <1>8, <1>9, <1>12, <1>13 DEF m

------------------------------------------------------------------------------
(* The state the program sees.                                               *)

LEMMA SeenTyped ==
    ASSUME IInv
    PROVE  SeenFile \in [Files -> FileType]
<1>1. ASSUME NEW g \in Files PROVE [file[g] EXCEPT !.data = SeenIn(g)] \in FileType
  <2>1. file[g] \in FileType /\ file[g].data \in Seq(Bytes)
    BY DEF IInv, Typed, FileType
  <2>2. Buffered(g, "r") \in Seq(Bytes) /\ Buffered(g, "w") \in Seq(Bytes)
    BY BufferedIs
  <2>3. SeenIn(g) \in Seq(Bytes)
    <3>1. PICK a, b, d : a = Buffered(g, "r") /\ b = Buffered(g, "w") /\ d = file[g].data
      OBVIOUS
    <3>2. a \in Seq(Bytes) /\ b \in Seq(Bytes) /\ d \in Seq(Bytes)
      BY <2>1, <2>2, <3>1
    <3>3. (a \o d) \o b \in Seq(Bytes)
      BY <3>2
    <3>4. CASE file[g].kind # "pipe" /\ Ordered(g, "w") # {}
      <4>1. Writer(g) \in Ordered(g, "w")
        BY <3>4 DEF Writer
      <4>2. str[Writer(g)].off \in Nat
        BY <4>1 DEF IInv, Typed, StreamType, Ordered
      <4>3. Laid(d, str[Writer(g)].off, b) \in Seq(Bytes)
        BY <3>2, <4>2, LaidIs
      <4> QED
        BY <3>1, <3>4, <4>3, Zenon DEF SeenIn
    <3>5. CASE ~(file[g].kind # "pipe" /\ Ordered(g, "w") # {})
      BY <3>1, <3>2, <3>3, <3>5, Zenon DEF SeenIn
    <3> QED
      BY <3>4, <3>5
  <2>4. PICK v : v = SeenIn(g)
    OBVIOUS
  <2>5. [file[g] EXCEPT !.data = v] \in FileType
    BY <2>1, <2>3, <2>4 DEF FileType
  <2> QED
    BY <2>4, <2>5
<1> QED
  BY <1>1, SeenFileIs

LEMMA ViewIs ==
    ASSUME IInv, NEW s \in Streams
    PROVE  /\ str[s].file \in Files
           /\ SeenFile[str[s].file].kind = Kind(s)
           /\ SeenFile[str[s].file].data = SeenAs(Kind(s), Data(s), str[s], Far(s))
           /\ SeenAs(Kind(s), Data(s), str[s], Far(s)) \in Seq(Bytes)
           /\ SeenStream[s] = StreamAs(Kind(s), str[s])
<1>1. PICK f, v : f = str[s].file /\ v = SeenAs(Kind(s), Data(s), str[s], Far(s))
  OBVIOUS
<1>2. f \in Files /\ file[f] \in FileType
  BY <1>1 DEF IInv, Typed, StreamType
<1>3. SeenIn(f) = v
  BY <1>1, SeenOf
<1>4. SeenFile[f] = [file[f] EXCEPT !.data = v]
  BY <1>2, <1>3, SeenFileIs
<1>5. SeenFile[f].kind = file[f].kind /\ SeenFile[f].data = v
  BY <1>2, <1>4 DEF FileType
<1>6. SeenFile[f].data \in Seq(Bytes)
  BY <1>2, SeenTyped DEF FileType
<1>7. SeenStream[s] = StreamAs(Kind(s), str[s])
  BY StreamSeen
<1> QED
  BY <1>1, <1>2, <1>5, <1>6, <1>7 DEF Kind

(* A file that keeps its bytes, and a stream that keeps what is seen of it. *)
LEMMA SameSeen ==
    ASSUME IInv, NEW p \in Procs, NEW s \in Streams, NEW w, NEW t, NEW c, SeenMoves(p, s, w, t, c)
    PROVE  /\ w = SeenFile[str[s].file].data => UNCHANGED SeenFile
           /\ StreamAs(Kind(s), t) = SeenStream[s] => UNCHANGED SeenStream
<1>1. PICK f : f = str[s].file
  OBVIOUS
<1>2. f \in Files /\ SeenFile \in [Files -> FileType]
  BY <1>1, ViewIs, SeenTyped
<1>3. ASSUME w = SeenFile[f].data PROVE UNCHANGED SeenFile
  <2>1. SeenFile' = [SeenFile EXCEPT ![f].data = w]
    BY <1>1 DEF SeenMoves
  <2> QED
    BY <1>2, <1>3, <2>1 DEF FileType
<1>4. ASSUME StreamAs(Kind(s), t) = SeenStream[s] PROVE UNCHANGED SeenStream
  <2>1. SeenStream' = [SeenStream EXCEPT ![s] = SeenStream[s]]
    BY <1>4 DEF SeenMoves
  <2>2. SeenStream = [x \in Streams |-> SeenStream[x]]
    BY Zenon DEF SeenStream
  <2> QED
    BY <2>1, <2>2
<1> QED
  BY <1>1, <1>3, <1>4

LEMMA CallSeen ==
    ASSUME IInv, NEW p \in Procs
    PROVE  /\ SeenCall = [q \in Procs |-> CallAs(call[q])] /\ SeenCall[p] = CallAs(call[p])
           /\ SeenCall \in [Procs -> CallType]
<1>1. SeenCall = [q \in Procs |-> CallAs(call[q])]
  BY Zenon DEF SeenCall, CallAs
<1>2. ASSUME NEW q \in Procs PROVE CallAs(call[q]) \in CallType
  <2>1. PICK a : a = IF call[q].at = "flush" THEN "run" ELSE call[q].at
    OBVIOUS
  <2>2. call[q] \in CallType /\ CallAs(call[q]) = [call[q] EXCEPT !.at = a]
    BY <2>1, Zenon DEF CallAs, IInv, Typed
  <2>3. a \in {"run", "flush", "done", "dead"}
    BY <2>1, <2>2 DEF CallType
  <2> QED
    BY <2>2, <2>3 DEF CallType
<1> QED
  BY <1>1, <1>2

LEMMA CallAsIs ==
    ASSUME NEW c \in CallType
    PROVE  /\ c.at # "flush" => CallAs(c) = c
           /\ c.at = "flush" => CallAs(c) = [c EXCEPT !.at = "run"]
<1>1. CASE c.at # "flush"
  <2>1. CallAs(c) = [c EXCEPT !.at = c.at]
    BY <1>1, Zenon DEF CallAs
  <2> QED
    BY <1>1, <2>1 DEF CallType
<1>2. CASE c.at = "flush"
  BY <1>2, Zenon DEF CallAs
<1> QED
  BY <1>1, <1>2

(* io61_fill() shows the program nothing. *)
LEMMA FetchSeen ==
    ASSUME IInv, NEW p \in Procs, NEW s \in Streams, NEW bs, NEW t, NEW d, Fetched(p, s, bs, t, d),
           str[s].mode = "r", str[s].proc = p, str[s].open = "open"
    PROVE  /\ SeenAs(Kind(s), d, t, Far(s)) = SeenAs(Kind(s), Data(s), str[s], Far(s))
           /\ StreamAs(Kind(s), t) = StreamAs(Kind(s), str[s])
<1> DEFINE t0 == str[s]
<1>1. t0 \in StreamType /\ Data(s) \in Seq(Bytes) /\ Far(s) \in Seq(Bytes) /\ StreamRight(t0, Kind(s), Data(s))
  BY SeenOf DEF IInv, Typed, StreamType, FileType, Data
<1>2. CASE t = t0 /\ d = Data(s)
  BY <1>2
<1>3. CASE /\ t0.pos = t0.end /\ t = Filled(s, t0, bs) /\ Follows(bs, Data(s), t0.off)
           /\ d = IF Kind(s) = "pipe" THEN SubSeq(Data(s), Len(bs) + 1, Len(Data(s))) ELSE Data(s)
  <2> HIDE DEF t0
  <2>1. bs \in Seq(Bytes) /\ Len(bs) \in Nat /\ Len(bs) <= BufSize
    BY <1>3 DEF Follows
  <2>2. /\ t.beg = t0.end /\ t.pos = t0.end /\ t.end = t0.end + Len(bs)
        /\ t.off = IF Kind(s) = "pipe" THEN 0 ELSE t0.off + Len(bs)
        /\ \A i \in 1..Len(bs) : t.buf[i - 1] = bs[i]
    <3>1. PICK u : u = Filled(s, t0, bs)
      OBVIOUS
    <3>2. /\ u.beg = t0.end /\ u.pos = t0.end /\ u.end = t0.end + Len(bs)
          /\ u.off = IF Kind(s) = "pipe" THEN 0 ELSE t0.off + Len(bs)
          /\ \A i \in 1..Len(bs) : u.buf[i - 1] = bs[i]
      BY <1>1, <2>1, <3>1, FilledIs
    <3> QED
      BY <1>3, <3>1, <3>2
  <2>3. /\ t.file = t0.file /\ t.mode = "r" /\ t.proc = t0.proc /\ t.open = t0.open /\ t0.mode = "r"
        /\ t \in StreamType
    BY DEF Fetched, t0
  <2>4. t0.pos \in Int /\ t0.end \in Int /\ t0.off \in Nat
    BY <1>1 DEF StreamType
  <2>5. CASE Kind(s) # "pipe"
    <3>1. t.off - (t.end - t.pos) = t0.off - (t0.end - t0.pos)
      BY <1>3, <2>1, <2>2, <2>4, <2>5
    <3>2. SeenAt(Kind(s), t) = SeenAt(Kind(s), t0)
      BY <2>3, <2>5, <3>1, Zenon DEF SeenAt
    <3>3. StreamAs(Kind(s), t) = StreamAs(Kind(s), t0)
      BY <2>3, <3>2, Zenon DEF StreamAs
    <3>4. SeenAs(Kind(s), d, t, Far(s)) = d /\ SeenAs(Kind(s), Data(s), t0, Far(s)) = Data(s)
      BY <2>3, <2>5, Zenon DEF SeenAs
    <3>5. d = Data(s)
      BY <1>3, <2>5
    <3> QED
      BY <3>3, <3>4, <3>5 DEF t0
  <2>6. CASE Kind(s) = "pipe"
    <3>1. SeenAt(Kind(s), t) = SeenAt(Kind(s), t0)
      BY <2>6, Zenon DEF SeenAt
    <3>2. StreamAs(Kind(s), t) = StreamAs(Kind(s), t0)
      BY <2>3, <3>1, Zenon DEF StreamAs
    <3>3. t.end - t.pos = Len(bs) /\ t0.end - t0.pos = 0 /\ t.pos - t.beg = 0
      BY <1>3, <2>1, <2>2, <2>4
    <3>4. Copied(t, t.end - t.pos) = bs
      <4>1. PICK n : n = Len(bs)
        OBVIOUS
      <4>2. ASSUME NEW i \in 1..n PROVE t.buf[t.pos - t.beg + i - 1] = bs[i]
        <5>1. t.pos - t.beg + i - 1 = i - 1
          BY <2>1, <3>3, <4>1
        <5> QED
          BY <2>2, <4>1, <5>1
      <4>3. bs = [i \in 1..n |-> bs[i]]
        BY <2>1, <4>1
      <4>4. Copied(t, n) = [i \in 1..n |-> bs[i]]
        BY <4>2, Zenon DEF Copied
      <4> QED
        BY <3>3, <4>1, <4>3, <4>4
    <3>5. Copied(t0, t0.end - t0.pos) = <<>>
      <4>1. 1..0 = {}
        OBVIOUS
      <4>2. Copied(t0, 0) = [i \in {} |-> t0.buf[t0.pos - t0.beg + i - 1]]
        BY <4>1, Zenon DEF Copied
      <4>3. Copied(t0, 0) = <<>>
        BY <4>2
      <4> QED
        BY <3>3, <4>3
    <3>6. PICK x, e : x = Data(s) /\ e = Far(s)
      OBVIOUS
    <3>7. x \in Seq(Bytes) /\ d = SubSeq(x, Len(bs) + 1, Len(x))
      BY <1>1, <1>3, <2>6, <3>6
    <3>8. <<>> \o x = x
      BY <3>7
    <3>9. bs \o d = x
      <4>1. Len(bs) \in 0..Len(x) /\ \A i \in 1..Len(bs) : bs[i] = x[t0.off + i]
        BY <1>3, <2>1, <2>4, <3>6, <3>7 DEF Follows
      <4>2. t0.off = 0
        BY <1>1, <2>6 DEF StreamRight
      <4>3. PICK n : n = Len(bs)
        OBVIOUS
      <4>4. PICK l : l = SubSeq(x, 1, n)
        OBVIOUS
      <4>5. l \in Seq(Bytes) /\ Len(l) = n /\ \A i \in 1..n : l[i] = x[i]
        <5>1. 0 \in Nat /\ n \in Nat /\ 0 <= n /\ n <= Len(x)
          BY <3>7, <4>1, <4>3
        <5>2. SubSeq(x, 0 + 1, n) \in Seq(Bytes) /\ Len(SubSeq(x, 0 + 1, n)) = n - 0
              /\ \A i \in 1..n - 0 : SubSeq(x, 0 + 1, n)[i] = x[0 + i]
          BY <3>7, <5>1, PieceOf
        <5> QED
          BY <4>4, <5>1, <5>2
      <4>6. ASSUME NEW i \in 1..n PROVE bs[i] = l[i]
        <5>1. t0.off + i = i
          BY <4>2
        <5> QED
          BY <4>1, <4>3, <4>5, <5>1
      <4>7. bs = l
        BY <2>1, <4>3, <4>5, <4>6, SeqSame
      <4>8. n \in 0..Len(x)
        BY <4>1, <4>3
      <4>9. SubSeq(x, 1, n) \o SubSeq(x, n + 1, Len(x)) = x
        BY <3>7, <4>8, Whole
      <4> QED
        BY <3>7, <4>3, <4>4, <4>7, <4>9
    <3>10. SeenAs(Kind(s), d, t, e) = (bs \o d) \o e
      BY <2>3, <2>6, <3>4, Zenon DEF SeenAs
    <3>11. SeenAs(Kind(s), x, t0, e) = (<<>> \o x) \o e
      BY <2>3, <2>6, <3>5, Zenon DEF SeenAs
    <3> QED
      BY <3>2, <3>6, <3>8, <3>9, <3>10, <3>11, Zenon DEF t0
  <2> QED
    BY <2>5, <2>6
<1> QED
  BY <1>2, <1>3 DEF Fetched

(* What is ahead of a stream. *)
LEMMA AheadIs ==
    ASSUME IInv, NEW s \in Streams
    PROVE  LET v == SeenAs(Kind(s), Data(s), str[s], Far(s))  o == SeenAt(Kind(s), str[s]) IN
           /\ Promise!Ahead(s) = IF Kind(s) = "pipe" THEN v ELSE SubSeq(v, o + 1, Len(v))
           /\ SeenStream[s].file = str[s].file /\ SeenStream[s].fp = o
<1>1. SeenStream[s].file = str[s].file /\ SeenStream[s].fp = SeenAt(Kind(s), str[s])
  BY StreamSeen, StreamAsIs
<1>2. /\ SeenFile[str[s].file].kind = Kind(s)
      /\ SeenFile[str[s].file].data = SeenAs(Kind(s), Data(s), str[s], Far(s))
  BY ViewIs
<1> QED
  BY <1>1, <1>2, Zenon DEF Promise!Ahead

(* A stream whose buffer is used up, with nothing in its file or pipe, is   *)
(* at the end, or its writer died.                                          *)
LEMMA EndSeen ==
    ASSUME IInv, NEW s \in Streams, str[s].mode = "r", str[s].pos = str[s].end,
           str[s].off >= Len(Data(s)),
           Kind(s) = "pipe" => \A w \in Others(s, "w") : str[w].open # "open"
    PROVE  Promise!AtEnd(s)
<1> DEFINE t == str[s]
<1>1. /\ t \in StreamType /\ Data(s) \in Seq(Bytes) /\ Far(s) \in Seq(Bytes)
      /\ StreamRight(t, Kind(s), Data(s)) /\ t.file \in Files
  BY SeenOf DEF IInv, Typed, StreamType, FileType, Data
<1>2. t.off \in Nat /\ t.pos \in Int /\ t.end - t.pos = 0
  BY <1>1 DEF StreamType
<1>3. SeenStream[s].file = t.file /\ SeenFile[t.file].kind = Kind(s)
  BY AheadIs, ViewIs
<1> HIDE DEF t
<1>4. CASE Kind(s) # "pipe"
  <2>1. SeenAs(Kind(s), Data(s), t, Far(s)) = Data(s) /\ SeenAt(Kind(s), t) = t.off - (t.end - t.pos)
    BY <1>4, Zenon DEF SeenAs, SeenAt, t
  <2>2. SeenAt(Kind(s), t) = t.off
    BY <1>2, <2>1
  <2>3. Promise!Ahead(s) = SubSeq(Data(s), t.off + 1, Len(Data(s)))
    BY <1>4, <2>1, <2>2, AheadIs DEF t
  <2>4. t.off >= Len(Data(s))
    BY DEF t
  <2>5. SubSeq(Data(s), t.off + 1, Len(Data(s))) = <<>>
    BY <1>1, <1>2, <2>4
  <2> QED
    BY <1>3, <1>4, <2>3, <2>5, Zenon DEF Promise!AtEnd
<1>5. CASE Kind(s) = "pipe"
  <2>1. SUFFICES ASSUME \A w \in Streams : str[w].file = t.file => str[w].open # "lost"
                 PROVE  /\ Promise!Ahead(s) = <<>>
                        /\ \A w \in Streams : str[w].file = t.file /\ str[w].mode = "w"
                                                => str[w].open # "open"
    <3>1. \A w \in Streams : /\ SeenStream[w].file = str[w].file /\ SeenStream[w].mode = str[w].mode
                             /\ SeenStream[w].open = str[w].open
      BY StreamSeen, StreamAsIs
    <3>2. Promise!AtEnd(s) <=>
            \/ /\ Promise!Ahead(s) = <<>>
               /\ \A w \in Streams : SeenStream[w].file = SeenStream[s].file /\ SeenStream[w].mode = "w"
                                       => SeenStream[w].open # "open"
            \/ \E w \in Streams : SeenStream[w].file = SeenStream[s].file /\ SeenStream[w].open = "lost"
      BY <1>3, <1>5, Zenon DEF Promise!AtEnd
    <3> QED
      BY <1>3, <3>1, <3>2, ZenonT(60)
  <2>2. \A w \in Streams : str[w].file = t.file /\ str[w].mode = "w" => str[w].open # "open"
    BY <1>5 DEF Others, t
  <2>3. Far(s) = <<>>
    <3>1. Far(s) = Buffered(t.file, "w")
      BY Zenon DEF Far, t
    <3>2. ASSUME NEW w \in Ordered(t.file, "w") PROVE Held(str[w]) = <<>>
      <4>1. w \in Streams /\ str[w].file = t.file /\ str[w].mode = "w"
        BY <3>2 DEF Ordered
      <4>2. str[w] \in StreamType /\ StreamRight(str[w], Kind(w), Data(w))
        BY <4>1 DEF IInv, Typed
      <4>3. str[w].open = "closed"
        BY <2>1, <2>2, <4>1, <4>2 DEF StreamType
      <4>4. str[w].beg = str[w].pos /\ str[w].pos = str[w].end
        BY <4>1, <4>2, <4>3 DEF StreamRight, WriterRight, Tags
      <4>5. str[w].pos - str[w].beg - str[w].sent = 0
        <5>1. str[w].pos \in Int /\ str[w].sent \in 0..str[w].end - str[w].beg
          BY <4>2 DEF StreamType, StreamRight, Tags
        <5> QED
          BY <4>4, <5>1
      <4>6. Unsent(str[w]) \in Seq(Bytes) /\ Len(Unsent(str[w])) = 0
        BY <4>1, <4>2, <4>5, UnsentIs DEF StreamRight
      <4>7. PICK u : u = Unsent(str[w])
        OBVIOUS
      <4>8. u = <<>>
        BY <4>6, <4>7
      <4> QED
        BY <4>1, <4>7, <4>8 DEF Held
    <3> QED
      BY <3>1, <3>2, BufferedIs
  <2>4. Data(s) = <<>>
    <3>1. t.off = 0 /\ t.off >= Len(Data(s))
      BY <1>1, <1>5 DEF StreamRight, t
    <3> QED
      BY <1>1, <3>1
  <2>5. Copied(t, t.end - t.pos) = <<>>
    <3>1. 1..0 = {}
      OBVIOUS
    <3>2. Copied(t, 0) = [i \in {} |-> t.buf[t.pos - t.beg + i - 1]]
      BY <3>1, Zenon DEF Copied
    <3>3. Copied(t, 0) = <<>>
      BY <3>2
    <3> QED
      BY <1>2, <3>3
  <2>6. SeenAs(Kind(s), Data(s), t, Far(s)) = (<<>> \o <<>>) \o <<>>
    BY <1>5, <2>3, <2>4, <2>5, Zenon DEF SeenAs, t
  <2>7. (<<>> \o <<>>) \o <<>> = <<>>
    OBVIOUS
  <2>8. Promise!Ahead(s) = <<>>
    BY <1>5, <2>6, <2>7, AheadIs DEF t
  <2> QED
    BY <2>2, <2>8
<1> QED
  BY <1>4, <1>5


(* A read of n bytes, which leaves stream t as u and the bytes v as w,       *)
(* takes them from those ahead of the position.                              *)
Parted(k, d, t, u, n, v, w) ==
    /\ k = "pipe" => /\ v \in Seq(Bytes) /\ n <= Len(v) /\ SubSeq(v, 1, n) = Copied(t, n)
                     /\ SubSeq(v, n + 1, Len(v)) = w
                     /\ StreamAs(k, u) = StreamAs(k, t)
    /\ k # "pipe" => LET r == SubSeq(v, SeenAt(k, t) + 1, Len(v)) IN
                     /\ v = d /\ w = d /\ n <= Len(r) /\ SubSeq(r, 1, n) = Copied(t, n)
                     /\ SeenAt(k, u) = SeenAt(k, t) + n

LEMMA PartSeen ==
    ASSUME NEW t \in StreamType, NEW k, NEW d \in Seq(Bytes), StreamRight(t, k, d), t.mode = "r",
           NEW n \in 1..t.end - t.pos, NEW e \in Seq(Bytes), NEW u, u = [t EXCEPT !.pos = t.pos + n]
    PROVE  Parted(k, d, t, u, n, SeenAs(k, d, t, e), SeenAs(k, d, u, e))
<1>0. PICK v, w : v = SeenAs(k, d, t, e) /\ w = SeenAs(k, d, u, e)
  OBVIOUS
<1>1. /\ u.pos = t.pos + n /\ u.end = t.end /\ u.beg = t.beg /\ u.off = t.off /\ u.mode = "r"
      /\ u.file = t.file /\ u.proc = t.proc /\ u.open = t.open
  BY DEF StreamType
<1>2. Tags(t) /\ ReaderRight(t, k, d)
  BY DEF StreamRight
<1>3. t.pos \in Int /\ t.end \in Int /\ t.off \in Nat /\ n \in Nat
  BY DEF StreamType
<1>4. ASSUME k = "pipe"
      PROVE  /\ v \in Seq(Bytes) /\ n <= Len(v) /\ SubSeq(v, 1, n) = Copied(t, n)
             /\ SubSeq(v, n + 1, Len(v)) = w
             /\ StreamAs(k, u) = StreamAs(k, t)
  <2>1. PICK x, y, z : x = Copied(t, t.end - t.pos) /\ y = Copied(t, n) /\ z = Copied(u, u.end - u.pos)
    OBVIOUS
  <2>2. x = y \o z /\ z \in Seq(Bytes)
    BY ZenonT(60), <1>2, <2>1, CopiedParts
  <2>3. y \in Seq(Bytes) /\ Len(y) = n
    BY <1>2, <2>1, CopiedIs
  <2>4. v = ((y \o z) \o d) \o e
    BY <1>0, <1>4, <2>1, <2>2, Zenon DEF SeenAs
  <2>5. w = (z \o d) \o e
    <3>1. w = (Copied(u, u.end - u.pos) \o d) \o e
      <4>1. u.mode # "w"
        BY <1>1
      <4> QED
        BY <1>0, <1>4, <4>1, Zenon DEF SeenAs
    <3> QED
      BY <2>1, <3>1
  <2>6. /\ v \in Seq(Bytes) /\ Len(y) <= Len(v) /\ SubSeq(v, 1, Len(y)) = y
        /\ SubSeq(v, Len(y) + 1, Len(v)) = w
    <3>1. y \in Seq(Bytes) /\ z \in Seq(Bytes) /\ d \in Seq(Bytes) /\ e \in Seq(Bytes)
      BY <2>2, <2>3
    <3>2. Begins(((y \o z) \o d) \o e, y, (z \o d) \o e)
      BY <3>1, TakeFirst, Zenon
    <3> QED
      BY <2>4, <2>5, <3>2, Zenon DEF Begins
  <2>9. StreamAs(k, u) = StreamAs(k, t)
    <3>1. SeenAt(k, u) = 0 /\ SeenAt(k, t) = 0
      BY <1>4 DEF SeenAt
    <3> QED
      BY <1>1, <3>1, Zenon DEF StreamAs
  <2> QED
    BY <1>4, <2>1, <2>3, <2>6, <2>9
<1>5. ASSUME k # "pipe"
      PROVE  LET r == SubSeq(v, SeenAt(k, t) + 1, Len(v)) IN
             /\ v = d /\ w = d /\ n <= Len(r) /\ SubSeq(r, 1, n) = Copied(t, n)
             /\ SeenAt(k, u) = SeenAt(k, t) + n
  <2>1. v = d /\ w = d
    <3>1. u.mode # "w" /\ t.mode # "w"
      BY <1>1
    <3> QED
      BY <1>0, <1>5, <3>1, Zenon DEF SeenAs
  <2>2. SeenAt(k, t) = t.off - (t.end - t.pos) /\ SeenAt(k, u) = u.off - (u.end - u.pos)
    BY <1>1, <1>5 DEF SeenAt
  <2>3. SeenAt(k, u) = SeenAt(k, t) + n
    BY <1>1, <1>3, <2>2
  <2>4. Mirrors(t, d) /\ t.sent = 0
    BY <1>2, <1>5 DEF ReaderRight
  <2>5. /\ n <= Len(SubSeq(d, t.off - (t.end - t.pos) + 1, Len(d)))
        /\ Copied(t, n) = SubSeq(SubSeq(d, t.off - (t.end - t.pos) + 1, Len(d)), 1, n)
    BY <1>2, <2>4, CopiedAhead
  <2> QED
    BY <1>5, <2>1, <2>2, <2>3, <2>5
<1>6. Parted(k, d, t, u, n, v, w)
  BY <1>4, <1>5, Zenon DEF Parted
<1> QED
  BY <1>0, <1>6, Zenon

LEMMA ReadSeen ==
    ASSUME IInv, IInv', NEW p \in Procs, ReadStep(p)
    PROVE  Promise!Read(p)
<1> DEFINE c == call[p]
           s == c.stream
<1>1. c.at = "run" /\ c.op \in Reads
  BY Zenon DEF ReadStep, Running, Reads
<1>2. PICK bs, t, d, n : Fetched(p, s, bs, t, d) /\ Copies(p, s, t, n)
  BY ReadIs
<1>3. c \in CallType /\ s \in Streams /\ call \in [Procs -> CallType] /\ CallRight(p, c, str[s], Kind(s))
  BY <1>1, CallerIs DEF IInv, Typed
<1>4. /\ t \in StreamType /\ t.file = str[s].file /\ t.mode = "r" /\ t.proc = p
      /\ t.open = "open" /\ t.sent = 0 /\ t.pos <= t.end
      /\ d \in Seq(Bytes) /\ StreamRight(t, Kind(s), d)
      /\ file' = [file EXCEPT ![str[s].file].data = d]
  BY <1>2 DEF Fetched
<1>5. str[s].mode = "r" /\ str[s].proc = p /\ str[s].open = "open" /\ Len(c.got) < c.want
  BY <1>1, <1>3, CallerIs DEF CallRight, Reads, Writes, StreamType
<1>6. /\ SeenAs(Kind(s), d, t, Far(s)) = SeenAs(Kind(s), Data(s), str[s], Far(s))
      /\ StreamAs(Kind(s), t) = StreamAs(Kind(s), str[s])
  BY <1>2, <1>3, <1>5, FetchSeen
<1>7. SeenCall[p] = c /\ SeenCall \in [Procs -> CallType]
  BY <1>1, <1>3, CallSeen, CallAsIs
<1>8. Promise!Running(p, {"read", "readc"})
  BY <1>1, <1>7 DEF Promise!Running, Reads
<1>9. CASE t.pos = t.end /\ Stops(p) /\ str' = [str EXCEPT ![s] = t]
  <2>0. PICK ok \in BOOLEAN : ok = (c.got # <<>>)
    OBVIOUS
  <2>1. PICK e : e = [c EXCEPT !.ok = ok, !.at = "done"]
    OBVIOUS
  <2>2. call' = [call EXCEPT ![p] = e]
    BY <1>3, <1>9, <2>0, <2>1 DEF Stops
  <2>3. e \in CallType /\ e.stream = s /\ e.at = "done"
    BY <1>3, <2>1 DEF CallType
  <2>4. Moves(p, s, t, d, e)
    BY <1>1, <1>4, <1>5, <1>9, <2>2, <2>3 DEF Moves
  <2>5. SeenMoves(p, s, SeenAs(Kind(s), d, t, Far(s)), t, e)
    BY <1>3, <2>4, SeenMove
  <2>6. UNCHANGED <<SeenFile, SeenStream>>
    BY <1>3, <1>6, <2>5, SameSeen, ViewIs
  <2>7. SeenCall' = [SeenCall EXCEPT ![p] = [[c EXCEPT !.ok = ok] EXCEPT !.at = "done"]]
    <3>1. [[c EXCEPT !.ok = ok] EXCEPT !.at = "done"] = e
      <4>1. PICK c0 \in CallType : c0 = c
        BY <1>3
      <4>2. [[c0 EXCEPT !.ok = ok] EXCEPT !.at = "done"] = [c0 EXCEPT !.ok = ok, !.at = "done"]
        BY ONLY <2>0, c0 \in CallType DEF CallType
      <4> QED
        BY Zenon, <2>1, <4>1, <4>2
    <3> QED
      BY Zenon, <1>7, <2>3, <2>5, <3>1, CallAsIs DEF SeenMoves
  <2>8. Promise!AtEnd(s)
    <3>1. /\ str[s].pos = str[s].end /\ t = Filled(s, str[s], bs) /\ Follows(bs, Data(s), str[s].off)
          /\ bs = <<>> => /\ str[s].off >= Len(Data(s))
                          /\ Kind(s) = "pipe" => \A w \in Others(s, "w") : str[w].open # "open"
      <4>1. t.pos \in Int /\ t.end \in Int
        BY <1>4 DEF StreamType
      <4>2. ~(t.pos < t.end)
        <5> HIDE DEF c, s
        <5> QED
          BY <1>9, <4>1
      <4> QED
        BY Zenon, <1>2, <4>2 DEF Fetched
    <3>2. bs = <<>>
      <4>1. bs \in Seq(Bytes) /\ Len(bs) \in Nat /\ Len(bs) <= BufSize
        BY <3>1 DEF Follows
      <4>2. PICK u, v : u = str[s] /\ v = Filled(s, u, bs)
        OBVIOUS
      <4>3. u \in StreamType
        BY <1>3, <4>2 DEF IInv, Typed
      <4>4. v.pos = u.end /\ v.end = u.end + Len(bs) /\ u.end \in Int
        BY SMTT(60), <1>3, <4>1, <4>2, <4>3, FilledIs DEF StreamType
      <4>5. v.pos = v.end
        BY <1>9, <3>1, <4>2
      <4> QED
        BY <4>1, <4>4, <4>5
    <3> QED
      BY <1>3, <1>5, <3>1, <3>2, EndSeen
  <2>9. Promise!Return(p, [SeenCall[p] EXCEPT !.ok = SeenCall[p].got # <<>> \/ Promise!MayBeEmpty(SeenCall[p])])
    <3>1. ~Promise!MayBeEmpty(SeenCall[p])
      BY Zenon DEF Promise!MayBeEmpty
    <3>2. (SeenCall[p].got # <<>> \/ Promise!MayBeEmpty(SeenCall[p])) = ok
      BY <1>7, <2>0, <3>1
    <3> QED
      BY Zenon, <1>7, <2>7, <3>2 DEF Promise!Return
  <2>10. SeenCall[p].stream = s
    BY <1>7
  <2> QED
    BY <1>8, <2>6, <2>8, <2>9, <2>10, Zenon DEF Promise!Read
<1>10. CASE /\ t.pos < t.end /\ n \in 1..t.end - t.pos /\ n <= c.want - Len(c.got)
            /\ str' = [str EXCEPT ![s] = [t EXCEPT !.pos = @ + n]]
            /\ call' = [call EXCEPT ![p].got = @ \o Copied(t, n),
                           ![p].at = IF Len(c.got) + n = c.want THEN "done" ELSE "run"]
  <2>1. PICK a : a = IF Len(c.got) + n = c.want THEN "done" ELSE "run"
    OBVIOUS
  <2>2. PICK y, g : y = Copied(t, n) /\ g = c.got \o y
    OBVIOUS
  <2>3. PICK e : e = [c EXCEPT !.got = g, !.at = a]
    OBVIOUS
  <2>4. PICK u : u = [t EXCEPT !.pos = t.pos + n]
    OBVIOUS
  <2>5. call' = [call EXCEPT ![p] = e] /\ str' = [str EXCEPT ![s] = u]
    BY <1>3, <1>10, <2>1, <2>2, <2>3, <2>4
  <2>6. y \in Seq(Bytes) /\ c.got \in Seq(Bytes)
    BY <1>3, <1>4, <1>10, <2>2, CopiedIs DEF StreamRight, CallType
  <2>7. e \in CallType /\ e.stream = s /\ e.at = a /\ e.at # "flush"
    <3>1. g \in Seq(Bytes)
      BY <2>2, <2>6, JoinIs
    <3> QED
      BY <1>3, <2>1, <2>3, <3>1 DEF CallType
  <2>8. u.file = t.file /\ u.mode = "r" /\ u.proc = p
    BY <1>4, <2>4 DEF StreamType
  <2>9. Moves(p, s, u, d, e)
    BY <1>1, <1>4, <1>5, <2>5, <2>7, <2>8 DEF Moves
  <2>10. PICK v, w, k, o : /\ v = SeenAs(Kind(s), d, t, Far(s)) /\ w = SeenAs(Kind(s), d, u, Far(s))
                           /\ k = Kind(s) /\ o = SeenAt(k, t)
    OBVIOUS
  <2>11. SeenMoves(p, s, w, u, e)
    BY <1>3, <2>9, <2>10, SeenMove
  <2>12. /\ k = "pipe" => /\ v \in Seq(Bytes) /\ n <= Len(v) /\ SubSeq(v, 1, n) = y
                          /\ SubSeq(v, n + 1, Len(v)) = w
                          /\ StreamAs(k, u) = StreamAs(k, t)
         /\ k # "pipe" => LET r == SubSeq(v, o + 1, Len(v)) IN
                          /\ v = d /\ w = d /\ n <= Len(r) /\ SubSeq(r, 1, n) = y
                          /\ SeenAt(k, u) = o + n
    <3>1. PICK z \in Seq(Bytes) : z = Far(s)
      BY <1>3, SeenOf
    <3>2. v = SeenAs(k, d, t, z) /\ w = SeenAs(k, d, u, z) /\ StreamRight(t, k, d)
      BY <1>4, <2>10, <3>1
    <3>3. Parted(k, d, t, u, n, SeenAs(k, d, t, z), SeenAs(k, d, u, z))
      BY Zenon, <1>4, <1>10, <2>4, <3>1, <3>2, PartSeen
    <3>4. Parted(k, d, t, u, n, v, w)
      BY <3>2, <3>3, Zenon
    <3> QED
      BY <2>2, <2>10, <3>4, Zenon DEF Parted
  <2>13. PICK f : f = str[s].file
    OBVIOUS
  <2>14. /\ f \in Files /\ SeenFile[f].kind = k /\ SeenFile[f].data = v /\ v \in Seq(Bytes)
         /\ SeenStream[s] = StreamAs(k, t) /\ SeenStream[s].file = f /\ SeenStream[s].fp = o
    BY <1>3, <1>4, <1>6, <2>10, <2>13, ViewIs, StreamAsIs
  <2>15. PICK h : h = Promise!Ahead(s) /\ h = IF k = "pipe" THEN v ELSE SubSeq(v, o + 1, Len(v))
    BY <2>14, Zenon DEF Promise!Ahead
  <2>16. n \in 1..Promise!Least(c.want - Len(c.got), Len(h)) /\ SubSeq(h, 1, n) = y
    <3>1. n <= Len(h) /\ SubSeq(h, 1, n) = y
      BY <2>12, <2>15
    <3>2. Len(h) \in Nat
      <4>1. h \in Seq(Bytes)
        <5>1. CASE k = "pipe"
          BY <2>14, <2>15, <5>1
        <5>2. CASE k # "pipe"
          <6>1. o \in Nat
            <7>1. Tags(t) /\ Mirrors(t, d)
              BY <1>4, <2>10, <5>2 DEF StreamRight, ReaderRight
            <7>2. t.off - (t.end - t.pos) \in Nat
              BY Zenon, <1>4, <1>10, <7>1, CopiedAhead
            <7> QED
              BY <1>4, <2>10, <5>2, <7>2 DEF SeenAt
          <6>2. h = SubSeq(v, o + 1, Len(v))
            BY <2>15, <5>2
          <6> QED
            BY <2>14, <6>1, <6>2
        <5> QED
          BY <5>1, <5>2
      <4> QED
        BY <4>1
    <3>3. c.want \in Nat /\ Len(c.got) \in Nat /\ n \in Nat /\ n >= 1
      BY SMTT(60), <1>3, <1>4, <1>10, <2>6 DEF CallType, StreamType
    <3> QED
      BY <1>10, <3>1, <3>2, <3>3 DEF Promise!Least
  <2>17. SeenCall' = [SeenCall EXCEPT ![p].got = @ \o SubSeq(h, 1, n),
                         ![p].at = IF Len(c.got) + n = c.want THEN "done" ELSE "run"]
    <3>1. SeenCall' = [SeenCall EXCEPT ![p] = e]
      BY Zenon, <2>7, <2>11, CallAsIs DEF SeenMoves
    <3>2. [SeenCall EXCEPT ![p].got = @ \o SubSeq(h, 1, n),
                         ![p].at = IF Len(c.got) + n = c.want THEN "done" ELSE "run"]
            = [SeenCall EXCEPT ![p].got = @ \o y, ![p].at = a]
      BY <2>1, <2>16, Zenon
    <3>3. [SeenCall EXCEPT ![p].got = @ \o y, ![p].at = a] = [SeenCall EXCEPT ![p] = e]
      BY <1>7, <2>2, <2>3
    <3> QED
      BY <3>1, <3>2, <3>3, Zenon
  <2>18. IF k = "pipe"
         THEN /\ SeenFile' = [SeenFile EXCEPT ![f].data = SubSeq(@, n + 1, Len(@))]
              /\ UNCHANGED SeenStream
         ELSE /\ SeenStream' = [SeenStream EXCEPT ![s].fp = @ + n]
              /\ UNCHANGED SeenFile
    <3>1. CASE k = "pipe"
      <4>1. UNCHANGED SeenStream
        BY <1>3, <2>10, <2>11, <2>12, <2>14, <3>1, SameSeen
      <4>2. SeenFile' = [SeenFile EXCEPT ![f].data = w]
        BY <2>11, <2>13 DEF SeenMoves
      <4>3. [SeenFile EXCEPT ![f].data = SubSeq(@, n + 1, Len(@))] = [SeenFile EXCEPT ![f].data = w]
        BY <2>12, <2>14, <3>1, Zenon
      <4> QED
        BY <3>1, <4>1, <4>2, <4>3, Zenon
    <3>2. CASE k # "pipe"
      <4>1. UNCHANGED SeenFile
        BY <1>3, <2>11, <2>12, <2>13, <2>14, <3>2, SameSeen
      <4>2. SeenStream' = [SeenStream EXCEPT ![s] = StreamAs(k, u)]
        BY <2>10, <2>11 DEF SeenMoves
      <4>3. PICK q, r : q = StreamAs(k, t) /\ r = StreamAs(k, u) /\ r = [q EXCEPT !.fp = q.fp + n]
        <5>1. /\ StreamAs(k, t) = [file |-> t.file, mode |-> t.mode, proc |-> t.proc, open |-> t.open, fp |-> o]
              /\ StreamAs(k, u) = [file |-> t.file, mode |-> t.mode, proc |-> t.proc, open |-> t.open, fp |-> o + n]
          <6>1. u.file = t.file /\ u.mode = t.mode /\ u.proc = t.proc /\ u.open = t.open
            BY <1>4, <2>4 DEF StreamType
          <6>2. SeenAt(k, u) = o + n
            BY <2>12, <3>2
          <6> QED
            BY <2>10, <6>1, <6>2, Zenon DEF StreamAs
        <5> QED
          BY <5>1
      <4>4. SeenStream' = [SeenStream EXCEPT ![s].fp = @ + n]
        BY <2>14, <4>2, <4>3
      <4> QED
        BY <3>2, <4>1, <4>4
    <3> QED
      BY <3>1, <3>2
  <2> QED
    BY <1>7, <1>8, <2>14, <2>15, <2>16, <2>17, <2>18, Zenon DEF Promise!Read
<1> QED
  BY <1>2, <1>9, <1>10 DEF Copies

------------------------------------------------------------------------------
(* What a program sees of a write.                                           *)

(* FileStream lays bytes over a file as write(2) does. *)
LEMMA OverlayIs ==
    ASSUME NEW d \in Seq(Bytes), NEW at \in Nat, NEW bs \in Seq(Bytes)
    PROVE  Promise!Overlay(d, at, bs) = Laid(d, at, bs)
<1>1. CASE bs = <<>>
  <2>1. Len(bs) = 0
    BY <1>1
  <2>2. Laid(d, at, bs) = d
    BY <2>1, LaidNothing
  <2>3. Promise!Overlay(d, at, bs) = d
    BY <1>1, Zenon DEF Promise!Overlay
  <2> QED
    BY <2>2, <2>3
<1>2. CASE bs # <<>>
  <2>1. PICK m, l : /\ m = IF Len(d) > at + Len(bs) THEN Len(d) ELSE at + Len(bs)
                    /\ l = IF bs # <<>> /\ at + Len(bs) > Len(d) THEN at + Len(bs) ELSE Len(d)
    OBVIOUS
  <2>2. m = l
    <3>1. Len(bs) \in Nat /\ Len(d) \in Nat
      OBVIOUS
    <3> QED
      BY <1>2, <2>1, <3>1
  <2>3. Promise!Overlay(d, at, bs) = [i \in 1..m |->
            IF i > at /\ i <= at + Len(bs) THEN bs[i - at]
            ELSE IF i <= Len(d) THEN d[i] ELSE 0]
    BY <1>2, <2>1, Zenon DEF Promise!Overlay
  <2>4. Laid(d, at, bs) = [i \in 1..l |->
            IF i > at /\ i <= at + Len(bs) THEN bs[i - at]
            ELSE IF i <= Len(d) THEN d[i] ELSE 0]
    BY <2>1, Zenon DEF Laid
  <2> QED
    BY <2>2, <2>3, <2>4, Zenon
<1> QED
  BY <1>1, <1>2

(* Bytes laid over a file in two pieces. *)
LEMMA LaidTwice ==
    ASSUME NEW d \in Seq(Bytes), NEW at \in Nat, NEW x \in Seq(Bytes), NEW y \in Seq(Bytes)
    PROVE  Laid(d, at, x \o y) = Laid(Laid(d, at, x), at + Len(x), y)
<1>1. PICK z : z = x \o y
  OBVIOUS
<1>2. /\ Len(x) \in Nat /\ Len(y) \in Nat /\ Len(d) \in Nat
      /\ z \in Seq(Bytes) /\ Len(z) = Len(x) + Len(y)
      /\ \A i \in 1..Len(x) + Len(y) : z[i] = IF i <= Len(x) THEN x[i] ELSE y[i - Len(x)]
  BY <1>1, JoinIs
<1>3. (z = <<>> <=> Len(z) = 0) /\ (x = <<>> <=> Len(x) = 0) /\ (y = <<>> <=> Len(y) = 0)
  BY <1>2
<1>4. PICK a : a = Laid(d, at, z)
  OBVIOUS
<1>5. /\ a \in Seq(Bytes)
      /\ Len(a) = IF Len(z) # 0 /\ at + Len(z) > Len(d) THEN at + Len(z) ELSE Len(d)
      /\ \A i \in 1..Len(a) : a[i] = IF i > at /\ i <= at + Len(z) THEN z[i - at]
                                     ELSE IF i <= Len(d) THEN d[i] ELSE 0
  BY SMTT(60), <1>2, <1>3, <1>4, LaidIs
<1>6. PICK b : b = Laid(d, at, x)
  OBVIOUS
<1>7. /\ b \in Seq(Bytes)
      /\ Len(b) = IF Len(x) # 0 /\ at + Len(x) > Len(d) THEN at + Len(x) ELSE Len(d)
      /\ \A i \in 1..Len(b) : b[i] = IF i > at /\ i <= at + Len(x) THEN x[i - at]
                                     ELSE IF i <= Len(d) THEN d[i] ELSE 0
  BY <1>3, <1>6, LaidIs
<1>8. PICK c : c = Laid(b, at + Len(x), y)
  OBVIOUS
<1>9. /\ c \in Seq(Bytes)
      /\ Len(c) = IF Len(y) # 0 /\ at + Len(x) + Len(y) > Len(b) THEN at + Len(x) + Len(y) ELSE Len(b)
      /\ \A i \in 1..Len(c) : c[i] = IF i > at + Len(x) /\ i <= at + Len(x) + Len(y) THEN y[i - (at + Len(x))]
                                     ELSE IF i <= Len(b) THEN b[i] ELSE 0
  <2>1. at + Len(x) \in Nat
    BY <1>2
  <2> QED
    BY SMTT(60), <1>3, <1>7, <1>8, <2>1, LaidIs
<1>10. Len(a) = Len(c)
  BY SMTT(60), <1>2, <1>5, <1>7, <1>9
<1>11. ASSUME NEW i \in 1..Len(a) PROVE a[i] = c[i]
  <2>1. i \in Nat /\ i >= 1 /\ i <= Len(a) /\ i \in 1..Len(c)
    BY <1>5, <1>10
  <2>2. CASE i > at /\ i <= at + Len(x)
    <3>1. i \in 1..Len(b) /\ i <= Len(b)
      BY <1>2, <1>7, <2>1, <2>2
    <3>2. b[i] = x[i - at]
      BY <1>7, <2>2, <3>1
    <3>3. c[i] = b[i]
      BY <1>2, <1>9, <2>1, <2>2, <3>1
    <3>4. PICK j : j = i - at
      OBVIOUS
    <3>5. j \in 1..Len(x) + Len(y) /\ j <= Len(x)
      BY <1>2, <2>1, <2>2, <3>4
    <3>6. z[j] = x[j]
      BY <1>2, <3>5
    <3>7. a[i] = z[j]
      BY <1>2, <1>5, <2>1, <2>2, <3>4
    <3> QED
      BY <3>2, <3>3, <3>4, <3>6, <3>7
  <2>3. CASE i > at + Len(x) /\ i <= at + Len(x) + Len(y)
    <3>1. PICK j : j = i - at
      OBVIOUS
    <3>2. j \in 1..Len(x) + Len(y) /\ ~(j <= Len(x)) /\ j - Len(x) = i - (at + Len(x))
      BY <1>2, <2>1, <2>3, <3>1
    <3>3. z[j] = y[i - (at + Len(x))]
      BY <1>2, <3>2
    <3>4. a[i] = z[j]
      BY <1>2, <1>5, <2>1, <2>3, <3>1
    <3>5. c[i] = y[i - (at + Len(x))]
      BY <1>9, <2>1, <2>3
    <3> QED
      BY <3>3, <3>4, <3>5
  <2>4. CASE ~(i > at /\ i <= at + Len(x) + Len(y))
    <3>1. a[i] = IF i <= Len(d) THEN d[i] ELSE 0
      BY <1>2, <1>5, <2>1, <2>4
    <3>2. c[i] = IF i <= Len(b) THEN b[i] ELSE 0
      BY <1>2, <1>9, <2>1, <2>4
    <3>3. i <= Len(b) => b[i] = IF i <= Len(d) THEN d[i] ELSE 0
      BY <1>2, <1>7, <2>1, <2>4
    <3>4. i <= Len(d) => i <= Len(b)
      BY <1>2, <1>7, <2>1, <2>4
    <3> QED
      BY <3>1, <3>2, <3>3, <3>4
  <2> QED
    BY <1>2, <2>1, <2>2, <2>3, <2>4
<1>12. a = c
  BY <1>5, <1>9, <1>10, <1>11, SeqSame
<1> QED
  BY <1>1, <1>4, <1>6, <1>8, <1>12

(* What a write adds to the bytes to be sent. *)
LEMMA AppendSeen ==
    ASSUME NEW t \in StreamType, Tags(t), t.mode = "w", t.sent = 0, NEW left \in Seq(Bytes),
           NEW n \in 1..Len(left), NEW b, Appended(t, b, left, n), t.end - t.beg + n <= BufSize,
           NEW u \in StreamType, Tags(u), u.buf = b, u.beg = t.beg, u.pos = t.pos + n,
           u.sent = 0, u.mode = "w"
    PROVE  /\ Unsent(u) = Unsent(t) \o SubSeq(left, 1, n)
           /\ Unsent(t) \in Seq(Bytes) /\ Len(Unsent(t)) = t.pos - t.beg
           /\ SubSeq(left, 1, n) \in Seq(Bytes) /\ Len(SubSeq(left, 1, n)) = n
<1>1. t.pos \in Int /\ t.beg \in Int /\ n \in Nat /\ n >= 1 /\ n <= Len(left)
  BY DEF StreamType
<1>2. PICK x, y, z, w : x = Unsent(t) /\ y = SubSeq(left, 1, n) /\ z = Unsent(u) /\ w = t.pos - t.beg
  OBVIOUS
<1>3. x \in Seq(Bytes) /\ Len(x) = w /\ w \in Nat
  BY <1>1, <1>2, UnsentIs
<1>4. z \in Seq(Bytes) /\ Len(z) = w + n
  <2>1. Unsent(u) \in Seq(Bytes) /\ Len(Unsent(u)) = u.pos - u.beg - u.sent
    BY UnsentIs
  <2> QED
    BY <1>1, <1>2, <2>1
<1>5. y \in Seq(Bytes) /\ Len(y) = n /\ \A i \in 1..n : y[i] = left[i]
  <2>1. 0 \in Nat /\ 0 <= n /\ n <= Len(left)
    BY <1>1
  <2>2. SubSeq(left, 0 + 1, n) \in Seq(Bytes) /\ Len(SubSeq(left, 0 + 1, n)) = n - 0
        /\ \A i \in 1..n - 0 : SubSeq(left, 0 + 1, n)[i] = left[0 + i]
    BY <1>1, <2>1, PieceOf
  <2> QED
    BY <1>1, <1>2, <2>2
<1>6. PICK a : a = x \o y
  OBVIOUS
<1>7. /\ a \in Seq(Bytes) /\ Len(a) = w + n
      /\ \A i \in 1..w + n : a[i] = IF i <= w THEN x[i] ELSE y[i - w]
  <2>1. /\ x \o y \in Seq(Bytes) /\ Len(x \o y) = Len(x) + Len(y)
        /\ \A i \in 1..Len(x) + Len(y) : (x \o y)[i] = IF i <= Len(x) THEN x[i] ELSE y[i - Len(x)]
    BY <1>3, <1>5, JoinIs
  <2> QED
    BY <1>3, <1>5, <1>6, <2>1, Zenon
<1>8. ASSUME NEW i \in 1..w + n PROVE z[i] = a[i]
  <2>0. i \in Nat /\ i >= 1 /\ i <= w + n
    BY <1>1, <1>3
  <2>1. u.pos - u.beg - u.sent = w + n /\ t.pos - t.beg - t.sent = w
    BY <1>1, <1>2
  <2>2. z[i] = b[i - 1]
    <3>1. z = [j \in 1..w + n |-> b[0 + j - 1]]
      BY <1>2, <2>1 DEF Unsent
    <3>2. z[i] = b[0 + i - 1] /\ 0 + i - 1 = i - 1
      BY <2>0, <3>1
    <3> QED
      BY <3>2
  <2>3. CASE i <= w
    <3>1. x = [j \in 1..w |-> t.buf[0 + j - 1]]
      BY <1>2, <2>1 DEF Unsent
    <3>2. i \in 1..w /\ i - 1 \in 0..w - 1
      BY <1>3, <2>0, <2>3
    <3>3. x[i] = t.buf[i - 1]
      <4>1. x[i] = t.buf[0 + i - 1] /\ 0 + i - 1 = i - 1
        BY <2>0, <3>1, <3>2
      <4> QED
        BY <4>1
    <3>4. b[i - 1] = t.buf[i - 1]
      BY <1>2, <3>2 DEF Appended
    <3> QED
      BY <1>7, <2>2, <2>3, <3>3, <3>4
  <2>4. CASE ~(i <= w)
    <3>1. PICK j : j = i - w
      OBVIOUS
    <3>2. j \in 1..n /\ w + j - 1 = i - 1
      BY <1>1, <1>3, <2>0, <2>4, <3>1
    <3>3. b[w + j - 1] = left[j]
      BY <1>2, <3>2 DEF Appended
    <3>4. y[j] = left[j]
      BY <1>5, <3>2
    <3> QED
      BY <1>7, <2>2, <2>4, <3>1, <3>2, <3>3, <3>4
  <2> QED
    BY <2>3, <2>4
<1>9. z = a
  BY <1>4, <1>7, <1>8, SeqSame
<1> QED
  BY <1>2, <1>3, <1>5, <1>6, <1>9

(* A stream for writing that gets the bytes y behind its own. *)
Grown(k, t, v, w, y) == IF k = "pipe" THEN w = v \o y ELSE w = Laid(v, SeenAt(k, t), y)

InTurn(d, e, x, y, at) ==
    /\ (e \o d) \o (x \o y) = ((e \o d) \o x) \o y
    /\ Laid(d, at, x \o y) = Laid(Laid(d, at, x), at + Len(x), y)

LEMMA MoreBytes ==
    ASSUME NEW d \in Seq(Bytes), NEW e \in Seq(Bytes), NEW x \in Seq(Bytes), NEW y \in Seq(Bytes),
           NEW at \in Nat
    PROVE  InTurn(d, e, x, y, at)
<1>1. PICK a : a = e \o d
  OBVIOUS
<1>2. a \in Seq(Bytes)
  BY <1>1, JoinIs
<1>3. (a \o x) \o y = a \o (x \o y)
  <2>1. Grouped(a, x, y)
    BY <1>2, Grouping
  <2> QED
    BY Zenon, <2>1 DEF Grouped
<1> QED
  BY <1>1, <1>3, LaidTwice DEF InTurn

LEMMA LaterSeen ==
    ASSUME NEW t \in StreamType, NEW u, NEW k, NEW d \in Seq(Bytes), NEW e \in Seq(Bytes),
           t.mode = "w", u.mode = "w", u.off = t.off, Unsent(t) \in Seq(Bytes),
           NEW y \in Seq(Bytes), Unsent(u) = Unsent(t) \o y, Len(Unsent(t)) = t.pos - t.beg
    PROVE  Grown(k, t, SeenAs(k, d, t, e), SeenAs(k, d, u, e), y)
<1>1. PICK x \in Seq(Bytes) : x = Unsent(t)
  OBVIOUS
<1>2. t.off \in Nat
  BY DEF StreamType
<1>3. InTurn(d, e, x, y, t.off)
  BY <1>2, MoreBytes
<1>4. CASE k = "pipe"
  <2>1. SeenAs(k, d, t, e) = (e \o d) \o x /\ SeenAs(k, d, u, e) = (e \o d) \o (x \o y)
    BY <1>1, <1>4, Zenon DEF SeenAs
  <2> QED
    BY <1>3, <1>4, <2>1, Zenon DEF Grown, InTurn
<1>5. CASE k # "pipe"
  <2>1. SeenAs(k, d, t, e) = Laid(d, t.off, x) /\ SeenAs(k, d, u, e) = Laid(d, t.off, x \o y)
    BY <1>1, <1>5, Zenon DEF SeenAs
  <2>2. SeenAt(k, t) = t.off + Len(x)
    BY <1>1, <1>5, Zenon DEF SeenAt
  <2> QED
    BY <1>3, <1>5, <2>1, <2>2, Zenon DEF Grown, InTurn
<1> QED
  BY <1>4, <1>5

(* Going to flush first shows the program nothing. *)
LEMMA CallBack ==
    ASSUME NEW c \in CallType, c.at = "run"
    PROVE  CallAs([c EXCEPT !.at = "flush"]) = c
<1>1. PICK e : e = [c EXCEPT !.at = "flush"]
  OBVIOUS
<1>2. e \in CallType /\ e.at = "flush"
  BY <1>1 DEF CallType
<1>3. PICK h : h = CallAs(e) /\ h = [e EXCEPT !.at = "run"]
  BY <1>2, CallAsIs
<1>4. h = c
  <2>1. PICK op, ss, want, left, got, ok :
          c = [op |-> op, stream |-> ss, at |-> "run", want |-> want, left |-> left, got |-> got, ok |-> ok]
    <3>1. c = [op |-> c.op, stream |-> c.stream, at |-> c.at, want |-> c.want, left |-> c.left,
               got |-> c.got, ok |-> c.ok]
      BY DEF CallType
    <3> QED
      BY <3>1, Zenon
  <2>2. e = [op |-> op, stream |-> ss, at |-> "flush", want |-> want, left |-> left, got |-> got, ok |-> ok]
    BY <1>1, <2>1
  <2>3. h = [op |-> op, stream |-> ss, at |-> "run", want |-> want, left |-> left, got |-> got, ok |-> ok]
    BY <1>3, <2>2
  <2> QED
    BY <2>1, <2>3
<1> QED
  BY <1>1, <1>3, <1>4

LEMMA WriteSeen ==
    ASSUME IInv, IInv', NEW p \in Procs, WriteStep(p)
    PROVE  Promise!Write(p) \/ UNCHANGED <<SeenFile, SeenStream, SeenCall>>
<1> DEFINE c == call[p]
           s == c.stream
           t == str[s]
           d == Data(s)
<1>1. /\ c.at = "run" /\ c.op \in Writes /\ t.mode = "w" /\ c.left # <<>>
      /\ UNCHANGED file
      /\ \/ call' = [call EXCEPT ![p].at = "flush"] /\ UNCHANGED str
         \/ \E n \in 1..Len(c.left) : \E b :
               /\ Appended(t, b, c.left, n) /\ t.end - t.beg + n <= BufSize
               /\ str' = [str EXCEPT ![s] =
                            [t EXCEPT !.pos = t.pos + n, !.end = t.end + n, !.buf = b]]
               /\ call' = [call EXCEPT ![p].left = SubSeq(@, n + 1, Len(@)),
                              ![p].at = IF Len(c.left) = n THEN "done" ELSE "run"]
  BY Zenon, WriteIs
<1>2. /\ t \in StreamType /\ c \in CallType /\ s \in Streams /\ CallRight(p, c, t, Kind(s))
      /\ StreamRight(t, Kind(s), d) /\ d \in Seq(Bytes) /\ t.proc = p /\ t.open = "open"
  BY Zenon, <1>1, CallerIs
<1>3. call \in [Procs -> CallType] /\ str \in [Streams -> StreamType]
  BY DEF IInv, Typed
<1>4. file' = [file EXCEPT ![str[s].file].data = d]
  BY Zenon, <1>1, <1>2, SameFile
<1>5. t.sent = 0
  BY Zenon, <1>1, <1>2 DEF IInv, SentRight
<1>6. SeenCall[p] = c /\ SeenCall \in [Procs -> CallType]
  BY Zenon, <1>1, <1>2, CallSeen, CallAsIs
<1>7. Promise!Running(p, {"write", "writec"})
  BY Zenon, <1>1, <1>6 DEF Promise!Running, Writes
<1>8. CASE call' = [call EXCEPT ![p].at = "flush"] /\ UNCHANGED str
  <2>1. PICK e : e = [c EXCEPT !.at = "flush"]
    OBVIOUS
  <2>2. call' = [call EXCEPT ![p] = e]
    BY <1>3, <1>8, <2>1
  <2>3. /\ e \in CallType /\ e.stream = s /\ e.at = "flush"
    BY <1>2, <2>1 DEF CallType
  <2>4. str' = [str EXCEPT ![s] = t]
    BY <1>2, <1>3, <1>8
  <2>5. Moves(p, s, t, d, e)
    BY Zenon, <1>1, <1>4, <2>2, <2>3, <2>4 DEF Moves
  <2>6. SeenMoves(p, s, SeenAs(Kind(s), d, t, Far(s)), t, e)
    BY <1>2, <2>5, SeenMove
  <2>7. UNCHANGED <<SeenFile, SeenStream>>
    BY <1>2, <2>6, SameSeen, ViewIs
  <2>8. CallAs(e) = c
    <3> HIDE DEF c
    <3> QED
      BY Zenon, <1>1, <1>2, <2>1, CallBack
  <2>9. SeenCall' = [SeenCall EXCEPT ![p] = c]
    BY <2>6, <2>8 DEF SeenMoves
  <2>10. UNCHANGED SeenCall
    BY <1>6, <2>9
  <2> QED
    BY <2>7, <2>10
<1>9. ASSUME NEW n \in 1..Len(c.left), NEW b, Appended(t, b, c.left, n),
             t.end - t.beg + n <= BufSize,
             str' = [str EXCEPT ![s] =
                       [t EXCEPT !.pos = t.pos + n, !.end = t.end + n, !.buf = b]],
             call' = [call EXCEPT ![p].left = SubSeq(@, n + 1, Len(@)),
                        ![p].at = IF Len(c.left) = n THEN "done" ELSE "run"]
      PROVE  Promise!Write(p)
  <2>1. PICK a, g : /\ a = IF Len(c.left) = n THEN "done" ELSE "run"
                    /\ g = SubSeq(c.left, n + 1, Len(c.left))
    OBVIOUS
  <2>2. PICK e : e = [c EXCEPT !.left = g, !.at = a]
    OBVIOUS
  <2>3. PICK u : u = [t EXCEPT !.pos = t.pos + n, !.end = t.end + n, !.buf = b]
    OBVIOUS
  <2>4. call' = [call EXCEPT ![p] = e] /\ str' = [str EXCEPT ![s] = u]
    BY <1>3, <1>9, <2>1, <2>2, <2>3
  <2>5. c.left \in Seq(Bytes) /\ Len(c.left) \in Nat /\ n \in Nat /\ n >= 1 /\ n <= Len(c.left)
    BY <1>2 DEF CallType
  <2>6. g \in Seq(Bytes)
    BY <2>1, <2>5
  <2>7. e \in CallType /\ e.stream = s /\ e.at = a /\ a # "flush"
    BY Zenon, <1>2, <2>1, <2>2, <2>6 DEF CallType
  <2>8. t.pos \in Int /\ t.end \in Int /\ t.beg \in Int /\ t.pos + n \in Int /\ t.end + n \in Int
    BY SMTT(60), <1>2, <2>5 DEF StreamType
  <2>9. /\ u \in StreamType /\ u.pos = t.pos + n /\ u.end = t.end + n /\ u.buf = b
        /\ u.beg = t.beg /\ u.mode = "w" /\ u.proc = t.proc /\ u.open = t.open
        /\ u.file = t.file /\ u.sent = 0 /\ u.off = t.off
    <3>1. b \in [0..BufSize - 1 -> Memory]
      BY <1>9 DEF Appended
    <3>2. PICK t0 : t0 = t
      OBVIOUS
    <3> HIDE DEF t
    <3> QED
      BY Zenon, <1>1, <1>2, <1>5, <2>3, <2>8, <3>1 DEF StreamType
  <2>10. Moves(p, s, u, d, e)
    BY Zenon, <1>1, <1>2, <1>4, <2>4, <2>7, <2>9 DEF Moves
  <2>11. PICK v, w, k, o, z : /\ v = SeenAs(Kind(s), d, t, Far(s)) /\ w = SeenAs(Kind(s), d, u, Far(s))
                              /\ k = Kind(s) /\ o = SeenAt(k, t) /\ z = Far(s)
    OBVIOUS
  <2>12. SeenMoves(p, s, w, u, e)
    BY <1>2, <2>10, <2>11, SeenMove
  <2>13. PICK f : f = t.file
    OBVIOUS
  <2>14. /\ f \in Files /\ SeenFile[f].kind = k /\ SeenFile[f].data = v /\ v \in Seq(Bytes)
         /\ SeenStream[s] = StreamAs(k, t) /\ SeenStream[s].file = f /\ SeenStream[s].fp = o
    BY <1>2, <2>11, <2>13, ViewIs, StreamAsIs
  <2>15. PICK x, y : x = Unsent(t) /\ y = SubSeq(c.left, 1, n)
    OBVIOUS
  <2>16. Unsent(u) = x \o y /\ x \in Seq(Bytes) /\ Len(x) = t.pos - t.beg /\ y \in Seq(Bytes) /\ Len(y) = n
    <3>2. Tags(t)
      BY <1>2 DEF StreamRight
    <3>3. PICK l : l = c.left
      OBVIOUS
    <3>4. l \in Seq(Bytes) /\ n \in 1..Len(l) /\ Appended(t, b, l, n) /\ t.end - t.beg + n <= BufSize
      BY <1>9, <2>5, <3>3
    <3> HIDE DEF t, s, c
    <3>1. Tags(u)
      <4>1. t \in StreamType /\ t.mode = "w" /\ Tags(t)
        BY Zenon, <1>1, <1>2, <3>2
      <4>2. /\ u.buf = b /\ u.beg = t.beg /\ u.pos = t.pos + n /\ u.end = t.end + n
            /\ u.sent = 0 /\ u.mode = "w"
        BY <2>9
      <4> QED
        BY <3>4, <4>1, <4>2, AppendTags
    <3>5. /\ Unsent(u) = Unsent(t) \o SubSeq(l, 1, n)
          /\ Unsent(t) \in Seq(Bytes) /\ Len(Unsent(t)) = t.pos - t.beg
          /\ SubSeq(l, 1, n) \in Seq(Bytes) /\ Len(SubSeq(l, 1, n)) = n
      <4>1. t \in StreamType /\ Tags(t) /\ t.mode = "w" /\ t.sent = 0
        BY Zenon, <1>1, <1>2, <1>5, <3>2
      <4>2. u \in StreamType /\ Tags(u) /\ u.buf = b /\ u.beg = t.beg /\ u.pos = t.pos + n
            /\ u.sent = 0 /\ u.mode = "w"
        BY Zenon, <2>9, <3>1
      <4> QED
        BY ZenonT(60), <3>4, <4>1, <4>2, AppendSeen
    <3> QED
      BY <2>15, <3>3, <3>5, Zenon
  <2>17. (k = "pipe" => w = v \o y) /\ (k # "pipe" => w = Promise!Overlay(v, o, y))
    <3>1. z \in Seq(Bytes) /\ v = SeenAs(k, d, t, z) /\ w = SeenAs(k, d, u, z)
      BY <1>2, <2>11, SeenOf
    <3> HIDE DEF t, s, c, d
    <3>2. (k = "pipe" => w = v \o y) /\ (k # "pipe" => w = Laid(v, o, y))
      <4>1. Unsent(t) \in Seq(Bytes) /\ Unsent(u) = Unsent(t) \o y /\ Len(Unsent(t)) = t.pos - t.beg
        BY <2>15, <2>16, Zenon
      <4>2. Grown(k, t, SeenAs(k, d, t, z), SeenAs(k, d, u, z), y)
        BY Zenon, <1>1, <1>2, <2>9, <2>16, <3>1, <4>1, LaterSeen
      <4> QED
        BY <2>11, <3>1, <4>2, Zenon DEF Grown
    <3>3. k # "pipe" => o \in Nat
      <4>1. k # "pipe" => o = t.off + (t.pos - t.beg)
        BY Zenon, <1>1, <2>11 DEF SeenAt
      <4>2. t.off \in Nat /\ t.pos - t.beg \in Nat
        BY <1>2, <2>16 DEF StreamType
      <4> QED
        BY <4>1, <4>2
    <3>4. k # "pipe" => Promise!Overlay(v, o, y) = Laid(v, o, y)
      BY <2>14, <2>16, <3>3, OverlayIs
    <3> QED
      BY <3>2, <3>4
  <2>18. SeenCall' = [SeenCall EXCEPT ![p].left = SubSeq(@, n + 1, Len(@)),
                         ![p].at = IF Len(c.left) = n THEN "done" ELSE "run"]
    <3>1. SeenCall' = [SeenCall EXCEPT ![p] = e]
      BY Zenon, <2>7, <2>12, CallAsIs DEF SeenMoves
    <3> QED
      BY <1>6, <2>1, <2>2, <3>1
  <2>19. IF k = "pipe"
         THEN /\ SeenFile' = [SeenFile EXCEPT ![f].data = @ \o SubSeq(c.left, 1, n)]
              /\ UNCHANGED SeenStream
         ELSE /\ SeenFile' = [SeenFile EXCEPT ![f].data = Promise!Overlay(@, o, SubSeq(c.left, 1, n))]
              /\ SeenStream' = [SeenStream EXCEPT ![s].fp = @ + n]
    <3>1. SeenFile' = [SeenFile EXCEPT ![f].data = w]
      BY <2>12, <2>13 DEF SeenMoves
    <3>2. SeenStream' = [SeenStream EXCEPT ![s] = StreamAs(k, u)]
      BY <2>11, <2>12 DEF SeenMoves
    <3>3. CASE k = "pipe"
      <4>1. [SeenFile EXCEPT ![f].data = @ \o SubSeq(c.left, 1, n)] = [SeenFile EXCEPT ![f].data = w]
        BY <2>14, <2>15, <2>17, <3>3, Zenon
      <4>2. StreamAs(k, u) = StreamAs(k, t)
        <5>1. SeenAt(k, u) = 0 /\ SeenAt(k, t) = 0
          BY <3>3 DEF SeenAt
        <5> QED
          BY <2>9, <5>1, <1>1, Zenon DEF StreamAs
      <4>3. UNCHANGED SeenStream
        BY <1>2, <2>11, <2>12, <2>14, <4>2, SameSeen
      <4> QED
        BY <3>1, <3>3, <4>1, <4>3, Zenon
    <3>4. CASE k # "pipe"
      <4>1. [SeenFile EXCEPT ![f].data = Promise!Overlay(@, o, SubSeq(c.left, 1, n))]
              = [SeenFile EXCEPT ![f].data = w]
        BY <2>14, <2>15, <2>17, <3>4, Zenon
      <4>2. PICK q, r : q = StreamAs(k, t) /\ r = StreamAs(k, u) /\ r = [q EXCEPT !.fp = q.fp + n]
        <5>1. SeenAt(k, u) = o + n
          <6>1. o = t.off + (t.pos - t.beg) /\ SeenAt(k, u) = u.off + (u.pos - u.beg)
            BY Zenon, <1>1, <2>9, <2>11, <3>4 DEF SeenAt
          <6>2. t.off \in Nat /\ t.pos \in Int /\ t.beg \in Int /\ n \in Int
            BY <1>2, <2>5, <2>8 DEF StreamType
          <6>3. PICK i, j, l : i = t.off /\ j = t.pos /\ l = t.beg
            OBVIOUS
          <6>4. o = i + (j - l) /\ SeenAt(k, u) = i + ((j + n) - l)
            BY Zenon, <2>9, <6>1, <6>3
          <6>5. i \in Nat /\ j \in Int /\ l \in Int
            BY Zenon, <6>2, <6>3
          <6> HIDE DEF t, s, c, d
          <6> QED
            BY <6>2, <6>4, <6>5
        <5>2. /\ StreamAs(k, t) = [file |-> t.file, mode |-> t.mode, proc |-> t.proc, open |-> t.open, fp |-> o]
              /\ StreamAs(k, u) = [file |-> t.file, mode |-> t.mode, proc |-> t.proc, open |-> t.open, fp |-> o + n]
          BY <1>1, <2>9, <2>11, <5>1, Zenon DEF StreamAs
        <5> HIDE DEF t
        <5> QED
          BY <5>2
      <4>3. SeenStream' = [SeenStream EXCEPT ![s].fp = @ + n]
        BY Zenon, <2>14, <3>2, <4>2
      <4> QED
        BY <3>1, <3>4, <4>1, <4>3, Zenon
    <3> QED
      BY <3>3, <3>4
  <2> QED
    BY <1>6, <1>7, <2>14, <2>18, <2>19, Zenon DEF Promise!Write
<1> QED
  BY Zenon, <1>1, <1>8, <1>9

------------------------------------------------------------------------------
(* What a program sees of a flush.                                           *)

(* Of the bytes to be sent, n are on their way. *)
LEMMA RestUnsent ==
    ASSUME NEW t \in StreamType, Tags(t), t.mode = "w", NEW n \in 0..Len(Unsent(t)),
           NEW u \in StreamType, Tags(u), u.mode = "w",
           u.pos - u.beg - u.sent = Len(Unsent(t)) - n,
           n < Len(Unsent(t)) => u.buf = t.buf /\ u.sent = t.sent + n
    PROVE  Unsent(u) = SubSeq(Unsent(t), n + 1, Len(Unsent(t)))
<1>1. PICK x, y : x = Unsent(t) /\ y = Unsent(u)
  OBVIOUS
<1>2. PICK l : l = Len(x)
  OBVIOUS
<1>3. x \in Seq(Bytes) /\ l = t.pos - t.beg - t.sent /\ l \in Nat /\ n \in Nat /\ n <= l
  BY <1>1, <1>2, UnsentIs
<1>4. y \in Seq(Bytes) /\ Len(y) = l - n
  BY <1>1, <1>2, UnsentIs
<1>5. PICK z : z = SubSeq(x, n + 1, l)
  OBVIOUS
<1>6. z \in Seq(Bytes) /\ Len(z) = l - n /\ \A i \in 1..l - n : z[i] = x[n + i]
  <2>1. x \in Seq(Bytes) /\ n \in Nat /\ l \in Nat /\ n <= l /\ l <= Len(x)
    BY <1>2, <1>3
  <2> QED
    BY SMTT(60), <1>5, <2>1, PieceOf
<1>7. ASSUME NEW i \in 1..l - n PROVE y[i] = z[i]
  <2>1. u.buf = t.buf /\ u.sent = t.sent + n /\ u.pos - u.beg - u.sent = l - n
    BY <1>1, <1>2, <1>3
  <2>2. y = [j \in 1..l - n |-> t.buf[u.sent + j - 1]]
    BY <1>1, <2>1 DEF Unsent
  <2>3. x = [j \in 1..l |-> t.buf[t.sent + j - 1]]
    BY <1>1, <1>3 DEF Unsent
  <2>4. n + i \in 1..l
    BY <1>3
  <2>5. y[i] = t.buf[u.sent + i - 1] /\ x[n + i] = t.buf[t.sent + (n + i) - 1]
    BY <2>2, <2>3, <2>4
  <2>6. u.sent + i - 1 = t.sent + (n + i) - 1
    <3>1. t.sent \in Int
      BY DEF StreamType
    <3> QED
      BY <1>3, <2>1, <3>1
  <2> QED
    BY <1>6, <2>5, <2>6
<1>8. y = z
  <2>1. \A i \in 1..Len(y) : y[i] = z[i]
    BY <1>4, <1>7
  <2> QED
    BY <1>4, <1>6, <2>1, SeqSame
<1> QED
  BY <1>1, <1>2, <1>5, <1>8

(* Bytes that change hands are seen all the same. *)
OutAsIn(d, e, out, n, at) ==
    /\ (e \o Laid(d, Len(d), SubSeq(out, 1, n))) \o SubSeq(out, n + 1, Len(out)) = (e \o d) \o out
    /\ n = Len(out) => Laid(Laid(d, at, SubSeq(out, 1, n)), at + n, SubSeq(out, n + 1, Len(out)))
                         = Laid(d, at, out)

LEMMA OutIsIn ==
    ASSUME NEW d \in Seq(Bytes), NEW e \in Seq(Bytes), NEW out \in Seq(Bytes),
           NEW n \in 0..Len(out), NEW at \in Nat
    PROVE  OutAsIn(d, e, out, n, at)
<1>1. PICK x, y : x = SubSeq(out, 1, n) /\ y = SubSeq(out, n + 1, Len(out))
  OBVIOUS
<1>2. /\ n \in Nat /\ n <= Len(out) /\ Len(out) \in Nat
  OBVIOUS
<1>3. x \in Seq(Bytes) /\ y \in Seq(Bytes) /\ Len(y) = Len(out) - n
  <2>1. y \in Seq(Bytes) /\ Len(y) = Len(out) - n
    BY <1>1, <1>2, PieceOf
  <2>2. x \in Seq(Bytes)
    BY <1>1, <1>2
  <2> QED
    BY <2>1, <2>2
<1>4. x \o y = out
  BY <1>1, Whole
<1>5. Laid(d, Len(d), x) = d \o x
  BY <1>3, LaidBehind
<1>6. (e \o (d \o x)) \o y = (e \o d) \o out
  <2>1. PICK a, b : a = d \o x /\ b = e \o d
    OBVIOUS
  <2>2. a \in Seq(Bytes) /\ b \in Seq(Bytes)
    BY <1>3, <2>1, JoinIs
  <2>3. b \o x = e \o a
    <3>1. Grouped(e, d, x)
      BY <1>3, Grouping
    <3> QED
      BY Zenon, <2>1, <3>1 DEF Grouped
  <2>4. (b \o x) \o y = b \o (x \o y)
    <3>1. b \in Seq(Bytes) /\ x \in Seq(Bytes) /\ y \in Seq(Bytes)
      BY <1>3, <2>2
    <3>2. Grouped(b, x, y)
      BY <3>1, Grouping
    <3> QED
      BY Zenon, <3>2 DEF Grouped
  <2> QED
    BY <1>4, <2>1, <2>3, <2>4, Zenon
<1>7. ASSUME n = Len(out) PROVE Laid(Laid(d, at, x), at + n, y) = Laid(d, at, out)
  <2>1. Len(y) = 0
    BY <1>2, <1>3, <1>7
  <2>2. PICK a : a = Laid(d, at, x)
    OBVIOUS
  <2>3. a \in Seq(Bytes) /\ at + n \in Nat
    BY <1>2, <1>3, <2>2, LaidIs
  <2>4. Laid(a, at + n, y) = a
    BY <1>3, <2>1, <2>3, LaidNothing
  <2>5. x = out
    BY <1>1, <1>7, WholePiece
  <2> QED
    BY <2>2, <2>4, <2>5
<1> QED
  BY <1>1, <1>5, <1>6, <1>7, Zenon DEF OutAsIn

LEMMA SentSeen ==
    ASSUME NEW t \in StreamType, Tags(t), t.mode = "w", NEW n \in 0..Len(Unsent(t)),
           NEW u \in StreamType, Tags(u), u.mode = "w",
           u.pos - u.beg - u.sent = Len(Unsent(t)) - n,
           n < Len(Unsent(t)) => u.buf = t.buf /\ u.sent = t.sent + n,
           NEW k, n = Len(Unsent(t)) \/ k = "pipe",
           NEW d \in Seq(Bytes), NEW e \in Seq(Bytes), k # "pipe" => u.off = t.off + n
    PROVE  SeenAs(k, Laid(d, IF k = "pipe" THEN Len(d) ELSE t.off, SubSeq(Unsent(t), 1, n)), u, e)
             = SeenAs(k, d, t, e)
<1>1. PICK out \in Seq(Bytes) : out = Unsent(t)
  BY UnsentIs
<1>2. Unsent(u) = SubSeq(out, n + 1, Len(out))
  BY <1>1, RestUnsent
<1>3. OutAsIn(d, e, out, n, t.off)
  <2>1. t.off \in Nat
    BY DEF StreamType
  <2> QED
    BY <1>1, <2>1, OutIsIn
<1>4. CASE k = "pipe"
  <2>1. PICK x : x = Laid(d, Len(d), SubSeq(out, 1, n))
    OBVIOUS
  <2>2. SeenAs(k, d, t, e) = (e \o d) \o out
    BY <1>1, <1>4, Zenon DEF SeenAs
  <2>3. SeenAs(k, x, u, e) = (e \o x) \o SubSeq(out, n + 1, Len(out))
    BY <1>2, <1>4, Zenon DEF SeenAs
  <2>4. (e \o x) \o SubSeq(out, n + 1, Len(out)) = (e \o d) \o out
    BY <1>3, <2>1, Zenon DEF OutAsIn
  <2>5. Laid(d, IF k = "pipe" THEN Len(d) ELSE t.off, SubSeq(Unsent(t), 1, n)) = x
    BY <1>1, <1>4, <2>1, Zenon
  <2> QED
    BY <2>2, <2>3, <2>4, <2>5, Zenon
<1>5. CASE k # "pipe"
  <2>1. PICK x : x = Laid(d, t.off, SubSeq(out, 1, n))
    OBVIOUS
  <2>2. SeenAs(k, d, t, e) = Laid(d, t.off, out)
    BY <1>1, <1>5, Zenon DEF SeenAs
  <2>3. SeenAs(k, x, u, e) = Laid(x, t.off + n, SubSeq(out, n + 1, Len(out)))
    BY <1>2, <1>5, Zenon DEF SeenAs
  <2>4. Laid(x, t.off + n, SubSeq(out, n + 1, Len(out))) = Laid(d, t.off, out)
    BY <1>1, <1>3, <1>5, <2>1, Zenon DEF OutAsIn
  <2>5. Laid(d, IF k = "pipe" THEN Len(d) ELSE t.off, SubSeq(Unsent(t), 1, n)) = x
    BY <1>1, <1>5, <2>1, Zenon
  <2> QED
    BY <2>2, <2>3, <2>4, <2>5, Zenon
<1> QED
  BY <1>4, <1>5

(* A call that ends out of io61_flush() is seen to end. *)
EndsSeen(c) == LET g == [c EXCEPT !.at = "run"] IN
    g.at = "run" /\ g.op = c.op /\ [g EXCEPT !.at = "done"] = [c EXCEPT !.at = "done"]

LEMMA CallTurn ==
    ASSUME NEW c \in CallType
    PROVE  EndsSeen(c)
<1>1. PICK op, ss, at, want, left, got, ok :
        c = [op |-> op, stream |-> ss, at |-> at, want |-> want, left |-> left, got |-> got, ok |-> ok]
  <2>1. c = [op |-> c.op, stream |-> c.stream, at |-> c.at, want |-> c.want, left |-> c.left,
             got |-> c.got, ok |-> c.ok]
    BY DEF CallType
  <2> QED
    BY <2>1, Zenon
<1> QED
  BY <1>1 DEF EndsSeen

LEMMA FlushSeen ==
    ASSUME IInv, IInv', NEW p \in Procs, FlushStep(p)
    PROVE  Promise!Flush(p) \/ UNCHANGED <<SeenFile, SeenStream, SeenCall>>
<1> DEFINE c == call[p]
           s == c.stream
           t == str[s]
           d == Data(s)
           out == Unsent(t)
<1>1. c.at = "flush" /\ \E n : Flushes(p, s, n)
  BY FlushIs
<1>2. PICK n : Flushes(p, s, n)
  BY <1>1
<1>3. /\ c \in CallType /\ s \in Streams /\ t \in StreamType /\ d \in Seq(Bytes)
      /\ CallRight(p, c, t, Kind(s)) /\ StreamRight(t, Kind(s), d)
      /\ t.proc = p /\ t.open = "open"
  BY <1>1, CallerIs
<1>4. call \in [Procs -> CallType] /\ str \in [Streams -> StreamType]
  BY DEF IInv, Typed
<1>5. t.mode = "w"
  BY <1>1, <1>3 DEF CallRight
<1>6. /\ out \in Seq(Bytes) /\ Len(out) = t.pos - t.beg - t.sent /\ Len(out) \in Nat
      /\ n \in 0..Len(out) /\ (n = Len(out) \/ Kind(s) = "pipe")
  <2>1. /\ out \in Seq(Bytes) /\ Len(out) = t.pos - t.beg - t.sent
        /\ n \in 0..Len(out) /\ (n = Len(out) \/ Kind(s) = "pipe")
    BY Zenon, <1>2 DEF Flushes
  <2> HIDE DEF out, d, t, s, c
  <2>2. Len(out) \in Nat
    BY <2>1
  <2> QED
    BY Zenon, <2>1, <2>2
<1>7. /\ t.pos \in Int /\ t.beg \in Int /\ t.end \in Int /\ t.sent \in Nat /\ t.off \in Nat
      /\ t.pos = t.end /\ n \in Nat /\ Tags(t) /\ (Kind(s) # "pipe" => t.sent = 0)
  <2>1. /\ t.pos \in Int /\ t.beg \in Int /\ t.end \in Int /\ t.sent \in Nat /\ t.off \in Nat
    BY Zenon, <1>3 DEF StreamType
  <2>2. t.pos = t.end /\ Tags(t) /\ (Kind(s) # "pipe" => t.sent = 0)
    BY Zenon, <1>3, <1>5 DEF StreamRight, Tags, WriterRight
  <2>3. n \in Nat
    <3> HIDE DEF c, s, t, d, out
    <3> QED
      BY <1>6
  <2> QED
    BY Zenon, <2>1, <2>2, <2>3
<1>8. PICK x : x = Laid(d, IF Kind(s) = "pipe" THEN Len(d) ELSE t.off, SubSeq(out, 1, n))
  OBVIOUS
<1>9. file' = [file EXCEPT ![t.file].data = x]
  BY Zenon, <1>2, <1>8 DEF Flushes
<1>10. SeenCall[p] = CallAs(c) /\ SeenCall \in [Procs -> CallType] /\ CallAs(c) = [c EXCEPT !.at = "run"]
  BY <1>1, <1>3, CallSeen, CallAsIs
<1>11. PICK k, z : k = Kind(s) /\ z = Far(s)
  OBVIOUS
<1>12. z \in Seq(Bytes)
  BY <1>3, <1>11, SeenOf
<1>13. \A u, e : Moves(p, s, u, x, e) =>
         /\ SeenMoves(p, s, SeenAs(Kind(s), x, u, Far(s)), u, e)
         /\ u \in StreamType /\ Tags(u)
  <2>1. ASSUME NEW u, NEW e, Moves(p, s, u, x, e)
        PROVE  /\ SeenMoves(p, s, SeenAs(Kind(s), x, u, Far(s)), u, e)
               /\ u \in StreamType /\ Tags(u)
    <3>1. str'[s] = u
      BY <1>3, <1>4, <2>1 DEF Moves
    <3>2. str'[s] \in StreamType /\ Tags(str'[s])
      BY <1>3 DEF IInv, Typed, StreamRight
    <3> QED
      BY <1>3, <2>1, <3>1, <3>2, SeenMove
  <2> QED
    BY <2>1
<1>14. ASSUME NEW u, NEW e, Moves(p, s, u, x, e), u.off = t.off + n \/ k = "pipe",
              u.pos - u.beg - u.sent = Len(out) - n,
              n < Len(out) => u.buf = t.buf /\ u.sent = t.sent + n,
              StreamAs(k, u) = StreamAs(k, t)
       PROVE  /\ UNCHANGED <<SeenFile, SeenStream>>
              /\ SeenCall' = [SeenCall EXCEPT ![p] = CallAs(e)]
  <2>1. u \in StreamType /\ Tags(u) /\ u.mode = "w" /\ SeenMoves(p, s, SeenAs(k, x, u, z), u, e)
    BY <1>5, <1>11, <1>13, <1>14 DEF Moves
  <2>2. SeenAs(k, x, u, z) = SeenAs(k, d, t, z)
    <3>1. x = Laid(d, IF k = "pipe" THEN Len(d) ELSE t.off, SubSeq(Unsent(t), 1, n))
      BY <1>8, <1>11
    <3>2. /\ t \in StreamType /\ Tags(t) /\ t.mode = "w" /\ n \in 0..Len(Unsent(t))
          /\ u.pos - u.beg - u.sent = Len(Unsent(t)) - n
          /\ n < Len(Unsent(t)) => u.buf = t.buf /\ u.sent = t.sent + n
          /\ n = Len(Unsent(t)) \/ k = "pipe"
          /\ d \in Seq(Bytes) /\ (k # "pipe" => u.off = t.off + n)
      BY Zenon, <1>3, <1>5, <1>6, <1>7, <1>11, <1>14
    <3> HIDE DEF t, d, s, c
    <3>3. SeenAs(k, Laid(d, IF k = "pipe" THEN Len(d) ELSE t.off, SubSeq(Unsent(t), 1, n)), u, z)
            = SeenAs(k, d, t, z)
      BY <1>12, <2>1, <3>2, SentSeen
    <3> QED
      BY <3>1, <3>3, Zenon
  <2>3. UNCHANGED SeenFile
    BY <1>3, <1>11, <2>1, <2>2, SameSeen, ViewIs
  <2>4. UNCHANGED SeenStream
    BY <1>3, <1>11, <1>14, <2>1, SameSeen, ViewIs
  <2> QED
    BY <2>1, <2>3, <2>4 DEF SeenMoves
<1>15. CASE n < Len(out)
  <2>1. PICK u : u = [t EXCEPT !.sent = t.sent + n]
    OBVIOUS
  <2>2. str' = [str EXCEPT ![s] = u] /\ call' = [call EXCEPT ![p] = c]
    BY <1>2, <1>4, <1>15, <2>1 DEF Flushes
  <2>3. /\ u.sent = t.sent + n /\ u.mode = t.mode /\ u.beg = t.beg /\ u.pos = t.pos
        /\ u.buf = t.buf /\ u.off = t.off /\ u.open = t.open /\ u.proc = t.proc
        /\ u.file = t.file
    <3> HIDE DEF t
    <3> QED
      BY <1>3, <2>1 DEF StreamType
  <2>4. Moves(p, s, u, x, c)
    BY Zenon, <1>1, <1>3, <1>9, <2>2, <2>3 DEF Moves, c
  <2>5. k = "pipe" /\ StreamAs(k, u) = StreamAs(k, t)
    <3>1. k = "pipe"
      BY <1>6, <1>7, <1>11, <1>15
    <3>2. SeenAt(k, u) = 0 /\ SeenAt(k, t) = 0
      BY <3>1 DEF SeenAt
    <3> QED
      BY <2>3, <3>1, <3>2, Zenon DEF StreamAs
  <2>6. u.pos - u.beg - u.sent = Len(out) - n
    <3> HIDE DEF t, out
    <3>1. u.pos - u.beg - u.sent = t.pos - t.beg - (t.sent + n) /\ Len(out) = t.pos - t.beg - t.sent
      BY <1>6, <2>3
    <3> QED
      BY SMTT(60), <1>7, <3>1
  <2>7. UNCHANGED <<SeenFile, SeenStream>> /\ SeenCall' = [SeenCall EXCEPT ![p] = CallAs(c)]
    BY <1>14, <2>3, <2>4, <2>5, <2>6
  <2>8. UNCHANGED SeenCall
    BY <1>10, <2>7
  <2> QED
    BY <2>7, <2>8
<1>16. CASE ~(n < Len(out))
  <2>1. PICK a, o : /\ a = IF c.op = "flush" THEN "done" ELSE "run"
                    /\ o = IF Kind(s) = "pipe" THEN 0 ELSE t.off + n
    OBVIOUS
  <2>2. PICK u : u = [t EXCEPT !.beg = t.pos, !.sent = 0, !.off = o]
    OBVIOUS
  <2>3. PICK h : h = [c EXCEPT !.at = a]
    OBVIOUS
  <2>4. str' = [str EXCEPT ![s] = u] /\ call' = [call EXCEPT ![p] = h]
    BY Zenon, <1>2, <1>4, <1>16, <2>1, <2>2, <2>3 DEF Flushes
  <2>5. /\ u.sent = 0 /\ u.mode = t.mode /\ u.beg = t.pos /\ u.pos = t.pos
        /\ u.off = o /\ u.open = t.open /\ u.proc = t.proc /\ u.file = t.file
    <3> HIDE DEF t
    <3> QED
      BY <1>3, <2>2 DEF StreamType
  <2>6. h \in CallType /\ h.stream = s /\ h.at = a /\ a # "flush"
    BY <1>3, <2>1, <2>3 DEF CallType
  <2>7. Moves(p, s, u, x, h)
    BY <1>1, <1>3, <1>9, <2>4, <2>5, <2>6 DEF Moves
  <2>8. StreamAs(k, u) = StreamAs(k, t)
    <3>1. SeenAt(k, u) = SeenAt(k, t)
      <4>1. CASE k = "pipe"
        BY <4>1 DEF SeenAt
      <4>2. CASE k # "pipe"
        <5>1. u.off = t.off + n /\ n = t.pos - t.beg
          BY <1>6, <1>7, <1>11, <1>16, <2>1, <2>5, <4>2
        <5>2. SeenAt(k, u) = u.off + (u.pos - u.beg) /\ SeenAt(k, t) = t.off + (t.pos - t.beg)
          BY <1>5, <2>5, <4>2 DEF SeenAt
        <5> QED
          BY <1>7, <2>5, <5>1, <5>2
      <4> QED
        BY <4>1, <4>2
    <3> QED
      BY <2>5, <3>1, Zenon DEF StreamAs
  <2>9. u.pos - u.beg - u.sent = Len(out) - n /\ (u.off = t.off + n \/ k = "pipe")
    BY <1>6, <1>7, <1>11, <1>16, <2>1, <2>5
  <2>10. UNCHANGED <<SeenFile, SeenStream>> /\ SeenCall' = [SeenCall EXCEPT ![p] = h]
    <3>1. CallAs(h) = h
      BY <2>6, CallAsIs
    <3>2. UNCHANGED <<SeenFile, SeenStream>> /\ SeenCall' = [SeenCall EXCEPT ![p] = CallAs(h)]
      BY <1>14, <1>16, <2>7, <2>8, <2>9
    <3> QED
      BY <3>1, <3>2
  <2>11. CASE c.op = "flush"
    <3>1. PICK g : g = SeenCall[p] /\ g = [c EXCEPT !.at = "run"] /\ g \in CallType
      BY <1>10
    <3>2. g.at = "run" /\ g.op = "flush" /\ [g EXCEPT !.at = "done"] = h
      <4>1. h = [c EXCEPT !.at = "done"] /\ c \in CallType
        BY <1>3, <2>1, <2>3, <2>11
      <4> HIDE DEF c
      <4>2. g.at = "run" /\ g.op = c.op /\ [g EXCEPT !.at = "done"] = [c EXCEPT !.at = "done"]
        <5>1. EndsSeen(c)
          BY <4>1, CallTurn
        <5> QED
          BY <3>1, <5>1, Zenon DEF EndsSeen
      <4> QED
        BY <2>11, <4>1, <4>2
    <3>3. Promise!Running(p, {"flush"}) /\ Promise!Return(p, SeenCall[p])
      BY <2>10, <3>1, <3>2 DEF Promise!Running, Promise!Return
    <3> QED
      BY <2>10, <3>3, Zenon DEF Promise!Flush
  <2>12. CASE c.op # "flush"
    <3>1. h = SeenCall[p]
      BY <1>10, <2>1, <2>3, <2>12
    <3>2. UNCHANGED SeenCall
      BY <1>10, <2>10, <3>1
    <3> QED
      BY <2>10, <3>2
  <2> QED
    BY <2>11, <2>12
<1> QED
  BY <1>15, <1>16

------------------------------------------------------------------------------
(* What a program sees of the other calls.                                   *)

LEMMA NextTyped ==
    ASSUME IInv', NEW s \in Streams
    PROVE  str'[s] \in StreamType /\ Tags(str'[s])
BY DEF IInv, Typed, StreamRight

(* A stream of which only the position changes. *)
LEMMA Repositioned ==
    ASSUME NEW k, NEW t, NEW u,
           u.file = t.file, u.mode = t.mode, u.proc = t.proc, u.open = t.open
    PROVE  StreamAs(k, u) = [StreamAs(k, t) EXCEPT !.fp = SeenAt(k, u)]
<1>1. PICK o, q : o = SeenAt(k, t) /\ q = SeenAt(k, u)
  OBVIOUS
<1>2. /\ StreamAs(k, t) = [file |-> t.file, mode |-> t.mode, proc |-> t.proc, open |-> t.open, fp |-> o]
      /\ StreamAs(k, u) = [file |-> t.file, mode |-> t.mode, proc |-> t.proc, open |-> t.open, fp |-> q]
  BY <1>1, Zenon DEF StreamAs
<1>3. PICK v : v = [file |-> t.file, mode |-> t.mode, proc |-> t.proc, open |-> t.open, fp |-> o]
  OBVIOUS
<1>4. [v EXCEPT !.fp = q] = [file |-> t.file, mode |-> t.mode, proc |-> t.proc, open |-> t.open, fp |-> q]
  BY <1>3
<1> QED
  BY <1>1, <1>2, <1>3, <1>4, Zenon

(* A stream for writing with nothing to send shows its file as it is. *)
LEMMA NothingSeen ==
    ASSUME NEW k, NEW d \in Seq(Bytes), NEW e, NEW t \in StreamType, NEW u \in StreamType,
           Tags(t), Tags(u), t.mode = "w", u.mode = "w",
           t.pos - t.beg - t.sent = 0, u.pos - u.beg - u.sent = 0
    PROVE  SeenAs(k, d, u, e) = SeenAs(k, d, t, e)
<1>1. PICK x, y : x = Unsent(t) /\ y = Unsent(u)
  OBVIOUS
<1>2. x \in Seq(Bytes) /\ y \in Seq(Bytes) /\ Len(x) = 0 /\ Len(y) = 0
  BY <1>1, UnsentIs
<1>3. x = y
  BY <1>2
<1>4. CASE k = "pipe"
  BY <1>1, <1>3, <1>4, Zenon DEF SeenAs
<1>5. CASE k # "pipe"
  <2>1. t.off \in Nat /\ u.off \in Nat
    BY DEF StreamType
  <2>2. Laid(d, t.off, x) = d /\ Laid(d, u.off, y) = d
    BY <1>2, <2>1, LaidNothing
  <2> QED
    BY <1>1, <1>5, <2>2, Zenon DEF SeenAs
<1> QED
  BY <1>4, <1>5

LEMMA SeekSeen ==
    ASSUME IInv, IInv', NEW p \in Procs, SeekStep(p)
    PROVE  Promise!Seek(p)
<1> DEFINE c == call[p]
           s == c.stream
           t == str[s]
           d == Data(s)
           pos == c.want
           new == (pos \div BufSize) * BufSize
<1>1. c.at = "run" /\ c.op = "seek"
  BY SeekIs
<1>2. PICK bs : Seeks(p, s, bs)
  BY SeekIs
<1>3. /\ c \in CallType /\ s \in Streams /\ t \in StreamType /\ d \in Seq(Bytes)
      /\ CallRight(p, c, t, Kind(s)) /\ StreamRight(t, Kind(s), d) /\ Kind(s) \in Kinds
      /\ t.proc = p /\ t.open = "open"
  BY <1>1, CallerIs
<1>4. call \in [Procs -> CallType] /\ str \in [Streams -> StreamType]
  BY DEF IInv, Typed
<1>5. /\ pos \in Nat /\ t.beg \in Int /\ t.pos \in Int /\ t.end \in Int /\ t.off \in Nat
      /\ t.sent \in Nat /\ c.ok = TRUE
  BY <1>1, <1>3 DEF CallType, StreamType, CallRight
<1>6. UNCHANGED file
  BY <1>2 DEF Seeks
<1>7. file' = [file EXCEPT ![t.file].data = d]
  BY <1>3, <1>6, SameFile
<1>8. SeenCall[p] = c /\ SeenCall \in [Procs -> CallType]
  BY <1>1, <1>3, CallSeen, CallAsIs
<1>9. Promise!Running(p, {"seek"})
  BY <1>1, <1>8 DEF Promise!Running
<1>10. PICK k, z : k = Kind(s) /\ z = Far(s)
  OBVIOUS
<1>11. PICK ok \in BOOLEAN : ok = (k = "reg")
  OBVIOUS
<1>12. PICK e : e = [c EXCEPT !.ok = ok, !.at = "done"]
  OBVIOUS
<1>13. e \in CallType /\ e.stream = s /\ e.at = "done"
  BY <1>3, <1>12 DEF CallType
<1>14. PICK f : f = t.file
  OBVIOUS
<1>15. /\ f \in Files /\ SeenFile[f].kind = k /\ SeenFile[f].data = SeenAs(k, d, t, z)
       /\ SeenStream[s] = StreamAs(k, t) /\ SeenStream[s].file = f
  BY <1>3, <1>10, <1>14, ViewIs, StreamAsIs
<1>16. ASSUME NEW u, str' = [str EXCEPT ![s] = u], call' = [call EXCEPT ![p] = e],
              u.file = t.file, u.mode = t.mode, u.proc = t.proc, u.open = t.open,
              SeenAs(k, d, u, z) = SeenAs(k, d, t, z),
              k = "reg" => SeenAt(k, u) = pos
       PROVE  Promise!Seek(p)
  <2>1. Moves(p, s, u, d, e)
    BY <1>1, <1>7, <1>13, <1>16 DEF Moves
  <2>2. SeenMoves(p, s, SeenAs(k, d, u, z), u, e)
    BY <1>3, <1>10, <2>1, SeenMove
  <2>3. UNCHANGED SeenFile
    BY <1>3, <1>14, <1>15, <1>16, <2>2, SameSeen
  <2>4. SeenCall' = [SeenCall EXCEPT ![p] = e]
    BY Zenon, <1>13, <2>2, CallAsIs DEF SeenMoves
  <2>5. PICK o : o = SeenAt(k, u)
    OBVIOUS
  <2>6. SeenStream' = [SeenStream EXCEPT ![s].fp = o]
    <3>1. SeenStream' = [SeenStream EXCEPT ![s] = StreamAs(k, u)]
      BY <1>10, <2>2 DEF SeenMoves
    <3>2. StreamAs(k, u) = [StreamAs(k, t) EXCEPT !.fp = o]
      BY <1>16, <2>5, Repositioned
    <3>3. StreamAs(k, u) = [SeenStream[s] EXCEPT !.fp = o]
      BY <1>15, <3>2, Zenon
    <3> QED
      BY <3>1, <3>3, Zenon
  <2>7. Promise!Seekable(f) <=> k = "reg"
    BY <1>15 DEF Promise!Seekable
  <2>8. Promise!Return(p, [c EXCEPT !.ok = Promise!Seekable(f)])
    <3>1. Promise!Seekable(f) = ok
      BY <1>11, <2>7 DEF Promise!Seekable
    <3>2. [[c EXCEPT !.ok = ok] EXCEPT !.at = "done"] = e
      BY <1>12
    <3> QED
      BY <2>4, <3>1, <3>2, Zenon DEF Promise!Return
  <2>9. CASE k = "reg"
    <3>1. o = c.want
      BY <1>16, <2>5, <2>9
    <3>2. SeenStream' = [SeenStream EXCEPT ![s].fp = c.want]
      BY <2>6, <3>1, Zenon
    <3> QED
      BY <1>8, <1>9, <1>15, <2>3, <2>7, <2>8, <2>9, <3>2, Zenon DEF Promise!Seek
  <2>10. CASE k # "reg"
    <3>1. SeenStream'[s].fp = o
      <4>1. SeenStream = [x \in Streams |-> SeenStream[x]]
        BY Zenon DEF SeenStream
      <4>2. PICK v : v = SeenStream[s] /\ v = StreamAs(k, t)
        BY <1>15
      <4>3. PICK q : v = [file |-> t.file, mode |-> t.mode, proc |-> t.proc, open |-> t.open, fp |-> q]
        BY <4>2, Zenon DEF StreamAs
      <4>4. [v EXCEPT !.fp = o].fp = o
        BY <4>3
      <4>5. SeenStream'[s] = [v EXCEPT !.fp = o]
        BY <1>3, <2>6, <4>1, <4>2
      <4> QED
        BY <4>4, <4>5
    <3>2. SeenStream' = [SeenStream EXCEPT ![s].fp = SeenStream'[s].fp]
      BY <2>6, <3>1, Zenon
    <3> QED
      BY <1>8, <1>9, <1>15, <2>3, <2>7, <2>8, <2>10, <3>2, Zenon DEF Promise!Seek
  <2> QED
    BY <2>9, <2>10
<1>17. call' = [call EXCEPT ![p].ok = (Kind(s) = "reg"), ![p].at = "done"]
         => call' = [call EXCEPT ![p] = e]
  BY <1>4, <1>10, <1>11, <1>12
<1>18. CASE /\ t.mode = "r" /\ t.beg <= pos /\ pos < t.end
            /\ str' = [str EXCEPT ![s] = [t EXCEPT !.pos = pos]]
            /\ call' = [call EXCEPT ![p].at = "done"]
  <2>1. PICK u : u = [t EXCEPT !.pos = pos]
    OBVIOUS
  <2>2. /\ u.file = t.file /\ u.mode = t.mode /\ u.proc = t.proc /\ u.open = t.open
        /\ u.pos = pos /\ u.end = t.end /\ u.off = t.off
    <3> HIDE DEF t, pos
    <3> QED
      BY <1>3, <2>1 DEF StreamType
  <2>3. k = "reg"
    <3>1. ASSUME k # "reg" PROVE FALSE
      <4>1. k # "pipe" /\ pos = 0 /\ t.off = 0
        BY <1>1, <1>3, <1>10, <1>18, <3>1 DEF CallRight
      <4>2. t.end = t.off \/ t.end = t.off + ASanTag
        BY <1>3, <1>10, <1>18, <4>1 DEF StreamRight, ReaderRight
      <4> QED
        BY <1>5, <1>18, <4>1, <4>2 DEF ASanTag
    <3> QED
      BY <3>1
  <2>4. SeenAt(k, u) = pos
    <3>1. t.end = t.off
      <4>1. /\ t.end = t.off \/ (t.end = t.off + ASanTag /\ t.off <= Len(d))
            /\ Len(d) <= -ASanTag
        BY <1>3, <1>10, <1>18, <2>3 DEF StreamRight, ReaderRight
      <4>2. Len(d) \in Nat
        BY <1>3
      <4> QED
        BY SMTT(60), <1>5, <1>18, <4>1, <4>2 DEF ASanTag
    <3>2. SeenAt(k, u) = u.off - (u.end - u.pos)
      BY <1>18, <2>2, <2>3 DEF SeenAt
    <3> QED
      BY <1>5, <2>2, <3>1, <3>2
  <2>5. SeenAs(k, d, u, z) = SeenAs(k, d, t, z)
    <3>1. k # "pipe" /\ u.mode # "w" /\ t.mode # "w"
      BY <1>18, <2>2, <2>3
    <3> QED
      BY <3>1, Zenon DEF SeenAs
  <2>6. call' = [call EXCEPT ![p] = e]
    <3>1. [c EXCEPT !.at = "done"] = e
      <4>1. ok = TRUE
        BY <1>11, <2>3
      <4>2. PICK c0 \in CallType : c0 = c /\ c0.ok = TRUE
        BY <1>3, <1>5
      <4>3. [c0 EXCEPT !.ok = TRUE, !.at = "done"] = [c0 EXCEPT !.at = "done"]
        BY <4>2 DEF CallType
      <4> QED
        BY <1>12, <4>1, <4>2, <4>3, Zenon
    <3> QED
      BY <1>4, <1>18, <3>1
  <2> QED
    BY Zenon, <1>16, <1>18, <2>1, <2>2, <2>4, <2>5, <2>6
<1>19. CASE /\ t.mode = "w" /\ t.beg = t.pos
            /\ str' = [str EXCEPT ![s] = [t EXCEPT !.off = IF Kind(s) = "reg" THEN pos ELSE @,
                                                  !.beg = pos, !.pos = pos, !.end = pos]]
            /\ call' = [call EXCEPT ![p].ok = (Kind(s) = "reg"), ![p].at = "done"]
  <2>1. PICK o : o = IF Kind(s) = "reg" THEN pos ELSE t.off
    OBVIOUS
  <2>2. PICK u : u = [t EXCEPT !.off = o, !.beg = pos, !.pos = pos, !.end = pos]
    OBVIOUS
  <2>3. str' = [str EXCEPT ![s] = u]
    BY <1>19, <2>1, <2>2
  <2>4. /\ u.beg = pos /\ u.pos = pos /\ u.end = pos /\ u.off = o
        /\ u.file = t.file /\ u.mode = t.mode /\ u.proc = t.proc /\ u.sent = t.sent /\ u.open = t.open
    <3> HIDE DEF pos, t
    <3> QED
      BY <1>3, <2>2 DEF StreamType
  <2>5. t.sent = 0 /\ t.pos - t.beg - t.sent = 0 /\ u.pos - u.beg - u.sent = 0
    <3>1. t.pos = t.end /\ t.sent \in 0..t.end - t.beg
      BY Zenon, <1>3, <1>19 DEF StreamRight, Tags
    <3>2. t.sent = 0
      BY <1>5, <1>19, <3>1
    <3> QED
      BY <1>5, <1>19, <2>4, <3>2
  <2>6. u \in StreamType /\ Tags(u) /\ Tags(t)
    <3>1. str'[s] = u
      BY <1>3, <1>4, <2>3
    <3>2. e \in CallType /\ str'[s] \in StreamType
      BY <1>3, <1>13, NextTyped
    <3>3. Tags(str'[s])
      BY <1>3, NextTyped
    <3> QED
      BY <1>3, <3>1, <3>2, <3>3 DEF StreamRight
  <2>7. SeenAs(k, d, u, z) = SeenAs(k, d, t, z)
    <3> HIDE DEF t, d, s, c, pos
    <3> QED
      BY <1>3, <1>19, <2>4, <2>5, <2>6, NothingSeen
  <2>8. k = "reg" => SeenAt(k, u) = pos
    <3>1. ASSUME k = "reg" PROVE SeenAt(k, u) = pos
      <4>1. SeenAt(k, u) = u.off + (u.pos - u.beg)
        BY <1>19, <2>4, <3>1 DEF SeenAt
      <4> QED
        BY <1>5, <1>10, <2>1, <2>4, <3>1, <4>1
    <3> QED
      BY <3>1
  <2> QED
    BY Zenon, <1>16, <1>17, <1>19, <2>3, <2>4, <2>7, <2>8
<1>20. CASE /\ t.mode = "r" /\ Kind(s) # "pipe"
            /\ new \in Nat /\ new <= pos /\ pos < new + BufSize
            /\ Follows(bs, d, new)
            /\ Kind(s) # "reg" => pos = 0 /\ t.off = 0
            /\ str' = [str EXCEPT ![s] = Sought(s, t, new, bs, pos)]
            /\ call' = [call EXCEPT ![p].ok = (Kind(s) = "reg"), ![p].at = "done"]
  <2>1. PICK o : o = IF Kind(s) = "reg" THEN new ELSE t.off
    OBVIOUS
  <2>2. o = new
    <3> HIDE DEF t, pos, new
    <3> QED
      BY <1>5, <1>20, <2>1
  <2>3. PICK v : v = [t EXCEPT !.off = o, !.end = new]
    OBVIOUS
  <2>4. PICK x, u : x = Filled(s, v, bs) /\ u = [x EXCEPT !.pos = pos]
    OBVIOUS
  <2>5. Sought(s, t, new, bs, pos) = u
    <3> HIDE DEF t, pos, new
    <3>1. CASE Kind(s) = "reg"
      BY <1>3, <2>1, <2>3, <2>4, <3>1 DEF Sought, StreamType
    <3>2. CASE Kind(s) # "reg"
      BY <1>3, <2>1, <2>3, <2>4, <3>2 DEF Sought, StreamType
    <3> QED
      BY <3>1, <3>2
  <2>6. str' = [str EXCEPT ![s] = u]
    BY <1>20, <2>5
  <2>7. /\ v \in StreamType /\ v.off = new /\ v.end = new /\ v.mode = t.mode
        /\ v.file = t.file /\ v.proc = t.proc /\ v.open = t.open
    <3> HIDE DEF pos, t, new
    <3>1. new \in Int /\ o \in Nat
      BY <1>20, <2>2
    <3> QED
      BY <1>3, <2>2, <2>3, <3>1 DEF StreamType
  <2>8. bs \in Seq(Bytes) /\ Len(bs) <= BufSize /\ Len(bs) \in Nat
    BY <1>20 DEF Follows
  <2> HIDE DEF t, pos, new, d
  <2>9. /\ x \in StreamType /\ x.file = t.file /\ x.mode = t.mode /\ x.proc = t.proc /\ x.open = t.open
        /\ x.end = new + Len(bs) /\ x.off = new + Len(bs)
    BY <1>3, <1>20, <2>4, <2>7, <2>8, FilledIs
  <2>10. /\ u.file = t.file /\ u.mode = t.mode /\ u.proc = t.proc /\ u.open = t.open
         /\ u.end = x.end /\ u.off = x.off /\ u.pos = pos
    BY <2>4, <2>9 DEF StreamType
  <2>11. k # "pipe" /\ u.mode # "w" /\ t.mode # "w"
    BY <1>10, <1>20, <2>10
  <2>12. SeenAs(k, d, u, z) = SeenAs(k, d, t, z)
    BY <2>11, Zenon DEF SeenAs
  <2>13. SeenAt(k, u) = pos
    <3>1. SeenAt(k, u) = u.off - (u.end - u.pos)
      BY <2>11, Zenon DEF SeenAt
    <3> QED
      BY <1>5, <1>20, <2>8, <2>9, <2>10, <3>1
  <2> QED
    BY <1>16, <1>17, <1>20, <2>6, <2>10, <2>12, <2>13 DEF t, d, pos
<1> QED
  BY Zenon, <1>2, <1>18, <1>19, <1>20 DEF Seeks

(* A stream of which at most "open" changes. *)
Reopens(t, u) ==
    /\ u.file = t.file /\ u.mode = t.mode /\ u.proc = t.proc /\ u.sent = t.sent /\ u.buf = t.buf
    /\ u.beg = t.beg /\ u.pos = t.pos /\ u.end = t.end /\ u.off = t.off

SeenReopened(k, d, e, t, u) ==
    /\ StreamAs(k, u) = [StreamAs(k, t) EXCEPT !.open = u.open]
    /\ SeenAs(k, d, u, e) = SeenAs(k, d, t, e) /\ Held(u) = Held(t)

LEMMA Reopened ==
    ASSUME NEW k, NEW d, NEW e, NEW t, NEW u, Reopens(t, u)
    PROVE  SeenReopened(k, d, e, t, u)
<1>1. Unsent(u) = Unsent(t)
  BY Zenon DEF Unsent, Reopens
<1>2. Copied(u, u.end - u.pos) = Copied(t, t.end - t.pos)
  BY Zenon DEF Copied, Reopens
<1>3. SeenAs(k, d, u, e) = SeenAs(k, d, t, e)
  BY <1>1, <1>2, Zenon DEF SeenAs, Reopens
<1>4. SeenAt(k, u) = SeenAt(k, t)
  BY Zenon DEF SeenAt, Reopens
<1>5. PICK q, o : q = SeenAt(k, t) /\ o = u.open
  OBVIOUS
<1>6. /\ StreamAs(k, t) = [file |-> t.file, mode |-> t.mode, proc |-> t.proc, open |-> t.open, fp |-> q]
      /\ StreamAs(k, u) = [file |-> t.file, mode |-> t.mode, proc |-> t.proc, open |-> o, fp |-> q]
  BY <1>4, <1>5, Zenon DEF StreamAs, Reopens
<1>7. PICK v : v = [file |-> t.file, mode |-> t.mode, proc |-> t.proc, open |-> t.open, fp |-> q]
  OBVIOUS
<1>8. [v EXCEPT !.open = o] = [file |-> t.file, mode |-> t.mode, proc |-> t.proc, open |-> o, fp |-> q]
  BY <1>7
<1>9. StreamAs(k, u) = [StreamAs(k, t) EXCEPT !.open = o]
  BY <1>6, <1>7, <1>8, Zenon
<1>10. Held(u) = Held(t)
  BY <1>1, <1>2, Zenon DEF Held, Reopens
<1> QED
  BY <1>3, <1>5, <1>9, <1>10, Zenon DEF SeenReopened

LEMMA CloseSeen ==
    ASSUME IInv, IInv', NEW p \in Procs, CloseStep(p)
    PROVE  Promise!Close(p)
<1> DEFINE c == call[p]
           s == c.stream
           t == str[s]
           d == Data(s)
<1>1. c.at = "run" /\ c.op = "close"
  BY DEF CloseStep, Running
<1>2. c \in CallType /\ s \in Streams /\ t \in StreamType /\ d \in Seq(Bytes)
  BY <1>1, CallerIs
<1>3. call \in [Procs -> CallType] /\ str \in [Streams -> StreamType]
  BY DEF IInv, Typed
<1>4. PICK u, e : u = [t EXCEPT !.open = "closed"] /\ e = [c EXCEPT !.at = "done"]
  OBVIOUS
<1>5. str' = [str EXCEPT ![s] = u] /\ call' = [call EXCEPT ![p] = e] /\ UNCHANGED file
  BY <1>2, <1>3, <1>4 DEF CloseStep, Return
<1>6. file' = [file EXCEPT ![t.file].data = d]
  BY <1>2, <1>5, SameFile
<1>7. e \in CallType /\ e.stream = s /\ e.at = "done"
  BY <1>2, <1>4 DEF CallType
<1>8. Reopens(t, u) /\ u.open = "closed"
  <2> HIDE DEF t
  <2> QED
    BY <1>2, <1>4 DEF StreamType, Reopens
<1>9. Moves(p, s, u, d, e)
  BY Zenon, <1>1, <1>5, <1>6, <1>7, <1>8 DEF Moves, Reopens
<1>10. PICK k, z : k = Kind(s) /\ z = Far(s)
  OBVIOUS
<1>11. /\ StreamAs(k, u) = [StreamAs(k, t) EXCEPT !.open = "closed"]
       /\ SeenAs(k, d, u, z) = SeenAs(k, d, t, z)
  <2> HIDE DEF t, d
  <2>1. SeenReopened(k, d, z, t, u)
    BY <1>8, Reopened
  <2> QED
    BY <1>8, <2>1, Zenon DEF SeenReopened
<1>12. SeenMoves(p, s, SeenAs(k, d, u, z), u, e)
  BY <1>2, <1>9, <1>10, SeenMove
<1>13. SeenFile[t.file].data = SeenAs(k, d, t, z) /\ SeenStream[s] = StreamAs(k, t)
  BY <1>2, <1>10, ViewIs
<1>14. UNCHANGED SeenFile
  BY <1>2, <1>11, <1>12, <1>13, SameSeen
<1>15. SeenCall' = [SeenCall EXCEPT ![p] = e]
  BY Zenon, <1>7, <1>12, CallAsIs DEF SeenMoves
<1>16. SeenStream' = [SeenStream EXCEPT ![s].open = "closed"]
  <2>1. SeenStream' = [SeenStream EXCEPT ![s] = StreamAs(k, u)]
    BY <1>10, <1>12 DEF SeenMoves
  <2>2. StreamAs(k, u) = [SeenStream[s] EXCEPT !.open = "closed"]
    BY <1>11, <1>13, Zenon
  <2> QED
    BY <2>1, <2>2, Zenon
<1>17. SeenCall[p] = c
  BY <1>1, <1>2, CallSeen, CallAsIs
<1>18. Promise!Running(p, {"close"})
  BY <1>1, <1>17 DEF Promise!Running
<1>19. Promise!Return(p, c)
  BY <1>4, <1>15, Zenon DEF Promise!Return
<1> QED
  BY <1>14, <1>16, <1>17, <1>18, <1>19, Zenon DEF Promise!Close

(* A step that reaches no file and no buffer shows no change of a file. *)
BuffersStay ==
    /\ UNCHANGED file
    /\ \A s \in Streams : /\ str'[s].file = str[s].file /\ str'[s].mode = str[s].mode
                         /\ str'[s].off = str[s].off /\ Held(str'[s]) = Held(str[s])

LEMMA BufferedNext ==
    IInv' => (\A g : \A m \in {"r", "w"} :
                /\ \A s \in Ordered(g, m) : Buffered(g, m) = Held(str[s])
                /\ Ordered(g, m) = {} => Buffered(g, m) = <<>>)'
<1>1. IInv => \A g : \A m \in {"r", "w"} :
                /\ \A s \in Ordered(g, m) : Buffered(g, m) = Held(str[s])
                /\ Ordered(g, m) = {} => Buffered(g, m) = <<>>
  BY BufferedIs
<1> QED
  BY <1>1, PTL

LEMMA FilesStay ==
    ASSUME IInv, IInv', BuffersStay
    PROVE  UNCHANGED SeenFile
<1>1. ASSUME NEW g, NEW m \in {"r", "w"}
      PROVE  Ordered(g, m)' = Ordered(g, m) /\ Buffered(g, m)' = Buffered(g, m)
  <2>1. Ordered(g, m)' = Ordered(g, m)
    BY DEF BuffersStay, Ordered
  <2>2. CASE Ordered(g, m) = {}
    BY <2>1, <2>2, BufferedIs, BufferedNext
  <2>3. CASE Ordered(g, m) # {}
    <3>1. PICK s : s \in Ordered(g, m)
      BY <2>3
    <3>2. Buffered(g, m) = Held(str[s])
      BY <3>1, BufferedIs
    <3>3. Buffered(g, m)' = Held(str'[s])
      BY <2>1, <3>1, BufferedNext
    <3>4. Held(str'[s]) = Held(str[s])
      BY <3>1 DEF BuffersStay, Ordered
    <3> QED
      BY <2>1, <3>2, <3>3, <3>4
  <2> QED
    BY <2>2, <2>3
<1>2. ASSUME NEW g PROVE SeenIn(g)' = SeenIn(g)
  <2>1. PICK o : o = Ordered(g, "w") /\ o = Ordered(g, "w")'
    BY <1>1
  <2>2. PICK r, w : /\ r = Buffered(g, "r") /\ r = Buffered(g, "r")'
                    /\ w = Buffered(g, "w") /\ w = Buffered(g, "w")'
    BY <1>1
  <2>3. PICK x : x = Writer(g) /\ x = Writer(g)'
    BY <2>1 DEF Writer
  <2>4. o # {} => str'[x].off = str[x].off
    BY <2>1, <2>3 DEF BuffersStay, Ordered, Writer
  <2>5. file' = file
    BY DEF BuffersStay
  <2> QED
    BY <2>1, <2>2, <2>3, <2>4, <2>5, Zenon DEF SeenIn
<1>3. SeenFile = [g \in Files |-> [file[g] EXCEPT !.data = SeenIn(g)]]
  BY SeenFileIs
<1>4. SeenFile' = [g \in Files |-> [file'[g] EXCEPT !.data = SeenIn(g)']]
  BY SeenFileNext
<1> QED
  BY <1>2, <1>3, <1>4 DEF BuffersStay

(* A program's call touches nothing but its record. *)
LEMMA Untouched ==
    ASSUME IInv, IInv', UNCHANGED <<file, str>>
    PROVE  UNCHANGED <<SeenFile, SeenStream>>
<1>1. file' = file /\ str' = str
  OBVIOUS
<1>2. BuffersStay
  BY <1>1 DEF BuffersStay
<1>3. SeenFile' = SeenFile
  BY <1>2, FilesStay
<1>4. ASSUME NEW s \in Streams PROVE SeenStream'[s] = SeenStream[s]
  <2>1. Kind(s)' = Kind(s) /\ str'[s] = str[s]
    BY <1>1 DEF Kind
  <2> QED
    BY <2>1, StreamSeen, Zenon DEF SeenStream, StreamAs, SeenAt
<1>5. SeenStream = [x \in Streams |-> SeenStream[x]] /\ SeenStream' = [x \in Streams |-> SeenStream'[x]]
  BY Zenon DEF SeenStream
<1> QED
  BY <1>3, <1>4, <1>5

LEMMA AskSeen ==
    ASSUME IInv, IInv', NEW p \in Procs, Call(p)
    PROVE  Promise!Call(p)
<1>1. PICK c \in Requests : Idle(p) /\ WellAsked(p, c) /\ Make(p, c)
  BY DEF Call
<1>2. UNCHANGED <<file, str>>
  BY <1>1 DEF Make
<1>3. UNCHANGED <<SeenFile, SeenStream>>
  BY <1>2, Untouched
<1>4. call[p] \in CallType /\ call[p].at = "done" /\ call \in [Procs -> CallType]
  BY <1>1 DEF Idle, IInv, Typed
<1>5. SeenCall[p].at = "done"
  <2>1. SeenCall[p] = call[p]
    BY <1>4, CallSeen, CallAsIs
  <2> QED
    BY <1>4, <2>1
<1> DEFINE n == (c.op = "read" /\ c.want = 0) \/ (c.op = "write" /\ c.left = <<>>)
<1>6. PICK a : a = IF c.op \in {"flush", "seek", "close"} /\ str[c.stream].mode = "w" THEN "flush"
                   ELSE IF n \/ c.op = "flush" THEN "done" ELSE "run"
  OBVIOUS
<1>7. PICK h : h = IF n THEN "done" ELSE "run"
  OBVIOUS
<1>8. c.op = "flush" => str[c.stream].mode = "w"
  <2>1. c.op \in IF str[c.stream].mode = "r" THEN {"read", "readc", "seek", "close"}
                 ELSE {"write", "writec", "flush", "seek", "close"}
    BY <1>1 DEF WellAsked
  <2>2. c.stream \in Streams
    BY <1>1 DEF Requests
  <2>3. str[c.stream].mode \in {"r", "w"}
    BY <2>2 DEF IInv, Typed, StreamType
  <2> QED
    BY <2>1, <2>3
<1>9. h = IF a = "flush" THEN "run" ELSE a
  <2>1. n => c.op \notin {"flush", "seek", "close"}
    OBVIOUS
  <2> HIDE DEF n
  <2> QED
    BY <1>6, <1>7, <1>8, <2>1
<1>19. PICK ok \in BOOLEAN : ok = ~(c.op = "read" /\ c.want = 0)
  OBVIOUS
<1>10. PICK e : e = [op |-> c.op, stream |-> c.stream, want |-> c.want, left |-> c.left, got |-> <<>>,
                     ok |-> ok, at |-> a]
  OBVIOUS
<1>11. call' = [call EXCEPT ![p] = e]
  <2>1. e.at = IF c.op \in {"flush", "seek", "close"} /\ str[c.stream].mode = "w" THEN "flush"
               ELSE IF (c.op = "read" /\ c.want = 0) \/ (c.op = "write" /\ c.left = <<>>) \/ c.op = "flush"
               THEN "done" ELSE "run"
    BY <1>6, <1>10
  <2> QED
    BY <1>1, <1>6, <1>10, <1>19, <2>1 DEF Make, Issue
<1>12. PICK g : g = CallAs(e)
  OBVIOUS
<1>13. g = [e EXCEPT !.at = h]
  BY <1>9, <1>10, <1>12 DEF CallAs
<1>14. g.at = h /\ g.op = c.op /\ g.want = c.want /\ g.left = c.left /\ g.got = <<>> /\ g.ok = ok
  BY <1>10, <1>13
<1>15. SeenCall' = [SeenCall EXCEPT ![p] = g]
  <2>1. SeenCall = [q \in Procs |-> CallAs(call[q])] /\ SeenCall' = [q \in Procs |-> CallAs(call'[q])]
    BY Zenon DEF SeenCall, CallAs
  <2>2. call'[p] = e /\ \A q \in Procs : q # p => call'[q] = call[q]
    BY <1>4, <1>11
  <2> QED
    BY <1>12, <2>1, <2>2
<1>16. SeenCall'[p] = g
  BY <1>15, CallSeen
<1>17. SeenCall'[p].at = IF \/ SeenCall'[p].op = "read" /\ SeenCall'[p].want = 0
                            \/ SeenCall'[p].op = "write" /\ SeenCall'[p].left = <<>>
                         THEN "done" ELSE "run"
  BY <1>7, <1>14, <1>16, Zenon
<1>18. SeenCall'[p].got = <<>> /\ SeenCall' = [SeenCall EXCEPT ![p] = SeenCall'[p]]
  BY <1>14, <1>15, <1>16, Zenon
<1>20. SeenCall'[p].ok = (SeenCall'[p].op = "read" /\ SeenCall'[p].want = 0
                            => Promise!MayBeEmpty(SeenCall'[p]))
  <2>1. ~Promise!MayBeEmpty(SeenCall'[p])
    BY Zenon DEF Promise!MayBeEmpty
  <2>2. g.ok = ok /\ g.op = c.op /\ g.want = c.want
    BY <1>14
  <2> QED
    BY Zenon, <1>16, <1>19, <2>1, <2>2
<1> QED
  BY <1>3, <1>5, <1>17, <1>18, <1>20, Zenon DEF Promise!Call

LEMMA DieSeen ==
    ASSUME IInv, IInv', NEW p \in Procs, call[p].at # "dead", Die(p)
    PROVE  Promise!Die(p)
<1>1. /\ call \in [Procs -> CallType] /\ call[p] \in CallType /\ str \in [Streams -> StreamType]
      /\ UNCHANGED file
  BY DEF IInv, Typed, Die
<1>2. ASSUME NEW s \in Streams
      PROVE  /\ Reopens(str[s], str'[s])
             /\ str[s].proc = p /\ str[s].open = "open" => str'[s].open = "lost"
             /\ ~(str[s].proc = p /\ str[s].open = "open") => str'[s] = str[s]
  <2>1. str'[s] = IF str[s].proc = p /\ str[s].open = "open"
                  THEN [str[s] EXCEPT !.open = "lost"] ELSE str[s]
    BY DEF Die
  <2>2. PICK t, u : t = str[s] /\ u = str'[s]
    OBVIOUS
  <2>3. t \in StreamType
    BY <1>1, <2>2
  <2>4. CASE t.proc = p /\ t.open = "open"
    <3>1. u = [t EXCEPT !.open = "lost"]
      BY <2>1, <2>2, <2>4
    <3>2. Reopens(t, u) /\ u.open = "lost"
      BY <2>3, <3>1 DEF StreamType, Reopens
    <3> QED
      BY <2>2, <2>4, <3>2
  <2>5. CASE ~(t.proc = p /\ t.open = "open")
    <3>1. u = t
      BY <2>1, <2>2, <2>5
    <3> QED
      BY <2>2, <2>5, <3>1 DEF Reopens
  <2> QED
    BY <2>4, <2>5
<1>3. ASSUME NEW s \in Streams
      PROVE  \E k, t, u : /\ k = Kind(s) /\ k = Kind(s)' /\ t = str[s] /\ u = str'[s]
                          /\ \A d, e : SeenReopened(k, d, e, t, u)
  <2>1. Kind(s)' = Kind(s)
    BY <1>1, <1>2 DEF Kind, Reopens
  <2>2. \A k, d, e : SeenReopened(k, d, e, str[s], str'[s])
    BY <1>2, Reopened
  <2> QED
    BY <2>1, <2>2
<1>4. BuffersStay
  <2>1. ASSUME NEW s \in Streams PROVE Held(str'[s]) = Held(str[s])
    <3>1. PICK k, t, u : /\ t = str[s] /\ u = str'[s]
                         /\ \A d, e : SeenReopened(k, d, e, t, u)
      BY <1>3
    <3>2. Held(u) = Held(t)
      BY <3>1, Zenon DEF SeenReopened
    <3> QED
      BY <3>1, <3>2
  <2> QED
    BY <1>1, <1>2, <2>1 DEF BuffersStay, Reopens
<1>5. UNCHANGED SeenFile
  BY <1>4, FilesStay
<1>6. ASSUME NEW s \in Streams
      PROVE  SeenStream'[s] = IF SeenStream[s].proc = p /\ SeenStream[s].open = "open"
                              THEN [SeenStream[s] EXCEPT !.open = "lost"] ELSE SeenStream[s]
  <2>1. PICK k, t, u : /\ k = Kind(s) /\ k = Kind(s)' /\ t = str[s] /\ u = str'[s]
                       /\ \A d, e : SeenReopened(k, d, e, t, u)
    BY <1>3
  <2>2. SeenStream[s] = StreamAs(k, t) /\ SeenStream'[s] = StreamAs(k, u)
    BY <2>1, StreamSeen, Zenon DEF SeenStream, StreamAs, SeenAt
  <2>3. PICK v, w : v = StreamAs(k, t) /\ w = StreamAs(k, u)
    OBVIOUS
  <2>4. v.proc = t.proc /\ v.open = t.open
    BY <2>3, StreamAsIs
  <2>5. w = [v EXCEPT !.open = u.open]
    BY <2>1, <2>3, Zenon DEF SeenReopened
  <2>6. CASE t.proc = p /\ t.open = "open"
    <3>1. u.open = "lost"
      BY <1>2, <2>1, <2>6
    <3>2. w = [v EXCEPT !.open = "lost"]
      BY <2>5, <3>1, Zenon
    <3> QED
      BY <2>2, <2>3, <2>4, <2>6, <3>2, Zenon
  <2>7. CASE ~(t.proc = p /\ t.open = "open")
    <3>1. u = t
      BY <1>2, <2>1, <2>7
    <3>2. w = v
      BY <2>3, <3>1
    <3> QED
      BY <2>2, <2>3, <2>4, <2>7, <3>2, Zenon
  <2> QED
    BY <2>6, <2>7
<1>7. SeenStream' = [s \in Streams |->
                       IF SeenStream[s].proc = p /\ SeenStream[s].open = "open"
                       THEN [SeenStream[s] EXCEPT !.open = "lost"] ELSE SeenStream[s]]
  <2>1. SeenStream' = [x \in Streams |-> SeenStream'[x]]
    BY Zenon DEF SeenStream
  <2> QED
    BY <1>6, <2>1, Zenon
<1>8. SeenCall' = [SeenCall EXCEPT ![p].at = "dead"] /\ SeenCall[p].at # "dead"
  <2>1. PICK e, g : e = [call[p] EXCEPT !.at = "dead"] /\ g = CallAs(call[p])
    OBVIOUS
  <2>2. e \in CallType /\ e.at = "dead" /\ call' = [call EXCEPT ![p] = e]
    BY <1>1, <2>1 DEF Die, CallType
  <2>3. SeenCall = [q \in Procs |-> CallAs(call[q])] /\ SeenCall[p] = g
    BY <2>1, CallSeen
  <2>4. SeenCall' = [q \in Procs |-> CallAs(call'[q])]
    BY Zenon DEF SeenCall, CallAs
  <2>5. CallAs(e) = e
    BY <2>2, CallAsIs
  <2>6. [g EXCEPT !.at = "dead"] = e /\ g.at # "dead"
    <3>1. CASE call[p].at # "flush"
      <4>1. g = call[p]
        BY <1>1, <2>1, <3>1, CallAsIs
      <4> QED
        BY <2>1, <4>1
    <3>2. CASE call[p].at = "flush"
      <4>1. PICK h : h = [call[p] EXCEPT !.at = "run"] /\ g = h
        BY <1>1, <2>1, <3>2, CallAsIs
      <4>2. [h EXCEPT !.at = "dead"] = e /\ h.at = "run"
        BY <1>1, <2>1, <4>1 DEF CallType
      <4> QED
        BY <4>1, <4>2
    <3> QED
      BY <3>1, <3>2
  <2>7. call'[p] = e /\ \A q \in Procs : q # p => call'[q] = call[q]
    BY <1>1, <2>2
  <2>8. SeenCall' = [SeenCall EXCEPT ![p] = e]
    BY <2>3, <2>4, <2>5, <2>7
  <2>9. [SeenCall[p] EXCEPT !.at = "dead"] = e /\ SeenCall[p].at # "dead"
    BY <2>3, <2>6
  <2> QED
    BY <2>8, <2>9, Zenon
<1> QED
  BY <1>5, <1>7, <1>8, Zenon DEF Promise!Die

------------------------------------------------------------------------------
(* io61.cc implements FileStream.                                            *)

LEMMA InitSeen ==
    ASSUME Init
    PROVE  Promise!Init
<1>1. ASSUME NEW s \in Streams PROVE SeenStream[s].fp = 0 /\ SeenStream[s].open # "lost"
  <2>1. str[s] \in {[Opened(f, m, p, tag) EXCEPT !.open = o] :
                  f \in Files, m \in {"r", "w"}, p \in Procs,
                  tag \in {0, ASanTag}, o \in {"open", "closed"}}
    BY DEF Init
  <2>2. PICK f \in Files, m \in {"r", "w"}, q \in Procs, tag \in {0, ASanTag}, o \in {"open", "closed"} :
          str[s] = [Opened(f, m, q, tag) EXCEPT !.open = o]
    BY <2>1
  <2>3. PICK t : t = str[s]
    OBVIOUS
  <2>4. t.off = 0 /\ t.beg = tag /\ t.pos = tag /\ t.end = tag /\ t.open = o /\ tag \in Int
    BY <2>2, <2>3 DEF Opened, ASanTag
  <2>5. PICK k : k = Kind(s)
    OBVIOUS
  <2>6. SeenAt(k, t) = 0
    BY <2>4 DEF SeenAt
  <2>7. SeenStream[s] = StreamAs(k, t)
    BY <2>3, <2>5, StreamSeen
  <2>8. StreamAs(k, t).fp = SeenAt(k, t) /\ StreamAs(k, t).open = t.open
    BY StreamAsIs
  <2> QED
    BY <2>4, <2>6, <2>7, <2>8
<1>2. ASSUME NEW p \in Procs PROVE SeenCall[p].at = "done"
  <2>1. call[p].at = "done"
    BY DEF Init, NoCall
  <2>2. SeenCall[p] = CallAs(call[p])
    BY Zenon DEF SeenCall, CallAs
  <2>3. PICK g : g = CallAs(call[p])
    OBVIOUS
  <2>4. g.at = "done"
    BY <2>1, <2>3 DEF CallAs, Init, NoCall
  <2> QED
    BY <2>2, <2>3, <2>4
<1> QED
  BY <1>1, <1>2 DEF Promise!Init

(* Every step is one that FileStream allows, or shows nothing. *)
LEMMA NextSeen ==
    ASSUME IInv, IInv', [Next]_ioVars
    PROVE  [Promise!Next]_(Promise!vars)
<1>1. CASE UNCHANGED ioVars
  <2>1. UNCHANGED <<SeenFile, SeenStream>>
    BY <1>1, Untouched DEF ioVars
  <2>2. UNCHANGED SeenCall
    BY <1>1, Zenon DEF ioVars, SeenCall
  <2> QED
    BY <2>1, <2>2, Zenon DEF Promise!vars
<1>2. ASSUME NEW p \in Procs, Call(p) \/ LibraryStep(p) \/ Killed(p)
      PROVE  Promise!Next \/ UNCHANGED Promise!vars
  <2>1. CASE Call(p)
    BY <2>1, AskSeen, Zenon DEF Promise!Next
  <2>2. CASE ReadStep(p)
    BY <2>2, ReadSeen, Zenon DEF Promise!Next
  <2>3. CASE WriteStep(p)
    BY <2>3, WriteSeen, Zenon DEF Promise!Next, Promise!vars
  <2>4. CASE FlushStep(p)
    BY <2>4, FlushSeen, Zenon DEF Promise!Next, Promise!vars
  <2>5. CASE SeekStep(p)
    BY <2>5, SeekSeen, Zenon DEF Promise!Next
  <2>6. CASE CloseStep(p)
    BY <2>6, CloseSeen, Zenon DEF Promise!Next
  <2>7. CASE BrokenPipe(p)
    <3>1. call[p].at # "dead" /\ Die(p)
      BY <2>7 DEF BrokenPipe
    <3> QED
      BY <3>1, DieSeen, Zenon DEF Promise!Next
  <2>8. CASE Killed(p)
    <3>1. call[p].at # "dead" /\ Die(p)
      BY <2>8 DEF Killed
    <3> QED
      BY <3>1, DieSeen, Zenon DEF Promise!Next
  <2> QED
    BY <1>2, <2>1, <2>2, <2>3, <2>4, <2>5, <2>6, <2>7, <2>8 DEF LibraryStep
<1> QED
  BY <1>1, <1>2 DEF Next

(* io61.cc keeps what the comments above its functions say, and what        *)
(* slow-io61.cc does without a buffer (slow-io61.cc:36-142), but for what a *)
(* read of nothing returns: to any program that makes the calls of          *)
(* Io61Client, for any files, buffer and pipe sizes, every step of it is    *)
(* one of FileStream, or shows the program nothing.                         *)
THEOREM Faithful == Spec => KeepsPromise
<1>1. Init => IInv /\ Promise!Init
  BY InitSound, InitSeen
<1>2. IInv /\ [Next]_ioVars => IInv'
  BY NextSound
<1>3. IInv /\ IInv' /\ [Next]_ioVars => [Promise!Next]_(Promise!vars)
  BY NextSeen
<1> QED
  BY <1>1, <1>2, <1>3, PTL DEF Spec, KeepsPromise, Promise!Spec
=============================================================================
