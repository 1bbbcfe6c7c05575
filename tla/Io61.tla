-------------------------------- MODULE Io61 --------------------------------
(***************************************************************************)
(* The buffered I/O library of src/pset4/io61.cc over the files, pipes and *)
(* system calls it uses.  A call of the library is a record that moves one *)
(* loop iteration, hence at most one read(2) or lseek(2), or one chunk of  *)
(* a write(2), per step; the programs that make the calls are the modules  *)
(* Cat61 and PipeExchange.                                                 *)
(*                                                                         *)
(* Kinds of file: as in FileStream.  A read(2) of a slow file may be       *)
(* short; a pipe holds PipeSize bytes, its readers and writers block.      *)
(* A call that returns -1 has ok = FALSE; io61_read() does so whenever it  *)
(* read nothing, be it for an error, at the end of the file or asked for   *)
(* nothing (see EmptyReadOk of FileStream).                                *)
(* Left out: EINTR (no program installs a handler), a full disk, open(2)   *)
(* failing.                                                                *)
(***************************************************************************)
EXTENDS Integers, Sequences

CONSTANTS Procs, Streams, Files,
          Bytes,      \* 0, and the bytes the files hold
          Junk,       \* a byte of a buffer nobody wrote
          BufSize,    \* io61_file::bufsize
          PipeSize,   \* capacity of a pipe
          HeldOpen    \* pipes of which another process has both ends open, too

ASSUME SizesAssumption == BufSize \in Nat \ {0} /\ PipeSize \in Nat \ {0}
ASSUME BytesAssumption == 0 \in Bytes /\ Bytes \subseteq Nat /\ Junk \notin Bytes

VARIABLES file,   \* file |-> kind and bytes
          str,    \* stream |-> io61_file, and the descriptor behind it
          call    \* process |-> the io61 call it is in
ioVars == <<file, str, call>>

Least(a, b) == IF a <= b THEN a ELSE b

(* io61_fdopen() sets fd and mode only; the three tags are what the memory  *)
(* of the new object holds: zeros when it is fresh, one repeated pattern,   *)
(* negative as a number, when AddressSanitizer fills it.                    *)
ASanTag == -1000
Opened(f, m, p, tag) ==
    [file |-> f, mode |-> m, proc |-> p, open |-> "open", off |-> 0, sent |-> 0,
     buf |-> [i \in 0..BufSize - 1 |-> Junk], beg |-> tag, pos |-> tag, end |-> tag]
NoCall == [op |-> "none", stream |-> CHOOSE s \in Streams : TRUE, at |-> "done",
           want |-> 0, left |-> <<>>, got |-> <<>>, ok |-> TRUE]

------------------------------------------------------------------------------
(* The kernel.                                                               *)

Data(s) == file[str[s].file].data
Kind(s) == file[str[s].file].kind
Others(s, m) == {t \in Streams : str[t].file = str[s].file /\ str[t].mode = m}
EndOpen(s, m) == str[s].file \in HeldOpen \/ \E t \in Others(s, m) : str[t].open = "open"

(* What read(2) of up to BufSize bytes can return on stream s; a pipe with  *)
(* nothing in it and a writer left returns nothing yet.                     *)
ReadReturns(s) ==
    LET rest == SubSeq(Data(s), str[s].off + 1, Len(Data(s)))
        n == Least(BufSize, Len(rest)) IN
    CASE Kind(s) = "reg"  -> {SubSeq(rest, 1, n)}
      [] Kind(s) = "bad"  -> {<<>>}
      [] Kind(s) = "slow" -> {SubSeq(rest, 1, k) : k \in Least(1, n)..n}
      [] Kind(s) = "pipe" ->
           IF rest = <<>> /\ EndOpen(s, "w")
           THEN {} ELSE {SubSeq(rest, 1, n)}

(* The file after read(2) returned bs: a pipe gives its bytes away. *)
Taken(s, bs) ==
    IF Kind(s) = "pipe"
    THEN [file EXCEPT ![str[s].file].data = SubSeq(@, Len(bs) + 1, Len(@))] ELSE file

(* The file after write(2) stored bs at the descriptor's offset. *)
Stored(s, bs) ==
    LET d == Data(s)  at == IF Kind(s) = "pipe" THEN Len(d) ELSE str[s].off
        last == IF bs # <<>> /\ at + Len(bs) > Len(d) THEN at + Len(bs) ELSE Len(d) IN
    [file EXCEPT ![str[s].file].data = [i \in 1..last |->
        IF i > at /\ i <= at + Len(bs) THEN bs[i - at] ELSE IF i <= Len(d) THEN d[i] ELSE 0]]

------------------------------------------------------------------------------
(* The calls.  Definitions named Bug... are wrong variants of the definition *)
(* that follows them; no specification uses them, and TLC must refute them.  *)

Running(p, ops) == call[p].at = "run" /\ call[p].op \in ops
Idle(p) == call[p].at = "done"
Return(p) == call' = [call EXCEPT ![p].at = "done"]
Stops(p) == call' = [call EXCEPT ![p].ok = (call[p].got # <<>>), ![p].at = "done"]

(* A program calls the library: io61_flush() comes first in a seek or close *)
(* of a stream for writing; it does nothing to a stream for reading.  A     *)
(* read or write of nothing returns at once.                                *)
Issue(p, op, s, want, left) ==
    call' = [call EXCEPT ![p] =
       [op |-> op, stream |-> s, want |-> want, left |-> left, got |-> <<>>,
        ok |-> ~(op = "read" /\ want = 0),
        at |-> IF op \in {"flush", "seek", "close"} /\ str[s].mode = "w" THEN "flush"
               ELSE IF (op = "read" /\ want = 0) \/ (op = "write" /\ left = <<>>) \/ op = "flush"
                 THEN "done"
               ELSE "run"]]

(* What the programs of src/pset4 keep to in a call c: a stream of their    *)
(* own, still open, and for its direction; a seek of a stream for reading   *)
(* that cannot seek happens once, to the start, before anything was read.   *)
WellAsked(p, c) ==
    LET s == c.stream  t == str[s] IN
    /\ t.proc = p /\ t.open = "open"
    /\ c.op \in IF t.mode = "r" THEN {"read", "readc", "seek", "close"}
               ELSE {"write", "writec", "flush", "seek", "close"}
    /\ c.op = "writec" => Len(c.left) = 1
    /\ c.op = "seek" /\ t.mode = "r" /\ Kind(s) # "reg" =>
         Kind(s) # "pipe" /\ c.want = 0 /\ t.off = 0

(* The position of a stream for reading, as a program counts it; and: what  *)
(* is to be read does not start beyond the end of the file.                 *)
Position(s) == str[s].off - (str[s].end - str[s].pos)
InFile(c) == c.op \in {"read", "readc"} /\ Kind(c.stream) = "reg"
               => Position(c.stream) <= Len(Data(c.stream))

(* io61_fill(): an error leaves the end tag alone, as nothing read does. *)
BugFilled(s, t, bs) ==
    [t EXCEPT !.beg = t.end, !.pos = t.end, !.end = t.end + BufSize,
              !.off = IF Kind(s) = "pipe" THEN 0 ELSE @ + Len(bs),
              !.buf = [i \in DOMAIN @ |-> IF i < Len(bs) THEN bs[i + 1] ELSE @[i]]]
Filled(s, t, bs) ==
    [t EXCEPT !.beg = t.end, !.pos = t.end, !.end = t.end + Len(bs),
              !.off = IF Kind(s) = "pipe" THEN 0 ELSE @ + Len(bs),
              !.buf = [i \in DOMAIN @ |-> IF i < Len(bs) THEN bs[i + 1] ELSE @[i]]]

(* Is the buffer used up?  io61_readc() tests ==, io61_read() >=. *)
Dry(op, t) == IF op = "readc" THEN t.pos = t.end ELSE t.pos >= t.end

(* One iteration of io61_read(), or io61_readc(): fill if dry, return if    *)
(* still dry, with -1 if nothing was read, else copy what the buffer has.   *)
ReadStep(p) ==
    /\ Running(p, {"readc", "read"})
    /\ LET c == call[p]  s == c.stream IN
       \E bs \in IF Dry(c.op, str[s]) THEN ReadReturns(s) ELSE {<<>>} :
          LET t == IF Dry(c.op, str[s]) THEN Filled(s, str[s], bs) ELSE str[s]
              n == IF c.op = "readc" THEN 1 ELSE Least(t.end - t.pos, c.want - Len(c.got))
          IN /\ file' = Taken(s, bs)
             /\ IF Dry(c.op, t)
                THEN Stops(p) /\ str' = [str EXCEPT ![s] = t]
                ELSE /\ str' = [str EXCEPT ![s] = [t EXCEPT !.pos = @ + n]]
                     /\ call' = [call EXCEPT
                          ![p].got = @ \o [i \in 1..n |-> t.buf[t.pos - t.beg + i - 1]],
                          ![p].at = IF Len(c.got) + n = c.want THEN "done" ELSE "run"]

BufferFull(t) == t.end = t.beg + BufSize

(* One iteration of io61_write(), or io61_writec(): with the buffer full,   *)
(* go and flush it; otherwise copy what fits.                               *)
WriteStep(p) ==
    /\ Running(p, {"writec", "write"})
    /\ LET c == call[p]  s == c.stream  t == str[s]
           n == Least(BufSize - (t.pos - t.beg), Len(c.left)) IN
       IF BufferFull(t)
       THEN call' = [call EXCEPT ![p].at = "flush"] /\ UNCHANGED str
       ELSE /\ str' = [str EXCEPT ![s] = [t EXCEPT !.pos = @ + n, !.end = @ + n,
                 !.buf = [i \in DOMAIN @ |->
                    IF i >= t.pos - t.beg /\ i < t.pos - t.beg + n
                    THEN c.left[i - (t.pos - t.beg) + 1] ELSE @[i]]]]
            /\ call' = [call EXCEPT ![p].left = SubSeq(@, n + 1, Len(@)),
                          ![p].at = IF Len(c.left) = n THEN "done" ELSE "run"]
    /\ UNCHANGED file

(* The bytes io61_flush() has still to hand to the kernel. *)
Unsent(t) == [i \in 1..t.pos - t.beg - t.sent |-> t.buf[t.sent + i - 1]]

(* io61_flush() of a stream for writing: one write(2), which a pipe takes   *)
(* piece by piece as its reader makes room.                                 *)
BugFlushStep(p) ==
    /\ call[p].at = "flush"
    /\ LET c == call[p]  s == c.stream  out == Unsent(str[s]) IN
          /\ Kind(s) = "pipe" /\ out # <<>> => EndOpen(s, "r")
          /\ \E n \in IF Kind(s) # "pipe" THEN {Len(out)}
                      ELSE {Least(Len(out), PipeSize - Len(Data(s)))} :
             /\ out = <<>> \/ n > 0
             /\ file' = Stored(s, SubSeq(out, 1, n))
             /\ str' = [str EXCEPT ![s].beg = str[s].pos, ![s].sent = 0,
                           ![s].off = IF Kind(s) = "pipe" THEN 0 ELSE @ + n]
             /\ call' = [call EXCEPT ![p].at = IF c.op = "flush" THEN "done" ELSE "run"]
FlushStep(p) ==
    /\ call[p].at = "flush"
    /\ LET c == call[p]  s == c.stream  out == Unsent(str[s]) IN
          /\ Kind(s) = "pipe" /\ out # <<>> => EndOpen(s, "r")
          /\ \E n \in IF Kind(s) # "pipe" THEN {Len(out)}
                      ELSE {Least(Len(out), PipeSize - Len(Data(s)))} :
             /\ out = <<>> \/ n > 0
             /\ file' = Stored(s, SubSeq(out, 1, n))
             /\ IF n < Len(out)
                THEN str' = [str EXCEPT ![s].sent = @ + n] /\ UNCHANGED call
                ELSE /\ str' = [str EXCEPT ![s].beg = str[s].pos, ![s].sent = 0,
                                  ![s].off = IF Kind(s) = "pipe" THEN 0 ELSE @ + n]
                     /\ call' = [call EXCEPT ![p].at = IF c.op = "flush" THEN "done" ELSE "run"]

(* io61_seek() after its flush: stay in the buffer if it holds the target,  *)
(* else lseek(2), which only a regular file allows; a stream for reading    *)
(* seeks to a multiple of bufsize and fills its buffer, allowed or not.     *)
Rebased(t, pos) == [t EXCEPT !.beg = pos, !.end = pos, !.pos = pos]
BugInBuffer(t, pos) == pos <= t.end /\ pos >= t.beg
InBuffer(t, pos) == pos < t.end /\ pos >= t.beg
SeekStep(p) ==
    /\ Running(p, {"seek"})
    /\ LET s == call[p].stream  t == str[s]  pos == call[p].want
           new == IF t.mode = "r" THEN (pos \div BufSize) * BufSize ELSE pos
           u == IF Kind(s) = "reg" THEN [t EXCEPT !.off = new] ELSE t
       IN IF InBuffer(t, pos)
          THEN /\ str' = [str EXCEPT ![s].pos = pos]
               /\ Return(p) /\ UNCHANGED file
          ELSE /\ call' = [call EXCEPT ![p].ok = (Kind(s) = "reg"), ![p].at = "done"]
               /\ IF t.mode = "w"
                  THEN /\ str' = [str EXCEPT ![s] = Rebased(u, pos)]
                       /\ UNCHANGED file
                  ELSE \E bs \in
                         IF Kind(s) # "reg" THEN ReadReturns(s)
                         ELSE {SubSeq(Data(s), new + 1, Least(new + BufSize, Len(Data(s))))} :
                       /\ str' = [str EXCEPT ![s] =
                            [Filled(s, [u EXCEPT !.end = new], bs) EXCEPT !.pos = pos]]
                       /\ file' = Taken(s, bs)

(* close(2); the object is gone with what its buffer held. *)
CloseStep(p) ==
    /\ Running(p, {"close"})
    /\ str' = [str EXCEPT ![call[p].stream].open = "closed"]
    /\ Return(p)
    /\ UNCHANGED file

(* The process ends: the kernel closes its descriptors, nobody flushes. *)
Die(p) ==
    /\ call' = [call EXCEPT ![p].at = "dead"]
    /\ str' = [s \in Streams |-> IF str[s].proc = p /\ str[s].open = "open"
                                 THEN [str[s] EXCEPT !.open = "lost"] ELSE str[s]]
    /\ UNCHANGED file

(* write(2) of something to a pipe nobody can read any more: SIGPIPE. *)
BrokenPipe(p) ==
    /\ call[p].at = "flush"
    /\ LET s == call[p].stream IN
       Kind(s) = "pipe" /\ Unsent(str[s]) # <<>> /\ ~EndOpen(s, "r")
    /\ Die(p)

LibraryStep(p) ==
    \/ ReadStep(p) \/ WriteStep(p) \/ FlushStep(p)
    \/ SeekStep(p) \/ CloseStep(p) \/ BrokenPipe(p)

------------------------------------------------------------------------------
(* What must hold.                                                           *)

(* The tags of a stream are in order, never more than bufsize bytes apart,  *)
(* and a stream for writing is at its end.  The buffer of a stream for      *)
(* reading holds the bytes of the file that end at the kernel's offset, so  *)
(* nothing between beg and end is junk, and the end tag is that offset, or  *)
(* was never set and is as far from it as the tags io61_fdopen() left.      *)
BufferCoherent ==
    \A s \in Streams : LET t == str[s]  n == t.end - t.beg IN
        /\ n \in 0..BufSize /\ t.beg <= t.pos /\ t.sent \in 0..n
        /\ t.mode = "w" => t.pos = t.end
        /\ t.mode = "r" /\ Kind(s) # "pipe" /\ n > 0 =>
             /\ t.off >= n /\ t.off <= Len(Data(s))
             /\ t.end \in {t.off, t.off + ASanTag}
             /\ \A i \in 1..n : t.buf[i - 1] = Data(s)[t.off - n + i]

(* io61 implements FileStream, with -1 for every read of nothing: no kind   *)
(* of file is in EmptyReadOk (io61.cc:105-108).  The file a program sees is *)
(* the kernel's with what its writer has buffered laid over it; in a pipe,  *)
(* what the reader has buffered comes first and what the writer has         *)
(* buffered last.                                                           *)
Ordered(f, m) == {s \in Streams : str[s].file = f /\ str[s].mode = m}
Buffered(f, m) ==
    IF Ordered(f, m) = {} THEN <<>>
    ELSE LET t == str[CHOOSE s \in Ordered(f, m) : TRUE] IN
         IF m = "w" THEN Unsent(t)
         ELSE [i \in 1..t.end - t.pos |-> t.buf[t.pos - t.beg + i - 1]]
SeenFile ==
    [f \in Files |-> [file[f] EXCEPT !.data =
        IF file[f].kind = "pipe" THEN Buffered(f, "r") \o @ \o Buffered(f, "w")
        ELSE IF Ordered(f, "w") = {} THEN @
        ELSE Stored(CHOOSE s \in Ordered(f, "w") : TRUE, Buffered(f, "w"))[f].data]]
SeenStream ==
    [s \in Streams |-> LET t == str[s] IN
        [file |-> t.file, mode |-> t.mode, proc |-> t.proc, open |-> t.open,
         fp |-> IF Kind(s) = "pipe" THEN 0
                ELSE IF t.mode = "w" THEN t.off + (t.pos - t.beg)
                ELSE t.off - (t.end - t.pos)]]
SeenCall ==
    [p \in Procs |-> [call[p] EXCEPT !.at = IF @ = "flush" THEN "run" ELSE @]]
Promise == INSTANCE FileStream WITH
    EmptyReadOk <- {}, file <- SeenFile, str <- SeenStream, call <- SeenCall
=============================================================================
