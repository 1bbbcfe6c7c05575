-------------------------------- MODULE Cat61 --------------------------------
(***************************************************************************)
(* The programs of src/pset4 that copy files through io61: cat61,          *)
(* blockcat61, randblockcat61, reverse61, stridecat61, ostridecat61,       *)
(* reordercat61 and scattergather61.  One process, 1, runs one of them; an *)
(* action takes the result of one library call and makes the next.         *)
(*                                                                         *)
(* arg is the command line: the program, -s (NoSize if absent), -b, -t, -l *)
(* and how many input and output files there are (streams 1.. and 11..).   *)
(* Left out: profiling, the messages on stderr, the 30M-block limit.       *)
(***************************************************************************)
EXTENDS Io61, FiniteSets

CONSTANTS Newlines,  \* bytes that are '\n' (several, to tell them apart)
          NoSize

VARIABLES arg,      \* the command line
          loc,      \* where main() is: the call whose result it waits for
          loop      \* its local variables
catVars == <<arg, loc, loop>>

Me == 1
In(i) == i
Out(i) == 10 + i
SeeksInput == {"reverse", "stride", "reorder"}
SeeksOutput == {"ostride", "reorder"}

(* io61_arguments: a command line is a sequence of [opt, val], where "name"  *)
(* is a file without an option and NoSize what is not a number.  Of -s, -b   *)
(* and -t the last counts; -i, -o and names add up.                          *)
Knows == [cat |-> {"s"}, block |-> {"b"}, randblock |-> {"b", "r"}, reverse |-> {"s"},
          stride |-> {"b", "t", "s"}, ostride |-> {"b", "t"}, reorder |-> {"b", "r", "s"},
          scatter |-> {"b", "l"}]
Given(line, opts) == SelectSeq(line, LAMBDA o : o.opt \in opts)
LastGiven(line, opt, default) ==
    LET g == Given(line, {opt}) IN IF g = <<>> THEN default ELSE g[Len(g)].val
Refused(prog, line) ==
    \/ \E k \in 1..Len(line) :
         \/ line[k].opt \notin Knows[prog] \cup {"i", "o", "name"}
         \/ line[k].opt = "i" /\ prog = "stride"
         \/ line[k].opt \in {"s", "b", "t", "r"} /\ line[k].val = NoSize
         \/ line[k].opt \in {"b", "t"} /\ line[k].val = 0
    \/ prog # "scatter" /\ \E opts \in {{"i", "name"}, {"o"}} : Len(Given(line, opts)) > 1
(* Without a file name there is the standard input, or output. *)
Arguments(prog, line) ==
    [prog    |-> prog,
     size    |-> LastGiven(line, "s", NoSize),
     block   |-> LastGiven(line, "b", IF prog \in {"block", "randblock", "reorder"} THEN 4096 ELSE 1),
     stride  |-> LastGiven(line, "t", 1024),
     lines   |-> Given(line, {"l"}) # <<>>,
     inputs  |-> IF Given(line, {"i", "name"}) = <<>> THEN 1 ELSE Len(Given(line, {"i", "name"})),
     outputs |-> IF Given(line, {"o"}) = <<>> THEN 1 ELSE Len(Given(line, {"o"}))]

StartLoop(a, size) ==
    [left |-> size, pos |-> 0, written |-> 0, block |-> a.block, data |-> <<>>, todo |-> {},
     ins |-> [i \in 1..a.inputs |-> In(i)], ini |-> -1, outi |-> 0]

(* The result of the last call is there; make the next one, or go on without. *)
At(l) == loc = l /\ Idle(Me)
Ask(op, s, want, left, l) ==
    Issue(Me, op, s, want, left) /\ loc' = l /\ UNCHANGED <<file, str, arg>>
Go(l) == loc' = l /\ UNCHANGED <<ioVars, arg>>
Exit(how) == loc' = how /\ Die(Me) /\ UNCHANGED <<arg, loop>>
Same == UNCHANGED loop
Got == call[Me].got                 \* what io61_read() or io61_readc() returned
Keep == loop' = [loop EXCEPT !.data = Got]

(* io61_filesize(): -1 for anything but a regular file. *)
FileSize(s) == IF Kind(s) = "reg" THEN Len(Data(s)) ELSE NoSize

(* Before the loop: a program that seeks must know the size of its input    *)
(* (from -s, which ostridecat61 lacks, or from the file) and be able to go  *)
(* to the start of the file it seeks in.                                    *)
Open ==
    LET size == IF arg.size = NoSize \/ arg.prog = "ostride" THEN FileSize(In(1)) ELSE arg.size
    IN /\ At("open")
       /\ IF arg.prog \notin SeeksInput \cup SeeksOutput
          THEN loop' = StartLoop(arg, arg.size) /\ Go("top")
          ELSE IF size = NoSize THEN Exit("failed")
          ELSE /\ loop' = StartLoop(arg, size)
               /\ IF arg.prog \in SeeksInput THEN Ask("seek", In(1), 0, <<>>, "rewound")
                  ELSE Ask("seek", Out(1), 0, <<>>, "ready")
Rewound ==
    /\ At("rewound")
    /\ IF ~call[Me].ok THEN Exit("failed")
       ELSE /\ IF arg.prog \in SeeksOutput THEN Ask("seek", Out(1), 0, <<>>, "ready") ELSE Go("top")
            /\ Same
Ready ==
    /\ At("ready")
    /\ IF ~call[Me].ok THEN Exit("failed") ELSE Go(IF arg.prog = "reorder" THEN "blocks" ELSE "top") /\ Same

------------------------------------------------------------------------------
(* The loop of each program.                                                 *)

Cat ==
    \/ /\ At("top")
       /\ IF loop.left = 0 THEN Go("closing") ELSE Ask("readc", In(1), 1, <<>>, "read")
       /\ Same
    \/ /\ At("read")
       /\ IF Got = <<>> THEN Go("closing") ELSE Ask("writec", Out(1), 0, Got, "wrote")
       /\ Same
    \/ /\ At("wrote")
       /\ loop' = [loop EXCEPT !.left = IF @ = NoSize THEN @ ELSE @ - 1]
       /\ Go("top")

(* blockcat61 and randblockcat61 stop when io61_read() gives 0 or -1. *)
BlockCopied ==
    \/ /\ At("read")
       /\ IF Got = <<>> THEN Go("closing") ELSE Ask("write", Out(1), 0, Got, "wrote")
       /\ Same
    \/ At("wrote") /\ Go("top") /\ Same
BlockCat == \/ At("top") /\ Ask("read", In(1), loop.block, <<>>, "read") /\ Same
            \/ BlockCopied
RandBlockCat ==
    \/ At("top") /\ (\E m \in 1..loop.block : Ask("read", In(1), m, <<>>, "read")) /\ Same
    \/ BlockCopied

(* Nobody looks whether these seeks and reads succeed. *)
Reverse ==
    \/ /\ At("top")
       /\ IF loop.left = 0 THEN Go("closing") /\ Same
          ELSE /\ loop' = [loop EXCEPT !.left = @ - 1]
               /\ Ask("seek", In(1), loop.left - 1, <<>>, "sought")
    \/ At("sought") /\ Ask("readc", In(1), 1, <<>>, "read") /\ Same
    \/ At("read") /\ Ask("writec", Out(1), 0, Got, "wrote") /\ Same
    \/ At("wrote") /\ Go("top") /\ Same

(* Where a strided copy goes next, and with which block size. *)
BugStrided(l) ==
    LET p == l.pos + arg.stride  q == (p % arg.stride) + 1 IN
    IF p < l.left THEN [l EXCEPT !.pos = p]
    ELSE [l EXCEPT !.pos = q,
                   !.block = IF q + @ > arg.stride THEN arg.stride - q ELSE @]
Strided(l) ==
    LET p == l.pos + arg.stride  q == (p % arg.stride) + l.block IN
    IF p < l.left THEN [l EXCEPT !.pos = p]
    ELSE [l EXCEPT !.pos = q,
                   !.block = IF q + @ > arg.stride THEN arg.stride - q ELSE @]
Stride(s) ==   \* s: the stream whose position moves in strides
    \/ /\ At("top")
       /\ IF loop.written >= loop.left THEN Go("closing")
          ELSE Ask("read", In(1), loop.block, <<>>, "read")
       /\ Same
    \/ /\ At("read")
       /\ IF Got = <<>> THEN Go("closing") ELSE Ask("write", Out(1), 0, Got, "wrote")
       /\ Keep
    \/ /\ At("wrote")
       /\ loop' = Strided([loop EXCEPT !.written = @ + Len(loop.data)])
       /\ Ask("seek", s, Strided(loop).pos, <<>>, "moved")
    \/ /\ At("moved")   \* assert(r >= 0)
       /\ IF call[Me].ok THEN Go("top") /\ Same ELSE Exit("aborted")
StrideCat == Stride(In(1))
OStrideCat == Stride(Out(1))

(* The blocks in random order; blockpos[] is the set of those still to copy. *)
ReorderCat ==
    \/ /\ At("blocks")
       /\ IF loop.left % loop.block # 0 THEN Exit("failed")
          ELSE /\ loop' = [loop EXCEPT !.todo = 0..(loop.left \div loop.block) - 1]
               /\ Go("top")
    \/ /\ At("top")
       /\ IF loop.todo = {} THEN Go("closing") /\ Same
          ELSE \E b \in loop.todo :
                  /\ loop' = [loop EXCEPT !.todo = @ \ {b}, !.pos = b * loop.block]
                  /\ Ask("seek", In(1), b * loop.block, <<>>, "sought")
    \/ At("sought") /\ Ask("read", In(1), loop.block, <<>>, "read") /\ Same
    \/ /\ At("read")
       /\ IF Got = <<>> THEN Go("closing") ELSE Ask("seek", Out(1), loop.pos, <<>>, "placed")
       /\ Keep
    \/ At("placed") /\ Ask("write", Out(1), 0, loop.data, "wrote") /\ Same
    \/ At("wrote") /\ Go("top") /\ Same

(* read_line(): with -l, byte by byte to the end of the line, the block or  *)
(* the file; else one io61_read().                                          *)
Current == loop.ins[loop.ini + 1]
LineEnds(line) == Len(line) = loop.block \/ line[Len(line)] \in Newlines
ReadLine ==
    /\ At("line")
    /\ loop' = [loop EXCEPT !.data = @ \o Got]
    /\ IF Got = <<>> \/ ~arg.lines \/ LineEnds(loop.data \o Got) THEN Go("read")
       ELSE Ask("readc", Current, 1, <<>>, "line")

(* Round-robin over the inputs that have not ended and over the outputs. *)
ScatterGather ==
    \/ /\ At("top")
       /\ IF loop.ins = <<>> THEN Go("closing") /\ Same
          ELSE LET i == (loop.ini + 1) % Len(loop.ins) IN
               /\ loop' = [loop EXCEPT !.ini = i, !.data = <<>>]
               /\ Ask(IF arg.lines THEN "readc" ELSE "read", loop.ins[i + 1],
                      IF arg.lines THEN 1 ELSE loop.block, <<>>, "line")
    \/ ReadLine
    \/ /\ At("read")
       /\ IF loop.data = <<>> THEN Ask("close", Current, 0, <<>>, "erase")
          ELSE Ask("write", Out(loop.outi + 1), 0, loop.data, "wrote")
       /\ Same
    \/ /\ At("erase")
       /\ loop' = [loop EXCEPT !.ini = @ - 1,
            !.ins = [i \in 1..Len(@) - 1 |-> IF i <= loop.ini THEN @[i] ELSE @[i + 1]]]
       /\ Go("top")
    \/ At("wrote") /\ loop' = [loop EXCEPT !.outi = (@ + 1) % arg.outputs] /\ Go("top")

(* After the loop: io61_close() of the files still open, inputs first. *)
StillOpen == {s \in Streams : str[s].proc = Me /\ str[s].open = "open"}
CloseAll ==
    /\ At("closing")
    /\ IF StillOpen = {} THEN Exit("exit")
       ELSE /\ Ask("close", CHOOSE s \in StillOpen : \A t \in StillOpen : s <= t, 0, <<>>, "closing")
            /\ Same

CatStep ==
    \/ Open \/ Rewound \/ Ready \/ CloseAll
    \/ arg.prog = "cat" /\ Cat
    \/ arg.prog = "block" /\ BlockCat
    \/ arg.prog = "randblock" /\ RandBlockCat
    \/ arg.prog = "reverse" /\ Reverse
    \/ arg.prog = "stride" /\ StrideCat
    \/ arg.prog = "ostride" /\ OStrideCat
    \/ arg.prog = "reorder" /\ ReorderCat
    \/ arg.prog = "scatter" /\ ScatterGather

------------------------------------------------------------------------------
(* What the programs are for: the Usage comment of each.  The input files    *)
(* hold distinct bytes, in the first file the byte at offset i is i + 1.     *)

Input == file[In(1)].data
Written(o) == file[Out(o)].data
SortedBy(s, Key(_)) == \A j, k \in 1..Len(s) : j < k => Key(s[j]) < Key(s[k])

(* The order in which a strided copy visits offset i: block columns first. *)
StrideKey(i) == LET m == i % arg.stride IN
    (m \div arg.block) * 10000 + (i \div arg.stride) * 100 + m

(* Scatter/gather: byte q of input i is in chunk Chunk(i, q), chunks are     *)
(* dealt in rounds over the inputs that have one left, and the k-th chunk    *)
(* goes to output k modulo the number of outputs.                            *)
SourceData(i) == file[In(i)].data
Starts(i) ==   \* offsets where a chunk of input i starts
    LET d == SourceData(i)
        starts[q \in 0..Len(d)] ==   \* length of the chunk under way before q
            IF q = 0 THEN 0
            ELSE IF starts[q - 1] + 1 = arg.block \/ (arg.lines /\ d[q] \in Newlines) THEN 0
            ELSE starts[q - 1] + 1
    IN {q \in 0..Len(d) - 1 : starts[q] = 0}
Chunk(i, q) == Cardinality({b \in Starts(i) : b <= q}) - 1
Rank(i, c) ==   \* how many chunks are dealt before chunk c of input i
    Cardinality(UNION {{<<j, e>> : e \in {e \in 0..Cardinality(Starts(j)) - 1 :
                                             e < c \/ (e = c /\ j < i)}} : j \in 1..arg.inputs})
Places == UNION {{<<i, q>> : q \in 0..Len(SourceData(i)) - 1} : i \in 1..arg.inputs}
PlaceOf(b) == CHOOSE pl \in Places : SourceData(pl[1])[pl[2] + 1] = b
ScatterKey(b) == LET pl == PlaceOf(b) IN Rank(pl[1], Chunk(pl[1], pl[2])) * 100 + pl[2]
ScatterRight(o) ==
    /\ {Written(o)[k] : k \in 1..Len(Written(o))}
         = {SourceData(pl[1])[pl[2] + 1] : pl \in
              {pl \in Places : Rank(pl[1], Chunk(pl[1], pl[2])) % arg.outputs = o - 1}}
    /\ SortedBy(Written(o), ScatterKey)

(* What a program has done when it returns from main().  A strided copy      *)
(* must have its block no larger than the stride; ostridecat61 must have the *)
(* block divide the stride and the file, or it leaves holes.                 *)
CopyRight ==
    LET n == Len(Input)  size == IF arg.size = NoSize THEN n ELSE arg.size IN
    CASE arg.prog = "cat" -> Written(1) = SubSeq(Input, 1, Least(size, n))
      [] arg.prog \in {"block", "randblock", "reorder"} -> Written(1) = Input
      [] arg.prog = "reverse" -> Written(1) = [i \in 1..size |-> Input[size + 1 - i]]
      [] arg.prog = "stride" ->
           /\ {Written(1)[k] : k \in 1..Len(Written(1))} = 1..size
           /\ SortedBy(Written(1), LAMBDA b : StrideKey(b - 1))
      [] arg.prog = "ostride" ->
           /\ Len(Written(1)) = n
           /\ \A i, j \in 0..n - 1 : StrideKey(i) < StrideKey(j)
                                        => Written(1)[i + 1] < Written(1)[j + 1]
      [] arg.prog = "scatter" -> \A o \in 1..arg.outputs : ScatterRight(o)
=============================================================================
