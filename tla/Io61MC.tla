------------------------------- MODULE Io61MC -------------------------------
(***************************************************************************)
(* The programs of src/pset4 over io61, on small files: one of the copying *)
(* programs with one of many command lines and inputs, or the two sides of *)
(* the pipe exchange and their parent; or any program of Io61Client on one *)
(* file or one pipe.                                                       *)
(***************************************************************************)
EXTENDS Cat61, PipeExchange, Io61Client

CONSTANTS MaxFile,   \* bound: bytes in the first input file
          MaxFile2,  \* bound: bytes in the second
          MaxBlock, MaxStride,
          MaxKept,   \* bound, any program: bytes in the file
          MaxTag,    \* bound, any program: how far the tags of its stream move
          MaxPiped   \* bound, any program: how far those of both ends of a pipe

vars == <<ioVars, catVars, exchangeVars>>

(* Command lines: some options with some values, and files. *)
Opt(opt, vals) == {<<[opt |-> opt, val |-> v]>> : v \in vals}
Maybe(opt, vals) == {<<>>} \cup Opt(opt, vals)
Then(ls, ms) == {l \o m : l \in ls, m \in ms}
SizeOptions == Maybe("s", 0..MaxFile)
Blocks == Opt("b", 1..MaxBlock)
Strides == Then(Maybe("b", 1..MaxBlock), Maybe("t", 1..MaxStride))
Files1or2(opt) == Maybe(opt, {1}) \cup Then(Opt(opt, {1}), Opt(opt, {2}))
CommandLines(prog) ==
    CASE prog \in {"cat", "reverse"} -> SizeOptions \cup Then(Then(Opt("s", {1}), Opt("s", {3, NoSize})), Files1or2("i"))
      [] prog = "block" -> Blocks \cup {<<>>} \cup Opt("b", {0, NoSize}) \cup Opt("t", {2})
      [] prog = "randblock" -> Blocks
      [] prog = "stride" -> Then(Strides, SizeOptions) \cup Opt("t", {0}) \cup Opt("i", {1})
      [] prog = "ostride" -> Strides
      [] prog = "reorder" -> Blocks \cup Then(Blocks, Files1or2("o"))
      [] prog = "scatter" -> Then(Then(Blocks, Maybe("l", {1})), Then(Files1or2("name"), Files1or2("o")))

(* The sizes for which the Usage comments say what happens: -s within the   *)
(* file, and blocks that a strided copy can move whole.                     *)
Sensible(a, n) ==
    /\ a.prog = "reverse" => a.size = NoSize \/ a.size <= n
    /\ a.prog = "stride" => /\ a.block <= a.stride
                            /\ a.size = NoSize \/ a.size = n \/ (a.size < n /\ a.block = 1)
    /\ a.prog = "ostride" => a.block = 1 \/ (a.stride % a.block = 0 /\ n % a.block = 0)

ClosedStream == [Opened(1, "r", 1, 0) EXCEPT !.open = "closed"]
CatInit ==
    \E n \in 0..MaxFile, m \in 0..MaxFile2, tag \in {0, ASanTag},
       kin \in {"reg", "slow", "bad"}, kout \in {"reg", "slow"}, prog \in DOMAIN Knows :
    \E line \in {l \in CommandLines(prog) : Refused(prog, l) \/ Sensible(Arguments(prog, l), n)} :
    LET a == Arguments(prog, line)  refused == Refused(prog, line) IN
       /\ kin = "bad" => n = 0
       /\ a.inputs = 1 => m = 0
       /\ a.prog \in SeeksInput \cup SeeksOutput \/ kout = "reg"
       /\ arg = a /\ loc = IF refused THEN "failed" ELSE "open"
       /\ loop = StartLoop(a, NoSize)
       /\ file = [f \in Files |->
            CASE f = In(1) -> [kind |-> kin, data |-> [i \in 1..n |-> i]]
              [] f = In(2) -> [kind |-> "reg", data |-> [i \in 1..m |-> MaxFile + i]]
              [] OTHER -> [kind |-> kout, data |-> <<>>]]
       /\ str = [s \in Streams |->
            CASE ~refused /\ s \in {In(i) : i \in 1..a.inputs} -> Opened(s, "r", Me, tag)
              [] ~refused /\ s \in {Out(o) : o \in 1..a.outputs} -> Opened(s, "w", Me, tag)
              [] OTHER -> [ClosedStream EXCEPT !.file = s, !.mode = IF s > 10 THEN "w" ELSE "r"]]
       /\ phases = <<>> /\ side = [p \in {1, 2} |-> StartSide] /\ late = FALSE
       /\ parent = [at |-> "none", alive |-> {}, killed |-> {}]

Batch(b, q, r) == [batch |-> b, request |-> q, response |-> r]
Exchanges == {<<Batch(2, 1, 1), Batch(1, 3, 3)>>, <<Batch(1, 5, 5), Batch(2, 2, 2)>>,
              <<Batch(5, 3, 3)>>, <<Batch(3, 1, 4)>>}
ExchangeInit ==
    \E x \in Exchanges, tag \in {0, ASanTag} :
       /\ phases = x /\ Connected(tag)
       /\ arg = [prog |-> "exchange"] /\ loc = "none" /\ loop = <<>>

(* Any program: stream 1 is the only one of file 1, or stream 2 is the      *)
(* other end.                                                               *)
Distinct == [i \in 1..MaxKept |-> i]
DefInputs == {SubSeq(Distinct, 1, n) : n \in 0..MaxKept}
DefTexts == {<<>>, <<3>>, <<1, 2, 3>>}
AnyInit ==
    \E k \in Kinds, d \in Inputs, m \in {"r", "w"}, tag \in {0, ASanTag} :
       /\ k \in {"bad", "pipe"} => d = <<>>
       /\ k \in {"bad", "pipe"} => m = "r"   \* the ends of a pipe are alike
       /\ k = "pipe" => tag = 0              \* the exchange has both tags
       /\ file = [f \in Files |-> IF f = 1 THEN [kind |-> k, data |-> d]
                                ELSE [kind |-> "bad", data |-> <<>>]]
       /\ str = [s \in Streams |->
            CASE s = 1 -> Opened(1, m, 1, tag)
              [] s = 2 /\ k = "pipe" -> Opened(1, "w", 2, tag)
              [] OTHER -> [ClosedStream EXCEPT !.file = s]]
       /\ phases = <<>> /\ side = [p \in {1, 2} |-> StartSide] /\ late = FALSE
       /\ parent = [at |-> "none", alive |-> {}, killed |-> {}]
       /\ arg = [prog |-> "any"] /\ loc = "none" /\ loop = <<>>
       /\ call = [p \in Procs |-> NoCall] /\ Init

Any == arg.prog = "any"
Moved(t) == IF t.end < 0 THEN t.end - ASanTag ELSE t.end
Bounded ==
    /\ \A f \in Files : Len(file[f].data) <= MaxKept
    /\ \A s \in Streams :
         Moved(str[s]) <= IF Kind(s) = "pipe" THEN MaxPiped ELSE MaxTag

MCInit == /\ CatInit \/ ExchangeInit \/ AnyInit
          /\ call = [p \in Procs |-> NoCall]

Exchanging == arg.prog = "exchange"
Process(p) ==
    \/ LibraryStep(p) /\ (Any => Bounded') /\ UNCHANGED <<catVars, exchangeVars>>
    \/ Any /\ (Call(p) \/ Killed(p)) /\ UNCHANGED <<catVars, exchangeVars>>
    \/ ~Exchanging /\ ~Any /\ p = Me /\ CatStep /\ UNCHANGED exchangeVars
    \/ Exchanging /\ p = Requester /\ (Send \/ Receive \/ Finish(p)) /\ UNCHANGED catVars
    \/ Exchanging /\ p = Responder /\ (Respond \/ Finish(p)) /\ UNCHANGED catVars
Parent == Exchanging /\ ParentStep /\ UNCHANGED catVars
MCNext == (\E p \in Procs : Process(p)) \/ Parent

(* The kernel schedules every process that can run, and the parent.  The    *)
(* five seconds need never pass.                                            *)
MCSpec == /\ MCInit /\ [][MCNext]_vars
          /\ \A p \in Procs : WF_vars(Process(p))
          /\ WF_vars(Parent /\ ~TimePasses)

(* The programs of src/pset4 use io61 as Io61Client says: their own open    *)
(* streams in the right direction, no seek of a stream for reading that     *)
(* cannot seek once it was read, no read that starts beyond the end.        *)
ProgramsAsk ==
    \A p \in Procs : call[p].at \in {"run", "flush"}
                       => WellAsked(p, call[p]) /\ InFile(call[p])

(* A program of src/pset4 does what its Usage comment says, whatever short  *)
(* reads and block sizes it meets; one that gives up (its input or output   *)
(* cannot seek) has written nothing; no assertion fails.  In the exchange   *)
(* every message arrives whole and in order, as both sides assert, until    *)
(* the parent kills somebody, and the parent exits with 0 only if both      *)
(* sides ended by themselves, with 1 only after five seconds.  And all of   *)
(* them keep to ProgramsAsk.                                                *)
ProgramsRight ==
    /\ ProgramsAsk
    /\ loc = "exit" => CopyRight
    /\ loc = "failed" => \A f \in Files : f > 10 => file[f].data = <<>>
    /\ loc # "aborted"
    /\ Exchanging /\ parent.killed = {} =>
         \A p \in {1, 2} : Dead(p) => side[p].at = "exit"
    /\ parent.at = "exit0" => \A p \in {1, 2} : side[p].at = "exit"
    /\ parent.at = "exit1" => late

(* Without the help of the five-second limit, every copying program ends,   *)
(* and so does the exchange, with both sides done, if no batch outgrows     *)
(* what the pipes and buffers hold: nobody waits for a message that is      *)
(* still in the buffer of the one who waits for the answer.                 *)
Fits == \A i \in 1..Len(phases) : LET m == phases[i] IN
          m.batch * m.request <= PipeSize \/ m.batch * m.response <= PipeSize
ProgramsEnd ==
    /\ ~Exchanging /\ ~Any ~> loc \in {"exit", "failed"}
    /\ Exchanging /\ Fits ~> parent.at \in {"exit0", "exit1"}
=============================================================================
