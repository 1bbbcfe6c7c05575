----------------------------- MODULE Io61Client -----------------------------
(***************************************************************************)
(* io61.cc under any program that uses it as the programs of src/pset4 do: *)
(* every process makes whatever calls it likes on the streams it has open, *)
(* and may end, or be killed, between any two steps.  Cat61 and            *)
(* PipeExchange are such programs (ProgramsAsk of Io61MC).                 *)
(***************************************************************************)
EXTENDS Io61

CONSTANTS Inputs,     \* what files hold at the start
          Positions,  \* where programs seek
          Sizes,      \* how much they ask io61_read() for
          Texts       \* what they write

ASSUME NamesAssumption == Streams # {}
ASSUME InputsAssumption ==
    /\ <<>> \in Inputs /\ Inputs \subseteq Seq(Bytes)
    /\ \A d \in Inputs : Len(d) <= -ASanTag   \* no offset looks like the tag
ASSUME CallsAssumption ==
    Positions \subseteq Nat /\ Sizes \subseteq Nat /\ Texts \subseteq Seq(Bytes)

Kinds == {"reg", "slow", "bad", "pipe"}

(* Only a pipe has two streams, one for each end; it starts empty.  Nothing *)
(* comes out of a bad file, and nobody writes to one.                       *)
WellWired ==
    /\ \A s, t \in Streams : s # t /\ str[s].file = str[t].file
                               => Kind(s) = "pipe" /\ str[s].mode # str[t].mode
    /\ \A f \in Files : file[f].kind \in {"bad", "pipe"} => file[f].data = <<>>
    /\ \A s \in Streams : Kind(s) = "bad" => str[s].mode = "r"

Init ==
    /\ file \in [Files -> [kind : Kinds, data : Inputs]]
    /\ str \in [Streams -> {[Opened(f, m, p, tag) EXCEPT !.open = o] :
                  f \in Files, m \in {"r", "w"}, p \in Procs,
                  tag \in {0, ASanTag}, o \in {"open", "closed"}}]
    /\ WellWired
    /\ call = [p \in Procs |-> NoCall]

Requests ==
    [op : {"read"}, stream : Streams, want : Sizes, left : {<<>>}]
    \cup [op : {"readc"}, stream : Streams, want : {1}, left : {<<>>}]
    \cup [op : {"seek"}, stream : Streams, want : Positions, left : {<<>>}]
    \cup [op : {"flush", "close"}, stream : Streams, want : {0}, left : {<<>>}]
    \cup [op : {"write", "writec"}, stream : Streams, want : {0}, left : Texts]

Make(p, c) == Issue(p, c.op, c.stream, c.want, c.left) /\ UNCHANGED <<file, str>>
Call(p) == Idle(p) /\ \E c \in Requests : WellAsked(p, c) /\ InFile(c) /\ Make(p, c)

Killed(p) == call[p].at # "dead" /\ Die(p)

Next == \E p \in Procs : Call(p) \/ LibraryStep(p) \/ Killed(p)
Spec == Init /\ [][Next]_ioVars

(* To every such program io61.cc gives the bytes, positions and results     *)
(* that slow-io61.cc and the comments promise, but for one result, which    *)
(* EmptyReadOk names: io61_read() returns -1 at the end of a file, too.     *)
KeepsPromise == Promise!Spec
=============================================================================
