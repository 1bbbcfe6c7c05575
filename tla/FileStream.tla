----------------------------- MODULE FileStream -----------------------------
(***************************************************************************)
(* What the io61 library of src/pset4 promises the programs that use it:   *)
(* the comments above the functions of io61.cc, and the functions of       *)
(* slow-io61.cc, which reach the file in every call and keep no buffer.    *)
(*                                                                         *)
(* A file is a sequence of bytes: a "reg"ular file, a "slow" one (the end  *)
(* of a pipe whose other end is outside the model), a "pipe" between two   *)
(* modelled processes, or a "bad" one, whose read(2) always fails.  A call *)
(* moves its bytes in one or more steps; nothing else happens to a file.   *)
(* A call that returns -1 has ok = FALSE.                                  *)
(*                                                                         *)
(* The sources disagree on an io61_read() that reads nothing: its comment  *)
(* says -1 for an error and 0 at the end of the file, slow-io61.cc returns *)
(* 0 for both, io61.cc -1 for both.  EmptyReadOk settles it.               *)
(***************************************************************************)
EXTENDS Integers, Sequences

CONSTANTS Procs, Streams,
          EmptyReadOk   \* kinds of file of which io61_read() may return 0

VARIABLES file,   \* file |-> kind and bytes
          str,    \* stream |-> file, mode, owner, position fp, open or not
          call    \* process |-> the io61 call it is in (at: run, done, dead)
vars == <<file, str, call>>

Least(a, b) == IF a <= b THEN a ELSE b

(* d with the bytes bs at offset at; a gap below them reads as zeros. *)
Overlay(d, at, bs) ==
    IF bs = <<>> THEN d
    ELSE [i \in 1..(IF Len(d) > at + Len(bs) THEN Len(d) ELSE at + Len(bs)) |->
            IF i > at /\ i <= at + Len(bs) THEN bs[i - at]
            ELSE IF i <= Len(d) THEN d[i] ELSE 0]

Seekable(f) == file[f].kind = "reg"

(* The bytes a reader of stream s has still to see. *)
Ahead(s) == LET d == file[str[s].file].data IN
    IF file[str[s].file].kind = "pipe" THEN d ELSE SubSeq(d, str[s].fp + 1, Len(d))

(* No byte will follow.  A pipe ends when its writer has closed it; what a  *)
(* writer that died (open = "lost") still had to write may be missing.      *)
AtEnd(s) ==
    IF file[str[s].file].kind # "pipe" THEN Ahead(s) = <<>>
    ELSE \/ /\ Ahead(s) = <<>>
            /\ \A w \in Streams : str[w].file = str[s].file /\ str[w].mode = "w"
                                    => str[w].open # "open"
         \/ \E w \in Streams : str[w].file = str[s].file /\ str[w].open = "lost"

Running(p, ops) == call[p].at = "run" /\ call[p].op \in ops

MayBeEmpty(c) == c.op = "read" /\ file[str[c.stream].file].kind \in EmptyReadOk

(* A program starts a call; reading or writing nothing returns at once. *)
Call(p) ==
    /\ call[p].at = "done"
    /\ call'[p].at = IF \/ call'[p].op = "read" /\ call'[p].want = 0
                        \/ call'[p].op = "write" /\ call'[p].left = <<>>
                     THEN "done" ELSE "run"
    /\ call'[p].got = <<>>
    /\ call'[p].ok = (call'[p].op = "read" /\ call'[p].want = 0 => MayBeEmpty(call'[p]))
    /\ call' = [call EXCEPT ![p] = call'[p]]
    /\ UNCHANGED <<file, str>>

Return(p, rec) == call' = [call EXCEPT ![p] = [rec EXCEPT !.at = "done"]]

Read(p) ==
    /\ Running(p, {"read", "readc"})
    /\ LET c == call[p]  s == c.stream  f == str[s].file IN
       \/ /\ AtEnd(s)
          /\ Return(p, [c EXCEPT !.ok = c.got # <<>> \/ MayBeEmpty(c)])
          /\ UNCHANGED <<file, str>>
       \/ \E k \in 1..Least(c.want - Len(c.got), Len(Ahead(s))) :
            /\ call' = [call EXCEPT ![p].got = @ \o SubSeq(Ahead(s), 1, k),
                           ![p].at = IF Len(c.got) + k = c.want THEN "done" ELSE "run"]
            /\ IF file[f].kind = "pipe"
               THEN /\ file' = [file EXCEPT ![f].data = SubSeq(@, k + 1, Len(@))]
                    /\ UNCHANGED str
               ELSE /\ str' = [str EXCEPT ![s].fp = @ + k]
                    /\ UNCHANGED file

Write(p) ==
    /\ Running(p, {"write", "writec"})
    /\ LET c == call[p]  s == c.stream  f == str[s].file IN
       \E k \in 1..Len(c.left) :
          /\ call' = [call EXCEPT ![p].left = SubSeq(@, k + 1, Len(@)),
                         ![p].at = IF Len(c.left) = k THEN "done" ELSE "run"]
          /\ IF file[f].kind = "pipe"
             THEN /\ file' = [file EXCEPT ![f].data = @ \o SubSeq(c.left, 1, k)]
                  /\ UNCHANGED str
             ELSE /\ file' = [file EXCEPT ![f].data = Overlay(@, str[s].fp, SubSeq(c.left, 1, k))]
                  /\ str' = [str EXCEPT ![s].fp = @ + k]

Flush(p) ==
    /\ Running(p, {"flush"})
    /\ Return(p, call[p])
    /\ UNCHANGED <<file, str>>

(* A seek that fails says so; where it leaves the stream is not promised. *)
Seek(p) ==
    /\ Running(p, {"seek"})
    /\ LET c == call[p]  s == c.stream IN
       /\ Return(p, [c EXCEPT !.ok = Seekable(str[s].file)])
       /\ IF Seekable(str[s].file) THEN str' = [str EXCEPT ![s].fp = c.want]
          ELSE str' = [str EXCEPT ![s].fp = str'[s].fp]
       /\ UNCHANGED file

Close(p) ==
    /\ Running(p, {"close"})
    /\ Return(p, call[p])
    /\ str' = [str EXCEPT ![call[p].stream].open = "closed"]
    /\ UNCHANGED file

(* The process ends, by exit(), an assertion or a signal. *)
Die(p) ==
    /\ call[p].at # "dead"
    /\ call' = [call EXCEPT ![p].at = "dead"]
    /\ str' = [s \in Streams |->
                 IF str[s].proc = p /\ str[s].open = "open"
                 THEN [str[s] EXCEPT !.open = "lost"] ELSE str[s]]
    /\ UNCHANGED file

Init ==
    /\ \A s \in Streams : str[s].fp = 0 /\ str[s].open # "lost"
    /\ \A p \in Procs : call[p].at = "done"

Next == \E p \in Procs : \/ Call(p) \/ Read(p) \/ Write(p) \/ Flush(p)
                         \/ Seek(p) \/ Close(p) \/ Die(p)

Spec == Init /\ [][Next]_vars
=============================================================================
