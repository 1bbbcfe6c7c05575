---------------------------- MODULE PipeExchange ----------------------------
(***************************************************************************)
(* src/pset4/pipeexchange61.cc: two processes that exchange batches of     *)
(* requests and responses through io61 over two pipes, and the parent that *)
(* reaps them, or kills them when five seconds have passed.                *)
(*                                                                         *)
(* Process 1 is the requester (it writes stream 11, reads stream 1), 2 the *)
(* responder (reads stream 2, writes stream 12).  A message is its id and  *)
(* zeros up to its size.  The exit status of a child is how it ended:      *)
(* "exit", "aborted" (a failed assertion) or "killed".                     *)
(* Left out: the printed lines, pipe(2) and fork(2) failing.               *)
(***************************************************************************)
EXTENDS Io61, FiniteSets

VARIABLES phases,   \* messages[]: a sequence of batches
          side,     \* child |-> where it is in its loops
          parent,   \* main(): which children it still waits for, and its state
          late      \* have five seconds passed since start_time?
exchangeVars == <<phases, side, parent, late>>

Requester == 1
Responder == 2
RequestOut == 11
RequestIn == 2
ResponseOut == 12
ResponseIn == 1

Message(id, size) == <<id>> \o [i \in 1..size - 1 |-> 0]

StartSide == [at |-> "start", phase |-> 1, i |-> 0, id |-> 1, answered |-> 0]
Now(p) == phases[side[p].phase]
Goto(p, s) == side' = [side EXCEPT ![p] = s]
Quiet == UNCHANGED <<file, str, phases, parent, late>>
End(p, how) == Goto(p, [side[p] EXCEPT !.at = how]) /\ Die(p) /\ UNCHANGED <<phases, parent, late>>

(* main() up to its loop: two pipes, two children with one end of each, and *)
(* buffers of tag; the parent waits for both children.  It keeps both ends  *)
(* of both pipes until it exits, when no child is left alive: no child ever *)
(* reads an end of file or gets SIGPIPE.                                    *)
ParentHolds == {RequestOut, ResponseOut} \subseteq HeldOpen
Connected(tag) ==
    /\ ParentHolds
    /\ side = [p \in {1, 2} |-> StartSide] /\ late = FALSE
    /\ parent = [at |-> "waiting", alive |-> {1, 2}, killed |-> {}]
    /\ file = [f \in Files |->
         [kind |-> IF f \in {RequestOut, ResponseOut} THEN "pipe" ELSE "reg", data |-> <<>>]]
    /\ str = [s \in Streams |->
         CASE s = RequestOut -> Opened(RequestOut, "w", Requester, tag)
           [] s = ResponseIn -> Opened(ResponseOut, "r", Requester, tag)
           [] s = RequestIn -> Opened(RequestOut, "r", Responder, tag)
           [] s = ResponseOut -> Opened(ResponseOut, "w", Responder, tag)]

(* The next message arrived whole: io61_read() returned its size. *)
Whole(p, size) == Len(call[p].got) = size

(* The requester's loop over the phases: send the whole batch, flush, then  *)
(* receive the whole batch and check the ids.                               *)
Send ==
    LET s == side[Requester] IN
    /\ s.at \in {"start", "sending"} /\ Idle(Requester)
    /\ IF s.i < Now(Requester).batch
       THEN /\ Issue(Requester, "write", RequestOut, 0, Message(s.id, Now(Requester).request))
            /\ Goto(Requester, [s EXCEPT !.at = "sending", !.i = @ + 1, !.id = @ + 1])
       ELSE /\ Issue(Requester, "flush", RequestOut, 0, <<>>)
            /\ Goto(Requester, [s EXCEPT !.at = "sent", !.i = 0])
    /\ Quiet
Receive ==
    LET s == side[Requester]
        good == Whole(Requester, Now(Requester).response)
                /\ call[Requester].got[1] = s.answered + 1 IN
    /\ s.at \in {"sent", "receiving"} /\ Idle(Requester)
    /\ IF s.at = "receiving" /\ ~good THEN End(Requester, "aborted")
       ELSE /\ LET n == IF s.at = "receiving" THEN s.answered + 1 ELSE s.answered IN
               IF s.i < Now(Requester).batch
               THEN /\ Issue(Requester, "read", ResponseIn, Now(Requester).response, <<>>)
                    /\ Goto(Requester, [s EXCEPT !.at = "receiving", !.i = @ + 1, !.answered = n])
               ELSE /\ UNCHANGED call
                    /\ Goto(Requester, IF s.phase < Len(phases)
                         THEN [s EXCEPT !.at = "start", !.phase = @ + 1, !.i = 0, !.answered = n]
                         ELSE [s EXCEPT !.at = "done", !.answered = n])
            /\ Quiet

(* The responder's loop: receive one request, answer it, flush. *)
BugAnswer(p, s) ==
    /\ Issue(p, "write", ResponseOut, 0, Message(call[p].got[1], Now(p).response))
    /\ Goto(p, [s EXCEPT !.at = "flushed"])
Answer(p, s) ==
    /\ Issue(p, "write", ResponseOut, 0, Message(call[p].got[1], Now(p).response))
    /\ Goto(p, [s EXCEPT !.at = "answering"])
Respond ==
    LET s == side[Responder]  p == Responder IN
    /\ Idle(p)
    /\ \/ /\ s.at \in {"start", "flushed"}
          /\ IF s.i < Now(p).batch
             THEN /\ Issue(p, "read", RequestIn, Now(p).request, <<>>)
                  /\ Goto(p, [s EXCEPT !.at = "waiting", !.i = @ + 1])
             ELSE /\ UNCHANGED call
                  /\ Goto(p, IF s.phase < Len(phases)
                             THEN [s EXCEPT !.at = "start", !.phase = @ + 1, !.i = 0]
                             ELSE [s EXCEPT !.at = "done"])
          /\ Quiet
       \/ /\ s.at = "waiting"
          /\ IF Whole(p, Now(p).request) THEN Answer(p, s) /\ Quiet ELSE End(p, "aborted")
       \/ /\ s.at = "answering"
          /\ Issue(p, "flush", ResponseOut, 0, <<>>)
          /\ Goto(p, [s EXCEPT !.at = "flushed"])
          /\ Quiet

(* io61_close() of the stream for reading, then of the one for writing. *)
Finish(p) ==
    LET in == IF p = Requester THEN ResponseIn ELSE RequestIn
        out == IF p = Requester THEN RequestOut ELSE ResponseOut
        Close(s) == Issue(p, "close", s, 0, <<>>) /\ UNCHANGED side /\ Quiet IN
    /\ side[p].at = "done" /\ Idle(p)
    /\ IF str[in].open = "open" THEN Close(in)
       ELSE IF str[out].open = "open" THEN Close(out)
       ELSE End(p, "exit")

(* main(): poll for dead children until the time is up, then kill the rest. *)
Dead(p) == call[p].at = "dead"
Reap(p) ==
    /\ parent.at = "waiting" /\ ~late /\ p \in parent.alive /\ Dead(p)
    /\ parent' = [parent EXCEPT !.alive = @ \ {p}]
    /\ UNCHANGED <<ioVars, phases, side, late>>
TimePasses ==
    /\ parent.at = "waiting" /\ ~late
    /\ late' = TRUE
    /\ UNCHANGED <<ioVars, phases, side, parent>>
StopWaiting ==
    /\ parent.at = "waiting" /\ (parent.alive = {} \/ late)
    /\ parent' = [parent EXCEPT !.at = "killing"]
    /\ UNCHANGED <<ioVars, phases, side, late>>
Kill ==
    /\ parent.at = "killing" /\ parent.killed # parent.alive
    /\ LET p == CHOOSE q \in parent.alive \ parent.killed :
                    \A r \in parent.alive \ parent.killed : q <= r IN
       /\ parent' = [parent EXCEPT !.killed = @ \cup {p}]
       /\ IF Dead(p) THEN UNCHANGED <<ioVars, side>>
          ELSE Die(p) /\ Goto(p, [side[p] EXCEPT !.at = "killed"])
    /\ UNCHANGED <<phases, late>>
ParentExit ==
    /\ parent.at = "killing" /\ parent.killed = parent.alive
    /\ parent' = [parent EXCEPT !.at = IF parent.alive = {} THEN "exit0" ELSE "exit1"]
    /\ UNCHANGED <<ioVars, phases, side, late>>

ChildStep == Send \/ Receive \/ Respond \/ \E p \in {Requester, Responder} : Finish(p)
ParentStep == \/ \E p \in {Requester, Responder} : Reap(p)
              \/ TimePasses \/ StopWaiting \/ Kill \/ ParentExit
=============================================================================
