------------------------------ MODULE Shell61MC ------------------------------
(***************************************************************************)
(* sh61 on small inputs.  An input is meant as trees and written down with *)
(* different spacing and quoting; some are run with all interleavings of   *)
(* their processes and a Ctrl-C at any time, many more are only parsed.    *)
(***************************************************************************)
EXTENDS Shell61

VARIABLE meant   \* the trees of the input's lines, and whether they are run
vars == <<shellVars, meant>>

Word1(w) == [Command EXCEPT !.args = <<w>>]
T == Word1(<<"t">>)
F == Word1(<<"f">>)
C == Word1(<<"c">>)
Y == Word1(<<"y">>)
N == Word1(<<"2">>)   \* there is no such program
CdTo(w) == [Command EXCEPT !.args = <<<<"c", "d">>, w>>]
Reading(cmd, w) == [cmd EXCEPT !.redirs[0] = w]
Writing(cmd, w) == [cmd EXCEPT !.redirs[1] = w]
NoSuch == <<"n">>
There == <<"e">>

P(cmds) == [Pipeline EXCEPT !.cmds = cmds]
And(p) == [p EXCEPT !.is_and = TRUE]
Or(p) == [p EXCEPT !.is_or = TRUE]
Fg(ps) == [bg |-> FALSE, pipes |-> ps]
Bg(ps) == [bg |-> TRUE, pipes |-> ps]
One(cmd) == <<P(<<cmd>>)>>

(* Inputs that are run, each a sequence of lines, each a sequence of chains. *)
RunInputs ==
  {<<<<Fg(<<And(P(<<T>>)), Or(P(<<F>>)), P(<<T>>)>>)>>, <<Fg(One(T))>>>>,
   <<<<Fg(<<Or(P(<<T>>)), And(P(<<F>>)), P(<<F>>)>>), Fg(One(N))>>>>,
   <<<<Fg(<<Or(P(<<F, T>>)), P(<<N>>)>>)>>, <<Fg(One(F))>>>>,
   <<<<Fg(<<P(<<Y, T>>)>>), Fg(One(T))>>>>,
   <<<<Fg(<<P(<<T, C, C>>)>>)>>>>,
   <<<<Fg(<<And(P(<<Y, Reading(C, There)>>)), P(<<T>>)>>)>>>>,
   <<<<Bg(<<And(P(<<F>>)), P(<<T>>)>>), Fg(One(T))>>>>,
   <<<<Bg(<<P(<<T, C>>)>>)>>, <<Fg(One(T))>>>>,
   <<<<Fg(<<And(P(<<CdTo(There)>>)), Or(P(<<CdTo(NoSuch)>>)), P(<<T>>)>>)>>>>,
   <<<<Fg(<<Or(P(<<Reading(T, NoSuch)>>)), And(P(<<T>>)), P(<<Writing(T, <<"x">>)>>)>>)>>>>,
   <<<<Fg(One(T)), Fg(One(Command))>>, <<Fg(One(T))>>>>,
   <<<<>>, <<Fg(One(F))>>>>}

(* Inputs that are only parsed: one line of one or two chains. *)
Commands == {T, [F EXCEPT !.args = @ \o <<<<"a", " ", "&">>>>, !.redirs[2] = NoSuch],
             [Reading(Writing(N, <<"2">>), There) EXCEPT !.args = @ \o <<<<"c">>>>]}
Pipelines == {P(cmds) : cmds \in SeqOf(Commands, 2) \ {<<>>}}
Chains(ps) == {Fg(<<p>>) : p \in ps} \cup {Bg(<<p>>) : p \in ps}
    \cup UNION {{Fg(<<And(p), q>>), Bg(<<Or(p), q>>)} : p \in ps, q \in ps}
ParseInputs == {<<<<c>>>> : c \in Chains(Pipelines)}
    \cup {<<<<c, d>>>> : c \in Chains({P(<<x>>) : x \in Commands}),
                         d \in Chains({P(<<x>>) : x \in Commands})}

------------------------------------------------------------------------------
(* How a tree is written down.                                               *)
Styles == [gap : {<<>>, <<" ">>}, quote : {"\"", "'", "\\"}, early : {FALSE},
           tail : {<<>>}]
          \cup [gap : {<<" ">>}, quote : {"\\"}, early : {TRUE}, tail : {<<" ", "#", ";", "t">>}]
Plain == [gap |-> <<" ">>, quote |-> "'", early |-> FALSE, tail |-> <<>>]

Join(ss, sep) == FlattenSeq([i \in 1..Len(ss) |-> IF i = 1 THEN ss[i] ELSE sep \o ss[i]])
Quoted(w, q) ==
    IF \A i \in 1..Len(w) : w[i] \notin Special \cup Space THEN w
    ELSE IF q = "\\" THEN FlattenSeq([i \in 1..Len(w) |-> <<q, w[i]>>])
    ELSE <<q>> \o w \o <<q>>
CommandText(cmd, st) ==
    LET words == [i \in 1..Len(cmd.args) |-> Quoted(cmd.args[i], st.quote)]
        op == <<<<"<">>, <<">">>, <<"2", ">">>>>
        redirs == [i \in 1..3 |-> IF cmd.redirs[i - 1] = NoFile THEN <<>>
                                  ELSE <<op[i] \o st.gap \o Quoted(cmd.redirs[i - 1], st.quote)>>]
        k == IF st.early /\ words # <<>> THEN 1 ELSE Len(words)
    IN Join(SubSeq(words, 1, k) \o FlattenSeq(redirs) \o SubSeq(words, k + 1, Len(words)), <<" ">>)
PipelineText(p, st) ==
    Join([i \in 1..Len(p.cmds) |-> CommandText(p.cmds[i], st)], st.gap \o <<"|">> \o st.gap)
ChainText(c, st) ==
    FlattenSeq([i \in 1..Len(c.pipes) |->
        PipelineText(c.pipes[i], st) \o st.gap
        \o (IF c.pipes[i].is_and THEN <<"&", "&">> ELSE IF c.pipes[i].is_or THEN <<"|", "|">>
            ELSE IF c.bg THEN <<"&">> ELSE <<";">>) \o st.gap])
LineText(line, st) ==
    FlattenSeq([i \in 1..Len(line) |-> ChainText(line[i], st)]) \o st.tail \o <<"\n">>

DefExisting == {There}
DefNoDir == {<<"x">>}

Init ==
    \E m \in [lines : RunInputs, run : {TRUE}] \cup [lines : ParseInputs, run : {FALSE}],
       st \in Styles, whole \in BOOLEAN :
       /\ m.run => st = Plain
       /\ ~m.run => whole
       /\ meant = m
       /\ input = [l \in 1..Len(m.lines) |-> [text |-> LineText(m.lines[l], st),
                                              newline |-> whole \/ l < Len(m.lines)]]
       /\ StartShell

(* bound: some lines are parsed and not run *)
Going == meant.run \/ tree = <<>>
Next == /\ (Going /\ \E p \in Pids : Step(p)) \/ (meant.run /\ Interrupt)
        /\ UNCHANGED meant
(* The kernel schedules every process that can run; Ctrl-C need not come. *)
Spec == Init /\ [][Next]_vars /\ \A p \in Pids : WF_vars(meant.run /\ Step(p) /\ UNCHANGED meant)

------------------------------------------------------------------------------
(* parse_line() finds in every line the tree it was written from, whatever  *)
(* the spacing, the quoting and the place of the redirections.              *)
ParseRight == \A l \in 1..Len(tree) :
    tree[l] = IF input[l].newline THEN meant.lines[l] ELSE <<>>

(* What && and || mean: the next pipeline is the first one whose connector  *)
(* before it agrees with the status so far; a signal ends the chain.        *)
Wanted(ps, i, status) ==
    IF status = Sig THEN 0
    ELSE LET js == {j \in i + 1..Len(ps) : IF status = 0 THEN ps[j - 1].is_and ELSE ps[j - 1].is_or}
         IN IF js = {} THEN 0 ELSE Min(js)
WantedStatus(cmd) ==
    CASE \E i \in 0..2 : Fails(cmd, i) -> 1
      [] cmd.args = T.args \/ cmd.args = C.args -> 0
      [] cmd.args = CdTo(There).args -> 0
      [] cmd.args = CdTo(NoSuch).args -> 255
      [] OTHER -> 1
Over(l, c) == log[l][c] # <<>> /\
    LET e == Last(log[l][c]) IN Wanted(tree[l][c].pipes, e.pipe, e.status) = 0
(* run_pipelines(): every chain runs the pipelines && and || ask for, each  *)
(* with the status of its own last command; a foreground chain is over      *)
(* before a later one starts; after a cd that succeeded the shell is there. *)
ChainsRight ==
    /\ \A l \in 1..Len(log) : \A c \in DOMAIN log[l] : \A k \in DOMAIN log[l][c] :
         LET e == log[l][c][k]  d == log[l][c][k - 1]  ps == tree[l][c].pipes IN
         /\ e.pipe = IF k = 1 THEN 1 ELSE Wanted(ps, d.pipe, d.status)
         /\ IF e.pid \in struck THEN e.status = Sig
            ELSE e.status = WantedStatus(Last(ps[e.pipe].cmds))
    /\ \A l \in 1..Len(tree) : \A c \in DOMAIN tree[l] :
         (l < proc[Shell].line \/ c < proc[Shell].chain) /\ ~tree[l][c].bg => Over(l, c)
    /\ \A p \in Pids : LET me == proc[p] IN
         Runs(p, "pipeline") /\ p = Shell /\ log[me.line][me.chain] # <<>> =>
           LET e == Last(log[me.line][me.chain])
               cmd == Last(ChainOf(p).pipes[e.pipe].cmds) IN
           e.status = 0 /\ Cd(cmd) => cwd = cmd.args[2]

(* make_child() and run_commands(): a program runs with its standard input  *)
(* and output connected to its neighbours' (or its files) and without any   *)
(* other end of a pipe; a shell between two pipelines holds none.           *)
PipeEndsRight ==
    /\ \A p \in Pids : Is(p, "cmd", "program") =>
         LET me == proc[p]  cmds == PipeOf(p).cmds
             before == {q \in Pids : /\ proc[q].kind = "cmd" /\ proc[q].cmd = me.cmd - 1
                                     /\ \A f \in {"line", "chain", "pipe", "parent"} :
                                          proc[q][f] = me[f]} IN
         /\ me.holds = {}
         /\ me.fd[0] = IF CmdOf(p).redirs[0] # NoFile THEN File
                       ELSE IF me.cmd = 1 THEN Tty ELSE R(CHOOSE q \in before : TRUE)
         /\ me.fd[1] = IF CmdOf(p).redirs[1] # NoFile THEN File
                       ELSE IF me.cmd = Len(cmds) THEN Tty ELSE W(p)
    /\ \A r \in Pids : (Runs(r, "prompt") \/ Runs(r, "chain") \/ Runs(r, "pipeline")) =>
         proc[r].holds = {}

(* claim_foreground(): the terminal belongs to the shell when it prompts,   *)
(* to the first command of a foreground pipeline while the shell waits for  *)
(* it, and never to a command of a background chain.                        *)
TerminalRight ==
    /\ Runs(Shell, "prompt") => fg = Shell
    /\ Runs(Shell, "command") /\ proc[Shell].cmd > 1 =>
         \E p \in Pids : /\ proc[p].group = fg /\ proc[p].cmd = 1 /\ proc[p].kind = "cmd"
                         /\ proc[p].parent = Shell /\ proc[p].pipe = proc[Shell].pipe
                         /\ proc[p].chain = proc[Shell].chain /\ proc[p].line = proc[Shell].line
    /\ \A p \in Alive : proc[p].kind = "cmd" /\ proc[p].group = fg =>
         ~tree[proc[p].line][proc[p].chain].bg \/ proc[p].at = "setpgid"

(* Every command comes to its end, so does the shell, and no zombie is      *)
(* left: nobody waits for a pipe whose other end the shell or a neighbour   *)
(* has forgotten to close.                                                  *)
EverythingEnds == meant.run ~> \A p \in Pids : proc[p].life \in {"none", "gone"}
=============================================================================
