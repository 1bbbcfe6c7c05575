------------------------------- MODULE Shell61 -------------------------------
(***************************************************************************)
(* src/pset5/sh61.cc: the shell runs the chains of each line.  A pipeline  *)
(* is one child per command; a background chain is run by a subshell.  The *)
(* processes run concurrently and share pipes and the terminal, whose      *)
(* Ctrl-C may come once, at any time.                                      *)
(*                                                                         *)
(* A process is a record: what it runs, whether it lives, who waits for it *)
(* and with which status it ended (an exit code or Sig), and the ends    *)
(* of pipes it holds.  A pipe has the number of the command that writes it.*)
(*                                                                         *)
(* The programs are external: t and f end with 0 and 1, c reads its input  *)
(* to the end, y writes until a signal ends it.                            *)
(* Left out: what the programs print, lines longer than BUFSIZ, failures   *)
(* of fork, pipe and read.                                                 *)
(***************************************************************************)
EXTENDS ShellText, FiniteSets

CONSTANTS Pids,      \* bound: the processes there ever are, 1 the shell
          Existing,  \* the files and directories there are
          NoDir      \* names of files in a directory there is not

VARIABLES input,     \* the lines the shell reads: [text, newline]
          parser,    \* where it is in parsing one
          tree,      \* what it parsed each line to
          proc,      \* the processes
          fg,        \* the process group the terminal sends signals to
          cwd,       \* the shell's working directory
          struck,    \* the processes that SIGINT has ended
          log        \* line |-> chain |-> the pipelines it ran, with their status
shellVars == <<input, parser, tree, proc, fg, cwd, struck, log>>

Shell == 1
Tty == <<"tty">>
File == <<"file">>
None == <<"none">>
Sig == -1    \* the status of a process that a signal has ended
R(k) == <<"read", k>>
W(k) == <<"write", k>>

Unborn == [kind |-> "none", life |-> "none", parent |-> 0, group |-> 0, status |-> 0,
           at |-> "none", line |-> 0, chain |-> 0, pipe |-> 0, cmd |-> 0,
           in |-> None, out |-> None, next |-> None, last |-> 0,
           fd |-> [i \in 0..1 |-> Tty], holds |-> {}]
Alive == {p \in Pids : proc[p].life = "running"}
OpenEnds(p) == IF p \in Alive THEN proc[p].holds \cup {proc[p].fd[0], proc[p].fd[1]} ELSE {}
SomeoneHas(end) == \E p \in Pids : end \in OpenEnds(p)
Is(p, kind, at) == p \in Alive /\ proc[p].kind = kind /\ proc[p].at = at
Runs(p, at) == (p = Shell \/ proc[p].kind = "sub") /\ p \in Alive /\ proc[p].at = at

(* What a shell or subshell works on, and the command a child is to run. *)
ChainsOf(r) == tree[proc[r].line]
ChainOf(r) == ChainsOf(r)[proc[r].chain]
PipeOf(r) == ChainOf(r).pipes[proc[r].pipe]
CmdOf(r) == PipeOf(r).cmds[proc[r].cmd]

Set(p, rec) == proc' = [proc EXCEPT ![p] = rec]
Go(p, at) == Set(p, [proc[p] EXCEPT !.at = at])

(* Processes end: a parent that lives can wait for them, init reaps others. *)
Ended(ps, dead, status) ==
    [q \in Pids |->
       LET orphan == ps[q].parent \in dead \/ ps[q].parent = 0
                     \/ ps[ps[q].parent].life # "running" IN
       IF q \in dead
       THEN [ps[q] EXCEPT !.life = IF orphan THEN "gone" ELSE "zombie", !.status = status]
       ELSE IF ps[q].life = "zombie" /\ orphan THEN [ps[q] EXCEPT !.life = "gone"] ELSE ps[q]]
Exit(p, status) ==
    proc' = Ended(proc, {p}, status) /\ UNCHANGED <<input, parser, tree, fg, cwd, struck, log>>
Keep == UNCHANGED <<input, parser, tree, fg, cwd, struck, log>>

(* fork(): a copy of r with the next process number. *)
FreePid == CHOOSE p \in Pids : /\ proc[p].life = "none"
                               /\ \A q \in Pids : proc[q].life = "none" => p <= q
CanFork == \E p \in Pids : proc[p].life = "none"
ForkOf(r, kind, at) == [proc[r] EXCEPT !.kind = kind, !.at = at, !.parent = r]

(* tcsetpgrp() for a group that exists; SIGTTOU is ignored. *)
GroupExists(g) == \E p \in Pids : proc[p].group = g /\ proc[p].life \in {"running", "zombie"}
Claim(g) == fg' = IF GroupExists(g) THEN g ELSE fg

------------------------------------------------------------------------------
(* The shell's main loop: read a line; a line without newline is the start   *)
(* of a longer one, and at the end of the input it is dropped.               *)
ReadLine ==
    /\ Runs(Shell, "prompt")
    /\ LET n == proc[Shell].line + 1 IN
       IF n > Len(input) THEN Exit(Shell, 0)
       ELSE /\ Set(Shell, [proc[Shell] EXCEPT !.line = n, !.chain = 1,
                            !.at = IF input[n].newline THEN "parse" ELSE "reap"])
            /\ tree' = IF input[n].newline THEN tree ELSE Append(tree, <<>>)
            /\ log' = IF input[n].newline THEN log ELSE Append(log, <<>>)
            /\ UNCHANGED <<input, parser, fg, cwd, struck>>
ParseNext ==
    /\ Runs(Shell, "parse")
    /\ LET text == input[proc[Shell].line].text IN
       IF LineOver(text, parser.at)
       THEN /\ tree' = Append(tree, parser.chains)
            /\ log' = Append(log, [c \in 1..Len(parser.chains) |-> <<>>])
            /\ parser' = Start
            /\ Go(Shell, IF parser.chains = <<>> THEN "reap" ELSE "chain")
       ELSE /\ parser' = Parse(parser, ParseToken(text, parser.at))
            /\ UNCHANGED <<proc, tree, log>>
    /\ UNCHANGED <<input, fg, cwd, struck>>
(* After each line: collect every child that has ended. *)
Reap ==
    /\ Runs(Shell, "reap")
    /\ LET zombies == {q \in Pids : proc[q].parent = Shell /\ proc[q].life = "zombie"} IN
       IF zombies = {} THEN Go(Shell, "prompt")
       ELSE \E q \in zombies : Set(q, [proc[q] EXCEPT !.life = "gone"])
    /\ Keep

(* run(): a foreground chain is run here, a background chain in a copy of   *)
(* the shell that stays in the shell's process group.                       *)
Begin(rec) == [rec EXCEPT !.at = "pipeline", !.pipe = 1]
NextChain ==
    /\ Runs(Shell, "chain")
    /\ IF proc[Shell].chain > Len(ChainsOf(Shell)) THEN Go(Shell, "reap")
       ELSE IF ~ChainOf(Shell).bg THEN Set(Shell, Begin(proc[Shell]))
       ELSE /\ CanFork
            /\ proc' = [proc EXCEPT ![FreePid] = Begin(ForkOf(Shell, "sub", "chain")),
                                    ![Shell].chain = @ + 1]
    /\ Keep
EndChain(r) ==
    /\ Runs(r, "pipeline") /\ proc[r].pipe = 0
    /\ IF r # Shell THEN Exit(r, 1)
       ELSE /\ Claim(proc[Shell].group)
            /\ Set(r, [proc[r] EXCEPT !.at = "chain", !.chain = @ + 1])
            /\ UNCHANGED <<input, parser, tree, cwd, struck, log>>

(* run_commands(): the local variables, then one child after another. *)
StartPipeline(r) ==
    /\ Runs(r, "pipeline") /\ proc[r].pipe # 0
    /\ Set(r, [proc[r] EXCEPT !.at = "command", !.cmd = 1,
                 !.in = None, !.out = None, !.next = None, !.last = 0])
    /\ Keep

(* A pipe to the next command if there is one, and the child.  A command    *)
(* without words ends the shell itself.                                     *)
MakeChild(r) ==
    /\ Runs(r, "command") /\ proc[r].cmd <= Len(PipeOf(r).cmds)
    /\ IF CmdOf(r).args = <<>> THEN Exit(r, 0)
       ELSE LET more == proc[r].cmd < Len(PipeOf(r).cmds)
                k == FreePid
                rec == [proc[r] EXCEPT !.out = IF more THEN W(k) ELSE None,
                                       !.next = IF more THEN R(k) ELSE None,
                                       !.holds = @ \cup (IF more THEN {R(k), W(k)} ELSE {})] IN
            /\ CanFork
            /\ proc' = [proc EXCEPT
                 ![k] = [rec EXCEPT !.kind = "cmd", !.at = "setpgid", !.parent = r],
                 ![r] = [rec EXCEPT !.at = "setpgid", !.last = k]]
            /\ Keep

(* The parent's side of make_child(): setpgid(), and chdir() for cd. *)
Cd(cmd) == cmd.args[1] = <<"c", "d">>
ParentSide(r) ==
    /\ Runs(r, "setpgid")
    /\ LET k == proc[r].last IN
       proc' = [proc EXCEPT ![k].group = k, ![r].at = "claim"]
    /\ cwd' = IF r = Shell /\ Cd(CmdOf(r)) /\ CmdOf(r).args[2] \in Existing
              THEN CmdOf(r).args[2] ELSE cwd
    /\ UNCHANGED <<input, parser, tree, fg, struck, log>>
(* Only the first command's group becomes the foreground group. *)
BugClaimFirst(r) ==
    /\ Runs(r, "claim")
    /\ IF proc[r].cmd = 1 THEN Claim(proc[r].last) ELSE fg' = fg
    /\ Go(r, "close")
    /\ UNCHANGED <<input, parser, tree, cwd, struck, log>>
ClaimFirst(r) ==
    /\ Runs(r, "claim")
    /\ IF proc[r].cmd = 1 /\ ~ChainOf(r).bg THEN Claim(proc[r].last) ELSE fg' = fg
    /\ Go(r, "close")
    /\ UNCHANGED <<input, parser, tree, cwd, struck, log>>
BugCloseEnds(r) ==   \* the write end stays open
    /\ Runs(r, "close")
    /\ Set(r, [proc[r] EXCEPT !.at = "command", !.cmd = @ + 1, !.in = proc[r].next,
                              !.holds = @ \ {proc[r].in}])
    /\ Keep
CloseEnds(r) ==
    /\ Runs(r, "close")
    /\ Set(r, [proc[r] EXCEPT !.at = "command", !.cmd = @ + 1, !.in = proc[r].next,
                              !.holds = @ \ {proc[r].in, proc[r].out}])
    /\ Keep

(* run_pipelines(): wait for the last command, and choose by its status and *)
(* the connectors which pipeline of the chain comes next (0: none).         *)
FirstFrom(ps, i, flagged(_)) ==
    CHOOSE j \in i..Len(ps) + 1 : /\ j = Len(ps) + 1 \/ ~flagged(ps[j])
                                  /\ \A k \in i..j - 1 : flagged(ps[k])
Follows(ps, i, status) ==
    LET or(q) == q.is_or  and(q) == q.is_and
        j == IF status = 0 THEN FirstFrom(ps, i, or) ELSE FirstFrom(ps, i, and) IN
    IF status = Sig \/ j >= Len(ps) THEN 0 ELSE j + 1
BugWait(r) ==   \* a killed command counts as one that failed
    LET k == proc[r].last  me == proc[r]
        st == IF proc[k].status = Sig THEN 1 ELSE proc[k].status IN
    /\ Runs(r, "command") /\ me.cmd > Len(PipeOf(r).cmds)
    /\ proc[k].life = "zombie"
    /\ proc' = [proc EXCEPT ![k].life = "gone", ![r].at = "pipeline",
                            ![r].pipe = Follows(ChainOf(r).pipes, @, st)]
    /\ log' = [log EXCEPT ![me.line][me.chain] =
                 Append(@, [pipe |-> me.pipe, status |-> proc[k].status, pid |-> k])]
    /\ UNCHANGED <<input, parser, tree, fg, cwd, struck>>
Wait(r) ==
    LET k == proc[r].last  me == proc[r] IN
    /\ Runs(r, "command") /\ me.cmd > Len(PipeOf(r).cmds)
    /\ proc[k].life = "zombie"
    /\ proc' = [proc EXCEPT ![k].life = "gone", ![r].at = "pipeline",
                            ![r].pipe = Follows(ChainOf(r).pipes, @, proc[k].status)]
    /\ log' = [log EXCEPT ![me.line][me.chain] =
                 Append(@, [pipe |-> me.pipe, status |-> proc[k].status, pid |-> k])]
    /\ UNCHANGED <<input, parser, tree, fg, cwd, struck>>

------------------------------------------------------------------------------
(* The child's side of make_child(). *)
ChildGroup(p) ==
    Is(p, "cmd", "setpgid") /\ Set(p, [proc[p] EXCEPT !.group = p, !.at = "pipes"]) /\ Keep
BugPlumb(p) ==   \* the read end for the next command stays open
    /\ Is(p, "cmd", "pipes")
    /\ LET me == proc[p]  Std(end, old) == IF end = None THEN old ELSE end IN
       Set(p, [me EXCEPT !.at = "files", !.holds = @ \ {me.in, me.out},
                         !.fd = [i \in 0..1 |-> IF i = 0 THEN Std(me.in, @[0])
                                                ELSE Std(me.out, @[1])]])
    /\ Keep
Plumb(p) ==
    /\ Is(p, "cmd", "pipes")
    /\ LET me == proc[p]  Std(end, old) == IF end = None THEN old ELSE end IN
       Set(p, [me EXCEPT !.at = "files", !.holds = @ \ {me.in, me.out, me.next},
                         !.fd = [i \in 0..1 |-> IF i = 0 THEN Std(me.in, @[0])
                                                ELSE Std(me.out, @[1])]])
    /\ Keep
(* An input must exist; an output is created, if it has a directory. *)
Fails(cmd, i) == /\ cmd.redirs[i] # NoFile
                 /\ IF i = 0 THEN cmd.redirs[i] \notin Existing ELSE cmd.redirs[i] \in NoDir
Redirect(p) ==
    /\ Is(p, "cmd", "files")
    /\ IF \E i \in 0..2 : Fails(CmdOf(p), i) THEN Exit(p, 1)
       ELSE /\ Set(p, [proc[p] EXCEPT !.at = "exec",
                         !.fd = [i \in 0..1 |-> IF CmdOf(p).redirs[i] = NoFile THEN @[i] ELSE File]])
            /\ Keep
Exec(p) ==
    /\ Is(p, "cmd", "exec")
    /\ LET cmd == CmdOf(p) IN
       IF Cd(cmd) THEN Exit(p, IF cmd.args[2] \in Existing THEN 0 ELSE 255)
       ELSE IF cmd.args[1] \in {<<"t">>, <<"f">>, <<"c">>, <<"y">>} THEN Go(p, "program") /\ Keep
       ELSE Exit(p, 1)

(* The programs.  A pipe whose write ends are closed is at its end; writing *)
(* to one whose read ends are closed is a signal.                           *)
Program(p) ==
    /\ Is(p, "cmd", "program")
    /\ LET in == proc[p].fd[0]  out == proc[p].fd[1]  name == CmdOf(p).args[1] IN
       \/ name = <<"t">> /\ Exit(p, 0)
       \/ name = <<"f">> /\ Exit(p, 1)
       \/ name = <<"c">> /\ (in[1] = "read" => ~SomeoneHas(W(in[2]))) /\ Exit(p, 0)
       \/ name = <<"y">> /\ out[1] = "write" /\ ~SomeoneHas(R(out[2])) /\ Exit(p, Sig)

(* Ctrl-C: SIGINT to the foreground group.  Nobody handles it. *)
Interrupt ==
    /\ struck = {}
    /\ LET hit == {p \in Alive : proc[p].group = fg} IN
       /\ hit # {}
       /\ struck' = hit /\ proc' = Ended(proc, hit, Sig)
    /\ UNCHANGED <<input, parser, tree, fg, cwd, log>>

(* main() before its loop: the shell is alone and has the terminal. *)
StartShell ==
    /\ tree = <<>> /\ parser = Start /\ log = <<>> /\ struck = {} /\ cwd = <<"h">> /\ fg = Shell
    /\ proc = [p \in Pids |-> IF p # Shell THEN Unborn ELSE
                 [Unborn EXCEPT !.kind = "shell", !.life = "running", !.group = Shell,
                                !.at = "prompt"]]

Runner(r) == \/ EndChain(r) \/ StartPipeline(r) \/ MakeChild(r) \/ ParentSide(r)
             \/ ClaimFirst(r) \/ CloseEnds(r) \/ Wait(r)
Child(p) == ChildGroup(p) \/ Plumb(p) \/ Redirect(p) \/ Exec(p) \/ Program(p)
Step(p) == \/ p = Shell /\ (ReadLine \/ ParseNext \/ Reap \/ NextChain)
           \/ Runner(p) \/ Child(p)
=============================================================================
