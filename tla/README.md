# TLA+ models of the CS 61 problem sets

The repository holds solutions to the problem sets of a systems programming
course: seven directories with separate programs that share no code. This
project models the programs whose behaviour is hard to test, the concurrent and
the resource-managing ones first, checks the models with TLC and proves the
theorems that matter most with TLAPS.

Modelled are the pong simulator and client of `pset6`, the WeensyOS kernel of
`pset3`, the shell of `pset5`, buffered I/O with its programs of `pset4` and the
debugging allocator of `pset1`. Proved about are the pong board, the simulator
that runs threads on it, the client, the kernel with its memory, buffered I/O and the allocator; the
shell and the programs that copy files are model-checked.

## Inventory

### pset6: pong

| component | state | operations | interacts with |
|---|---|---|---|
| `pongboard.hh` board | cells (type, ball), one mutex per line plus two border ones | `cell()` | read and written by every ball thread |
| `pongboard.hh` ball | `placed_`, position, direction | `place()`, `move()`, `check_cell_stick()` | board; a collision writes the *other* ball's direction |
| `simpong61.cc` | `ball_reserve`, `mutex_hole`, `mutex_sticky`, `cv_sticky`, `nrunning` | `ball_thread()`, `main()`, signal handler | one thread per ball in play |
| `pong61.cc` | connections, `move_done`, HTTP parser state | `pong_thread()`, `http_*`, `main()` | a remote server; main and a move thread share `move_done` |

Hard: all interleavings of the row mutexes; decisions made on a cell that
another ball could change; collisions that write another thread's ball; the
check of `cv_sticky`'s condition against its notification; threads that end while
main() counts them. Correct means: cells and balls agree, a move is atomic,
nobody deadlocks, no ball or thread is lost, a freed ball moves on.

### pset3: WeensyOS

| component | state | operations | interacts with |
|---|---|---|---|
| physical memory | `pages[].refcount`, contents | `kalloc`, `kfree` | everything below |
| page tables | tables in allocated pages | `vmiter` (look up, `try_map`), `ptiter` | allocate tables with `kalloc` |
| processes | `ptable[]`: state, page table, registers | `process_setup`, `sys_fork`, `exit_proc`, `sys_kill`, `syscall_page_alloc` | memory and page tables |
| scheduler | `current` | `exception`, `syscall`, `schedule`, `run` | timer interrupts |
| memory viewer | one page | `refresh`, `symbol_at`, `memshow` | reads all tables, at every entry |
| hardware, boot, `lib.cc` | device registers | start-up code, `check_keyboard` (soft reboot) | the reboot starts the kernel afresh in the middle of anything |

Hard: running out of memory at any allocation inside fork; shared pages whose
last user frees them; page tables freed while they are walked; stale pointers in
`ptable`; a schedule order that starves someone; a reboot that does not clear
memory. Correct means: each process
has an address space of its own, memory in use is never free, memory not in use
is free, a failed fork leaves no trace, every runnable process runs, and the map
drawn of memory is right.

### pset5: shell

| component | state | operations | interacts with |
|---|---|---|---|
| `helpers.cc` tokens, `parse_line` | the command under construction | `shell_token_iterator`, `parse_line` | fills chain, pipeline and command lists |
| shell and subshells | working directory, the children | `run`, `run_pipelines`, `run_commands`, `make_child`, main loop | children through pipes, wait and process groups |
| children | descriptors, group | child side of `make_child` | each other through pipes |
| terminal | foreground group | `claim_foreground`, Ctrl-C | everybody |

Hard: which commands of `a && b || c` run; every pipe end closed, or a reader
never sees the end of its input; both sides calling `setpgid`; zombies; a Ctrl-C
at any moment.

### pset4: buffered I/O

| component | state | operations | interacts with |
|---|---|---|---|
| `io61.cc` | one slot of the file between `tag`, `pos_tag` and `end_tag`; the descriptor's offset | `readc`, `read`, `writec`, `write`, `flush`, `seek`, `close` | `read`, `write`, `lseek` |
| copying programs | position, block size, what is left | their `main()`; `io61_arguments` | `io61.cc` |
| `pipeexchange61.cc` | two children, two pipes, a time limit | `requester`, `responder`, `main` | four buffered streams |
| `slow-io61.cc` | the descriptor only | the same as `io61.cc` | the baseline that says what `io61.cc` is to do |

Hard: seeks in and out of the slot, mixed sizes, short reads, files that cannot
seek, the wrap-around of strided copies, two buffers around a pipe, the parent's
limit.

### pset1: debugging allocator

| component | state | operations | interacts with |
|---|---|---|---|
| `basealloc.cc` | blocks lent and free | `base_malloc`, `base_free` | reuses memory in any order |
| `m61.cc` | header, footer, list of live blocks, statistics, six counters by bytes and six by calls | `m61_malloc`, `m61_calloc`, `m61_free`, the reports | memory a program may damage |

Hard: headers copied, left over or put back; reuse of freed blocks; double,
interior and wild frees; six counters for any number of sites.

### Left aside

`pset2` (a binary without source), `pset_0` (four exercises of twenty lines, of
which two do not compile), scripts that check output, build files.

## Modules

| module | models | proved about |
|---|---|---|
| `PongAtomic` | what the board promises: `place()` and `move()` as single steps | `PongAtomic_proofs` |
| `PongBoard` | `pongboard.hh`, one step per shared access | `PongBoard_proofs` |
| `PongBoardMC` | a 2x4 board for TLC | |
| `SimPong` | `simpong61.cc` over `PongBoard` | `SimPong_proofs` |
| `SimPongMC` | a 2x3 board for TLC | |
| `KernelMemory` | `kalloc`, `kfree`, `vmiter`, `ptiter`, the memory part of fork and exit, as operators on a memory | `KernelMemory_proofs` |
| `ProcSpace` | what the kernel promises: isolated address spaces | `WeensyOS_proofs` |
| `WeensyOS` | `kernel.cc`: system calls, faults, scheduler | `WeensyOS_proofs` |
| `MemViewer` | `k-memviewer.cc` and `memshow()` over `WeensyOS` | `WeensyOS_proofs` |
| `WeensyOSMC` | instances for TLC | |
| `FileStream` | what `io61` promises: calls of an unbuffered file (`slow-io61.cc`) | `Io61_proofs` |
| `Io61` | `io61.cc`, one system call at a time, and the kernel's files and pipes | `Io61_proofs` |
| `Io61Client` | any number of processes that make any of the calls, and die at any moment | `Io61_proofs` |
| `Cat61` | the eight copying programs and their command lines (`profile61.cc`) | |
| `PipeExchange` | `pipeexchange61.cc` | |
| `Io61MC` | `Cat61`, `PipeExchange` or `Io61Client` over `Io61`, on small files | |
| `ShellText` | `helpers.cc` and `parse_line()`: from text to chains | |
| `Shell61` | `sh61.cc`: processes, pipes, groups, the terminal | |
| `Shell61MC` | command lines for TLC, written from the trees they mean | |
| `M61` | `m61.cc` over `basealloc.cc` | `M61_proofs` |
| `M61MC` | a program that errs, and `hhtest.cc`; instances for TLC | `M61_proofs` |
| `PongClient` | `pong61.cc`: HTTP connection, move threads, main() | `PongClient_proofs` |
| `PongClientMC` | responses for TLC | |

Operators named `Bug...` stand before the definition they vary. They are the
plausible mistakes each property is meant to catch; no specification uses them.
TLC refutes the property when the definition is replaced by its variant (the
`mutants` of `PROJECT.json`).

### PongBoard

The state is the code's: `type` and `ball` of each cell; `placed`, `x`, `y`, `dx`,
`dy` of each ball; `rowOwner`, the owner of each mutex of `mutexes_per_row` (two
more than there are lines, as in the code). `op`, `saw` and `was` say where a
ball's operation stands, what it has read and which direction it started with.
`place()` picks its random cell with `\E`, under that line's mutex. `move()` takes
the three mutexes of its own line and the lines beside it in one step
(`std::scoped_lock` acquires all or waits), then turns at the edges
(`MoveTurn`), reads the next cell (`MoveLook`) and acts (`MoveBlocked`, `MoveFall`,
`MoveAdvance`), each a step of its own, so that other balls' moves interleave.

The layout of sticky cells and holes, and the balls' directions, are arbitrary: `Init` allows
every one with the given numbers of each.

### SimPong

A thread runs `ball_thread()` through the program counter `pc[t]`; its ball is `hold[t]`. Its
steps are those of `PongBoard` (an `INSTANCE` over the same variables) with what the thread does
besides. `main()` creates threads, counts them afterwards (`uncounted` is the moment between)
and replaces those that end. A sleeper on `cv_sticky` wakes by a notification or, if
`SpuriousWakeups`, at any time. `Threads` has one identity more than `NThreads`, so that main()
creating one thread too many would be possible and is seen not to happen.

### KernelMemory, WeensyOS

The kernel runs with interrupts disabled. A trap is therefore one step: the whole
handler, from the running process to the next one's resumption. What interleaves is the
processes' work, at every system call, store and timer tick.

A memory is a record of reference counts and page contents; operators take one
and return the next, in the order of the code, so that an allocation failure
stops fork exactly where it would. A content is junk (0xCC), or page table
entries and data. User virtual pages are `1..NVA`; the ones up to `NLow` lie below
2MB. That split matters: a process needs two level 1 tables, so `try_map` allocates
inside the copying loop of fork. Pages are allocated in address order, as in the
code. The kernel's own mappings need only their tables (made first, one of each level), since the
pages they map are never allocated. The program takes one page and the stack one;
programs allocate the others.

`FreeSpace` is `exit_proc()`: user pages, then tables depth first, then the root.
`pagetable[pid]` keeps its value, as `ptable[pid].pagetable` does. `WalkPanics` is the
check of `vmiter::down()` that a table does not hold 0xCC.

Two constants say how programs use the calls. `Remap`: do they call page_alloc
at addresses in use. `KillStale`: do they kill process IDs whose process is gone.
The code goes wrong with such uses (see Findings), so the passing run stays
without them.

`Reboot` is the soft reboot of `check_keyboard()`, which polls the keyboard at
every entry into the kernel and while it spins. It restores the kernel's data
and starts `kernel()` again; physical memory stays as it is, and the tables and pages of the
new processes are built over what is there (`Started`). What the pages that are then free hold is
forgotten (`Forget`), which nothing can tell since `kalloc` overwrites a page before anybody reads it.

`ProcSpace` is the promise: a step changes the space of one process at most, a fork makes a
copy, and a boot gives the initial processes the space they start with (`Loaded`) and everybody
else none. Its `boot` changes with a boot and with nothing else, and `WeensyOS` carries it as a
history variable, changed by `Reboot` only. No other step of the kernel can therefore pass
for a boot. No guard reads `boot` and the properties treat its two values alike, so the run
explores states that differ in it only once (`VIEW SansBoot`).

`MemViewer` reads the state of `WeensyOS` and changes nothing: `Marks` are the
flags `refresh()` sets while it walks the tables of the processes, `Symbol` what
`symbol_at()` makes of them, `Showing` the process `memshow()` picks.

### Io61, FileStream, Io61Client, Cat61, PipeExchange

A call of the library is the record `call[p]`: the operation, what it has still to
do, what it has got. `ReadStep`, `WriteStep`, `FlushStep`, `SeekStep` and
`CloseStep` are one turn of the loop of the function, with at most one system call,
so that the other side of a pipe can act between two of them. A stream holds
`buf` and the three tags as the code does; `beg`, `pos` and `end` are offsets of
the *library*, `off` is the descriptor's. The constructor leaves the tags
uninitialized; they start as 0 or, as under AddressSanitizer, as one large
negative number (`ASanTag`). Files are regular, `slow` (a pipe from or to
a program outside the model: short reads, no seeking), `bad` (reads fail), or pipes of `PipeSize` bytes.
Of the pipes in `HeldOpen` some other process has both ends open, too, so that neither the end of
the file nor SIGPIPE is seen there.

`FileStream` has the same calls on the bare file, without tags or buffers; a call moves its
bytes in one or more steps. `ok` is FALSE when a call returns -1. The sources disagree on
`io61_read()` when there is nothing to read: by its comment -1 means an error and 0 the end of
the file (io61.cc:74-78), slow-io61.cc returns 0 for both, io61.cc -1 for both, and for a read
of no bytes. `FileStream` therefore has a parameter, `EmptyReadOk`: the kinds of file where 0
may be returned. The promise that `io61.cc` keeps is the one with `EmptyReadOk = {}`, and only
that. `KeepsPromise` maps a buffered file to the kernel's file with the writer's buffer laid
over it, a pipe to what its reader still has, what is in the kernel and what its writer has not
sent yet, and a call that has to flush first to one that goes on.

`Io61Client` is any program: each process makes whatever calls it likes, one
after the other, and may end or be killed between any two steps. What it keeps to is what the programs
of `pset4` keep to. `WellAsked`: a call is for a stream of the caller, still open, in its
direction; a file that cannot seek is only sought at its start, before anything was read.
`InFile`: nothing is read from a position behind the end of the file, where `io61_readc()` is
wrong (see Findings). `WellWired`: only the two ends of a pipe share a file. That the
modelled programs ask for nothing else is a part of `ProgramsRight` (`ProgramsAsk`), so that
`Cat61` and `PipeExchange` are programs of this kind.

`Cat61` is one program counter `loc` for eight programs, with an action per turn
of each loop; the command line goes through `Arguments` and `Refused`
(`io61_arguments`). `PipeExchange` has the requester, the responder and the
parent, which may at any time find the five seconds over. The parent never closes its own
ends of the pipes (`ParentHolds`), so that a child whose peer is gone waits until it is killed.

### ShellText, Shell61

Text is a sequence of characters of the classes the tokenizer tells apart.
`Parse` is one turn of `parse_line()`'s loop per step. A process is a record with
the pipe ends it holds; `MakeChild` forks one command, `ParentSide`, `ClaimFirst`
and `CloseEnds` are the parent's calls after it, `ChildGroup`, `Plumb`, `Redirect`
and `Exec` the child's, each a step, so that parent, children and
a Ctrl-C meet in every order. A background chain is run by a subshell, a process
of its own that runs `run_pipelines()` as the shell does. Four external programs
stand for all: they succeed, fail, read to the end of their input, or write
until a signal ends them.

### M61

A block is a slot of cells: header, payload, footer, where a pointer may also point inside or
between. Reusing freed slots is a choice of `BaseMalloc`. `Free` makes the checks of
`m61_free()` in their order. `CopyInto`, `Overrun` and `PutBack` are what tests 032, 025 and 033
do to memory: a live block's header is copied into another's payload, a byte behind a block is
overwritten, and a block is copied (`Copy`: header, payload, footer, and the header of the block
behind it), then written back later with all the links that were in it. (test033 also copies the
end of the block in front, which holds no header.) `Charge` and `Count` are the counters of
heavy hitters; printing the report destroys them, as in the code (`PrintLargest` is a turn of
its loop, the same for bytes and for calls).

`M61MC` keeps the history beside the code's state: `live`, the blocks in the order they were
allocated; `past`, every block there ever was; `wild`, the slots whose end the program
overwrote; `made` and `refused`, what each site got and what was refused. `saved` is the
program's copy of a block (`Save`), `restored` says that it was put back (`Restore`, after which
the program only frees), and `current` that since the copy was made nothing was allocated and
nothing freed but the block itself, as in test033. The properties compare the code's state with
this history.

### PongClient

Thread 0 is main() in the reset exchange, thread *k* the thread of the *k*-th
move. A response is a sequence of line texts, CR, LF and numbers; `Read` takes any
piece of what has been sent. `ReceiveHeaders` and `ReceiveBody` are the two loops
over the parser's state. `Poll` is main() finding `move_done`. The board is
`pongboard.hh` for the one ball that pong61 has (`Move`).

## What is checked

### Bounds

| run | instance | distinct states | question |
|---|---|---|---|
| `pong_board` | 2x4, 2 balls, 1 sticky, 1 hole | 390 000 | are the row mutexes enough? |
| `sim_pong` | 2x3, 2 threads + 1 identity, 2 sticky, 1 hole | 419 000 | are balls and threads conserved, and do they sleep and wake properly? |
| `sim_pong_live` | 2x3, 2 threads, 1 sticky, 1 hole, no spurious wake-ups | 266 000 | is the reserve served, do notifications wake? |
| `weensyos` | 20 pages, address spaces of 3 pages, 3 processes, page values 0 and 1 | 10 600 | memory, isolation, scheduling, the memory map |
| `io61` | files of up to 5 bytes, a slot of 2, pipes of 4, blocks up to 3, strides up to 4; or any program | 320 000 | is the library a file, are the programs right, do they end? |
| `shell` | 5 processes; about 5000 lines parsed, a dozen inputs run | 154 000 | which commands run, with which ends of pipes and terminal? |
| `m61` | 3 slots of 5 cells, 4 sites, 2 counters, 4 calls and misdeeds, or 5 calls of hhtest | 631 000 | do lists and counts agree, is every free judged right? |
| `pong_client` | 4 moves, 4 statuses, responses cut off anywhere | 68 000 | are responses understood, are moves asked for in order? |

`sim_pong` uses the symmetry of balls and threads, `sim_pong_live` that of a board
and its mirror images (`MirrorFairSpec`).

Two balls are enough for every collision the code distinguishes, as `move()`
involves two balls at most; four lines let moves be adjacent, overlapping in one
line and disjoint, and two columns make every cell an edge, where the turning is.
In the kernel, a process needs seven pages and its fork six, so that 20 pages hold
three processes, and with pages that programs allocate fork runs out at its later allocations
(at the earliest ones it does not in this instance; the theorems cover those); three
processes let a shared page outlive the parent and a sibling. A slot of two bytes
is crossed twice within a file of five; the batches of the pipe exchange lie on
both sides of what the pipes hold. Five processes are the shell, a subshell, and three
commands: a pipeline beside a background chain. Three slots let blocks have a
neighbour on both sides; two counters for four sites make every counter change
hands. A response is cut off at every place, and four moves pass the flag four
times and turn the ball on the smallest boards.

Bounds that stand in guards are constants with a comment `bound:`: the calls
of `M61MC` (`HeapCalls`, `HhCalls`), the moves of `PongClient` (`MaxMoves`), the
processes of the shell (`Pids`, enough for every input that is run), and for any program
of `Io61MC` the bytes a file keeps (`MaxKept`), those a pipe passes on (`MaxPiped`) and how far a
tag runs (`MaxTag`). Lines that
are only parsed by `shell` are not run (`Going`). The other models are finite once
the constants are.

Deadlock is checked for `pong_board`, `sim_pong` and `sim_pong_live`. It is not
checked where the system may really stop: the kernel spins when no process is
runnable, all ball threads may be asleep on sticky cells, programs end, and an
exchange whose batch does not fit the pipes waits for its parent's limit.
For the ball threads `StopsOnlyAsleep` says precisely when stopping is legitimate; for the
programs the liveness properties do.

### Properties

Pong board. `CellsMatchBalls`: cells and balls agree whatever moves are under
way. `DecisionStable`: what a move has read of its next cell is still true when it
acts. `RowsHeldByMoves`: mutexes and moves in progress correspond. `NextOnBoard`:
after turning, the next cell is on the board. `NoBallOnHole`: what the signal
handler asserts without any lock. `StillOnlyOnSticky`: a ball without direction
lies on a sticky cell. `ChangesOnlyUnderLock`: a cell, and the position and direction of a
placed ball that lies in it, change only under its line's mutex; of a ball being placed, or entering from
another line, it is the cell that is covered. `ImplementsAtomic`: all of it together is
indistinguishable from atomic operations, whose effect takes place when the
cells change.

Simulator. `BallsPartitioned`, `ThreadsCounted`: no ball is lost or held twice,
nrunning is right up to the thread being counted. `MovesOnlyFreeBalls`: a thread that leaves the
sticky loop has a free ball. `StopsOnlyAsleep`, `KnocksNotify`, `NotifyWakes`: the sleeping
protocol. `ReserveServed`: a ball in the reserve plays again.

Kernel, for programs that neither allocate at a used address nor kill a process that is gone.
`RefcountsExact`: counts equal the references that page tables hold. `PrivatePages`: writable
pages and tables are never shared. `WholeTables`: tables of a process are complete and
initialized. `NoPanic`. `ForkAllOrNothing`: a fork that fails changes no count. `KeepsBusy`,
`RoundRobin`: scheduling. `ImplementsProcSpace`: isolation, as a refinement. `ViewerRight`: the
map drawn from the page tables alone shows each page as the reference counts have it, and never
an error. All of them with a reboot at any entry.

Buffered I/O. `BufferCoherent`: the buffer holds the bytes of the file that its
tags stand for. `KeepsPromise`: the library is an unbuffered file whose
reads of nothing return -1. `ProgramsRight`: every program does what its Usage comment says; the exchange loses
nothing unless the parent kills. `ProgramsEnd`: programs end, and the exchange
does as far as its batches fit the pipes and buffers (`Fits`). The repository's own table of batches has one,
{20, 10000, 10000}, that never fits: of the exchange as it is shipped the property says nothing, only
of its protocol with smaller batches.

Shell. `ParseRight`: a line is parsed to the tree it was written from. `ChainsRight`: the
pipelines that `&&` and `||` ask for run, in order, with the right status. `PipeEndsRight`: a
program has its neighbours' ends and no other. `TerminalRight`: the terminal is the shell's when
it prompts, the first command's of a foreground pipeline while the others are started, and never
a background command's. (The commands of a pipeline do not share a group; each gets its own,
sh61.cc:188.) `EverythingEnds`: no command waits for a forgotten end, no zombie stays.

Allocator. `LedgerAgrees`: until an old header is put back, statistics (failures and the heap's
bounds included), list and lent blocks agree with the calls. `FreesJudged`: until then, each
free is judged as the history of calls demands; afterwards the block put back is refused, if the
copy was current. `HeavyHittersFound`: no site with more than its share of bytes or of calls
goes unreported.

Client. `ResponseRight`: what the parser makes of a response depends on the bytes
sent, not on the pieces they come in; of headers that are cut off it may have the status or
none (`pong_client_cutoff` shows which). `MovesInOrder`: the server is asked for the
ball's path, one move at a time. `GameGoesOn`: no move is waited for in vain.

### Fairness

`SimPong`: weak fairness of main() and of each thread, i.e. the operating system runs
every thread that can go on. No fairness of the random choices, of mutex
acquisition order, or of wake-ups. `ReserveServed` holds under this in an instance
with one sticky cell. `WeensyOS`: weak fairness of `Reschedule`, i.e. the timer
interrupts whatever runs. `Io61MC`: every process that can run is scheduled, and
the parent's wait; the five seconds need never pass (`TimePasses` is not
fair). `Shell61MC`: every process is scheduled; the Ctrl-C need not come.
`PongClient`: main() and each thread are scheduled; a server that neither sends
nor closes is not among the responses. `m61` is sequential and
has no liveness.

### Findings

Four runs show where the code differs from what it, or its documentation, says.

- `sim_pong_lost_wakeup`: `notify_all` on `cv_sticky` is sent without `mutex_sticky`. A
  collision between a thread's check and its wait is missed: the thread sleeps with a free ball,
  possibly for ever.
- `weensyos_kill_stale`: killing a process that has ended walks its freed page table and panics.
- `m61_put_back`: three blocks A, B and C are allocated, B in front of A in memory; B is copied,
  with A's header behind it; C is freed, then B; the copy is put back. A's header leads to B
  again, and so does the stale one of C, B's successor in the list: `m61_free(B)` takes B for
  live and frees it twice. What test033 does itself is caught.
- `pong_client_cutoff`: when a response ends within its headers, the status already read is
  kept, where the comment on `receive_response_headers()` promises -1.

Reading the code for the models also shows, without a run of its own:

- page_alloc at an address in use loses the old page, which u-lib.hh:63 says is freed
  (kernel.cc:402): its count never falls to 0 again. With `Remap = TRUE` TLC finds
  `RefcountsExact` violated at the first such call.
- `sys_kill()` of u-lib.hh issues SYSCALL_FORK and SYSCALL_PANIC; the model's `Kill` is the
  kernel's SYSCALL_KILL. `process_setup()` uses what `kalloc` returns before any check
  (kernel.cc:164).
- `m61_calloc()` checks `nmemb` but not the product, which wraps: the block is too small for the
  array that m61.cc:239 and m61.hh:19 promise. What `m61_calloc()` refuses is counted in `nfail`
  and not in `fail_size` (m61.hh:33). `m61_malloc()` does not check what `base_malloc()` returns
  (m61.cc:70); the heavy-hitter report destroys the counters it prints.
- `io61_read()` returns -1 at the end of a file, where its comment and slow-io61.cc have 0
  (io61.cc:105-108); no program of `pset4` tells them apart. `io61_readc()` compares with `==`
  where `io61_read()` has `>=`: after a seek past the end of the file it returns stale bytes.
  `io61_flush()` drops what a short write leaves.
- The parent of the pipe exchange keeps both pipes open: a child whose peer was killed does not
  learn of it.
- In the shell, only the parent gives the terminal away: a command that reads it before is
  stopped, and waited for without WUNTRACED.
- main() of pong61 constructs its ball without storing it in a cell, so that the assertion of
  pongboard.hh:141 fails at the first move; the GNUmakefile does not define NDEBUG. The runs and
  theorems are about the build without assertions (`Asserts = FALSE`).
- On a board one cell wide, which pong61 does not refuse, its loop around `move()` spins; a move
  whose response never comes counts as success.
- The single-threaded mode of simpong61 moves balls that were never placed.

## What is proved

Eight modules hold theorems; each is about every value of the constants that the
named assumptions of the models admit.

### The board

`PongBoard_proofs` proves, for boards of every size, any set of balls and every
layout, all the safety properties that `pong_board` checks, and `PongAtomic_proofs` the
refinement. The assumptions are those of `PongBoard`: a board of at least two columns and two lines
(what main() enforces by its usage check, or the turning does not work), and that `NoBall` is no ball.

The invariants are not inductive one by one. `CellsMatchBalls` survives an advance only
if the next cell is still empty (`DecisionStable`); that needs the mutex of
its line (`RowsHeldByMoves`), which belongs to the ball because the cell lies on
one of its three lines (`NextOnBoard` and `CellsMatchBalls` again); and a placement
cannot disturb it because it happens under one of these mutexes. `IInv` is the
conjunction of these with the types and `OpsPlaced` (a moved ball is placed). One lemma
per action shows that the action keeps it: two balls' rows are disjoint while both move
(`RowsDisjoint`), and everything a move touches is in its rows (`NextInRows`).
`Invariance` combines them; the other theorems follow, two with a
strengthening of their own (`NoBallOnHole` needs what the move read of the cell's type,
`StillOnlyOnSticky` that a move acts only in motion).

`PongAtomic_proofs` adds one conjunct, `DirectionsKept`: during a move the direction is the
one the move started from (`was`), turned round at the edges. It holds because no
other thread can change it then: a collision changes the direction of the ball hit, and that
ball is idle, as it lies on a line that the hitting move has locked (`HitIsIdle`,
`BusyUndisturbed`). `PlaceTry` then maps to `Place`, `MoveBlocked`, `MoveFall` and `MoveAdvance`
map to the three cases of `Move`, and every other step to a stutter (`NextMaps`); `Atomicity` is
the refinement of the specifications. `PongAtomic` states safety only: that
moves happen is the simulator's matter.

### The simulator

`SimPong_proofs` is about any number of threads and balls. Its invariant joins the
board's, taken from `PongBoard_proofs` by an INSTANCE, with what the threads add: `Owned`
(the reserve names no ball twice, the balls threads hold differ from one another and from those in
the reserve), `Stages` (how far the operation of a ball is whose thread is at a given label, and
that it is placed, and not stuck, where the code relies on it) and `Counted` (main()
starts `NThreads` threads before it replaces any). The hard step is `Stages`
for the ball of a thread that is *not* moving, when another thread's ball hits it:
a collision gives the ball a direction it can move in, never none (`OthersKept`), so that a ball
that `check_cell_stick()` found free cannot be stuck when its thread moves it.

`FollowsBoard` shows that the program uses the board as `PongBoard` says (each ball's operations
one after another), so the theorems about the board hold of the
program (`AssertionsHold`). `KnockersNotify` is an action property. The assumption is that
the sets of balls and threads are finite and the arguments what main() accepts.

### The kernel's memory

`KernelMemory_proofs` is about the operators on memories. `Sound` says of a memory, a set
of processes with their root tables, and references held elsewhere (the viewer's page):

- every reference count is the number of references (`CountsRight`);
- every table has one reference, and so has every page that is mapped writable
  (`TablesOwn`, `WritableOwn`);
- a page that several processes map is at the same virtual address in all of
  them (`SharedAlike`);
- a page referred to from elsewhere is in no address space (`OthersOwn`).

`SharedAlike` is no property of the code's interface but the strengthening the others need: a fork
adds a reference to a shared page in a `uint8_t`. Since each process maps the page at most once, the
count is at most the number of processes, at most 254 (`ProcAssumption`), and does not wrap
(`SharedCount`). Without it the count of a page mapped 256 times would be 0
and the page would be given out again.

Each operator has a lemma that says what it keeps, does and leaves alone: `SoundGrow` for
linking a new entry, `SoundClaim` for an allocation, `TryMapOwn` and
`TryMapShared` for `try_map` with a failure at any of its allocations, `FreeSpaceSound` for
`exit_proc()`, `CopyPagesSound` for fork's loop, up to `CopySpaceSound`. An address space is a tree of *places*
(the root, each table, each virtual page) and `Slot` the page at a place; statements
about `Lookup` and `Level1` become statements about one function of the tree. `RoomLeft`
counts pages: `process_setup()` uses what `kalloc` returns before it
checks, so that it is right only while seven pages are free
(`SetupSpaceSound`), which `ProcAssumption` grants the initial processes.

Loops are folds. What holds after each turn is proved by taking the least
number of turns after which it does not (`LeastNat`, `LoopInduction`), as the library's induction
theorems are not available to the provers.

### The kernel

`WeensyOS_proofs` puts `Sound` together with the process table: `SpacesOK` (the memory is sound
for the processes that are not free, each with all its tables), `ProcsOK` and `KeepsBusy` (the
scheduler), and that the kernel has not panicked make up `IInv`, and one lemma per handler shows
that it is kept, the reboot included, which starts from any state of memory. The theorems
`CountsExact`, `PagesPrivate`, `TablesWhole`, `NeverPanics` and `ForkLeavesNoTrace` state what
the run `weensyos` checks. They hold under `~Remap` and `~KillStale`, as the run does; the code
goes wrong otherwise (see Findings). `KeepsRunning` needs neither.

`Isolation` is the refinement of `ProcSpace`. For each action it is shown what becomes of each
process's space as a whole (`WriteSeen`, `AllocSeen`, `ForkSeen`, `ExitSeen`, at the level of
memories): one space changes as `ProcSpace` says and every other stays. A boot, whatever memory
held, gives the initial processes the same space as the first one did. A store of one process is
invisible to the others because a writable page has one reference; a fork's copy looks like its
original although some pages are the original's.

`MapTrue` derives `ViewerRight` from the same invariant, and lemmas about the viewer's marks. A
page is drawn as one process's when its count is 1, since its one reference is that process's
(`SoleReference`), and as shared when it is more: its references are then at one virtual address
(`SharedAlike`), so that they are of two processes; no table is among them (`TablesOwn`).

### Buffered I/O

`Io61_proofs` is about `Io61Client`: any number of programs and streams, files of any
contents, a buffer and pipes of any size. The assumptions are `SizesAssumption` (both sizes
are positive), `BytesAssumption`, `NamesAssumption` (there is a stream),
`CallsAssumption` (positions and sizes are natural numbers) and `InputsAssumption` (among other
things, what a file holds at the start is no longer than `-ASanTag`, so that a tag
nobody set is not taken for an offset of the file).

`Coherent` is `BufferCoherent`. It is not inductive: that the bytes in the buffer are the file's
after a fill depends on where `end` and the descriptor's offset stand *before* it, with the
buffer empty and the property silent. The invariant `IInv` says, besides the types
and `Wired` (a file that is no pipe has one stream):

- `StreamRight` of each stream. `Tags`: the tags are in order, and what lies
  between them is not junk. `WriterRight`: a stream for writing is closed only with an empty
  buffer, and only a pipe takes part of one. `ReaderRight`: `end` is the descriptor's offset, or is off by
  the tag it was born with until the first seek; a position behind the buffer is
  one behind the file; and `Mirrors`, the buffer against the file. A pipe never holds more than
  `PipeSize`.
- `CallRight` of each call: what it is doing to which kind of stream, above all that a
  seek or close of a stream for writing finds the buffer flushed, and that a read wants more bytes than
  it has.
- `SentRight`: only a process in `io61_flush()`, or one killed there, leaves a buffer
  sent in part.

A step of the library changes one stream, its file's bytes and one call; `MoveSound` says once what such a
step has to keep, and each operation has a lemma that says what it does (`ReadIs`, `WriteIs`,
`FlushIs`, `SeekIs`) and one that it keeps `IInv`.

`Faithful` is the refinement `KeepsPromise`: every step is one of `FileStream` (with
`EmptyReadOk = {}`) or shows the program nothing. It speaks of calls that keep to `WellAsked`
and `InFile`. `SeenAs` is the file as the stream's program sees it, `SeenMove` what a step of
the library does to it, so that each operation comes down to an equation between sequences: a
fill takes from the pipe what it puts in the buffer (`FetchSeen`), a read takes the first bytes
of what is ahead (`TakeFirst`, `PartSeen`), a write lays bytes behind those already laid
(`LaidTwice`, `AppendSeen`), and a flush stores first what had been laid over the file from the
first byte, which changes nothing (`OutIsIn`, `SentSeen`). Two kinds of step show nothing: going
off to flush, and handing a buffer, or a part of it, to the kernel on the way. A read that finds
a pipe empty is at its end only if nobody can write any more (`EndSeen`): its writer has closed
the stream, and so left nothing behind (`WriterRight`), or died with what it had.

### The client

`PongClient_proofs` is about any number of moves and any responses. `ClientAssumption` types them;
`AnswersAssumption` says that each is the start of a well-formed response, cut off anywhere, and
that the server hangs up unless the client can tell that it has everything.

`MovesInOrderHolds` rests on two things that hold together in every state (`IInv`), for the
number *m* of threads started so far. `Stage(m)`: those before the *m*-th have ended, the flag is
set just when main() polls and the *m*-th has ended too, and all positions have been asked for
but perhaps its own. `Path(m)`: the ball stands where its path is after *m* moves, and heads for where the path
goes next. The second half is the strengthening: the direction is not in the property, and without it a ball
in the middle could go either way. `WaveStep` is the arithmetic of the path, a remainder
by twice the width less two, for every width. The board of the proof has any size, one cell wide
included, where the ball never moves, main() spins in its loop and asks for no second position; the
run has no such board.

`ResponseRightHolds` follows a response through its thread (`Exchange`). While it is being
received, the connection has consumed the first *q* symbols of what was sent and holds the
others up to *a* in its buffer, and the wire has the rest (`Holds`); what it knows by then is
what stands in those *q* symbols (`Knows`). A piece of any length moves *a* (`PieceArrives`). A
line is consumed only when its end is in the buffer, and the first CR LF found there is the end
of the next line of the response and no later one (`NextLine`), also when a piece ended between
CR and LF. A connection that ends in its headers is broken (`CutOff`), with the status if the
first line had come, and `check_response_body()` goes on reading just as long as more must come
(`BodyJudged`).

### The allocator

`M61_proofs` is about `M61` under the two programs of `M61MC`: any number of slots and cells in each,
any finite sets of sites and counters, and any number of calls, frees of any pointer, and misdeeds.
`HeapAssumption` types the constants; every slot's number, as an address, is below `Wrap`.
`ProgramAssumption` says that the sizes asked for fit a slot, that no product of `m61_calloc()` wraps, and that
the calls are too few for a sum to wrap, which in 64 bits they are.

The theorems rest on the invariant `Sound` (`Inductive`), which speaks of two times. Until an
old header is put back it says `IInv`, `RefusedRight` (refused calls are counted) and
`CopyRight`; from then on, when memory may be inconsistent, only what is still true
(`RestoredRight`). `IInv` has four parts.

- `Typed`: the types.
- `HeapInv`: the memory against the history. The live blocks are a ring of links through first_node
  (`Threaded`), no two in one slot (`Distinct`), with headers that say what was asked for and ends that are
  damaged just when the program did it (`HeadersRight`). What was a block and is none any more
  has a header still, tagged as freed, and its `prev` leads to a header whose `next` does not lead
  back (`StaleRight`). The base allocator's books match the list (`LentRight`), and the heap's
  bounds are those of all blocks there ever were (`LimitsRight`).
- `SumsRight`: counts and sums. What the remaining calls can ask for does not reach `Wrap`, so
  that the additions modulo `Wrap` are additions.
- `HittersRight`: the counters, or after the report what it printed.

`LinkedIs` and `FreedIs` say once what the three assignments of `m61_malloc()` and `m61_free()`
do to the memory as a whole, also when the blocks they touch are one and the same (first_node
being the only neighbour on both sides). Each part of `HeapInv` has then a lemma for an
allocation and one for a free (`AllocThreaded`, `FreeThreaded`, ...), and `OverrunKeeps` and
`CopyIntoKeeps` show that the wrong writes of tests 025 and 032 keep all of it. The hard one is
`FreesLive`: a call that gets past every check frees a live block of the list, and frees it
through its own pointer.

`LedgerAgreesHolds` adds the walk of the leak report, backwards from the last block (`WalkBackIs`). Sums are
`SumFunction` of the community modules; `SumIs` brings its recursion down to one equation, and
`SumChanged` is what the proofs use: one summand changes and the sum changes by as much.

`FreesJudgedHolds` is an action property. `Due` says in terms of the history what a pointer
deserves; `FreeJudged` goes through the cases of where the pointer leads: a live block's start,
its inside, with a copied header before it or not, the start of a former block, or memory never
used.

What test033 does breaks `IInv`, as it should: the put-back links lead into the list from
outside. That `m61_free()` still refuses the block is `CopyRight` before and `Refutable` after.
While the copy is current its header is the block's own, and once the block is freed what were
its neighbours are linked to each other (`CopyMade`, `CopyFreed`). The copy put back, too,
brings at most one neighbour's header with it, the one behind the block in memory; as a block
cannot have that one as both its neighbours, at least one of the two does not lead back to it
(`PutBackIs`, `PutBackRefused`), and a block that is refused stays refused (`RestoredFree`). The
run `m61_put_back` shows that this is false of a copy that is not current.

`HeavyHittersFoundHolds` is the bound of Misra and Gries for *N* counters: what a site allocated
exceeds what it is shown by at most 1/(*N*+1) of what the counters do not hold of the total. It
is kept when a site's own counter or a free one is charged (`OneCounts`), and when all counters
pay (`AllPay`): a site then falls short by *d* more, and *N*+1 times *d* is just what the
counters lose and the call brings (`PayArith`). The report's loop prints a largest counter each
turn and overwrites it with the last: every site's counter is printed or still to come, and what
is to come is no larger than what is printed (`PrintStep`). The theorem is for any `Counters`;
the code has six.

### Only model-checked

Liveness everywhere, and `StopsOnlyAsleep`, whose formula contains ENABLED, are out of the
provers' reach. So are statements about what a recursive definition computes for every
input: `ParseRight` (the parser against the trees of its lines), and with it the other properties
of the shell (`ChainsRight`, `PipeEndsRight`, `TerminalRight`), whose model runs on the parser's
output and so reaches its RECURSIVE operators. So is `ProgramsRight`: what the copying loops of
`Cat61` make of a whole file is an induction over its bytes.

## Plan

What is left is the shell: with the parser written as a recursive function, the part of
`PipeEndsRight` about the shell itself, which holds no end of a pipe between pipelines, and
`TerminalRight` are invariants over processes alone and could be proved.

## Not modelled, and why

Everywhere: timing and delays (any interleaving is allowed instead), printing,
colours and layout.

- `simpong61.cc`: the counters `nstarted` and `ncollisions_` (only printed), the
  single-threaded mode, the handlers of SIGUSR1 and SIGUSR2 (they print; the
  assertion in one of them is `NoBallOnHole`).
- `pong61.cc`: options, address lookup, interrupted system calls (tried again), the size of
  the response buffer.
- The kernel: registers and return values, getpid, SYSCALL_PANIC, the console, powering off, running out
  of memory while booting, and the text of the user programs, for which any
  sequence of system calls stands. Device set-up, trap entry and `lib.cc` are
  straight-line code below the model.
- The shell: the prompt, failing `fork` and `pipe`, commands that read the terminal.
- `io61`: a full disk, interrupted calls, `open` failing; `stdio-io61.cc` (the C library);
  the timing of `profile61.cc`.
- `m61`: `base_allocator_disable()`, `malloc(3)` failing. Of the tests only `hhtest`
  and the misdeeds of 025, 032 and 033; the others are single runs with a printed
  result.
- `pset2`, `pset_0`, scripts and build files: see the inventory.
