------------------------------- MODULE WeensyOS -------------------------------
(***************************************************************************)
(* The WeensyOS kernel of src/pset3/kernel.cc: processes, their system     *)
(* calls, faults, and the round-robin scheduler.  Interrupts are disabled  *)
(* while the kernel runs, so each entry into it is one step, from the trap *)
(* of the running process to the next process's resumption; between two    *)
(* entries the running process writes to its memory.                       *)
(*                                                                         *)
(* Left out: getpid and invalid page_alloc arguments, which change nothing,*)
(* registers and return values, the console, switching the machine off.    *)
(* The page that the memory viewer allocates at the first trap and keeps   *)
(* is allocated in Init; MemViewer says what it draws.                     *)
(***************************************************************************)
EXTENDS KernelMemory

CONSTANTS NProc,      \* NPROC: process IDs are 0..NProc-1, 0 is never used
          NInitial,   \* how many processes kernel() starts
          Values,     \* what a data page can hold
          Remap,      \* do programs allocate at addresses that are in use?
          KillStale   \* do programs kill process IDs whose process is gone?

(* process_setup() takes 7 pages and the memory viewer one; kernel() does   *)
(* not survive the lack of them.  A reference count, a uint8_t, must hold a *)
(* page that all processes share; NPROC is 16.                              *)
ASSUME ProcAssumption == /\ NProc \in Nat /\ NProc <= 255 /\ NInitial \in 1..NProc-1
                         /\ NPages > 7 * NInitial
                         /\ 0 \in Values
                         /\ {Remap, KillStale} \subseteq BOOLEAN

Pids == 1..NProc-1

VARIABLES refcount,   \* pages[]: page |-> refcount
          mem,        \* page |-> content
          pagetable,  \* pid |-> root page, or nullptr
          state,      \* pid |-> state, for 0..NProc-1
          current,    \* the process that runs
          viewer,     \* the memory viewer's page v_
          halted,     \* the kernel panicked
          boot        \* history, for ProcSpace: is the number of reboots odd?
vars == <<refcount, mem, pagetable, state, current, viewer, halted, boot>>

Memory == [rc |-> refcount, mem |-> mem]
SetMemory(m) == refcount' = m.rc /\ mem' = m.mem

(* kernel(): process_setup() for the first NInitial processes, when physical *)
(* memory holds content.                                                     *)
Boot(s, pid) ==
    LET new == SetupSpace(s.m) IN [m |-> new.m, pt |-> [s.pt EXCEPT ![pid] = new.root]]
Booted(content) ==
    LET after[pid \in 0..NInitial] ==
            IF pid = 0 THEN [m  |-> [rc |-> [p \in Phys |-> 0], mem |-> content],
                             pt |-> [q \in Pids |-> NoPage]]
            ELSE Boot(after[pid-1], pid)
    IN  after[NInitial]

(* What free pages hold is forgotten then: kalloc() overwrites it before     *)
(* anybody reads it, as it did with the pages of the first processes.        *)
Forget(m) == [p \in Phys |-> IF m.rc[p] = 0 THEN Zero ELSE m.mem[p]]

Initial == 1..NInitial

(* The memory viewer's page is the first one free after that. *)
WithViewer(first, pt) ==
    LET m == Zeroed(first.m, first.p) IN
    [refcount |-> m.rc, mem |-> Forget(m), viewer |-> first.p, pagetable |-> pt,
     state |-> [pid \in 0..NProc-1 |-> IF pid \in Initial THEN "runnable" ELSE "free"]]
Started(content) ==
    LET booted == Booted(content) IN WithViewer(Kalloc(booted.m), booted.pt)

Init ==
    \E s \in {Started([p \in Phys |-> Zero])} :
    /\ refcount = s.refcount /\ mem = s.mem /\ viewer = s.viewer
    /\ pagetable = s.pagetable /\ state = s.state
    /\ current = 1
    /\ halted = FALSE
    /\ boot = 0

(* check_keyboard(), at every entry and as long as the kernel spins or has  *)
(* panicked: a key starts the kernel afresh.  Its data are as in the        *)
(* beginning; physical memory is not cleared, the new processes' tables and *)
(* pages are built over what the old ones left.                             *)
Reboot ==
    \E s \in {Started(mem)} :
    /\ refcount' = s.refcount /\ mem' = s.mem /\ viewer' = s.viewer
    /\ pagetable' = s.pagetable /\ state' = s.state
    /\ current' = 1
    /\ halted' = FALSE
    /\ boot' = 1 - boot

-------------------------------------------------------------------------------
(* schedule(): the next runnable process after the current one, in a circle. *)
(* If there is none the kernel spins and nothing runs any more.              *)
BugTurnFirst(i) == i % NProc
BugTurnSkip(i) == (current + 2 * i) % NProc
Turn(i) == (current + i) % NProc

Scheduled(st) ==
    LET turns == {i \in 1..NProc : st[Turn(i)] = "runnable"} IN
    IF turns = {} THEN current ELSE Turn(Min(turns))

Schedule == current' = Scheduled(state')

Running == ~halted /\ state[current] = "runnable"

(* The running process writes to its own memory; no kernel code runs. *)
Write(va, v) ==
    /\ Running
    /\ Writable(Memory, pagetable[current], va)
    /\ mem' = [mem EXCEPT ![Lookup(Memory, pagetable[current], va)].data = v]
    /\ UNCHANGED <<refcount, pagetable, state, current, viewer, halted, boot>>

(* Timer interrupt, or sys_yield(). *)
Reschedule ==
    /\ Running
    /\ UNCHANGED <<refcount, mem, pagetable, state, viewer, halted, boot>>
    /\ Schedule

(* The running process's page fault. *)
PageFault ==
    /\ Running
    /\ state' = [state EXCEPT ![current] = "broken"]
    /\ UNCHANGED <<refcount, mem, pagetable, viewer, halted, boot>>
    /\ Schedule

(* syscall_page_alloc().  map() panics if a table is missing and cannot be   *)
(* made.  A page that was mapped at va before is leaked.                     *)
PageAlloc(va) ==
    LET new == Kalloc(Memory)
        mapped == TryMap(Zeroed(new.m, new.p), pagetable[current], va, new.p, TRUE)
    IN  /\ Running
        /\ Remap \/ Lookup(Memory, pagetable[current], va) = NoPage
        /\ new.p # NoPage
        /\ SetMemory(mapped.m)
        /\ halted' = ~mapped.ok
        /\ UNCHANGED <<pagetable, state, current, viewer, boot>>

(* sys_fork(): the lowest free process ID gets a copy of the running one.   *)
(* When memory runs out the child's address space is freed as far as it was  *)
(* built, but its pagetable pointer stays.                                   *)
FreePids == {pid \in Pids : state[pid] = "free"}
ForkInto(pid) ==
    LET copy == CopySpace(Memory, pagetable[current]) IN
    /\ SetMemory(copy.m)
    /\ pagetable' = [pagetable EXCEPT ![pid] = copy.root]
    /\ state' = [state EXCEPT ![pid] = IF copy.ok THEN "runnable" ELSE "free"]

Fork ==
    /\ Running
    /\ FreePids # {}
    /\ ForkInto(Min(FreePids))
    /\ UNCHANGED <<current, viewer, halted, boot>>

(* exit_proc(pid): note that pagetable[pid] keeps pointing to the freed root. *)
ExitProc(pid) ==
    IF pid \notin Pids
    THEN UNCHANGED <<refcount, mem, state, halted>>
    ELSE LET root == pagetable[pid] IN
         IF WalkPanics(Memory, root)
         THEN halted' = TRUE /\ UNCHANGED <<refcount, mem, state>>
         ELSE /\ SetMemory(FreeSpace(Memory, root))
              /\ state' = [state EXCEPT ![pid] = "free"]
              /\ UNCHANGED halted

Exit ==
    /\ Running
    /\ ExitProc(current)
    /\ UNCHANGED <<pagetable, viewer, boot>>
    /\ Schedule

(* SYSCALL_KILL, for any number that a program passes. *)
Kill(pid) ==
    /\ Running
    /\ pid \in Pids => KillStale \/ state[pid] # "free" \/ pagetable[pid] = NoPage
    /\ ExitProc(pid)
    /\ UNCHANGED <<pagetable, viewer, boot>>
    /\ Schedule

Next ==
    \/ \E va \in VA, v \in Values : Write(va, v)
    \/ Reschedule
    \/ PageFault
    \/ \E va \in VA : PageAlloc(va)
    \/ Fork
    \/ Exit
    \/ \E pid \in 0..NProc : Kill(pid)
    \/ Reboot

Spec == Init /\ [][Next]_vars

(* The timer interrupts whatever runs. *)
FairSpec == Spec /\ WF_vars(Reschedule)

-------------------------------------------------------------------------------
Live == {pid \in Pids : state[pid] # "free"}

(* The page tables of process pid, and where page pg is used. *)
Spine(pid) == Append(TablePages(Memory, pagetable[pid]), pagetable[pid])
UserUses(pg)  == {u \in Live \X VA : Lookup(Memory, pagetable[u[1]], u[2]) = pg}
TableUses(pg) == {u \in Live \X (1..5) : Spine(u[1])[u[2]] = pg}
Uses(pg) == Cardinality(UserUses(pg)) + Cardinality(TableUses(pg))
                + (IF viewer = pg THEN 1 ELSE 0)

(* The type invariant. *)
TypeOK ==
    /\ refcount \in [Phys -> 0..255]
    /\ \A p \in Phys : /\ mem[p].junk \in BOOLEAN /\ mem[p].data \in Values
                        /\ DOMAIN mem[p].e \subseteq 0..NVA
                        /\ \A i \in DOMAIN mem[p].e :
                              mem[p].e[i] \in [pa : Phys, w : BOOLEAN]
    /\ pagetable \in [Pids -> Phys \cup {NoPage}]
    /\ state \in [0..NProc-1 -> {"free", "runnable", "broken"}]
    /\ state[0] = "free"     \* process 0 is never used
    /\ current \in Pids /\ viewer \in Phys /\ halted \in BOOLEAN

(* Every page counts the references there are to it, no fewer, so that       *)
(* kfree() never gives kalloc() a page in use, and no more, so that none      *)
(* leaks, whatever was shared, exited, killed or half built.                  *)
RefcountsExact == \A pg \in Phys : refcount[pg] = Uses(pg)

(* Writable memory of a process, and its page tables, belong to it alone.    *)
(* With RefcountsExact no other process has them mapped.  (k-memviewer.cc    *)
(* reports "kernel allocated page mapped for user".)                         *)
PrivatePages ==
    \A pid \in Live :
        /\ \A va \in VA : Writable(Memory, pagetable[pid], va) =>
                refcount[Lookup(Memory, pagetable[pid], va)] = 1
        /\ \A i \in 1..5 : Spine(pid)[i] # NoPage => refcount[Spine(pid)[i]] = 1

(* The page tables of a process that is not gone are whole, and initialized: *)
(* vmiter never panics in it, and page_alloc's map() finds its table.        *)
WholeTables ==
    \A pid \in Live : \A i \in 1..5 :
        Spine(pid)[i] # NoPage /\ ~mem[Spine(pid)[i]].junk

(* No legal sequence of system calls makes the kernel panic. *)
NoPanic == ~halted

(* fork either gives a new process or leaves no trace in memory: a failure   *)
(* half way gives back every page, and every share, it took.                 *)
ForkAllOrNothing ==
    [][Fork /\ state' = state => refcount' = refcount]_vars

(* The kernel runs a runnable process as long as there is one: the search of *)
(* schedule() misses none, also when the current one has just ended itself.  *)
KeepsBusy ==
    (\E pid \in Pids : state[pid] = "runnable") => state[current] = "runnable"

(* Every runnable process gets its turn, unless it is killed first, however  *)
(* many others fork, exit and allocate meanwhile.                            *)
RoundRobin ==
    \A pid \in Pids :
        state[pid] = "runnable" ~> current = pid \/ state[pid] # "runnable"

(* Address spaces are isolated: the kernel implements ProcSpace, in which    *)
(* each process has memory of its own, a write or an allocation is seen by   *)
(* no other, and only a reboot changes several spaces at once, to the ones   *)
(* the program loader makes.                                                 *)
Space(m, root) ==
    [va \in {a \in VA : Lookup(m, root, a) # NoPage} |->
        [v |-> m.mem[Lookup(m, root, va)].data, w |-> Writable(m, root, va)]]
SpacesOf(m, st, pt) ==
    [pid \in Pids |-> IF st[pid] = "free" THEN [va \in {} |-> 0] ELSE Space(m, pt[pid])]
Spaces == SpacesOf(Memory, state, pagetable)
LoadedSpace == [va \in {1, NVA} |-> [v |-> 0, w |-> va = NVA]]
Isolated == INSTANCE ProcSpace WITH
                Loaded <- LoadedSpace,
                status <- [pid \in Pids |-> state[pid]], space <- Spaces
ImplementsProcSpace == Isolated!Spec
===============================================================================
