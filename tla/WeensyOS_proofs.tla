--------------------------- MODULE WeensyOS_proofs ---------------------------
(***************************************************************************)
(* Proofs about the kernel's processes and their memory, and about the map *)
(* of memory that the kernel draws, for any number of pages, processes and *)
(* virtual addresses.                                                      *)
(***************************************************************************)
EXTENDS MemViewer, KernelMemory_proofs

-----------------------------------------------------------------------------
(* The scheduler *)

(* What is known of the processes alone. *)
ProcsOK ==
    /\ state \in [0..NProc-1 -> {"free", "runnable", "broken"}]
    /\ state[0] = "free"
    /\ current \in Pids

(* A number below 2n is, modulo n, itself or n less. *)
LEMMA ModOnce ==
    ASSUME NEW n \in Nat, n > 0, NEW k \in Nat, k < 2 * n
    PROVE  k % n = IF k < n THEN k ELSE k - n
<1>1. k % n \in 0..n-1
  OBVIOUS
<1>2. k = n * (k \div n) + (k % n)
  OBVIOUS
<1>3. k \div n \in Nat
  OBVIOUS
<1>4. CASE k < n
  BY <1>4
<1>5. CASE k >= n
  <2>1. k \div n # 0
    <3>1. CASE k \div n = 0
      <4>1. n * (k \div n) = 0
        BY <3>1
      <4> QED BY <1>1, <1>2, <1>5, <4>1
    <3> QED BY <3>1
  <2>2. ~(k \div n >= 2)
    <3>1. ASSUME NEW q \in Nat, q >= 2 PROVE n * q >= 2 * n
      BY <3>1
    <3>2. CASE k \div n >= 2
      <4>1. n * (k \div n) >= 2 * n
        BY <1>3, <3>1, <3>2
      <4> QED BY <1>1, <1>2, <4>1
    <3> QED BY <3>2
  <2>3. k \div n = 1
    BY <1>3, <2>1, <2>2
  <2>4. n * (k \div n) = n
    BY <2>3
  <2> QED BY <1>1, <1>2, <1>5, <2>4
<1> QED BY <1>4, <1>5

(* Counting on in the circle. *)
LEMMA TurnIs ==
    ASSUME NEW c \in Pids, NEW i \in 1..NProc
    PROVE  (c + i) % NProc = IF c + i < NProc THEN c + i ELSE c + i - NProc
<1>1. NProc \in Nat /\ c \in Nat /\ c + i \in Nat /\ c + i < 2 * NProc /\ NProc > 0
  BY ProcAssumption DEF Pids
<1>2. \A k \in Nat : k < 2 * NProc => k % NProc = IF k < NProc THEN k ELSE k - NProc
  BY <1>1, ModOnce
<1> QED BY <1>1, <1>2

(* schedule() picks a runnable process if there is one; otherwise it stays. *)
LEMMA ScheduledRuns ==
    ASSUME ProcsOK, NEW st \in [0..NProc-1 -> {"free", "runnable", "broken"}],
           st[0] = "free"
    PROVE  /\ Scheduled(st) \in Pids
           /\ (\E pid \in Pids : st[pid] = "runnable") => st[Scheduled(st)] = "runnable"
<1> DEFINE turns == {i \in 1..NProc : st[Turn(i)] = "runnable"}
<1>0. current \in Pids
  BY DEF ProcsOK
<1>1. \A i \in 1..NProc :
          Turn(i) = IF current + i < NProc THEN current + i ELSE current + i - NProc
  BY <1>0, TurnIs DEF Turn
<1>2. CASE turns = {}
  <2>1. ASSUME NEW pid \in Pids, st[pid] = "runnable" PROVE FALSE
    <3> DEFINE i == IF pid > current THEN pid - current ELSE pid - current + NProc
    <3>1. i \in 1..NProc /\ Turn(i) = pid
      BY <1>0, <1>1, ProcAssumption DEF Pids
    <3> QED BY <1>2, <2>1, <3>1
  <2>2. Scheduled(st) = current
    BY <1>2 DEF Scheduled
  <2> QED BY <1>0, <2>1, <2>2
<1>3. CASE turns # {}
  <2>1. Min(turns) \in turns
    <3>1. \E n \in turns : \A k \in turns : n <= k
      <4>1. turns \subseteq Nat
        BY ProcAssumption
      <4> HIDE DEF turns
      <4> QED BY <1>3, <4>1, LeastNat
    <3> QED BY <3>1 DEF Min
  <2>2. Scheduled(st) = Turn(Min(turns))
    BY <1>3 DEF Scheduled
  <2>3. PICK i \in 1..NProc : Scheduled(st) = Turn(i) /\ st[Turn(i)] = "runnable"
    BY <2>1, <2>2
  <2>4. Turn(i) \in 0..NProc-1
    BY <1>0, <1>1, ProcAssumption DEF Pids
  <2>5. Turn(i) # 0
    BY <2>3
  <2> QED BY <2>3, <2>4, <2>5, ProcAssumption DEF Pids
<1> QED BY <1>2, <1>3

(* The states after exit_proc(), whatever it finds. *)
LEMMA ExitStates ==
    ASSUME ProcsOK, NEW pid, ExitProc(pid)
    PROVE  /\ state' \in [0..NProc-1 -> {"free", "runnable", "broken"}]
           /\ state'[0] = "free"
<1>1. state' = state \/ (pid \in Pids /\ state' = [state EXCEPT ![pid] = "free"])
  BY DEF ExitProc
<1> QED BY <1>1, ProcAssumption DEF ProcsOK, Pids

(* After schedule() the processes are all right. *)
LEMMA ScheduleRuns ==
    ASSUME ProcsOK, Schedule,
           state' \in [0..NProc-1 -> {"free", "runnable", "broken"}],
           state'[0] = "free"
    PROVE  ProcsOK' /\ KeepsBusy'
<1> DEFINE st == state'
<1>1. st \in [0..NProc-1 -> {"free", "runnable", "broken"}] /\ st[0] = "free"
  OBVIOUS
<1>2. current' = Scheduled(st)
  BY DEF Schedule
<1> HIDE DEF st
<1>3. /\ Scheduled(st) \in Pids
      /\ (\E pid \in Pids : st[pid] = "runnable") => st[Scheduled(st)] = "runnable"
  BY <1>1, ScheduledRuns
<1> QED BY <1>1, <1>2, <1>3 DEF st, ProcsOK, KeepsBusy

(* The free process ID that fork takes. *)
LEMMA FreePid ==
    ASSUME ProcsOK, FreePids # {}
    PROVE  Min(FreePids) \in Pids /\ state[Min(FreePids)] = "free"
<1>1. FreePids \subseteq Nat
  BY DEF FreePids, Pids
<1>2. \E n \in FreePids : \A k \in FreePids : n <= k
  BY <1>1, LeastNat
<1>3. Min(FreePids) \in FreePids
  BY <1>2 DEF Min
<1> QED BY <1>3 DEF FreePids

(* A step keeps the processes all right, whatever becomes of memory. *)
LEMMA ProcsStep ==
    ASSUME ProcsOK, KeepsBusy, [Next]_vars
    PROVE  ProcsOK' /\ KeepsBusy'
<1>s. ASSUME UNCHANGED <<state, current>> PROVE ProcsOK' /\ KeepsBusy'
  BY <1>s DEF ProcsOK, KeepsBusy
<1>1. ASSUME NEW va \in VA, NEW v \in Values, Write(va, v) PROVE ProcsOK' /\ KeepsBusy'
  BY <1>1, <1>s DEF Write
<1>2. CASE Reschedule
  <2>1. Schedule /\ state' = state
    BY <1>2 DEF Reschedule
  <2> QED BY <2>1, ScheduleRuns DEF ProcsOK
<1>3. CASE PageFault
  <2>1. Schedule /\ state' = [state EXCEPT ![current] = "broken"]
    BY <1>3 DEF PageFault
  <2>2. state' \in [0..NProc-1 -> {"free", "runnable", "broken"}] /\ state'[0] = "free"
    BY <2>1, ProcAssumption DEF ProcsOK, Pids
  <2> QED BY <2>1, <2>2, ScheduleRuns
<1>4. ASSUME NEW va \in VA, PageAlloc(va) PROVE ProcsOK' /\ KeepsBusy'
  BY <1>4, <1>s DEF PageAlloc
<1>5. CASE Fork
  <2> DEFINE pid == Min(FreePids)
             ok == CopySpace(Memory, pagetable[current]).ok
  <2>1. pid \in Pids /\ state[pid] = "free"
    BY <1>5, FreePid DEF Fork
  <2>2. /\ state' = [state EXCEPT ![pid] = IF ok THEN "runnable" ELSE "free"]
        /\ current' = current /\ state[current] = "runnable"
    BY <1>5 DEF Fork, ForkInto, Running
  <2> HIDE DEF pid, ok
  <2> QED BY <2>1, <2>2, ProcAssumption DEF ProcsOK, KeepsBusy, Pids
<1>6. CASE Exit
  BY <1>6, ExitStates, ScheduleRuns DEF Exit
<1>7. ASSUME NEW pid \in 0..NProc, Kill(pid) PROVE ProcsOK' /\ KeepsBusy'
  BY <1>7, ExitStates, ScheduleRuns DEF Kill
<1>8. CASE Reboot
  <2>1. /\ state' = [pid \in 0..NProc-1 |-> IF pid \in Initial THEN "runnable" ELSE "free"]
        /\ current' = 1
    BY <1>8 DEF Reboot, Started, WithViewer
  <2> QED BY <2>1, ProcAssumption DEF ProcsOK, KeepsBusy, Initial, Pids
<1>9. CASE UNCHANGED vars
  BY <1>9, <1>s DEF vars
<1> QED BY <1>1, <1>2, <1>3, <1>4, <1>5, <1>6, <1>7, <1>8, <1>9 DEF Next

(* So it is in the beginning. *)
LEMMA ProcsInit == Init => ProcsOK /\ KeepsBusy
<1> SUFFICES ASSUME Init PROVE ProcsOK /\ KeepsBusy
  OBVIOUS
<1>1. /\ state = [pid \in 0..NProc-1 |-> IF pid \in Initial THEN "runnable" ELSE "free"]
      /\ current = 1
  BY DEF Init, Started, WithViewer
<1> QED BY <1>1, ProcAssumption DEF ProcsOK, KeepsBusy, Initial, Pids

(* As long as there is a runnable process the kernel runs one: schedule()   *)
(* finds it wherever it is in the table, also from an ended process.        *)
THEOREM KeepsRunning == Spec => []KeepsBusy
<1>1. ProcsOK /\ KeepsBusy /\ [Next]_vars => ProcsOK' /\ KeepsBusy'
  BY ProcsStep
<1> QED BY ProcsInit, <1>1, PTL DEF Spec

-----------------------------------------------------------------------------
(* The memory of all processes *)

(* The page tables in use: of the processes that are not gone. *)
RootsOf(st, pt) == [q \in Pids |-> IF st[q] # "free" THEN pt[q] ELSE NoPage]

(* The references that are in no address space. *)
Viewed(v) == [p \in Phys |-> IF v = p THEN 1 ELSE 0]

(* A space with all its tables: something is mapped in each half, or could  *)
(* be at once.                                                              *)
Equipped(m, root) ==
    root # NoPage /\ Slot(m, root, NVA + 1) # NoPage /\ Slot(m, root, NVA) # NoPage

SpacesOK(m, st, pt, v) ==
    /\ pt \in [Pids -> Phys \cup {NoPage}]
    /\ v \in Phys
    /\ Sound(m, Values, Pids, RootsOf(st, pt), Viewed(v))
    /\ \A pid \in Pids : st[pid] # "free" => Equipped(m, pt[pid])

(* The inductive invariant: no panic, and the memory of the processes sound *)
(* (see KernelMemory_proofs): counts exact, tables and writable pages        *)
(* private, what is shared at the same address everywhere.                  *)
IInv ==
    /\ ProcsOK /\ KeepsBusy
    /\ SpacesOK(Memory, state, pagetable, viewer)
    /\ halted = FALSE

(* Finitely many processes, few enough for a uint8_t to count. *)
LEMMA PidsFinite == IsFiniteSet(Pids) /\ Cardinality(Pids) <= 254
<1> DEFINE n == NProc - 1
<1>1. n \in Int /\ n >= 1 /\ n <= 254
  BY ProcAssumption
<1> HIDE DEF n
<1>2. IsFiniteSet(1..n) /\ Cardinality(1..n) = IF 1 > n THEN 0 ELSE n - 1 + 1
  BY <1>1, FS_Interval
<1>3. IsFiniteSet(1..n) /\ Cardinality(1..n) <= 254
  BY <1>1, <1>2
<1> QED BY <1>3 DEF Pids, n

-----------------------------------------------------------------------------
(* kernel(): the first processes *)

(* What kernel() does, process by process. *)
LEMMA BootLoop ==
    ASSUME NEW content
    PROVE  \E f : /\ f[0] = [m  |-> [rc |-> [p \in Phys |-> 0], mem |-> content],
                             pt |-> [q \in Pids |-> NoPage]]
                  /\ \A pid \in 1..NInitial : f[pid] = Boot(f[pid-1], pid)
                  /\ Booted(content) = f[NInitial]
<1> DEFINE start == [m  |-> [rc |-> [p \in Phys |-> 0], mem |-> content],
                     pt |-> [q \in Pids |-> NoPage]]
           IsRun(f, k) ==
               f = [pid \in 0..k |-> IF pid = 0 THEN start ELSE Boot(f[pid-1], pid)]
           T == {k \in Nat : \E f : IsRun(f, k)}
<1>0. NInitial \in Nat \ {0}
  BY ProcAssumption
<1>1. 0 \in T
  <2>1. IsRun([n \in 0..0 |-> start], 0)
    OBVIOUS
  <2> QED BY <2>1
<1>2. ASSUME NEW k \in 1..NInitial, k - 1 \in T PROVE k \in T
  <2>1. PICK f : IsRun(f, k - 1)
    BY <1>2
  <2> DEFINE g == [pid \in 0..k |-> IF pid = k THEN Boot(f[k-1], k) ELSE f[pid]]
  <2>2. k \in Nat \ {0}
    BY <1>0
  <2>3. IsRun(g, k)
    <3> HIDE DEF start
    <3> QED BY <2>1, <2>2
  <2> HIDE DEF IsRun
  <2> QED BY <2>2, <2>3
<1>3. NInitial \in T
  <2> HIDE DEF T
  <2>1. \A k \in 1..NInitial : k - 1 \in T => k \in T
    BY <1>2
  <2>2. \A k \in 0..NInitial : k \in T
    BY <1>0, <1>1, <2>1, LoopInduction
  <2> QED BY <1>0, <2>2
<1> DEFINE F == CHOOSE f : IsRun(f, NInitial)
<1>4. IsRun(F, NInitial)
  <2>1. \E f : IsRun(f, NInitial)
    BY <1>3
  <2> HIDE DEF IsRun
  <2> QED BY <2>1
<1>5. Booted(content) = F[NInitial]
  BY DEF Booted
<1> HIDE DEF F, start
<1>6. /\ F[0] = start
      /\ \A pid \in 1..NInitial : F[pid] = Boot(F[pid-1], pid)
  BY <1>0, <1>4
<1> QED BY <1>5, <1>6 DEF start

Nothing == [p \in Phys |-> 0]

(* After the first n processes. *)
BootState(s, n) ==
    /\ s = [m |-> s.m, pt |-> s.pt]
    /\ Sound(s.m, Values, Pids, s.pt, Nothing)
    /\ Roomy(s.m, Pids, s.pt, Nothing, 1..n)
    /\ \A pid \in Pids : IF pid <= n THEN FirstSpace(s.m, s.pt[pid]) ELSE s.pt[pid] = NoPage

(* Before the first process memory is free. *)
LEMMA BootEmpty ==
    ASSUME NEW content \in [Phys -> Contents(Values)]
    PROVE  BootState([m  |-> [rc |-> [p \in Phys |-> 0], mem |-> content],
                      pt |-> [q \in Pids |-> NoPage]], 0)
<1> DEFINE m == [rc |-> [p \in Phys |-> 0], mem |-> content]
           pt == [q \in Pids |-> NoPage]
           s == [m |-> m, pt |-> pt]
<1>1. m \in Memories(Values) /\ \A p \in Phys : m.rc[p] = 0
  BY DEF Memories
<1>2. \A q \in Pids : pt[q] = NoPage
  OBVIOUS
<1>3. Setting(Values, Pids, pt, Nothing) /\ \A p \in Phys : Nothing[p] = 0
  BY PidsFinite, ProcAssumption DEF Setting, Nothing
<1> HIDE DEF m, pt
<1>4. /\ \A q \in Pids, j \in Places : Slot(m, pt[q], j) = NoPage
      /\ \A q \in Pids, va \in VA : ~Writable(m, pt[q], va) /\ Lookup(m, pt[q], va) = NoPage
  BY <1>2, NoSpace, LeafPlace
<1>5. CountsRight(m, Pids, pt, Nothing)
  <2>1. ASSUME NEW p \in Phys PROVE m.rc[p] = Cardinality(Refs(m, Pids, pt, p)) + Nothing[p]
    <3>1. Refs(m, Pids, pt, p) = {}
      BY <1>4 DEF Refs, Phys, NoPage
    <3>2. Cardinality(Refs(m, Pids, pt, p)) = 0
      BY <3>1, FS_EmptySet
    <3> QED BY <1>1, <1>3, <3>2
  <2> QED BY <2>1 DEF CountsRight
<1>6. TablesOwn(m, Pids, pt)
  BY <1>4, MemoryAssumption DEF TablesOwn, Tables, Places
<1>7. Sound(m, Values, Pids, pt, Nothing)
  <2>1. OthersOwn(m, Nothing)
    BY <1>3 DEF OthersOwn
  <2> QED BY <1>1, <1>3, <1>4, <1>5, <1>6, <2>1 DEF Sound, WritableOwn, SharedAlike
<1>8. Roomy(m, Pids, pt, Nothing, 1..0)
  <2>1. 1..0 = {} /\ Cardinality(1..0) = 0
    BY FS_Interval, FS_EmptySet
  <2>2. 7 * Cardinality(1..0) < NPages
    BY <2>1, MemoryAssumption
  <2> QED BY <1>3, <1>4, <2>1, <2>2 DEF Roomy
<1>9. s.m = m /\ s.pt = pt /\ s = [m |-> s.m, pt |-> s.pt]
  OBVIOUS
<1>10. \A pid \in Pids : ~(pid <= 0)
  BY DEF Pids
<1> HIDE DEF s
<1>11. BootState(s, 0)
  BY <1>2, <1>7, <1>8, <1>9, <1>10, Zenon DEF BootState
<1> QED BY <1>11 DEF s, m, pt
(* A first space stays one as long as it and its data stay. *)
LEMMA FirstSpaceKept ==
    ASSUME NEW D, NEW m, NEW m1, NEW Q, NEW rt, NEW other, Sound(m, D, Q, rt, other),
           NEW q \in Q, FirstSpace(m, rt[q]), SameSpace(m, m1, rt[q]), KeepsData(m, m1)
    PROVE  FirstSpace(m1, rt[q])
<1>1. VA \subseteq Places /\ NVA + 1 \in Places
  BY MemoryAssumption DEF VA, Places
<1>2. ASSUME NEW va \in VA, Slot(m, rt[q], va) # NoPage
      PROVE  m1.mem[Slot(m, rt[q], va)].data = m.mem[Slot(m, rt[q], va)].data
  <2>1. Slot(m, rt[q], va) \in Phys /\ m.rc[Slot(m, rt[q], va)] > 0
    BY <1>1, <1>2, ReferredPositive
  <2> QED BY <2>1 DEF KeepsData
<1> QED BY <1>1, <1>2 DEF FirstSpace, SameSpace

(* process_setup() adds a process. *)
LEMMA BootStep ==
    ASSUME NEW n \in 1..NInitial, NEW s, BootState(s, n - 1)
    PROVE  BootState(Boot(s, n), n)
<1> DEFINE a == s.m
           pt == s.pt
           new == SetupSpace(a)
           a1 == new.m
           pt1 == [pt EXCEPT ![n] = new.root]
           s1 == Boot(s, n)
<1>0. n \in Pids /\ n \in Nat /\ NInitial \in Nat /\ n <= NInitial
  BY ProcAssumption DEF Pids
<1>1. /\ Sound(a, Values, Pids, pt, Nothing)
      /\ Roomy(a, Pids, pt, Nothing, 1..n-1)
      /\ \A pid \in Pids : IF pid <= n - 1 THEN FirstSpace(a, pt[pid]) ELSE pt[pid] = NoPage
  BY Zenon DEF BootState
<1>2. s1 = [m |-> a1, pt |-> pt1]
  BY DEF Boot
<1>3. s1.m = a1 /\ s1.pt = pt1
  BY <1>2
<1> HIDE DEF a, pt, s1
<1>4. pt[n] = NoPage /\ pt \in [Pids -> Phys \cup {NoPage}]
  BY <1>0, <1>1 DEF Sound, Setting
<1>5. Roomy(a, Pids, pt, Nothing, 1..n)
  <2>1. 1..n-1 \subseteq 1..n /\ 1..n \subseteq Pids
    BY <1>0, ProcAssumption DEF Pids
  <2>2. 7 * Cardinality(1..n) < NPages
    <3>1. Cardinality(1..n) = n
      BY <1>0, FS_Interval
    <3> QED BY <1>0, <3>1, ProcAssumption, MemoryAssumption
  <2>3. \A p \in Phys : Nothing[p] = 0
    BY DEF Nothing
  <2> QED BY <1>1, <2>1, <2>2, <2>3 DEF Roomy
<1>6. SetUp(a, new, Values, Pids, pt, Nothing, 1..n, n)
  <2>1. n \in 1..n /\ \A p \in Phys : Nothing[p] = 0
    BY <1>0 DEF Nothing
  <2> QED BY <1>1, <1>4, <1>5, <2>1, SetupSpaceSound
<1> HIDE DEF new
<1>7. /\ FirstSpace(a1, new.root)
      /\ Sound(a1, Values, Pids, pt1, Nothing)
      /\ Roomy(a1, Pids, pt1, Nothing, 1..n)
      /\ OthersSame(a, a1, Pids, pt, n)
      /\ KeepsData(a, a1)
  BY <1>6, Zenon DEF SetUp
<1>8. pt1[n] = new.root /\ \A q \in Pids \ {n} : pt1[q] = pt[q]
  BY <1>0, <1>4
<1> HIDE DEF a1, pt1
<1>9. ASSUME NEW pid \in Pids
      PROVE  IF pid <= n THEN FirstSpace(a1, pt1[pid]) ELSE pt1[pid] = NoPage
  <2>0. pid \in Nat
    BY DEF Pids
  <2>1. CASE pid = n
    BY <1>0, <1>7, <1>8, <2>1
  <2>2. CASE pid < n
    <3>1. pid <= n - 1 /\ pid # n
      BY <1>0, <2>0, <2>2
    <3>2. FirstSpace(a, pt[pid]) /\ SameSpace(a, a1, pt[pid])
      BY <1>1, <1>7, <3>1 DEF OthersSame
    <3>3. FirstSpace(a1, pt[pid])
      BY <1>1, <1>7, <3>2, FirstSpaceKept
    <3> QED BY <1>0, <1>8, <2>0, <2>2, <3>1, <3>3
  <2>3. CASE pid > n
    <3>1. ~(pid <= n - 1) /\ ~(pid <= n) /\ pid # n
      BY <1>0, <2>0, <2>3
    <3> QED BY <1>1, <1>8, <3>1
  <2> QED BY <1>0, <2>0, <2>1, <2>2, <2>3
<1>10. s1 = [m |-> s1.m, pt |-> s1.pt]
  BY <1>2, <1>3
<1>11. BootState(s1, n)
  BY <1>3, <1>7, <1>9, <1>10, Zenon DEF BootState
<1> QED BY <1>11 DEF s1

(* kernel() has set up the first processes. *)
LEMMA BootedOK ==
    ASSUME NEW content \in [Phys -> Contents(Values)]
    PROVE  BootState(Booted(content), NInitial)
<1>1. PICK f : /\ f[0] = [m  |-> [rc |-> [p \in Phys |-> 0], mem |-> content],
                          pt |-> [q \in Pids |-> NoPage]]
               /\ \A pid \in 1..NInitial : f[pid] = Boot(f[pid-1], pid)
               /\ Booted(content) = f[NInitial]
  BY BootLoop
<1> DEFINE T == {n \in 0..NInitial : BootState(f[n], n)}
<1>2. 0 \in T
  <2>1. BootState(f[0], 0)
    BY <1>1, BootEmpty
  <2> QED BY <2>1, ProcAssumption
<1>3. ASSUME NEW n \in 1..NInitial, n - 1 \in T PROVE n \in T
  <2>1. n \in 0..NInitial
    OBVIOUS
  <2>2. BootState(f[n-1], n - 1)
    BY <1>3
  <2>3. BootState(Boot(f[n-1], n), n)
    BY <2>2, BootStep
  <2>4. f[n] = Boot(f[n-1], n)
    BY <1>1
  <2> QED BY <2>1, <2>3, <2>4
<1>4. NInitial \in T
  <2>0. NInitial \in Nat
    BY ProcAssumption
  <2> HIDE DEF T
  <2>1. \A n \in 1..NInitial : n - 1 \in T => n \in T
    BY <1>3
  <2>2. \A n \in 0..NInitial : n \in T
    BY <1>2, <2>0, <2>1, LoopInduction
  <2> QED BY <2>0, <2>2
<1> QED BY <1>1, <1>4

(* What free pages hold matters to nobody. *)
LEMMA ForgetSound ==
    ASSUME NEW m, NEW Q, NEW rt, NEW other, Sound(m, Values, Q, rt, other),
           NEW m1, m1 = [rc |-> m.rc, mem |-> Forget(m)]
    PROVE  /\ Sound(m1, Values, Q, rt, other)
           /\ \A q \in Q : SameSpace(m, m1, rt[q])
           /\ KeepsData(m, m1)
<1>0. /\ m \in Memories(Values) /\ rt \in [Q -> Phys \cup {NoPage}]
      /\ m.rc \in [Phys -> 0..255] /\ m.mem \in [Phys -> Contents(Values)]
      /\ Zero \in Contents(Values)
  BY ProcAssumption, FixedContents DEF Sound, Setting, Memories
<1>1. /\ m1.rc = m.rc
      /\ m1.mem = [p \in Phys |-> IF m.rc[p] = 0 THEN Zero ELSE m.mem[p]]
  BY DEF Forget
<1>2. \A p \in Phys : m.rc[p] > 0 => m1.mem[p] = m.mem[p]
  BY <1>0, <1>1
<1>3. m1 \in Memories(Values)
  <2>1. m1.mem \in [Phys -> Contents(Values)]
    BY <1>0, <1>1
  <2>2. m1 = [rc |-> m1.rc, mem |-> m1.mem]
    OBVIOUS
  <2> QED BY <1>0, <1>1, <2>1, <2>2 DEF Memories
<1>4. KeepsData(m, m1)
  BY <1>1, <1>2 DEF KeepsData
<1>5. ASSUME NEW q \in Q, NEW j \in Tables, Slot(m, rt[q], j) # NoPage
      PROVE  m1.mem[Slot(m, rt[q], j)] = m.mem[Slot(m, rt[q], j)]
  <2>1. j \in Places
    BY MemoryAssumption DEF Tables, Places
  <2>2. Slot(m, rt[q], j) \in Phys /\ m.rc[Slot(m, rt[q], j)] > 0
    BY <1>5, <2>1, ReferredPositive
  <2> QED BY <1>2, <2>2
<1>6. ASSUME NEW q \in Q PROVE SameSpace(m, m1, rt[q])
  BY <1>5, SlotsFrame
<1>7. CountsRight(m1, Q, rt, other)
  <2>1. \A o \in Phys : Refs(m1, Q, rt, o) = Refs(m, Q, rt, o)
    BY <1>6 DEF Refs, SameSpace
  <2> QED BY <1>1, <2>1 DEF CountsRight, Sound
<1>8. TablesOwn(m1, Q, rt)
  <2>1. \A q \in Q, j \in Tables : Slot(m1, rt[q], j) = Slot(m, rt[q], j)
    BY <1>6, MemoryAssumption DEF SameSpace, Tables, Places
  <2> QED BY <1>1, <1>5, <2>1 DEF TablesOwn, Sound
<1>9. \A q \in Q, va \in VA : /\ Lookup(m1, rt[q], va) = Lookup(m, rt[q], va)
                              /\ Writable(m1, rt[q], va) <=> Writable(m, rt[q], va)
  BY <1>6, LeafPlace DEF SameSpace
<1>10. WritableOwn(m1, Q, rt) /\ SharedAlike(m1, Q, rt)
  BY <1>1, <1>9 DEF WritableOwn, SharedAlike, Sound
<1>11. OthersOwn(m1, other)
  BY <1>1 DEF OthersOwn, Sound
<1> QED BY <1>3, <1>4, <1>6, <1>7, <1>8, <1>10, <1>11 DEF Sound

(* kernel() leaves the processes' memory in order. *)
LEMMA StartedOK ==
    ASSUME NEW content \in [Phys -> Contents(Values)], NEW s, s = Started(content)
    PROVE
    /\ SpacesOK([rc |-> s.refcount, mem |-> s.mem], s.state, s.pagetable, s.viewer)
    /\ \A pid \in Initial : FirstSpace([rc |-> s.refcount, mem |-> s.mem], s.pagetable[pid])
<1> DEFINE bt == Booted(content)
           a == bt.m
           pt == bt.pt
           first == Kalloc(a)
<1>0. Zero \in Contents(Values) /\ 0 \in Values /\ NInitial \in Nat
  BY ProcAssumption, FixedContents
<1>1. BootState(bt, NInitial)
  BY <1>0, BootedOK
<1>2. /\ s.refcount = Zeroed(first.m, first.p).rc
      /\ s.mem = Forget(Zeroed(first.m, first.p))
      /\ s.viewer = first.p
      /\ s.pagetable = pt
      /\ s.state = [pid \in 0..NProc-1 |-> IF pid \in Initial THEN "runnable" ELSE "free"]
  BY DEF Started, WithViewer
<1> HIDE DEF bt
<1>3. /\ Sound(a, Values, Pids, pt, Nothing)
      /\ Roomy(a, Pids, pt, Nothing, 1..NInitial)
      /\ \A pid \in Pids : IF pid <= NInitial THEN FirstSpace(a, pt[pid]) ELSE pt[pid] = NoPage
  BY <1>1, Zenon DEF BootState
<1> HIDE DEF a, pt
<1>4. a \in Memories(Values) /\ pt \in [Pids -> Phys \cup {NoPage}]
  BY <1>3 DEF Sound, Setting
<1>5. PICK n \in Phys : a.rc[n] = 0 /\ Kalloc(a) = [m |-> Claim(a, n, Junk), p |-> n]
  BY <1>3, <1>4, RoomLeft, KallocEffect
<1> DEFINE m0 == Claim(a, n, Zero)
           m == [rc |-> m0.rc, mem |-> Forget(m0)]
<1>6. [rc |-> s.refcount, mem |-> s.mem] = m /\ s.viewer = n
  <2>1. Zeroed(first.m, first.p) = m0 /\ first.p = n
    <3>1. [Claim(a, n, Junk) EXCEPT !.mem[n] = Zero] = m0
      BY <1>4, ClaimZeroed
    <3> QED BY <1>5, <3>1 DEF Zeroed
  <2> HIDE DEF m0
  <2>2. s.refcount = m0.rc /\ s.mem = Forget(m0)
    BY <1>2, <2>1
  <2> QED BY <1>2, <2>1, <2>2
<1>k. /\ Sound(m0, Values, Pids, pt, [Nothing EXCEPT ![n] = 1])
      /\ \A q \in Pids : SameSpace(a, m0, pt[q])
  BY <1>0, <1>3, <1>5, SoundClaim
<1>l. KeepsData(a, m0)
  BY <1>4, <1>5, ClaimFacts, UsedData
<1> HIDE DEF m0
<1>m. /\ Sound(m, Values, Pids, pt, [Nothing EXCEPT ![n] = 1])
      /\ \A q \in Pids : SameSpace(m0, m, pt[q])
      /\ KeepsData(m0, m)
  BY <1>k, ForgetSound
<1> HIDE DEF m
<1>7. /\ Sound(m, Values, Pids, pt, [Nothing EXCEPT ![n] = 1])
      /\ \A q \in Pids : SameSpace(a, m, pt[q])
  BY <1>k, <1>m DEF SameSpace
<1>8. KeepsData(a, m)
  BY <1>l, <1>m DEF KeepsData
<1>9. [Nothing EXCEPT ![n] = 1] = Viewed(n)
  BY DEF Nothing, Viewed
<1>10. RootsOf(s.state, pt) = pt
  <2>1. \A q \in Pids : (IF s.state[q] # "free" THEN pt[q] ELSE NoPage) = pt[q]
    BY <1>2, <1>3, <1>0, ProcAssumption DEF Pids, Initial
  <2> QED BY <1>4, <2>1 DEF RootsOf
<1>11. \A pid \in Initial : pid \in Pids /\ FirstSpace(m, pt[pid])
  <2>1. ASSUME NEW pid \in Initial PROVE pid \in Pids /\ FirstSpace(m, pt[pid])
    <3>1. pid \in Pids /\ pid <= NInitial
      BY <1>0, ProcAssumption DEF Initial, Pids
    <3>2. FirstSpace(a, pt[pid]) /\ SameSpace(a, m, pt[pid])
      BY <1>3, <1>7, <3>1
    <3> QED BY <1>3, <1>8, <3>1, <3>2, FirstSpaceKept
  <2> QED BY <2>1
<1>12. ASSUME NEW pid \in Pids, s.state[pid] # "free" PROVE Equipped(m, pt[pid])
  <2>1. pid \in Initial
    BY <1>2, <1>12, ProcAssumption DEF Pids
  <2>2. FirstSpace(m, pt[pid])
    BY <1>11, <2>1
  <2> QED BY <2>2, MemoryAssumption DEF FirstSpace, Equipped, VA, Phys, NoPage
<1>13. SpacesOK(m, s.state, s.pagetable, s.viewer)
  BY <1>2, <1>4, <1>6, <1>7, <1>9, <1>10, <1>12 DEF SpacesOK
<1> QED BY <1>2, <1>6, <1>11, <1>13

-----------------------------------------------------------------------------
(* The steps *)

(* Both halves have their tables. *)
LEMMA EquippedTables ==
    ASSUME NEW m, NEW root, Equipped(m, root)
    PROVE  \A j \in Tables : Slot(m, root, j) # NoPage
<1>1. /\ NVA \in Places \ {RootSlot} /\ Up(NVA) = NVA + 2
      /\ NVA + 1 \in Places \ {RootSlot} /\ Up(NVA + 1) = NVA + 3
      /\ NVA + 3 \in Places \ {RootSlot} /\ Up(NVA + 3) = NVA + 4
      /\ NVA + 4 \in Places \ {RootSlot} /\ Up(NVA + 4) = RootSlot
  BY MemoryAssumption DEF Places, RootSlot, Up, Half
<1>2. Slot(m, root, NVA + 2) # NoPage /\ Slot(m, root, NVA + 3) # NoPage
  BY <1>1, UpPresent DEF Equipped
<1>3. Slot(m, root, NVA + 4) # NoPage
  BY <1>1, <1>2, UpPresent
<1>4. Slot(m, root, NVA + 5) # NoPage
  BY SlotRoot DEF Equipped, RootSlot
<1>5. \A j \in Tables : j \in {NVA + 1, NVA + 2, NVA + 3, NVA + 4, NVA + 5}
  BY MemoryAssumption DEF Tables
<1> QED BY <1>2, <1>3, <1>4, <1>5 DEF Equipped

(* A space stays equipped when it stays as it is. *)
LEMMA EquippedKept ==
    ASSUME NEW m, NEW m1, NEW root, Equipped(m, root), SameSpace(m, m1, root)
    PROVE  Equipped(m1, root)
<1>1. NVA \in Places /\ NVA + 1 \in Places
  BY MemoryAssumption DEF Places
<1> QED BY <1>1 DEF Equipped, SameSpace

(* The running process writes to its memory. *)
LEMMA WriteSpaces ==
    ASSUME NEW m, NEW st, NEW pt, NEW v, SpacesOK(m, st, pt, v),
           NEW p \in Phys, NEW x \in Values, NEW m1,
           m1 = Poked(m, p, x)
    PROVE  SpacesOK(m1, st, pt, v)
<1> DEFINE rt == RootsOf(st, pt)
           other == Viewed(v)
<1>1. Sound(m, Values, Pids, rt, other)
  BY DEF SpacesOK
<1>2. \A pid \in Pids : st[pid] # "free" => rt[pid] = pt[pid]
  BY DEF RootsOf
<1> HIDE DEF rt, other
<1>3. Sound(m1, Values, Pids, rt, other) /\ \A q \in Pids : SameSpace(m, m1, rt[q])
  BY <1>1, WriteSound
<1>4. \A pid \in Pids : st[pid] # "free" => Equipped(m1, pt[pid])
  <2>1. ASSUME NEW pid \in Pids, st[pid] # "free" PROVE Equipped(m1, pt[pid])
    <3>1. Equipped(m, pt[pid]) /\ SameSpace(m, m1, pt[pid])
      BY <1>2, <1>3, <2>1 DEF SpacesOK
    <3> QED BY <3>1, EquippedKept
  <2> QED BY <2>1
<1> QED BY <1>3, <1>4 DEF SpacesOK, rt, other

(* The running process allocates a page; map() does not fail. *)
LEMMA AllocSpaces ==
    ASSUME NEW m, NEW st, NEW pt, NEW v, SpacesOK(m, st, pt, v),
           NEW c \in Pids, st[c] # "free", NEW va \in VA, Lookup(m, pt[c], va) = NoPage,
           Kalloc(m).p # NoPage, NEW w \in BOOLEAN
    PROVE  LET t == TryMap(Zeroed(Kalloc(m).m, Kalloc(m).p), pt[c], va, Kalloc(m).p, w) IN
           /\ t.ok = TRUE
           /\ SpacesOK(t.m, st, pt, v)
           /\ \E n \in Phys : NewPage(m, t, Values, Pids, RootsOf(st, pt), Viewed(v), c, va, n, w)
<1> DEFINE rt == RootsOf(st, pt)
           other == Viewed(v)
           t == TryMap(Zeroed(Kalloc(m).m, Kalloc(m).p), pt[c], va, Kalloc(m).p, w)
<1>1. Sound(m, Values, Pids, rt, other)
  BY DEF SpacesOK
<1>2. \A pid \in Pids : st[pid] # "free" => rt[pid] = pt[pid]
  BY DEF RootsOf
<1> HIDE DEF rt, other
<1>3. Equipped(m, rt[c])
  BY <1>2 DEF SpacesOK
<1>4. Slot(m, rt[c], va) = NoPage /\ Slot(m, rt[c], Up(va)) # NoPage /\ rt[c] # NoPage
  <2>1. Up(va) \in Tables
    BY LeafPlace, SlotIsEntry
  <2> QED BY <1>2, <1>3, <2>1, EquippedTables, LeafPlace DEF Equipped
<1>5. PICK n \in Phys : NewPage(m, t, Values, Pids, rt, other, c, va, n, w)
  <2>1. \E n \in Phys :
           NewPage(m, TryMap(Zeroed(Kalloc(m).m, Kalloc(m).p), rt[c], va, Kalloc(m).p, w),
                   Values, Pids, rt, other, c, va, n, w)
    BY <1>1, <1>4, AllocSound
  <2> QED BY <1>2, <2>1
<1> DEFINE m1 == t.m
<1> HIDE DEF t
<1>6. /\ t.ok = TRUE
      /\ Sound(m1, Values, Pids, rt, other)
      /\ Mapped(m, m1, Pids, rt, c, va, n, w)
  BY <1>5 DEF NewPage
<1> HIDE DEF m1
<1>7. Equipped(m1, rt[c])
  <2>1. /\ \A j \in Tables : Slot(m, rt[c], j) # NoPage => Slot(m1, rt[c], j) = Slot(m, rt[c], j)
        /\ \A j \in VA : Slot(m1, rt[c], j) = IF j = va THEN n ELSE Slot(m, rt[c], j)
        /\ n # NoPage /\ NVA + 1 \in Tables /\ NVA \in VA
    BY <1>6, MemoryAssumption DEF Mapped, Phys, NoPage, Tables, VA
  <2> QED BY <1>3, <2>1 DEF Equipped
<1>8. \A pid \in Pids : st[pid] # "free" => Equipped(m1, pt[pid])
  <2>1. ASSUME NEW pid \in Pids, st[pid] # "free" PROVE Equipped(m1, pt[pid])
    <3>1. CASE pid = c
      BY <1>2, <1>7, <3>1
    <3>2. CASE pid # c
      <4>1. Equipped(m, pt[pid]) /\ SameSpace(m, m1, pt[pid])
        BY <1>2, <1>6, <2>1, <3>2 DEF SpacesOK, Mapped, OthersSame
      <4> QED BY <4>1, EquippedKept
    <3> QED BY <3>1, <3>2
  <2> QED BY <2>1
<1>9. SpacesOK(m1, st, pt, v)
  BY <1>6, <1>8 DEF SpacesOK, rt, other
<1> QED BY <1>5, <1>6, <1>9 DEF t, m1, rt, other

(* fork gives the child memory of its own, or leaves everything as it was. *)
LEMMA ForkSpaces ==
    ASSUME NEW m, NEW st, NEW pt, NEW v, SpacesOK(m, st, pt, v),
           st \in [0..NProc-1 -> {"free", "runnable", "broken"}],
           NEW c \in Pids, st[c] = "free", NEW r \in Pids, st[r] # "free"
    PROVE  LET copy == CopySpace(m, pt[r]) IN
           /\ Forked(m, copy, Values, Pids, RootsOf(st, pt), Viewed(v), r, c)
           /\ SpacesOK(copy.m, [st EXCEPT ![c] = IF copy.ok THEN "runnable" ELSE "free"],
                       [pt EXCEPT ![c] = copy.root], v)
<1> DEFINE rt == RootsOf(st, pt)
           other == Viewed(v)
           copy == CopySpace(m, pt[r])
           st1 == [st EXCEPT ![c] = IF copy.ok THEN "runnable" ELSE "free"]
           pt1 == [pt EXCEPT ![c] = copy.root]
           rt1 == [rt EXCEPT ![c] = copy.root]
<1>0. /\ Sound(m, Values, Pids, rt, other)
      /\ pt \in [Pids -> Phys \cup {NoPage}] /\ v \in Phys
      /\ rt \in [Pids -> Phys \cup {NoPage}]
      /\ \A pid \in Pids : st[pid] # "free" => Equipped(m, pt[pid])
  BY DEF SpacesOK, RootsOf
<1>1. /\ \A pid \in Pids : st[pid] # "free" => rt[pid] = pt[pid]
      /\ \A pid \in Pids : st[pid] = "free" => rt[pid] = NoPage
      /\ c # r
  BY DEF RootsOf
<1>s. Pids \subseteq 0..NProc-1
  BY DEF Pids
<1>2. Forked(m, copy, Values, Pids, rt, other, r, c)
  <2> HIDE DEF rt, other
  <2>1. Forked(m, CopySpace(m, rt[r]), Values, Pids, rt, other, r, c)
    BY <1>0, <1>1, CopySpaceSound
  <2> QED BY <1>1, <2>1
<1> HIDE DEF copy
<1>3. /\ copy.ok \in BOOLEAN
      /\ copy.root \in Phys \cup {NoPage}
      /\ OthersSame(m, copy.m, Pids, rt, c)
      /\ copy.ok => /\ copy.root # NoPage
                    /\ Sound(copy.m, Values, Pids, rt1, other)
                    /\ Slot(copy.m, copy.root, NVA + 1) # NoPage
                    /\ CopiedUpTo(m, copy.m, rt1, r, c, NVA)
      /\ ~copy.ok => Sound(copy.m, Values, Pids, rt, other)
  BY <1>2 DEF Forked
<1>4. /\ \A q \in Pids \ {c} : st1[q] = st[q] /\ pt1[q] = pt[q]
      /\ st1[c] = (IF copy.ok THEN "runnable" ELSE "free") /\ pt1[c] = copy.root
  BY <1>0, <1>s
<1>5. pt1 \in [Pids -> Phys \cup {NoPage}]
  BY <1>0, <1>3
<1>6. \A q \in Pids \ {c} : st1[q] # "free" => Equipped(copy.m, pt1[q])
  <2>1. ASSUME NEW q \in Pids \ {c}, st[q] # "free" PROVE Equipped(copy.m, pt[q])
    <3>1. Equipped(m, pt[q]) /\ SameSpace(m, copy.m, pt[q])
      BY <1>0, <1>1, <1>3, <2>1 DEF OthersSame
    <3> QED BY <3>1, EquippedKept
  <2> QED BY <1>4, <2>1
<1>7. CASE copy.ok
  <2>1. RootsOf(st1, pt1) = rt1
    <3>1. \A q \in Pids : (IF st1[q] # "free" THEN pt1[q] ELSE NoPage) = rt1[q]
      BY <1>0, <1>1, <1>4, <1>7
    <3> HIDE DEF rt, st1, pt1
    <3>2. rt1 \in [Pids -> Phys \cup {NoPage}]
      BY <1>0, <1>3
    <3> HIDE DEF rt1
    <3> QED BY <3>1, <3>2 DEF RootsOf
  <2>2. Equipped(copy.m, copy.root)
    <3>1. NVA \in VA
      BY MemoryAssumption DEF VA
    <3>2. rt1[c] = copy.root
      BY <1>0
    <3>3. Slot(m, rt[r], NVA) # NoPage
      BY <1>0, <1>1 DEF Equipped
    <3>4. Slot(copy.m, rt1[c], NVA) # NoPage
      <4> HIDE DEF rt, rt1
      <4>1. CopiedUpTo(m, copy.m, rt1, r, c, NVA)
        BY <1>3, <1>7
      <4>2. rt1[r] = rt[r]
        BY <1>0, <1>1 DEF rt1
      <4> QED BY <3>1, <3>3, <4>1, <4>2, MemoryAssumption DEF CopiedUpTo
    <3> QED BY <1>3, <1>7, <3>2, <3>4 DEF Equipped
  <2>3. \A q \in Pids : st1[q] # "free" => Equipped(copy.m, pt1[q])
    BY <1>4, <1>6, <2>2
  <2>4. Sound(copy.m, Values, Pids, RootsOf(st1, pt1), other)
    BY <1>3, <1>7, <2>1
  <2>5. SpacesOK(copy.m, st1, pt1, v)
    <3> HIDE DEF st1, pt1
    <3> QED BY <1>0, <1>5, <2>3, <2>4 DEF SpacesOK
  <2> QED BY <1>2, <2>5 DEF copy
<1>8. CASE ~copy.ok
  <2>1. RootsOf(st1, pt1) = rt
    <3>1. \A q \in Pids : (IF st1[q] # "free" THEN pt1[q] ELSE NoPage) = rt[q]
      BY <1>0, <1>1, <1>4, <1>8
    <3> HIDE DEF rt, st1, pt1
    <3> QED BY <1>0, <3>1 DEF RootsOf
  <2>2. \A q \in Pids : st1[q] # "free" => Equipped(copy.m, pt1[q])
    BY <1>4, <1>6, <1>8
  <2>3. Sound(copy.m, Values, Pids, RootsOf(st1, pt1), other)
    BY <1>3, <1>8, <2>1
  <2>4. SpacesOK(copy.m, st1, pt1, v)
    <3> HIDE DEF st1, pt1
    <3> QED BY <1>0, <1>5, <2>2, <2>3 DEF SpacesOK
  <2> QED BY <1>2, <2>4 DEF copy
<1> QED BY <1>7, <1>8

(* Pages in use in m1 hold what they hold in m. *)
UsedKept(m, m1) == \A p \in Phys : m1.rc[p] > 0 => m1.mem[p] = m.mem[p]

(* Taking down a process whose memory is in order does not panic, and gives *)
(* back exactly what it had.                                                *)
LEMMA ExitSpaces ==
    ASSUME NEW m, NEW st, NEW pt, NEW v, SpacesOK(m, st, pt, v),
           st \in [0..NProc-1 -> {"free", "runnable", "broken"}],
           NEW pid \in Pids, st[pid] # "free" \/ pt[pid] = NoPage
    PROVE  LET m1 == FreeSpace(m, pt[pid]) IN
           /\ ~WalkPanics(m, pt[pid])
           /\ SpacesOK(m1, [st EXCEPT ![pid] = "free"], pt, v)
           /\ \A q \in Pids \ {pid} : st[q] # "free" => SameSpace(m, m1, pt[q])
           /\ UsedKept(m, m1)
<1> DEFINE rt == RootsOf(st, pt)
           other == Viewed(v)
           m1 == FreeSpace(m, pt[pid])
           st1 == [st EXCEPT ![pid] = "free"]
<1>0. /\ Sound(m, Values, Pids, rt, other)
      /\ pt \in [Pids -> Phys \cup {NoPage}] /\ v \in Phys
      /\ rt \in [Pids -> Phys \cup {NoPage}]
      /\ \A q \in Pids : st[q] # "free" => Equipped(m, pt[q])
  BY DEF SpacesOK, RootsOf
<1>1. /\ \A q \in Pids : st[q] # "free" => rt[q] = pt[q]
      /\ \A q \in Pids : st[q] = "free" => rt[q] = NoPage
  BY DEF RootsOf
<1>s. Pids \subseteq 0..NProc-1
  BY DEF Pids
<1>2. st1[pid] = "free" /\ \A q \in Pids \ {pid} : st1[q] = st[q]
  BY <1>s
<1> HIDE DEF rt, other, st1
<1>3. CASE st[pid] = "free"
  <2>1. pt[pid] = NoPage
    BY <1>3
  <2>2. m1 = m
    BY <2>1 DEF FreeSpace
  <2>3. ~WalkPanics(m, pt[pid])
    BY <2>1 DEF WalkPanics, Level3, Level2, Level1, Entry
  <2>4. st1 = st
    BY <1>3, <1>s DEF st1
  <2>5. \A q \in Pids : SameSpace(m, m, pt[q])
    BY DEF SameSpace
  <2> HIDE DEF m1
  <2>6. SpacesOK(m1, st1, pt, v)
    BY <2>2, <2>4
  <2> QED BY <2>2, <2>3, <2>5, <2>6 DEF m1, st1, UsedKept
<1>4. CASE st[pid] # "free"
  <2>1. rt[pid] = pt[pid] /\ rt[pid] # NoPage /\ Equipped(m, rt[pid])
    BY <1>0, <1>1, <1>4 DEF Equipped
  <2>2. ~WalkPanics(m, pt[pid])
    <3>1. \A j \in Tables : ~m.mem[Slot(m, rt[pid], j)].junk
      BY <1>0, <2>1, EquippedTables DEF Sound, TablesOwn
    <3>2. /\ Slot(m, rt[pid], NVA + 1) = Level1(m, rt[pid], 0)
          /\ Slot(m, rt[pid], NVA + 2) = Level1(m, rt[pid], 1)
          /\ Slot(m, rt[pid], NVA + 3) = Level2(m, rt[pid])
          /\ Slot(m, rt[pid], NVA + 4) = Level3(m, rt[pid])
          /\ Slot(m, rt[pid], NVA + 5) = rt[pid]
          /\ {NVA + 1, NVA + 2, NVA + 3, NVA + 4, NVA + 5} \subseteq Tables
      BY MemoryAssumption DEF Slot, Tables
    <3> QED BY <2>1, <3>1, <3>2 DEF WalkPanics
  <2>3. LET x == FreeSpace(m, rt[pid]) IN
        /\ Sound(x, Values, Pids, [rt EXCEPT ![pid] = NoPage], other)
        /\ OthersSame(m, x, Pids, rt, pid)
        /\ \A p \in Phys : x.rc[p] > 0 => x.mem[p] = m.mem[p]
        /\ \A p \in Phys : x.rc[p] <= m.rc[p]
    BY <1>0, <2>1, FreeSpaceSound
  <2>4. /\ Sound(m1, Values, Pids, [rt EXCEPT ![pid] = NoPage], other)
        /\ OthersSame(m, m1, Pids, rt, pid)
        /\ \A p \in Phys : m1.rc[p] > 0 => m1.mem[p] = m.mem[p]
    BY <2>1, <2>3
  <2> HIDE DEF m1
  <2>5. RootsOf(st1, pt) = [rt EXCEPT ![pid] = NoPage]
    <3> DEFINE rt1 == [rt EXCEPT ![pid] = NoPage]
    <3>1. \A q \in Pids : (IF st1[q] # "free" THEN pt[q] ELSE NoPage) = rt1[q]
      BY <1>0, <1>1, <1>2
    <3>2. rt1 \in [Pids -> Phys \cup {NoPage}]
      BY <1>0
    <3> HIDE DEF rt1
    <3>3. RootsOf(st1, pt) = rt1
      BY <3>1, <3>2 DEF RootsOf
    <3> QED BY <3>3 DEF rt1
  <2>6. \A q \in Pids \ {pid} : st[q] # "free" => SameSpace(m, m1, pt[q])
    BY <1>1, <2>4 DEF OthersSame
  <2>7. \A q \in Pids : st1[q] # "free" => Equipped(m1, pt[q])
    <3>1. ASSUME NEW q \in Pids, st1[q] # "free" PROVE Equipped(m1, pt[q])
      <4>1. q # pid /\ st[q] # "free"
        BY <1>2, <3>1
      <4>2. Equipped(m, pt[q]) /\ SameSpace(m, m1, pt[q])
        BY <1>0, <2>6, <4>1
      <4> QED BY <4>2, EquippedKept
    <3> QED BY <3>1
  <2>8. Sound(m1, Values, Pids, RootsOf(st1, pt), other)
    BY <2>4, <2>5
  <2>9. SpacesOK(m1, st1, pt, v)
    BY <1>0, <2>7, <2>8 DEF SpacesOK, other
  <2> QED BY <2>2, <2>4, <2>6, <2>9 DEF m1, st1, UsedKept
<1> QED BY <1>3, <1>4

(* A panic can only come from page_alloc or exit; memory changes there, in  *)
(* fork, and when a process writes.                                         *)
LEMMA MemoryIs ==
    ASSUME NEW m, NEW st, NEW pt, NEW v, SpacesOK(m, st, pt, v), SetMemory(m)
    PROVE  Memory' = m
<1>1. m \in Memories(Values)
  BY DEF SpacesOK, Sound
<1>2. m = [rc |-> m.rc, mem |-> m.mem]
  BY <1>1 DEF Memories
<1> QED BY <1>2, Zenon DEF SetMemory, Memory

(* The same processes are gone: the same spaces are in use. *)
LEMMA SameRoots ==
    ASSUME NEW m, NEW st, NEW pt, NEW v, SpacesOK(m, st, pt, v), NEW st1,
           \A q \in Pids : st1[q] = "free" <=> st[q] = "free"
    PROVE  SpacesOK(m, st1, pt, v)
<1>1. \A q \in Pids : (IF st1[q] # "free" THEN pt[q] ELSE NoPage)
                          = IF st[q] # "free" THEN pt[q] ELSE NoPage
  OBVIOUS
<1>2. RootsOf(st1, pt) = RootsOf(st, pt)
  BY <1>1 DEF RootsOf
<1> QED BY <1>2 DEF SpacesOK

(* exit_proc(), for the process itself and for kill. *)
LEMMA ExitStep ==
    ASSUME IInv, NEW pid,
           pid \in Pids => state[pid] # "free" \/ pagetable[pid] = NoPage,
           ExitProc(pid), UNCHANGED <<pagetable, viewer>>
    PROVE  SpacesOK(Memory', state', pagetable', viewer') /\ halted' = FALSE
<1>1. CASE pid \notin Pids
  <2>1. UNCHANGED <<refcount, mem, state, halted>>
    BY <1>1 DEF ExitProc
  <2> QED BY <2>1 DEF IInv, Memory
<1>2. CASE pid \in Pids
  <2> DEFINE m1 == FreeSpace(Memory, pagetable[pid])
             st1 == [state EXCEPT ![pid] = "free"]
  <2>1. /\ ~WalkPanics(Memory, pagetable[pid])
        /\ SpacesOK(m1, st1, pagetable, viewer)
    BY <1>2, ExitSpaces DEF IInv, ProcsOK
  <2>2. SetMemory(m1) /\ state' = st1 /\ halted' = halted
    BY <1>2, <2>1 DEF ExitProc
  <2> HIDE DEF m1, st1
  <2>3. Memory' = m1
    BY <2>1, <2>2, MemoryIs
  <2>4. SpacesOK(m1, state', pagetable', viewer')
    BY <2>1, <2>2
  <2> QED BY <2>2, <2>3, <2>4, Zenon DEF IInv
<1> QED BY <1>1, <1>2

(* The invariant holds in the beginning. *)
LEMMA IInvInit == Init => IInv
<1> SUFFICES ASSUME Init PROVE IInv
  OBVIOUS
<1>0. [p \in Phys |-> Zero] \in [Phys -> Contents(Values)]
  BY ProcAssumption, FixedContents
<1>1. PICK s : /\ s = Started([p \in Phys |-> Zero])
               /\ refcount = s.refcount /\ mem = s.mem /\ viewer = s.viewer
               /\ pagetable = s.pagetable /\ state = s.state /\ halted = FALSE
  BY DEF Init
<1>2. SpacesOK([rc |-> s.refcount, mem |-> s.mem], s.state, s.pagetable, s.viewer)
  BY <1>0, <1>1, StartedOK
<1>3. SpacesOK(Memory, state, pagetable, viewer)
  BY <1>1, <1>2 DEF Memory
<1> QED BY <1>1, <1>3, ProcsInit DEF IInv

(* Every step keeps it, provided that programs neither allocate where they  *)
(* have memory already nor kill processes that are gone.                    *)
LEMMA IInvStep ==
    ASSUME Remap = FALSE, KillStale = FALSE, IInv, [Next]_vars
    PROVE  IInv'
<1>0. /\ ProcsOK /\ KeepsBusy /\ SpacesOK(Memory, state, pagetable, viewer)
      /\ halted = FALSE
  BY DEF IInv
<1>1. ProcsOK' /\ KeepsBusy'
  BY <1>0, ProcsStep
<1>s. ASSUME UNCHANGED <<refcount, mem, pagetable, viewer, halted>>,
             \A q \in Pids : state'[q] = "free" <=> state[q] = "free"
      PROVE  IInv'
  <2>1. SpacesOK(Memory, state', pagetable, viewer)
    BY <1>0, <1>s, SameRoots
  <2>2. Memory' = Memory
    BY <1>s DEF Memory
  <2>3. SpacesOK(Memory', state', pagetable', viewer')
    BY <1>s, <2>1, <2>2
  <2> QED BY <1>0, <1>1, <1>s, <2>3 DEF IInv
<1>r. ASSUME Running PROVE current \in Pids /\ state[current] # "free"
  BY <1>0, <1>r DEF Running, ProcsOK
<1>p. Pids \subseteq 0..NProc-1
  BY DEF Pids
<1>2. ASSUME NEW va \in VA, NEW x \in Values, Write(va, x) PROVE IInv'
  <2> DEFINE root == pagetable[current]
             p == Lookup(Memory, root, va)
             m1 == Poked(Memory, p, x)
  <2>1. /\ current \in Pids /\ state[current] # "free" /\ p # NoPage
        /\ mem' = [mem EXCEPT ![p].data = x]
        /\ UNCHANGED <<refcount, pagetable, state, current, viewer, halted>>
    BY <1>2, <1>r DEF Write, Writable
  <2>2. p \in Phys
    <3>1. root \in Phys \cup {NoPage} /\ Memory \in Memories(Values)
      BY <1>0, <2>1 DEF SpacesOK, Sound
    <3>2. Slot(Memory, root, va) \in Phys \cup {NoPage}
      BY <3>1, SlotType, LeafPlace
    <3> QED BY <2>1, <3>2, LeafPlace
  <2> HIDE DEF p
  <2>3. SpacesOK(m1, state, pagetable, viewer)
    BY <1>0, <2>2, WriteSpaces
  <2>4. Memory' = m1
    BY <2>1 DEF Memory, Poked
  <2> HIDE DEF m1
  <2>5. SpacesOK(Memory', state', pagetable', viewer')
    BY <2>1, <2>3, <2>4
  <2> QED BY <1>0, <1>1, <2>1, <2>5 DEF IInv
<1>3. CASE Reschedule
  BY <1>3, <1>s DEF Reschedule
<1>4. CASE PageFault
  <2>1. /\ state' = [state EXCEPT ![current] = "broken"]
        /\ UNCHANGED <<refcount, mem, pagetable, viewer, halted>>
        /\ current \in Pids /\ state[current] # "free"
    BY <1>4, <1>r DEF PageFault
  <2>2. \A q \in Pids : state'[q] = "free" <=> state[q] = "free"
    BY <1>0, <1>p, <2>1 DEF ProcsOK
  <2> QED BY <1>s, <2>1, <2>2
<1>5. ASSUME NEW va \in VA, PageAlloc(va) PROVE IInv'
  <2> DEFINE new == Kalloc(Memory)
             t == TryMap(Zeroed(new.m, new.p), pagetable[current], va, new.p, TRUE)
  <2>1. /\ current \in Pids /\ state[current] # "free"
        /\ Lookup(Memory, pagetable[current], va) = NoPage
        /\ new.p # NoPage
        /\ SetMemory(t.m) /\ halted' = ~t.ok
        /\ UNCHANGED <<pagetable, state, current, viewer>>
    BY <1>5, <1>r DEF PageAlloc
  <2>2. t.ok = TRUE /\ SpacesOK(t.m, state, pagetable, viewer)
    <3>1. PICK w \in BOOLEAN : w = TRUE
      OBVIOUS
    <3> DEFINE t1 == TryMap(Zeroed(Kalloc(Memory).m, Kalloc(Memory).p), pagetable[current], va,
                            Kalloc(Memory).p, w)
    <3>2. t1.ok = TRUE /\ SpacesOK(t1.m, state, pagetable, viewer)
      BY Zenon, <1>0, <2>1, AllocSpaces
    <3>3. t1 = t
      BY <3>1
    <3> QED BY <3>2, <3>3
  <2> DEFINE m1 == t.m
  <2> HIDE DEF t, m1
  <2>3. SpacesOK(m1, state, pagetable, viewer) /\ SetMemory(m1)
    BY <2>1, <2>2 DEF m1
  <2>4. Memory' = m1
    BY <2>3, MemoryIs
  <2>5. SpacesOK(Memory', state', pagetable', viewer')
    BY <2>1, <2>3, <2>4
  <2> QED BY <1>1, <2>1, <2>2, <2>5 DEF IInv
<1>6. CASE Fork
  <2> DEFINE pid == Min(FreePids)
             copy == CopySpace(Memory, pagetable[current])
             st1 == [state EXCEPT ![pid] = IF copy.ok THEN "runnable" ELSE "free"]
             pt1 == [pagetable EXCEPT ![pid] = copy.root]
  <2>1. pid \in Pids /\ state[pid] = "free"
    BY <1>0, <1>6, FreePid DEF Fork
  <2>2. /\ current \in Pids /\ state[current] # "free"
        /\ SetMemory(copy.m) /\ pagetable' = pt1 /\ state' = st1
        /\ UNCHANGED <<current, viewer, halted>>
    BY <1>6, <1>r DEF Fork, ForkInto
  <2> HIDE DEF pid
  <2>3. SpacesOK(copy.m, st1, pt1, viewer)
    BY <1>0, <2>1, <2>2, ForkSpaces DEF ProcsOK
  <2> DEFINE m1 == copy.m
  <2> HIDE DEF copy, st1, pt1
  <2>4. SpacesOK(m1, state', pagetable', viewer') /\ SetMemory(m1)
    BY <2>2, <2>3
  <2> HIDE DEF m1
  <2>5. Memory' = m1
    BY <2>4, MemoryIs
  <2> QED BY <1>0, <1>1, <2>2, <2>4, <2>5 DEF IInv
<1>7. CASE Exit
  <2>1. /\ state[current] # "free" /\ ExitProc(current) /\ UNCHANGED <<pagetable, viewer>>
    BY <1>7, <1>r DEF Exit
  <2>2. SpacesOK(Memory', state', pagetable', viewer') /\ halted' = FALSE
    BY <2>1, ExitStep
  <2> QED BY <1>1, <2>2 DEF IInv
<1>8. ASSUME NEW pid \in 0..NProc, Kill(pid) PROVE IInv'
  <2>1. /\ pid \in Pids => state[pid] # "free" \/ pagetable[pid] = NoPage
        /\ ExitProc(pid) /\ UNCHANGED <<pagetable, viewer>>
    BY <1>8 DEF Kill
  <2>2. SpacesOK(Memory', state', pagetable', viewer') /\ halted' = FALSE
    BY <2>1, ExitStep
  <2> QED BY <1>1, <2>2 DEF IInv
<1>9. CASE Reboot
  <2>0. mem \in [Phys -> Contents(Values)]
    BY <1>0 DEF SpacesOK, Sound, Memories, Memory
  <2>1. PICK s : /\ s = Started(mem)
                 /\ refcount' = s.refcount /\ mem' = s.mem /\ viewer' = s.viewer
                 /\ pagetable' = s.pagetable /\ state' = s.state /\ halted' = FALSE
    BY <1>9 DEF Reboot
  <2>2. SpacesOK([rc |-> s.refcount, mem |-> s.mem], s.state, s.pagetable, s.viewer)
    BY <2>0, <2>1, StartedOK
  <2>3. SpacesOK(Memory', state', pagetable', viewer')
    BY <2>1, <2>2 DEF Memory
  <2> QED BY <1>1, <2>1, <2>3 DEF IInv
<1>10. CASE UNCHANGED vars
  BY <1>10, <1>s DEF vars
<1> QED BY <1>2, <1>3, <1>4, <1>5, <1>6, <1>7, <1>8, <1>9, <1>10 DEF Next

(* The kernel's invariant. *)
THEOREM Invariance ==
    ASSUME Remap = FALSE, KillStale = FALSE
    PROVE  Spec => []IInv
<1>1. IInv /\ [Next]_vars => IInv'
  BY IInvStep
<1> QED BY IInvInit, <1>1, PTL DEF Spec

-----------------------------------------------------------------------------
(* What follows from the invariant. *)

(* The kernel never panics: map() finds its tables, vmiter no junk. *)
THEOREM NeverPanics ==
    ASSUME Remap = FALSE, KillStale = FALSE
    PROVE  Spec => []NoPanic
<1>1. IInv => NoPanic
  BY DEF IInv, NoPanic
<1> QED BY <1>1, Invariance, PTL

(* The roots of the processes that are not gone are those of the spaces. *)
LEMMA LiveRoots ==
    ASSUME IInv
    PROVE  LET rt == RootsOf(state, pagetable) IN
           /\ Sound(Memory, Values, Pids, rt, Viewed(viewer))
           /\ \A pid \in Live : /\ pid \in Pids /\ rt[pid] = pagetable[pid]
                                /\ Equipped(Memory, rt[pid])
           /\ \A pid \in Pids \ Live : rt[pid] = NoPage
<1>1. SpacesOK(Memory, state, pagetable, viewer)
  BY DEF IInv
<1> QED BY <1>1 DEF SpacesOK, RootsOf, Live

(* What is appended to four things is the fifth.                            *)
LEMMA FifthAppended ==
    ASSUME NEW a, NEW b, NEW c, NEW d, NEW e, NEW s, s = Append(<<a, b, c, d>>, e)
    PROVE  s[1] = a /\ s[2] = b /\ s[3] = c /\ s[4] = d /\ s[5] = e
<1>1. s[1] = a
  OBVIOUS
<1>2. s[2] = b
  OBVIOUS
<1>3. s[3] = c
  OBVIOUS
<1>4. s[4] = d
  OBVIOUS
<1>5. s[5] = e
  OBVIOUS
<1> QED BY <1>1, <1>2, <1>3, <1>4, <1>5

(* The page tables in exit_proc()'s order. *)
LEMMA SpineIs ==
    ASSUME NEW pid
    PROVE  \A i \in 1..5 : Spine(pid)[i] = Slot(Memory, pagetable[pid], NVA + i)
<1> DEFINE root == pagetable[pid]
           a == Level1(Memory, root, 0)
           b == Level1(Memory, root, 1)
           c == Level2(Memory, root)
           d == Level3(Memory, root)
<1>1. /\ Slot(Memory, root, NVA + 1) = a /\ Slot(Memory, root, NVA + 2) = b
      /\ Slot(Memory, root, NVA + 3) = c /\ Slot(Memory, root, NVA + 4) = d
      /\ Slot(Memory, root, NVA + 5) = root
  BY MemoryAssumption DEF Slot
<1>2. Spine(pid) = Append(<<a, b, c, d>>, root)
  BY DEF Spine, TablePages
<1> HIDE DEF a, b, c, d, root
<1>3. /\ Spine(pid)[1] = a /\ Spine(pid)[2] = b /\ Spine(pid)[3] = c /\ Spine(pid)[4] = d
      /\ Spine(pid)[5] = root
  BY <1>2, FifthAppended
<1>4. \A i \in 1..5 : i \in {1, 2, 3, 4, 5}
  OBVIOUS
<1> QED BY <1>1, <1>3, <1>4 DEF root

(* The tables of a process that is not gone are there, and initialized. *)
THEOREM TablesWhole ==
    ASSUME Remap = FALSE, KillStale = FALSE
    PROVE  Spec => []WholeTables
<1>1. IInv => WholeTables
  <2> SUFFICES ASSUME IInv, NEW pid \in Live, NEW i \in 1..5
               PROVE  Spine(pid)[i] # NoPage /\ ~mem[Spine(pid)[i]].junk
    BY DEF WholeTables
  <2> DEFINE rt == RootsOf(state, pagetable)
             t == Slot(Memory, rt[pid], NVA + i)
  <2>1. /\ Sound(Memory, Values, Pids, rt, Viewed(viewer))
        /\ pid \in Pids /\ rt[pid] = pagetable[pid] /\ Equipped(Memory, rt[pid])
    BY LiveRoots
  <2>2. NVA + i \in Tables
    BY MemoryAssumption DEF Tables
  <2>3. Spine(pid)[i] = t
    BY <2>1, SpineIs
  <2> HIDE DEF rt
  <2>4. t # NoPage
    BY <2>1, <2>2, EquippedTables
  <2>5. ~Memory.mem[t].junk
    BY <2>1, <2>2, <2>4 DEF Sound, TablesOwn
  <2> QED BY <2>3, <2>4, <2>5 DEF Memory
<1> QED BY <1>1, Invariance, PTL

(* What a process can write, and its tables, it has for itself. *)
THEOREM PagesPrivate ==
    ASSUME Remap = FALSE, KillStale = FALSE
    PROVE  Spec => []PrivatePages
<1>1. IInv => PrivatePages
  <2> SUFFICES ASSUME IInv, NEW pid \in Live
               PROVE  /\ \A va \in VA : Writable(Memory, pagetable[pid], va) =>
                            refcount[Lookup(Memory, pagetable[pid], va)] = 1
                      /\ \A i \in 1..5 : Spine(pid)[i] # NoPage => refcount[Spine(pid)[i]] = 1
    BY DEF PrivatePages
  <2> DEFINE rt == RootsOf(state, pagetable)
  <2>1. /\ Sound(Memory, Values, Pids, rt, Viewed(viewer))
        /\ pid \in Pids /\ rt[pid] = pagetable[pid]
    BY LiveRoots
  <2>2. Memory.rc = refcount
    BY DEF Memory
  <2> HIDE DEF rt
  <2>3. \A va \in VA : Writable(Memory, pagetable[pid], va) =>
            refcount[Lookup(Memory, pagetable[pid], va)] = 1
    BY <2>1, <2>2 DEF Sound, WritableOwn
  <2>4. \A i \in 1..5 : NVA + i \in Tables
    BY MemoryAssumption DEF Tables
  <2>5. \A i \in 1..5 : Spine(pid)[i] # NoPage => refcount[Spine(pid)[i]] = 1
    BY <2>1, <2>2, <2>4, SpineIs DEF Sound, TablesOwn
  <2> QED BY <2>3, <2>5
<1> QED BY <1>1, Invariance, PTL

(* The references from address spaces are those from pages mapped for the   *)
(* user and those to page tables.                                           *)
LEMMA UsesCounted ==
    ASSUME IInv, NEW pg \in Phys
    PROVE  Cardinality(UserUses(pg)) + Cardinality(TableUses(pg))
               = Cardinality(Refs(Memory, Pids, RootsOf(state, pagetable), pg))
<1> DEFINE rt == RootsOf(state, pagetable)
           R == Refs(Memory, Pids, rt, pg)
           U == UserUses(pg)
           T == TableUses(pg)
           T1 == {k \in R : k[2] \in Tables}
           f == [u \in T |-> <<u[1], NVA + u[2]>>]
<1>1. /\ Sound(Memory, Values, Pids, rt, Viewed(viewer))
      /\ \A pid \in Live : pid \in Pids /\ rt[pid] = pagetable[pid]
      /\ \A pid \in Pids \ Live : rt[pid] = NoPage
  BY LiveRoots
<1> HIDE DEF rt
<1>2. pg # NoPage
  BY DEF Phys, NoPage
<1>3. \A k \in R : /\ k = <<k[1], k[2]>> /\ k[1] \in Live /\ k[2] \in Places
                   /\ Slot(Memory, pagetable[k[1]], k[2]) = pg
  <2>1. ASSUME NEW q \in Pids, NEW j \in Places, Slot(Memory, rt[q], j) = pg
        PROVE  q \in Live /\ rt[q] = pagetable[q]
    BY <1>1, <1>2, <2>1, NoSpace
  <2> QED BY <2>1 DEF Refs
<1>4. R = U \cup T1 /\ U \cap T1 = {}
  <2>1. ASSUME NEW k \in R PROVE k \in U \/ k \in T1
    <3>1. CASE k[2] \in VA
      <4>1. Lookup(Memory, pagetable[k[1]], k[2]) = pg
        BY <1>3, <3>1, LeafPlace
      <4> QED BY <1>3, <3>1, <4>1 DEF UserUses
    <3>2. CASE k[2] \notin VA
      <4>1. k[2] \in Tables
        BY <1>3, <3>2, MemoryAssumption DEF Places, VA, Tables
      <4> QED BY <4>1
    <3> QED BY <3>1, <3>2
  <2>2. ASSUME NEW u \in U PROVE u \in R /\ u \notin T1
    <3>1. PICK pid \in Live, va \in VA : u = <<pid, va>>
                                          /\ Lookup(Memory, pagetable[pid], va) = pg
      BY DEF UserUses
    <3>2. va \in Places /\ va \notin Tables /\ Slot(Memory, rt[pid], va) = pg
      BY <1>1, <3>1, LeafPlace, MemoryAssumption DEF VA, Tables, Places
    <3> QED BY <1>1, <3>1, <3>2 DEF Refs
  <2> QED BY <2>1, <2>2
<1>5. f \in Surjection(T, T1) /\ f \in Injection(T, T1)
  <2>1. ASSUME NEW u \in T PROVE f[u] \in T1
    <3>1. PICK pid \in Live, i \in 1..5 : u = <<pid, i>> /\ Spine(pid)[i] = pg
      BY DEF TableUses
    <3>2. f[u] = <<pid, NVA + i>> /\ NVA + i \in Tables /\ NVA + i \in Places
      BY <3>1, MemoryAssumption DEF Tables, Places
    <3>3. Slot(Memory, rt[pid], NVA + i) = pg
      BY <1>1, <3>1, SpineIs
    <3> QED BY <1>1, <3>2, <3>3 DEF Refs
  <2>2. ASSUME NEW k \in T1 PROVE \E u \in T : f[u] = k
    <3> DEFINE i == k[2] - NVA
               u == <<k[1], i>>
    <3>1. i \in 1..5 /\ NVA + i = k[2]
      BY MemoryAssumption DEF Tables
    <3>2. Spine(k[1])[i] = pg
      BY <1>3, <3>1, SpineIs
    <3>3. u \in T
      BY <1>3, <3>1, <3>2 DEF TableUses
    <3>4. f[u] = k
      BY <1>3, <3>1, <3>3
    <3> QED BY <3>3, <3>4
  <2>3. ASSUME NEW u \in T, NEW w \in T, f[u] = f[w] PROVE u = w
    <3>1. u = <<u[1], u[2]>> /\ w = <<w[1], w[2]>> /\ u[2] \in 1..5 /\ w[2] \in 1..5
      BY DEF TableUses
    <3>2. u[1] = w[1] /\ NVA + u[2] = NVA + w[2]
      BY <2>3
    <3>3. u[2] = w[2]
      BY <3>1, <3>2, MemoryAssumption
    <3> QED BY <3>1, <3>2, <3>3
  <2>4. f \in [T -> T1]
    BY <2>1
  <2> HIDE DEF f, T, T1
  <2> QED BY <2>2, <2>3, <2>4 DEF Surjection, Injection, IsInjective
<1>6. IsFiniteSet(R)
  BY <1>1, RefsFinite DEF Sound, Setting
<1>7. IsFiniteSet(U) /\ IsFiniteSet(T1)
  BY <1>4, <1>6, FS_Subset
<1>8. IsFiniteSet(T) /\ Cardinality(T) = Cardinality(T1)
  <2> HIDE DEF f, T, T1
  <2>1. IsFiniteSet(T)
    BY <1>5, <1>7, FS_Injection
  <2> QED BY <1>5, <2>1, FS_Surjection
<1> HIDE DEF R, U, T1, T
<1>9. Cardinality(U \cup T1) = Cardinality(U) + Cardinality(T1) - Cardinality(U \cap T1)
  BY <1>7, FS_Union
<1>10. Cardinality(U \cap T1) = 0
  BY <1>4, FS_EmptySet
<1>11. Cardinality(U) \in Nat /\ Cardinality(T1) \in Nat
  BY <1>7, FS_CardinalityType
<1>12. Cardinality(U) + Cardinality(T) = Cardinality(R)
  BY <1>4, <1>8, <1>9, <1>10, <1>11
<1> QED BY <1>12 DEF R, U, T, rt

(* Every page counts the references to it, no fewer and no more. *)
THEOREM CountsExact ==
    ASSUME Remap = FALSE, KillStale = FALSE
    PROVE  Spec => []RefcountsExact
<1>1. IInv => RefcountsExact
  <2> SUFFICES ASSUME IInv, NEW pg \in Phys PROVE refcount[pg] = Uses(pg)
    BY DEF RefcountsExact
  <2>1. Memory.rc[pg] = Cardinality(Refs(Memory, Pids, RootsOf(state, pagetable), pg))
                            + Viewed(viewer)[pg]
    BY LiveRoots DEF Sound, CountsRight
  <2>2. Viewed(viewer)[pg] = IF viewer = pg THEN 1 ELSE 0
    BY DEF Viewed
  <2>3. Memory.rc = refcount
    BY DEF Memory
  <2> QED BY <2>1, <2>2, <2>3, UsesCounted DEF Uses
<1> QED BY <1>1, Invariance, PTL

(* Everything has its type. *)
THEOREM TypeCorrect ==
    ASSUME Remap = FALSE, KillStale = FALSE
    PROVE  Spec => []TypeOK
<1>1. IInv => TypeOK
  <2> SUFFICES ASSUME IInv PROVE TypeOK
    OBVIOUS
  <2>1. /\ ProcsOK /\ halted = FALSE
        /\ pagetable \in [Pids -> Phys \cup {NoPage}] /\ viewer \in Phys
        /\ Memory \in Memories(Values)
    BY DEF IInv, SpacesOK, Sound
  <2>2. refcount \in [Phys -> 0..255] /\ mem \in [Phys -> Contents(Values)]
    BY <2>1 DEF Memories, Memory
  <2>3. ASSUME NEW p \in Phys
        PROVE  /\ mem[p].junk \in BOOLEAN /\ mem[p].data \in Values
               /\ DOMAIN mem[p].e \subseteq 0..NVA
               /\ \A i \in DOMAIN mem[p].e : mem[p].e[i] \in [pa : Phys, w : BOOLEAN]
    <3>1. /\ mem[p].junk \in BOOLEAN /\ mem[p].data \in Values
          /\ mem[p].e \in EntryMaps
      BY <2>2 DEF Contents
    <3>2. PICK X \in SUBSET (0..NVA) : mem[p].e \in [X -> [pa : Phys, w : BOOLEAN]]
      BY <3>1 DEF EntryMaps
    <3> QED BY <3>1, <3>2
  <2> QED BY <2>1, <2>2, <2>3 DEF TypeOK, ProcsOK
<1> QED BY <1>1, Invariance, PTL

(* A fork that gives no new process gives back all it took: every page has   *)
(* the count it had.                                                         *)
THEOREM ForkLeavesNoTrace ==
    ASSUME Remap = FALSE, KillStale = FALSE
    PROVE  Spec => ForkAllOrNothing
<1>1. ASSUME IInv, Fork, state' = state PROVE refcount' = refcount
  <2> DEFINE pid == Min(FreePids)
             rt == RootsOf(state, pagetable)
             copy == CopySpace(Memory, pagetable[current])
  <2>1. pid \in Pids /\ state[pid] = "free" /\ current \in Live
    BY <1>1, FreePid DEF Fork, Running, IInv, ProcsOK, Live
  <2>2. /\ refcount' = copy.m.rc
        /\ state' = [state EXCEPT ![pid] = IF copy.ok THEN "runnable" ELSE "free"]
    BY <1>1 DEF Fork, ForkInto, SetMemory
  <2>3. /\ Sound(Memory, Values, Pids, rt, Viewed(viewer))
        /\ current \in Pids /\ rt[current] = pagetable[current]
    BY <1>1, <2>1, LiveRoots
  <2>4. rt[pid] = NoPage /\ pid # current
    BY <2>1 DEF RootsOf, Live
  <2> HIDE DEF rt, pid
  <2>5. ~copy.ok
    <3> HIDE DEF copy
    <3>1. state'[pid] = IF copy.ok THEN "runnable" ELSE "free"
      BY <1>1, <2>1, <2>2 DEF IInv, ProcsOK, Pids
    <3> QED BY <1>1, <2>1, <3>1
  <2>6. copy.m.rc = Memory.rc
    BY <2>1, <2>3, <2>4, <2>5, FailedForkRestores
  <2> QED BY <2>2, <2>6 DEF Memory
<1>2. IInv => [Fork /\ state' = state => refcount' = refcount]_vars
  BY <1>1
<1>3. IInv /\ [Next]_vars => [Fork /\ state' = state => refcount' = refcount]_vars
  BY <1>2
<1> QED BY <1>3, Invariance, PTL DEF Spec, ForkAllOrNothing

-----------------------------------------------------------------------------
(* The kernel implements ProcSpace: address spaces are isolated.            *)

(* Which virtual pages a process has. *)
LEMMA SpaceDomain ==
    ASSUME NEW m, NEW root
    PROVE  \A va : va \in DOMAIN Space(m, root) <=> va \in VA /\ Slot(m, root, va) # NoPage
<1>1. \A va \in VA : Slot(m, root, va) = Lookup(m, root, va)
  BY LeafPlace
<1>2. DOMAIN Space(m, root) = {a \in VA : Lookup(m, root, a) # NoPage}
  BY DEF Space
<1> QED BY <1>1, <1>2

(* What a process sees of its pages: their values, and which it can write.  *)
LEMMA SpaceAt ==
    ASSUME NEW m, NEW root, NEW va \in VA, Slot(m, root, va) # NoPage
    PROVE  Space(m, root)[va] = [v |-> m.mem[Slot(m, root, va)].data,
                                 w |-> Writable(m, root, va)]
<1>1. Slot(m, root, va) = Lookup(m, root, va)
  BY LeafPlace
<1>2. va \in {a \in VA : Lookup(m, root, a) # NoPage}
  BY <1>1
<1>3. Space(m, root)[va] = [v |-> m.mem[Lookup(m, root, va)].data,
                            w |-> Writable(m, root, va)]
  BY <1>2, Zenon DEF Space
<1> QED BY <1>1, <1>3

(* It is a function. *)
LEMMA SpaceFunction ==
    ASSUME NEW m, NEW root
    PROVE  Space(m, root) = [va \in DOMAIN Space(m, root) |-> Space(m, root)[va]]
BY DEF Space

(* Two spaces that look alike are equal. *)
LEMMA SpacesEqual ==
    ASSUME NEW m, NEW root, NEW m1, NEW root1,
           \A va \in VA :
               /\ Slot(m1, root1, va) = NoPage <=> Slot(m, root, va) = NoPage
               /\ Writable(m1, root1, va) <=> Writable(m, root, va)
               /\ Slot(m, root, va) # NoPage =>
                      m1.mem[Slot(m1, root1, va)].data = m.mem[Slot(m, root, va)].data
    PROVE  Space(m1, root1) = Space(m, root)
<1>1. \A va \in VA : Writable(m, root, va) \in BOOLEAN /\ Writable(m1, root1, va) \in BOOLEAN
  BY DEF Writable
<1>2. DOMAIN Space(m1, root1) = DOMAIN Space(m, root)
  BY SpaceDomain
<1>3. ASSUME NEW va \in DOMAIN Space(m, root)
      PROVE  Space(m1, root1)[va] = Space(m, root)[va]
  <2>1. va \in VA /\ Slot(m, root, va) # NoPage /\ Slot(m1, root1, va) # NoPage
    BY SpaceDomain
  <2>2. Writable(m1, root1, va) = Writable(m, root, va)
    BY <1>1, <2>1
  <2>3. Space(m, root)[va] = [v |-> m.mem[Slot(m, root, va)].data, w |-> Writable(m, root, va)]
    BY <2>1, SpaceAt, Zenon
  <2>4. Space(m1, root1)[va] = [v |-> m1.mem[Slot(m1, root1, va)].data,
                                w |-> Writable(m1, root1, va)]
    BY <2>1, SpaceAt, Zenon
  <2>5. m1.mem[Slot(m1, root1, va)].data = m.mem[Slot(m, root, va)].data
    BY <2>1
  <2> HIDE DEF Space
  <2> QED BY <2>2, <2>3, <2>4, <2>5, Zenon
<1> DEFINE S == Space(m, root)
           S1 == Space(m1, root1)
<1>4. S = [va \in DOMAIN S |-> S[va]]
  BY SpaceFunction, Zenon
<1>5. S1 = [va \in DOMAIN S1 |-> S1[va]]
  BY SpaceFunction, Zenon
<1>6. DOMAIN S1 = DOMAIN S /\ \A va \in DOMAIN S : S1[va] = S[va]
  BY <1>2, <1>3
<1> HIDE DEF S, S1
<1>7. S1 = S
  BY <1>4, <1>5, <1>6
<1> QED BY <1>7 DEF S, S1

(* A process sees the same space if it is the same, with the same data. *)
LEMMA SpaceKept ==
    ASSUME NEW m, NEW m1, NEW root, SameSpace(m, m1, root),
           \A va \in VA : LET p == Slot(m, root, va) IN
               p # NoPage => m1.mem[p].data = m.mem[p].data
    PROVE  Space(m1, root) = Space(m, root)
<1>1. \A va \in VA : va \in Places
  BY LeafPlace
<1>2. \A va \in VA :
         /\ Slot(m1, root, va) = Slot(m, root, va)
         /\ Writable(m1, root, va) <=> Writable(m, root, va)
  BY <1>1 DEF SameSpace
<1> QED BY <1>2, SpacesEqual

(* A function that differs from another in one place. *)
LEMMA OneChanged ==
    ASSUME NEW S, NEW f, NEW g, f = [q \in S |-> f[q]], g = [q \in S |-> g[q]],
           NEW c \in S, \A q \in S \ {c} : g[q] = f[q]
    PROVE  g = [f EXCEPT ![c] = g[c]]
OBVIOUS

(* The spaces of all processes, one by one. *)
LEMMA SpacesAre ==
    ASSUME NEW m, NEW st, NEW pt
    PROVE  SpacesOf(m, st, pt) = [q \in Pids |-> SpacesOf(m, st, pt)[q]]
BY DEF SpacesOf

(* The space of a process: none if it is gone. *)
LEMMA SpaceOfOne ==
    ASSUME NEW m, NEW st, NEW pt, NEW q \in Pids
    PROVE  /\ st[q] = "free" => SpacesOf(m, st, pt)[q] = [va \in {} |-> 0]
           /\ st[q] # "free" => SpacesOf(m, st, pt)[q] = Space(m, pt[q])
BY DEF SpacesOf

(* What is to be seen of a write of x at va by process c.                   *)
WriteShown(m, m1, st, pt, c, va, x) ==
    /\ \A q \in Pids \ {c} : st[q] # "free" => Space(m1, pt[q]) = Space(m, pt[q])
    /\ DOMAIN Space(m1, pt[c]) = DOMAIN Space(m, pt[c])
    /\ va \in DOMAIN Space(m, pt[c])
    /\ \A a \in DOMAIN Space(m, pt[c]) \ {va} : Space(m1, pt[c])[a] = Space(m, pt[c])[a]
    /\ Space(m, pt[c])[va].w = TRUE
    /\ Space(m1, pt[c])[va] = [v |-> x, w |-> TRUE]
    /\ \E d : Space(m, pt[c])[va] = [v |-> d, w |-> TRUE]

(* A write is seen where it was made, and nowhere else: no other process    *)
(* and no other address has the page.                                       *)
LEMMA WriteSeen ==
    ASSUME NEW m, NEW st, NEW pt, NEW v, SpacesOK(m, st, pt, v),
           NEW c \in Pids, st[c] # "free", NEW va \in VA, Writable(m, pt[c], va),
           NEW x \in Values, NEW m1,
           m1 = Poked(m, Lookup(m, pt[c], va), x)
    PROVE  WriteShown(m, m1, st, pt, c, va, x)
<1> DEFINE rt == RootsOf(st, pt)
           other == Viewed(v)
           p == Slot(m, pt[c], va)
<1>1. /\ Sound(m, Values, Pids, rt, other)
      /\ \A q \in Pids : st[q] # "free" => rt[q] = pt[q]
  BY DEF SpacesOK, RootsOf
<1> HIDE DEF rt, other
<1>2. p = Lookup(m, pt[c], va) /\ va \in Places /\ p # NoPage
  BY LeafPlace DEF Writable
<1>3. rt[c] = pt[c] /\ p \in Phys /\ m.rc[p] = 1
  <2>1. rt[c] = pt[c]
    BY <1>1
  <2>2. p \in Phys
    BY <1>1, <1>2, <2>1, ReferredPositive
  <2>3. m.rc[p] = 1
    BY <1>1, <1>2, <2>1 DEF Sound, WritableOwn
  <2> QED BY <2>1, <2>2, <2>3
<1>4. \A r \in Pids, j \in Places : Slot(m, rt[r], j) = p => r = c /\ j = va
  BY <1>1, <1>2, <1>3, SoleReference
<1>5. m1 = Poked(m, p, x)
  BY <1>2
<1> HIDE DEF p
<1>6. /\ \A q \in Pids : SameSpace(m, m1, rt[q])
      /\ m1.mem[p].data = x
      /\ \A o \in Phys \ {p} : m1.mem[o].data = m.mem[o].data
  BY <1>1, <1>3, <1>5, WriteSound
<1>7. \A q \in Pids, j \in Places : Slot(m, rt[q], j) # NoPage => Slot(m, rt[q], j) \in Phys
  BY <1>1, ReferredPositive
<1>8. \A a \in VA : a \in Places
  BY LeafPlace
<1>9. ASSUME NEW q \in Pids \ {c}, st[q] # "free" PROVE Space(m1, pt[q]) = Space(m, pt[q])
  <2>1. rt[q] = pt[q]
    BY <1>1, <1>9
  <2>2. \A a \in VA : Slot(m, pt[q], a) # NoPage =>
            m1.mem[Slot(m, pt[q], a)].data = m.mem[Slot(m, pt[q], a)].data
    BY <1>4, <1>6, <1>7, <1>8, <2>1
  <2> QED BY <1>6, <2>1, <2>2, SpaceKept
<1>10. /\ \A a \in VA : /\ Slot(m1, pt[c], a) = Slot(m, pt[c], a)
                        /\ Writable(m1, pt[c], a) <=> Writable(m, pt[c], a)
  BY <1>3, <1>6, <1>8 DEF SameSpace
<1>11. DOMAIN Space(m1, pt[c]) = DOMAIN Space(m, pt[c])
  BY <1>10, SpaceDomain
<1>12. va \in DOMAIN Space(m, pt[c])
  BY <1>2, SpaceDomain DEF p
<1>13. \A a \in VA : Writable(m1, pt[c], a) = Writable(m, pt[c], a)
  BY <1>10 DEF Writable
<1>14. ASSUME NEW a \in DOMAIN Space(m, pt[c]) \ {va}
       PROVE  Space(m1, pt[c])[a] = Space(m, pt[c])[a]
  <2>1. a \in VA /\ Slot(m, pt[c], a) # NoPage /\ Slot(m1, pt[c], a) # NoPage
    BY <1>10, SpaceDomain
  <2>2. m1.mem[Slot(m1, pt[c], a)].data = m.mem[Slot(m, pt[c], a)].data
    BY <1>3, <1>4, <1>6, <1>7, <1>8, <1>10, <2>1
  <2>3. Space(m, pt[c])[a] = [v |-> m.mem[Slot(m, pt[c], a)].data, w |-> Writable(m, pt[c], a)]
    BY <2>1, SpaceAt, Zenon
  <2>4. Space(m1, pt[c])[a] = [v |-> m1.mem[Slot(m1, pt[c], a)].data,
                               w |-> Writable(m1, pt[c], a)]
    BY <2>1, SpaceAt, Zenon
  <2>5. Writable(m1, pt[c], a) = Writable(m, pt[c], a)
    BY <1>13, <2>1
  <2> QED BY <2>2, <2>3, <2>4, <2>5, Zenon
<1>15. Writable(m, pt[c], va) = TRUE /\ Writable(m1, pt[c], va) = TRUE
  BY <1>13 DEF Writable
<1>16. Slot(m, pt[c], va) # NoPage /\ Slot(m1, pt[c], va) = Slot(m, pt[c], va)
  BY <1>2, <1>10 DEF p
<1>17. Space(m, pt[c])[va] = [v |-> m.mem[Slot(m, pt[c], va)].data, w |-> Writable(m, pt[c], va)]
  BY <1>16, SpaceAt, Zenon
<1>18. Space(m1, pt[c])[va] = [v |-> m1.mem[Slot(m1, pt[c], va)].data,
                               w |-> Writable(m1, pt[c], va)]
  BY <1>16, SpaceAt, Zenon
<1>19. m1.mem[Slot(m1, pt[c], va)].data = x
  BY <1>6, <1>16 DEF p
<1>20. Space(m1, pt[c])[va] = [v |-> x, w |-> TRUE]
  BY <1>15, <1>18, <1>19, Zenon
<1>21. Space(m, pt[c])[va] = [v |-> m.mem[Slot(m, pt[c], va)].data, w |-> TRUE]
  BY <1>15, <1>17, Zenon
<1>22. Space(m, pt[c])[va].w = TRUE
  BY <1>21
<1> QED BY <1>9, <1>11, <1>12, <1>14, <1>20, <1>21, <1>22, Zenon DEF WriteShown

(* What is to be seen of a page allocated at va by process c.               *)
AllocShown(m, m1, st, pt, c, va) ==
    /\ \A q \in Pids \ {c} : st[q] # "free" => Space(m1, pt[q]) = Space(m, pt[q])
    /\ DOMAIN Space(m1, pt[c]) = DOMAIN Space(m, pt[c]) \cup {va}
    /\ va \notin DOMAIN Space(m, pt[c])
    /\ \A a \in DOMAIN Space(m, pt[c]) : Space(m1, pt[c])[a] = Space(m, pt[c])[a]
    /\ Space(m1, pt[c])[va] = [v |-> 0, w |-> TRUE]

(* A page allocated is seen where it was mapped, holding 0. *)
LEMMA AllocSeen ==
    ASSUME NEW m, NEW st, NEW pt, NEW v, SpacesOK(m, st, pt, v), NEW t,
           NEW c \in Pids, st[c] # "free", NEW va \in VA, Lookup(m, pt[c], va) = NoPage,
           NEW n \in Phys, NEW w \in BOOLEAN, w = TRUE,
           NewPage(m, t, Values, Pids, RootsOf(st, pt), Viewed(v), c, va, n, w)
    PROVE  AllocShown(m, t.m, st, pt, c, va)
<1> DEFINE rt == RootsOf(st, pt)
           other == Viewed(v)
           m1 == t.m
<1>1. /\ Sound(m, Values, Pids, rt, other)
      /\ \A q \in Pids : st[q] # "free" => rt[q] = pt[q]
      /\ NewPage(m, t, Values, Pids, rt, other, c, va, n, w)
  BY DEF SpacesOK, RootsOf
<1> HIDE DEF rt, other
<1>2. /\ OthersSame(m, m1, Pids, rt, c) /\ KeepsData(m, m1)
      /\ \A j \in VA : /\ Slot(m1, rt[c], j) = IF j = va THEN n ELSE Slot(m, rt[c], j)
                       /\ Writable(m1, rt[c], j) <=>
                              IF j = va THEN w ELSE Writable(m, rt[c], j)
      /\ m1.mem[n].data = 0
  BY <1>1 DEF NewPage, Mapped
<1>3. rt[c] = pt[c] /\ Slot(m, pt[c], va) = NoPage
  BY <1>1, LeafPlace
<1>4. \A q \in Pids, j \in Places : Slot(m, rt[q], j) # NoPage =>
          m1.mem[Slot(m, rt[q], j)].data = m.mem[Slot(m, rt[q], j)].data
  BY <1>1, <1>2, ReferredPositive DEF KeepsData
<1>5. \A a \in VA : a \in Places
  BY LeafPlace
<1> HIDE DEF m1
<1>6. ASSUME NEW q \in Pids \ {c}, st[q] # "free" PROVE Space(m1, pt[q]) = Space(m, pt[q])
  <2>1. rt[q] = pt[q] /\ SameSpace(m, m1, rt[q])
    BY <1>1, <1>2, <1>6 DEF OthersSame
  <2>2. \A a \in VA : Slot(m, pt[q], a) # NoPage =>
            m1.mem[Slot(m, pt[q], a)].data = m.mem[Slot(m, pt[q], a)].data
    BY <1>4, <1>5, <2>1
  <2> QED BY <2>1, <2>2, SpaceKept
<1>7. n # NoPage
  BY DEF Phys, NoPage
<1>8. \A a : a \in DOMAIN Space(m, pt[c]) <=> a \in VA /\ Slot(m, pt[c], a) # NoPage
  BY SpaceDomain
<1>9. \A a : a \in DOMAIN Space(m1, pt[c]) <=> a \in VA /\ Slot(m1, pt[c], a) # NoPage
  BY SpaceDomain
<1>10. DOMAIN Space(m1, pt[c]) = DOMAIN Space(m, pt[c]) \cup {va}
  BY <1>2, <1>3, <1>7, <1>8, <1>9
<1>11. va \notin DOMAIN Space(m, pt[c])
  BY <1>3, <1>8
<1>12. ASSUME NEW a \in DOMAIN Space(m, pt[c])
       PROVE  Space(m1, pt[c])[a] = Space(m, pt[c])[a]
  <2>1. a \in VA /\ Slot(m, pt[c], a) # NoPage /\ a # va
    BY <1>8, <1>11
  <2>2. /\ Slot(m1, pt[c], a) = Slot(m, pt[c], a)
        /\ Writable(m1, pt[c], a) <=> Writable(m, pt[c], a)
    BY <1>2, <1>3, <2>1
  <2>3. Writable(m1, pt[c], a) = Writable(m, pt[c], a)
    BY <2>2 DEF Writable
  <2>4. m1.mem[Slot(m1, pt[c], a)].data = m.mem[Slot(m, pt[c], a)].data
    BY <1>3, <1>4, <1>5, <2>1, <2>2
  <2>5. Slot(m1, pt[c], a) # NoPage
    BY <2>1, <2>2
  <2>6. Space(m, pt[c])[a] = [v |-> m.mem[Slot(m, pt[c], a)].data, w |-> Writable(m, pt[c], a)]
    BY <2>1, SpaceAt, Zenon
  <2>7. Space(m1, pt[c])[a] = [v |-> m1.mem[Slot(m1, pt[c], a)].data,
                               w |-> Writable(m1, pt[c], a)]
    BY <2>1, <2>5, SpaceAt, Zenon
  <2> QED BY <2>3, <2>4, <2>6, <2>7, Zenon
<1>13. Space(m1, pt[c])[va] = [v |-> 0, w |-> TRUE]
  <2>1. Slot(m1, pt[c], va) = n /\ (Writable(m1, pt[c], va) <=> w)
    BY <1>2, <1>3
  <2>2. Writable(m1, pt[c], va) = TRUE
    BY <2>1 DEF Writable
  <2>3. Slot(m1, pt[c], va) # NoPage
    BY <1>7, <2>1
  <2>4. Space(m1, pt[c])[va] = [v |-> m1.mem[Slot(m1, pt[c], va)].data,
                                w |-> Writable(m1, pt[c], va)]
    BY <2>3, SpaceAt, Zenon
  <2>5. m1.mem[Slot(m1, pt[c], va)].data = 0
    BY <1>2, <2>1
  <2> QED BY <2>2, <2>4, <2>5, Zenon
<1> HIDE DEF m1
<1>14. AllocShown(m, m1, st, pt, c, va)
  BY <1>6, <1>10, <1>11, <1>12, <1>13, Zenon DEF AllocShown
<1> QED BY <1>14 DEF m1

(* What is to be seen of a fork of process r.                               *)
ForkShown(m, s, st, pt, r) ==
    /\ \A q \in Pids : st[q] # "free" => Space(s.m, pt[q]) = Space(m, pt[q])
    /\ s.ok => Space(s.m, s.root) = Space(m, pt[r])

(* A fork that succeeded gives the child the space of its parent; a failed  *)
(* one changes nobody's.                                                    *)
LEMMA ForkSeen ==
    ASSUME NEW m, NEW st, NEW pt, NEW v, SpacesOK(m, st, pt, v),
           NEW c \in Pids, st[c] = "free", NEW r \in Pids, st[r] # "free",
           NEW s, Forked(m, s, Values, Pids, RootsOf(st, pt), Viewed(v), r, c)
    PROVE  ForkShown(m, s, st, pt, r)
<1> DEFINE rt == RootsOf(st, pt)
           other == Viewed(v)
           m1 == s.m
<1>1. /\ Sound(m, Values, Pids, rt, other)
      /\ \A q \in Pids : st[q] # "free" => rt[q] = pt[q]
      /\ Forked(m, s, Values, Pids, rt, other, r, c)
      /\ rt \in [Pids -> Phys \cup {NoPage}]
  BY DEF SpacesOK, RootsOf, Sound, Setting
<1> HIDE DEF rt, other
<1>2. OthersSame(m, m1, Pids, rt, c) /\ s.ok \in BOOLEAN
  BY <1>1 DEF Forked
<1>3. \A a \in VA : a \in Places
  BY LeafPlace
<1>4. ASSUME NEW q \in Pids, st[q] # "free", NEW a \in VA, Slot(m, rt[q], a) # NoPage
      PROVE  m1.mem[Slot(m, rt[q], a)].data = m.mem[Slot(m, rt[q], a)].data
  <2>1. Slot(m, rt[q], a) \in Phys /\ m.rc[Slot(m, rt[q], a)] > 0
    BY <1>1, <1>3, <1>4, ReferredPositive
  <2>2. CASE s.ok
    BY <1>1, <2>1, <2>2 DEF Forked, KeepsData
  <2>3. CASE ~s.ok
    <3>1. Sound(m1, Values, Pids, rt, other) /\ DataAlike(m, m1)
      BY <1>1, <2>3 DEF Forked
    <3>2. q # c /\ Slot(m1, rt[q], a) = Slot(m, rt[q], a)
      BY <1>2, <1>3, <1>4 DEF OthersSame, SameSpace
    <3>3. m1.rc[Slot(m, rt[q], a)] > 0
      BY <1>3, <1>4, <3>1, <3>2, ReferredPositive
    <3> QED BY <2>1, <3>1, <3>3 DEF DataAlike
  <2> QED BY <1>2, <2>2, <2>3
<1>5. ASSUME NEW q \in Pids, st[q] # "free" PROVE Space(m1, pt[q]) = Space(m, pt[q])
  <2>1. rt[q] = pt[q] /\ SameSpace(m, m1, rt[q])
    BY <1>1, <1>2, <1>5 DEF OthersSame
  <2>2. \A a \in VA : Slot(m, pt[q], a) # NoPage =>
            m1.mem[Slot(m, pt[q], a)].data = m.mem[Slot(m, pt[q], a)].data
    BY <1>4, <1>5, <2>1
  <2> HIDE DEF m1
  <2> QED BY <2>1, <2>2, SpaceKept
<1>6. ASSUME s.ok PROVE Space(m1, s.root) = Space(m, pt[r])
  <2> DEFINE rt1 == [rt EXCEPT ![c] = s.root]
  <2>1. CopiedUpTo(m, m1, rt1, r, c, NVA)
    BY <1>1, <1>6 DEF Forked
  <2>2. rt1[c] = s.root /\ rt1[r] = pt[r]
    BY <1>1
  <2> HIDE DEF rt1, m1
  <2>3. \A a \in VA : a <= NVA
    BY MemoryAssumption DEF VA
  <2>4. \A a \in VA :
           /\ Slot(m1, s.root, a) = NoPage <=> Slot(m, pt[r], a) = NoPage
           /\ Writable(m1, s.root, a) <=> Writable(m, pt[r], a)
           /\ Slot(m, pt[r], a) # NoPage =>
                  m1.mem[Slot(m1, s.root, a)].data = m.mem[Slot(m, pt[r], a)].data
    BY <2>1, <2>2, <2>3 DEF CopiedUpTo
  <2> QED BY <2>4, SpacesEqual
<1> QED BY <1>5, <1>6 DEF m1, ForkShown

(* Where all spaces stay as they are so does what processes see. *)
LEMMA SpacesSame ==
    ASSUME NEW m, NEW st, NEW pt, NEW m1, NEW st1, NEW pt1,
           \A q \in Pids : st1[q] = "free" <=> st[q] = "free",
           \A q \in Pids : st[q] # "free" => Space(m1, pt1[q]) = Space(m, pt[q])
    PROVE  SpacesOf(m1, st1, pt1) = SpacesOf(m, st, pt)
<1> DEFINE f == SpacesOf(m, st, pt)
           g == SpacesOf(m1, st1, pt1)
<1>1. f = [q \in Pids |-> f[q]]
  BY SpacesAre
<1>2. g = [q \in Pids |-> g[q]]
  BY SpacesAre
<1>3. ASSUME NEW q \in Pids PROVE g[q] = f[q]
  <2>1. CASE st[q] = "free"
    <3>1. st1[q] = "free"
      BY <2>1
    <3>2. f[q] = [va \in {} |-> 0]
      BY <2>1, SpaceOfOne
    <3>3. g[q] = [va \in {} |-> 0]
      BY <3>1, SpaceOfOne
    <3> QED BY <3>2, <3>3, Zenon
  <2>2. CASE st[q] # "free"
    <3>1. st1[q] # "free"
      BY <2>2
    <3>2. f[q] = Space(m, pt[q])
      BY <2>2, SpaceOfOne
    <3>3. g[q] = Space(m1, pt1[q])
      BY <3>1, SpaceOfOne
    <3> QED BY <2>2, <3>2, <3>3
  <2> QED BY <2>1, <2>2
<1> HIDE DEF f, g
<1>4. g = f
  BY <1>1, <1>2, <1>3
<1> QED BY <1>4 DEF f, g

(* The space of one process at most is another. *)
OneOther(f, g, c) ==
    /\ f = [q \in Pids |-> f[q]] /\ g = [q \in Pids |-> g[q]]
    /\ \A q \in Pids \ {c} : g[q] = f[q]

(* If the tables of the others lead to the same memory, so do their spaces. *)
LEMMA SpacesOneChanged ==
    ASSUME NEW m, NEW st, NEW pt, NEW m1, NEW st1, NEW pt1, NEW c \in Pids,
           \A q \in Pids \ {c} : st1[q] = "free" <=> st[q] = "free",
           \A q \in Pids \ {c} : st[q] # "free" => Space(m1, pt1[q]) = Space(m, pt[q])
    PROVE  OneOther(SpacesOf(m, st, pt), SpacesOf(m1, st1, pt1), c)
<1> DEFINE f == SpacesOf(m, st, pt)
           g == SpacesOf(m1, st1, pt1)
<1>1. f = [q \in Pids |-> f[q]]
  BY SpacesAre
<1>2. g = [q \in Pids |-> g[q]]
  BY SpacesAre
<1>3. ASSUME NEW q \in Pids \ {c} PROVE g[q] = f[q]
  <2>1. CASE st[q] = "free"
    <3>1. st1[q] = "free"
      BY <2>1
    <3>2. f[q] = [va \in {} |-> 0]
      BY <2>1, SpaceOfOne
    <3>3. g[q] = [va \in {} |-> 0]
      BY <3>1, SpaceOfOne
    <3> QED BY <3>2, <3>3, Zenon
  <2>2. CASE st[q] # "free"
    <3>1. st1[q] # "free"
      BY <2>2
    <3>2. f[q] = Space(m, pt[q])
      BY <2>2, SpaceOfOne
    <3>3. g[q] = Space(m1, pt1[q])
      BY <3>1, SpaceOfOne
    <3> QED BY <2>2, <3>2, <3>3
  <2> QED BY <2>1, <2>2
<1> HIDE DEF f, g
<1>4. OneOther(f, g, c)
  BY <1>1, <1>2, <1>3 DEF OneOther
<1> QED BY <1>4 DEF f, g

(* A step of the kernel that is no step of ProcSpace. *)
Unseen == Spaces' = Spaces /\ [q \in Pids |-> state[q]]' = [q \in Pids |-> state[q]]
LEMMA NothingSeen ==
    ASSUME \A q \in Pids : state'[q] = state[q], Spaces' = Spaces
    PROVE  Unseen
BY DEF Unseen

(* The running process. *)
LEMMA RunningLive ==
    ASSUME IInv, Running
    PROVE  current \in Pids /\ state[current] = "runnable" /\ state[current] # "free"
BY DEF IInv, ProcsOK, Running

(* A step in which one process at most changes its space changes that.      *)
LEMMA OtherIs ==
    ASSUME NEW f, NEW g, NEW c \in Pids, OneOther(f, g, c), NEW S1, g[c] = S1
    PROVE  g = [f EXCEPT ![c] = S1]
BY OneChanged DEF OneOther

(* A write to a mapped page changes its value and not its permission. *)
LEMMA ValueSet ==
    ASSUME NEW d, NEW x, NEW y, NEW r, r = [v |-> d, w |-> y]
    PROVE  [r EXCEPT !.v = x] = [v |-> x, w |-> y]
OBVIOUS

(* A write in the running process is one in ProcSpace. *)
LEMMA WriteLooks ==
    ASSUME NEW m, NEW st, NEW pt, NEW v, SpacesOK(m, st, pt, v),
           NEW c \in Pids, st[c] # "free", NEW va \in VA, Writable(m, pt[c], va),
           NEW x \in Values, NEW m1, m1 = Poked(m, Lookup(m, pt[c], va), x),
           NEW f, f = SpacesOf(m, st, pt), NEW g, g = SpacesOf(m1, st, pt)
    PROVE  /\ va \in DOMAIN f[c]
           /\ f[c][va].w
           /\ g = [f EXCEPT ![c][va].v = x]
<1>1. WriteShown(m, m1, st, pt, c, va, x)
  BY WriteSeen
<1>2. f[c] = Space(m, pt[c])
  BY SpaceOfOne
<1>3. g[c] = Space(m1, pt[c])
  BY SpaceOfOne
<1>4. OneOther(f, g, c)
  <2>1. \A q \in Pids \ {c} : st[q] # "free" => Space(m1, pt[q]) = Space(m, pt[q])
    BY <1>1 DEF WriteShown
  <2> QED BY <2>1, SpacesOneChanged
<1> DEFINE S1 == g[c]
<1>5. g = [f EXCEPT ![c] = S1]
  BY <1>4, OtherIs
<1>6. f = [q \in Pids |-> f[q]]
  BY <1>4 DEF OneOther
<1>7. f[c] = [a \in DOMAIN f[c] |-> f[c][a]]
  BY <1>2, SpaceFunction
<1>8. S1 = [a \in DOMAIN S1 |-> S1[a]]
  BY <1>3, SpaceFunction
<1>9. PICK d : f[c][va] = [v |-> d, w |-> TRUE]
  BY <1>1, <1>2 DEF WriteShown
<1>10. /\ va \in DOMAIN f[c] /\ DOMAIN S1 = DOMAIN f[c]
       /\ \A a \in DOMAIN f[c] \ {va} : S1[a] = f[c][a]
       /\ S1[va] = [v |-> x, w |-> TRUE]
       /\ f[c][va].w = TRUE
  BY <1>1, <1>2, <1>3 DEF WriteShown
<1> HIDE DEF S1
<1>11. S1 = [a \in DOMAIN f[c] |-> S1[a]]
  BY <1>8, <1>10
<1>12. [f EXCEPT ![c] = S1] = [f EXCEPT ![c][va].v = x]
  <2>1. [f[c][va] EXCEPT !.v = x] = S1[va]
    <3>1. PICK y : y = TRUE
      OBVIOUS
    <3>2. f[c][va] = [v |-> d, w |-> y]
      BY <1>9, <3>1, Zenon
    <3>3. S1[va] = [v |-> x, w |-> y]
      BY <1>10, <3>1, Zenon
    <3>4. [f[c][va] EXCEPT !.v = x] = [v |-> x, w |-> y]
      BY <3>2, ValueSet
    <3> QED BY <3>3, <3>4, Zenon
  <2>2. [f[c] EXCEPT ![va] = S1[va]] = S1
    BY <1>7, <1>10, <1>11
  <2>3. [f EXCEPT ![c][va].v = x]
            = [f EXCEPT ![c] = [f[c] EXCEPT ![va] = [f[c][va] EXCEPT !.v = x]]]
    BY <1>6
  <2> QED BY <2>1, <2>2, <2>3, Zenon
<1> QED BY <1>5, <1>10, <1>12

(* A store of a process is Write. *)
LEMMA WriteRefines ==
    ASSUME IInv, NEW va \in VA, NEW x \in Values, Write(va, x)
    PROVE  Isolated!Act
<1> DEFINE m1 == Poked(Memory, Lookup(Memory, pagetable[current], va), x)
<1>1. /\ current \in Pids /\ state[current] = "runnable" /\ state[current] # "free"
      /\ Writable(Memory, pagetable[current], va)
      /\ UNCHANGED <<pagetable, state>>
      /\ SpacesOK(Memory, state, pagetable, viewer)
  BY RunningLive DEF Write, IInv
<1>2. Memory' = m1
  BY DEF Write, Memory, Poked
<1>3. Spaces = SpacesOf(Memory, state, pagetable) /\ Spaces' = SpacesOf(m1, state, pagetable)
  BY <1>1, <1>2 DEF Spaces
<1>4. /\ va \in DOMAIN Spaces[current]
      /\ Spaces[current][va].w
      /\ Spaces' = [Spaces EXCEPT ![current][va].v = x]
  <2>1. m1 = Poked(Memory, Lookup(Memory, pagetable[current], va), x)
    OBVIOUS
  <2> HIDE DEF m1
  <2> QED BY <1>1, <1>3, <2>1, WriteLooks
<1>5. Isolated!Write(current, va, x)
  BY <1>1, <1>4 DEF Isolated!Write
<1>6. [pid \in Pids |-> state[pid]][current] = "runnable"
  BY <1>1
<1> QED BY <1>1, <1>5, <1>6 DEF Isolated!Act

(* Spaces f, with a page holding 0 more at va in that of c. *)
WithNew(f, c, va) ==
    [f EXCEPT ![c] = [a \in DOMAIN f[c] \cup {va} |->
                         IF a = va THEN [v |-> 0, w |-> TRUE] ELSE f[c][a]]]

(* So is page_alloc. *)
LEMMA AllocLooks ==
    ASSUME NEW m, NEW st, NEW pt, NEW v, SpacesOK(m, st, pt, v),
           NEW c \in Pids, st[c] # "free", NEW va \in VA, NEW m1,
           AllocShown(m, m1, st, pt, c, va),
           NEW f, f = SpacesOf(m, st, pt), NEW g, g = SpacesOf(m1, st, pt)
    PROVE  g = WithNew(f, c, va)
<1>1. f[c] = Space(m, pt[c])
  BY SpaceOfOne
<1>2. g[c] = Space(m1, pt[c])
  BY SpaceOfOne
<1>3. OneOther(f, g, c)
  <2>1. \A q \in Pids \ {c} : st[q] # "free" => Space(m1, pt[q]) = Space(m, pt[q])
    BY DEF AllocShown
  <2> QED BY <2>1, SpacesOneChanged
<1> DEFINE S == f[c]
           S1 == g[c]
           y == [v |-> 0, w |-> TRUE]
<1>4. g = [f EXCEPT ![c] = S1]
  BY <1>3, OtherIs
<1>5. S1 = [a \in DOMAIN S1 |-> S1[a]]
  BY <1>2, SpaceFunction
<1>6. /\ DOMAIN S1 = DOMAIN S \cup {va} /\ va \notin DOMAIN S
      /\ \A a \in DOMAIN S : S1[a] = S[a]
      /\ S1[va] = y
  BY <1>1, <1>2 DEF AllocShown
<1> HIDE DEF S, S1, y
<1>7. S1 = [a \in DOMAIN S \cup {va} |-> IF a = va THEN y ELSE S[a]]
  BY <1>5, <1>6
<1> QED BY <1>4, <1>7 DEF S, y, WithNew

(* A page_alloc is Alloc. *)
LEMMA AllocRefines ==
    ASSUME IInv, NEW va \in VA, PageAlloc(va), Remap = FALSE
    PROVE  Isolated!Act
<1> DEFINE m1 == TryMap(Zeroed(Kalloc(Memory).m, Kalloc(Memory).p), pagetable[current], va,
                        Kalloc(Memory).p, TRUE).m
<1>1. /\ current \in Pids /\ state[current] = "runnable" /\ state[current] # "free"
      /\ Lookup(Memory, pagetable[current], va) = NoPage /\ Kalloc(Memory).p # NoPage
      /\ SetMemory(m1)
      /\ UNCHANGED <<pagetable, state>>
      /\ SpacesOK(Memory, state, pagetable, viewer)
  BY RunningLive DEF PageAlloc, IInv
<1>2. /\ SpacesOK(m1, state, pagetable, viewer)
      /\ AllocShown(Memory, m1, state, pagetable, current, va)
  <2>1. PICK w \in BOOLEAN : w = TRUE
    OBVIOUS
  <2> DEFINE t == TryMap(Zeroed(Kalloc(Memory).m, Kalloc(Memory).p), pagetable[current], va,
                         Kalloc(Memory).p, w)
  <2>2. /\ t.ok = TRUE
        /\ SpacesOK(t.m, state, pagetable, viewer)
        /\ \E n \in Phys : NewPage(Memory, t, Values, Pids, RootsOf(state, pagetable),
                                   Viewed(viewer), current, va, n, w)
    BY <1>1, AllocSpaces
  <2>3. t.m = m1
    BY <2>1
  <2> HIDE DEF t, m1
  <2>4. AllocShown(Memory, t.m, state, pagetable, current, va)
    BY <1>1, <2>1, <2>2, AllocSeen
  <2> QED BY <2>1, <2>2, <2>3, <2>4
<1> HIDE DEF m1
<1>3. Memory' = m1
  BY <1>1, <1>2, MemoryIs
<1>4. Spaces = SpacesOf(Memory, state, pagetable) /\ Spaces' = SpacesOf(m1, state, pagetable)
  BY <1>1, <1>3 DEF Spaces
<1>5. Spaces' = WithNew(Spaces, current, va)
  BY <1>1, <1>2, <1>4, AllocLooks
<1>6. Isolated!Alloc(current, va)
  BY <1>1, <1>5 DEF Isolated!Alloc, WithNew
<1>7. [pid \in Pids |-> state[pid]][current] = "runnable"
  BY <1>1
<1> QED BY <1>1, <1>6, <1>7 DEF Isolated!Act

(* One process's state changes. *)
LEMMA StatusSet ==
    ASSUME NEW st, NEW st1, NEW c \in Pids, NEW x, st1[c] = x,
           \A q \in Pids \ {c} : st1[q] = st[q]
    PROVE  [pid \in Pids |-> st1[pid]] = [[pid \in Pids |-> st[pid]] EXCEPT ![c] = x]
OBVIOUS

(* A page fault is Break. *)
LEMMA FaultRefines ==
    ASSUME IInv, PageFault
    PROVE  Isolated!Act
<1>1. PICK c \in Pids : c = current
  BY RunningLive DEF PageFault
<1>2. /\ state[c] = "runnable"
      /\ state' = [state EXCEPT ![c] = "broken"]
      /\ UNCHANGED <<refcount, mem, pagetable>>
      /\ state \in [0..NProc-1 -> {"free", "runnable", "broken"}]
  BY <1>1, RunningLive DEF PageFault, IInv, ProcsOK
<1>3. Memory' = Memory
  BY <1>2 DEF Memory
<1>4. state'[c] = "broken" /\ \A q \in Pids \ {c} : state'[q] = state[q]
  BY <1>2 DEF Pids
<1>5. \A q \in Pids : state'[q] = "free" <=> state[q] = "free"
  BY <1>2, <1>4
<1>6. SpacesOf(Memory, state', pagetable) = SpacesOf(Memory, state, pagetable)
  BY <1>5, SpacesSame
<1>7. Spaces' = Spaces
  BY <1>2, <1>3, <1>6 DEF Spaces
<1>8. [pid \in Pids |-> state'[pid]] = [[pid \in Pids |-> state[pid]] EXCEPT ![c] = "broken"]
  BY <1>4, StatusSet
<1>9. Isolated!Break(c)
  BY <1>7, <1>8 DEF Isolated!Break
<1>10. [pid \in Pids |-> state[pid]][c] = "runnable"
  BY <1>2
<1> QED BY <1>9, <1>10 DEF Isolated!Act

(* Spaces g are f, with a copy of that of r in c. *)
WithCopy(f, g, c, r) == g = [f EXCEPT ![c] = f[r]]

(* fork gives the child its parent's space. *)
LEMMA ForkLooks ==
    ASSUME NEW m, NEW st, NEW pt, NEW r \in Pids, st[r] # "free",
           NEW c \in Pids, NEW s, ForkShown(m, s, st, pt, r), s.ok,
           NEW st1, NEW pt1, \A q \in Pids \ {c} : st1[q] = st[q] /\ pt1[q] = pt[q],
           pt1[c] = s.root, st1[c] # "free",
           NEW f, f = SpacesOf(m, st, pt), NEW g, g = SpacesOf(s.m, st1, pt1)
    PROVE  WithCopy(f, g, c, r)
<1>1. \A q \in Pids : st[q] # "free" => Space(s.m, pt[q]) = Space(m, pt[q])
  BY DEF ForkShown
<1>2. g[c] = Space(s.m, s.root)
  BY SpaceOfOne
<1>3. f[r] = Space(m, pt[r])
  BY SpaceOfOne
<1>4. OneOther(f, g, c)
  BY <1>1, SpacesOneChanged
<1>5. g[c] = f[r]
  BY <1>2, <1>3 DEF ForkShown
<1> QED BY <1>4, <1>5, OtherIs DEF WithCopy

(* If it fails nobody sees anything. *)
LEMMA ForkFails ==
    ASSUME NEW m, NEW st, NEW pt, NEW r, NEW c \in Pids, st[c] = "free",
           NEW s, ForkShown(m, s, st, pt, r),
           NEW st1, NEW pt1, \A q \in Pids \ {c} : st1[q] = st[q] /\ pt1[q] = pt[q],
           st1[c] = "free"
    PROVE  SpacesOf(s.m, st1, pt1) = SpacesOf(m, st, pt)
<1>1. \A q \in Pids : st1[q] = "free" <=> st[q] = "free"
  OBVIOUS
<1>2. \A q \in Pids : st[q] # "free" => Space(s.m, pt1[q]) = Space(m, pt[q])
  BY DEF ForkShown
<1> QED BY <1>1, <1>2, SpacesSame

(* fork is Fork, or nothing happens when memory runs out. *)
LEMMA ForkRefines ==
    ASSUME IInv, Fork
    PROVE  Isolated!Act \/ Unseen
<1> DEFINE copy == CopySpace(Memory, pagetable[current])
<1>1. PICK c \in Pids : c = Min(FreePids) /\ state[c] = "free"
  BY FreePid DEF Fork, IInv
<1>2. /\ current \in Pids /\ state[current] = "runnable" /\ state[current] # "free"
      /\ state \in [0..NProc-1 -> {"free", "runnable", "broken"}]
      /\ pagetable \in [Pids -> Phys \cup {NoPage}]
      /\ SpacesOK(Memory, state, pagetable, viewer)
      /\ Pids \subseteq 0..NProc-1
  <2>1. Running
    BY DEF Fork
  <2>2. SpacesOK(Memory, state, pagetable, viewer) /\ ProcsOK
    BY Zenon DEF IInv
  <2>3. pagetable \in [Pids -> Phys \cup {NoPage}]
    BY <2>2, Zenon DEF SpacesOK
  <2>4. state \in [0..NProc-1 -> {"free", "runnable", "broken"}]
    BY <2>2, Zenon DEF ProcsOK
  <2>5. Pids \subseteq 0..NProc-1
    BY DEF Pids
  <2> HIDE DEF copy
  <2> QED BY <2>1, <2>2, <2>3, <2>4, <2>5, RunningLive
<1>3. /\ SetMemory(copy.m)
      /\ pagetable' = [pagetable EXCEPT ![c] = copy.root]
      /\ state' = [state EXCEPT ![c] = IF copy.ok THEN "runnable" ELSE "free"]
  BY <1>1 DEF Fork, ForkInto
<1>4. /\ Forked(Memory, copy, Values, Pids, RootsOf(state, pagetable), Viewed(viewer), current, c)
      /\ SpacesOK(copy.m, [state EXCEPT ![c] = IF copy.ok THEN "runnable" ELSE "free"],
                  [pagetable EXCEPT ![c] = copy.root], viewer)
  BY <1>1, <1>2, ForkSpaces
<1> HIDE DEF copy
<1>5. /\ \A q \in Pids \ {c} : state'[q] = state[q] /\ pagetable'[q] = pagetable[q]
      /\ pagetable'[c] = copy.root
      /\ state'[c] = IF copy.ok THEN "runnable" ELSE "free"
  BY <1>1, <1>2, <1>3
<1>6. SpacesOK(copy.m, state', pagetable', viewer)
  BY <1>3, <1>4
<1>7. Memory' = copy.m
  BY <1>3, <1>6, MemoryIs
<1>8. ForkShown(Memory, copy, state, pagetable, current)
  BY <1>1, <1>2, <1>4, ForkSeen
<1>9. Spaces = SpacesOf(Memory, state, pagetable) /\ Spaces' = SpacesOf(copy.m, state', pagetable')
  BY <1>7 DEF Spaces
<1>11. copy.ok \in BOOLEAN
  BY <1>4 DEF Forked
<1>12. CASE copy.ok
  <2>1. state'[c] = "runnable"
    BY <1>5, <1>12
  <2>2. [pid \in Pids |-> state'[pid]] = [[pid \in Pids |-> state[pid]] EXCEPT ![c] = "runnable"]
    BY ZenonT(60), <1>5, <2>1, StatusSet
  <2>3. Spaces' = [Spaces EXCEPT ![c] = Spaces[current]]
    <3>1. \A q \in Pids \ {c} : state'[q] = state[q] /\ pagetable'[q] = pagetable[q]
      BY <1>5
    <3>2. pagetable'[c] = copy.root /\ state'[c] # "free"
      BY <1>5, <2>1
    <3>3. WithCopy(Spaces, Spaces', c, current)
      BY <1>1, <1>2, <1>8, <1>9, <1>12, <3>1, <3>2, ForkLooks
    <3> QED BY <3>3 DEF WithCopy
  <2>4. [pid \in Pids |-> state[pid]][c] = "free"
    BY <1>1
  <2>5. Isolated!Fork(current, c)
    BY <2>2, <2>3, <2>4 DEF Isolated!Fork
  <2>6. [pid \in Pids |-> state[pid]][current] = "runnable"
    BY <1>2
  <2>7. \E p \in Pids : /\ [pid \in Pids |-> state[pid]][p] = "runnable"
                        /\ \E d \in Pids : Isolated!Fork(p, d)
    BY <1>2, <2>5, <2>6
  <2> QED BY <2>7, Zenon DEF Isolated!Act
<1>13. CASE ~copy.ok
  <2>1. state'[c] = "free"
    BY <1>5, <1>13
  <2>2. \A q \in Pids : state'[q] = state[q]
    BY <1>1, <1>5, <2>1
  <2>3. Spaces' = Spaces
    <3>1. \A q \in Pids \ {c} : state'[q] = state[q] /\ pagetable'[q] = pagetable[q]
      BY <1>5
    <3>2. SpacesOf(copy.m, state', pagetable') = SpacesOf(Memory, state, pagetable)
      BY <1>1, <1>8, <2>1, <3>1, ForkFails
    <3> QED BY <1>9, <3>2
  <2> QED BY <2>2, <2>3, NothingSeen
<1> QED BY <1>11, <1>12, <1>13

(* In memory m1 every process but c sees what it sees in m. *)
ExitShown(m, m1, st, pt, c) ==
    \A q \in Pids \ {c} : st[q] # "free" => Space(m1, pt[q]) = Space(m, pt[q])

(* The end of process c is seen by no other. *)
LEMMA ExitSeen ==
    ASSUME NEW m, NEW st, NEW pt, NEW v, SpacesOK(m, st, pt, v),
           st \in [0..NProc-1 -> {"free", "runnable", "broken"}],
           NEW c \in Pids, st[c] # "free" \/ pt[c] = NoPage
    PROVE  ExitShown(m, FreeSpace(m, pt[c]), st, pt, c)
<1> DEFINE m1 == FreeSpace(m, pt[c])
           st1 == [st EXCEPT ![c] = "free"]
<1>s. SpacesOK(m1, st1, pt, v)
  BY ExitSpaces
<1>t. \A q \in Pids \ {c} : st[q] # "free" => SameSpace(m, m1, pt[q])
  BY ExitSpaces
<1>u. UsedKept(m, m1)
  BY ExitSpaces
<1>2. Pids \subseteq 0..NProc-1
  BY DEF Pids
<1>3. \A q \in Pids \ {c} : st1[q] = st[q]
  BY <1>2
<1> HIDE DEF m1, st1
<1>1. \A p \in Phys : m1.rc[p] > 0 => m1.mem[p] = m.mem[p]
  BY <1>u DEF UsedKept
<1>4. ASSUME NEW q \in Pids \ {c}, st[q] # "free"
      PROVE  Space(m1, pt[q]) = Space(m, pt[q])
  <2> DEFINE rt == RootsOf(st1, pt)
  <2>1. rt[q] = pt[q]
    BY <1>3, <1>4 DEF RootsOf
  <2>2. Sound(m1, Values, Pids, rt, Viewed(v))
    BY <1>s DEF SpacesOK
  <2>3. SameSpace(m, m1, pt[q])
    BY <1>t, <1>4
  <2> HIDE DEF rt
  <2>4. ASSUME NEW a \in VA, Slot(m, pt[q], a) # NoPage
        PROVE  m1.mem[Slot(m, pt[q], a)].data = m.mem[Slot(m, pt[q], a)].data
    <3>1. a \in Places /\ Slot(m1, pt[q], a) = Slot(m, pt[q], a)
      BY <2>3, LeafPlace DEF SameSpace
    <3>2. /\ Slot(m1, rt[q], a) \in Phys
          /\ m1.rc[Slot(m1, rt[q], a)] > 0
      BY <2>1, <2>2, <2>4, <3>1, ReferredPositive
    <3> QED BY <1>1, <2>1, <3>1, <3>2
  <2> QED BY <2>3, <2>4, SpaceKept
<1>5. ExitShown(m, m1, st, pt, c)
  BY <1>4 DEF ExitShown
<1> QED BY <1>5 DEF m1

(* exit_proc() ends its process, or nothing is seen if there is no such. *)
LEMMA EndRefines ==
    ASSUME IInv, NEW pid,
           pid \in Pids => state[pid] # "free" \/ pagetable[pid] = NoPage,
           ExitProc(pid), UNCHANGED <<pagetable, viewer>>
    PROVE  Isolated!Act \/ Unseen
<1>1. CASE pid \notin Pids
  <2>1. UNCHANGED <<refcount, mem, state>>
    BY <1>1 DEF ExitProc
  <2>2. Memory' = Memory
    BY <2>1 DEF Memory
  <2>3. Spaces' = Spaces
    BY <2>1, <2>2 DEF Spaces
  <2> QED BY <2>1, <2>3, NothingSeen
<1>2. CASE pid \in Pids
  <2> DEFINE m1 == FreeSpace(Memory, pagetable[pid])
  <2>1. /\ state \in [0..NProc-1 -> {"free", "runnable", "broken"}]
        /\ SpacesOK(Memory, state, pagetable, viewer)
        /\ Pids \subseteq 0..NProc-1
    BY DEF IInv, ProcsOK, Pids
  <2>2. /\ ~WalkPanics(Memory, pagetable[pid])
        /\ SpacesOK(m1, [state EXCEPT ![pid] = "free"], pagetable, viewer)
    BY <1>2, <2>1, ExitSpaces
  <2>o. ExitShown(Memory, m1, state, pagetable, pid)
    BY <1>2, <2>1, ExitSeen
  <2>3. SetMemory(m1) /\ state' = [state EXCEPT ![pid] = "free"]
    BY <1>2, <2>2 DEF ExitProc
  <2> HIDE DEF m1
  <2>4. SpacesOK(m1, state', pagetable, viewer)
    BY <2>2, <2>3
  <2>5. Memory' = m1
    BY <2>3, <2>4, MemoryIs
  <2>6. state'[pid] = "free" /\ \A q \in Pids \ {pid} : state'[q] = state[q]
    BY <1>2, <2>1, <2>3
  <2>7. \A q \in Pids \ {pid} : state[q] # "free"
            => Space(m1, pagetable[q]) = Space(Memory, pagetable[q])
    BY <2>o DEF ExitShown
  <2>8. Spaces = SpacesOf(Memory, state, pagetable) /\ Spaces' = SpacesOf(m1, state', pagetable)
    BY <2>5 DEF Spaces
  <2>9. OneOther(Spaces, Spaces', pid)
    BY <1>2, <2>6, <2>7, <2>8, SpacesOneChanged
  <2>10. Spaces'[pid] = [va \in {} |-> 0]
    BY <1>2, <2>6, <2>8, SpaceOfOne
  <2>11. Spaces' = [Spaces EXCEPT ![pid] = Isolated!Empty]
    BY <1>2, <2>9, <2>10, OtherIs DEF Isolated!Empty
  <2>12. [q \in Pids |-> state'[q]] = [[q \in Pids |-> state[q]] EXCEPT ![pid] = "free"]
    BY <1>2, <2>6, StatusSet
  <2>13. Isolated!End(pid)
    BY <2>11, <2>12 DEF Isolated!End
  <2> QED BY <1>2, <2>13, Zenon DEF Isolated!Act
<1> QED BY <1>1, <1>2

(* The space of a process that the kernel has just set up is the one that   *)
(* its loader makes, whatever memory held before.                           *)
LEMMA FirstSpaceIs ==
    ASSUME NEW m, NEW root, FirstSpace(m, root)
    PROVE  Space(m, root) = LoadedSpace
<1> DEFINE S == Space(m, root)
<1>0. 1 \in VA /\ NVA \in VA
  BY MemoryAssumption DEF VA
<1>1. /\ \A va \in VA : Slot(m, root, va) # NoPage <=> va \in {1, NVA}
      /\ \A va \in VA : Slot(m, root, va) # NoPage => m.mem[Slot(m, root, va)].data = 0
      /\ \A va \in VA : Writable(m, root, va) <=> va = NVA
  BY DEF FirstSpace
<1>2. DOMAIN S = {1, NVA}
  BY <1>0, <1>1, SpaceDomain
<1>3. ASSUME NEW va \in {1, NVA} PROVE S[va] = [v |-> 0, w |-> va = NVA]
  <2>1. va \in VA /\ Slot(m, root, va) # NoPage
    BY <1>0, <1>1
  <2>2. S[va] = [v |-> m.mem[Slot(m, root, va)].data, w |-> Writable(m, root, va)]
    BY <2>1, SpaceAt, Zenon
  <2>3. Writable(m, root, va) \in BOOLEAN
    BY DEF Writable
  <2>4. Writable(m, root, va) = (va = NVA)
    BY <1>1, <2>1, <2>3
  <2>5. m.mem[Slot(m, root, va)].data = 0
    BY <1>1, <2>1
  <2> HIDE DEF S
  <2> QED BY <2>2, <2>4, <2>5, Zenon
<1>4. S = [va \in DOMAIN S |-> S[va]]
  BY SpaceFunction, Zenon
<1> HIDE DEF S
<1>5. S = [va \in {1, NVA} |-> [v |-> 0, w |-> va = NVA]]
  BY <1>2, <1>3, <1>4
<1> QED BY <1>5 DEF S, LoadedSpace

(* So the kernel starts as ProcSpace does. *)
StartsRight(st, sp) ==
    /\ [pid \in Pids |-> st[pid]] = Isolated!FirstStatus
    /\ sp = Isolated!FirstSpaces
LEMMA StartsRefine ==
    ASSUME NEW content \in [Phys -> Contents(Values)], NEW s, s = Started(content),
           NEW m, m = [rc |-> s.refcount, mem |-> s.mem],
           NEW sp, sp = SpacesOf(m, s.state, s.pagetable)
    PROVE  StartsRight(s.state, sp)
<1>1. \A pid \in Initial : FirstSpace(m, s.pagetable[pid])
  BY StartedOK
<1>2. s.state = [pid \in 0..NProc-1 |-> IF pid \in Initial THEN "runnable" ELSE "free"]
  BY DEF Started, WithViewer
<1>3. Pids \subseteq 0..NProc-1
  BY DEF Pids
<1>4. \A p \in Pids : s.state[p] = IF p \in Initial THEN "runnable" ELSE "free"
  BY <1>2, <1>3
<1>5. [pid \in Pids |-> s.state[pid]] = Isolated!FirstStatus
  BY <1>4 DEF Isolated!FirstStatus
<1>6. ASSUME NEW p \in Pids
      PROVE  sp[p] = IF p \in Initial THEN LoadedSpace ELSE Isolated!Empty
  <2>1. CASE p \in Initial
    <3>1. sp[p] = Space(m, s.pagetable[p])
      BY <1>4, <2>1, SpaceOfOne
    <3>2. Space(m, s.pagetable[p]) = LoadedSpace
      BY <1>1, <2>1, FirstSpaceIs
    <3> QED BY <2>1, <3>1, <3>2
  <2>2. CASE p \notin Initial
    <3>1. sp[p] = [va \in {} |-> 0]
      BY <1>4, <2>2, SpaceOfOne
    <3> QED BY <2>2, <3>1, Zenon DEF Isolated!Empty
  <2> QED BY <2>1, <2>2
<1>7. sp = [q \in Pids |-> sp[q]]
  BY SpacesAre
<1>8. sp = Isolated!FirstSpaces
  BY <1>6, <1>7 DEF Isolated!FirstSpaces
<1> QED BY <1>5, <1>8 DEF StartsRight

(* The kernel starts with spaces of its own for the first processes. *)
LEMMA InitRefines == Init => Isolated!Init
<1> SUFFICES ASSUME Init PROVE Isolated!Init
  OBVIOUS
<1>0. [p \in Phys |-> Zero] \in [Phys -> Contents(Values)]
  BY ProcAssumption, FixedContents
<1>1. PICK s : /\ s = Started([p \in Phys |-> Zero])
               /\ refcount = s.refcount /\ mem = s.mem
               /\ pagetable = s.pagetable /\ state = s.state /\ boot = 0
  BY DEF Init
<1>2. Spaces = SpacesOf([rc |-> s.refcount, mem |-> s.mem], s.state, s.pagetable)
  BY <1>1 DEF Spaces, Memory
<1>3. StartsRight(state, Spaces)
  BY <1>0, <1>1, <1>2, StartsRefine
<1> QED BY <1>1, <1>3, Zenon DEF Isolated!Init, StartsRight

(* A key pressed starts it afresh in the same way, in used memory. *)
LEMMA RebootRefines == IInv /\ Reboot => Isolated!Reboot
<1> SUFFICES ASSUME IInv, Reboot PROVE Isolated!Reboot
  OBVIOUS
<1>0. mem \in [Phys -> Contents(Values)]
  BY DEF IInv, SpacesOK, Sound, Memories, Memory
<1>1. PICK s : /\ s = Started(mem)
               /\ refcount' = s.refcount /\ mem' = s.mem
               /\ pagetable' = s.pagetable /\ state' = s.state /\ boot' = 1 - boot
  BY DEF Reboot
<1>2. Spaces' = SpacesOf([rc |-> s.refcount, mem |-> s.mem], s.state, s.pagetable)
  BY <1>1 DEF Spaces, Memory
<1>3. StartsRight(state', Spaces')
  BY <1>0, <1>1, <1>2, StartsRefine
<1> QED BY <1>1, <1>3, Zenon DEF Isolated!Reboot, StartsRight

(* Every step of the kernel is a step of ProcSpace, or is not seen. *)
LEMMA StepRefines ==
    ASSUME Remap = FALSE, KillStale = FALSE, IInv, [Next]_vars
    PROVE  [Isolated!Next]_Isolated!vars
<1>b. ASSUME Isolated!Act \/ Unseen, boot' = boot
      PROVE  [Isolated!Next]_Isolated!vars
  BY <1>b, Zenon DEF Isolated!Next, Isolated!vars, Unseen
<1>1. ASSUME NEW va \in VA, NEW v \in Values, Write(va, v)
      PROVE  [Isolated!Next]_Isolated!vars
  <2>1. Isolated!Act /\ boot' = boot
    BY <1>1, WriteRefines DEF Write
  <2> QED BY <1>b, <2>1
<1>2. ASSUME UNCHANGED <<refcount, mem, pagetable, state>> PROVE Unseen
  <2>1. Memory' = Memory
    BY <1>2 DEF Memory
  <2>2. Spaces' = Spaces
    BY <1>2, <2>1 DEF Spaces
  <2> QED BY <1>2, <2>2, NothingSeen
<1>3. CASE Reschedule
  <2>1. Unseen /\ boot' = boot
    BY <1>2, <1>3 DEF Reschedule
  <2> QED BY <1>b, <2>1
<1>4. CASE PageFault
  <2>1. Isolated!Act /\ boot' = boot
    BY <1>4, FaultRefines DEF PageFault
  <2> QED BY <1>b, <2>1
<1>5. ASSUME NEW va \in VA, PageAlloc(va) PROVE [Isolated!Next]_Isolated!vars
  <2>1. Isolated!Act /\ boot' = boot
    BY <1>5, AllocRefines DEF PageAlloc
  <2> QED BY <1>b, <2>1
<1>6. CASE Fork
  <2>1. (Isolated!Act \/ Unseen) /\ boot' = boot
    BY <1>6, ForkRefines DEF Fork
  <2> QED BY <1>b, <2>1
<1>7. CASE Exit
  <2>1. /\ ExitProc(current) /\ UNCHANGED <<pagetable, viewer>> /\ state[current] # "free"
        /\ boot' = boot
    BY <1>7, RunningLive DEF Exit
  <2>2. Isolated!Act \/ Unseen
    BY <2>1, EndRefines
  <2> QED BY <1>b, <2>1, <2>2
<1>8. ASSUME NEW pid \in 0..NProc, Kill(pid)
      PROVE  [Isolated!Next]_Isolated!vars
  <2>1. /\ ExitProc(pid) /\ UNCHANGED <<pagetable, viewer>>
        /\ pid \in Pids => state[pid] # "free" \/ pagetable[pid] = NoPage
        /\ boot' = boot
    BY <1>8 DEF Kill
  <2>2. Isolated!Act \/ Unseen
    BY <2>1, EndRefines
  <2> QED BY <1>b, <2>1, <2>2
<1>9. CASE Reboot
  <2>1. Isolated!Reboot
    BY <1>9, RebootRefines
  <2> QED BY <2>1, Zenon DEF Isolated!Next
<1>10. CASE UNCHANGED vars
  <2>1. Unseen /\ boot' = boot
    BY <1>2, <1>10 DEF vars
  <2> QED BY <1>b, <2>1
<1> QED BY <1>1, <1>3, <1>4, <1>5, <1>6, <1>7, <1>8, <1>9, <1>10, Zenon DEF Next

(* Processes are isolated: whatever they do, in any order, each sees its own *)
(* memory only, the child of a fork what its parent had, and nobody what     *)
(* another wrote, allocated or left behind.  This is the whole kernel as its *)
(* processes know it: page tables, shared read-only pages, reference counts  *)
(* and failing allocations implement ProcSpace.                              *)
THEOREM Isolation ==
    ASSUME Remap = FALSE, KillStale = FALSE
    PROVE  Spec => ImplementsProcSpace
<1>1. IInv /\ [Next]_vars => [Isolated!Next]_Isolated!vars
  BY StepRefines
<1> QED BY <1>1, InitRefines, Invariance, PTL DEF Spec, ImplementsProcSpace, Isolated!Spec

-----------------------------------------------------------------------------
(* The memory viewer: the map it draws from page tables alone agrees with    *)
(* the reference counts.                                                     *)

(* refresh() walks the tables of the processes that are not gone. *)
LEMMA WalkedLive == IInv => Walked = Live
<1> SUFFICES ASSUME IInv PROVE Walked = Live
  OBVIOUS
<1>1. \A pid \in Live : pagetable[pid] # NoPage
  BY LiveRoots DEF Equipped
<1> QED BY <1>1 DEF Walked, Live

(* A process is marked on a page when one of its places refers to the page:  *)
(* one of its tables, or one of its virtual pages.                           *)
LEMMA MarksAre ==
    ASSUME IInv, NEW pg \in Phys
    PROVE  LET rt == RootsOf(state, pagetable) IN
           /\ TableMarks(pg) = {q \in Pids : \E j \in Tables : Slot(Memory, rt[q], j) = pg}
           /\ UserMarks(pg) = {q \in Pids : \E va \in VA : Slot(Memory, rt[q], va) = pg}
<1> DEFINE rt == RootsOf(state, pagetable)
<1>1. /\ \A pid \in Live : pid \in Pids /\ rt[pid] = pagetable[pid]
      /\ \A pid \in Pids \ Live : rt[pid] = NoPage
  BY LiveRoots
<1>2. Walked = Live /\ pg # NoPage
  BY WalkedLive DEF Phys, NoPage
<1>3. Tables \subseteq Places /\ VA \subseteq Places
  BY MemoryAssumption DEF Tables, Places, VA
<1> HIDE DEF rt
<1>4. ASSUME NEW q \in Pids, NEW j \in Places, Slot(Memory, rt[q], j) = pg PROVE q \in Live
  BY <1>1, <1>2, <1>4, NoSpace
<1>5. ASSUME NEW q \in Live
      PROVE  pg \in {pagetable[q]} \cup Range(TablePages(Memory, pagetable[q]))
                 <=> \E j \in Tables : Slot(Memory, rt[q], j) = pg
  <2> DEFINE root == rt[q]
             a == Slot(Memory, root, NVA + 1)
             b == Slot(Memory, root, NVA + 2)
             c == Slot(Memory, root, NVA + 3)
             d == Slot(Memory, root, NVA + 4)
  <2>1. TablePages(Memory, root) = <<a, b, c, d>> /\ Slot(Memory, root, NVA + 5) = root
    BY MemoryAssumption DEF Slot, TablePages
  <2>2. Tables = {NVA + 1, NVA + 2, NVA + 3, NVA + 4, NVA + 5}
    BY MemoryAssumption DEF Tables
  <2>3. pagetable[q] = root
    BY <1>1
  <2> HIDE DEF a, b, c, d, root
  <2>4. Range(<<a, b, c, d>>) = {a, b, c, d}
    BY DEF Range
  <2>5. pg \in {root} \cup {a, b, c, d} <=> \E j \in Tables : Slot(Memory, root, j) = pg
    BY <2>1, <2>2 DEF a, b, c, d
  <2> QED BY <2>1, <2>3, <2>4, <2>5 DEF root
<1>6. TableMarks(pg) = {q \in Pids : \E j \in Tables : Slot(Memory, rt[q], j) = pg}
  BY <1>1, <1>2, <1>3, <1>4, <1>5 DEF TableMarks
<1>7. ASSUME NEW q \in Live
      PROVE  (\E va \in VA : Lookup(Memory, pagetable[q], va) = pg)
                 <=> \E va \in VA : Slot(Memory, rt[q], va) = pg
  BY <1>1, LeafPlace
<1>8. UserMarks(pg) = {q \in Pids : \E va \in VA : Slot(Memory, rt[q], va) = pg}
  BY <1>1, <1>2, <1>3, <1>4, <1>7 DEF UserMarks
<1> QED BY <1>6, <1>8 DEF rt

(* The symbol of a page: free, the kernel's, shared or private as the counts *)
(* have it; and a private page has the letter of the process that refers to  *)
(* it.                                                                       *)
LEMMA SymbolRight ==
    ASSUME IInv, Walked # {}, NEW pg \in Phys
    PROVE  /\ Symbol(pg).kind = IF refcount[pg] = 0 THEN "free"
                                ELSE IF pg = viewer THEN "kernel"
                                ELSE IF refcount[pg] > 1 THEN "shared" ELSE "private"
           /\ \A q \in Pids, j \in Places :
                  Slot(Memory, RootsOf(state, pagetable)[q], j) = pg =>
                      /\ pg # viewer /\ refcount[pg] > 0
                      /\ refcount[pg] = 1 => Symbol(pg) = [kind |-> "private", pid |-> q]
<1> DEFINE rt == RootsOf(state, pagetable)
           other == Viewed(viewer)
           R == Refs(Memory, Pids, rt, pg)
           T == TableMarks(pg)
           U == UserMarks(pg)
<1>1. Sound(Memory, Values, Pids, rt, other)
  BY LiveRoots
<1>2. /\ T = {q \in Pids : \E j \in Tables : Slot(Memory, rt[q], j) = pg}
      /\ U = {q \in Pids : \E va \in VA : Slot(Memory, rt[q], va) = pg}
  BY MarksAre
<1>3. /\ other[pg] = IF pg = viewer THEN 1 ELSE 0
      /\ Memory.rc = refcount
  BY DEF Viewed, Memory
<1> HIDE DEF rt, other
<1>4. /\ pg # NoPage
      /\ Places = Tables \cup VA /\ Tables \cap VA = {}
  BY MemoryAssumption DEF Phys, NoPage, Tables, Places, VA
<1>5. /\ IsFiniteSet(R) /\ Cardinality(R) \in Nat
      /\ refcount[pg] = Cardinality(R) + other[pg]
      /\ other[pg] = 1 => refcount[pg] = 1
      /\ IsFiniteSet(Pids) /\ Pids \subseteq Nat
  <2>1. IsFiniteSet(Pids) /\ Pids \subseteq Nat
    BY PidsFinite DEF Pids
  <2>2. IsFiniteSet(R) /\ Cardinality(R) \in Nat
    BY <2>1, RefsFinite
  <2> QED BY <1>1, <1>3, <2>1, <2>2 DEF Sound, CountsRight, OthersOwn
<1>6. \A q \in Pids, j \in Places : <<q, j>> \in R <=> Slot(Memory, rt[q], j) = pg
  BY DEF Refs
<1>7. \A k \in R : \E q \in Pids, j \in Places : k = <<q, j>>
  BY DEF Refs
<1>8. ASSUME R = {} PROVE T = {} /\ U = {}
  BY <1>2, <1>4, <1>6, <1>8
<1>9. /\ Marks(pg).kernel <=> T # {} \/ pg = viewer
      /\ Marks(pg).user <=> U # {}
      /\ Marks(pg).processes = T \cup U
  BY DEF Marks
<1> HIDE DEF T, U, R
<1>10. CASE R = {}
  <2>1. Cardinality(R) = 0
    BY <1>10, FS_EmptySet
  <2>2. Symbol(pg) = Sign(IF pg = viewer THEN "kernel" ELSE "free")
    <3>1. /\ ~Marks(pg).user /\ Marks(pg).processes = {}
          /\ Marks(pg).kernel <=> pg = viewer
      BY <1>8, <1>9, <1>10
    <3>2. ~(Cardinality(Marks(pg).processes) > 1)
      BY <3>1, FS_EmptySet
    <3> QED BY <3>1, <3>2 DEF Symbol
  <2>3. refcount[pg] = IF pg = viewer THEN 1 ELSE 0
    BY <1>3, <1>5, <2>1
  <2>4. ASSUME NEW q \in Pids, NEW j \in Places, Slot(Memory, rt[q], j) = pg PROVE FALSE
    BY <1>6, <1>10, <2>4
  <2> QED BY <2>2, <2>3, <2>4 DEF Sign, rt
<1>11. CASE R # {}
  <2>1. PICK q \in Pids, i \in Places : <<q, i>> \in R
    BY <1>7, <1>11
  <2>2. Slot(Memory, rt[q], i) = pg
    BY <1>6, <2>1
  <2>3. other[pg] = 0 /\ pg # viewer
    BY <1>1, <1>3, <2>2, ReferredOwn
  <2>4. Cardinality(R) # 0
    BY <1>5, <1>11, FS_EmptySet
  <2>5. refcount[pg] = Cardinality(R) /\ refcount[pg] \in Nat /\ refcount[pg] > 0
    BY <1>5, <2>3, <2>4
  <2>6. CASE refcount[pg] = 1
    <3>1. ASSUME NEW r \in Pids, NEW j \in Places, Slot(Memory, rt[r], j) = pg
          PROVE  r = q /\ j = i
      BY <1>1, <1>3, <1>4, <2>2, <2>6, <3>1, SoleReference
    <3>2. T \cup U = {q} /\ (T = {} \/ U = {})
      BY <1>2, <1>4, <2>2, <3>1
    <3>3. Cardinality({q}) = 1
      BY FS_Singleton
    <3>4. Min({q}) = q
      BY <1>5 DEF Min
    <3>5. Symbol(pg) = [kind |-> "private", pid |-> q]
      BY <1>9, <2>3, <3>2, <3>3, <3>4 DEF Symbol
    <3> QED BY <2>3, <2>5, <2>6, <3>1, <3>5 DEF rt
  <2>7. CASE refcount[pg] > 1
    <3>1. T = {}
      <4>1. ASSUME NEW r \in Pids, NEW j \in Tables, Slot(Memory, rt[r], j) = pg PROVE FALSE
        <5>1. Memory.rc[pg] = 1
          BY <1>1, <1>4, <4>1 DEF Sound, TablesOwn
        <5> QED BY <1>3, <2>7, <5>1
      <4> QED BY <1>2, <4>1
    <3>2. PICK k \in R : k # <<q, i>>
      <4>1. ASSUME R = {<<q, i>>} PROVE FALSE
        <5>1. Cardinality(R) = 1
          BY <4>1, FS_Singleton
        <5> QED BY <2>5, <2>7, <5>1
      <4> QED BY <2>1, <4>1
    <3>3. PICK r \in Pids, j \in Places : k = <<r, j>>
      BY <1>7
    <3>4. Slot(Memory, rt[r], j) = pg
      BY <1>6, <3>2, <3>3
    <3>5. i \in VA /\ j \in VA
      BY <1>2, <1>4, <2>2, <3>1, <3>4
    <3>6. i = j
      <4>1. Lookup(Memory, rt[q], i) = pg /\ Lookup(Memory, rt[r], j) = pg
        BY <2>2, <3>4, <3>5, LeafPlace
      <4>2. SharedAlike(Memory, Pids, rt)
        BY <1>1 DEF Sound
      <4> QED BY <1>4, <3>5, <4>1, <4>2 DEF SharedAlike
    <3>7. q # r /\ q \in U /\ r \in U
      BY <1>2, <2>2, <3>2, <3>3, <3>4, <3>5, <3>6
    <3>8. Cardinality(U) > 1
      <4>1. U \in SUBSET Pids
        BY <1>2
      <4>2. IsFiniteSet(U) /\ Cardinality(U) \in Nat
        BY <1>5, <4>1, FS_Subset, FS_CardinalityType
      <4>3. {q, r} \subseteq U /\ Cardinality({q, r}) = 2
        <5>1. IsFiniteSet({q}) /\ Cardinality({q}) = 1
          BY FS_Singleton
        <5>2. Cardinality({q} \cup {r}) = Cardinality({q}) + 1
          BY <3>7, <5>1, FS_AddElement
        <5>3. {q, r} = {q} \cup {r}
          OBVIOUS
        <5> QED BY <3>7, <5>1, <5>2, <5>3
      <4>4. Cardinality({q, r}) <= Cardinality(U)
        BY <4>2, <4>3, FS_Subset
      <4> QED BY <4>2, <4>3, <4>4
    <3>9. Symbol(pg) = Sign("shared")
      <4>1. Marks(pg).processes = U /\ U # {} /\ ~Marks(pg).kernel
        BY <1>9, <2>3, <3>1, <3>7
      <4> QED BY <3>8, <4>1 DEF Symbol
    <3> QED BY <2>3, <2>5, <2>7, <3>9 DEF Sign
  <2> QED BY <2>5, <2>6, <2>7
<1> QED BY <1>10, <1>11

(* memshow() finds a process to show if there is one. *)
LEMMA ShowsLive ==
    ASSUME IInv, Walked # {}, NEW due \in 0..NProc-1
    PROVE  Showing(due) \in Live
<1> DEFINE at(i) == (due + i) % NProc
           turn == {i \in 0..NProc-1 : /\ at(i) # 0 /\ state[at(i)] # "free"
                                       /\ pagetable[at(i)] # NoPage}
<1>1. NProc \in Nat /\ NProc > 0 /\ due \in Nat /\ due < NProc
  BY ProcAssumption
<1>2. PICK pid \in Live : TRUE
  BY WalkedLive
<1>3. pid \in 1..NProc-1 /\ state[pid] # "free" /\ pagetable[pid] # NoPage
  BY LiveRoots DEF Live, Pids, Equipped
<1>4. turn # {}
  <2>1. CASE due <= pid
    <3>1. pid - due \in 0..NProc-1 /\ at(pid - due) = pid
      BY <1>1, <1>3, <2>1, ModOnce
    <3> QED BY <1>3, <3>1
  <2>2. CASE due > pid
    <3> DEFINE i == pid + NProc - due
    <3>1. i \in 0..NProc-1 /\ due + i = pid + NProc
      BY <1>1, <1>3, <2>2
    <3>2. (pid + NProc) % NProc = pid
      BY <1>1, <1>3, ModOnce
    <3> QED BY <1>3, <3>1, <3>2
  <2> QED BY <1>1, <1>3, <2>1, <2>2
<1>5. Min(turn) \in turn
  <2>1. turn \subseteq Nat
    OBVIOUS
  <2>2. \E n \in turn : \A k \in turn : n <= k
    <3> HIDE DEF turn
    <3> QED BY <1>4, <2>1, LeastNat
  <2> HIDE DEF turn
  <2> QED BY <2>2 DEF Min
<1>6. Showing(due) = at(Min(turn))
  BY <1>4 DEF Showing
<1>7. at(Min(turn)) \in 0..NProc-1
  BY <1>1, <1>5
<1>8. at(Min(turn)) # 0 /\ state[at(Min(turn))] # "free"
  BY <1>5
<1> HIDE DEF turn, at
<1> QED BY <1>6, <1>7, <1>8, <1>1 DEF Live, Pids

(* The map is right, whatever programs did: each page is drawn as its count  *)
(* says, never as an error, and the process shown has only pages of its own  *)
(* or shared ones.                                                           *)
THEOREM MapTrue ==
    ASSUME Remap = FALSE, KillStale = FALSE
    PROVE  Spec => []ViewerRight
<1>1. IInv => ViewerRight
  <2> SUFFICES ASSUME IInv, Walked # {} PROVE ViewerRight
    BY DEF ViewerRight
  <2> DEFINE rt == RootsOf(state, pagetable)
  <2>1. state[0] = "free"
    BY DEF IInv, ProcsOK
  <2>2. ASSUME NEW pg \in Phys
        PROVE  Symbol(pg).kind = IF refcount[pg] = 0 THEN "free"
                                 ELSE IF pg = viewer THEN "kernel"
                                 ELSE IF refcount[pg] > 1 THEN "shared" ELSE "private"
    BY SymbolRight
  <2>3. ASSUME NEW pid \in Live, NEW va \in VA
        PROVE  \/ VirtualSymbol(pid, va).kind \in {"blank", "shared"}
               \/ VirtualSymbol(pid, va) = [kind |-> "private", pid |-> pid]
    <3> DEFINE pg == Lookup(Memory, pagetable[pid], va)
    <3>1. /\ Sound(Memory, Values, Pids, rt, Viewed(viewer))
          /\ pid \in Pids /\ rt[pid] = pagetable[pid]
      BY LiveRoots
    <3>2. va \in Places /\ Slot(Memory, rt[pid], va) = pg
      BY <3>1, LeafPlace
    <3>3. CASE pg = NoPage
      BY <3>3 DEF VirtualSymbol, Sign
    <3>4. CASE pg # NoPage
      <4>1. pg \in Phys
        BY <3>1, <3>2, <3>4, ReferredPositive
      <4>2. VirtualSymbol(pid, va) = Symbol(pg)
        BY <3>4 DEF VirtualSymbol
      <4> HIDE DEF pg, rt
      <4>3. /\ pg # viewer /\ refcount[pg] > 0
            /\ refcount[pg] = 1 => Symbol(pg) = [kind |-> "private", pid |-> pid]
        BY <3>1, <3>2, <4>1, SymbolRight DEF rt
      <4>4. refcount[pg] \in Nat
        BY <3>1, <4>1 DEF Sound, Memories, Memory
      <4>5. CASE refcount[pg] > 1
        <5>1. Symbol(pg).kind = "shared"
          BY <2>2, <4>1, <4>3, <4>4, <4>5
        <5> QED BY <4>2, <5>1
      <4> QED BY <4>2, <4>3, <4>4, <4>5
    <3> QED BY <3>3, <3>4
  <2>4. \A due \in 0..NProc-1 : Showing(due) \in Live
    BY ShowsLive
  <2> QED BY <2>1, <2>2, <2>3, <2>4 DEF ViewerRight
<1> QED BY <1>1, Invariance, PTL
===============================================================================
