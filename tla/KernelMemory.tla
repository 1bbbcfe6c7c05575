---------------------------- MODULE KernelMemory ----------------------------
(***************************************************************************)
(* Physical memory and page tables of WeensyOS (src/pset3): kalloc() and   *)
(* kfree() of kernel.cc, vmiter and ptiter of k-vmiter.cc, and the parts   *)
(* of fork and exit that work on them, as operators on a memory            *)
(*     m = [rc  |-> page |-> reference count (a uint8_t),                    *)
(*          mem |-> page |-> content].                                     *)
(* A content is [junk, e, data]: all 0xCC, or page table entries e (index  *)
(* |-> [pa, w]) and data.  A zeroed page is at once an empty table and a   *)
(* data page with value 0, as in the code.                                 *)
(*                                                                         *)
(* Virtual pages are numbered 1..NVA upwards from PROC_START_ADDR; the     *)
(* first NLow lie below 2MB, the others above, so that a full page table   *)
(* has a root (level 4), one table of levels 3 and 2, and two of level 1.  *)
(* The kernel's own mappings below PROC_START_ADDR are in the low one;     *)
(* they map no allocatable page, so only the tables they need are here.    *)
(***************************************************************************)
EXTENDS Integers, Sequences, SequencesExt, FiniteSetsExt

CONSTANTS NPages,   \* how many allocatable pages there are, in address order
          NLow,     \* virtual pages below 2MB
          NVA       \* all virtual pages

ASSUME MemoryAssumption == /\ NPages \in Nat \ {0}
                           /\ NLow \in Nat \ {0} /\ NVA \in Nat /\ NLow < NVA

Phys == 1..NPages
NoPage == 0               \* nullptr
VA == 1..NVA
Half(va) == IF va <= NLow THEN 0 ELSE 1   \* index in the level 2 table

Junk == [junk |-> TRUE, e |-> <<>>, data |-> 0]
Zero == [junk |-> FALSE, e |-> <<>>, data |-> 0]

(* Definitions named Bug... are wrong variants of the definition that       *)
(* follows them; no specification uses them, and TLC must refute them.      *)

(* kalloc(): the first free page, filled with 0xCC, or nullptr. *)
Kalloc(m) ==
    LET free == {p \in Phys : m.rc[p] = 0} IN
    IF free = {} THEN [m |-> m, p |-> NoPage]
    ELSE LET p == Min(free) IN
         [m |-> [rc |-> [m.rc EXCEPT ![p] = 1], mem |-> [m.mem EXCEPT ![p] = Junk]],
          p |-> p]

(* memset(page, 0, PAGESIZE) *)
Zeroed(m, p) == [m EXCEPT !.mem[p] = Zero]

(* kfree(): a page whose count reaches 0 is free and filled with 0xCC. *)
BugKfreeWhole(m, p) ==
    IF p = NoPage THEN m
    ELSE [rc |-> [m.rc EXCEPT ![p] = 0], mem |-> [m.mem EXCEPT ![p] = Junk]]
Kfree(m, p) ==
    IF p = NoPage THEN m
    ELSE LET n == (m.rc[p] - 1) % 256 IN
         [rc  |-> [m.rc EXCEPT ![p] = n],
          mem |-> IF n = 0 THEN [m.mem EXCEPT ![p] = Junk] ELSE m.mem]

-----------------------------------------------------------------------------
(* Page tables *)

(* The page an entry refers to.  0xCC...CC does not have PTE_P set. *)
Entry(m, p, i) ==
    IF p # NoPage /\ i \in DOMAIN m.mem[p].e THEN m.mem[p].e[i].pa ELSE NoPage

Link(m, p, i, pa, w) ==
    [m EXCEPT !.mem[p].e = [j \in DOMAIN @ \cup {i} |->
                               IF j = i THEN [pa |-> pa, w |-> w] ELSE @[j]]]

Level3(m, root)    == Entry(m, root, 0)
Level2(m, root)    == Entry(m, Level3(m, root), 0)
Level1(m, root, h) == Entry(m, Level2(m, root), h)

(* vmiter: the page that virtual page va is mapped to, and may it be written? *)
Lookup(m, root, va)   == Entry(m, Level1(m, root, Half(va)), va)
Writable(m, root, va) == /\ Lookup(m, root, va) # NoPage
                         /\ m.mem[Level1(m, root, Half(va))].e[va].w

(* vmiter::down() panics at an entry that is not an address: "Page table     *)
(* may contain uninitialized memory!"                                        *)
WalkPanics(m, root) ==
    \E p \in {root, Level3(m, root), Level2(m, root),
              Level1(m, root, 0), Level1(m, root, 1)} \ {NoPage} : m.mem[p].junk

(* One turn of the loop of vmiter::try_map(): descend to entry i, with a new *)
(* table if there is none.  A table that was linked stays when a later one   *)
(* cannot be had.                                                            *)
Descend(s, i) ==
    LET next == Entry(s.m, s.at, i)
        new  == Kalloc(s.m)
    IN  IF ~s.ok THEN s
        ELSE IF next # NoPage THEN [s EXCEPT !.at = next]
        ELSE IF new.p = NoPage THEN [s EXCEPT !.ok = FALSE]
        ELSE [m |-> Link(Zeroed(new.m, new.p), s.at, i, new.p, TRUE),
              at |-> new.p, ok |-> TRUE]

(* The level 1 table of half h, made if need be. *)
MakeTables(m, root, h) ==
    FoldLeft(Descend, [m |-> m, at |-> root, ok |-> TRUE], <<0, 0, h>>)

(* try_map(): map va to page pa. *)
TryMap(m, root, va, pa, w) ==
    LET t == MakeTables(m, root, Half(va)) IN
    IF t.ok THEN [m |-> Link(t.m, t.at, va, pa, w), ok |-> TRUE]
            ELSE [m |-> t.m, ok |-> FALSE]

-----------------------------------------------------------------------------
(* Address spaces *)

(* The pages exit_proc() frees, in its order: what is mapped for the user   *)
(* (the first loop), the tables depth first (ptiter), and the root.         *)
UserPages(m, root) == [va \in VA |-> Lookup(m, root, va)]
TablePages(m, root) ==
    << Level1(m, root, 0), Level1(m, root, 1), Level2(m, root), Level3(m, root) >>

FreeAll(m, pages) ==
    LET freed[n \in 0..Len(pages)] ==
            IF n = 0 THEN m ELSE Kfree(freed[n-1], pages[n])
    IN  freed[Len(pages)]

(* exit_proc() on a page table. *)
FreeSpace(m, root) ==
    IF root = NoPage THEN m
    ELSE FreeAll(m, UserPages(m, root) \o TablePages(m, root) \o <<root>>)

(* Which pages of the parent a child gets a copy of; it shares the others. *)
BugMustCopyNone(m, parent, va) == FALSE
MustCopy(m, parent, va) == Writable(m, parent, va)

(* A shared page has one more reference. *)
BugShareUncounted(m, pa) == m
Share(m, pa) == [m EXCEPT !.rc[pa] = (@ + 1) % 256]

(* The copy cannot be mapped: free the child's address space, and the copy. *)
BugAbandonKeep(m, child, copy) == FreeSpace(m, child)
Abandon(m, child, copy) == Kfree(FreeSpace(m, child), copy)

(* One turn of the loop of sys_fork() over the parent's address space. A    *)
(* failure frees the child's address space as far as it was built.          *)
CopyPage(parent, child, s, va) ==
    LET pa     == Lookup(s.m, parent, va)
        new    == Kalloc(s.m)
        copied == [new.m EXCEPT !.mem[new.p] = s.m.mem[pa]]
        own    == TryMap(copied, child, va, new.p, TRUE)
        shared == TryMap(s.m, child, va, pa, Writable(s.m, parent, va))
    IN  IF ~s.ok \/ pa = NoPage THEN s
        ELSE IF MustCopy(s.m, parent, va)
        THEN IF new.p = NoPage THEN [m |-> FreeSpace(s.m, child), ok |-> FALSE]
             ELSE IF own.ok THEN own
             ELSE [m |-> Abandon(own.m, child, new.p), ok |-> FALSE]
        ELSE IF shared.ok THEN [m |-> Share(shared.m, pa), ok |-> TRUE]
        ELSE [m |-> FreeSpace(shared.m, child), ok |-> FALSE]

CopyPages(m, parent, child) ==
    LET copied[va \in 0..NVA] ==
            IF va = 0 THEN [m |-> m, ok |-> TRUE]
            ELSE CopyPage(parent, child, copied[va-1], va)
    IN  copied[NVA]

(* sys_fork()'s work on memory: a root, the tables for the kernel's part,   *)
(* and the pages of the parent.                                             *)
CopySpace(m, parent) ==
    LET root   == Kalloc(m)
        kernel == MakeTables(Zeroed(root.m, root.p), root.p, 0)
        user   == CopyPages(kernel.m, parent, root.p)
    IN  IF root.p = NoPage THEN [m |-> m, root |-> NoPage, ok |-> FALSE]
        ELSE IF ~kernel.ok
        THEN [m |-> FreeSpace(kernel.m, root.p), root |-> root.p, ok |-> FALSE]
        ELSE [m |-> user.m, root |-> root.p, ok |-> user.ok]

(* process_setup()'s loader: a new page for the program at va. *)
Load(m, root, va, w) ==
    LET new == Kalloc(m) IN TryMap(Zeroed(new.m, new.p), root, va, new.p, w).m

(* process_setup(): the root and the tables of the kernel's part, then the  *)
(* program's page (read-only, at the lowest address) and the stack page (at *)
(* the highest).  It does not expect to run out of memory.                  *)
SetupSpace(m) ==
    LET root   == Kalloc(m)
        kernel == MakeTables(Zeroed(root.m, root.p), root.p, 0)
        text   == Load(kernel.m, root.p, 1, FALSE)
    IN  [m |-> Load(text, root.p, NVA, TRUE), root |-> root.p]
=============================================================================
