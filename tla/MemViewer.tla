------------------------------- MODULE MemViewer -------------------------------
(***************************************************************************)
(* src/pset3/k-memviewer.cc and memshow() of kernel.cc: the map of memory  *)
(* that the kernel draws at every entry.  It knows nothing of reference    *)
(* counts: memusage::refresh() walks the page tables of the processes and  *)
(* marks every page it meets, symbol_at() turns marks into a symbol.       *)
(*                                                                         *)
(* Only allocatable pages are here; colours, rows and columns, and what is *)
(* drawn for reserved and kernel pages are left out.                       *)
(***************************************************************************)
EXTENDS WeensyOS

(* memusage::refresh(): whose page tables it walks. *)
BugWalked == {pid \in Pids : pagetable[pid] # NoPage}
Walked == {pid \in Pids : state[pid] # "free" /\ pagetable[pid] # NoPage}

(* ptiter, and the root: pages marked f_kernel and f_process(pid). *)
TableMarks(pg) ==
    {pid \in Walked : pg \in {pagetable[pid]} \cup Range(TablePages(Memory, pagetable[pid]))}
(* vmiter: pages marked f_user and f_process(pid). *)
UserMarks(pg) ==
    {pid \in Walked : \E va \in VA : Lookup(Memory, pagetable[pid], va) = pg}
(* The flags of a page; without processes the viewer leaves its own page out. *)
Marks(pg) ==
    [kernel    |-> TableMarks(pg) # {} \/ (pg = viewer /\ Walked # {}),
     user      |-> UserMarks(pg) # {},
     processes |-> TableMarks(pg) \cup UserMarks(pg)]

(* symbol_at(), whose letter for a page of one process is the process.      *)
Sign(kind) == [kind |-> kind, pid |-> 0]
Symbol(pg) ==
    LET v == Marks(pg) IN
    CASE v.kernel /\ v.user /\ v.processes # {} -> Sign("error")
      [] v.processes = {} -> Sign(IF v.kernel THEN "kernel" ELSE "free")
      [] Cardinality(v.processes) > 1 -> Sign("shared")
      [] OTHER -> [kind |-> "private", pid |-> Min(v.processes)]

(* memshow(): the process whose address space is drawn, searched in a       *)
(* circle from the one that is due; 0 for none.                             *)
Showing(due) ==
    LET turn == {i \in 0..NProc - 1 :
                   LET pid == (due + i) % NProc IN
                   pid # 0 /\ state[pid] # "free" /\ pagetable[pid] # NoPage} IN
    IF turn = {} THEN 0 ELSE (due + Min(turn)) % NProc
(* console_memviewer_virtual() *)
VirtualSymbol(pid, va) ==
    LET pg == Lookup(Memory, pagetable[pid], va) IN
    IF pg = NoPage THEN Sign("blank") ELSE Symbol(pg)

(* The map is right: although it is made from the page tables alone, it     *)
(* shows a page as free, the kernel's, shared or private just as the        *)
(* reference counts say, never an error, and page tables as private; and    *)
(* the address space drawn is one of a process there is, with no page in it *)
(* that the map calls free, the kernel's or another process's.              *)
ViewerRight ==
    ~halted /\ Walked # {} =>
        /\ state[0] = "free"
        /\ \A pg \in Phys :
             Symbol(pg).kind = IF refcount[pg] = 0 THEN "free"
                               ELSE IF pg = viewer THEN "kernel"
                               ELSE IF refcount[pg] > 1 THEN "shared" ELSE "private"
        /\ \A due \in 0..NProc - 1 :
             LET pid == Showing(due) IN
             /\ pid \in Live
             /\ \A va \in VA :
                  \/ VirtualSymbol(pid, va).kind \in {"blank", "shared"}
                  \/ VirtualSymbol(pid, va) = [kind |-> "private", pid |-> pid]
================================================================================
