-------------------------------- MODULE M61MC --------------------------------
(***************************************************************************)
(* m61 and a program that uses it: one that allocates, frees any pointer,  *)
(* and writes where it should not ("heap"), or hhtest.cc, which allocates  *)
(* and frees at once from many call sites and prints the report.  The      *)
(* history below is what the test scripts know: which calls were made.     *)
(***************************************************************************)
EXTENDS M61, Functions

CONSTANTS HeapCalls,   \* bound: allocations and misdeeds of the first program
          HhCalls      \* bound: allocations of hhtest

(* Blocks fit their slots, and so few are asked for that no sum wraps; nor  *)
(* does a product of calloc(): the program does not ask for one that would. *)
ASSUME ProgramAssumption ==
    /\ HeapCalls \in Nat /\ HhCalls \in Nat /\ Sites # {}
    /\ UintMax > 3 /\ Span >= 5
    /\ 2 * UintMax * (HeapCalls + 1) < Wrap /\ 3 * HhCalls < Wrap

VARIABLES program,     \* which of the two
          todo,        \* how many calls it still makes
          live,        \* history: the live blocks, oldest first: [slot, size, site]
          past,        \* history: the payloads ever given out: [slot, size]
          wild,        \* history: blocks written past their end
          made,        \* history: bytes and calls of every site
          refused,     \* history: calls refused, and what they asked malloc for
          saved,       \* the program's copy of a block
          restored,    \* has it been put back?
          current      \* history: since it was made, nothing was allocated and no
                       \* other block freed
vars == <<m61Vars, program, todo, live, past, wild, made, refused, saved, restored, current>>

Init ==
    /\ M61Init
    /\ \E c \in {<<"heap", HeapCalls>>, <<"hhtest", HhCalls>>} : program = c[1] /\ todo = c[2]
    /\ live = <<>> /\ past = {} /\ wild = {}
    /\ made = [x \in Sites |-> [bytes |-> 0, calls |-> 0]]
    /\ refused = [bytes |-> 0, calls |-> 0]
    /\ saved = [slot |-> 0, row |-> <<>>, behind |-> Junk]
    /\ restored = FALSE /\ current = FALSE

IsLive(s) == \E i \in 1..Len(live) : live[i].slot = s
Place(s) == CHOOSE i \in 1..Len(live) : live[i].slot = s
Without(s) == [k \in 1..Len(live) - 1 |-> IF k < Place(s) THEN live[k] ELSE live[k + 1]]
Refused(sz) ==
    /\ refused' = [bytes |-> refused.bytes + sz, calls |-> refused.calls + 1]
    /\ UNCHANGED <<live, past, wild, made, saved, restored, current>>
Noted(s, sz, site) ==   \* the history of an allocation
    IF sz >= UintMax THEN Refused(sz)
    ELSE /\ live' = Append(live, [slot |-> s, size |-> sz, site |-> site])
         /\ past' = past \cup {[slot |-> s, size |-> sz]}
         /\ made' = [made EXCEPT ![site] = [bytes |-> @.bytes + sz, calls |-> @.calls + 1]]
         /\ wild' = wild \ {s}
         /\ current' = FALSE
         /\ UNCHANGED <<refused, saved, restored>>
FreeNoted(p) ==
    /\ Free(p)
    /\ live' = IF said'.what = "freed" /\ IsLive(p.slot) THEN Without(p.slot) ELSE live
    /\ current' = (current /\ (said'.what = "freed" => p.slot = saved.slot))
    /\ UNCHANGED <<past, wild, made, todo, refused, saved, restored>>

Pointers == {Null} \cup [slot : Slots, off : 1..3, odd : {FALSE}]
            \cup [slot : Slots, off : {2}, odd : {TRUE}]
            \cup {[slot |-> 0, off |-> 1, odd |-> FALSE]}   \* (void*) 16

(* test033: a block is copied, freed, and put back; from then on the        *)
(* program only frees.                                                      *)
Save(s) ==
    /\ saved' = Copy(s) /\ current' = TRUE
    /\ UNCHANGED <<m61Vars, live, past, wild, made, refused, restored>>
Restore ==
    /\ saved.slot # 0 /\ ~IsLive(saved.slot) /\ ~restored
    /\ PutBack(saved) /\ restored' = TRUE
    /\ UNCHANGED <<todo, live, past, wild, made, refused, saved, current>>

HeapSite == CHOOSE x \in Sites : TRUE
HeapStep ==
    /\ program = "heap"
    /\ \/ /\ todo > 0 /\ todo' = todo - 1 /\ ~restored
          /\ \/ \E s \in Slots, sz \in {0, 2, UintMax} :
                  Malloc(s, sz, HeapSite) /\ Noted(s, sz, HeapSite)
             \/ \E s \in Slots, a \in {<<2, 1>>, <<2, UintMax>>} :
                  Calloc(s, a[1], a[2], HeapSite) /\ Noted(s, a[1] * a[2], HeapSite)
             \/ \E s \in Slots : Calloc(s, UintMax, 1, HeapSite) /\ Refused(0)
             \/ /\ \/ \E s, t \in Slots : IsLive(s) /\ IsLive(t) /\ CopyInto(s, t) /\ wild' = wild
                   \/ \E s \in Slots : IsLive(s) /\ Overrun(s) /\ wild' = wild \cup {s}
                /\ UNCHANGED <<live, past, made, refused, saved, restored, current>>
             \/ \E s \in Slots : IsLive(s) /\ Save(s)
       \/ Restore
       \/ \E p \in Pointers : FreeNoted(p)

(* hhtest.cc: one of the allocators, each a malloc and a free of its own.   *)
Allocator(x) ==
    \/ /\ live = <<>> /\ todo > 0 /\ todo' = todo - 1
       /\ \E sz \in 1..3 : LET s == Min(Slots) IN Malloc(s, sz, x) /\ Noted(s, sz, x)
    \/ live # <<>> /\ live[1].site = x /\ FreeNoted(Payload(live[1].slot))
HhStep ==
    /\ program = "hhtest"
    /\ \/ \E x \in Sites : Allocator(x)
       \/ /\ todo = 0 /\ live = <<>> /\ said.what # "report"
          /\ PrintHeavyHitters
          /\ UNCHANGED <<todo, live, past, wild, made, refused, saved, restored, current>>
Next == ~Aborted /\ (HeapStep \/ HhStep) /\ UNCHANGED program
Spec == Init /\ [][Next]_vars

------------------------------------------------------------------------------
Starts == {Addr(Payload(b.slot)) : b \in past}
Ends == {Addr(Payload(b.slot)) + (2 * b.size) : b \in past}
Held(s) == IF IsLive(s) THEN live[Place(s)].size ELSE 0
Bytes == [x \in Sites |-> made[x].bytes]
Calls == [x \in Sites |-> made[x].calls]

(* The statistics and the leak report: until old headers are put back, they *)
(* agree with the calls that were made, whatever order blocks are freed and *)
(* reused in; the list holds just the live blocks, newest first, each with  *)
(* its size and its site; and the bounds of the heap are those of all the   *)
(* payloads there ever were.                                                *)
LedgerAgrees == ~restored =>
    /\ Nactive = Len(live)
    /\ stat.active = SumFunction([s \in Slots |-> Held(s)])
    /\ stat.total = SumFunction(Bytes) /\ stat.mallocs = SumFunction(Calls)
    /\ stat.fails = refused.calls /\ stat.failed = refused.bytes
    /\ past # {} => stat.min = Min(Starts) /\ stat.max = Max(Ends)
    /\ \A k \in 0..Len(live) :
         WalkBack[k] = IF k < Len(live) THEN live[Len(live) - k].slot
                       ELSE IF First.next = NoLink THEN NoLink ELSE 0
    /\ \A i \in 1..Len(live) :
         LET h == mem[live[i].slot][0] IN h.size = live[i].size /\ h.site = live[i].site
    /\ DOMAIN lent = {live[i].slot : i \in 1..Len(live)}

(* What m61_free() must say of a pointer, from the history alone. *)
Due(p) ==
    LET start == p.off = 1 /\ ~p.odd
    IN IF p = Null THEN "nothing"
       ELSE IF start /\ IsLive(p.slot) THEN IF p.slot \in wild THEN "wild write" ELSE "freed"
       ELSE IF past = {} \/ Addr(p) < Min(Starts) \/ Addr(p) > Max(Ends) THEN "not in heap"
       ELSE IF start /\ \E b \in past : b.slot = p.slot THEN "double free"
       ELSE "not allocated"
(* m61_free() judges every pointer rightly: it frees a live block whose end *)
(* is intact and nothing else, and names the fault otherwise; for a wild    *)
(* pointer it finds the live block that the pointer is inside of, unless a  *)
(* copied header lies there.  Once old headers are put back it still        *)
(* refuses the block they belong to, if the copy was current: as test033    *)
(* does it (an older copy may deceive it, see PutBackCaught).               *)
Frees == todo' = todo /\ restored' = restored /\ said'.what # "report"
Around(p) == {live[i].slot : i \in {j \in 1..Len(live) :
                 /\ live[j].slot = p.slot
                 /\ Addr(Payload(p.slot)) <= Addr(p)
                 /\ Addr(p) < Addr(Payload(p.slot)) + (2 * live[j].size)}}
Faked(p) == ~p.odd /\ IsHeader(Cell(p.slot, p.off - 1))
FreesJudged ==
    [][Frees =>
         LET p == said'.ptr IN
         /\ ~restored => said'.what = Due(p)
         /\ ~restored /\ said'.what = "not allocated" /\ ~Faked(p) => said'.inside = Around(p)
         /\ restored /\ current /\ p = Payload(saved.slot) => said'.what = "not allocated"]_vars

(* A block put back after it was freed is not freed again: what test033     *)
(* expects of any such program (test033.cc:20).                             *)
PutBackCaught == [][stat'.frees # stat.frees => IsLive(said'.ptr.slot)]_vars

(* The heavy hitters: a counter never says more than its site allocated,    *)
(* and no site is undercounted by more than its share of the total, so one  *)
(* with more than a seventh of all bytes, or of all calls, is reported.     *)
Shown(h, x) == SumFunction([i \in Counters |-> IF h[i].site = x THEN h[i].n ELSE 0])
N1 == Cardinality(Counters) + 1
ReportRight(p, cost, total) ==
    /\ \A x \in Sites : N1 * cost[x] > total =>
          \E i \in 1..Len(p) : p[i].site = x /\ p[i].n > 0
    /\ \A i \in 2..Len(p) : p[i].n <= p[i - 1].n
HeavyHittersFound ==
    /\ said.what # "report" => \A x \in Sites :
         /\ Shown(byBytes, x) <= made[x].bytes /\ Shown(byCalls, x) <= made[x].calls
         /\ N1 * (made[x].bytes - Shown(byBytes, x)) <= stat.total
         /\ N1 * (made[x].calls - Shown(byCalls, x)) <= stat.mallocs
    /\ said.what = "report" => /\ ReportRight(said.bytes, Bytes, stat.total)
                               /\ ReportRight(said.calls, Calls, stat.mallocs)
=============================================================================
