--------------------------------- MODULE M61 ---------------------------------
(***************************************************************************)
(* src/pset1/m61.cc, the debugging allocator, over basealloc.cc, which     *)
(* gives out fresh or freed memory.                                        *)
(*                                                                         *)
(* Memory is slots of cells.  A block fills a slot from the start: the     *)
(* header in cell 0, sz cells of payload, the footer.  One cell stands for *)
(* 16 bytes (and for the 48 of a header).  Slot 0 holds first_node.  A     *)
(* pointer is [slot, off, odd], odd when it is not a multiple of 16.       *)
(* Left out: base_allocator_disable(), malloc(3) failing, the printing of  *)
(* the statistics.                                                         *)
(***************************************************************************)
EXTENDS Integers, Sequences, FiniteSets, FiniteSetsExt

CONSTANTS Slots,     \* bound: the blocks the system's malloc can give out, 1..n
          Span,      \* bound: cells of a slot
          Wrap,      \* 2^64, the size of a size_t, and UINT_MAX
          UintMax,
          Sites,     \* file:line of the calls
          Counters,  \* the 6 counters for heavy hitters, 1..n
          NoSite

ASSUME HeapAssumption ==
    /\ Slots \subseteq Nat \ {0} /\ IsFiniteSet(Slots) /\ Span \in Nat
    /\ UintMax \in Nat /\ Wrap \in Nat /\ UintMax < Wrap /\ \A s \in Slots : s < Wrap
    /\ IsFiniteSet(Sites) /\ NoSite \notin Sites
    /\ IsFiniteSet(Counters) /\ Counters = 1..Cardinality(Counters)

VARIABLES mem,       \* slot |-> cell |-> what it holds
          lent,      \* basealloc's allocs: slot |-> size, of blocks in use
          spare,     \* basealloc's frees: the same of freed blocks
          stat,      \* the global counters of m61.cc
          byBytes, byCalls,   \* the heavy-hitter counters
          said       \* what the last m61_free() found, or the report printed
m61Vars == <<mem, lent, spare, stat, byBytes, byCalls, said>>

Null == [slot |-> -1, off |-> 0, odd |-> FALSE]
Payload(s) == [slot |-> s, off |-> 1, odd |-> FALSE]
Addr(p) == 2 * (p.slot * Span + p.off) + (IF p.odd THEN 1 ELSE 0)
Junk == [is |-> "junk"]
Foot == [is |-> "footer"]
Header(sz, tag, site, prev, next) ==
    [is |-> "header", size |-> sz, tag |-> tag, site |-> site, prev |-> prev, next |-> next]
NoLink == -1
Cell(s, off) == IF off \in 0..Span - 1 THEN mem[s][off] ELSE Junk
First == mem[0][0]
Nothing == [what |-> "nothing", ptr |-> Null, inside |-> {}]

M61Init ==
    /\ mem = [s \in {0} \cup Slots |-> [o \in 0..Span - 1 |->
                IF s = 0 /\ o = 0 THEN Header(0, "none", NoSite, NoLink, NoLink) ELSE Junk]]
    /\ lent = [s \in {} |-> 0] /\ spare = [s \in {} |-> 0]
    /\ stat = [mallocs |-> 0, frees |-> 0, active |-> 0, total |-> 0, fails |-> 0, failed |-> 0,
               min |-> 2 * Span * Wrap, max |-> 0]
    /\ byBytes = [i \in Counters |-> [n |-> 0, site |-> NoSite]]
    /\ byCalls = byBytes
    /\ said = Nothing

------------------------------------------------------------------------------
(* base_malloc(): a freed block that is large enough, or a fresh one.        *)
Reusable(sz) == {s \in DOMAIN spare : spare[s] >= sz}
Fresh == Slots \ (DOMAIN lent \cup DOMAIN spare)
BaseMalloc(s, sz) ==
    /\ s \in Reusable(sz) \cup Fresh
    /\ lent' = [t \in DOMAIN lent \cup {s} |-> IF t = s THEN sz ELSE lent[t]]
    /\ spare' = [t \in DOMAIN spare \ {s} |-> spare[t]]
BaseFree(s) ==
    IF s \in DOMAIN lent
    THEN /\ spare' = [t \in DOMAIN spare \cup {s} |-> IF t = s THEN lent[s] ELSE spare[t]]
         /\ lent' = [t \in DOMAIN lent \ {s} |-> lent[t]]
    ELSE UNCHANGED <<lent, spare>>

(* A header at the end of the list; the first call closes the circle.        *)
BugLinked(s, sz, site) ==   \* first_node's prev_ptr stays behind
    LET last == IF First.next = NoLink THEN 0 ELSE First.prev
        m == [mem EXCEPT ![s] = [@ EXCEPT ![0] = Header(sz, "live", site, last, 0),
                                          ![sz + 1] = Foot],
                         ![0][0].next = IF First.next = NoLink THEN 0 ELSE @]
    IN [m EXCEPT ![last][0].next = s]
Linked(s, sz, site) ==
    LET last == IF First.next = NoLink THEN 0 ELSE First.prev
        m == [mem EXCEPT ![s] = [@ EXCEPT ![0] = Header(sz, "live", site, last, 0),
                                          ![sz + 1] = Foot],
                         ![0][0].next = IF First.next = NoLink THEN 0 ELSE @]
    IN [m EXCEPT ![last][0].next = s, ![0][0].prev = s]

(* The counters of the heavy hitters: the site's own, else an unused one,   *)
(* else all of them pay, and a byte counter that reaches 0 changes hands.   *)
Mine(h, site) == {i \in Counters : h[i].n # 0 /\ h[i].site = site}
Unused(h) == {i \in Counters : h[i].n = 0}
BugCharge(h, site, sz) ==   \* the counter keeps the name of its old site
    LET least == Min({sz} \cup {h[i].n : i \in Counters})
        Paid == [i \in Counters |-> [h[i] EXCEPT !.n = @ - least]] IN
    IF Mine(h, site) # {} THEN [h EXCEPT ![Min(Mine(h, site))].n = @ + sz]
    ELSE IF Unused(h) # {} THEN [h EXCEPT ![Max(Unused(h))] = [n |-> sz, site |-> site]]
    ELSE IF least = sz THEN Paid
    ELSE [Paid EXCEPT ![Min({i \in Counters : h[i].n = least})].n = sz - least]
Charge(h, site, sz) ==
    LET least == Min({sz} \cup {h[i].n : i \in Counters})
        Paid == [i \in Counters |-> [h[i] EXCEPT !.n = @ - least]] IN
    IF Mine(h, site) # {} THEN [h EXCEPT ![Min(Mine(h, site))].n = @ + sz]
    ELSE IF Unused(h) # {} THEN [h EXCEPT ![Max(Unused(h))] = [n |-> sz, site |-> site]]
    ELSE IF least = sz THEN Paid
    ELSE [Paid EXCEPT ![Min({i \in Counters : h[i].n = least})] = [n |-> sz - least, site |-> site]]
Count(h, site) ==
    IF Mine(h, site) # {} THEN [h EXCEPT ![Min(Mine(h, site))].n = @ + 1]
    ELSE IF Unused(h) # {} THEN [h EXCEPT ![Max(Unused(h))] = [n |-> 1, site |-> site]]
    ELSE [i \in Counters |-> [h[i] EXCEPT !.n = @ - 1]]

Failed(sz) ==
    /\ stat' = [stat EXCEPT !.fails = @ + 1, !.failed = (@ + sz) % Wrap]
    /\ UNCHANGED <<mem, lent, spare, byBytes, byCalls, said>>
Malloc(s, sz, site) ==
    \/ sz >= UintMax /\ Failed(sz)
    \/ /\ sz < UintMax
       /\ BaseMalloc(s, sz)
       /\ mem' = Linked(s, sz, site)
       /\ stat' = [stat EXCEPT !.mallocs = @ + 1, !.active = (@ + sz) % Wrap,
                     !.total = (@ + sz) % Wrap,
                     !.min = Min({@, Addr(Payload(s))}),
                     !.max = Max({@, Addr(Payload(s)) + (2 * sz)})]
       /\ byBytes' = Charge(byBytes, site, sz)
       /\ byCalls' = Count(byCalls, site)
       /\ said' = Nothing
(* The product is a size_t; a failure for nmemb leaves fail_size alone. *)
Calloc(s, nmemb, sz, site) ==
    \/ nmemb < UintMax /\ Malloc(s, (nmemb * sz) % Wrap, site)
    \/ nmemb >= UintMax /\ Failed(0)

(* The list from first_node backwards. *)
WalkBack[k \in Nat] == IF k = 0 THEN First.prev
                       ELSE IF WalkBack[k - 1] \in {0, NoLink} THEN 0
                       ELSE mem[WalkBack[k - 1]][0].prev
BlocksListed == {WalkBack[k] : k \in 0..Cardinality(Slots)} \ {0, NoLink}

(* m61_free(): the checks in their order, then the block leaves the list. *)
BugUnlinks(h, p) == TRUE
Unlinks(h, p) == /\ p.off = 1
                 /\ mem[h.prev][0].next = p.slot
                 /\ mem[h.next][0].prev = p.slot
Says(what, p, inside) ==
    /\ said' = [what |-> what, ptr |-> p, inside |-> inside]
    /\ what # "freed" => UNCHANGED <<mem, lent, spare, stat>>
Contains(s, p) == /\ Addr(Payload(s)) <= Addr(p)
                  /\ Addr(p) < Addr(Payload(s)) + (2 * mem[s][0].size)
Free(p) ==
    LET h == Cell(p.slot, p.off - 1) IN
    /\ \/ p = Null /\ Says("nothing", p, {})
       \/ p # Null /\
          IF ~(stat.min <= Addr(p) /\ Addr(p) <= stat.max) THEN Says("not in heap", p, {})
          ELSE IF p.odd \/ h.is # "header"
          THEN Says("not allocated", p, {s \in BlocksListed : Contains(s, p)})
          ELSE IF h.tag = "freed" THEN Says("double free", p, {})
          ELSE IF ~Unlinks(h, p) THEN Says("not allocated", p, {})
          ELSE IF Cell(p.slot, p.off + h.size) # Foot THEN Says("wild write", p, {})
          ELSE /\ Says("freed", p, {})
               /\ LET m == [mem EXCEPT ![p.slot][p.off - 1].tag = "freed",
                                       ![h.prev][0].next = h.next]
                  IN mem' = [m EXCEPT ![h.next][0].prev = h.prev]
               /\ stat' = [stat EXCEPT !.frees = @ + 1, !.active = (@ - h.size) % Wrap]
               /\ BaseFree(p.slot)
    /\ UNCHANGED <<byBytes, byCalls>>
Aborted == said.what \notin {"nothing", "freed", "report"}

(* m61_get_statistics() *)
Nactive == stat.mallocs - stat.frees

(* The heavy-hitter report: print the largest of the first i counters and   *)
(* overwrite it with the i-th; the counters are of no use afterwards.       *)
PrintLargest(report, i) ==
    LET h == report.left
        most == Min({j \in 1..i : \A k \in 1..i : h[k].n <= h[j].n}) IN
    [left |-> [h EXCEPT ![most] = h[i]],
     printed |-> IF h[most].site = NoSite THEN report.printed ELSE Append(report.printed, h[most])]
Report(h) ==
    LET n == Cardinality(Counters)
        turn[k \in 0..n] == IF k = 0 THEN [left |-> h, printed |-> <<>>]
                            ELSE PrintLargest(turn[k - 1], n - k + 1) IN
    turn[n]
PrintHeavyHitters ==
    LET bytes == Report(byBytes)  calls == Report(byCalls) IN
    /\ said' = [what |-> "report", bytes |-> bytes.printed, calls |-> calls.printed]
    /\ byBytes' = bytes.left /\ byCalls' = calls.left
    /\ UNCHANGED <<mem, lent, spare, stat>>

------------------------------------------------------------------------------
(* What a buggy program does to memory: it copies a block over the inside   *)
(* of another (test032), writes past the end of one (test025), or puts back *)
(* what was there earlier (test033).                                        *)
CopyInto(s, t) ==
    /\ mem[s][0].size >= 2 /\ mem[t][0].size = 0
    /\ mem' = [mem EXCEPT ![s] = [@ EXCEPT ![1] = mem[t][0], ![2] = mem[t][1]]]
    /\ UNCHANGED <<lent, spare, stat, byBytes, byCalls, said>>
Overrun(s) ==
    /\ mem' = [mem EXCEPT ![s][mem[s][0].size + 1] = Junk]
    /\ UNCHANGED <<lent, spare, stat, byBytes, byCalls, said>>
(* The copy of test033 takes in all of a block, from its header to its      *)
(* footer, and the header of the block behind it in memory.  Put back, it   *)
(* brings all their links back, too.  (A copy made when no header was       *)
(* behind is not put back over one.)                                        *)
IsHeader(c) == c.is = "header"
Copy(s) == [slot |-> s, row |-> mem[s], behind |-> IF s + 1 \in Slots THEN mem[s + 1][0] ELSE Junk]
PutBack(c) ==
    /\ c.slot + 1 \in Slots /\ IsHeader(mem[c.slot + 1][0]) => IsHeader(c.behind)
    /\ mem' = [t \in DOMAIN mem |->
                 IF t = c.slot THEN c.row
                 ELSE IF t = c.slot + 1 THEN [mem[t] EXCEPT ![0] = c.behind] ELSE mem[t]]
    /\ UNCHANGED <<lent, spare, stat, byBytes, byCalls, said>>
=============================================================================
