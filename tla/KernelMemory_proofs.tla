------------------------ MODULE KernelMemory_proofs ------------------------
(***************************************************************************)
(* Proofs about physical memory and page tables, for any number of pages   *)
(* and virtual addresses: what the loops over them do, that building an    *)
(* address space touches no other, that taking one down gives back exactly *)
(* what it referred to, and that copying one does either wholly or not at  *)
(* all.                                                                    *)
(***************************************************************************)
EXTENDS KernelMemory, TLAPS, FiniteSetTheorems, WellFoundedInduction

-----------------------------------------------------------------------------
(* Induction, for sets of numbers. *)

(* A set of natural numbers has a least element. *)
LEMMA LeastNat ==
    ASSUME NEW T, T \subseteq Nat, T # {}
    PROVE  \E n \in T : \A k \in T : n <= k
<1> DEFINE R == {ss \in Nat \X Nat : ss[1] < ss[2]}
<1>1. \E a \in T : \A b \in T : ~ (<<b, a>> \in R)
  <2>1. IsWellFoundedOn(R, Nat)
    BY NatLessThanWellFounded DEF OpToRel
  <2> HIDE DEF R
  <2> QED BY <2>1, WFMin
<1>2. PICK a \in T : \A b \in T : ~ (<<b, a>> \in R)
  BY <1>1
<1>3. ASSUME NEW b \in T PROVE a <= b
  <2>1. a \in Nat /\ b \in Nat /\ ~(<<b, a>> \in Nat \X Nat /\ b < a)
    BY <1>2
  <2> QED BY <2>1
<1> QED BY <1>3

(* What holds before a loop and is kept by its turns holds after each. *)
LEMMA LoopInduction ==
    ASSUME NEW n \in Nat, NEW T, 0 \in T,
           \A k \in 1..n : k - 1 \in T => k \in T
    PROVE  \A k \in 0..n : k \in T
<1> DEFINE bad == {k \in 0..n : k \notin T}
<1> SUFFICES ASSUME bad # {} PROVE FALSE
  OBVIOUS
<1>1. PICK k \in bad : \A j \in bad : k <= j
  <2>1. bad \subseteq Nat
    OBVIOUS
  <2> HIDE DEF bad
  <2> QED BY <2>1, LeastNat
<1>2. k \in 1..n /\ k - 1 \in 0..n
  BY <1>1
<1>3. k - 1 \in T
  BY <1>1, <1>2
<1> QED BY <1>1, <1>2, <1>3

-----------------------------------------------------------------------------
(* The loops of the model, unfolded. *)

(* FreeAll frees one page after the other. *)
LEMMA FreeAllLoop ==
    ASSUME NEW m, NEW pages, Len(pages) \in Nat
    PROVE  \E f : /\ f[0] = m
                  /\ \A n \in 1..Len(pages) : f[n] = Kfree(f[n-1], pages[n])
                  /\ FreeAll(m, pages) = f[Len(pages)]
<1> DEFINE IsRun(f, k) ==
               f = [n \in 0..k |-> IF n = 0 THEN m ELSE Kfree(f[n-1], pages[n])]
           T == {k \in Nat : \E f : IsRun(f, k)}
<1>1. 0 \in T
  <2>1. IsRun([n \in 0..0 |-> m], 0)
    OBVIOUS
  <2> QED BY <2>1
<1>2. ASSUME NEW k \in 1..Len(pages), k - 1 \in T PROVE k \in T
  <2>1. PICK f : IsRun(f, k - 1)
    BY <1>2
  <2> DEFINE g == [n \in 0..k |-> IF n = k THEN Kfree(f[k-1], pages[k]) ELSE f[n]]
  <2>2. IsRun(g, k)
    BY <2>1
  <2> HIDE DEF IsRun
  <2> QED BY <2>2
<1>3. Len(pages) \in T
  <2> HIDE DEF T
  <2>1. \A k \in 1..Len(pages) : k - 1 \in T => k \in T
    BY <1>2
  <2>2. \A k \in 0..Len(pages) : k \in T
    BY <1>1, <2>1, LoopInduction
  <2> QED BY <2>2
<1> DEFINE F == CHOOSE f : IsRun(f, Len(pages))
<1>4. IsRun(F, Len(pages))
  <2>1. \E f : IsRun(f, Len(pages))
    BY <1>3
  <2> HIDE DEF IsRun
  <2> QED BY <2>1
<1>5. FreeAll(m, pages) = F[Len(pages)]
  BY DEF FreeAll
<1> HIDE DEF F
<1>6. /\ F[0] = m
      /\ \A n \in 1..Len(pages) : F[n] = Kfree(F[n-1], pages[n])
  BY <1>4
<1> QED BY <1>5, <1>6

(* CopyPages copies one page after the other. *)
LEMMA CopyPagesLoop ==
    ASSUME NEW m, NEW parent, NEW child
    PROVE  \E f : /\ f[0] = [m |-> m, ok |-> TRUE]
                  /\ \A va \in VA : f[va] = CopyPage(parent, child, f[va-1], va)
                  /\ CopyPages(m, parent, child) = f[NVA]
<1> DEFINE start == [m |-> m, ok |-> TRUE]
           IsRun(f, k) ==
               f = [va \in 0..k |-> IF va = 0 THEN start
                                    ELSE CopyPage(parent, child, f[va-1], va)]
           T == {k \in Nat : \E f : IsRun(f, k)}
<1>1. 0 \in T
  <2>1. IsRun([n \in 0..0 |-> start], 0)
    OBVIOUS
  <2> QED BY <2>1
<1>2. ASSUME NEW k \in VA, k - 1 \in T PROVE k \in T
  <2>1. PICK f : IsRun(f, k - 1)
    BY <1>2
  <2> DEFINE g == [va \in 0..k |-> IF va = k THEN CopyPage(parent, child, f[k-1], k)
                                   ELSE f[va]]
  <2>2. k \in Nat \ {0}
    BY MemoryAssumption DEF VA
  <2>3. IsRun(g, k)
    <3> HIDE DEF start
    <3> QED BY <2>1, <2>2
  <2> HIDE DEF IsRun
  <2> QED BY <2>2, <2>3
<1>3. NVA \in T
  <2> HIDE DEF T
  <2>1. \A k \in 1..NVA : k - 1 \in T => k \in T
    BY <1>2 DEF VA
  <2>2. \A k \in 0..NVA : k \in T
    BY <1>1, <2>1, LoopInduction, MemoryAssumption
  <2> QED BY <2>2, MemoryAssumption
<1> DEFINE F == CHOOSE f : IsRun(f, NVA)
<1>4. IsRun(F, NVA)
  <2>1. \E f : IsRun(f, NVA)
    BY <1>3
  <2> HIDE DEF IsRun
  <2> QED BY <2>1
<1>5. CopyPages(m, parent, child) = F[NVA]
  BY DEF CopyPages
<1> HIDE DEF F, start
<1>6. /\ F[0] = start
      /\ \A va \in VA : F[va] = CopyPage(parent, child, F[va-1], va)
  BY <1>4, MemoryAssumption DEF VA
<1> QED BY <1>5, <1>6 DEF start

(* The maximum of a set of up to three indices is one of them. *)
LEMMA MaxIn ==
    ASSUME NEW S, S \subseteq 1..3, S # {}
    PROVE  Max(S) \in S /\ \A x \in S : Max(S) >= x
<1>1. \E x \in S : \A y \in S : x >= y
  <2>1. CASE 3 \in S
    BY <2>1
  <2>2. CASE 3 \notin S /\ 2 \in S
    BY <2>2
  <2>3. CASE 3 \notin S /\ 2 \notin S
    <3>0. ASSUME NEW y \in S PROVE y = 1
      <4>1. y \in 1..3 /\ y # 2 /\ y # 3
        BY <2>3
      <4> QED BY <4>1
    <3>1. 1 \in S /\ \A y \in S : 1 >= y
      <4>1. PICK z : z \in S
        OBVIOUS
      <4> QED BY <3>0, <4>1
    <3> QED BY <3>1
  <2> QED BY <2>1, <2>2, <2>3
<1> QED BY <1>1 DEF Max

(* MakeTables descends three times. *)
LEMMA MakeTablesSteps ==
    ASSUME NEW m, NEW root, NEW h
    PROVE  MakeTables(m, root, h) =
               Descend(Descend(Descend([m |-> m, at |-> root, ok |-> TRUE], 0), 0), h)
<1> DEFINE s0 == [m |-> m, at |-> root, ok |-> TRUE]
           q == <<0, 0, h>>
           Q == 1..3
           IsIter(g) == g = [s \in SUBSET Q |-> IF s = {} THEN s0 ELSE Descend(g[s \ {Max(s)}], q[Max(s)])]
           it == CHOOSE g : IsIter(g)
<1>1. MakeTables(m, root, h) = it[Q]
  <2>1. DOMAIN q = Q
    OBVIOUS
  <2> QED BY <2>1 DEF MakeTables, FoldLeft, MapThenFoldSet
<1>2. \E g : IsIter(g)
  <2> HIDE DEF s0, q
  <2> DEFINE F(s, z) == IF s = {} THEN s0 ELSE Descend(z, q[Max(s)])
             R(s) == s \ {Max(s)}
             g == [s \in SUBSET Q |-> F(s, F(R(s), F(R(R(s)), s0)))]
  <2>1. ASSUME NEW s \in SUBSET Q
        PROVE  R(s) \in SUBSET Q /\ R(R(R(s))) = {}
    <3>1. R(s) \subseteq Q /\ R(R(s)) \subseteq Q /\ s \subseteq 1..3
      OBVIOUS
    <3>2. s # {} => Max(s) \in s
      BY MaxIn
    <3>3. R(s) # {} => Max(R(s)) \in R(s)
      <4> HIDE DEF R
      <4> QED BY <3>1, MaxIn
    <3>4. R(R(s)) # {} => Max(R(R(s))) \in R(R(s))
      <4> HIDE DEF R
      <4> QED BY <3>1, MaxIn
    <3>5. ASSUME NEW x, x \in R(R(R(s))) PROVE FALSE
      <4>1. x \in R(R(s)) /\ x \in R(s) /\ x \in s /\ x \in 1..3
        BY <3>5
      <4>2. /\ x # Max(s) /\ x # Max(R(s)) /\ x # Max(R(R(s)))
            /\ Max(R(s)) # Max(s) /\ Max(R(R(s))) # Max(s) /\ Max(R(R(s))) # Max(R(s))
        BY <3>2, <3>3, <3>4, <3>5, <4>1
      <4>3. Max(s) \in 1..3 /\ Max(R(s)) \in 1..3 /\ Max(R(R(s))) \in 1..3
        BY <3>1, <3>2, <3>3, <3>4, <4>1
      <4> HIDE DEF R
      <4> QED BY <4>1, <4>2, <4>3
    <3> QED BY <3>1, <3>5
  <2>2. ASSUME NEW s \in SUBSET Q
        PROVE  g[s] = IF s = {} THEN s0 ELSE Descend(g[R(s)], q[Max(s)])
    <3>1. g[s] = F(s, F(R(s), F(R(R(s)), s0)))
      OBVIOUS
    <3>2. g[R(s)] = F(R(s), F(R(R(s)), F(R(R(R(s))), s0)))
      <4>1. R(s) \in SUBSET Q
        BY <2>1
      <4> HIDE DEF R, F
      <4> QED BY <4>1
    <3>3. F(R(R(R(s))), s0) = s0
      <4>1. R(R(R(s))) = {}
        BY <2>1
      <4> HIDE DEF R
      <4> QED BY <4>1
    <3> HIDE DEF g, R
    <3> QED BY <3>1, <3>2, <3>3
  <2>3. IsIter(g)
    BY <2>2
  <2> HIDE DEF IsIter, g
  <2> QED BY <2>3
<1>3. IsIter(it)
  <2> HIDE DEF IsIter
  <2> QED BY <1>2
<1>4. ASSUME NEW s \in SUBSET Q, s # {}
      PROVE  it[s] = Descend(it[s \ {Max(s)}], q[Max(s)])
  <2> HIDE DEF it
  <2> QED BY <1>3, <1>4
<1>5. it[{}] = s0
  <2> HIDE DEF it
  <2> QED BY <1>3
<1>6. Max(1..3) = 3 /\ Max({1, 2}) = 2 /\ Max({1}) = 1
  <2>1. {1, 2} \subseteq 1..3 /\ {1} \subseteq 1..3
    OBVIOUS
  <2>2. Max(1..3) \in 1..3 /\ \A x \in 1..3 : Max(1..3) >= x
    BY MaxIn
  <2>3. Max({1, 2}) \in {1, 2} /\ \A x \in {1, 2} : Max({1, 2}) >= x
    BY <2>1, MaxIn
  <2>4. Max({1}) \in {1}
    BY <2>1, MaxIn
  <2> QED BY <2>2, <2>3, <2>4
<1>7. it[{1}] = Descend(s0, 0)
  <2>1. {1} \in SUBSET Q /\ {1} \ {1} = {} /\ q[1] = 0
    OBVIOUS
  <2> HIDE DEF it, q, s0
  <2> QED BY <2>1, <1>4, <1>5, <1>6
<1>8. it[{1, 2}] = Descend(it[{1}], 0)
  <2>1. {1, 2} \in SUBSET Q /\ {1, 2} \ {2} = {1} /\ q[2] = 0
    OBVIOUS
  <2> HIDE DEF it, q, s0
  <2> QED BY <2>1, <1>4, <1>6
<1>9. it[Q] = Descend(it[{1, 2}], h)
  <2>1. Q \in SUBSET Q /\ Q \ {3} = {1, 2} /\ q[3] = h
    OBVIOUS
  <2> HIDE DEF it, q, s0
  <2> QED BY <2>1, <1>4, <1>6
<1> HIDE DEF it
<1> QED BY <1>1, <1>7, <1>8, <1>9

-----------------------------------------------------------------------------
(* What an address space refers to.  Its references are numbered: the pages *)
(* mapped at 1..NVA, then the level 1 tables of both halves, the tables of  *)
(* levels 2 and 3, and the root, in the order in which exit_proc() frees    *)
(* them.                                                                    *)

Places   == 1..NVA+5
Tables   == NVA+1..NVA+5
RootSlot == NVA + 5

Slot(m, root, j) ==
    IF j <= NVA THEN Lookup(m, root, j)
    ELSE IF j = NVA + 1 THEN Level1(m, root, 0)
    ELSE IF j = NVA + 2 THEN Level1(m, root, 1)
    ELSE IF j = NVA + 3 THEN Level2(m, root)
    ELSE IF j = NVA + 4 THEN Level3(m, root)
    ELSE root

(* Each but the root is an entry of a table: the table at place Up(j), index *)
(* Idx(j).                                                                   *)
Up(j) == IF j <= NVA THEN NVA + 1 + Half(j) ELSE IF j <= NVA + 2 THEN NVA + 3 ELSE j + 1
Idx(j) == IF j <= NVA THEN j ELSE IF j <= NVA + 2 THEN j - NVA - 1 ELSE 0

(* Every place but the root is an entry of the table one level up. *)
LEMMA SlotIsEntry ==
    ASSUME NEW m, NEW root, NEW j \in Places \ {RootSlot}
    PROVE  /\ Up(j) \in Tables /\ Up(j) \in Places /\ Idx(j) \in 0..NVA /\ Up(j) > j
           /\ Slot(m, root, j) = Entry(m, Slot(m, root, Up(j)), Idx(j))
<1>1. CASE j <= NVA
  <2>1. Half(j) \in {0, 1}
    BY DEF Half
  <2>2. Up(j) = NVA + 1 + Half(j) /\ Idx(j) = j
    BY <1>1 DEF Up, Idx
  <2>3. Slot(m, root, Up(j)) = Level1(m, root, Half(j))
    BY <2>1, <2>2, MemoryAssumption DEF Slot
  <2>4. Slot(m, root, j) = Entry(m, Level1(m, root, Half(j)), j)
    BY <1>1 DEF Slot, Lookup
  <2>5. j \in 1..NVA
    BY <1>1, MemoryAssumption DEF Places
  <2> QED BY <2>1, <2>2, <2>3, <2>4, <2>5, MemoryAssumption DEF Tables, Places
<1>2. CASE j = NVA + 1 \/ j = NVA + 2
  <2>1. Up(j) = NVA + 3 /\ Idx(j) = j - NVA - 1
    BY <1>2, MemoryAssumption DEF Up, Idx
  <2>2. Slot(m, root, Up(j)) = Level2(m, root)
    BY <2>1, MemoryAssumption DEF Slot
  <2>3. Slot(m, root, j) = Entry(m, Level2(m, root), j - NVA - 1)
    <3>1. CASE j = NVA + 1
      BY <3>1, MemoryAssumption DEF Slot, Level1
    <3>2. CASE j = NVA + 2
      BY <3>2, MemoryAssumption DEF Slot, Level1
    <3> QED BY <1>2, <3>1, <3>2
  <2> QED BY <1>2, <2>1, <2>2, <2>3, MemoryAssumption DEF Tables, Places
<1>3. CASE j = NVA + 3
  BY <1>3, MemoryAssumption DEF Slot, Up, Idx, Level2, Tables, Places
<1>4. CASE j = NVA + 4
  BY <1>4, MemoryAssumption DEF Slot, Up, Idx, Level3, Tables, Places
<1> QED BY <1>1, <1>2, <1>3, <1>4, MemoryAssumption DEF Places, RootSlot

(* The root is at the root's place. *)
LEMMA SlotRoot ==
    ASSUME NEW m, NEW root
    PROVE  Slot(m, root, RootSlot) = root
BY MemoryAssumption DEF Slot, RootSlot

(* No two places are the same entry of the same table. *)
LEMMA EntriesDistinct ==
    ASSUME NEW i \in Places \ {RootSlot}, NEW j \in Places \ {RootSlot},
           Up(i) = Up(j), Idx(i) = Idx(j)
    PROVE  i = j
<1>1. \A k \in Places : k <= NVA => Half(k) \in {0, 1}
  BY DEF Half
<1> QED BY <1>1, MemoryAssumption DEF Up, Idx, Places, RootSlot

(* A fact that holds at the root, and at each place if it holds at the one  *)
(* above, holds everywhere.                                                 *)
LEMMA PlaceInduction ==
    ASSUME NEW T, RootSlot \in T,
           \A j \in Places \ {RootSlot} : Up(j) \in T => j \in T
    PROVE  \A j \in Places : j \in T
<1>1. NVA + 4 \in T
  <2>1. Up(NVA + 4) = RootSlot /\ NVA + 4 \in Places \ {RootSlot}
    BY MemoryAssumption DEF Up, Places, RootSlot
  <2> QED BY <2>1
<1>2. NVA + 3 \in T
  <2>1. Up(NVA + 3) = NVA + 4 /\ NVA + 3 \in Places \ {RootSlot}
    BY MemoryAssumption DEF Up, Places, RootSlot
  <2> QED BY <1>1, <2>1
<1>3. NVA + 1 \in T /\ NVA + 2 \in T
  <2>1. /\ Up(NVA + 1) = NVA + 3 /\ NVA + 1 \in Places \ {RootSlot}
        /\ Up(NVA + 2) = NVA + 3 /\ NVA + 2 \in Places \ {RootSlot}
    BY MemoryAssumption DEF Up, Places, RootSlot
  <2> QED BY <1>2, <2>1
<1>4. ASSUME NEW j \in 1..NVA PROVE j \in T
  <2>1. Up(j) \in {NVA + 1, NVA + 2} /\ j \in Places \ {RootSlot}
    BY MemoryAssumption DEF Up, Half, Places, RootSlot
  <2> QED BY <1>3, <2>1
<1> QED BY <1>1, <1>2, <1>3, <1>4, MemoryAssumption DEF Places, RootSlot

-----------------------------------------------------------------------------
(* Memories, whose data pages hold values from D. *)

EntryMaps == UNION {[X -> [pa : Phys, w : BOOLEAN]] : X \in SUBSET (0..NVA)}
Contents(D) == [junk : BOOLEAN, e : EntryMaps, data : D]
Memories(D) == [rc : [Phys -> 0..255], mem : [Phys -> Contents(D)]]

(* An entry refers to a page, or is absent. *)
LEMMA EntryType ==
    ASSUME NEW D, NEW m \in Memories(D), NEW p \in Phys \cup {NoPage}, NEW i
    PROVE  Entry(m, p, i) \in Phys \cup {NoPage}
<1>1. CASE p = NoPage \/ i \notin DOMAIN m.mem[p].e
  BY <1>1 DEF Entry
<1>2. CASE p # NoPage /\ i \in DOMAIN m.mem[p].e
  <2>1. m.mem[p].e \in EntryMaps
    BY <1>2 DEF Memories, Contents
  <2>2. PICK X \in SUBSET (0..NVA) : m.mem[p].e \in [X -> [pa : Phys, w : BOOLEAN]]
    BY <2>1 DEF EntryMaps
  <2>3. m.mem[p].e[i] \in [pa : Phys, w : BOOLEAN]
    BY <1>2, <2>2
  <2> QED BY <1>2, <2>3 DEF Entry
<1> QED BY <1>1, <1>2

(* At each place there is a page or nothing. *)
LEMMA SlotType ==
    ASSUME NEW D, NEW m \in Memories(D), NEW root \in Phys \cup {NoPage}
    PROVE  \A j \in Places : Slot(m, root, j) \in Phys \cup {NoPage}
<1> DEFINE T == {j \in Places : Slot(m, root, j) \in Phys \cup {NoPage}}
<1>1. RootSlot \in T
  BY SlotRoot, MemoryAssumption DEF RootSlot, Places
<1>2. ASSUME NEW j \in Places \ {RootSlot}, Up(j) \in T PROVE j \in T
  BY <1>2, SlotIsEntry, EntryType
<1>3. \A j \in Places : j \in T
  <2> HIDE DEF T
  <2> QED BY <1>1, <1>2, PlaceInduction
<1> QED BY <1>3

(* Entering a page into a table changes that entry only. *)
LEMMA LinkEffect ==
    ASSUME NEW D, NEW m \in Memories(D), NEW p \in Phys, NEW i \in 0..NVA,
           NEW pa \in Phys, NEW w \in BOOLEAN
    PROVE  /\ Link(m, p, i, pa, w) \in Memories(D)
           /\ Link(m, p, i, pa, w).rc = m.rc
           /\ \A q \in Phys \ {p} : Link(m, p, i, pa, w).mem[q] = m.mem[q]
           /\ Link(m, p, i, pa, w).mem[p].junk = m.mem[p].junk
           /\ Link(m, p, i, pa, w).mem[p].data = m.mem[p].data
           /\ Link(m, p, i, pa, w).mem[p].e =
                 [j \in DOMAIN m.mem[p].e \cup {i} |->
                     IF j = i THEN [pa |-> pa, w |-> w] ELSE m.mem[p].e[j]]
<1> DEFINE e0 == m.mem[p].e
           e1 == [j \in DOMAIN e0 \cup {i} |-> IF j = i THEN [pa |-> pa, w |-> w] ELSE e0[j]]
           m1 == Link(m, p, i, pa, w)
<1>1. m1 = [m EXCEPT !.mem[p].e = e1]
  BY DEF Link
<1>2. m.mem \in [Phys -> Contents(D)] /\ m.rc \in [Phys -> 0..255]
      /\ m.mem[p] \in Contents(D) /\ m = [rc |-> m.rc, mem |-> m.mem]
  BY DEF Memories
<1>3. e1 \in EntryMaps
  <2>1. e0 \in EntryMaps
    BY <1>2 DEF Contents
  <2>2. PICK X \in SUBSET (0..NVA) : e0 \in [X -> [pa : Phys, w : BOOLEAN]]
    BY <2>1 DEF EntryMaps
  <2>3. e1 \in [X \cup {i} -> [pa : Phys, w : BOOLEAN]]
    <3> HIDE DEF e0
    <3> QED BY <2>2
  <2>4. X \cup {i} \in SUBSET (0..NVA)
    OBVIOUS
  <2> HIDE DEF e1
  <2> QED BY <2>3, <2>4 DEF EntryMaps
<1> HIDE DEF e1
<1>4. m1 = [rc |-> m.rc, mem |-> [m.mem EXCEPT ![p] = [m.mem[p] EXCEPT !.e = e1]]]
  BY <1>1, <1>2
<1>5. [m.mem[p] EXCEPT !.e = e1] = [junk |-> m.mem[p].junk, e |-> e1, data |-> m.mem[p].data]
  BY <1>2 DEF Contents
<1>6. [m.mem[p] EXCEPT !.e = e1] \in Contents(D)
  BY <1>2, <1>3, <1>5 DEF Contents
<1>7. m1 \in Memories(D)
  BY <1>2, <1>4, <1>6 DEF Memories
<1>8. m1.mem[p].e = e1
  BY <1>2, <1>4, <1>5
<1> HIDE DEF m1
<1>9. /\ m1.rc = m.rc
      /\ \A q \in Phys \ {p} : m1.mem[q] = m.mem[q]
      /\ m1.mem[p].junk = m.mem[p].junk
      /\ m1.mem[p].data = m.mem[p].data
  BY <1>2, <1>4, <1>5
<1> QED BY <1>7, <1>8, <1>9 DEF m1, e1

(* Setting one entry of a table changes that entry only. *)
LEMMA LinkEntry ==
    ASSUME NEW D, NEW m \in Memories(D), NEW p \in Phys, NEW i \in 0..NVA,
           NEW pa \in Phys, NEW w \in BOOLEAN
    PROVE  /\ \A q \in (Phys \cup {NoPage}) \ {p} : \A j :
                  Entry(Link(m, p, i, pa, w), q, j) = Entry(m, q, j)
           /\ \A j : Entry(Link(m, p, i, pa, w), p, j) = IF j = i THEN pa ELSE Entry(m, p, j)
<1> DEFINE m1 == Link(m, p, i, pa, w)
<1>1. /\ \A q \in Phys \ {p} : m1.mem[q] = m.mem[q]
      /\ m1.mem[p].e = [j \in DOMAIN m.mem[p].e \cup {i} |->
                           IF j = i THEN [pa |-> pa, w |-> w] ELSE m.mem[p].e[j]]
  BY SMTT(60), LinkEffect
<1> HIDE DEF m1
<1>2. p # NoPage
  BY DEF Phys, NoPage
<1>3. ASSUME NEW q \in (Phys \cup {NoPage}) \ {p}, NEW j
      PROVE  Entry(m1, q, j) = Entry(m, q, j)
  BY <1>1 DEF Entry
<1>4. ASSUME NEW j
      PROVE  Entry(m1, p, j) = IF j = i THEN pa ELSE Entry(m, p, j)
  BY <1>1, <1>2 DEF Entry
<1> QED BY <1>3, <1>4 DEF m1

-----------------------------------------------------------------------------
(* Address spaces rt[q], for q in a set Q, NoPage for a process without one.*)
(* other[p] counts the references to page p that are in no address space:   *)
(* the memory viewer's page, and a page just allocated.                     *)

Refs(m, Q, rt, p) == {k \in Q \X Places : Slot(m, rt[k[1]], k[2]) = p}

Setting(D, Q, rt, other) ==
    /\ 0 \in D
    /\ IsFiniteSet(Q) /\ Cardinality(Q) <= 254
    /\ rt \in [Q -> Phys \cup {NoPage}]
    /\ other \in [Phys -> {0, 1}]

CountsRight(m, Q, rt, other) ==
    \A p \in Phys : m.rc[p] = Cardinality(Refs(m, Q, rt, p)) + other[p]

(* Tables are initialized and belong to one process. *)
TablesOwn(m, Q, rt) ==
    \A q \in Q, j \in Tables :
        LET t == Slot(m, rt[q], j) IN t # NoPage => m.rc[t] = 1 /\ ~m.mem[t].junk

WritableOwn(m, Q, rt) ==
    \A q \in Q, va \in VA : Writable(m, rt[q], va) => m.rc[Lookup(m, rt[q], va)] = 1

(* A page that is shared is at the same virtual address everywhere. *)
SharedAlike(m, Q, rt) ==
    \A q, r \in Q, i, j \in VA :
        Lookup(m, rt[q], i) # NoPage /\ Lookup(m, rt[q], i) = Lookup(m, rt[r], j) => i = j

(* A page that is referred to from elsewhere is in no address space. *)
OthersOwn(m, other) == \A p \in Phys : other[p] = 1 => m.rc[p] = 1

Sound(m, D, Q, rt, other) ==
    /\ m \in Memories(D)
    /\ Setting(D, Q, rt, other)
    /\ CountsRight(m, Q, rt, other)
    /\ TablesOwn(m, Q, rt)
    /\ WritableOwn(m, Q, rt)
    /\ SharedAlike(m, Q, rt)
    /\ OthersOwn(m, other)

(* An address space has finitely many places, *)
LEMMA PlacesFinite == IsFiniteSet(Places)
BY FS_Interval, MemoryAssumption DEF Places

(* and so a page has finitely many references. *)
LEMMA RefsFinite ==
    ASSUME NEW m, NEW Q, IsFiniteSet(Q), NEW rt, NEW p
    PROVE  IsFiniteSet(Refs(m, Q, rt, p)) /\ Cardinality(Refs(m, Q, rt, p)) \in Nat
<1>1. IsFiniteSet(Q \X Places)
  BY PlacesFinite, FS_Product
<1>2. Refs(m, Q, rt, p) \in SUBSET (Q \X Places)
  BY DEF Refs
<1> QED BY <1>1, <1>2, FS_Subset, FS_CardinalityType

(* The same page at a place of the same address space is a reference. *)
LEMMA RefMember ==
    ASSUME NEW m, NEW Q, NEW rt, NEW q \in Q, NEW j \in Places
    PROVE  <<q, j>> \in Refs(m, Q, rt, Slot(m, rt[q], j))
BY DEF Refs

(* What has a reference has a positive count. *)
LEMMA ReferredPositive ==
    ASSUME NEW m, NEW D, NEW Q, NEW rt, NEW other, Sound(m, D, Q, rt, other),
           NEW q \in Q, NEW j \in Places, Slot(m, rt[q], j) # NoPage
    PROVE  Slot(m, rt[q], j) \in Phys /\ m.rc[Slot(m, rt[q], j)] > 0
<1> DEFINE p == Slot(m, rt[q], j)
           R == Refs(m, Q, rt, p)
<1>1. p \in Phys
  BY SlotType DEF Sound, Setting
<1>2. IsFiniteSet(R) /\ Cardinality(R) \in Nat /\ R # {}
  BY RefsFinite, RefMember DEF Sound, Setting
<1>3. Cardinality(R) # 0
  <2> HIDE DEF R
  <2> QED BY <1>2, FS_EmptySet
<1>4. m.rc[p] = Cardinality(R) + other[p] /\ other[p] \in Nat
  BY <1>1 DEF Sound, CountsRight, Setting
<1> HIDE DEF R, p
<1>5. m.rc[p] > 0
  BY <1>2, <1>3, <1>4
<1> QED BY <1>1, <1>5 DEF p

(* A page with one reference is referred to from one place only. *)
LEMMA SoleReference ==
    ASSUME NEW m, NEW D, NEW Q, NEW rt, NEW other, Sound(m, D, Q, rt, other),
           NEW q \in Q, NEW i \in Places, Slot(m, rt[q], i) # NoPage,
           m.rc[Slot(m, rt[q], i)] = 1,
           NEW r \in Q, NEW j \in Places, Slot(m, rt[r], j) = Slot(m, rt[q], i)
    PROVE  q = r /\ i = j
<1> DEFINE p == Slot(m, rt[q], i)
           R == Refs(m, Q, rt, p)
<1>1. p \in Phys
  BY SlotType DEF Sound, Setting
<1>2. IsFiniteSet(R) /\ Cardinality(R) \in Nat
  BY RefsFinite DEF Sound, Setting
<1>3. m.rc[p] = Cardinality(R) + other[p] /\ other[p] \in Nat /\ m.rc[p] = 1
  BY <1>1 DEF Sound, CountsRight, Setting
<1>4. <<q, i>> \in R /\ <<r, j>> \in R
  BY RefMember
<1> HIDE DEF R, p
<1>5. Cardinality(R) # 0
  BY <1>2, <1>4, FS_EmptySet
<1>6. Cardinality(R) = 1
  BY <1>2, <1>3, <1>5
<1>7. PICK k : R = {k}
  BY <1>2, <1>6, FS_Singleton
<1> QED BY <1>4, <1>7

(* A page whose count is 0 is referred to from nowhere. *)
LEMMA FreeUnreferred ==
    ASSUME NEW m, NEW D, NEW Q, NEW rt, NEW other, Sound(m, D, Q, rt, other),
           NEW p \in Phys, m.rc[p] = 0
    PROVE  /\ other[p] = 0
           /\ \A q \in Q, j \in Places : Slot(m, rt[q], j) # p
<1>1. ASSUME NEW q \in Q, NEW j \in Places PROVE Slot(m, rt[q], j) # p
  <2>1. p # NoPage
    BY DEF Phys, NoPage
  <2> QED BY <2>1, ReferredPositive
<1>2. other[p] = 0
  <2>1. Cardinality(Refs(m, Q, rt, p)) \in Nat
    BY RefsFinite DEF Sound, Setting
  <2> QED BY <2>1 DEF Sound, CountsRight, Setting
<1> QED BY <1>1, <1>2

(* What is in an address space is referred to from nowhere else. *)
LEMMA ReferredOwn ==
    ASSUME NEW m, NEW D, NEW Q, NEW rt, NEW other, Sound(m, D, Q, rt, other),
           NEW p \in Phys, NEW q \in Q, NEW j \in Places, Slot(m, rt[q], j) = p
    PROVE  other[p] = 0
<1> DEFINE R == Refs(m, Q, rt, p)
<1>1. IsFiniteSet(R) /\ Cardinality(R) \in Nat
  BY RefsFinite DEF Sound, Setting
<1>2. <<q, j>> \in R
  BY RefMember
<1> HIDE DEF R
<1>3. Cardinality(R) # 0
  BY <1>1, <1>2, FS_EmptySet
<1>4. m.rc[p] = Cardinality(R) + other[p] /\ other[p] \in {0, 1}
  BY DEF Sound, CountsRight, Setting, R
<1>5. other[p] = 1 => m.rc[p] = 1
  BY DEF Sound, OthersOwn
<1> QED BY <1>1, <1>3, <1>4, <1>5

(* A table serves as a table in one place, and is no other process's page. *)
LEMMA TableSole ==
    ASSUME NEW m, NEW D, NEW Q, NEW rt, NEW other, Sound(m, D, Q, rt, other),
           NEW q \in Q, NEW i \in Tables, Slot(m, rt[q], i) # NoPage,
           NEW r \in Q, NEW j \in Places, Slot(m, rt[r], j) = Slot(m, rt[q], i)
    PROVE  q = r /\ i = j
<1>1. i \in Places
  BY MemoryAssumption DEF Tables, Places
<1>2. m.rc[Slot(m, rt[q], i)] = 1
  BY DEF Sound, TablesOwn
<1> QED BY <1>1, <1>2, SoleReference

-----------------------------------------------------------------------------
(* What a change to memory leaves as it was. *)

SameSpace(m, m1, root) ==
    /\ \A j \in Places : Slot(m1, root, j) = Slot(m, root, j)
    /\ \A va \in VA : Writable(m1, root, va) <=> Writable(m, root, va)

OthersSame(m, m1, Q, rt, c) == \A q \in Q \ {c} : SameSpace(m, m1, rt[q])

(* A page mapped at a virtual address is an entry of a level 1 table. *)
LEMMA LeafPlace ==
    ASSUME NEW m, NEW root, NEW va \in VA
    PROVE  /\ va \in Places \ {RootSlot} /\ va <= NVA /\ Idx(va) = va
           /\ Slot(m, root, va) = Lookup(m, root, va)
           /\ Slot(m, root, Up(va)) = Level1(m, root, Half(va))
<1>1. va \in 1..NVA /\ NVA \in Nat
  BY MemoryAssumption DEF VA
<1>2. Half(va) \in {0, 1}
  BY DEF Half
<1> QED BY <1>1, <1>2 DEF Slot, Up, Idx, Places, RootSlot

(* Without tables nothing is mapped. *)
LEMMA NoSpace ==
    ASSUME NEW m
    PROVE  /\ \A j \in Places : Slot(m, NoPage, j) = NoPage
           /\ \A va \in VA : ~Writable(m, NoPage, va)
<1> DEFINE T == {j \in Places : Slot(m, NoPage, j) = NoPage}
<1>1. RootSlot \in T
  BY SlotRoot, MemoryAssumption DEF RootSlot, Places
<1>2. ASSUME NEW j \in Places \ {RootSlot}, Up(j) \in T PROVE j \in T
  BY <1>2, SlotIsEntry DEF Entry
<1>3. \A j \in Places : j \in T
  <2> HIDE DEF T
  <2> QED BY <1>1, <1>2, PlaceInduction
<1> QED BY <1>3, LeafPlace DEF Writable

(* An address space is as it was if its tables are. *)
LEMMA SlotsFrame ==
    ASSUME NEW m, NEW m1, NEW root,
           \A j \in Tables : LET t == Slot(m, root, j) IN
                t # NoPage => m1.mem[t].e = m.mem[t].e
    PROVE  SameSpace(m, m1, root)
<1> DEFINE T == {j \in Places : Slot(m1, root, j) = Slot(m, root, j)}
<1>1. RootSlot \in T
  BY SlotRoot, MemoryAssumption DEF RootSlot, Places
<1>2. ASSUME NEW j \in Places \ {RootSlot}, Up(j) \in T PROVE j \in T
  <2>1. Up(j) \in Tables
    BY SlotIsEntry
  <2>2. Slot(m1, root, Up(j)) = Slot(m, root, Up(j))
    BY <1>2
  <2>3. Entry(m1, Slot(m, root, Up(j)), Idx(j)) = Entry(m, Slot(m, root, Up(j)), Idx(j))
    BY <2>1 DEF Entry
  <2> QED BY <2>2, <2>3, SlotIsEntry
<1>3. \A j \in Places : j \in T
  <2> HIDE DEF T
  <2> QED BY <1>1, <1>2, PlaceInduction
<1>4. ASSUME NEW va \in VA
      PROVE  Writable(m1, root, va) <=> Writable(m, root, va)
  <2>1. /\ Lookup(m1, root, va) = Lookup(m, root, va)
        /\ Level1(m1, root, Half(va)) = Level1(m, root, Half(va))
        /\ Level1(m, root, Half(va)) = Slot(m, root, Up(va))
        /\ Up(va) \in Tables
    BY <1>3, LeafPlace, SlotIsEntry
  <2>2. Lookup(m, root, va) # NoPage => Level1(m, root, Half(va)) # NoPage
    BY DEF Lookup, Entry
  <2> QED BY <2>1, <2>2 DEF Writable
<1> QED BY <1>3, <1>4 DEF SameSpace

-----------------------------------------------------------------------------
(* Entering a page into a table. *)

(* The place of an entry that gets a page refers to it, others are as they  *)
(* were, provided that the table serves once and that a new table is empty. *)
LEMMA LinkSlots ==
    ASSUME NEW D, NEW m \in Memories(D), NEW root \in Phys,
           NEW k \in Places \ {RootSlot},
           NEW n \in Phys, NEW w \in BOOLEAN,
           Slot(m, root, Up(k)) # NoPage,
           Slot(m, root, k) = NoPage,
           \A j \in Places : Slot(m, root, j) = Slot(m, root, Up(k)) => j = Up(k),
           k \in Tables => n # Slot(m, root, Up(k)) /\ DOMAIN m.mem[n].e = {}
    PROVE  LET m1 == Link(m, Slot(m, root, Up(k)), Idx(k), n, w) IN
           /\ \A j \in Places : Slot(m1, root, j) = IF j = k THEN n ELSE Slot(m, root, j)
           /\ \A va \in VA : Writable(m1, root, va) <=>
                                 IF va = k THEN w ELSE Writable(m, root, va)
<1> DEFINE t == Slot(m, root, Up(k))
           m1 == Link(m, t, Idx(k), n, w)
           T == {j \in Places : Slot(m1, root, j) = IF j = k THEN n ELSE Slot(m, root, j)}
<1>1. /\ t \in Phys /\ Idx(k) \in 0..NVA /\ Up(k) \in Tables /\ Up(k) \in Places
      /\ n # NoPage /\ NoPage \notin Phys /\ root # NoPage
  BY SlotIsEntry, SlotType DEF Phys, NoPage
<1>2. /\ \A q \in (Phys \cup {NoPage}) \ {t} : \A j : Entry(m1, q, j) = Entry(m, q, j)
      /\ \A j : Entry(m1, t, j) = IF j = Idx(k) THEN n ELSE Entry(m, t, j)
  <2> HIDE DEF t
  <2> QED BY <1>1, LinkEntry
<1>3. RootSlot \in T
  BY SlotRoot, MemoryAssumption DEF RootSlot, Places
<1>4. ASSUME NEW j \in Places \ {RootSlot}, Up(j) \in T PROVE j \in T
  <2>1. /\ Slot(m1, root, j) = Entry(m1, Slot(m1, root, Up(j)), Idx(j))
        /\ Slot(m, root, j) = Entry(m, Slot(m, root, Up(j)), Idx(j))
        /\ Up(j) \in Places /\ Up(j) \in Tables /\ Up(j) > j /\ Up(j) \in Nat /\ j \in Nat
    BY SlotIsEntry, MemoryAssumption DEF Tables, Places
  <2>2. Slot(m1, root, Up(j)) = IF Up(j) = k THEN n ELSE Slot(m, root, Up(j))
    BY <1>4
  <2> HIDE DEF m1, t
  <2>3. CASE Up(j) = k
    <3>1. j # k
      BY <2>1, <2>3
    <3>2. k \in Tables
      BY <2>1, <2>3
    <3>3. Entry(m1, n, Idx(j)) = Entry(m, n, Idx(j)) /\ Entry(m, n, Idx(j)) = NoPage
      BY <1>2, <3>2 DEF Entry, t
    <3>4. Slot(m, root, j) = NoPage
      BY <2>1, <2>3 DEF Entry
    <3> QED BY <2>1, <2>2, <2>3, <3>1, <3>3, <3>4
  <2>4. CASE Up(j) # k /\ Up(j) = Up(k)
    <3>1. Slot(m1, root, Up(j)) = t
      BY <2>2, <2>4 DEF t
    <3>2. Slot(m1, root, j) = IF Idx(j) = Idx(k) THEN n ELSE Entry(m, t, Idx(j))
      BY <1>2, <2>1, <3>1
    <3>3. Idx(j) = Idx(k) <=> j = k
      BY <2>4, EntriesDistinct
    <3>4. Slot(m, root, j) = Entry(m, t, Idx(j))
      BY <2>1, <2>4 DEF t
    <3> QED BY <3>2, <3>3, <3>4
  <2>5. CASE Up(j) # k /\ Up(j) # Up(k)
    <3>1. Slot(m1, root, Up(j)) = Slot(m, root, Up(j))
      BY <2>2, <2>5
    <3>2. Slot(m, root, Up(j)) # t
      BY <2>1, <2>5 DEF t
    <3>3. Slot(m, root, Up(j)) \in Phys \cup {NoPage}
      BY <2>1, SlotType
    <3>4. Slot(m1, root, j) = Slot(m, root, j)
      BY <1>2, <2>1, <3>1, <3>2, <3>3
    <3>5. j # k
      BY <2>5
    <3> QED BY <3>4, <3>5
  <2> QED BY <2>3, <2>4, <2>5
<1>5. \A j \in Places : j \in T
  <2> HIDE DEF T
  <2> QED BY <1>3, <1>4, PlaceInduction
<1>6. \A j \in Places : Slot(m1, root, j) = IF j = k THEN n ELSE Slot(m, root, j)
  BY <1>5
<1>7. ASSUME NEW va \in VA
      PROVE  Writable(m1, root, va) <=> IF va = k THEN w ELSE Writable(m, root, va)
  <2>1. /\ va \in Places \ {RootSlot} /\ Idx(va) = va
        /\ Slot(m1, root, va) = Lookup(m1, root, va) /\ Slot(m, root, va) = Lookup(m, root, va)
        /\ Slot(m1, root, Up(va)) = Level1(m1, root, Half(va))
        /\ Slot(m, root, Up(va)) = Level1(m, root, Half(va))
        /\ Up(va) \in Places /\ Up(va) \in Tables
        /\ Slot(m, root, va) = Entry(m, Slot(m, root, Up(va)), va)
    BY LeafPlace, SlotIsEntry
  <2>2. /\ m1.mem[t].e = [j \in DOMAIN m.mem[t].e \cup {Idx(k)} |->
                             IF j = Idx(k) THEN [pa |-> n, w |-> w] ELSE m.mem[t].e[j]]
        /\ \A q \in Phys \ {t} : m1.mem[q] = m.mem[q]
    <3> HIDE DEF t
    <3> QED BY <1>1, LinkEffect
  <2> HIDE DEF m1, t
  <2>3. CASE va = k
    <3>1. Slot(m1, root, va) = n /\ Up(va) = Up(k) /\ Up(va) # k
      BY <1>6, <2>1, <2>3, SlotIsEntry
    <3>2. Slot(m1, root, Up(va)) = t
      BY <1>6, <2>1, <3>1 DEF t
    <3>3. m1.mem[t].e[va].w = w
      BY <2>1, <2>2, <2>3
    <3> QED BY <1>1, <2>1, <2>3, <3>1, <3>2, <3>3 DEF Writable
  <2>4. CASE va # k /\ Slot(m, root, va) = NoPage
    <3>1. Lookup(m1, root, va) = NoPage /\ Lookup(m, root, va) = NoPage
      BY <1>6, <2>1, <2>4
    <3> QED BY <2>4, <3>1 DEF Writable
  <2>5. CASE va # k /\ Slot(m, root, va) # NoPage
    <3>1. Slot(m1, root, va) = Slot(m, root, va)
      BY <1>6, <2>1, <2>5
    <3>2. Slot(m, root, Up(va)) # NoPage /\ va \in DOMAIN m.mem[Slot(m, root, Up(va))].e
      BY <2>1, <2>5 DEF Entry
    <3>3. Up(va) # k
      <4>1. Slot(m, root, k) = NoPage
        OBVIOUS
      <4> QED BY <3>2, <4>1
    <3>4. Slot(m1, root, Up(va)) = Slot(m, root, Up(va))
      BY <1>6, <2>1, <3>3
    <3>5. Slot(m, root, Up(va)) \in Phys
      BY <2>1, <3>2, SlotType
    <3>6. m1.mem[Slot(m, root, Up(va))].e[va].w = m.mem[Slot(m, root, Up(va))].e[va].w
      <4>1. CASE Slot(m, root, Up(va)) # t
        BY <2>2, <3>5, <4>1
      <4>2. CASE Slot(m, root, Up(va)) = t
        <5>1. Up(va) = Up(k)
          BY <2>1, <4>2 DEF t
        <5>2. va # Idx(k)
          BY <2>1, <2>5, <5>1, EntriesDistinct
        <5> QED BY <2>2, <3>2, <4>2, <5>2
      <4> QED BY <4>1, <4>2
    <3> QED BY <2>1, <2>5, <3>1, <3>4, <3>6 DEF Writable
  <2> QED BY <2>3, <2>4, <2>5
<1> QED BY <1>6, <1>7

-----------------------------------------------------------------------------
(* One more reference. *)

(* A page that is put where nothing was has one reference more, and no other page has. *)
LEMMA RefsGrow ==
    ASSUME NEW m, NEW m1, NEW Q, IsFiniteSet(Q), NEW rt, NEW rt1,
           NEW c \in Q, NEW k \in Places, NEW n \in Phys,
           Slot(m, rt[c], k) = NoPage,
           \A q \in Q, j \in Places :
               Slot(m1, rt1[q], j) = IF q = c /\ j = k THEN n ELSE Slot(m, rt[q], j)
    PROVE  /\ \A p \in Phys \ {n} : Refs(m1, Q, rt1, p) = Refs(m, Q, rt, p)
           /\ Cardinality(Refs(m1, Q, rt1, n)) = Cardinality(Refs(m, Q, rt, n)) + 1
<1>0. n # NoPage /\ NoPage \notin Phys
  BY DEF Phys, NoPage
<1>1. ASSUME NEW p \in Phys, NEW x \in Q \X Places
      PROVE  x \in Refs(m1, Q, rt1, p) <=> x \in Refs(m, Q, rt, p) \/ (x = <<c, k>> /\ p = n)
  <2>1. PICK q \in Q, j \in Places : x = <<q, j>>
    BY <1>1
  <2>2. Slot(m1, rt1[q], j) = IF q = c /\ j = k THEN n ELSE Slot(m, rt[q], j)
    OBVIOUS
  <2>3. x[1] = q /\ x[2] = j /\ (x = <<c, k>> <=> q = c /\ j = k)
    BY <2>1
  <2> QED BY <1>0, <1>1, <2>2, <2>3 DEF Refs
<1>2. ASSUME NEW p \in Phys \ {n} PROVE Refs(m1, Q, rt1, p) = Refs(m, Q, rt, p)
  <2>1. Refs(m1, Q, rt1, p) \subseteq Q \X Places /\ Refs(m, Q, rt, p) \subseteq Q \X Places
    BY DEF Refs
  <2> QED BY <1>1, <2>1
<1>3. Refs(m1, Q, rt1, n) = Refs(m, Q, rt, n) \cup {<<c, k>>}
  <2>1. Refs(m1, Q, rt1, n) \subseteq Q \X Places /\ Refs(m, Q, rt, n) \subseteq Q \X Places
        /\ <<c, k>> \in Q \X Places
    BY DEF Refs
  <2> QED BY <1>1, <2>1
<1>4. <<c, k>> \notin Refs(m, Q, rt, n)
  BY <1>0 DEF Refs
<1>5. IsFiniteSet(Refs(m, Q, rt, n))
  BY RefsFinite
<1> QED BY ZenonT(60), <1>2, <1>3, <1>4, <1>5, FS_AddElement

(* The page n that gets a reference either had none, or is mapped read-only *)
(* at the same virtual address wherever it is.                              *)
LEMMA SoundGrow ==
    ASSUME NEW D, NEW m, NEW Q, NEW rt, NEW other, Sound(m, D, Q, rt, other),
           NEW m1 \in Memories(D), NEW rt1, NEW other1, Setting(D, Q, rt1, other1),
           NEW c \in Q, NEW k \in Places, NEW n \in Phys, NEW w \in BOOLEAN,
           Slot(m, rt[c], k) = NoPage,
           \A q \in Q, j \in Places :
               Slot(m1, rt1[q], j) = IF q = c /\ j = k THEN n ELSE Slot(m, rt[q], j),
           \A q \in Q, va \in VA :
               Writable(m1, rt1[q], va) <=>
                   IF q = c /\ va = k THEN w ELSE Writable(m, rt[q], va),
           \A p \in Phys \ {n} : m1.rc[p] = m.rc[p] /\ other1[p] = other[p]
                                 /\ m1.mem[p].junk = m.mem[p].junk,
           m1.rc[n] - other1[n] = m.rc[n] - other[n] + 1,
           k \in Tables => ~m1.mem[n].junk,
           other1[n] = 1 => m1.rc[n] = 1,
           \/ /\ m1.rc[n] = 1
              /\ \A q \in Q, j \in Places : Slot(m, rt[q], j) # n
           \/ /\ k \in VA /\ ~w
              /\ \A q \in Q, j \in Places : Slot(m, rt[q], j) = n =>
                     j = k /\ ~Writable(m, rt[q], k)
    PROVE  Sound(m1, D, Q, rt1, other1)
<1>0. /\ n # NoPage /\ NoPage \notin Phys /\ IsFiniteSet(Q)
      /\ Tables \subseteq Places /\ VA \subseteq Places /\ VA \cap Tables = {}
      /\ m.rc \in [Phys -> 0..255] /\ m1.rc \in [Phys -> 0..255]
      /\ other \in [Phys -> {0, 1}] /\ other1 \in [Phys -> {0, 1}]
      /\ rt \in [Q -> Phys \cup {NoPage}]
  BY SMTT(60), MemoryAssumption DEF Phys, NoPage, Setting, Sound, Memories, Tables, Places, VA
<1>a. \A q \in Q, j \in Places : Slot(m, rt[q], j) \in Phys \cup {NoPage}
  <2>1. ASSUME NEW q \in Q PROVE \A j \in Places : Slot(m, rt[q], j) \in Phys \cup {NoPage}
    <3>1. rt[q] \in Phys \cup {NoPage} /\ m \in Memories(D)
      BY <1>0 DEF Sound
    <3> QED BY <3>1, SlotType
  <2> QED BY <2>1
<1>1. CountsRight(m1, Q, rt1, other1)
  <2>1. /\ \A p \in Phys \ {n} : Refs(m1, Q, rt1, p) = Refs(m, Q, rt, p)
        /\ Cardinality(Refs(m1, Q, rt1, n)) = Cardinality(Refs(m, Q, rt, n)) + 1
    BY <1>0, RefsGrow
  <2>2. \A p \in Phys : m.rc[p] = Cardinality(Refs(m, Q, rt, p)) + other[p]
    BY DEF Sound, CountsRight
  <2>3. Cardinality(Refs(m, Q, rt, n)) \in Nat
    BY <1>0, RefsFinite
  <2>4. ASSUME NEW p \in Phys
        PROVE  m1.rc[p] = Cardinality(Refs(m1, Q, rt1, p)) + other1[p]
    <3>1. CASE p # n
      BY <2>1, <2>2, <3>1
    <3>2. CASE p = n
      <4>1. m.rc[n] = Cardinality(Refs(m, Q, rt, n)) + other[n]
        BY <2>2
      <4>2. m1.rc[n] \in Int /\ other1[n] \in Int /\ other[n] \in Int
        <5>1. m1.rc[n] \in 0..255
          BY <1>0
        <5>2. other1[n] \in {0, 1} /\ other[n] \in {0, 1}
          BY <1>0
        <5> QED BY <5>1, <5>2
      <4> QED BY <2>1, <2>3, <3>2, <4>1, <4>2
    <3> QED BY <3>1, <3>2
  <2> QED BY <2>4 DEF CountsRight
<1>2. TablesOwn(m1, Q, rt1)
  <2>1. ASSUME NEW q \in Q, NEW j \in Tables, Slot(m1, rt1[q], j) # NoPage
        PROVE  m1.rc[Slot(m1, rt1[q], j)] = 1 /\ ~m1.mem[Slot(m1, rt1[q], j)].junk
    <3>0. j \in Places
      BY <1>0
    <3>1. CASE q = c /\ j = k
      <4>1. Slot(m1, rt1[q], j) = n
        BY <3>0, <3>1
      <4>2. k \in Tables /\ k \notin VA
        BY <1>0, <3>1
      <4> QED BY <4>1, <4>2
    <3>2. CASE ~(q = c /\ j = k)
      <4>1. Slot(m1, rt1[q], j) = Slot(m, rt[q], j)
        BY <3>0, <3>2
      <4>2. Slot(m, rt[q], j) # n
        <5>1. CASE \A r \in Q, i \in Places : Slot(m, rt[r], i) # n
          BY <3>0, <5>1
        <5>2. CASE k \in VA /\ \A r \in Q, i \in Places : Slot(m, rt[r], i) = n => i = k
          BY <1>0, <3>0, <5>2
        <5> QED BY <5>1, <5>2
      <4>3. Slot(m, rt[q], j) \in Phys \ {n}
        BY <1>a, <2>1, <3>0, <4>1, <4>2
      <4>4. m.rc[Slot(m, rt[q], j)] = 1 /\ ~m.mem[Slot(m, rt[q], j)].junk
        BY <2>1, <4>1 DEF Sound, TablesOwn
      <4> QED BY <4>1, <4>3, <4>4
    <3> QED BY <3>1, <3>2
  <2> QED BY <2>1 DEF TablesOwn
<1>3. WritableOwn(m1, Q, rt1)
  <2>1. ASSUME NEW q \in Q, NEW va \in VA, Writable(m1, rt1[q], va)
        PROVE  m1.rc[Lookup(m1, rt1[q], va)] = 1
    <3>0. /\ va \in Places /\ Lookup(m1, rt1[q], va) = Slot(m1, rt1[q], va)
          /\ Lookup(m, rt[q], va) = Slot(m, rt[q], va)
      BY LeafPlace
    <3>1. CASE q = c /\ va = k
      <4>1. Slot(m1, rt1[q], va) = n
        BY <3>0, <3>1
      <4>2. w
        BY <2>1, <3>1
      <4> QED BY <3>0, <4>1, <4>2
    <3>2. CASE ~(q = c /\ va = k)
      <4>1. Slot(m1, rt1[q], va) = Slot(m, rt[q], va) /\ Writable(m, rt[q], va)
        BY <2>1, <3>0, <3>2
      <4>2. Slot(m, rt[q], va) # n
        <5>1. CASE \A r \in Q, i \in Places : Slot(m, rt[r], i) # n
          BY <3>0, <5>1
        <5>2. CASE \A r \in Q, i \in Places : Slot(m, rt[r], i) = n =>
                       i = k /\ ~Writable(m, rt[r], k)
          BY <3>0, <4>1, <5>2
        <5> QED BY <5>1, <5>2
      <4>3. Slot(m, rt[q], va) # NoPage
        BY Zenon, <3>0, <4>1 DEF Writable
      <4>4. Slot(m, rt[q], va) \in Phys \ {n}
        BY <1>a, <3>0, <4>2, <4>3
      <4>5. m.rc[Slot(m, rt[q], va)] = 1
        BY <3>0, <4>1 DEF Sound, WritableOwn
      <4> QED BY <3>0, <4>1, <4>4, <4>5
    <3> QED BY <3>1, <3>2
  <2> QED BY <2>1 DEF WritableOwn
<1>4. SharedAlike(m1, Q, rt1)
  <2>1. ASSUME NEW q \in Q, NEW r \in Q, NEW i \in VA, NEW j \in VA,
               Lookup(m1, rt1[q], i) # NoPage,
               Lookup(m1, rt1[q], i) = Lookup(m1, rt1[r], j)
        PROVE  i = j
    <3>0. /\ i \in Places /\ j \in Places
          /\ Lookup(m1, rt1[q], i) = Slot(m1, rt1[q], i)
          /\ Lookup(m1, rt1[r], j) = Slot(m1, rt1[r], j)
          /\ Lookup(m, rt[q], i) = Slot(m, rt[q], i)
          /\ Lookup(m, rt[r], j) = Slot(m, rt[r], j)
      BY LeafPlace
    <3>1. /\ Slot(m1, rt1[q], i) = IF q = c /\ i = k THEN n ELSE Slot(m, rt[q], i)
          /\ Slot(m1, rt1[r], j) = IF r = c /\ j = k THEN n ELSE Slot(m, rt[r], j)
      BY <3>0
    <3>2. CASE (q = c /\ i = k) \/ (r = c /\ j = k)
      <4>1. \A s \in Q, l \in Places : Slot(m, rt[s], l) = n => l = k
        OBVIOUS
      <4>2. CASE q = c /\ i = k
        <5>1. Slot(m1, rt1[r], j) = n
          BY <2>1, <3>0, <3>1, <4>2
        <5> QED BY <3>0, <3>1, <4>1, <4>2, <5>1
      <4>3. CASE r = c /\ j = k
        <5>1. Slot(m1, rt1[q], i) = n
          BY <2>1, <3>0, <3>1, <4>3
        <5> QED BY <3>0, <3>1, <4>1, <4>3, <5>1
      <4> QED BY <3>2, <4>2, <4>3
    <3>3. CASE ~(q = c /\ i = k) /\ ~(r = c /\ j = k)
      <4>1. Lookup(m, rt[q], i) # NoPage /\ Lookup(m, rt[q], i) = Lookup(m, rt[r], j)
        BY <2>1, <3>0, <3>1, <3>3
      <4> QED BY <4>1 DEF Sound, SharedAlike
    <3> QED BY <3>2, <3>3
  <2> QED BY <2>1 DEF SharedAlike
<1>5. OthersOwn(m1, other1)
  <2>1. OthersOwn(m, other)
    BY DEF Sound
  <2>2. ASSUME NEW p \in Phys, other1[p] = 1 PROVE m1.rc[p] = 1
    <3>1. CASE p = n
      BY <2>2, <3>1
    <3>2. CASE p # n
      <4>1. m1.rc[p] = m.rc[p] /\ other1[p] = other[p]
        BY <3>2
      <4> QED BY <2>1, <2>2, <4>1 DEF OthersOwn
    <3> QED BY <3>1, <3>2
  <2> QED BY <2>2 DEF OthersOwn
<1> QED BY <1>1, <1>2, <1>3, <1>4, <1>5 DEF Sound

(* A page that is claimed, for whatever content. *)
Claim(m, n, content) ==
    [rc |-> [m.rc EXCEPT ![n] = 1], mem |-> [m.mem EXCEPT ![n] = content]]

(* Claiming a free page, for whatever use, keeps memory sound: the new count *)
(* is the claimant's own until the page is mapped.                           *)
LEMMA SoundClaim ==
    ASSUME NEW D, NEW m, NEW Q, NEW rt, NEW other, Sound(m, D, Q, rt, other),
           NEW n \in Phys, m.rc[n] = 0, NEW content \in Contents(D)
    PROVE  LET m1 == Claim(m, n, content)
           IN  /\ Sound(m1, D, Q, rt, [other EXCEPT ![n] = 1])
               /\ \A q \in Q : SameSpace(m, m1, rt[q])
               /\ other[n] = 0
               /\ \A q \in Q, j \in Places : Slot(m, rt[q], j) # n
<1> DEFINE m1 == Claim(m, n, content)
           other1 == [other EXCEPT ![n] = 1]
<1>0. /\ m \in Memories(D) /\ m.rc \in [Phys -> 0..255] /\ m.mem \in [Phys -> Contents(D)]
      /\ other \in [Phys -> {0, 1}] /\ rt \in [Q -> Phys \cup {NoPage}]
      /\ NoPage \notin Phys /\ IsFiniteSet(Q) /\ Tables \subseteq Places
  BY SMTT(60), MemoryAssumption DEF Sound, Setting, Memories, Phys, NoPage, Tables, Places
<1>1. other[n] = 0 /\ \A q \in Q, j \in Places : Slot(m, rt[q], j) # n
  BY FreeUnreferred
<1>2. m1 \in Memories(D)
  BY <1>0 DEF Memories, Claim
<1>3. Setting(D, Q, rt, other1)
  BY <1>0 DEF Sound, Setting
<1>a. /\ m1.rc[n] = 1 /\ other1[n] = 1
      /\ \A p \in Phys \ {n} : m1.rc[p] = m.rc[p] /\ m1.mem[p] = m.mem[p]
                               /\ other1[p] = other[p]
  BY <1>0 DEF Claim
<1> HIDE DEF m1, other1
<1>4. ASSUME NEW q \in Q, NEW j \in Places
      PROVE  Slot(m, rt[q], j) \in Phys \cup {NoPage} /\ Slot(m, rt[q], j) # n
  BY <1>0, <1>1, SlotType
<1>5. \A q \in Q : SameSpace(m, m1, rt[q])
  <2>1. ASSUME NEW q \in Q PROVE SameSpace(m, m1, rt[q])
    <3>1. \A j \in Tables : Slot(m, rt[q], j) # NoPage =>
              m1.mem[Slot(m, rt[q], j)].e = m.mem[Slot(m, rt[q], j)].e
      BY <1>0, <1>4, <1>a
    <3> QED BY <3>1, SlotsFrame
  <2> QED BY <2>1
<1>6. \A q \in Q, j \in Places : Slot(m1, rt[q], j) = Slot(m, rt[q], j)
  BY <1>5 DEF SameSpace
<1>7. CountsRight(m1, Q, rt, other1)
  <2>1. ASSUME NEW p \in Phys
        PROVE  m1.rc[p] = Cardinality(Refs(m1, Q, rt, p)) + other1[p]
    <3>1. Refs(m1, Q, rt, p) = Refs(m, Q, rt, p)
      BY <1>6 DEF Refs
    <3>2. m.rc[p] = Cardinality(Refs(m, Q, rt, p)) + other[p] /\ m.rc[p] \in Nat
          /\ Cardinality(Refs(m, Q, rt, p)) \in Nat
      BY <1>0, RefsFinite DEF Sound, CountsRight
    <3>3. CASE p = n
      BY <1>1, <1>a, <3>1, <3>2, <3>3
    <3>4. CASE p # n
      BY <1>a, <3>1, <3>2, <3>4
    <3> QED BY <3>3, <3>4
  <2> QED BY <2>1 DEF CountsRight
<1>8. TablesOwn(m1, Q, rt)
  <2>1. ASSUME NEW q \in Q, NEW j \in Tables, Slot(m1, rt[q], j) # NoPage
        PROVE  m1.rc[Slot(m1, rt[q], j)] = 1 /\ ~m1.mem[Slot(m1, rt[q], j)].junk
    <3>1. j \in Places /\ Slot(m1, rt[q], j) = Slot(m, rt[q], j)
      BY <1>0, <1>6
    <3>2. Slot(m, rt[q], j) \in Phys \ {n}
      BY <1>4, <2>1, <3>1
    <3>3. m.rc[Slot(m, rt[q], j)] = 1 /\ ~m.mem[Slot(m, rt[q], j)].junk
      BY <2>1, <3>1 DEF Sound, TablesOwn
    <3> QED BY <1>a, <3>1, <3>2, <3>3
  <2> QED BY <2>1 DEF TablesOwn
<1>9. WritableOwn(m1, Q, rt)
  <2>1. ASSUME NEW q \in Q, NEW va \in VA, Writable(m1, rt[q], va)
        PROVE  m1.rc[Lookup(m1, rt[q], va)] = 1
    <3>1. Writable(m, rt[q], va) /\ va \in Places
          /\ Lookup(m1, rt[q], va) = Slot(m, rt[q], va) /\ Lookup(m, rt[q], va) = Slot(m, rt[q], va)
      BY <1>5, <2>1, LeafPlace DEF SameSpace
    <3>2. Slot(m, rt[q], va) \in Phys \ {n}
      BY <1>4, <3>1 DEF Writable
    <3>3. m.rc[Slot(m, rt[q], va)] = 1
      BY <3>1 DEF Sound, WritableOwn
    <3> QED BY <1>a, <3>1, <3>2, <3>3
  <2> QED BY <2>1 DEF WritableOwn
<1>10. SharedAlike(m1, Q, rt)
  <2>1. \A q \in Q, i \in VA : Lookup(m1, rt[q], i) = Lookup(m, rt[q], i)
    BY <1>6, LeafPlace
  <2> QED BY <2>1 DEF Sound, SharedAlike
<1>11. OthersOwn(m1, other1)
  BY <1>a DEF Sound, OthersOwn
<1>12. Sound(m1, D, Q, rt, other1)
  BY <1>2, <1>3, <1>7, <1>8, <1>9, <1>10, <1>11 DEF Sound
<1> QED BY <1>1, <1>5, <1>12 DEF m1, other1

-----------------------------------------------------------------------------
(* kalloc(). *)

(* What kalloc() and memset() leave in a page is a content. *)
LEMMA FixedContents ==
    ASSUME NEW D, 0 \in D
    PROVE  Junk \in Contents(D) /\ Zero \in Contents(D) /\ DOMAIN Zero.e = {} /\ ~Zero.junk
<1>1. <<>> \in [{} -> [pa : Phys, w : BOOLEAN]] /\ {} \in SUBSET (0..NVA)
  OBVIOUS
<1>2. <<>> \in EntryMaps
  BY <1>1 DEF EntryMaps
<1> QED BY <1>2 DEF Junk, Zero, Contents

(* kalloc() returns a free page, or nullptr if there is none. *)
LEMMA KallocEffect ==
    ASSUME NEW D, NEW m \in Memories(D)
    PROVE  \/ /\ Kalloc(m) = [m |-> m, p |-> NoPage]
              /\ \A p \in Phys : m.rc[p] # 0
           \/ \E n \in Phys : /\ m.rc[n] = 0
                              /\ Kalloc(m) = [m |-> Claim(m, n, Junk), p |-> n]
<1> DEFINE free == {p \in Phys : m.rc[p] = 0}
<1>1. CASE free = {}
  BY <1>1 DEF Kalloc
<1>2. CASE free # {}
  <2>1. free \subseteq Nat
    BY DEF Phys
  <2>2. \E n \in free : \A k \in free : n <= k
    <3> HIDE DEF free
    <3> QED BY <1>2, <2>1, LeastNat
  <2>3. Min(free) \in free
    <3> HIDE DEF free
    <3> QED BY <2>2 DEF Min
  <2>4. Kalloc(m) = [m |-> Claim(m, Min(free), Junk), p |-> Min(free)]
    BY <1>2 DEF Kalloc, Claim
  <2> QED BY <2>3, <2>4
<1> QED BY <1>1, <1>2

(* What is then written to it replaces the 0xCC. *)
LEMMA ClaimZeroed ==
    ASSUME NEW D, NEW m \in Memories(D), NEW n \in Phys, NEW content
    PROVE  [Claim(m, n, Junk) EXCEPT !.mem[n] = content] = Claim(m, n, content)
BY DEF Claim, Memories

-----------------------------------------------------------------------------
(* Mapping *)

(* Pages in use keep their count and data. *)
KeepsUsed(m, m1) ==
    \A p \in Phys : m.rc[p] > 0 => m1.rc[p] = m.rc[p] /\ m1.mem[p].data = m.mem[p].data

(* The other contents, and what a page is used for, stay. *)
LEMMA LinkKeeps ==
    ASSUME NEW D, NEW m \in Memories(D), NEW p \in Phys, NEW i \in 0..NVA,
           NEW pa \in Phys, NEW w \in BOOLEAN
    PROVE  /\ Link(m, p, i, pa, w) \in Memories(D)
           /\ Link(m, p, i, pa, w).rc = m.rc
           /\ \A q \in Phys \ {p} : Link(m, p, i, pa, w).mem[q] = m.mem[q]
           /\ Link(m, p, i, pa, w).mem[p].junk = m.mem[p].junk
           /\ Link(m, p, i, pa, w).mem[p].data = m.mem[p].data
<1> DEFINE m1 == Link(m, p, i, pa, w)
<1>1. /\ m1 \in Memories(D) /\ m1.rc = m.rc
      /\ \A q \in Phys \ {p} : m1.mem[q] = m.mem[q]
      /\ m1.mem[p].junk = m.mem[p].junk
      /\ m1.mem[p].data = m.mem[p].data
      /\ m1.mem[p].e = [j \in DOMAIN m.mem[p].e \cup {i} |->
                           IF j = i THEN [pa |-> pa, w |-> w] ELSE m.mem[p].e[j]]
  BY LinkEffect
<1> HIDE DEF m1
<1> QED BY <1>1 DEF m1

(* An entry in a table of one process is in no other process's space. *)
LEMMA LinkSpaces ==
    ASSUME NEW D, NEW m, NEW Q, NEW rt, NEW other, Sound(m, D, Q, rt, other),
           NEW c \in Q, NEW k \in Places \ {RootSlot}, NEW n \in Phys, NEW w \in BOOLEAN,
           Slot(m, rt[c], Up(k)) # NoPage,
           Slot(m, rt[c], k) = NoPage,
           k \in Tables => DOMAIN m.mem[n].e = {}
                           /\ \A q \in Q, j \in Places : Slot(m, rt[q], j) # n
    PROVE  LET m1 == Link(m, Slot(m, rt[c], Up(k)), Idx(k), n, w) IN
           /\ \A q \in Q, j \in Places :
                  Slot(m1, rt[q], j) = IF q = c /\ j = k THEN n ELSE Slot(m, rt[q], j)
           /\ \A q \in Q, va \in VA :
                  Writable(m1, rt[q], va) <=>
                      IF q = c /\ va = k THEN w ELSE Writable(m, rt[q], va)
           /\ OthersSame(m, m1, Q, rt, c)
<1> DEFINE t == Slot(m, rt[c], Up(k))
           m1 == Link(m, t, Idx(k), n, w)
<1>0. /\ m \in Memories(D) /\ rt \in [Q -> Phys \cup {NoPage}]
      /\ Up(k) \in Tables /\ Up(k) \in Places /\ Idx(k) \in 0..NVA
      /\ Tables \subseteq Places
  BY SlotIsEntry, MemoryAssumption DEF Sound, Setting, Tables, Places
<1>1. \A q \in Q, j \in Places : Slot(m, rt[q], j) = t => q = c /\ j = Up(k)
  BY <1>0, TableSole
<1>2. rt[c] \in Phys /\ t \in Phys
  <2>1. rt[c] # NoPage
    BY <1>0, NoSpace
  <2> QED BY <1>0, <2>1, SlotType
<1>3. k \in Tables => n # t /\ DOMAIN m.mem[n].e = {}
  BY <1>0
<1>4. /\ \A j \in Places : Slot(m1, rt[c], j) = IF j = k THEN n ELSE Slot(m, rt[c], j)
      /\ \A va \in VA : Writable(m1, rt[c], va) <=>
                             IF va = k THEN w ELSE Writable(m, rt[c], va)
  <2>1. \A j \in Places : Slot(m, rt[c], j) = Slot(m, rt[c], Up(k)) => j = Up(k)
    BY <1>1
  <2> QED BY <1>0, <1>2, <1>3, <2>1, LinkSlots
<1>5. ASSUME NEW q \in Q \ {c} PROVE SameSpace(m, m1, rt[q])
  <2>1. \A p \in Phys \ {t} : m1.mem[p] = m.mem[p]
    <3>1. m \in Memories(D) /\ t \in Phys /\ Idx(k) \in 0..NVA
      BY <1>0, <1>2
    <3> HIDE DEF t
    <3> QED BY <3>1, LinkKeeps
  <2> HIDE DEF m1
  <2>2. ASSUME NEW j \in Tables, Slot(m, rt[q], j) # NoPage
        PROVE  m1.mem[Slot(m, rt[q], j)].e = m.mem[Slot(m, rt[q], j)].e
    <3>1. Slot(m, rt[q], j) # t /\ Slot(m, rt[q], j) \in Phys
      BY <1>0, <1>1, <2>2, SlotType
    <3> QED BY <2>1, <3>1
  <2> QED BY <2>2, SlotsFrame
<1> HIDE DEF m1, t
<1>6. \A q \in Q, j \in Places :
          Slot(m1, rt[q], j) = IF q = c /\ j = k THEN n ELSE Slot(m, rt[q], j)
  BY <1>4, <1>5 DEF SameSpace
<1>7. \A q \in Q, va \in VA :
          Writable(m1, rt[q], va) <=>
              IF q = c /\ va = k THEN w ELSE Writable(m, rt[q], va)
  BY <1>4, <1>5 DEF SameSpace
<1> QED BY <1>5, <1>6, <1>7 DEF OthersSame, m1, t

(* A page of one's own goes into a table. *)
LEMMA LinkOwn ==
    ASSUME NEW D, NEW m, NEW Q, NEW rt, NEW other, Sound(m, D, Q, rt, other),
           NEW c \in Q, NEW k \in Places \ {RootSlot}, NEW n \in Phys, NEW w \in BOOLEAN,
           Slot(m, rt[c], Up(k)) # NoPage,
           Slot(m, rt[c], k) = NoPage,
           other[n] = 1, m.rc[n] = 1,
           k \in Tables => DOMAIN m.mem[n].e = {} /\ ~m.mem[n].junk
    PROVE  LET m1 == Link(m, Slot(m, rt[c], Up(k)), Idx(k), n, w) IN
           /\ Sound(m1, D, Q, rt, [other EXCEPT ![n] = 0])
           /\ OthersSame(m, m1, Q, rt, c)
           /\ \A j \in Places : Slot(m1, rt[c], j) = IF j = k THEN n ELSE Slot(m, rt[c], j)
           /\ \A va \in VA : Writable(m1, rt[c], va) <=>
                                 IF va = k THEN w ELSE Writable(m, rt[c], va)
           /\ m1.rc = m.rc
           /\ \A p \in Phys : m1.mem[p].data = m.mem[p].data
<1> DEFINE t == Slot(m, rt[c], Up(k))
           m1 == Link(m, t, Idx(k), n, w)
           other1 == [other EXCEPT ![n] = 0]
<1>0. /\ m \in Memories(D) /\ rt \in [Q -> Phys \cup {NoPage}] /\ IsFiniteSet(Q)
      /\ other \in [Phys -> {0, 1}] /\ NoPage \notin Phys
      /\ Up(k) \in Tables /\ Up(k) \in Places /\ Idx(k) \in 0..NVA
      /\ m.rc \in [Phys -> 0..255]
  BY SMTT(60), SlotIsEntry DEF Sound, Setting, Phys, NoPage, Memories
<1>1. \A q \in Q, j \in Places : Slot(m, rt[q], j) # n
  <2>1. Refs(m, Q, rt, n) = {}
    <3>1. m.rc[n] = Cardinality(Refs(m, Q, rt, n)) + other[n]
          /\ IsFiniteSet(Refs(m, Q, rt, n)) /\ Cardinality(Refs(m, Q, rt, n)) \in Nat
      BY <1>0, RefsFinite DEF Sound, CountsRight
    <3>2. Cardinality(Refs(m, Q, rt, n)) = 0
      BY <3>1
    <3> QED BY <3>1, <3>2, FS_EmptySet
  <2> QED BY <2>1, RefMember
<1>2. /\ \A q \in Q, j \in Places :
             Slot(m1, rt[q], j) = IF q = c /\ j = k THEN n ELSE Slot(m, rt[q], j)
      /\ \A q \in Q, va \in VA :
             Writable(m1, rt[q], va) <=>
                 IF q = c /\ va = k THEN w ELSE Writable(m, rt[q], va)
      /\ OthersSame(m, m1, Q, rt, c)
  BY <1>1, LinkSpaces
<1>3. t \in Phys
  BY <1>0, SlotType
<1>4. /\ m1 \in Memories(D) /\ m1.rc = m.rc
      /\ \A p \in Phys \ {t} : m1.mem[p] = m.mem[p]
      /\ m1.mem[t].junk = m.mem[t].junk /\ m1.mem[t].data = m.mem[t].data
  <2>1. m \in Memories(D) /\ t \in Phys /\ Idx(k) \in 0..NVA
    BY <1>0, <1>3
  <2> HIDE DEF t
  <2> QED BY <2>1, LinkKeeps
<1>5. Setting(D, Q, rt, other1)
  BY <1>0 DEF Sound, Setting
<1>6. other1[n] = 0 /\ \A p \in Phys \ {n} : other1[p] = other[p]
  BY <1>0
<1> HIDE DEF m1, other1, t
<1>7. \A p \in Phys \ {n} : m1.rc[p] = m.rc[p] /\ other1[p] = other[p]
                            /\ m1.mem[p].junk = m.mem[p].junk
  BY <1>4, <1>6
<1>8. m1.rc[n] = 1 /\ m1.rc[n] - other1[n] = m.rc[n] - other[n] + 1
  BY <1>4, <1>6
<1>9. k \in Tables => ~m1.mem[n].junk
  BY <1>4
<1>10. Sound(m1, D, Q, rt, other1)
  BY SMTT(60), <1>0, <1>1, <1>2, <1>4, <1>5, <1>6, <1>7, <1>8, <1>9, SoundGrow
<1>11. \A p \in Phys : m1.mem[p].data = m.mem[p].data
  BY <1>4
<1> QED BY <1>2, <1>4, <1>10, <1>11 DEF m1, other1, t

-----------------------------------------------------------------------------
(* Making tables. *)

(* Tables are added to c's space; what is mapped, and all else, stays. *)
Grows(m, m1, Q, rt, c) ==
    /\ OthersSame(m, m1, Q, rt, c)
    /\ KeepsUsed(m, m1)
    /\ \A j \in Tables : Slot(m, rt[c], j) # NoPage => Slot(m1, rt[c], j) = Slot(m, rt[c], j)
    /\ \A va \in VA : /\ Slot(m1, rt[c], va) = Slot(m, rt[c], va)
                      /\ Writable(m1, rt[c], va) <=> Writable(m, rt[c], va)

(* Memory that does not change grows, *)
LEMMA GrowsReflexive ==
    ASSUME NEW m, NEW Q, NEW rt, NEW c
    PROVE  Grows(m, m, Q, rt, c)
BY DEF Grows, OthersSame, SameSpace, KeepsUsed

(* and growing twice is growing. *)
LEMMA GrowsTransitive ==
    ASSUME NEW m, NEW m1, NEW m2, NEW Q, NEW rt, NEW c,
           Grows(m, m1, Q, rt, c), Grows(m1, m2, Q, rt, c)
    PROVE  Grows(m, m2, Q, rt, c)
<1>1. OthersSame(m, m2, Q, rt, c)
  BY DEF Grows, OthersSame, SameSpace
<1>2. KeepsUsed(m, m2)
  BY DEF Grows, KeepsUsed
<1>3. \A j \in Tables : Slot(m, rt[c], j) # NoPage => Slot(m2, rt[c], j) = Slot(m, rt[c], j)
  BY DEF Grows
<1>4. \A va \in VA : /\ Slot(m2, rt[c], va) = Slot(m, rt[c], va)
                     /\ Writable(m2, rt[c], va) <=> Writable(m, rt[c], va)
  BY DEF Grows
<1> QED BY <1>1, <1>2, <1>3, <1>4 DEF Grows

(* The descent has come to the table at place k of c's space, or failed. *)
Reached(m, s, D, Q, rt, other, c, k) ==
    /\ s = [m |-> s.m, at |-> s.at, ok |-> s.ok]
    /\ s.ok \in BOOLEAN
    /\ Sound(s.m, D, Q, rt, other)
    /\ Grows(m, s.m, Q, rt, c)
    /\ s.ok => s.at # NoPage /\ s.at = Slot(s.m, rt[c], k)

(* What claiming a page does to it and to the rest of memory. *)
LEMMA ClaimFacts ==
    ASSUME NEW D, NEW m \in Memories(D), NEW n \in Phys, m.rc[n] = 0, NEW content
    PROVE  /\ Claim(m, n, content).rc[n] = 1
           /\ Claim(m, n, content).mem[n] = content
           /\ KeepsUsed(m, Claim(m, n, content))
BY DEF Memories, Claim, KeepsUsed

(* A new table. *)
LEMMA NewTable ==
    ASSUME NEW D, NEW m, NEW Q, NEW rt, NEW other, Sound(m, D, Q, rt, other),
           NEW c \in Q, NEW k \in Tables \ {RootSlot}, NEW n \in Phys,
           m.rc[n] = 0,
           Slot(m, rt[c], Up(k)) # NoPage, Slot(m, rt[c], k) = NoPage,
           NEW w \in BOOLEAN
    PROVE  LET m2 == Link(Claim(m, n, Zero), Slot(m, rt[c], Up(k)), Idx(k), n, w) IN
           /\ Sound(m2, D, Q, rt, other)
           /\ Grows(m, m2, Q, rt, c)
           /\ Slot(m2, rt[c], k) = n
<1> DEFINE m1 == Claim(m, n, Zero)
           t == Slot(m, rt[c], Up(k))
           m2 == Link(m1, t, Idx(k), n, w)
           other1 == [other EXCEPT ![n] = 1]
<1>0. /\ m \in Memories(D)
      /\ k \in Places \ {RootSlot} /\ Up(k) \in Tables /\ Up(k) \in Places
      /\ VA \subseteq Places /\ k \notin VA /\ Tables \subseteq Places
      /\ other \in [Phys -> {0, 1}] /\ 0 \in D
  <2>1. k \in Places \ {RootSlot}
    BY MemoryAssumption DEF Tables, Places
  <2>2. VA \subseteq Places /\ k \notin VA /\ Tables \subseteq Places
    BY MemoryAssumption DEF Tables, Places, VA
  <2> QED BY <2>1, <2>2, SlotIsEntry DEF Sound, Setting
<1>1. Zero \in Contents(D) /\ DOMAIN Zero.e = {} /\ ~Zero.junk
  BY <1>0, FixedContents
<1>2. /\ Sound(m1, D, Q, rt, other1)
      /\ \A q \in Q : SameSpace(m, m1, rt[q])
      /\ other[n] = 0
  BY <1>1, SoundClaim
<1>3. m1.rc[n] = 1 /\ m1.mem[n] = Zero /\ KeepsUsed(m, m1) /\ other1[n] = 1
  BY <1>0, ClaimFacts
<1>4. [other1 EXCEPT ![n] = 0] = other
  BY <1>0, <1>2
<1> HIDE DEF m1, other1, t
<1>5. t # NoPage /\ t = Slot(m1, rt[c], Up(k)) /\ Slot(m1, rt[c], k) = NoPage
  BY <1>0, <1>2 DEF SameSpace, t
<1>6. /\ Sound(m2, D, Q, rt, [other1 EXCEPT ![n] = 0])
      /\ OthersSame(m1, m2, Q, rt, c)
      /\ \A j \in Places : Slot(m2, rt[c], j) = IF j = k THEN n ELSE Slot(m1, rt[c], j)
      /\ \A va \in VA : Writable(m2, rt[c], va) <=>
                            IF va = k THEN w ELSE Writable(m1, rt[c], va)
      /\ m2.rc = m1.rc
      /\ \A p \in Phys : m2.mem[p].data = m1.mem[p].data
  <2>1. k \in Tables => DOMAIN m1.mem[n].e = {} /\ ~m1.mem[n].junk
    BY <1>1, <1>3
  <2> QED BY SMTT(60), <1>0, <1>2, <1>3, <1>5, <2>1, LinkOwn
<1> HIDE DEF m2
<1>7. Grows(m, m2, Q, rt, c)
  <2>1. OthersSame(m, m2, Q, rt, c)
    BY <1>2, <1>6 DEF OthersSame, SameSpace
  <2>2. KeepsUsed(m, m2)
    BY <1>3, <1>6 DEF KeepsUsed
  <2>3. ASSUME NEW j \in Tables, Slot(m, rt[c], j) # NoPage
        PROVE  Slot(m2, rt[c], j) = Slot(m, rt[c], j)
    <3>1. j \in Places /\ Slot(m1, rt[c], j) = Slot(m, rt[c], j)
      BY <1>0, <1>2 DEF SameSpace
    <3> QED BY <1>5, <1>6, <2>3, <3>1
  <2>4. ASSUME NEW va \in VA
        PROVE  /\ Slot(m2, rt[c], va) = Slot(m, rt[c], va)
               /\ Writable(m2, rt[c], va) <=> Writable(m, rt[c], va)
    BY <1>0, <1>2, <1>6 DEF SameSpace
  <2> QED BY <2>1, <2>2, <2>3, <2>4 DEF Grows
<1>8. Sound(m2, D, Q, rt, other)
  BY <1>4, <1>6
<1>9. Slot(m2, rt[c], k) = n
  BY <1>0, <1>6
<1> QED BY <1>7, <1>8, <1>9 DEF m2, m1, t

(* Updates of the record that stands for a descent. *)
LEMMA DescentExcept ==
    ASSUME NEW a, NEW b, NEW ok, NEW x
    PROVE  /\ [[m |-> a, at |-> b, ok |-> ok] EXCEPT !.at = x] = [m |-> a, at |-> x, ok |-> ok]
           /\ [[m |-> a, at |-> b, ok |-> ok] EXCEPT !.ok = x] = [m |-> a, at |-> b, ok |-> x]
OBVIOUS

(* One level of try_map()'s descent: follow the table there is, give up when *)
(* there is no page for a new one, or make one that is cleared.              *)
LEMMA DescendEffect ==
    ASSUME NEW D, NEW a \in Memories(D), NEW b, NEW i, NEW ok \in BOOLEAN
    PROVE  LET s == [m |-> a, at |-> b, ok |-> ok] IN
           /\ ~ok => Descend(s, i) = s
           /\ ok /\ Entry(a, b, i) # NoPage =>
                 Descend(s, i) = [m |-> a, at |-> Entry(a, b, i), ok |-> ok]
           /\ ok /\ Entry(a, b, i) = NoPage /\ Kalloc(a).p = NoPage =>
                 Descend(s, i) = [m |-> a, at |-> b, ok |-> FALSE]
           /\ \A n \in Phys : ok /\ Entry(a, b, i) = NoPage
                               /\ Kalloc(a) = [m |-> Claim(a, n, Junk), p |-> n] =>
                 Descend(s, i) =
                    [m |-> Link(Claim(a, n, Zero), b, i, n, TRUE), at |-> n, ok |-> TRUE]
<1> DEFINE s == [m |-> a, at |-> b, ok |-> ok]
           next == Entry(a, b, i)
<1>1. s.m = a /\ s.at = b /\ s.ok = ok
  OBVIOUS
<1>2. /\ [s EXCEPT !.at = next] = [m |-> a, at |-> next, ok |-> ok]
      /\ [s EXCEPT !.ok = FALSE] = [m |-> a, at |-> b, ok |-> FALSE]
  <2> HIDE DEF next
  <2>1. \A x : /\ [s EXCEPT !.at = x] = [m |-> a, at |-> x, ok |-> ok]
               /\ [s EXCEPT !.ok = x] = [m |-> a, at |-> b, ok |-> x]
    BY DescentExcept
  <2> HIDE DEF s
  <2> QED BY <2>1, Zenon
<1> HIDE DEF s, next
<1>3. ~ok => Descend(s, i) = s
  BY <1>1 DEF Descend
<1>4. ok /\ next # NoPage => Descend(s, i) = [m |-> a, at |-> next, ok |-> ok]
  BY <1>1, <1>2 DEF Descend, next
<1>5. ok /\ next = NoPage /\ Kalloc(a).p = NoPage =>
          Descend(s, i) = [m |-> a, at |-> b, ok |-> FALSE]
  BY <1>1, <1>2 DEF Descend, next
<1>6. ASSUME NEW n \in Phys, ok, next = NoPage,
             Kalloc(a) = [m |-> Claim(a, n, Junk), p |-> n]
      PROVE  Descend(s, i) =
                 [m |-> Link(Claim(a, n, Zero), b, i, n, TRUE), at |-> n, ok |-> TRUE]
  <2>1. Zeroed(Claim(a, n, Junk), n) = Claim(a, n, Zero)
    BY ClaimZeroed DEF Zeroed
  <2>2. Kalloc(a).p = n /\ Kalloc(a).m = Claim(a, n, Junk) /\ n # NoPage
    BY <1>6 DEF Phys, NoPage
  <2> QED BY <1>1, <1>6, <2>1, <2>2 DEF Descend, next
<1> QED BY <1>3, <1>4, <1>5, <1>6 DEF s, next

(* One level of the descent keeps memory sound and reaches the next place. *)
LEMMA DescendStep ==
    ASSUME NEW D, NEW m, NEW Q, NEW rt, NEW other, NEW c \in Q, NEW s,
           NEW k \in Tables \ {RootSlot},
           Reached(m, s, D, Q, rt, other, c, Up(k))
    PROVE  Reached(m, Descend(s, Idx(k)), D, Q, rt, other, c, k)
<1> DEFINE a == s.m
           b == s.at
           ok == s.ok
           d == Descend(s, Idx(k))
<1>0. /\ s = [m |-> a, at |-> b, ok |-> ok] /\ ok \in BOOLEAN
      /\ Sound(a, D, Q, rt, other) /\ Grows(m, a, Q, rt, c)
      /\ ok => b # NoPage /\ b = Slot(a, rt[c], Up(k))
  BY Zenon DEF Reached
<1> HIDE DEF a, b, ok
<1>1. a \in Memories(D) /\ k \in Places \ {RootSlot}
  BY <1>0, MemoryAssumption DEF Sound, Tables, Places
<1>2. /\ ~ok => d = s
      /\ ok /\ Entry(a, b, Idx(k)) # NoPage =>
            d = [m |-> a, at |-> Entry(a, b, Idx(k)), ok |-> ok]
      /\ ok /\ Entry(a, b, Idx(k)) = NoPage /\ Kalloc(a).p = NoPage =>
            d = [m |-> a, at |-> b, ok |-> FALSE]
      /\ \A n \in Phys : ok /\ Entry(a, b, Idx(k)) = NoPage
                          /\ Kalloc(a) = [m |-> Claim(a, n, Junk), p |-> n] =>
            d = [m |-> Link(Claim(a, n, Zero), b, Idx(k), n, TRUE), at |-> n, ok |-> TRUE]
  <2> DEFINE s0 == [m |-> a, at |-> b, ok |-> ok]
  <2>1. /\ ~ok => Descend(s0, Idx(k)) = s0
        /\ ok /\ Entry(a, b, Idx(k)) # NoPage =>
              Descend(s0, Idx(k)) = [m |-> a, at |-> Entry(a, b, Idx(k)), ok |-> ok]
        /\ ok /\ Entry(a, b, Idx(k)) = NoPage /\ Kalloc(a).p = NoPage =>
              Descend(s0, Idx(k)) = [m |-> a, at |-> b, ok |-> FALSE]
        /\ \A n \in Phys : ok /\ Entry(a, b, Idx(k)) = NoPage
                            /\ Kalloc(a) = [m |-> Claim(a, n, Junk), p |-> n] =>
              Descend(s0, Idx(k)) =
                  [m |-> Link(Claim(a, n, Zero), b, Idx(k), n, TRUE), at |-> n, ok |-> TRUE]
    <3>1. ok \in BOOLEAN
      BY <1>0
    <3> QED BY <1>1, <3>1, DescendEffect, ZenonT(60)
  <2>2. s = s0
    BY <1>0
  <2> HIDE DEF s0
  <2> QED BY <2>1, <2>2
<1>3. ok => Entry(a, b, Idx(k)) = Slot(a, rt[c], k)
  BY <1>0, <1>1, SlotIsEntry
<1> HIDE DEF d
<1>4. CASE ~ok
  <2>1. d = s
    BY <1>2, <1>4
  <2>2. d.m = a /\ d.at = b /\ d.ok = ok
    BY <2>1 DEF a, b, ok
  <2> QED BY <1>0, <1>4, <2>1, <2>2, Zenon DEF Reached, d
<1>5. CASE ok /\ Entry(a, b, Idx(k)) # NoPage
  <2>1. d = [m |-> a, at |-> Entry(a, b, Idx(k)), ok |-> ok]
    BY <1>2, <1>5
  <2>2. d.m = a /\ d.at = Entry(a, b, Idx(k)) /\ d.ok = ok
    BY <2>1
  <2> QED BY <1>0, <1>3, <1>5, <2>1, <2>2, Zenon DEF Reached, d
<1>6. CASE ok /\ Entry(a, b, Idx(k)) = NoPage /\ Kalloc(a).p = NoPage
  <2>1. d = [m |-> a, at |-> b, ok |-> FALSE]
    BY <1>2, <1>6
  <2>2. d.m = a /\ d.at = b /\ d.ok = FALSE
    BY <2>1
  <2> QED BY <1>0, <2>1, <2>2, Zenon DEF Reached, d
<1>7. CASE ok /\ Entry(a, b, Idx(k)) = NoPage /\ Kalloc(a).p # NoPage
  <2>1. PICK n \in Phys : /\ a.rc[n] = 0
                          /\ Kalloc(a) = [m |-> Claim(a, n, Junk), p |-> n]
    BY <1>1, <1>7, KallocEffect
  <2>2. PICK w \in BOOLEAN : w = TRUE
    OBVIOUS
  <2> DEFINE m2 == Link(Claim(a, n, Zero), b, Idx(k), n, w)
  <2>3. d = [m |-> m2, at |-> n, ok |-> TRUE]
    BY <1>2, <1>7, <2>1, <2>2
  <2>4. Sound(m2, D, Q, rt, other) /\ Grows(a, m2, Q, rt, c) /\ Slot(m2, rt[c], k) = n
    <3>1. Slot(a, rt[c], Up(k)) # NoPage /\ Slot(a, rt[c], k) = NoPage
          /\ b = Slot(a, rt[c], Up(k))
      BY <1>0, <1>3, <1>7
    <3> QED BY <1>0, <2>1, <3>1, NewTable
  <2> HIDE DEF m2
  <2>5. Grows(m, m2, Q, rt, c)
    BY <1>0, <2>4, GrowsTransitive
  <2>6. n # NoPage
    BY DEF Phys, NoPage
  <2>7. d.m = m2 /\ d.at = n /\ d.ok = TRUE
    BY <2>3
  <2> QED BY <2>3, <2>4, <2>5, <2>6, <2>7, Zenon DEF Reached, d
<1> QED BY <1>0, <1>4, <1>5, <1>6, <1>7, Zenon DEF d

(* With one entry of a table there is the table. *)
LEMMA UpPresent ==
    ASSUME NEW m, NEW root, NEW j \in Places \ {RootSlot}, Slot(m, root, j) # NoPage
    PROVE  Slot(m, root, Up(j)) # NoPage
BY SlotIsEntry DEF Entry

(* try_map()'s whole descent: memory stays sound however far it gets. *)
LEMMA MakeTablesSound ==
    ASSUME NEW D, NEW m, NEW Q, NEW rt, NEW other, Sound(m, D, Q, rt, other),
           NEW c \in Q, rt[c] # NoPage, NEW h \in {0, 1}
    PROVE  Reached(m, MakeTables(m, rt[c], h), D, Q, rt, other, c, NVA + 1 + h)
<1> DEFINE s0 == [m |-> m, at |-> rt[c], ok |-> TRUE]
           s1 == Descend(s0, 0)
           s2 == Descend(s1, 0)
           s3 == Descend(s2, h)
<1>1. MakeTables(m, rt[c], h) = s3
  BY MakeTablesSteps
<1>2. Reached(m, s0, D, Q, rt, other, c, RootSlot)
  BY SlotRoot, GrowsReflexive DEF Reached
<1>3. /\ NVA + 4 \in Tables \ {RootSlot} /\ Up(NVA + 4) = RootSlot /\ Idx(NVA + 4) = 0
      /\ NVA + 3 \in Tables \ {RootSlot} /\ Up(NVA + 3) = NVA + 4 /\ Idx(NVA + 3) = 0
      /\ NVA + 1 + h \in Tables \ {RootSlot} /\ Up(NVA + 1 + h) = NVA + 3
      /\ Idx(NVA + 1 + h) = h
  BY MemoryAssumption DEF Tables, RootSlot, Up, Idx
<1> HIDE DEF s0
<1>4. Reached(m, s1, D, Q, rt, other, c, NVA + 4)
  <2>1. Reached(m, Descend(s0, Idx(NVA + 4)), D, Q, rt, other, c, NVA + 4)
    BY <1>2, <1>3, DescendStep
  <2> QED BY <1>3, <2>1
<1> HIDE DEF s1
<1>5. Reached(m, s2, D, Q, rt, other, c, NVA + 3)
  <2>1. Reached(m, Descend(s1, Idx(NVA + 3)), D, Q, rt, other, c, NVA + 3)
    BY <1>3, <1>4, DescendStep
  <2> QED BY <1>3, <2>1
<1> HIDE DEF s2
<1>6. Reached(m, s3, D, Q, rt, other, c, NVA + 1 + h)
  <2>1. Reached(m, Descend(s2, Idx(NVA + 1 + h)), D, Q, rt, other, c, NVA + 1 + h)
    BY <1>3, <1>5, DescendStep
  <2> QED BY <1>3, <2>1
<1> QED BY <1>1, <1>6

-----------------------------------------------------------------------------
(* Mapping a page. *)

(* Pages in use stay in use, with their data. *)
KeepsData(m, m1) ==
    \A p \in Phys : m.rc[p] > 0 => m1.rc[p] > 0 /\ m1.mem[p].data = m.mem[p].data

(* In c's space page n is now mapped at va, as w says; all else stays. *)
Mapped(m, m1, Q, rt, c, va, n, w) ==
    /\ OthersSame(m, m1, Q, rt, c)
    /\ KeepsData(m, m1)
    /\ \A j \in Tables : Slot(m, rt[c], j) # NoPage => Slot(m1, rt[c], j) = Slot(m, rt[c], j)
    /\ \A j \in VA : /\ Slot(m1, rt[c], j) = IF j = va THEN n ELSE Slot(m, rt[c], j)
                     /\ Writable(m1, rt[c], j) <=>
                            IF j = va THEN w ELSE Writable(m, rt[c], j)

(* What keeps the pages in use keeps their data. *)
LEMMA UsedData ==
    ASSUME NEW m, NEW m1, KeepsUsed(m, m1)
    PROVE  KeepsData(m, m1)
BY DEF KeepsUsed, KeepsData

(* try_map() has mapped the page, which is then all of m1, or has failed. *)
MapOutcome(m, t, m1, D, Q, rt, other, other1, c, va, n, w) ==
    \/ /\ t.ok = TRUE
       /\ Sound(m1, D, Q, rt, other1)
       /\ Mapped(m, m1, Q, rt, c, va, n, w)
    \/ /\ t.ok = FALSE
       /\ Sound(t.m, D, Q, rt, other)
       /\ Grows(m, t.m, Q, rt, c)

(* Page n, claimed, is one of the others in other, but not in other0. *)
OneMore(other0, n, other) ==
    /\ other0 \in [Phys -> {0, 1}]
    /\ other0[n] = 0
    /\ other = [other0 EXCEPT ![n] = 1]

(* try_map() with a page of one's own. *)
LEMMA TryMapOwn ==
    ASSUME NEW D, NEW m, NEW Q, NEW rt, NEW other, Sound(m, D, Q, rt, other),
           NEW other0,
           NEW c \in Q, rt[c] # NoPage, NEW va \in VA, Slot(m, rt[c], va) = NoPage,
           NEW n \in Phys, OneMore(other0, n, other), m.rc[n] = 1, NEW w \in BOOLEAN
    PROVE  LET t == TryMap(m, rt[c], va, n, w) IN
           MapOutcome(m, t, t.m, D, Q, rt, other, other0, c, va, n, w)
<1> DEFINE s == MakeTables(m, rt[c], Half(va))
           m2 == Link(s.m, s.at, va, n, w)
           t == TryMap(m, rt[c], va, n, w)
<1>0. /\ Half(va) \in {0, 1} /\ va \in Places \ {RootSlot} /\ Idx(va) = va
      /\ Up(va) = NVA + 1 + Half(va) /\ va \notin Tables /\ Tables \subseteq Places
      /\ VA \subseteq Places /\ VA \cap Tables = {} /\ Up(va) \in Tables
  <2>1. Half(va) \in {0, 1} /\ va \notin Tables /\ Tables \subseteq Places
        /\ VA \subseteq Places /\ VA \cap Tables = {}
    BY MemoryAssumption DEF Half, VA, Tables, Places
  <2>2. Up(va) = NVA + 1 + Half(va)
    BY LeafPlace DEF Up
  <2> QED BY <2>1, <2>2, LeafPlace, SlotIsEntry
<1>o. other[n] = 1
  BY DEF OneMore
<1>p. [other EXCEPT ![n] = 0] = other0
  BY DEF OneMore
<1>1. Reached(m, s, D, Q, rt, other, c, Up(va))
  BY <1>0, MakeTablesSound
<1>2. t = IF s.ok THEN [m |-> m2, ok |-> TRUE] ELSE [m |-> s.m, ok |-> FALSE]
  BY DEF TryMap
<1> HIDE DEF s, t
<1>3. /\ s.ok \in BOOLEAN /\ Sound(s.m, D, Q, rt, other) /\ Grows(m, s.m, Q, rt, c)
      /\ s.ok => s.at # NoPage /\ s.at = Slot(s.m, rt[c], Up(va))
  BY <1>1, Zenon DEF Reached
<1>4. CASE ~s.ok
  <2>1. t.ok = FALSE /\ t.m = s.m
    BY <1>2, <1>4
  <2> QED BY <1>3, <2>1 DEF MapOutcome, t
<1>5. CASE s.ok
  <2>1. t.ok = TRUE /\ t.m = m2
    BY <1>2, <1>5
  <2>2. Slot(s.m, rt[c], va) = NoPage /\ s.m.rc[n] = 1
    BY <1>3 DEF Grows, KeepsUsed
  <2>3. LET l == Link(s.m, Slot(s.m, rt[c], Up(va)), Idx(va), n, w) IN
        /\ Sound(l, D, Q, rt, [other EXCEPT ![n] = 0])
        /\ OthersSame(s.m, l, Q, rt, c)
        /\ \A j \in Places : Slot(l, rt[c], j) = IF j = va THEN n ELSE Slot(s.m, rt[c], j)
        /\ \A j \in VA : Writable(l, rt[c], j) <=>
                              IF j = va THEN w ELSE Writable(s.m, rt[c], j)
        /\ l.rc = s.m.rc
        /\ \A p \in Phys : l.mem[p].data = s.m.mem[p].data
    <3> DEFINE a == s.m
    <3>1. /\ Sound(a, D, Q, rt, other) /\ Slot(a, rt[c], Up(va)) # NoPage
          /\ Slot(a, rt[c], va) = NoPage /\ a.rc[n] = 1
      BY <1>3, <1>5, <2>2
    <3> HIDE DEF a
    <3>2. LET l == Link(a, Slot(a, rt[c], Up(va)), Idx(va), n, w) IN
          /\ Sound(l, D, Q, rt, [other EXCEPT ![n] = 0])
          /\ OthersSame(a, l, Q, rt, c)
          /\ \A j \in Places : Slot(l, rt[c], j) = IF j = va THEN n ELSE Slot(a, rt[c], j)
          /\ \A j \in VA : Writable(l, rt[c], j) <=>
                                IF j = va THEN w ELSE Writable(a, rt[c], j)
          /\ l.rc = a.rc
          /\ \A p \in Phys : l.mem[p].data = a.mem[p].data
      BY <1>0, <1>o, <3>1, LinkOwn
    <3> QED BY <3>2 DEF a
  <2>4. m2 = Link(s.m, Slot(s.m, rt[c], Up(va)), Idx(va), n, w)
    BY <1>0, <1>3, <1>5
  <2>5. /\ Sound(m2, D, Q, rt, other0)
        /\ OthersSame(s.m, m2, Q, rt, c)
        /\ \A j \in Places : Slot(m2, rt[c], j) = IF j = va THEN n ELSE Slot(s.m, rt[c], j)
        /\ \A j \in VA : Writable(m2, rt[c], j) <=>
                              IF j = va THEN w ELSE Writable(s.m, rt[c], j)
        /\ m2.rc = s.m.rc
        /\ \A p \in Phys : m2.mem[p].data = s.m.mem[p].data
    BY <1>p, <2>3, <2>4, Zenon
  <2> HIDE DEF m2
  <2>6. Mapped(m, m2, Q, rt, c, va, n, w)
    <3>1. OthersSame(m, m2, Q, rt, c)
      BY <1>3, <2>5 DEF Grows, OthersSame, SameSpace
    <3>2. KeepsData(m, m2)
      BY <1>3, <2>5 DEF Grows, KeepsUsed, KeepsData
    <3>3. ASSUME NEW j \in Tables, Slot(m, rt[c], j) # NoPage
          PROVE  Slot(m2, rt[c], j) = Slot(m, rt[c], j)
      BY <1>0, <1>3, <2>5, <3>3 DEF Grows
    <3>4. ASSUME NEW j \in VA
          PROVE  /\ Slot(m2, rt[c], j) = IF j = va THEN n ELSE Slot(m, rt[c], j)
                 /\ Writable(m2, rt[c], j) <=> IF j = va THEN w ELSE Writable(m, rt[c], j)
      BY <1>0, <1>3, <2>5 DEF Grows
    <3> QED BY <3>1, <3>2, <3>3, <3>4 DEF Mapped
  <2> QED BY <2>1, <2>5, <2>6 DEF MapOutcome, t
<1> QED BY <1>3, <1>4, <1>5

(* A page that is mapped read-only at va in another space, and so at va and *)
(* read-only wherever it is, is counted less often than there are spaces.   *)
LEMMA SharedEverywhere ==
    ASSUME NEW D, NEW m, NEW Q, NEW rt, NEW other, Sound(m, D, Q, rt, other),
           NEW r \in Q, NEW va \in VA, NEW n \in Phys,
           Slot(m, rt[r], va) = n, ~Writable(m, rt[r], va)
    PROVE  \A q \in Q, j \in Places : Slot(m, rt[q], j) = n =>
               j = va /\ ~Writable(m, rt[q], va)
<1>0. /\ n # NoPage /\ va \in Places /\ va \notin Tables
      /\ \A j \in Places : j \in VA \/ j \in Tables
  BY MemoryAssumption DEF Phys, NoPage, VA, Places, Tables
<1> SUFFICES ASSUME NEW q \in Q, NEW j \in Places, Slot(m, rt[q], j) = n
             PROVE  j = va /\ ~Writable(m, rt[q], va)
  OBVIOUS
<1>1. j \in VA
  <2>1. CASE j \in Tables
    <3>1. va = j
      BY <1>0, <2>1, TableSole
    <3> QED BY <1>0, <2>1, <3>1
  <2> QED BY <1>0, <2>1
<1>2. j = va
  <2>1. Lookup(m, rt[q], j) = n /\ Lookup(m, rt[r], va) = n
    BY <1>1, LeafPlace
  <2> QED BY <1>0, <1>1, <2>1 DEF Sound, SharedAlike
<1>3. ~Writable(m, rt[q], va)
  <2> SUFFICES ASSUME Writable(m, rt[q], va) PROVE FALSE
    OBVIOUS
  <2>1. m.rc[n] = 1
    BY <1>2, LeafPlace DEF Sound, WritableOwn
  <2>2. q = r
    BY <1>0, <1>2, <2>1, SoleReference
  <2> QED BY <2>2
<1> QED BY <1>2, <1>3

(* A page that is at one address everywhere has fewer references than there  *)
(* are processes, so that its count, a uint8_t, does not wrap when shared.   *)
LEMMA SharedCount ==
    ASSUME NEW D, NEW m, NEW Q, NEW rt, NEW other, Sound(m, D, Q, rt, other),
           NEW c \in Q, NEW va \in VA, NEW n \in Phys,
           Slot(m, rt[c], va) = NoPage,
           \A q \in Q, j \in Places : Slot(m, rt[q], j) = n => j = va
    PROVE  m.rc[n] <= 254
<1>0. /\ n # NoPage /\ va \in Places /\ IsFiniteSet(Q) /\ Cardinality(Q) <= 254
      /\ other \in [Phys -> {0, 1}] /\ Cardinality(Q) \in Nat
  BY MemoryAssumption, FS_CardinalityType DEF Phys, NoPage, VA, Places, Sound, Setting
<1> DEFINE S == (Q \ {c}) \X {va}
<1>1. Refs(m, Q, rt, n) \subseteq S
  <2>1. ASSUME NEW x \in Refs(m, Q, rt, n) PROVE x \in S
    <3>1. PICK q \in Q, j \in Places : x = <<q, j>> /\ Slot(m, rt[q], j) = n
      BY <2>1 DEF Refs
    <3>2. j = va /\ q # c
      BY <1>0, <3>1
    <3> QED BY <3>1, <3>2
  <2> QED BY <2>1
<1>2. IsFiniteSet(Q \ {c}) /\ Cardinality(Q \ {c}) = Cardinality(Q) - 1
  BY <1>0, FS_RemoveElement
<1>3. IsFiniteSet({va}) /\ Cardinality({va}) = 1
  BY FS_Singleton
<1>4. IsFiniteSet(S) /\ Cardinality(S) = Cardinality(Q \ {c}) * Cardinality({va})
  <2> DEFINE A == Q \ {c}
             B == {va}
  <2>1. IsFiniteSet(A) /\ IsFiniteSet(B)
    BY <1>2, <1>3
  <2> HIDE DEF A, B
  <2>2. IsFiniteSet(A \X B) /\ Cardinality(A \X B) = Cardinality(A) * Cardinality(B)
    BY <2>1, FS_Product
  <2> QED BY <2>2 DEF A, B
<1>5. Cardinality(S) = Cardinality(Q) - 1
  BY <1>0, <1>2, <1>3, <1>4
<1> HIDE DEF S
<1>6. Cardinality(Refs(m, Q, rt, n)) <= Cardinality(S)
  BY <1>1, <1>4, FS_Subset
<1>7. m.rc[n] = Cardinality(Refs(m, Q, rt, n)) + other[n]
  BY DEF Sound, CountsRight
<1>8. Cardinality(Refs(m, Q, rt, n)) \in Nat /\ other[n] \in {0, 1}
  BY <1>0, RefsFinite
<1> QED BY <1>0, <1>5, <1>6, <1>7, <1>8

(* A page that is shared goes into a table, and is counted. *)
LEMMA LinkShared ==
    ASSUME NEW D, NEW m, NEW Q, NEW rt, NEW other, Sound(m, D, Q, rt, other),
           NEW c \in Q, NEW va \in VA, NEW n \in Phys, NEW w \in BOOLEAN, ~w,
           Slot(m, rt[c], Up(va)) # NoPage, Slot(m, rt[c], va) = NoPage,
           NEW r \in Q, Slot(m, rt[r], va) = n, ~Writable(m, rt[r], va)
    PROVE  LET m1 == Share(Link(m, Slot(m, rt[c], Up(va)), Idx(va), n, w), n) IN
           /\ Sound(m1, D, Q, rt, other)
           /\ OthersSame(m, m1, Q, rt, c)
           /\ \A j \in Places : Slot(m1, rt[c], j) = IF j = va THEN n ELSE Slot(m, rt[c], j)
           /\ \A j \in VA : Writable(m1, rt[c], j) <=>
                                 IF j = va THEN w ELSE Writable(m, rt[c], j)
           /\ m1.rc = [m.rc EXCEPT ![n] = @ + 1]
           /\ \A p \in Phys : m1.mem[p].data = m.mem[p].data
<1> DEFINE t == Slot(m, rt[c], Up(va))
           l == Link(m, t, Idx(va), n, w)
           m1 == Share(l, n)
<1>0. /\ m \in Memories(D) /\ rt \in [Q -> Phys \cup {NoPage}]
      /\ m.rc \in [Phys -> 0..255]
      /\ va \in Places \ {RootSlot} /\ va \notin Tables /\ Up(va) \in Places
      /\ Idx(va) \in 0..NVA /\ NoPage \notin Phys
  <2>1. va \in Places \ {RootSlot} /\ va \notin Tables
    BY MemoryAssumption DEF VA, Places, Tables, RootSlot
  <2>2. NoPage \notin Phys
    BY DEF NoPage, Phys
  <2> QED BY <2>1, <2>2, SlotIsEntry DEF Sound, Setting, Memories
<1>1. \A q \in Q, j \in Places : Slot(m, rt[q], j) = n => j = va /\ ~Writable(m, rt[q], va)
  BY SharedEverywhere
<1>2. m.rc[n] \in 0..254
  <2>1. m.rc[n] <= 254
    BY <1>1, SharedCount
  <2>2. m.rc[n] \in 0..255
    BY <1>0
  <2> QED BY <2>1, <2>2
<1>3. t \in Phys
  BY <1>0, SlotType
<1>4. /\ l \in Memories(D) /\ l.rc = m.rc
      /\ \A p \in Phys \ {t} : l.mem[p] = m.mem[p]
      /\ l.mem[t].junk = m.mem[t].junk /\ l.mem[t].data = m.mem[t].data
  <2> HIDE DEF t
  <2> QED BY <1>0, <1>3, LinkKeeps
<1>5. /\ \A q \in Q, j \in Places :
             Slot(l, rt[q], j) = IF q = c /\ j = va THEN n ELSE Slot(m, rt[q], j)
      /\ \A q \in Q, j \in VA :
             Writable(l, rt[q], j) <=>
                 IF q = c /\ j = va THEN w ELSE Writable(m, rt[q], j)
      /\ OthersSame(m, l, Q, rt, c)
  BY <1>0, LinkSpaces
<1> HIDE DEF l, t
<1>6. /\ m1 \in Memories(D)
      /\ m1.rc = [m.rc EXCEPT ![n] = @ + 1]
      /\ m1.mem = l.mem
  <2>1. (m.rc[n] + 1) % 256 = m.rc[n] + 1 /\ m.rc[n] + 1 \in 0..255
    BY SMTT(60), <1>2
  <2>2. l = [rc |-> l.rc, mem |-> l.mem] /\ l.rc \in [Phys -> 0..255]
        /\ l.mem \in [Phys -> Contents(D)]
    BY <1>4 DEF Memories
  <2> DEFINE a == l.rc
             b == l.mem
  <2>3. l = [rc |-> a, mem |-> b] /\ a = m.rc
    BY <1>4, <2>2
  <2> HIDE DEF a, b
  <2>4. m1 = [rc |-> [a EXCEPT ![n] = (@ + 1) % 256], mem |-> b]
    BY <2>3 DEF Share
  <2>5. m1 = [rc |-> [m.rc EXCEPT ![n] = @ + 1], mem |-> b]
    BY <2>1, <2>3, <2>4
  <2>6. [m.rc EXCEPT ![n] = @ + 1] \in [Phys -> 0..255]
    BY Zenon, <1>0, <2>1
  <2> HIDE DEF m1
  <2> QED BY Zenon, <2>2, <2>5, <2>6 DEF Memories, b
<1>7. /\ \A j : \A q \in Q : Slot(m1, rt[q], j) = Slot(l, rt[q], j)
      /\ \A q \in Q : SameSpace(l, m1, rt[q])
  <2>1. ASSUME NEW p, NEW i PROVE Entry(m1, p, i) = Entry(l, p, i)
    BY <1>6 DEF Entry
  <2> HIDE DEF m1
  <2>2. ASSUME NEW j, NEW q \in Q PROVE Slot(m1, rt[q], j) = Slot(l, rt[q], j)
    BY <2>1 DEF Slot, Lookup, Level1, Level2, Level3
  <2>3. ASSUME NEW q \in Q PROVE SameSpace(l, m1, rt[q])
    BY <1>6, SlotsFrame
  <2> QED BY <2>2, <2>3
<1> HIDE DEF m1
<1>8. /\ \A q \in Q, j \in Places :
             Slot(m1, rt[q], j) = IF q = c /\ j = va THEN n ELSE Slot(m, rt[q], j)
      /\ \A q \in Q, j \in VA :
             Writable(m1, rt[q], j) <=>
                 IF q = c /\ j = va THEN w ELSE Writable(m, rt[q], j)
      /\ OthersSame(m, m1, Q, rt, c)
  BY <1>5, <1>7 DEF SameSpace, OthersSame
<1>9. /\ \A p \in Phys \ {n} : m1.rc[p] = m.rc[p] /\ other[p] = other[p]
                               /\ m1.mem[p].junk = m.mem[p].junk
      /\ m1.rc[n] - other[n] = m.rc[n] - other[n] + 1
  <2>1. \A p \in Phys \ {n} : m1.rc[p] = m.rc[p] /\ m1.mem[p].junk = m.mem[p].junk
    BY <1>0, <1>4, <1>6
  <2>2. m1.rc[n] = m.rc[n] + 1 /\ m.rc[n] \in Int
    BY <1>0, <1>2, <1>6
  <2>3. other[n] \in Int
    BY DEF Sound, Setting
  <2> QED BY <2>1, <2>2, <2>3
<1>10. Sound(m1, D, Q, rt, other)
  <2>1. Setting(D, Q, rt, other)
    BY DEF Sound
  <2>2. other[n] # 1
    BY <1>0, ReferredOwn
  <2> QED BY SMTT(60), <1>0, <1>1, <1>6, <1>8, <1>9, <2>1, <2>2, SoundGrow
<1>11. \A p \in Phys : m1.mem[p].data = m.mem[p].data
  BY <1>4, <1>6
<1>12. \A j \in Places : Slot(m1, rt[c], j) = IF j = va THEN n ELSE Slot(m, rt[c], j)
  BY <1>8
<1>13. \A j \in VA : Writable(m1, rt[c], j) <=> IF j = va THEN w ELSE Writable(m, rt[c], j)
  BY <1>8
<1> QED BY <1>6, <1>8, <1>10, <1>11, <1>12, <1>13 DEF m1, l, t

(* try_map() with a page of another space. *)
LEMMA TryMapShared ==
    ASSUME NEW D, NEW m, NEW Q, NEW rt, NEW other, Sound(m, D, Q, rt, other),
           NEW c \in Q, rt[c] # NoPage, NEW va \in VA, Slot(m, rt[c], va) = NoPage,
           NEW n \in Phys, NEW w \in BOOLEAN, ~w,
           NEW r \in Q, Slot(m, rt[r], va) = n, ~Writable(m, rt[r], va)
    PROVE  LET t == TryMap(m, rt[c], va, n, w) IN
           MapOutcome(m, t, Share(t.m, n), D, Q, rt, other, other, c, va, n, w)
<1> DEFINE s == MakeTables(m, rt[c], Half(va))
           l == Link(s.m, s.at, va, n, w)
           m2 == Share(l, n)
           t == TryMap(m, rt[c], va, n, w)
<1>0. /\ Half(va) \in {0, 1} /\ va \in Places \ {RootSlot} /\ Idx(va) = va
      /\ Up(va) = NVA + 1 + Half(va) /\ va \notin Tables /\ Tables \subseteq Places
      /\ VA \subseteq Places /\ VA \cap Tables = {} /\ Up(va) \in Tables
  <2>1. Half(va) \in {0, 1} /\ va \notin Tables /\ Tables \subseteq Places
        /\ VA \subseteq Places /\ VA \cap Tables = {}
    BY MemoryAssumption DEF Half, VA, Tables, Places
  <2>2. Up(va) = NVA + 1 + Half(va)
    BY LeafPlace DEF Up
  <2> QED BY <2>1, <2>2, LeafPlace, SlotIsEntry
<1>1. Reached(m, s, D, Q, rt, other, c, Up(va))
  BY <1>0, MakeTablesSound
<1>2. t = IF s.ok THEN [m |-> l, ok |-> TRUE] ELSE [m |-> s.m, ok |-> FALSE]
  BY DEF TryMap
<1> HIDE DEF s, t
<1>3. /\ s.ok \in BOOLEAN /\ Sound(s.m, D, Q, rt, other) /\ Grows(m, s.m, Q, rt, c)
      /\ s.ok => s.at # NoPage /\ s.at = Slot(s.m, rt[c], Up(va))
  BY <1>1, Zenon DEF Reached
<1>4. CASE ~s.ok
  <2>1. t.ok = FALSE /\ t.m = s.m
    BY <1>2, <1>4
  <2> QED BY <1>3, <2>1 DEF MapOutcome, t
<1>5. CASE s.ok
  <2>1. t.ok = TRUE /\ t.m = l
    BY <1>2, <1>5
  <2>2. r # c
    <3>1. n # NoPage
      BY DEF Phys, NoPage
    <3> QED BY <3>1
  <2>3. Slot(s.m, rt[r], va) = n /\ ~Writable(s.m, rt[r], va) /\ Slot(s.m, rt[c], va) = NoPage
    BY <1>0, <1>3, <2>2 DEF Grows, OthersSame, SameSpace
  <2> DEFINE a == s.m
             b == Share(Link(a, Slot(a, rt[c], Up(va)), Idx(va), n, w), n)
  <2>4. /\ Sound(a, D, Q, rt, other) /\ Slot(a, rt[c], Up(va)) # NoPage
        /\ Slot(a, rt[c], va) = NoPage
        /\ Slot(a, rt[r], va) = n /\ ~Writable(a, rt[r], va)
    BY <1>3, <1>5, <2>3
  <2>5. m2 = b
    BY <1>0, <1>3, <1>5
  <2> HIDE DEF a
  <2>6. /\ Sound(b, D, Q, rt, other)
        /\ OthersSame(a, b, Q, rt, c)
        /\ \A j \in Places : Slot(b, rt[c], j) = IF j = va THEN n ELSE Slot(a, rt[c], j)
        /\ \A j \in VA : Writable(b, rt[c], j) <=>
                             IF j = va THEN w ELSE Writable(a, rt[c], j)
        /\ b.rc = [a.rc EXCEPT ![n] = @ + 1]
        /\ \A p \in Phys : b.mem[p].data = a.mem[p].data
    BY <2>4, LinkShared
  <2> HIDE DEF b
  <2>7. Grows(m, a, Q, rt, c)
    BY <1>3 DEF a
  <2>8. Mapped(m, b, Q, rt, c, va, n, w)
    <3>1. OthersSame(m, b, Q, rt, c)
      BY <2>6, <2>7 DEF Grows, OthersSame, SameSpace
    <3>2. KeepsData(m, b)
      <4>1. m \in Memories(D) /\ a \in Memories(D)
        BY <2>4 DEF Sound
      <4>2. \A x \in Memories(D) : x.rc \in [Phys -> 0..255]
        BY DEF Memories
      <4>3. \A x \in [Phys -> 0..255] : x \in [Phys -> Nat]
        OBVIOUS
      <4> QED BY <2>6, <2>7, <4>1, <4>2, <4>3 DEF Grows, KeepsUsed, KeepsData
    <3>3. ASSUME NEW j \in Tables, Slot(m, rt[c], j) # NoPage
          PROVE  Slot(b, rt[c], j) = Slot(m, rt[c], j)
      BY <1>0, <2>6, <2>7, <3>3 DEF Grows
    <3>4. ASSUME NEW j \in VA
          PROVE  /\ Slot(b, rt[c], j) = IF j = va THEN n ELSE Slot(m, rt[c], j)
                 /\ Writable(b, rt[c], j) <=> IF j = va THEN w ELSE Writable(m, rt[c], j)
      BY <1>0, <2>6, <2>7 DEF Grows
    <3> QED BY <3>1, <3>2, <3>3, <3>4 DEF Mapped
  <2>9. Share(t.m, n) = b
    BY <2>1, <2>5
  <2> QED BY <2>1, <2>6, <2>8, <2>9 DEF MapOutcome, t
<1> QED BY <1>3, <1>4, <1>5

-----------------------------------------------------------------------------
(* The root of a new space. *)
LEMMA AdoptRoot ==
    ASSUME NEW D, NEW m, NEW Q, NEW rt, NEW other, Sound(m, D, Q, rt, other),
           NEW c \in Q, rt[c] = NoPage, NEW n \in Phys, m.rc[n] = 0
    PROVE  LET m1 == Claim(m, n, Zero)
               rt1 == [rt EXCEPT ![c] = n] IN
           /\ Sound(m1, D, Q, rt1, other)
           /\ \A q \in Q : SameSpace(m, m1, rt[q])
           /\ KeepsUsed(m, m1)
           /\ \A va \in VA : Slot(m1, n, va) = NoPage
<1> DEFINE m1 == Claim(m, n, Zero)
           rt1 == [rt EXCEPT ![c] = n]
           other1 == [other EXCEPT ![n] = 1]
<1>0. /\ m \in Memories(D) /\ rt \in [Q -> Phys \cup {NoPage}] /\ n # NoPage
      /\ other \in [Phys -> {0, 1}] /\ 0 \in D /\ NoPage \notin Phys
      /\ RootSlot \in Places /\ RootSlot \notin VA /\ VA \subseteq Places
  BY MemoryAssumption DEF Sound, Setting, Phys, NoPage, RootSlot, Places, VA
<1>1. Zero \in Contents(D) /\ DOMAIN Zero.e = {} /\ ~Zero.junk
  BY <1>0, FixedContents
<1>2. /\ Sound(m1, D, Q, rt, other1)
      /\ \A q \in Q : SameSpace(m, m1, rt[q])
      /\ other[n] = 0
      /\ \A q \in Q, j \in Places : Slot(m, rt[q], j) # n
  BY <1>1, SoundClaim
<1>3. m1.rc[n] = 1 /\ m1.mem[n] = Zero /\ KeepsUsed(m, m1)
  BY <1>0, ClaimFacts
<1>4. /\ other1[n] = 1 /\ \A p \in Phys \ {n} : other1[p] = other[p]
      /\ rt1 \in [Q -> Phys \cup {NoPage}] /\ rt1[c] = n
      /\ \A q \in Q \ {c} : rt1[q] = rt[q]
  BY <1>0
<1> HIDE DEF m1, rt1, other1
<1>5. \A i : Entry(m1, n, i) = NoPage
  BY <1>1, <1>3 DEF Entry
<1>6. \A j \in Places : Slot(m1, n, j) = IF j = RootSlot THEN n ELSE NoPage
  <2> DEFINE T == {j \in Places : Slot(m1, n, j) = IF j = RootSlot THEN n ELSE NoPage}
  <2>1. RootSlot \in T
    BY <1>0, SlotRoot
  <2>2. ASSUME NEW j \in Places \ {RootSlot}, Up(j) \in T PROVE j \in T
    <3>1. Slot(m1, n, j) = Entry(m1, Slot(m1, n, Up(j)), Idx(j))
      BY SlotIsEntry
    <3>2. Slot(m1, n, Up(j)) = IF Up(j) = RootSlot THEN n ELSE NoPage
      BY <2>2
    <3>3. Entry(m1, NoPage, Idx(j)) = NoPage
      BY DEF Entry
    <3> QED BY <1>5, <3>1, <3>2, <3>3
  <2>3. \A j \in Places : j \in T
    <3> HIDE DEF T
    <3> QED BY <2>1, <2>2, PlaceInduction
  <2> QED BY <2>3
<1>7. /\ \A j \in Places : Slot(m1, rt[c], j) = NoPage
      /\ \A va \in VA : ~Writable(m1, rt[c], va)
  BY NoSpace
<1>8. ASSUME NEW q \in Q, NEW j \in Places
      PROVE  Slot(m1, rt1[q], j) = IF q = c /\ j = RootSlot THEN n ELSE Slot(m1, rt[q], j)
  BY <1>4, <1>6, <1>7
<1>9. ASSUME NEW q \in Q, NEW va \in VA
      PROVE  Writable(m1, rt1[q], va) <=>
                 IF q = c /\ va = RootSlot THEN FALSE ELSE Writable(m1, rt[q], va)
  <2>1. CASE q = c
    <3>1. Lookup(m1, n, va) = NoPage
      BY <1>0, <1>6, LeafPlace
    <3> QED BY <1>0, <1>4, <1>7, <2>1, <3>1 DEF Writable
  <2>2. CASE q # c
    BY <1>4, <2>2
  <2> QED BY <2>1, <2>2
<1>10. Sound(m1, D, Q, rt1, other)
  <2>1. Setting(D, Q, rt1, other)
    BY <1>0, <1>4 DEF Sound, Setting
  <2>2. PICK w \in BOOLEAN : w = FALSE
    OBVIOUS
  <2>3. /\ m1 \in Memories(D)
        /\ \A p \in Phys \ {n} : m1.rc[p] = m1.rc[p] /\ other[p] = other1[p]
                                 /\ m1.mem[p].junk = m1.mem[p].junk
        /\ m1.rc[n] - other[n] = m1.rc[n] - other1[n] + 1
        /\ ~m1.mem[n].junk
        /\ other[n] # 1
    BY <1>1, <1>2, <1>3, <1>4 DEF Sound
  <2>4. \A q \in Q, j \in Places : Slot(m1, rt[q], j) # n
    BY <1>2 DEF SameSpace
  <2>5. \A q \in Q, va \in VA :
            Writable(m1, rt1[q], va) <=>
                IF q = c /\ va = RootSlot THEN w ELSE Writable(m1, rt[q], va)
    BY <1>9, <2>2
  <2>6. Slot(m1, rt[c], RootSlot) = NoPage
    BY <1>0, <1>7
  <2> QED BY SMTT(60), <1>0, <1>2, <1>3, <1>8, <2>1, <2>3, <2>4, <2>5, <2>6, SoundGrow
<1>11. \A va \in VA : Slot(m1, n, va) = NoPage
  BY <1>0, <1>6
<1> QED BY <1>2, <1>3, <1>10, <1>11 DEF m1, rt1

-----------------------------------------------------------------------------
(* kfree() *)

(* What kfree() of a page in use does to counts and contents. *)
LEMMA KfreeEffect ==
    ASSUME NEW D, 0 \in D, NEW m \in Memories(D), NEW p \in Phys, m.rc[p] > 0
    PROVE  /\ Kfree(m, p) \in Memories(D)
           /\ Kfree(m, p).rc = [m.rc EXCEPT ![p] = @ - 1]
           /\ \A q \in Phys : Kfree(m, p).rc[q] > 0 => Kfree(m, p).mem[q] = m.mem[q]
           /\ \A q \in Phys \ {p} : Kfree(m, p).mem[q] = m.mem[q]
<1> DEFINE m1 == Kfree(m, p)
<1>0. /\ p # NoPage /\ Junk \in Contents(D) /\ m.rc \in [Phys -> 0..255]
      /\ m.mem \in [Phys -> Contents(D)]
  BY SMTT(60), FixedContents DEF Phys, NoPage, Memories
<1>1. (m.rc[p] - 1) % 256 = m.rc[p] - 1 /\ m.rc[p] - 1 \in 0..255
  <2>1. m.rc[p] \in 1..255
    BY <1>0
  <2> QED BY <2>1
<1>2. m1 = [rc  |-> [m.rc EXCEPT ![p] = m.rc[p] - 1],
            mem |-> IF m.rc[p] - 1 = 0 THEN [m.mem EXCEPT ![p] = Junk] ELSE m.mem]
  BY SMTT(60), <1>0, <1>1 DEF Kfree
<1> HIDE DEF m1
<1>3. /\ m1.rc = [m.rc EXCEPT ![p] = m.rc[p] - 1]
      /\ m1.mem = IF m.rc[p] - 1 = 0 THEN [m.mem EXCEPT ![p] = Junk] ELSE m.mem
  BY <1>2
<1>4. m1 \in Memories(D)
  <2>1. m1.rc \in [Phys -> 0..255] /\ m1.mem \in [Phys -> Contents(D)]
    BY <1>0, <1>1, <1>3
  <2>2. m1 = [rc |-> m1.rc, mem |-> m1.mem]
    BY <1>2
  <2> QED BY <2>1, <2>2 DEF Memories
<1>5. \A q \in Phys : m1.rc[q] > 0 => m1.mem[q] = m.mem[q]
  BY <1>0, <1>3
<1>6. \A q \in Phys \ {p} : m1.mem[q] = m.mem[q]
  BY <1>0, <1>3
<1> QED BY <1>3, <1>4, <1>5, <1>6 DEF m1

(* Concatenation *)
LEMMA Concatenated ==
    ASSUME NEW R, NEW s \in Seq(R), NEW t \in Seq(R)
    PROVE  /\ s \o t \in Seq(R)
           /\ Len(s \o t) = Len(s) + Len(t)
           /\ \A j \in 1..Len(s)+Len(t) :
                 (s \o t)[j] = IF j <= Len(s) THEN s[j] ELSE t[j - Len(s)]
OBVIOUS

(* exit_proc() frees what a space refers to, in the order of the places. *)
LEMMA FreedPages ==
    ASSUME NEW D, NEW m \in Memories(D), NEW root \in Phys
    PROVE  LET pages == UserPages(m, root) \o TablePages(m, root) \o <<root>> IN
           /\ Len(pages) = NVA + 5
           /\ \A j \in Places : pages[j] = Slot(m, root, j)
<1> DEFINE R == Phys \cup {NoPage}
           u == UserPages(m, root)
           t == TablePages(m, root)
<1>0. \A j \in Places : Slot(m, root, j) \in R
  BY SlotType
<1>1. u \in Seq(R) /\ Len(u) = NVA /\ \A j \in VA : u[j] = Slot(m, root, j)
  <2>1. \A j \in VA : Lookup(m, root, j) = Slot(m, root, j) /\ j \in Places
    BY LeafPlace
  <2>2. u \in [1..NVA -> R] /\ \A j \in VA : u[j] = Slot(m, root, j)
    BY <1>0, <2>1 DEF UserPages, VA
  <2> QED BY <2>2, MemoryAssumption
<1>2. t \in Seq(R) /\ Len(t) = 4
      /\ t[1] = Slot(m, root, NVA + 1) /\ t[2] = Slot(m, root, NVA + 2)
      /\ t[3] = Slot(m, root, NVA + 3) /\ t[4] = Slot(m, root, NVA + 4)
  <2>1. /\ Slot(m, root, NVA + 1) = Level1(m, root, 0) /\ NVA + 1 \in Places
        /\ Slot(m, root, NVA + 2) = Level1(m, root, 1) /\ NVA + 2 \in Places
        /\ Slot(m, root, NVA + 3) = Level2(m, root) /\ NVA + 3 \in Places
        /\ Slot(m, root, NVA + 4) = Level3(m, root) /\ NVA + 4 \in Places
    BY MemoryAssumption DEF Slot, Places
  <2> HIDE DEF R
  <2> QED BY <1>0, <2>1 DEF TablePages
<1>3. Slot(m, root, NVA + 5) = root
  BY SlotRoot DEF RootSlot
<1>r. <<root>> \in Seq(R) /\ Len(<<root>>) = 1 /\ <<root>>[1] = root
  OBVIOUS
<1> HIDE DEF u, t, R
<1>4. u \o t \in Seq(R) /\ Len(u \o t) = NVA + 4
      /\ \A j \in 1..NVA+4 : (u \o t)[j] = IF j <= NVA THEN u[j] ELSE t[j - NVA]
  <2>1. /\ u \o t \in Seq(R) /\ Len(u \o t) = Len(u) + Len(t)
        /\ \A j \in 1..Len(u)+Len(t) :
              (u \o t)[j] = IF j <= Len(u) THEN u[j] ELSE t[j - Len(u)]
    BY Zenon, <1>1, <1>2, Concatenated
  <2> QED BY <1>1, <1>2, <2>1
<1> DEFINE ut == u \o t
           pages == ut \o <<root>>
<1> HIDE DEF ut
<1>5. Len(pages) = NVA + 5
      /\ \A j \in 1..NVA+5 : pages[j] = IF j <= NVA + 4 THEN ut[j] ELSE root
  <2>1. ut \in Seq(R) /\ Len(ut) = NVA + 4
    BY <1>4 DEF ut
  <2>2. /\ Len(pages) = NVA + 4 + 1
        /\ \A j \in 1..NVA+4+1 :
              pages[j] = IF j <= NVA + 4 THEN ut[j] ELSE <<root>>[j - (NVA + 4)]
    BY <1>r, <2>1, Concatenated
  <2>3. NVA + 4 + 1 = NVA + 5
    BY MemoryAssumption
  <2>4. \A j \in 1..NVA+5 : j <= NVA + 4 \/ j - (NVA + 4) = 1
    BY MemoryAssumption
  <2> HIDE DEF pages
  <2> QED BY <1>r, <2>2, <2>3, <2>4
<1> HIDE DEF pages
<1>6. ASSUME NEW j \in Places PROVE pages[j] = Slot(m, root, j)
  <2>0. j \in 1..NVA+5 /\ NVA \in Nat
    BY MemoryAssumption DEF Places
  <2>1. CASE j <= NVA
    BY SMTT(60), <1>1, <1>4, <1>5, <2>0, <2>1 DEF ut, VA
  <2>2. CASE j > NVA /\ j <= NVA + 4
    <3>1. pages[j] = t[j - NVA]
      BY SMTT(60), <1>4, <1>5, <2>0, <2>2 DEF ut
    <3>2. j = NVA + 1 \/ j = NVA + 2 \/ j = NVA + 3 \/ j = NVA + 4
      BY <2>0, <2>2
    <3>3. /\ j = NVA + 1 => j - NVA = 1
          /\ j = NVA + 2 => j - NVA = 2
          /\ j = NVA + 3 => j - NVA = 3
          /\ j = NVA + 4 => j - NVA = 4
      BY <2>0
    <3> QED BY <1>2, <3>1, <3>2, <3>3
  <2>3. CASE j = NVA + 5
    BY <1>3, <1>5, <2>0, <2>3
  <2> QED BY <2>0, <2>1, <2>2, <2>3
<1> QED BY <1>5, <1>6 DEF pages, ut, u, t

-----------------------------------------------------------------------------
(* Taking an address space down. *)

(* The references to p after c's first k places are given up. *)
Left(m, Q, rt, c, k, p) ==
    {x \in Refs(m, Q, rt, p) : ~(x[1] = c /\ x[2] <= k)}

(* Giving up one place more takes away one reference to the page there. *)
LEMMA LeftSteps ==
    ASSUME NEW m, NEW Q, IsFiniteSet(Q), NEW rt, NEW c \in Q, NEW k \in Places, NEW p
    PROVE  /\ IsFiniteSet(Left(m, Q, rt, c, k - 1, p))
           /\ Cardinality(Left(m, Q, rt, c, k - 1, p)) \in Nat
           /\ Slot(m, rt[c], k) # p =>
                 Left(m, Q, rt, c, k, p) = Left(m, Q, rt, c, k - 1, p)
           /\ Slot(m, rt[c], k) = p =>
                 /\ Cardinality(Left(m, Q, rt, c, k - 1, p)) > 0
                 /\ Cardinality(Left(m, Q, rt, c, k, p)) =
                        Cardinality(Left(m, Q, rt, c, k - 1, p)) - 1
<1> DEFINE A == Left(m, Q, rt, c, k - 1, p)
           B == Left(m, Q, rt, c, k, p)
<1>0. k \in Nat /\ \A j \in Places : j \in Nat
  BY MemoryAssumption DEF Places
<1>1. IsFiniteSet(A) /\ Cardinality(A) \in Nat
  <2>1. A \subseteq Refs(m, Q, rt, p)
    BY DEF Left
  <2>2. IsFiniteSet(Refs(m, Q, rt, p))
    BY RefsFinite
  <2> HIDE DEF A
  <2> QED BY <2>1, <2>2, FS_Subset, FS_CardinalityType
<1>2. \A x \in Refs(m, Q, rt, p) : x \in Q \X Places /\ x = <<x[1], x[2]>>
                                    /\ Slot(m, rt[x[1]], x[2]) = p /\ x[2] \in Nat
  BY <1>0 DEF Refs
<1>3. \A x \in Refs(m, Q, rt, p) : x \in B <=> x \in A /\ x # <<c, k>>
  <2>1. ASSUME NEW x \in Refs(m, Q, rt, p) PROVE x \in B <=> x \in A /\ x # <<c, k>>
    <3>1. PICK q \in Q, j \in Places : x = <<q, j>>
      BY DEF Refs
    <3>2. x[1] = q /\ x[2] = j /\ j \in Nat /\ (x = <<c, k>> <=> q = c /\ j = k)
      BY <1>0, <3>1
    <3>3. j <= k <=> j <= k - 1 \/ j = k
      BY <1>0, <3>2
    <3> QED BY <3>2, <3>3 DEF Left
  <2> QED BY <2>1
<1>4. A \subseteq Refs(m, Q, rt, p) /\ B \subseteq Refs(m, Q, rt, p)
  BY DEF Left
<1>5. CASE Slot(m, rt[c], k) # p
  <2>1. <<c, k>> \notin Refs(m, Q, rt, p)
    BY <1>5 DEF Refs
  <2>2. A = B
    BY <1>3, <1>4, <2>1
  <2> QED BY <1>1, <1>5, <2>2
<1>6. CASE Slot(m, rt[c], k) = p
  <2>1. <<c, k>> \in A
    <3>1. <<c, k>> \in Refs(m, Q, rt, p)
      BY <1>6, RefMember
    <3>2. ~(k <= k - 1)
      BY <1>0
    <3> QED BY <3>1, <3>2 DEF Left
  <2>2. B = A \ {<<c, k>>}
    BY <1>3, <1>4
  <2> HIDE DEF A, B
  <2>3. Cardinality(B) = Cardinality(A) - 1
    BY <1>1, <2>1, <2>2, FS_RemoveElement
  <2>4. Cardinality(A) # 0
    BY <1>1, <2>1, FS_EmptySet
  <2> QED BY <1>1, <1>6, <2>3, <2>4 DEF A, B
<1> QED BY <1>5, <1>6

(* What FreeSpace leaves. *)
LEMMA FreeSpaceLeaves ==
    ASSUME NEW D, NEW m, NEW Q, NEW rt, NEW other, Sound(m, D, Q, rt, other),
           NEW c \in Q, rt[c] # NoPage
    PROVE  LET m1 == FreeSpace(m, rt[c]) IN
           /\ m1 \in Memories(D)
           /\ \A p \in Phys :
                 /\ m1.rc[p] = Cardinality(Left(m, Q, rt, c, NVA + 5, p)) + other[p]
                 /\ m1.rc[p] > 0 => m1.mem[p] = m.mem[p]
<1> DEFINE root == rt[c]
           pages == UserPages(m, root) \o TablePages(m, root) \o <<root>>
<1>0. /\ m \in Memories(D) /\ 0 \in D /\ IsFiniteSet(Q) /\ root \in Phys
      /\ other \in [Phys -> {0, 1}] /\ NoPage \notin Phys
      /\ \A j \in Places : Slot(m, root, j) \in Phys \cup {NoPage}
  <2>1. m \in Memories(D) /\ 0 \in D /\ IsFiniteSet(Q) /\ root \in Phys
        /\ other \in [Phys -> {0, 1}] /\ NoPage \notin Phys
    BY DEF Sound, Setting, NoPage, Phys
  <2> HIDE DEF root
  <2> QED BY <2>1, SlotType
<1>1. Len(pages) = NVA + 5 /\ \A j \in Places : pages[j] = Slot(m, root, j)
  <2> HIDE DEF root
  <2> QED BY <1>0, FreedPages
<1>2. NVA + 5 \in Nat /\ Places = 1..NVA+5
  BY MemoryAssumption DEF Places
<1>3. FreeSpace(m, root) = FreeAll(m, pages)
  BY DEF FreeSpace
<1> HIDE DEF pages
<1>4. PICK f : /\ f[0] = m
               /\ \A n \in 1..Len(pages) : f[n] = Kfree(f[n-1], pages[n])
               /\ FreeAll(m, pages) = f[Len(pages)]
  <2>1. Len(pages) \in Nat
    BY <1>1, <1>2
  <2>2. ASSUME NEW pg, Len(pg) \in Nat
        PROVE  \E f : /\ f[0] = m
                      /\ \A n \in 1..Len(pg) : f[n] = Kfree(f[n-1], pg[n])
                      /\ FreeAll(m, pg) = f[Len(pg)]
    BY <2>2, FreeAllLoop
  <2> QED BY <2>1, <2>2
<1>5. /\ \A n \in Places : f[n] = Kfree(f[n-1], Slot(m, root, n))
      /\ FreeSpace(m, root) = f[NVA + 5]
  BY <1>1, <1>2, <1>3, <1>4
<1> DEFINE L(k, p) == Cardinality(Left(m, Q, rt, c, k, p))
           T == {k \in 0..NVA+5 :
                    /\ f[k] \in Memories(D)
                    /\ \A p \in Phys : /\ f[k].rc[p] = L(k, p) + other[p]
                                       /\ f[k].rc[p] > 0 => f[k].mem[p] = m.mem[p]}
<1>6. 0 \in T
  <2>1. ASSUME NEW p \in Phys PROVE m.rc[p] = L(0, p) + other[p]
    <3>1. \A x \in Refs(m, Q, rt, p) : x[2] \in Nat \ {0}
      BY MemoryAssumption DEF Refs, Places
    <3>2. Left(m, Q, rt, c, 0, p) = Refs(m, Q, rt, p)
      BY <3>1 DEF Left
    <3> QED BY <3>2 DEF Sound, CountsRight
  <2> QED BY <1>0, <1>2, <1>4, <2>1
<1>7. ASSUME NEW k \in Places, k - 1 \in T PROVE k \in T
  <2> DEFINE x == Slot(m, root, k)
             a == f[k-1]
             b == f[k]
  <2>1. /\ a \in Memories(D)
        /\ \A p \in Phys : /\ a.rc[p] = L(k-1, p) + other[p]
                           /\ a.rc[p] > 0 => a.mem[p] = m.mem[p]
    BY <1>7
  <2>2. b = Kfree(a, x) /\ x \in Phys \cup {NoPage} /\ k \in 0..NVA+5
    BY <1>0, <1>2, <1>5
  <2>3. \A p : /\ L(k-1, p) \in Nat
               /\ x # p => L(k, p) = L(k-1, p)
               /\ x = p => L(k-1, p) > 0 /\ L(k, p) = L(k-1, p) - 1
    BY <1>0, LeftSteps
  <2>4. \A p \in Phys : other[p] \in {0, 1}
    BY <1>0
  <2> HIDE DEF x, a, b, L
  <2>5. CASE x = NoPage
    <3>1. b = a
      BY <2>2, <2>5 DEF Kfree
    <3>2. \A p \in Phys : L(k, p) = L(k-1, p)
      BY <1>0, <2>3, <2>5
    <3>3. /\ b \in Memories(D)
          /\ \A p \in Phys : /\ b.rc[p] = L(k, p) + other[p]
                             /\ b.rc[p] > 0 => b.mem[p] = m.mem[p]
      BY <2>1, <3>1, <3>2
    <3> QED BY <2>2, <3>3 DEF b
  <2>6. CASE x \in Phys
    <3>1. a.rc[x] > 0 /\ a.rc[x] \in Int
      <4>1. L(k-1, x) \in Nat /\ L(k-1, x) > 0 /\ other[x] \in {0, 1}
        BY <2>3, <2>4, <2>6
      <4>2. a.rc[x] = L(k-1, x) + other[x]
        BY <2>1, <2>6
      <4> QED BY <4>1, <4>2
    <3>2. /\ b \in Memories(D)
          /\ b.rc = [a.rc EXCEPT ![x] = @ - 1]
          /\ \A q \in Phys : b.rc[q] > 0 => b.mem[q] = a.mem[q]
      BY SMTT(60), <1>0, <2>1, <2>2, <2>6, <3>1, KfreeEffect
    <3>3. ASSUME NEW p \in Phys
          PROVE  b.rc[p] = L(k, p) + other[p] /\ (b.rc[p] > 0 => b.mem[p] = m.mem[p])
      <4>0. a.rc \in [Phys -> 0..255]
        BY <2>1 DEF Memories
      <4>1. CASE p # x
        <5>1. b.rc[p] = a.rc[p] /\ L(k, p) = L(k-1, p)
          BY <2>3, <3>2, <4>0, <4>1
        <5> QED BY <2>1, <3>2, <5>1
      <4>2. CASE p = x
        <5>1. b.rc[p] = a.rc[p] - 1 /\ L(k, p) = L(k-1, p) - 1
          BY <2>3, <2>6, <3>2, <4>0, <4>2
        <5>2. a.rc[p] = L(k-1, p) + other[p] /\ L(k-1, p) \in Nat /\ other[p] \in {0, 1}
          BY <2>1, <2>3, <2>4
        <5>3. b.rc[p] = L(k, p) + other[p]
          BY <5>1, <5>2
        <5>4. a.mem[p] = m.mem[p]
          BY <2>1, <3>1, <4>2
        <5> QED BY <3>2, <5>3, <5>4
      <4> QED BY <4>1, <4>2
    <3> QED BY <2>2, <3>2, <3>3 DEF b
  <2> QED BY <2>2, <2>5, <2>6
<1>8. \A k \in 0..NVA+5 : k \in T
  <2>1. \A k \in 1..NVA+5 : k - 1 \in T => k \in T
    BY <1>2, <1>7
  <2> HIDE DEF T
  <2> QED BY <1>2, <1>6, <2>1, LoopInduction
<1>9. NVA + 5 \in T
  BY <1>2, <1>8
<1> QED BY <1>5, <1>9

(* FreeSpace gives back exactly what c's space referred to. *)
LEMMA FreeSpaceSound ==
    ASSUME NEW D, NEW m, NEW Q, NEW rt, NEW other, Sound(m, D, Q, rt, other),
           NEW c \in Q, rt[c] # NoPage
    PROVE  LET m1 == FreeSpace(m, rt[c]) IN
           /\ Sound(m1, D, Q, [rt EXCEPT ![c] = NoPage], other)
           /\ OthersSame(m, m1, Q, rt, c)
           /\ \A p \in Phys : m1.rc[p] > 0 => m1.mem[p] = m.mem[p]
           /\ \A p \in Phys : m1.rc[p] <= m.rc[p]
<1> DEFINE m1 == FreeSpace(m, rt[c])
           rt1 == [rt EXCEPT ![c] = NoPage]
           L(p) == Left(m, Q, rt, c, NVA + 5, p)
<1>0. /\ m \in Memories(D) /\ 0 \in D /\ IsFiniteSet(Q) /\ NoPage \notin Phys
      /\ rt \in [Q -> Phys \cup {NoPage}] /\ other \in [Phys -> {0, 1}]
      /\ Tables \subseteq Places /\ VA \subseteq Places
      /\ \A j \in Places : j \in Nat /\ j <= NVA + 5
  BY MemoryAssumption DEF Sound, Setting, NoPage, Phys, Tables, Places, VA
<1>1. /\ m1 \in Memories(D)
      /\ \A p \in Phys : /\ m1.rc[p] = Cardinality(L(p)) + other[p]
                         /\ m1.rc[p] > 0 => m1.mem[p] = m.mem[p]
  BY FreeSpaceLeaves
<1>2. /\ rt1 \in [Q -> Phys \cup {NoPage}] /\ rt1[c] = NoPage
      /\ \A q \in Q \ {c} : rt1[q] = rt[q]
  BY <1>0
<1> HIDE DEF m1, rt1
<1>3. ASSUME NEW p \in Phys
      PROVE  /\ IsFiniteSet(L(p)) /\ Cardinality(L(p)) \in Nat
             /\ Cardinality(L(p)) <= Cardinality(Refs(m, Q, rt, p))
             /\ m1.rc[p] <= m.rc[p] /\ m1.rc[p] \in Nat /\ m.rc[p] \in Nat
  <2>1. L(p) \subseteq Refs(m, Q, rt, p)
    BY DEF Left
  <2>2. IsFiniteSet(Refs(m, Q, rt, p)) /\ Cardinality(Refs(m, Q, rt, p)) \in Nat
    BY <1>0, RefsFinite
  <2> HIDE DEF L
  <2>3. /\ IsFiniteSet(L(p)) /\ Cardinality(L(p)) \in Nat
        /\ Cardinality(L(p)) <= Cardinality(Refs(m, Q, rt, p))
    BY <2>1, <2>2, FS_Subset, FS_CardinalityType
  <2>4. m.rc[p] = Cardinality(Refs(m, Q, rt, p)) + other[p] /\ other[p] \in {0, 1}
    BY <1>0 DEF Sound, CountsRight
  <2>5. m1.rc[p] = Cardinality(L(p)) + other[p]
    BY <1>1
  <2> QED BY <2>2, <2>3, <2>4, <2>5
<1>4. ASSUME NEW q \in Q \ {c}, NEW j \in Places, Slot(m, rt[q], j) # NoPage
      PROVE  /\ Slot(m, rt[q], j) \in Phys
             /\ m1.rc[Slot(m, rt[q], j)] > 0
             /\ m1.mem[Slot(m, rt[q], j)] = m.mem[Slot(m, rt[q], j)]
  <2> DEFINE p == Slot(m, rt[q], j)
  <2>1. p \in Phys
    BY <1>0, <1>4, SlotType
  <2>2. <<q, j>> \in L(p)
    <3>1. <<q, j>> \in Refs(m, Q, rt, p)
      BY RefMember
    <3> QED BY <3>1 DEF Left
  <2> HIDE DEF p, L
  <2>3. Cardinality(L(p)) # 0
    BY <1>3, <2>1, <2>2, FS_EmptySet
  <2>4. m1.rc[p] = Cardinality(L(p)) + other[p] /\ other[p] \in {0, 1}
    BY <1>0, <1>1, <2>1 DEF L
  <2>5. m1.rc[p] > 0
    BY <1>3, <2>1, <2>3, <2>4
  <2>6. m1.mem[p] = m.mem[p]
    BY <1>1, <2>1, <2>5
  <2> QED BY <2>1, <2>5, <2>6 DEF p
<1>5. OthersSame(m, m1, Q, rt, c)
  <2>1. ASSUME NEW q \in Q \ {c} PROVE SameSpace(m, m1, rt[q])
    <3>1. \A j \in Tables : Slot(m, rt[q], j) # NoPage =>
              m1.mem[Slot(m, rt[q], j)].e = m.mem[Slot(m, rt[q], j)].e
      BY <1>0, <1>4
    <3> QED BY <3>1, SlotsFrame
  <2> QED BY <2>1 DEF OthersSame
<1>6. /\ \A q \in Q \ {c}, j \in Places : Slot(m1, rt1[q], j) = Slot(m, rt[q], j)
      /\ \A q \in Q \ {c}, va \in VA : Writable(m1, rt1[q], va) <=> Writable(m, rt[q], va)
      /\ \A j \in Places : Slot(m1, rt1[c], j) = NoPage
      /\ \A va \in VA : ~Writable(m1, rt1[c], va)
  BY <1>2, <1>5, NoSpace DEF OthersSame, SameSpace
<1>7. ASSUME NEW p \in Phys PROVE Refs(m1, Q, rt1, p) = L(p)
  <2>1. ASSUME NEW q \in Q, NEW j \in Places
        PROVE  <<q, j>> \in Refs(m1, Q, rt1, p) <=> <<q, j>> \in L(p)
    <3>1. CASE q = c
      BY <1>0, <1>6, <3>1 DEF Refs, Left
    <3>2. CASE q # c
      BY <1>6, <3>2 DEF Refs, Left
    <3> QED BY <3>1, <3>2
  <2>2. Refs(m1, Q, rt1, p) \subseteq Q \X Places /\ L(p) \subseteq Q \X Places
    BY DEF Refs, Left
  <2> HIDE DEF L
  <2> QED BY <2>1, <2>2
<1>8. CountsRight(m1, Q, rt1, other)
  BY <1>1, <1>7 DEF CountsRight
<1>9. Setting(D, Q, rt1, other)
  BY <1>2 DEF Sound, Setting
<1>10. TablesOwn(m1, Q, rt1)
  <2>1. ASSUME NEW q \in Q, NEW j \in Tables, Slot(m1, rt1[q], j) # NoPage
        PROVE  m1.rc[Slot(m1, rt1[q], j)] = 1 /\ ~m1.mem[Slot(m1, rt1[q], j)].junk
    <3> DEFINE p == Slot(m, rt[q], j)
    <3>1. q # c /\ j \in Places /\ Slot(m1, rt1[q], j) = p
      BY <1>0, <1>6, <2>1
    <3>2. p \in Phys /\ m1.rc[p] > 0 /\ m1.mem[p] = m.mem[p]
      BY <1>4, <2>1, <3>1
    <3>3. m.rc[p] = 1 /\ ~m.mem[p].junk
      BY <2>1, <3>1 DEF Sound, TablesOwn
    <3> HIDE DEF p
    <3>4. m1.rc[p] = 1
      BY <1>3, <3>2, <3>3
    <3> QED BY <3>1, <3>2, <3>3, <3>4
  <2> QED BY <2>1 DEF TablesOwn
<1>11. WritableOwn(m1, Q, rt1)
  <2>1. ASSUME NEW q \in Q, NEW va \in VA, Writable(m1, rt1[q], va)
        PROVE  m1.rc[Lookup(m1, rt1[q], va)] = 1
    <3> DEFINE p == Slot(m, rt[q], va)
    <3>1. q # c /\ va \in Places /\ Slot(m1, rt1[q], va) = p /\ Writable(m, rt[q], va)
      BY <1>0, <1>6, <2>1
    <3>2. p # NoPage /\ Lookup(m, rt[q], va) = p /\ Lookup(m1, rt1[q], va) = p
      BY <3>1, LeafPlace DEF Writable
    <3>3. p \in Phys /\ m1.rc[p] > 0
      BY <1>4, <3>1, <3>2
    <3>4. m.rc[p] = 1
      BY <3>1, <3>2 DEF Sound, WritableOwn
    <3> HIDE DEF p
    <3>5. m1.rc[p] = 1
      BY <1>3, <3>3, <3>4
    <3> QED BY <3>2, <3>5
  <2> QED BY <2>1 DEF WritableOwn
<1>12. SharedAlike(m1, Q, rt1)
  <2>1. \A q \in Q, i \in VA : /\ Lookup(m1, rt1[q], i) # NoPage =>
                                    Lookup(m1, rt1[q], i) = Lookup(m, rt[q], i)
    BY <1>0, <1>6, LeafPlace
  <2>2. SharedAlike(m, Q, rt)
    BY DEF Sound
  <2> QED BY <2>1, <2>2 DEF SharedAlike
<1>13. OthersOwn(m1, other)
  <2>1. ASSUME NEW p \in Phys, other[p] = 1 PROVE m1.rc[p] = 1
    <3>1. m.rc[p] = 1
      BY <2>1 DEF Sound, OthersOwn
    <3>2. m1.rc[p] = Cardinality(L(p)) + other[p]
      BY <1>1
    <3> HIDE DEF L
    <3> QED BY <1>3, <2>1, <3>1, <3>2
  <2> QED BY <2>1 DEF OthersOwn
<1>14. Sound(m1, D, Q, rt1, other)
  BY <1>1, <1>8, <1>9, <1>10, <1>11, <1>12, <1>13 DEF Sound
<1> QED BY <1>1, <1>3, <1>5, <1>14 DEF m1, rt1

(* A page that was claimed and is in no address space is freed. *)
LEMMA FreeClaimed ==
    ASSUME NEW D, NEW m, NEW Q, NEW rt, NEW other, Sound(m, D, Q, rt, other),
           NEW n \in Phys, other[n] = 1, m.rc[n] = 1
    PROVE  LET m1 == Kfree(m, n) IN
           /\ Sound(m1, D, Q, rt, [other EXCEPT ![n] = 0])
           /\ \A q \in Q : SameSpace(m, m1, rt[q])
<1> DEFINE m1 == Kfree(m, n)
           other1 == [other EXCEPT ![n] = 0]
<1>0. /\ m \in Memories(D) /\ 0 \in D /\ IsFiniteSet(Q) /\ NoPage \notin Phys
      /\ rt \in [Q -> Phys \cup {NoPage}] /\ other \in [Phys -> {0, 1}]
      /\ m.rc \in [Phys -> 0..255] /\ Tables \subseteq Places
      /\ other1 \in [Phys -> {0, 1}] /\ other1[n] = 0
      /\ \A p \in Phys \ {n} : other1[p] = other[p]
  <2>1. m \in Memories(D) /\ Setting(D, Q, rt, other)
    BY DEF Sound
  <2>2. other \in [Phys -> {0, 1}]
    BY <2>1 DEF Setting
  <2>3. /\ other1 \in [Phys -> {0, 1}] /\ other1[n] = 0
        /\ \A p \in Phys \ {n} : other1[p] = other[p]
    BY <2>2
  <2> HIDE DEF other1
  <2>4. m.rc \in [Phys -> 0..255]
    BY <2>1 DEF Memories
  <2> QED BY SMTT(60), <2>1, <2>3, <2>4, MemoryAssumption DEF Setting, NoPage, Phys, Tables, Places
<1>1. /\ m1 \in Memories(D)
      /\ m1.rc = [m.rc EXCEPT ![n] = @ - 1]
      /\ \A p \in Phys \ {n} : m1.mem[p] = m.mem[p]
  BY <1>0, KfreeEffect
<1> HIDE DEF m1, other1
<1>2. \A q \in Q, j \in Places : Slot(m, rt[q], j) # n
  <2>1. Refs(m, Q, rt, n) = {}
    <3>1. m.rc[n] = Cardinality(Refs(m, Q, rt, n)) + other[n]
          /\ IsFiniteSet(Refs(m, Q, rt, n)) /\ Cardinality(Refs(m, Q, rt, n)) \in Nat
      BY <1>0, RefsFinite DEF Sound, CountsRight
    <3>2. Cardinality(Refs(m, Q, rt, n)) = 0
      BY <3>1
    <3> QED BY <3>1, <3>2, FS_EmptySet
  <2> QED BY <2>1, RefMember
<1>3. \A q \in Q, j \in Places : Slot(m, rt[q], j) # NoPage =>
          Slot(m, rt[q], j) \in Phys \ {n}
  BY <1>0, <1>2, SlotType
<1>4. \A q \in Q : SameSpace(m, m1, rt[q])
  <2>1. ASSUME NEW q \in Q PROVE SameSpace(m, m1, rt[q])
    <3>1. \A j \in Tables : Slot(m, rt[q], j) # NoPage =>
              m1.mem[Slot(m, rt[q], j)].e = m.mem[Slot(m, rt[q], j)].e
      BY <1>0, <1>1, <1>3
    <3> QED BY <3>1, SlotsFrame
  <2> QED BY <2>1
<1>5. \A q \in Q, j \in Places : Slot(m1, rt[q], j) = Slot(m, rt[q], j)
  BY <1>4 DEF SameSpace
<1>6. CountsRight(m1, Q, rt, other1)
  <2>1. ASSUME NEW p \in Phys
        PROVE  m1.rc[p] = Cardinality(Refs(m1, Q, rt, p)) + other1[p]
    <3>1. Refs(m1, Q, rt, p) = Refs(m, Q, rt, p)
      BY <1>5 DEF Refs
    <3>2. m.rc[p] = Cardinality(Refs(m, Q, rt, p)) + other[p]
          /\ Cardinality(Refs(m, Q, rt, p)) \in Nat
      BY <1>0, RefsFinite DEF Sound, CountsRight
    <3>3. CASE p = n
      <4>1. m1.rc[n] = 0
        BY <1>0, <1>1
      <4>2. Cardinality(Refs(m, Q, rt, n)) = 0
        BY <3>2, <3>3
      <4> QED BY <1>0, <3>1, <3>3, <4>1, <4>2
    <3>4. CASE p # n
      BY <1>0, <1>1, <3>1, <3>2, <3>4
    <3> QED BY <3>3, <3>4
  <2> QED BY <2>1 DEF CountsRight
<1>7. TablesOwn(m1, Q, rt)
  <2>1. ASSUME NEW q \in Q, NEW j \in Tables, Slot(m1, rt[q], j) # NoPage
        PROVE  m1.rc[Slot(m1, rt[q], j)] = 1 /\ ~m1.mem[Slot(m1, rt[q], j)].junk
    <3>1. j \in Places /\ Slot(m1, rt[q], j) = Slot(m, rt[q], j)
      BY <1>0, <1>5
    <3>2. Slot(m, rt[q], j) \in Phys \ {n}
      BY <1>3, <2>1, <3>1
    <3>3. m.rc[Slot(m, rt[q], j)] = 1 /\ ~m.mem[Slot(m, rt[q], j)].junk
      BY <2>1, <3>1 DEF Sound, TablesOwn
    <3> QED BY <1>0, <1>1, <3>1, <3>2, <3>3
  <2> QED BY <2>1 DEF TablesOwn
<1>8. WritableOwn(m1, Q, rt)
  <2>1. ASSUME NEW q \in Q, NEW va \in VA, Writable(m1, rt[q], va)
        PROVE  m1.rc[Lookup(m1, rt[q], va)] = 1
    <3>1. Writable(m, rt[q], va) /\ va \in Places
          /\ Lookup(m1, rt[q], va) = Slot(m, rt[q], va) /\ Lookup(m, rt[q], va) = Slot(m, rt[q], va)
      BY <1>4, <2>1, LeafPlace DEF SameSpace
    <3>2. Slot(m, rt[q], va) \in Phys \ {n}
      BY <1>3, <3>1 DEF Writable
    <3>3. m.rc[Slot(m, rt[q], va)] = 1
      BY <3>1 DEF Sound, WritableOwn
    <3> QED BY <1>0, <1>1, <3>1, <3>2, <3>3
  <2> QED BY <2>1 DEF WritableOwn
<1>9. SharedAlike(m1, Q, rt)
  <2>1. \A q \in Q, i \in VA : Lookup(m1, rt[q], i) = Lookup(m, rt[q], i)
    BY <1>5, LeafPlace
  <2> QED BY <2>1 DEF Sound, SharedAlike
<1>10. Setting(D, Q, rt, other1)
  BY <1>0 DEF Sound, Setting
<1>11. OthersOwn(m1, other1)
  BY <1>0, <1>1 DEF Sound, OthersOwn
<1>12. Sound(m1, D, Q, rt, other1)
  BY <1>1, <1>6, <1>7, <1>8, <1>9, <1>10, <1>11 DEF Sound
<1> QED BY <1>4, <1>12 DEF m1, other1

-----------------------------------------------------------------------------
(* Copying an address space. *)

(* Pages in use before and after have the same data. *)
DataAlike(m, m1) ==
    \A p \in Phys : m.rc[p] > 0 /\ m1.rc[p] > 0 => m1.mem[p].data = m.mem[p].data

(* One page of r's space was copied to c's, or c's space is gone. *)
CopyOutcome(a, s, D, Q, rt, other, r, c, va) ==
    \/ /\ s.ok = TRUE
       /\ Sound(s.m, D, Q, rt, other)
       /\ \E n \in Phys, w \in BOOLEAN :
             /\ w <=> Writable(a, rt[r], va)
             /\ Mapped(a, s.m, Q, rt, c, va, n, w)
             /\ s.m.mem[n].data = a.mem[Slot(a, rt[r], va)].data
             /\ ~w => n = Slot(a, rt[r], va)
    \/ /\ s.ok = FALSE
       /\ Sound(s.m, D, Q, [rt EXCEPT ![c] = NoPage], other)
       /\ OthersSame(a, s.m, Q, rt, c)
       /\ DataAlike(a, s.m)

(* sys_fork() copies a page that can be written. *)
LEMMA CopyWritable ==
    ASSUME NEW D, NEW a, NEW Q, NEW rt, NEW other, Sound(a, D, Q, rt, other),
           NEW c \in Q, rt[c] # NoPage, NEW r \in Q, NEW va \in VA,
           Slot(a, rt[c], va) = NoPage, Slot(a, rt[r], va) # NoPage,
           Writable(a, rt[r], va), NEW ok \in BOOLEAN, ok
    PROVE  CopyOutcome(a, CopyPage(rt[r], rt[c], [m |-> a, ok |-> ok], va),
                       D, Q, rt, other, r, c, va)
<1> DEFINE s == CopyPage(rt[r], rt[c], [m |-> a, ok |-> ok], va)
           pa == Slot(a, rt[r], va)
           rtno == [rt EXCEPT ![c] = NoPage]
<1>0. /\ a \in Memories(D) /\ rt \in [Q -> Phys \cup {NoPage}]
      /\ other \in [Phys -> {0, 1}] /\ a.mem \in [Phys -> Contents(D)]
      /\ va \in Places /\ VA \subseteq Places
      /\ Lookup(a, rt[r], va) = pa
  BY LeafPlace, MemoryAssumption DEF Sound, Setting, Memories, VA, Places
<1>1. pa \in Phys
  BY <1>0, SlotType
<1>2. CASE Kalloc(a).p = NoPage
  <2>1. s = [m |-> FreeSpace(a, rt[c]), ok |-> FALSE]
    BY <1>0, <1>2 DEF CopyPage, MustCopy
  <2>2. s.m = FreeSpace(a, rt[c]) /\ s.ok = FALSE
    BY <2>1
  <2>3. /\ Sound(FreeSpace(a, rt[c]), D, Q, rtno, other)
        /\ OthersSame(a, FreeSpace(a, rt[c]), Q, rt, c)
        /\ DataAlike(a, FreeSpace(a, rt[c]))
    BY FreeSpaceSound DEF DataAlike
  <2> QED BY <2>2, <2>3 DEF CopyOutcome
<1>3. CASE Kalloc(a).p # NoPage
  <2>1. PICK n \in Phys : /\ a.rc[n] = 0
                          /\ Kalloc(a) = [m |-> Claim(a, n, Junk), p |-> n]
    BY <1>0, <1>3, KallocEffect
  <2> DEFINE m1 == Claim(a, n, a.mem[pa])
             other1 == [other EXCEPT ![n] = 1]
  <2>a. PICK w \in BOOLEAN : w = TRUE
    OBVIOUS
  <2> DEFINE own == TryMap(m1, rt[c], va, n, w)
  <2>2. n # NoPage /\ NoPage \notin Phys
    BY DEF Phys, NoPage
  <2>3. a.mem[pa] \in Contents(D)
    BY <1>0, <1>1
  <2>4. /\ Sound(m1, D, Q, rt, other1)
        /\ \A q \in Q : SameSpace(a, m1, rt[q])
        /\ other[n] = 0
    BY <2>1, <2>3, SoundClaim
  <2>5. m1.rc[n] = 1 /\ m1.mem[n] = a.mem[pa] /\ KeepsUsed(a, m1)
    BY <1>0, <2>1, ClaimFacts
  <2>6. other1[n] = 1 /\ [other1 EXCEPT ![n] = 0] = other /\ OneMore(other, n, other1)
    BY <1>0, <2>4 DEF OneMore
  <2>7. s = IF own.ok THEN own
            ELSE [m |-> Abandon(own.m, rt[c], n), ok |-> FALSE]
    <3>1. [Claim(a, n, Junk) EXCEPT !.mem[n] = a.mem[pa]] = m1
      BY <1>0, ClaimZeroed
    <3> DEFINE st == [m |-> a, ok |-> ok]
               m2 == [Claim(a, n, Junk) EXCEPT !.mem[n] = a.mem[pa]]
               t == TryMap(m2, rt[c], va, n, TRUE)
    <3>2. st.m = a /\ st.ok /\ s = CopyPage(rt[r], rt[c], st, va)
      OBVIOUS
    <3>3. m2 = [Kalloc(a).m EXCEPT !.mem[Kalloc(a).p] = a.mem[pa]] /\ Kalloc(a).p = n
      BY <2>1
    <3> HIDE DEF st, s, m2
    <3>4. s = IF t.ok THEN t ELSE [m |-> Abandon(t.m, rt[c], n), ok |-> FALSE]
      BY <1>0, <1>1, <2>2, <3>2, <3>3 DEF CopyPage, MustCopy
    <3> HIDE DEF m1
    <3>5. t = own
      BY <2>a, <3>1 DEF m2
    <3> QED BY <3>4, <3>5
  <2> HIDE DEF m1, other1
  <2>8. Slot(m1, rt[c], va) = NoPage
    BY <1>0, <2>4 DEF SameSpace
  <2>b. MapOutcome(m1, own, own.m, D, Q, rt, other1, other, c, va, n, w)
    BY <2>4, <2>5, <2>6, <2>8, TryMapOwn
  <2> HIDE DEF own
  <2>9. \/ /\ own.ok = TRUE
           /\ Sound(own.m, D, Q, rt, other)
           /\ Mapped(m1, own.m, Q, rt, c, va, n, w)
        \/ /\ own.ok = FALSE
           /\ Sound(own.m, D, Q, rt, other1)
           /\ Grows(m1, own.m, Q, rt, c)
    BY <2>b DEF MapOutcome
  <2>10. CASE /\ own.ok = TRUE
              /\ Sound(own.m, D, Q, rt, other)
              /\ Mapped(m1, own.m, Q, rt, c, va, n, w)
    <3>1. s = own
      BY <2>7, <2>10
    <3>2. Mapped(a, own.m, Q, rt, c, va, n, w)
      <4>1. OthersSame(a, own.m, Q, rt, c)
        BY <2>4, <2>10 DEF Mapped, OthersSame, SameSpace
      <4>2. KeepsData(a, own.m)
        BY <2>5, <2>10 DEF Mapped, KeepsData, KeepsUsed
      <4>3. Tables \subseteq Places
        BY MemoryAssumption DEF Tables, Places
      <4>4. ASSUME NEW j \in Tables, Slot(a, rt[c], j) # NoPage
            PROVE  Slot(own.m, rt[c], j) = Slot(a, rt[c], j)
        BY <2>4, <2>10, <4>3, <4>4 DEF Mapped, SameSpace
      <4>5. ASSUME NEW j \in VA
            PROVE  /\ Slot(own.m, rt[c], j) = IF j = va THEN n ELSE Slot(a, rt[c], j)
                   /\ Writable(own.m, rt[c], j) <=>
                          IF j = va THEN w ELSE Writable(a, rt[c], j)
        BY <1>0, <2>4, <2>10 DEF Mapped, SameSpace
      <4> QED BY <4>1, <4>2, <4>4, <4>5 DEF Mapped
    <3>3. own.m.mem[n].data = a.mem[pa].data
      BY <2>5, <2>10 DEF Mapped, KeepsData
    <3>4. Sound(own.m, D, Q, rt, other)
      BY <2>6, <2>10
    <3>5. w <=> Writable(a, rt[r], va)
      BY <2>a
    <3> HIDE DEF s
    <3>6. s.ok = TRUE /\ s.m = own.m
      BY <2>10, <3>1
    <3>7. \E n1 \in Phys, w1 \in BOOLEAN :
             /\ w1 <=> Writable(a, rt[r], va)
             /\ Mapped(a, s.m, Q, rt, c, va, n1, w1)
             /\ s.m.mem[n1].data = a.mem[Slot(a, rt[r], va)].data
             /\ ~w1 => n1 = Slot(a, rt[r], va)
      BY <2>a, <3>2, <3>3, <3>5, <3>6
    <3> QED BY Zenon, <3>4, <3>6, <3>7 DEF CopyOutcome, s
  <2>11. CASE /\ own.ok = FALSE
              /\ Sound(own.m, D, Q, rt, other1)
              /\ Grows(m1, own.m, Q, rt, c)
    <3> DEFINE x == FreeSpace(own.m, rt[c])
               y == Kfree(x, n)
    <3>1. s = [m |-> y, ok |-> FALSE]
      BY <2>7, <2>11 DEF Abandon
    <3>2. own.m.rc[n] = 1
      BY <2>5, <2>11 DEF Grows, KeepsUsed
    <3>3. /\ Sound(x, D, Q, rtno, other1)
          /\ OthersSame(own.m, x, Q, rt, c)
          /\ \A p \in Phys : x.rc[p] > 0 => x.mem[p] = own.m.mem[p]
          /\ \A p \in Phys : x.rc[p] <= own.m.rc[p]
      BY SMTT(60), <2>11, FreeSpaceSound
    <3>4. x.rc[n] = 1
      <4>1. x.rc[n] = Cardinality(Refs(x, Q, rtno, n)) + other1[n]
        BY <3>3 DEF Sound, CountsRight
      <4>2. Cardinality(Refs(x, Q, rtno, n)) \in Nat
        BY <3>3, RefsFinite DEF Sound, Setting
      <4> QED BY <2>6, <3>2, <3>3, <4>1, <4>2
    <3> HIDE DEF x, rtno
    <3>5. /\ Sound(y, D, Q, rtno, [other1 EXCEPT ![n] = 0])
          /\ \A q \in Q : SameSpace(x, y, rtno[q])
      BY <2>6, <3>3, <3>4, FreeClaimed
    <3>6. \A q \in Q \ {c} : rtno[q] = rt[q]
      BY <1>0 DEF rtno
    <3>7. OthersSame(a, y, Q, rt, c)
      <4>1. OthersSame(x, y, Q, rt, c)
        BY <3>5, <3>6 DEF OthersSame
      <4>2. OthersSame(m1, own.m, Q, rt, c)
        BY <2>11 DEF Grows
      <4>3. OthersSame(a, m1, Q, rt, c)
        BY <2>4 DEF OthersSame
      <4> HIDE DEF y
      <4> QED BY <3>3, <4>1, <4>2, <4>3 DEF OthersSame, SameSpace
    <3>8. DataAlike(a, y)
      <4>1. ASSUME NEW p \in Phys, a.rc[p] > 0, y.rc[p] > 0
            PROVE  y.mem[p].data = a.mem[p].data
        <5>1. own.m.mem[p].data = a.mem[p].data
          BY <2>5, <2>11, <4>1 DEF Grows, KeepsUsed
        <5>2. p # n
          BY <2>1, <4>1
        <5>3. x \in Memories(D) /\ x.rc[n] > 0 /\ 0 \in D
          BY <3>3, <3>4 DEF Sound, Setting
        <5>4. y.rc = [x.rc EXCEPT ![n] = @ - 1] /\ y.mem[p] = x.mem[p]
          BY <5>2, <5>3, KfreeEffect
        <5>5. x.rc \in [Phys -> 0..255]
          BY <5>3 DEF Memories
        <5>6. x.rc[p] > 0
          BY <4>1, <5>2, <5>4, <5>5
        <5> QED BY <3>3, <5>1, <5>4, <5>6
      <4> QED BY <4>1 DEF DataAlike
    <3>9. Sound(y, D, Q, rtno, other)
      BY <2>6, <3>5
    <3> HIDE DEF s, y
    <3>10. s.m = y /\ s.ok = FALSE
      BY <3>1
    <3> QED BY <3>7, <3>8, <3>9, <3>10 DEF CopyOutcome, s, rtno
  <2> QED BY <2>9, <2>10, <2>11
<1> QED BY <1>2, <1>3

(* sys_fork() shares a page that cannot be written. *)
LEMMA CopyReadOnly ==
    ASSUME NEW D, NEW a, NEW Q, NEW rt, NEW other, Sound(a, D, Q, rt, other),
           NEW c \in Q, rt[c] # NoPage, NEW r \in Q, NEW va \in VA,
           Slot(a, rt[c], va) = NoPage, Slot(a, rt[r], va) # NoPage,
           ~Writable(a, rt[r], va), NEW ok \in BOOLEAN, ok
    PROVE  CopyOutcome(a, CopyPage(rt[r], rt[c], [m |-> a, ok |-> ok], va),
                       D, Q, rt, other, r, c, va)
<1> DEFINE s == CopyPage(rt[r], rt[c], [m |-> a, ok |-> ok], va)
           n == Slot(a, rt[r], va)
           rtno == [rt EXCEPT ![c] = NoPage]
<1>0. /\ a \in Memories(D) /\ rt \in [Q -> Phys \cup {NoPage}]
      /\ va \in Places /\ Lookup(a, rt[r], va) = n
  BY LeafPlace, MemoryAssumption DEF Sound, Setting, VA, Places
<1>1. n \in Phys
  BY <1>0, SlotType
<1>2. PICK w \in BOOLEAN : w = Writable(a, rt[r], va)
  BY DEF Writable
<1> DEFINE t == TryMap(a, rt[c], va, n, w)
<1>3. s = IF t.ok THEN [m |-> Share(t.m, n), ok |-> TRUE]
          ELSE [m |-> FreeSpace(t.m, rt[c]), ok |-> FALSE]
  <2> DEFINE st == [m |-> a, ok |-> ok]
  <2>1. st.m = a /\ st.ok /\ s = CopyPage(rt[r], rt[c], st, va)
    OBVIOUS
  <2> HIDE DEF st, s, n
  <2>2. NoPage \notin Phys
    BY DEF NoPage, Phys
  <2>3. s = IF TryMap(a, rt[c], va, n, Writable(a, rt[r], va)).ok
            THEN [m |-> Share(TryMap(a, rt[c], va, n, Writable(a, rt[r], va)).m, n),
                  ok |-> TRUE]
            ELSE [m |-> FreeSpace(TryMap(a, rt[c], va, n, Writable(a, rt[r], va)).m, rt[c]),
                  ok |-> FALSE]
    BY <1>0, <1>1, <2>1, <2>2 DEF CopyPage, MustCopy
  <2> QED BY <1>2, <2>3
<1> HIDE DEF s, n
<1>4. MapOutcome(a, t, Share(t.m, n), D, Q, rt, other, other, c, va, n, w)
  <2>1. ~w /\ Slot(a, rt[r], va) = n
    BY <1>2 DEF n
  <2> QED BY <1>1, <2>1, TryMapShared
<1> HIDE DEF t
<1>5. CASE /\ t.ok = TRUE
           /\ Sound(Share(t.m, n), D, Q, rt, other)
           /\ Mapped(a, Share(t.m, n), Q, rt, c, va, n, w)
  <2>1. s.ok = TRUE /\ s.m = Share(t.m, n)
    BY <1>3, <1>5
  <2>2. s.m.mem[n].data = a.mem[n].data
    <3>1. a.rc[n] > 0
      BY <1>1, LeafPlace, ReferredPositive DEF n
    <3> QED BY <1>1, <1>5, <2>1, <3>1 DEF Mapped, KeepsData
  <2>3. \E n1 \in Phys, w1 \in BOOLEAN :
           /\ w1 <=> Writable(a, rt[r], va)
           /\ Mapped(a, s.m, Q, rt, c, va, n1, w1)
           /\ s.m.mem[n1].data = a.mem[Slot(a, rt[r], va)].data
           /\ ~w1 => n1 = Slot(a, rt[r], va)
    BY <1>1, <1>2, <1>5, <2>1, <2>2 DEF n
  <2> QED BY Zenon, <1>5, <2>1, <2>3 DEF CopyOutcome, s
<1>6. CASE /\ t.ok = FALSE
           /\ Sound(t.m, D, Q, rt, other)
           /\ Grows(a, t.m, Q, rt, c)
  <2> DEFINE x == FreeSpace(t.m, rt[c])
  <2>1. s.ok = FALSE /\ s.m = x
    BY <1>3, <1>6
  <2>2. /\ Sound(x, D, Q, rtno, other)
        /\ OthersSame(t.m, x, Q, rt, c)
        /\ \A p \in Phys : x.rc[p] > 0 => x.mem[p] = t.m.mem[p]
    BY SMTT(60), <1>6, FreeSpaceSound
  <2> HIDE DEF x
  <2>3. OthersSame(a, x, Q, rt, c)
    BY <1>6, <2>2 DEF Grows, OthersSame, SameSpace
  <2>4. DataAlike(a, x)
    BY <1>6, <2>2 DEF Grows, KeepsUsed, DataAlike
  <2> QED BY <2>1, <2>2, <2>3, <2>4 DEF CopyOutcome, s
<1> QED BY <1>4, <1>5, <1>6 DEF MapOutcome

(* The pages 1..n of r's space, as it was in m, are copied or shared in c's. *)
CopiedUpTo(m, m1, rt, r, c, n) ==
    \A j \in VA :
        IF j <= n
        THEN /\ Slot(m1, rt[c], j) = NoPage <=> Slot(m, rt[r], j) = NoPage
             /\ Writable(m1, rt[c], j) <=> Writable(m, rt[r], j)
             /\ Slot(m, rt[r], j) # NoPage =>
                    m1.mem[Slot(m1, rt[c], j)].data = m.mem[Slot(m, rt[r], j)].data
        ELSE Slot(m1, rt[c], j) = NoPage /\ ~Writable(m1, rt[c], j)

(* After the turn n of sys_fork()'s loop, which began with memory m. *)
CopyState(m, s, D, Q, rt, other, r, c, n) ==
    /\ s.ok \in BOOLEAN
    /\ s = [m |-> s.m, ok |-> s.ok]
    /\ OthersSame(m, s.m, Q, rt, c)
    /\ s.ok => /\ Sound(s.m, D, Q, rt, other)
               /\ KeepsData(m, s.m)
               /\ \A j \in Tables : Slot(m, rt[c], j) # NoPage =>
                                        Slot(s.m, rt[c], j) = Slot(m, rt[c], j)
               /\ CopiedUpTo(m, s.m, rt, r, c, n)
    /\ ~s.ok => /\ Sound(s.m, D, Q, [rt EXCEPT ![c] = NoPage], other)
                /\ DataAlike(m, s.m)

(* fork's state stays a record of a memory and a success flag. *)
LEMMA CopyPageShape ==
    ASSUME NEW parent, NEW child, NEW va, NEW s, s = [m |-> s.m, ok |-> s.ok]
    PROVE  LET s1 == CopyPage(parent, child, s, va) IN s1 = [m |-> s1.m, ok |-> s1.ok]
<1> DEFINE s1 == CopyPage(parent, child, s, va)
<1>1. \E a, b : s1 = [m |-> a, ok |-> b]
  <2>1. ASSUME NEW a, NEW b, NEW p, NEW w
        PROVE  \E x, y : TryMap(a, b, va, p, w) = [m |-> x, ok |-> y]
    BY Zenon DEF TryMap
  <2>2. \E x, y : s = [m |-> x, ok |-> y]
    OBVIOUS
  <2> DEFINE pa == Lookup(s.m, parent, va)
             new == Kalloc(s.m)
             cm == [new.m EXCEPT !.mem[new.p] = s.m.mem[pa]]
             np == new.p
             own == TryMap(cm, child, va, np, TRUE)
             w == Writable(s.m, parent, va)
             shared == TryMap(s.m, child, va, pa, w)
             must == MustCopy(s.m, parent, va)
  <2>3. s1 = IF ~s.ok \/ pa = NoPage THEN s
             ELSE IF must
             THEN IF new.p = NoPage THEN [m |-> FreeSpace(s.m, child), ok |-> FALSE]
                  ELSE IF own.ok THEN own
                  ELSE [m |-> Abandon(own.m, child, new.p), ok |-> FALSE]
             ELSE IF shared.ok THEN [m |-> Share(shared.m, pa), ok |-> TRUE]
             ELSE [m |-> FreeSpace(shared.m, child), ok |-> FALSE]
    BY Zenon DEF CopyPage
  <2>4. \E x, y : own = [m |-> x, ok |-> y]
    <3> HIDE DEF cm, np
    <3> QED BY ZenonT(60), <2>1
  <2> HIDE DEF pa, new, own, w, shared, must, s1
  <2>5. CASE ~s.ok \/ pa = NoPage
    BY <2>2, <2>3, <2>5
  <2>6. CASE /\ ~(~s.ok \/ pa = NoPage)
             /\ must /\ new.p # NoPage /\ own.ok
    BY <2>3, <2>4, <2>6
  <2>7. CASE /\ ~(~s.ok \/ pa = NoPage)
             /\ ~(must /\ new.p # NoPage /\ own.ok)
    <3>1. \/ s1 = [m |-> FreeSpace(s.m, child), ok |-> FALSE]
          \/ s1 = [m |-> Abandon(own.m, child, new.p), ok |-> FALSE]
          \/ s1 = [m |-> Share(shared.m, pa), ok |-> TRUE]
          \/ s1 = [m |-> FreeSpace(shared.m, child), ok |-> FALSE]
      BY <2>3, <2>7
    <3> QED BY <3>1, Zenon
  <2> QED BY <2>5, <2>6, <2>7
<1> HIDE DEF s1
<1>2. PICK a, b : s1 = [m |-> a, ok |-> b]
  BY <1>1
<1>3. s1.m = a /\ s1.ok = b
  BY <1>2
<1> QED BY <1>2, <1>3, Zenon DEF s1

(* One page of fork's copy, shared, copied or failing, keeps memory sound and *)
(* the child a copy up to that page, or leaves no trace of the child.        *)
LEMMA CopyStep ==
    ASSUME NEW D, NEW m, NEW Q, NEW rt, NEW other, Sound(m, D, Q, rt, other),
           NEW c \in Q, rt[c] # NoPage, NEW r \in Q \ {c}, NEW va \in VA, NEW s,
           CopyState(m, s, D, Q, rt, other, r, c, va - 1)
    PROVE  CopyState(m, CopyPage(rt[r], rt[c], s, va), D, Q, rt, other, r, c, va)
<1> DEFINE a == s.m
           ok == s.ok
           s1 == CopyPage(rt[r], rt[c], s, va)
           rtno == [rt EXCEPT ![c] = NoPage]
<1>0. /\ ok \in BOOLEAN
      /\ s = [m |-> a, ok |-> ok]
      /\ OthersSame(m, a, Q, rt, c)
      /\ ok => /\ Sound(a, D, Q, rt, other)
               /\ KeepsData(m, a)
               /\ \A j \in Tables : Slot(m, rt[c], j) # NoPage =>
                                        Slot(a, rt[c], j) = Slot(m, rt[c], j)
               /\ CopiedUpTo(m, a, rt, r, c, va - 1)
      /\ ~ok => /\ Sound(a, D, Q, rtno, other)
                /\ DataAlike(m, a)
  BY Zenon DEF CopyState
<1>1. s1 = [m |-> s1.m, ok |-> s1.ok]
  BY CopyPageShape, Zenon DEF CopyState
<1>n. \A j \in VA : /\ j \in Nat /\ (j <= va <=> j <= va - 1 \/ j = va) /\ ~(va <= va - 1)
                    /\ j \in Places
  BY MemoryAssumption DEF VA, Places
<1> HIDE DEF a, ok, s1
<1>2. CASE ~ok
  <2>1. s1 = s
    BY <1>2 DEF s1, CopyPage, ok
  <2>2. s1.m = a /\ s1.ok = ok
    BY <2>1 DEF a, ok
  <2> QED BY <1>0, <1>1, <1>2, <2>2, Zenon DEF CopyState, s1
<1>3. CASE ok
  <2>0. /\ Sound(a, D, Q, rt, other) /\ KeepsData(m, a)
        /\ CopiedUpTo(m, a, rt, r, c, va - 1)
        /\ Slot(a, rt[r], va) = Slot(m, rt[r], va)
        /\ Writable(a, rt[r], va) <=> Writable(m, rt[r], va)
    BY <1>0, <1>3, <1>n DEF OthersSame, SameSpace
  <2>1. Slot(a, rt[c], va) = NoPage /\ ~Writable(a, rt[c], va)
    BY <1>n, <2>0 DEF CopiedUpTo
  <2>2. CASE Slot(a, rt[r], va) = NoPage
    <3>1. s1 = s
      <4>1. Lookup(s.m, rt[r], va) = NoPage
        BY <2>2, LeafPlace DEF a
      <4> QED BY <4>1 DEF s1, CopyPage
    <3>2. s1.m = a /\ s1.ok = ok
      BY <3>1 DEF a, ok
    <3>3. ~Writable(m, rt[r], va)
      BY <2>0, <2>2, LeafPlace DEF Writable
    <3>4. CopiedUpTo(m, a, rt, r, c, va)
      BY <1>n, <2>0, <2>1, <2>2, <3>3 DEF CopiedUpTo
    <3> QED BY <1>0, <1>1, <1>3, <3>2, <3>4, Zenon DEF CopyState, s1
  <2>3. CASE Slot(a, rt[r], va) # NoPage
    <3>1. CopyOutcome(a, CopyPage(rt[r], rt[c], [m |-> a, ok |-> ok], va),
                      D, Q, rt, other, r, c, va)
      <4>1. CASE Writable(a, rt[r], va)
        BY <1>0, <1>3, <2>0, <2>1, <2>3, <4>1, CopyWritable
      <4>2. CASE ~Writable(a, rt[r], va)
        BY <1>0, <1>3, <2>0, <2>1, <2>3, <4>2, CopyReadOnly
      <4> QED BY <4>1, <4>2
    <3>2. CopyOutcome(a, s1, D, Q, rt, other, r, c, va)
      <4>1. s1 = CopyPage(rt[r], rt[c], [m |-> a, ok |-> ok], va)
        BY <1>0 DEF s1
      <4> QED BY <3>1, <4>1
    <3>3. CASE /\ s1.ok = FALSE
               /\ Sound(s1.m, D, Q, rtno, other)
               /\ OthersSame(a, s1.m, Q, rt, c)
               /\ DataAlike(a, s1.m)
      <4>1. OthersSame(m, s1.m, Q, rt, c)
        BY <1>0, <3>3 DEF OthersSame, SameSpace
      <4>2. DataAlike(m, s1.m)
        BY <2>0, <3>3 DEF DataAlike, KeepsData
      <4>3. s1.ok \in BOOLEAN /\ ~s1.ok
        BY <3>3
      <4> QED BY <1>1, <3>3, <4>1, <4>2, <4>3, Zenon DEF CopyState, s1
    <3>4. ASSUME s1.ok = TRUE,
                 Sound(s1.m, D, Q, rt, other),
                 NEW n \in Phys, NEW w \in BOOLEAN,
                 w <=> Writable(a, rt[r], va),
                 Mapped(a, s1.m, Q, rt, c, va, n, w),
                 s1.m.mem[n].data = a.mem[Slot(a, rt[r], va)].data
          PROVE  CopyState(m, s1, D, Q, rt, other, r, c, va)
      <4>1. OthersSame(m, s1.m, Q, rt, c)
        BY <1>0, <3>4 DEF Mapped, OthersSame, SameSpace
      <4>2. KeepsData(m, s1.m)
        BY <2>0, <3>4 DEF Mapped, KeepsData
      <4>3. ASSUME NEW j \in Tables, Slot(m, rt[c], j) # NoPage
            PROVE  Slot(s1.m, rt[c], j) = Slot(m, rt[c], j)
        BY <1>0, <1>3, <3>4, <4>3 DEF Mapped
      <4>4. /\ \A j \in VA : /\ Slot(s1.m, rt[c], j) = IF j = va THEN n ELSE Slot(a, rt[c], j)
                             /\ Writable(s1.m, rt[c], j) <=>
                                    IF j = va THEN w ELSE Writable(a, rt[c], j)
            /\ KeepsData(a, s1.m)
            /\ n # NoPage
        BY <3>4 DEF Mapped, Phys, NoPage
      <4>5. s1.m.mem[n].data = m.mem[Slot(m, rt[r], va)].data
        <5>1. Slot(m, rt[r], va) \in Phys /\ m.rc[Slot(m, rt[r], va)] > 0
          BY <1>n, <2>0, <2>3, ReferredPositive
        <5> QED BY <2>0, <3>4, <5>1 DEF KeepsData
      <4>6. ASSUME NEW j \in VA, j <= va, j # va, Slot(m, rt[r], j) # NoPage
            PROVE  s1.m.mem[Slot(a, rt[c], j)].data = m.mem[Slot(m, rt[r], j)].data
        <5>1. j <= va - 1 /\ j \in Places
          BY <1>n, <4>6
        <5>2. /\ Slot(a, rt[c], j) # NoPage
              /\ a.mem[Slot(a, rt[c], j)].data = m.mem[Slot(m, rt[r], j)].data
          BY <2>0, <4>6, <5>1 DEF CopiedUpTo
        <5>3. Slot(a, rt[c], j) \in Phys /\ a.rc[Slot(a, rt[c], j)] > 0
          BY <2>0, <5>1, <5>2, ReferredPositive
        <5> QED BY <4>4, <5>2, <5>3 DEF KeepsData
      <4>7. ASSUME NEW j \in VA
            PROVE  IF j <= va
                   THEN /\ Slot(s1.m, rt[c], j) = NoPage <=> Slot(m, rt[r], j) = NoPage
                        /\ Writable(s1.m, rt[c], j) <=> Writable(m, rt[r], j)
                        /\ Slot(m, rt[r], j) # NoPage =>
                               s1.m.mem[Slot(s1.m, rt[c], j)].data
                                   = m.mem[Slot(m, rt[r], j)].data
                   ELSE Slot(s1.m, rt[c], j) = NoPage /\ ~Writable(s1.m, rt[c], j)
        <5>1. CASE j = va
          BY <1>n, <2>0, <2>3, <3>4, <4>4, <4>5, <5>1
        <5>2. CASE j # va /\ j <= va
          <6>1. /\ Slot(a, rt[c], j) = NoPage <=> Slot(m, rt[r], j) = NoPage
                /\ Writable(a, rt[c], j) <=> Writable(m, rt[r], j)
            BY <1>n, <2>0, <5>2 DEF CopiedUpTo
          <6> QED BY <4>4, <4>6, <5>2, <6>1
        <5>3. CASE ~(j <= va)
          <6>1. Slot(a, rt[c], j) = NoPage /\ ~Writable(a, rt[c], j) /\ j # va
            BY <1>n, <2>0, <5>3 DEF CopiedUpTo
          <6> QED BY <4>4, <5>3, <6>1
        <5> QED BY <5>1, <5>2, <5>3
      <4>8. CopiedUpTo(m, s1.m, rt, r, c, va)
        BY <4>7 DEF CopiedUpTo
      <4>9. s1.ok \in BOOLEAN /\ s1.ok
        BY <3>4
      <4> QED BY <1>1, <3>4, <4>1, <4>2, <4>3, <4>8, <4>9, Zenon DEF CopyState
    <3> QED BY Zenon, <3>2, <3>3, <3>4 DEF CopyOutcome, s1
  <2> QED BY <2>2, <2>3
<1> QED BY <1>0, <1>2, <1>3

(* sys_fork()'s loop *)
LEMMA CopyPagesSound ==
    ASSUME NEW D, NEW m, NEW Q, NEW rt, NEW other, Sound(m, D, Q, rt, other),
           NEW c \in Q, rt[c] # NoPage, NEW r \in Q \ {c},
           \A va \in VA : Slot(m, rt[c], va) = NoPage
    PROVE  CopyState(m, CopyPages(m, rt[r], rt[c]), D, Q, rt, other, r, c, NVA)
<1>0. ASSUME NEW m2, NEW p, NEW ch
      PROVE  \E f : /\ f[0] = [m |-> m2, ok |-> TRUE]
                    /\ \A va \in VA : f[va] = CopyPage(p, ch, f[va-1], va)
                    /\ CopyPages(m2, p, ch) = f[NVA]
  BY CopyPagesLoop
<1> DEFINE parent == rt[r]
           child == rt[c]
<1>1. PICK f : /\ f[0] = [m |-> m, ok |-> TRUE]
               /\ \A va \in VA : f[va] = CopyPage(parent, child, f[va-1], va)
               /\ CopyPages(m, parent, child) = f[NVA]
  <2> HIDE DEF parent, child
  <2> QED BY <1>0
<1> DEFINE T == {n \in 0..NVA : CopyState(m, f[n], D, Q, rt, other, r, c, n)}
<1>2. 0 \in T
  <2>1. CopiedUpTo(m, m, rt, r, c, 0)
    <3>1. \A j \in VA : ~(j <= 0) /\ Slot(m, rt[c], j) = NoPage /\ ~Writable(m, rt[c], j)
      BY LeafPlace, MemoryAssumption DEF VA, Writable
    <3> QED BY <3>1 DEF CopiedUpTo
  <2>2. OthersSame(m, m, Q, rt, c) /\ KeepsData(m, m)
    BY DEF OthersSame, SameSpace, KeepsData
  <2> DEFINE s == f[0]
  <2>3. s = [m |-> m, ok |-> TRUE] /\ s.m = m /\ s.ok = TRUE
    BY <1>1
  <2> HIDE DEF s
  <2>4. CopyState(m, s, D, Q, rt, other, r, c, 0)
    BY <2>1, <2>2, <2>3, Zenon DEF CopyState
  <2> QED BY <2>4, MemoryAssumption DEF s
<1>3. ASSUME NEW n \in 1..NVA, n - 1 \in T PROVE n \in T
  <2>1. n \in VA /\ n \in 0..NVA
    BY DEF VA
  <2>2. CopyState(m, f[n-1], D, Q, rt, other, r, c, n - 1)
    BY <1>3
  <2>3. CopyState(m, CopyPage(rt[r], rt[c], f[n-1], n), D, Q, rt, other, r, c, n)
    BY <2>1, <2>2, CopyStep
  <2>4. f[n] = CopyPage(rt[r], rt[c], f[n-1], n)
    BY <1>1, <2>1
  <2> QED BY <2>1, <2>3, <2>4
<1>4. NVA \in T
  <2> HIDE DEF T
  <2>1. \A n \in 1..NVA : n - 1 \in T => n \in T
    BY <1>3
  <2>2. \A n \in 0..NVA : n \in T
    BY <1>2, <2>1, LoopInduction, MemoryAssumption
  <2> QED BY <2>2, MemoryAssumption
<1> QED BY <1>1, <1>4

-----------------------------------------------------------------------------
(* sys_fork() *)

(* c has a copy of r's space, whole, or has none and nothing has changed. *)
Forked(m, s, D, Q, rt, other, r, c) ==
    /\ s.ok \in BOOLEAN
    /\ s.root \in Phys \cup {NoPage}
    /\ OthersSame(m, s.m, Q, rt, c)
    /\ s.ok => /\ s.root # NoPage
               /\ Sound(s.m, D, Q, [rt EXCEPT ![c] = s.root], other)
               /\ KeepsData(m, s.m)
               /\ Slot(s.m, s.root, NVA + 1) # NoPage
               /\ CopiedUpTo(m, s.m, [rt EXCEPT ![c] = s.root], r, c, NVA)
    /\ ~s.ok => /\ Sound(s.m, D, Q, rt, other)
                /\ DataAlike(m, s.m)

(* sys_fork()'s work on memory either gives the child a whole address space *)
(* like the parent's, or none, whatever it had built when memory ran out;   *)
(* the counts are right, and all other spaces as before, in both cases.     *)
THEOREM CopySpaceSound ==
    ASSUME NEW D, NEW m, NEW Q, NEW rt, NEW other, Sound(m, D, Q, rt, other),
           NEW c \in Q, rt[c] = NoPage, NEW r \in Q \ {c}
    PROVE  Forked(m, CopySpace(m, rt[r]), D, Q, rt, other, r, c)
<1> DEFINE s == CopySpace(m, rt[r])
<1>0. m \in Memories(D) /\ Setting(D, Q, rt, other)
  BY DEF Sound
<1>f. /\ OthersSame(m, m, Q, rt, c) /\ DataAlike(m, m)
  BY DEF OthersSame, SameSpace, DataAlike
<1>1. CASE Kalloc(m) = [m |-> m, p |-> NoPage]
  <2>1. s.m = m /\ s.root = NoPage /\ s.ok = FALSE
    BY <1>1 DEF CopySpace
  <2> HIDE DEF s
  <2>2. s.ok \in BOOLEAN /\ ~s.ok /\ s.root \in Phys \cup {NoPage}
    BY <2>1
  <2>3. Forked(m, s, D, Q, rt, other, r, c)
    BY <1>f, <2>1, <2>2, Zenon DEF Forked
  <2> QED BY <2>3 DEF s
<1>2. ASSUME NEW n \in Phys, m.rc[n] = 0, Kalloc(m) = [m |-> Claim(m, n, Junk), p |-> n]
      PROVE  Forked(m, s, D, Q, rt, other, r, c)
  <2> DEFINE m1 == Claim(m, n, Zero)
             rt1 == [rt EXCEPT ![c] = n]
             k == MakeTables(m1, n, 0)
             user == CopyPages(k.m, rt[r], n)
  <2>1. Zeroed(Kalloc(m).m, Kalloc(m).p) = m1 /\ Kalloc(m).p = n
    <3>1. [Claim(m, n, Junk) EXCEPT !.mem[n] = Zero] = m1
      BY <1>0, ClaimZeroed
    <3> QED BY <1>2, <3>1 DEF Zeroed
  <2>2. n # NoPage
    BY DEF Phys, NoPage
  <2>3. s = IF ~k.ok THEN [m |-> FreeSpace(k.m, n), root |-> n, ok |-> FALSE]
            ELSE [m |-> user.m, root |-> n, ok |-> user.ok]
    BY <2>1, <2>2, Zenon DEF CopySpace
  <2>4. /\ Sound(m1, D, Q, rt1, other)
        /\ \A q \in Q : SameSpace(m, m1, rt[q])
        /\ KeepsUsed(m, m1)
        /\ \A va \in VA : Slot(m1, n, va) = NoPage
    BY <1>2, AdoptRoot
  <2>5. rt1[c] = n /\ (\A q \in Q \ {c} : rt1[q] = rt[q])
    BY <1>0 DEF Setting
  <2>6. [rt1 EXCEPT ![c] = NoPage] = rt
    BY <1>0 DEF Setting
  <2> HIDE DEF m1, rt1
  <2>7. Reached(m1, k, D, Q, rt1, other, c, NVA + 1)
    <3>1. PICK h \in {0, 1} : h = 0
      OBVIOUS
    <3>2. Reached(m1, MakeTables(m1, rt1[c], h), D, Q, rt1, other, c, NVA + 1 + h)
      BY <2>2, <2>4, <2>5, MakeTablesSound
    <3>3. NVA + 1 + h = NVA + 1
      BY <3>1, MemoryAssumption
    <3> QED BY <2>5, <3>1, <3>2, <3>3
  <2> HIDE DEF k
  <2>8. /\ k.ok \in BOOLEAN
        /\ Sound(k.m, D, Q, rt1, other)
        /\ OthersSame(m1, k.m, Q, rt1, c)
        /\ KeepsUsed(m1, k.m)
        /\ \A va \in VA : Slot(k.m, n, va) = NoPage
        /\ k.ok => k.at # NoPage /\ k.at = Slot(k.m, n, NVA + 1)
    BY <2>4, <2>5, <2>7 DEF Reached, Grows
  <2>9. /\ \A q \in Q \ {c} : SameSpace(m, k.m, rt[q])
        /\ KeepsUsed(m, k.m)
    <3>1. ASSUME NEW q \in Q \ {c} PROVE SameSpace(m, k.m, rt[q])
      <4>1. SameSpace(m, m1, rt[q]) /\ SameSpace(m1, k.m, rt[q])
        BY <2>4, <2>5, <2>8 DEF OthersSame
      <4> QED BY <4>1 DEF SameSpace
    <3>2. KeepsUsed(m, k.m)
      BY <2>4, <2>8 DEF KeepsUsed
    <3> QED BY <3>1, <3>2
  <2>10. CASE ~k.ok
    <3> DEFINE mf == FreeSpace(k.m, n)
    <3>1. /\ s.m = mf /\ s.root = n /\ s.ok = FALSE
      BY <2>3, <2>10
    <3>2. /\ Sound(mf, D, Q, rt, other)
          /\ OthersSame(k.m, mf, Q, rt1, c)
          /\ \A p \in Phys : mf.rc[p] > 0 => mf.mem[p] = k.m.mem[p]
      <4>1. LET x == FreeSpace(k.m, rt1[c]) IN
            /\ Sound(x, D, Q, [rt1 EXCEPT ![c] = NoPage], other)
            /\ OthersSame(k.m, x, Q, rt1, c)
            /\ \A p \in Phys : x.rc[p] > 0 => x.mem[p] = k.m.mem[p]
            /\ \A p \in Phys : x.rc[p] <= k.m.rc[p]
        BY <2>2, <2>5, <2>8, FreeSpaceSound
      <4> QED BY <2>5, <2>6, <4>1
    <3> HIDE DEF mf, s
    <3>3. OthersSame(m, mf, Q, rt, c)
      BY <2>5, <2>9, <3>2 DEF OthersSame, SameSpace
    <3>4. DataAlike(m, mf)
      BY <2>9, <3>2 DEF DataAlike, KeepsUsed
    <3>5. s.ok \in BOOLEAN /\ ~s.ok /\ s.root \in Phys \cup {NoPage}
      BY <3>1
    <3>6. Forked(m, s, D, Q, rt, other, r, c)
      BY <3>1, <3>2, <3>3, <3>4, <3>5, Zenon DEF Forked
    <3> QED BY <3>6 DEF s
  <2>11. CASE k.ok
    <3>1. s.m = user.m /\ s.root = n /\ s.ok = user.ok
      BY <2>3, <2>11
    <3>2. CopyState(k.m, user, D, Q, rt1, other, r, c, NVA)
      <4>1. \A va \in VA : Slot(k.m, rt1[c], va) = NoPage
        BY <2>5, <2>8
      <4>2. CopyState(k.m, CopyPages(k.m, rt1[r], rt1[c]), D, Q, rt1, other, r, c, NVA)
        BY <2>2, <2>5, <2>8, <4>1, CopyPagesSound
      <4> QED BY <2>5, <4>2
    <3> HIDE DEF s, user
    <3>3. /\ user.ok \in BOOLEAN
          /\ OthersSame(k.m, user.m, Q, rt1, c)
          /\ user.ok => /\ Sound(user.m, D, Q, rt1, other)
                        /\ KeepsData(k.m, user.m)
                        /\ \A j \in Tables : Slot(k.m, rt1[c], j) # NoPage =>
                                        Slot(user.m, rt1[c], j) = Slot(k.m, rt1[c], j)
                        /\ CopiedUpTo(k.m, user.m, rt1, r, c, NVA)
          /\ ~user.ok => /\ Sound(user.m, D, Q, [rt1 EXCEPT ![c] = NoPage], other)
                         /\ DataAlike(k.m, user.m)
      BY <3>2, Zenon DEF CopyState
    <3>4. OthersSame(m, user.m, Q, rt, c)
      BY <2>5, <2>9, <3>3 DEF OthersSame, SameSpace
    <3>5. CASE ~user.ok
      <4>1. Sound(user.m, D, Q, rt, other)
        BY <2>6, <3>3, <3>5
      <4>2. DataAlike(m, user.m)
        BY <2>9, <3>3, <3>5 DEF DataAlike, KeepsUsed
      <4>3. s.ok \in BOOLEAN /\ ~s.ok /\ s.root \in Phys \cup {NoPage}
        BY <3>1, <3>3, <3>5
      <4>4. Forked(m, s, D, Q, rt, other, r, c)
        BY <3>1, <3>4, <4>1, <4>2, <4>3, Zenon DEF Forked
      <4> QED BY <4>4 DEF s
    <3>6. CASE user.ok
      <4>1. Slot(user.m, n, NVA + 1) # NoPage
        <5>1. NVA + 1 \in Tables
          BY MemoryAssumption DEF Tables
        <5> QED BY <2>5, <2>8, <2>11, <3>3, <3>6, <5>1
      <4>2. KeepsData(m, user.m)
        BY <2>9, <3>3, <3>6 DEF KeepsData, KeepsUsed
      <4>3. CopiedUpTo(m, user.m, rt1, r, c, NVA)
        <5>1. /\ \A j \in VA : /\ Slot(k.m, rt[r], j) = Slot(m, rt[r], j)
                               /\ Writable(k.m, rt[r], j) <=> Writable(m, rt[r], j)
                               /\ j \in Places
          BY <2>9, LeafPlace DEF SameSpace
        <5>2. ASSUME NEW j \in VA, Slot(m, rt[r], j) # NoPage
              PROVE  k.m.mem[Slot(m, rt[r], j)].data = m.mem[Slot(m, rt[r], j)].data
          <6>1. Slot(m, rt[r], j) \in Phys /\ m.rc[Slot(m, rt[r], j)] > 0
            BY <5>1, <5>2, ReferredPositive
          <6> QED BY <2>9, <6>1 DEF KeepsUsed
        <5>3. rt1[r] = rt[r]
          BY <2>5
        <5> QED BY <3>3, <3>6, <5>1, <5>2, <5>3 DEF CopiedUpTo
      <4>4. s.ok \in BOOLEAN /\ s.ok /\ s.root \in Phys \cup {NoPage} /\ s.root # NoPage
        BY <2>2, <3>1, <3>6
      <4>5. rt1 = [rt EXCEPT ![c] = s.root]
        BY <3>1 DEF rt1
      <4>6. Sound(user.m, D, Q, rt1, other)
        BY <3>3, <3>6
      <4>7. Forked(m, s, D, Q, rt, other, r, c)
        BY <3>1, <3>4, <4>1, <4>2, <4>3, <4>4, <4>5, <4>6, Zenon DEF Forked
      <4> QED BY <4>7 DEF s
    <3> QED BY <3>3, <3>5, <3>6
  <2> QED BY <2>8, <2>10, <2>11
<1> QED BY <1>0, <1>1, <1>2, KallocEffect

(* With the same references, pages have the same counts. *)
LEMMA SameRefs ==
    ASSUME NEW D, NEW m, NEW m1, NEW Q, NEW rt, NEW other,
           Sound(m, D, Q, rt, other), Sound(m1, D, Q, rt, other),
           \A q \in Q, j \in Places : Slot(m1, rt[q], j) = Slot(m, rt[q], j)
    PROVE  m1.rc = m.rc
<1>1. m.rc \in [Phys -> 0..255] /\ m1.rc \in [Phys -> 0..255]
  BY Zenon DEF Sound, Memories
<1>2. ASSUME NEW p \in Phys PROVE m1.rc[p] = m.rc[p]
  <2>1. Refs(m1, Q, rt, p) = Refs(m, Q, rt, p)
    BY DEF Refs
  <2> QED BY <2>1 DEF Sound, CountsRight
<1> QED BY <1>1, <1>2

(* A fork that fails leaves every reference count as it was. *)
THEOREM FailedForkRestores ==
    ASSUME NEW D, NEW m, NEW Q, NEW rt, NEW other, Sound(m, D, Q, rt, other),
           NEW c \in Q, rt[c] = NoPage, NEW r \in Q \ {c},
           ~CopySpace(m, rt[r]).ok
    PROVE  CopySpace(m, rt[r]).m.rc = m.rc
<1> DEFINE s == CopySpace(m, rt[r])
           m1 == s.m
<1>1. Forked(m, s, D, Q, rt, other, r, c)
  BY CopySpaceSound
<1>2. OthersSame(m, m1, Q, rt, c) /\ Sound(m1, D, Q, rt, other)
  BY <1>1, Zenon DEF Forked
<1> HIDE DEF m1
<1>3. \A q \in Q, j \in Places : Slot(m1, rt[q], j) = Slot(m, rt[q], j)
  BY <1>2, NoSpace DEF OthersSame, SameSpace
<1>4. m1.rc = m.rc
  BY <1>2, <1>3, SameRefs
<1> QED BY <1>4 DEF m1

-----------------------------------------------------------------------------
(* Enough memory for the first processes. *)

(* Processes P have spaces like those of process_setup(), or less: tables    *)
(* and two pages.  Besides there is at most a page just allocated for one.   *)
Roomy(m, Q, rt, other, P) ==
    /\ P \subseteq Q /\ 7 * Cardinality(P) < NPages
    /\ \A q \in Q, j \in Places : Slot(m, rt[q], j) # NoPage =>
           q \in P /\ (j \in VA => j \in {1, NVA})
    /\ \/ \A p \in Phys : other[p] = 0
       \/ \E v \in Phys : /\ \A p \in Phys \ {v} : other[p] = 0
                          /\ \E q \in P, j \in {1, NVA} : Slot(m, rt[q], j) = NoPage

(* Pages X are all referred to from the places Y. *)
Cover(m, rt, X, Y) == \A p \in X : \E k \in Y : Slot(m, rt[k[1]], k[2]) = p

(* Then they are no more than those. *)
LEMMA Covered ==
    ASSUME NEW m, NEW rt, NEW X, NEW Y, IsFiniteSet(Y), Cover(m, rt, X, Y)
    PROVE  Cardinality(X) <= Cardinality(Y)
<1> DEFINE R == {k \in Y : Slot(m, rt[k[1]], k[2]) \in X}
           f == [k \in R |-> Slot(m, rt[k[1]], k[2])]
<1>1. f \in Surjection(R, X)
  BY DEF Surjection, Cover
<1>2. IsFiniteSet(R) /\ Cardinality(R) <= Cardinality(Y)
  BY FS_Subset
<1>3. IsFiniteSet(X) /\ Cardinality(X) <= Cardinality(R)
  <2> HIDE DEF f, R
  <2> QED BY <1>1, <1>2, FS_Surjection
<1>4. Cardinality(X) \in Nat /\ Cardinality(R) \in Nat /\ Cardinality(Y) \in Nat
  BY <1>2, <1>3, FS_CardinalityType
<1> QED BY <1>2, <1>3, <1>4

(* Then kalloc() finds a page. *)
LEMMA RoomLeft ==
    ASSUME NEW D, NEW m, NEW Q, NEW rt, NEW other, Sound(m, D, Q, rt, other),
           NEW P, Roomy(m, Q, rt, other, P)
    PROVE  \E p \in Phys : m.rc[p] = 0
<1> SUFFICES ASSUME \A p \in Phys : m.rc[p] # 0 PROVE FALSE
  OBVIOUS
<1> DEFINE S == {1, NVA} \cup Tables
           H == P \X S
<1>1. IsFiniteSet(P) /\ Cardinality(P) \in Nat
  BY FS_Subset, FS_CardinalityType DEF Roomy, Sound, Setting
<1>2. IsFiniteSet(S) /\ Cardinality(S) = 7
  <2>1. IsFiniteSet(Tables) /\ Cardinality(Tables) = 5
    BY FS_Interval, MemoryAssumption DEF Tables
  <2>2. /\ 1 \notin Tables /\ NVA \notin Tables \cup {1}
        /\ S = (Tables \cup {1}) \cup {NVA}
    BY MemoryAssumption DEF Tables
  <2>3. IsFiniteSet(Tables \cup {1}) /\ Cardinality(Tables \cup {1}) = 6
    BY <2>1, <2>2, FS_AddElement
  <2> QED BY SMTT(60), <2>2, <2>3, FS_AddElement
<1>3. IsFiniteSet(H) /\ Cardinality(H) = 7 * Cardinality(P)
  <2> HIDE DEF S
  <2>1. IsFiniteSet(P \X S) /\ Cardinality(P \X S) = Cardinality(P) * Cardinality(S)
    BY <1>1, <1>2, FS_Product
  <2> QED BY <1>1, <1>2, <2>1
<1>4. IsFiniteSet(Phys) /\ Cardinality(Phys) = NPages
  BY FS_Interval, MemoryAssumption DEF Phys
<1>5. ASSUME NEW p \in Phys, other[p] = 0
      PROVE  \E k \in H : Slot(m, rt[k[1]], k[2]) = p
  <2>1. Refs(m, Q, rt, p) # {}
    <3>1. m.rc[p] = Cardinality(Refs(m, Q, rt, p)) + 0
      BY <1>5 DEF Sound, CountsRight
    <3>2. m.rc[p] # 0
      OBVIOUS
    <3> QED BY <3>1, <3>2, FS_EmptySet
  <2>2. PICK q \in Q, j \in Places : Slot(m, rt[q], j) = p
    BY <2>1 DEF Refs
  <2>3. q \in P /\ j \in S
    <3>1. p # NoPage
      BY DEF Phys, NoPage
    <3> QED BY <2>2, <3>1, MemoryAssumption DEF Roomy, Places, VA, Tables
  <2>4. <<q, j>> \in H /\ Slot(m, rt[<<q, j>>[1]], <<q, j>>[2]) = p
    BY <2>2, <2>3
  <2> HIDE DEF H
  <2> QED BY <2>4
<1>6. CASE \A p \in Phys : other[p] = 0
  <2>1. Cover(m, rt, Phys, H)
    BY <1>5, <1>6 DEF Cover
  <2>2. Cardinality(Phys) <= Cardinality(H)
    <3> HIDE DEF H
    <3> QED BY <1>3, <2>1, Covered
  <2> QED BY <1>1, <1>3, <1>4, <2>2, MemoryAssumption DEF Roomy
<1>7. ASSUME NEW v \in Phys, \A p \in Phys \ {v} : other[p] = 0,
             NEW q \in P, NEW j \in {1, NVA}, Slot(m, rt[q], j) = NoPage
      PROVE  FALSE
  <2> DEFINE Y == H \ {<<q, j>>}
             X == Phys \ {v}
  <2>1. Cover(m, rt, X, Y)
    <3>1. ASSUME NEW p \in X PROVE \E k \in Y : Slot(m, rt[k[1]], k[2]) = p
      <4>1. PICK k \in H : Slot(m, rt[k[1]], k[2]) = p
        BY <1>5, <1>7
      <4>2. p # NoPage
        BY DEF Phys, NoPage
      <4>3. k # <<q, j>>
        BY <1>7, <4>1, <4>2
      <4> QED BY <4>1, <4>3
    <3> QED BY <3>1 DEF Cover
  <2>2. <<q, j>> \in H
    OBVIOUS
  <2>3. IsFiniteSet(Y) /\ Cardinality(Y) = Cardinality(H) - 1
    <3> HIDE DEF H
    <3> QED BY <1>3, <2>2, FS_RemoveElement
  <2>4. Cardinality(X) = NPages - 1
    BY <1>4, FS_RemoveElement
  <2> HIDE DEF X, Y
  <2>5. Cardinality(X) <= Cardinality(Y)
    BY <2>1, <2>3, Covered
  <2> QED BY <1>1, <1>3, <2>3, <2>4, <2>5, MemoryAssumption DEF Roomy
<1> QED BY <1>6, <1>7 DEF Roomy

(* Making tables leaves that so. *)
LEMMA GrowsRoomy ==
    ASSUME NEW D, NEW m, NEW m1, NEW Q, NEW rt, NEW other, NEW P,
           Roomy(m, Q, rt, other, P), NEW c \in P, Grows(m, m1, Q, rt, c)
    PROVE  Roomy(m1, Q, rt, other, P)
<1>1. \A q \in Q, j \in VA : Slot(m1, rt[q], j) = Slot(m, rt[q], j)
  BY MemoryAssumption DEF Grows, OthersSame, SameSpace, VA, Places
<1>2. \A q \in Q, j \in Places : Slot(m1, rt[q], j) # NoPage =>
          q \in P /\ (j \in VA => j \in {1, NVA})
  BY <1>1 DEF Grows, OthersSame, SameSpace, Roomy
<1>3. {1, NVA} \subseteq VA
  BY MemoryAssumption DEF VA
<1> QED BY <1>1, <1>2, <1>3 DEF Roomy

(* A turn of the descent succeeds if there is a page. *)
LEMMA DescendOk ==
    ASSUME NEW D, NEW a \in Memories(D), NEW b, NEW i, NEW ok \in BOOLEAN
    PROVE  ok /\ (\E p \in Phys : a.rc[p] = 0) =>
               Descend([m |-> a, at |-> b, ok |-> ok], i).ok = TRUE
<1> DEFINE s == [m |-> a, at |-> b, ok |-> ok]
           d == Descend(s, i)
<1>0. /\ ok /\ Entry(a, b, i) # NoPage =>
            d = [m |-> a, at |-> Entry(a, b, i), ok |-> ok]
      /\ \A n \in Phys : ok /\ Entry(a, b, i) = NoPage
                             /\ Kalloc(a) = [m |-> Claim(a, n, Junk), p |-> n] =>
            d = [m |-> Link(Claim(a, n, Zero), b, i, n, TRUE), at |-> n, ok |-> TRUE]
  <2>1. /\ ~ok => Descend(s, i) = s
        /\ ok /\ Entry(a, b, i) # NoPage =>
              Descend(s, i) = [m |-> a, at |-> Entry(a, b, i), ok |-> ok]
        /\ ok /\ Entry(a, b, i) = NoPage /\ Kalloc(a).p = NoPage =>
              Descend(s, i) = [m |-> a, at |-> b, ok |-> FALSE]
        /\ \A n \in Phys : ok /\ Entry(a, b, i) = NoPage
                            /\ Kalloc(a) = [m |-> Claim(a, n, Junk), p |-> n] =>
              Descend(s, i) =
                  [m |-> Link(Claim(a, n, Zero), b, i, n, TRUE), at |-> n, ok |-> TRUE]
    <3>1. a \in Memories(D) /\ ok \in BOOLEAN
      OBVIOUS
    <3> QED BY <3>1, DescendEffect, ZenonT(60)
  <2> QED BY <2>1, Zenon
<1> SUFFICES ASSUME ok, \E p \in Phys : a.rc[p] = 0 PROVE d.ok = TRUE
  OBVIOUS
<1>1. PICK n \in Phys : Kalloc(a) = [m |-> Claim(a, n, Junk), p |-> n]
  BY KallocEffect
<1> HIDE DEF d
<1>3. CASE Entry(a, b, i) # NoPage
  <2>1. d = [m |-> a, at |-> Entry(a, b, i), ok |-> ok]
    BY <1>0, <1>3
  <2>2. d.ok = TRUE
    BY <2>1
  <2> QED BY <2>2 DEF d
<1>4. CASE Entry(a, b, i) = NoPage
  <2>1. d = [m |-> Link(Claim(a, n, Zero), b, i, n, TRUE), at |-> n, ok |-> TRUE]
    BY <1>0, <1>1, <1>4, Zenon
  <2>2. d.ok = TRUE
    BY <2>1
  <2> QED BY <2>2 DEF d
<1> QED BY <1>3, <1>4

(* The tables can be made if there is room. *)
LEMMA MakeTablesOk ==
    ASSUME NEW D, NEW m, NEW Q, NEW rt, NEW other, Sound(m, D, Q, rt, other),
           NEW P, Roomy(m, Q, rt, other, P), NEW c \in P, rt[c] # NoPage, NEW h \in {0, 1}
    PROVE  MakeTables(m, rt[c], h).ok = TRUE
<1> DEFINE s0 == [m |-> m, at |-> rt[c], ok |-> TRUE]
           s1 == Descend(s0, 0)
           s2 == Descend(s1, 0)
           s3 == Descend(s2, h)
<1>1. MakeTables(m, rt[c], h) = s3
  BY MakeTablesSteps
<1>2. Reached(m, s0, D, Q, rt, other, c, RootSlot) /\ s0.ok = TRUE
  BY SlotRoot, GrowsReflexive DEF Reached
<1>3. /\ NVA + 4 \in Tables \ {RootSlot} /\ Up(NVA + 4) = RootSlot /\ Idx(NVA + 4) = 0
      /\ NVA + 3 \in Tables \ {RootSlot} /\ Up(NVA + 3) = NVA + 4 /\ Idx(NVA + 3) = 0
      /\ NVA + 1 + h \in Tables \ {RootSlot} /\ Up(NVA + 1 + h) = NVA + 3
      /\ Idx(NVA + 1 + h) = h
  BY MemoryAssumption DEF Tables, RootSlot, Up, Idx
<1>c. c \in Q
  BY DEF Roomy
<1>4. ASSUME NEW s, NEW k, Reached(m, s, D, Q, rt, other, c, k), s.ok = TRUE, NEW i
      PROVE  Descend(s, i).ok = TRUE
  <2> DEFINE a == s.m
             b == s.at
             ok == s.ok
  <2>1. /\ s = [m |-> a, at |-> b, ok |-> ok] /\ ok = TRUE
        /\ Sound(a, D, Q, rt, other) /\ Grows(m, a, Q, rt, c)
    BY <1>4, Zenon DEF Reached
  <2> HIDE DEF a, b, ok
  <2>2. a \in Memories(D) /\ ok \in BOOLEAN /\ ok
    BY <2>1 DEF Sound
  <2>3. Roomy(a, Q, rt, other, P)
    BY <2>1, GrowsRoomy
  <2>4. \E p \in Phys : a.rc[p] = 0
    BY <2>1, <2>3, RoomLeft
  <2>5. Descend([m |-> a, at |-> b, ok |-> ok], i).ok = TRUE
    BY <2>2, <2>4, DescendOk
  <2> QED BY <2>1, <2>5
<1> HIDE DEF s0
<1>5. Reached(m, s1, D, Q, rt, other, c, NVA + 4) /\ s1.ok = TRUE
  <2>1. Reached(m, Descend(s0, Idx(NVA + 4)), D, Q, rt, other, c, NVA + 4)
    BY <1>2, <1>3, <1>c, DescendStep
  <2>2. Descend(s0, 0).ok = TRUE
    BY <1>2, <1>4
  <2> QED BY <1>3, <2>1, <2>2
<1> HIDE DEF s1
<1>6. Reached(m, s2, D, Q, rt, other, c, NVA + 3) /\ s2.ok = TRUE
  <2>1. Reached(m, Descend(s1, Idx(NVA + 3)), D, Q, rt, other, c, NVA + 3)
    BY <1>3, <1>5, <1>c, DescendStep
  <2>2. Descend(s1, 0).ok = TRUE
    BY <1>4, <1>5
  <2> QED BY <1>3, <2>1, <2>2
<1> HIDE DEF s2
<1>7. s3.ok = TRUE
  BY <1>4, <1>6
<1> QED BY <1>1, <1>7

-----------------------------------------------------------------------------
(* A new page for a process. *)

(* A page that was free is mapped at va in c's space, and holds 0. *)
NewPage(m, t, D, Q, rt, other, c, va, n, w) ==
    /\ t.ok = TRUE
    /\ Sound(t.m, D, Q, rt, other)
    /\ Mapped(m, t.m, Q, rt, c, va, n, w)
    /\ t.m.mem[n].data = 0

(* kalloc(), memset() and try_map(), when try_map() gets its tables. *)
LEMMA MapNew ==
    ASSUME NEW D, NEW m, NEW Q, NEW rt, NEW other, Sound(m, D, Q, rt, other),
           NEW c \in Q, rt[c] # NoPage, NEW va \in VA, Slot(m, rt[c], va) = NoPage,
           NEW n \in Phys, m.rc[n] = 0, NEW w \in BOOLEAN,
           MakeTables(Claim(m, n, Zero), rt[c], Half(va)).ok = TRUE
    PROVE  NewPage(m, TryMap(Claim(m, n, Zero), rt[c], va, n, w),
                   D, Q, rt, other, c, va, n, w)
<1>0. /\ m \in Memories(D) /\ va \in Places
      /\ other \in [Phys -> {0, 1}] /\ 0 \in D
  BY MemoryAssumption DEF Sound, Setting, VA, Places
<1> DEFINE mc == Claim(m, n, Zero)
           oth1 == [other EXCEPT ![n] = 1]
           t == TryMap(mc, rt[c], va, n, w)
           k == MakeTables(mc, rt[c], Half(va))
<1>1. t.ok = TRUE
  <2>1. k.ok = TRUE
    OBVIOUS
  <2>2. t = IF k.ok THEN [m |-> Link(k.m, k.at, va, n, w), ok |-> TRUE]
            ELSE [m |-> k.m, ok |-> FALSE]
    BY DEF TryMap
  <2> HIDE DEF k
  <2> QED BY <2>1, <2>2
<1>3. /\ Sound(mc, D, Q, rt, oth1)
      /\ \A q \in Q : SameSpace(m, mc, rt[q])
      /\ other[n] = 0
  <2>1. Zero \in Contents(D)
    BY <1>0, FixedContents
  <2> QED BY <2>1, SoundClaim
<1>4. mc.rc[n] = 1 /\ mc.mem[n] = Zero /\ KeepsUsed(m, mc)
  BY <1>0, ClaimFacts
<1>5. OneMore(other, n, oth1)
  BY <1>0, <1>3 DEF OneMore
<1> HIDE DEF mc, oth1
<1>6. Slot(mc, rt[c], va) = NoPage
  BY <1>0, <1>3 DEF SameSpace
<1>8. MapOutcome(mc, t, t.m, D, Q, rt, oth1, other, c, va, n, w)
  BY <1>0, <1>3, <1>4, <1>5, <1>6, TryMapOwn
<1> DEFINE m1 == t.m
<1>10. Sound(m1, D, Q, rt, other) /\ Mapped(mc, m1, Q, rt, c, va, n, w)
  BY <1>1, <1>8 DEF MapOutcome
<1> HIDE DEF t, m1
<1>11. Mapped(m, m1, Q, rt, c, va, n, w)
  <2>1. OthersSame(m, m1, Q, rt, c)
    BY <1>3, <1>10 DEF Mapped, OthersSame, SameSpace
  <2>2. KeepsData(m, m1)
    BY <1>4, <1>10 DEF Mapped, KeepsUsed, KeepsData
  <2>3. /\ \A j \in Places : Slot(mc, rt[c], j) = Slot(m, rt[c], j)
        /\ \A j \in VA : Writable(mc, rt[c], j) <=> Writable(m, rt[c], j)
        /\ Tables \subseteq Places /\ VA \subseteq Places
    BY <1>0, <1>3, MemoryAssumption DEF SameSpace, Tables, VA, Places
  <2> QED BY <1>10, <2>1, <2>2, <2>3 DEF Mapped
<1>12. m1.mem[n].data = 0
  <2>1. mc.mem[n].data = 0
    BY <1>4 DEF Zero
  <2> QED BY <1>4, <1>10, <2>1 DEF Mapped, KeepsData
<1>13. NewPage(m, t, D, Q, rt, other, c, va, n, w)
  BY <1>1, <1>10, <1>11, <1>12, Zenon DEF NewPage, m1
<1> QED BY <1>13 DEF t, mc

(* It succeeds if there is the entry. *)
LEMMA DescendThrough ==
    ASSUME NEW a, NEW b, NEW i, NEW ok \in BOOLEAN
    PROVE  ok /\ Entry(a, b, i) # NoPage =>
               Descend([m |-> a, at |-> b, ok |-> ok], i).ok = TRUE
<1> DEFINE s == [m |-> a, at |-> b, ok |-> ok]
<1> SUFFICES ASSUME ok, Entry(a, b, i) # NoPage PROVE Descend(s, i).ok = TRUE
  OBVIOUS
<1>1. s.m = a /\ s.at = b /\ s.ok = ok
  OBVIOUS
<1>2. [s EXCEPT !.at = Entry(a, b, i)].ok = TRUE
  OBVIOUS
<1> HIDE DEF s
<1>3. Descend(s, i) = [s EXCEPT !.at = Entry(a, b, i)]
  BY <1>1, Zenon DEF Descend
<1> QED BY <1>2, <1>3

(* With the level 1 table in place try_map() needs none. *)
LEMMA TablesPresent ==
    ASSUME NEW D, NEW m, NEW Q, NEW rt, NEW other, Sound(m, D, Q, rt, other),
           NEW c \in Q, rt[c] # NoPage, NEW h \in {0, 1},
           Slot(m, rt[c], NVA + 1 + h) # NoPage
    PROVE  MakeTables(m, rt[c], h).ok = TRUE
<1> DEFINE s0 == [m |-> m, at |-> rt[c], ok |-> TRUE]
           s1 == Descend(s0, 0)
           s2 == Descend(s1, 0)
           s3 == Descend(s2, h)
<1>1. MakeTables(m, rt[c], h) = s3
  BY MakeTablesSteps
<1>2. Reached(m, s0, D, Q, rt, other, c, RootSlot) /\ s0.ok = TRUE
  BY SlotRoot, GrowsReflexive DEF Reached
<1>3. /\ NVA + 4 \in Tables \ {RootSlot} /\ Up(NVA + 4) = RootSlot /\ Idx(NVA + 4) = 0
      /\ NVA + 3 \in Tables \ {RootSlot} /\ Up(NVA + 3) = NVA + 4 /\ Idx(NVA + 3) = 0
      /\ NVA + 1 + h \in Tables \ {RootSlot} /\ Up(NVA + 1 + h) = NVA + 3
      /\ Idx(NVA + 1 + h) = h
      /\ Tables \subseteq Places
  BY MemoryAssumption DEF Tables, RootSlot, Up, Idx, Places
<1>p. Slot(m, rt[c], NVA + 3) # NoPage /\ Slot(m, rt[c], NVA + 4) # NoPage
  <2>1. Slot(m, rt[c], NVA + 3) # NoPage
    BY <1>3, UpPresent
  <2> QED BY <1>3, <2>1, UpPresent
<1>4. ASSUME NEW s, NEW k \in Tables \ {RootSlot}, Reached(m, s, D, Q, rt, other, c, Up(k)),
             s.ok = TRUE, Slot(m, rt[c], k) # NoPage
      PROVE  Descend(s, Idx(k)).ok = TRUE
  <2> DEFINE a == s.m
             b == s.at
             ok == s.ok
             i == Idx(k)
  <2>1. /\ s = [m |-> a, at |-> b, ok |-> ok] /\ ok = TRUE
        /\ Sound(a, D, Q, rt, other) /\ Grows(m, a, Q, rt, c)
        /\ b = Slot(a, rt[c], Up(k))
    BY <1>4, Zenon DEF Reached
  <2> HIDE DEF a, b, ok
  <2>2. a \in Memories(D) /\ ok \in BOOLEAN /\ ok
    BY <2>1 DEF Sound
  <2>3. Entry(a, b, i) # NoPage
    <3>1. Slot(a, rt[c], k) # NoPage
      BY <1>4, <2>1 DEF Grows
    <3> QED BY <1>3, <2>1, <3>1, SlotIsEntry
  <2> HIDE DEF i
  <2>5. Descend([m |-> a, at |-> b, ok |-> ok], i).ok = TRUE
    BY <2>2, <2>3, DescendThrough
  <2> QED BY <2>1, <2>5 DEF i
<1> HIDE DEF s0
<1>5. Reached(m, s1, D, Q, rt, other, c, NVA + 4) /\ s1.ok = TRUE
  <2>1. Reached(m, Descend(s0, Idx(NVA + 4)), D, Q, rt, other, c, NVA + 4)
    BY <1>2, <1>3, DescendStep
  <2>2. Descend(s0, Idx(NVA + 4)).ok = TRUE
    BY <1>2, <1>3, <1>4, <1>p
  <2> QED BY <1>3, <2>1, <2>2
<1> HIDE DEF s1
<1>6. Reached(m, s2, D, Q, rt, other, c, NVA + 3) /\ s2.ok = TRUE
  <2>1. Reached(m, Descend(s1, Idx(NVA + 3)), D, Q, rt, other, c, NVA + 3)
    BY <1>3, <1>5, DescendStep
  <2>2. Descend(s1, Idx(NVA + 3)).ok = TRUE
    BY <1>3, <1>4, <1>5, <1>p
  <2> QED BY <1>3, <2>1, <2>2
<1> HIDE DEF s2
<1>7. s3.ok = TRUE
  <2>1. Descend(s2, Idx(NVA + 1 + h)).ok = TRUE
    BY <1>3, <1>4, <1>6
  <2> QED BY <1>3, <2>1
<1> QED BY <1>1, <1>7

(* page_alloc's work on memory, in a space with its tables. *)
LEMMA AllocSound ==
    ASSUME NEW D, NEW m, NEW Q, NEW rt, NEW other, Sound(m, D, Q, rt, other),
           NEW c \in Q, rt[c] # NoPage, NEW va \in VA, Slot(m, rt[c], va) = NoPage,
           Slot(m, rt[c], Up(va)) # NoPage, NEW w \in BOOLEAN, Kalloc(m).p # NoPage
    PROVE  \E n \in Phys :
               NewPage(m, TryMap(Zeroed(Kalloc(m).m, Kalloc(m).p), rt[c], va, Kalloc(m).p, w),
                       D, Q, rt, other, c, va, n, w)
<1>0. m \in Memories(D) /\ 0 \in D
  BY DEF Sound, Setting
<1>1. PICK n \in Phys : m.rc[n] = 0 /\ Kalloc(m) = [m |-> Claim(m, n, Junk), p |-> n]
  BY <1>0, KallocEffect
<1> DEFINE mc == Claim(m, n, Zero)
           oth1 == [other EXCEPT ![n] = 1]
<1>2. Zeroed(Kalloc(m).m, Kalloc(m).p) = mc /\ Kalloc(m).p = n
  <2>1. [Claim(m, n, Junk) EXCEPT !.mem[n] = Zero] = mc
    BY <1>0, ClaimZeroed
  <2> QED BY <1>1, <2>1 DEF Zeroed
<1>3. Sound(mc, D, Q, rt, oth1) /\ SameSpace(m, mc, rt[c])
  <2>1. Zero \in Contents(D)
    BY <1>0, FixedContents
  <2> QED BY <1>1, <2>1, SoundClaim
<1>4. Half(va) \in {0, 1} /\ NVA + 1 + Half(va) = Up(va) /\ Up(va) \in Places
  <2>1. Half(va) \in {0, 1}
    BY DEF Half
  <2> QED BY <2>1, LeafPlace, SlotIsEntry DEF Up
<1>5. Slot(mc, rt[c], NVA + 1 + Half(va)) # NoPage
  BY <1>3, <1>4 DEF SameSpace
<1> HIDE DEF oth1
<1>6. MakeTables(mc, rt[c], Half(va)).ok = TRUE
  <2> HIDE DEF mc
  <2> QED BY <1>3, <1>4, <1>5, TablesPresent
<1>7. NewPage(m, TryMap(mc, rt[c], va, n, w), D, Q, rt, other, c, va, n, w)
  BY <1>1, <1>6, MapNew
<1> QED BY <1>2, <1>7

-----------------------------------------------------------------------------
(* process_setup() *)

(* A new page holding 0 is mapped at va in c's space. *)
Loaded(m, m1, D, Q, rt, other, P, c, va, w) ==
    /\ Sound(m1, D, Q, rt, other)
    /\ Roomy(m1, Q, rt, other, P)
    /\ \E n \in Phys : Mapped(m, m1, Q, rt, c, va, n, w) /\ m1.mem[n].data = 0

(* The loader does not run out of memory. *)
LEMMA LoadSound ==
    ASSUME NEW D, NEW m, NEW Q, NEW rt, NEW other, Sound(m, D, Q, rt, other),
           \A p \in Phys : other[p] = 0,
           NEW P, Roomy(m, Q, rt, other, P), NEW c \in P, rt[c] # NoPage,
           NEW va \in {1, NVA}, Slot(m, rt[c], va) = NoPage, NEW w \in BOOLEAN
    PROVE  Loaded(m, Load(m, rt[c], va, w), D, Q, rt, other, P, c, va, w)
<1>0. /\ m \in Memories(D) /\ c \in Q /\ va \in VA /\ va \in Places
      /\ other \in [Phys -> {0, 1}] /\ 0 \in D
  BY MemoryAssumption DEF Sound, Setting, Roomy, VA, Places
<1>1. PICK n \in Phys : m.rc[n] = 0 /\ Kalloc(m) = [m |-> Claim(m, n, Junk), p |-> n]
  BY <1>0, RoomLeft, KallocEffect
<1> DEFINE mc == Claim(m, n, Zero)
           oth1 == [other EXCEPT ![n] = 1]
           t == TryMap(mc, rt[c], va, n, w)
<1>2. Load(m, rt[c], va, w) = t.m
  <2>1. Zeroed(Kalloc(m).m, Kalloc(m).p) = mc /\ Kalloc(m).p = n
    <3>1. [Claim(m, n, Junk) EXCEPT !.mem[n] = Zero] = mc
      BY <1>0, ClaimZeroed
    <3> QED BY <1>1, <3>1 DEF Zeroed
  <2> QED BY <2>1, Zenon DEF Load
<1>3. /\ Sound(mc, D, Q, rt, oth1)
      /\ \A q \in Q : SameSpace(m, mc, rt[q])
  <2>1. Zero \in Contents(D)
    BY <1>0, FixedContents
  <2> QED BY <1>1, <2>1, SoundClaim
<1>4. mc.rc[n] = 1 /\ mc.mem[n] = Zero /\ KeepsUsed(m, mc)
  BY <1>0, <1>1, ClaimFacts
<1>o. oth1[n] = 1 /\ \A p \in Phys \ {n} : oth1[p] = 0
  BY <1>0
<1> HIDE DEF mc, oth1
<1>6. Slot(mc, rt[c], va) = NoPage
  BY <1>0, <1>3 DEF SameSpace
<1>7. Roomy(mc, Q, rt, oth1, P)
  <2>1. \A q \in Q, j \in Places : Slot(mc, rt[q], j) = Slot(m, rt[q], j)
    BY <1>3 DEF SameSpace
  <2>2. /\ \A p \in Phys \ {n} : oth1[p] = 0
        /\ \E q \in P, j \in {1, NVA} : Slot(mc, rt[q], j) = NoPage
    BY <1>o, <1>6
  <2> QED BY <2>1, <2>2 DEF Roomy
<1>9. MakeTables(mc, rt[c], Half(va)).ok = TRUE
  <2>1. Half(va) \in {0, 1}
    BY DEF Half
  <2> QED BY <1>3, <1>7, <2>1, MakeTablesOk
<1> DEFINE m1 == t.m
<1>10. NewPage(m, t, D, Q, rt, other, c, va, n, w)
  BY <1>0, <1>1, <1>9, MapNew DEF mc
<1> HIDE DEF t
<1>11. /\ Sound(m1, D, Q, rt, other) /\ Mapped(m, m1, Q, rt, c, va, n, w)
       /\ m1.mem[n].data = 0
  BY <1>10 DEF NewPage
<1> HIDE DEF m1
<1>13. Roomy(m1, Q, rt, other, P)
  <2>1. \A q \in Q, j \in Places : Slot(m1, rt[q], j) # NoPage =>
            q \in P /\ (j \in VA => j \in {1, NVA})
    <3>1. \A j \in VA : j \in Places
      BY MemoryAssumption DEF VA, Places
    <3>2. \A j \in VA : Slot(m1, rt[c], j) # NoPage => j \in {1, NVA}
      BY <1>0, <1>11, <3>1 DEF Mapped, Roomy
    <3> QED BY <1>11, <3>2 DEF Mapped, OthersSame, SameSpace, Roomy
  <2> QED BY <2>1 DEF Roomy
<1>14. Loaded(m, m1, D, Q, rt, other, P, c, va, w)
  BY <1>11, <1>13 DEF Loaded
<1> QED BY <1>2, <1>14 DEF m1, t
(* The space that process_setup() makes: a page that cannot be written at   *)
(* the lowest address, one that can at the highest.                         *)
FirstSpace(m, root) ==
    /\ root \in Phys
    /\ Slot(m, root, NVA + 1) # NoPage
    /\ \A va \in VA : /\ Slot(m, root, va) # NoPage <=> va \in {1, NVA}
                      /\ Slot(m, root, va) # NoPage => m.mem[Slot(m, root, va)].data = 0
                      /\ Writable(m, root, va) <=> va = NVA

SetUp(m, s, D, Q, rt, other, P, c) ==
    /\ FirstSpace(s.m, s.root)
    /\ Sound(s.m, D, Q, [rt EXCEPT ![c] = s.root], other)
    /\ Roomy(s.m, Q, [rt EXCEPT ![c] = s.root], other, P)
    /\ OthersSame(m, s.m, Q, rt, c)
    /\ KeepsData(m, s.m)

(* process_setup() makes such a space, if there is room for it. *)
THEOREM SetupSpaceSound ==
    ASSUME NEW D, NEW m, NEW Q, NEW rt, NEW other, Sound(m, D, Q, rt, other),
           \A p \in Phys : other[p] = 0,
           NEW P, Roomy(m, Q, rt, other, P), NEW c \in P, rt[c] = NoPage
    PROVE  SetUp(m, SetupSpace(m), D, Q, rt, other, P, c)
<1>0. m \in Memories(D) /\ c \in Q /\ Setting(D, Q, rt, other) /\ 1 \in VA /\ NVA \in VA /\ 1 # NVA
      /\ VA \subseteq Places /\ NVA + 1 \in Tables
  BY MemoryAssumption DEF Sound, Roomy, VA, Places, Tables
<1>1. PICK n \in Phys : m.rc[n] = 0 /\ Kalloc(m) = [m |-> Claim(m, n, Junk), p |-> n]
  BY <1>0, RoomLeft, KallocEffect
<1> DEFINE m1 == Claim(m, n, Zero)
           rt1 == [rt EXCEPT ![c] = n]
           k == MakeTables(m1, n, 0)
           m2 == k.m
           m3 == Load(m2, n, 1, FALSE)
           m4 == Load(m3, n, NVA, TRUE)
<1>2. SetupSpace(m) = [m |-> m4, root |-> n]
  <2>1. Zeroed(Kalloc(m).m, Kalloc(m).p) = m1 /\ Kalloc(m).p = n
    <3>1. [Claim(m, n, Junk) EXCEPT !.mem[n] = Zero] = m1
      BY <1>0, ClaimZeroed
    <3> QED BY <1>1, <3>1 DEF Zeroed
  <2> QED BY <2>1, Zenon DEF SetupSpace
<1>3. n # NoPage
  BY DEF Phys, NoPage
<1>4. /\ Sound(m1, D, Q, rt1, other)
      /\ \A q \in Q : SameSpace(m, m1, rt[q])
      /\ KeepsUsed(m, m1)
      /\ \A va \in VA : Slot(m1, n, va) = NoPage
  BY <1>0, <1>1, AdoptRoot
<1>5. rt1[c] = n /\ (\A q \in Q \ {c} : rt1[q] = rt[q])
  BY <1>0 DEF Setting
<1> HIDE DEF m1, rt1
<1>6. Roomy(m1, Q, rt1, other, P)
  <2>1. ASSUME NEW q \in Q, NEW j \in Places, Slot(m1, rt1[q], j) # NoPage
        PROVE  q \in P /\ (j \in VA => j \in {1, NVA})
    <3>1. CASE q = c
      BY <1>4, <1>5, <2>1, <3>1
    <3>2. CASE q # c
      <4>1. Slot(m, rt[q], j) # NoPage
        BY <1>4, <1>5, <2>1, <3>2 DEF SameSpace
      <4> QED BY <4>1 DEF Roomy
    <3> QED BY <3>1, <3>2
  <2> QED BY <2>1 DEF Roomy
<1>7. Reached(m1, k, D, Q, rt1, other, c, NVA + 1) /\ k.ok = TRUE
  <2>1. PICK h \in {0, 1} : h = 0
    OBVIOUS
  <2>2. Reached(m1, MakeTables(m1, rt1[c], h), D, Q, rt1, other, c, NVA + 1 + h)
    BY <1>0, <1>3, <1>4, <1>5, MakeTablesSound
  <2>3. MakeTables(m1, rt1[c], h).ok = TRUE
    BY <1>3, <1>4, <1>5, <1>6, MakeTablesOk
  <2>4. NVA + 1 + h = NVA + 1
    BY <2>1, MemoryAssumption
  <2> QED BY <1>5, <2>1, <2>2, <2>3, <2>4
<1> HIDE DEF k
<1>8. /\ Sound(m2, D, Q, rt1, other)
      /\ Grows(m1, m2, Q, rt1, c)
      /\ Slot(m2, n, NVA + 1) # NoPage
  BY <1>5, <1>7, Zenon DEF Reached
<1> HIDE DEF m2
<1>9. Roomy(m2, Q, rt1, other, P)
  BY <1>6, <1>8, GrowsRoomy
<1>10. /\ \A va \in VA : Slot(m2, n, va) = NoPage /\ ~Writable(m2, n, va)
       /\ \A q \in Q \ {c} : SameSpace(m, m2, rt[q])
       /\ KeepsData(m, m2)
  <2>1. \A va \in VA : Slot(m2, n, va) = NoPage
    BY <1>4, <1>5, <1>8 DEF Grows
  <2>2. \A va \in VA : ~Writable(m2, n, va)
    BY <2>1, LeafPlace DEF Writable
  <2>3. \A q \in Q \ {c} : SameSpace(m, m2, rt[q])
    BY <1>4, <1>5, <1>8 DEF Grows, OthersSame, SameSpace
  <2>4. KeepsData(m, m2)
    BY <1>4, <1>8 DEF Grows, KeepsUsed, KeepsData
  <2> QED BY <2>1, <2>2, <2>3, <2>4
<1>11. PICK n1 \in Phys, w1 \in BOOLEAN :
            /\ Sound(m3, D, Q, rt1, other) /\ Roomy(m3, Q, rt1, other, P)
            /\ Mapped(m2, m3, Q, rt1, c, 1, n1, w1) /\ m3.mem[n1].data = 0 /\ ~w1
  <2>1. PICK w1 \in BOOLEAN : w1 = FALSE
    OBVIOUS
  <2>2. 1 \in {1, NVA} /\ Slot(m2, rt1[c], 1) = NoPage /\ rt1[c] # NoPage
    BY <1>0, <1>3, <1>5, <1>10
  <2>3. Loaded(m2, Load(m2, rt1[c], 1, w1), D, Q, rt1, other, P, c, 1, w1)
    BY <1>8, <1>9, <2>2, LoadSound
  <2>4. Loaded(m2, m3, D, Q, rt1, other, P, c, 1, w1)
    BY <1>5, <2>1, <2>3
  <2> HIDE DEF m3
  <2> QED BY <2>1, <2>4 DEF Loaded
<1> HIDE DEF m3
<1>12. /\ \A va \in VA : Slot(m3, n, va) = IF va = 1 THEN n1 ELSE NoPage
       /\ \A va \in VA : ~Writable(m3, n, va)
       /\ Slot(m3, n, NVA + 1) # NoPage
       /\ \A q \in Q \ {c} : SameSpace(m, m3, rt[q])
       /\ KeepsData(m, m3)
       /\ m3.mem[n1].data = 0
  <2>1. /\ \A va \in VA : Slot(m3, n, va) = IF va = 1 THEN n1 ELSE NoPage
        /\ \A va \in VA : ~Writable(m3, n, va)
    BY <1>5, <1>10, <1>11 DEF Mapped
  <2>2. Slot(m3, n, NVA + 1) # NoPage
    BY <1>0, <1>5, <1>8, <1>11 DEF Mapped
  <2>3. \A q \in Q \ {c} : SameSpace(m, m3, rt[q])
    BY <1>5, <1>10, <1>11 DEF Mapped, OthersSame, SameSpace
  <2>4. KeepsData(m, m3)
    BY <1>10, <1>11 DEF Mapped, KeepsData
  <2> QED BY <1>11, <2>1, <2>2, <2>3, <2>4
<1>13. PICK n2 \in Phys, w2 \in BOOLEAN :
            /\ Sound(m4, D, Q, rt1, other) /\ Roomy(m4, Q, rt1, other, P)
            /\ Mapped(m3, m4, Q, rt1, c, NVA, n2, w2) /\ m4.mem[n2].data = 0 /\ w2
  <2>1. PICK w2 \in BOOLEAN : w2 = TRUE
    OBVIOUS
  <2>2. NVA \in {1, NVA} /\ Slot(m3, rt1[c], NVA) = NoPage /\ rt1[c] # NoPage
    BY <1>0, <1>3, <1>5, <1>12
  <2>3. Loaded(m3, Load(m3, rt1[c], NVA, w2), D, Q, rt1, other, P, c, NVA, w2)
    BY <1>11, <2>2, LoadSound
  <2>4. Loaded(m3, m4, D, Q, rt1, other, P, c, NVA, w2)
    BY <1>5, <2>1, <2>3
  <2> HIDE DEF m4
  <2> QED BY <2>1, <2>4 DEF Loaded
<1> HIDE DEF m4
<1>14. FirstSpace(m4, n)
  <2>1. \A va \in VA : /\ Slot(m4, n, va) = IF va = NVA THEN n2
                                            ELSE IF va = 1 THEN n1 ELSE NoPage
                       /\ Writable(m4, n, va) <=> va = NVA
    BY <1>5, <1>12, <1>13 DEF Mapped
  <2>2. Slot(m4, n, NVA + 1) # NoPage
    BY <1>0, <1>5, <1>12, <1>13 DEF Mapped
  <2>3. n1 # NoPage /\ n2 # NoPage
    BY DEF Phys, NoPage
  <2>4. m4.mem[n1].data = 0
    <3>1. 1 \in Places /\ Slot(m3, rt1[c], 1) = n1 /\ n1 # NoPage
      BY <1>0, <1>5, <1>12, <2>3
    <3>2. m3.rc[n1] > 0
      BY <1>0, <1>11, <3>1, ReferredPositive
    <3> QED BY <1>12, <1>13, <3>2 DEF Mapped, KeepsData
  <2>5. \A va \in VA : /\ Slot(m4, n, va) # NoPage <=> va \in {1, NVA}
                       /\ Slot(m4, n, va) # NoPage => m4.mem[Slot(m4, n, va)].data = 0
                       /\ Writable(m4, n, va) <=> va = NVA
    BY <1>0, <1>13, <2>1, <2>3, <2>4
  <2> QED BY <2>2, <2>5 DEF FirstSpace
<1>15. OthersSame(m, m4, Q, rt, c) /\ KeepsData(m, m4)
  <2>1. OthersSame(m, m4, Q, rt, c)
    BY <1>5, <1>12, <1>13 DEF Mapped, OthersSame, SameSpace
  <2>2. KeepsData(m, m4)
    BY <1>12, <1>13 DEF Mapped, KeepsData
  <2> QED BY <2>1, <2>2
<1> DEFINE s == SetupSpace(m)
<1>16. s.m = m4 /\ s.root = n
  BY <1>2
<1> HIDE DEF s
<1>17. SetUp(m, s, D, Q, rt, other, P, c)
  BY <1>13, <1>14, <1>15, <1>16, Zenon DEF SetUp, rt1
<1> QED BY <1>17 DEF s

-----------------------------------------------------------------------------
(* Writing to memory *)

(* Memory after v was written to page p. *)
Poked(m, p, v) == [rc |-> m.rc, mem |-> [m.mem EXCEPT ![p].data = v]]

(* What data pages hold does not matter to the counts and tables. *)
LEMMA WriteSound ==
    ASSUME NEW D, NEW m, NEW Q, NEW rt, NEW other, Sound(m, D, Q, rt, other),
           NEW p \in Phys, NEW v \in D, NEW m1,
           m1 = Poked(m, p, v)
    PROVE  /\ Sound(m1, D, Q, rt, other)
           /\ \A q \in Q : SameSpace(m, m1, rt[q])
           /\ m1.mem[p].data = v
           /\ \A o \in Phys \ {p} : m1.mem[o].data = m.mem[o].data
<1>0. /\ m \in Memories(D) /\ rt \in [Q -> Phys \cup {NoPage}]
      /\ m.rc \in [Phys -> 0..255] /\ m.mem \in [Phys -> Contents(D)]
  BY DEF Sound, Setting, Memories
<1>1. /\ m1.rc = m.rc
      /\ m1.mem = [m.mem EXCEPT ![p].data = v]
  BY DEF Poked
<1>2. m.mem[p] \in Contents(D)
  BY <1>0
<1>3. [m.mem[p] EXCEPT !.data = v] \in Contents(D)
  BY <1>2 DEF Contents
<1>4. /\ m1.mem[p] = [m.mem[p] EXCEPT !.data = v]
      /\ \A o \in Phys \ {p} : m1.mem[o] = m.mem[o]
  BY <1>0, <1>1
<1>5. /\ m1.mem[p].junk = m.mem[p].junk /\ m1.mem[p].e = m.mem[p].e
      /\ m1.mem[p].data = v
  BY <1>2, <1>4 DEF Contents
<1>6. m1 \in Memories(D)
  <2>1. m1.mem \in [Phys -> Contents(D)]
    BY <1>0, <1>1, <1>3
  <2> QED BY <1>0, <1>1, <2>1 DEF Memories, Poked
<1>7. \A o \in Phys : m1.mem[o].junk = m.mem[o].junk /\ m1.mem[o].e = m.mem[o].e
  BY <1>4, <1>5
<1>8. ASSUME NEW q \in Q PROVE SameSpace(m, m1, rt[q])
  <2>1. \A j \in Tables : LET t == Slot(m, rt[q], j) IN t # NoPage => m1.mem[t].e = m.mem[t].e
    <3>1. \A j \in Tables : Slot(m, rt[q], j) \in Phys \cup {NoPage}
      <4>1. rt[q] \in Phys \cup {NoPage}
        BY <1>0
      <4>2. \A j \in Places : Slot(m, rt[q], j) \in Phys \cup {NoPage}
        BY <1>0, <4>1, SlotType
      <4> QED BY <4>2, MemoryAssumption DEF Tables, Places
    <3> QED BY <1>7, <3>1
  <2> QED BY <2>1, SlotsFrame
<1>9. CountsRight(m1, Q, rt, other)
  <2>1. \A o \in Phys : Refs(m1, Q, rt, o) = Refs(m, Q, rt, o)
    BY <1>8 DEF Refs, SameSpace
  <2> QED BY <1>1, <2>1 DEF CountsRight, Sound
<1>10. TablesOwn(m1, Q, rt)
  <2>1. \A q \in Q, j \in Tables : /\ Slot(m1, rt[q], j) = Slot(m, rt[q], j)
                                   /\ Slot(m, rt[q], j) \in Phys \cup {NoPage}
    BY <1>0, <1>8, SlotType, MemoryAssumption DEF SameSpace, Tables, Places
  <2> QED BY <1>1, <1>7, <2>1 DEF TablesOwn, Sound
<1>11. \A q \in Q, va \in VA : /\ Lookup(m1, rt[q], va) = Lookup(m, rt[q], va)
                               /\ Writable(m1, rt[q], va) <=> Writable(m, rt[q], va)
  BY <1>8, LeafPlace DEF SameSpace
<1>12. WritableOwn(m1, Q, rt) /\ SharedAlike(m1, Q, rt)
  BY <1>1, <1>11 DEF WritableOwn, SharedAlike, Sound
<1>13. OthersOwn(m1, other)
  BY <1>1 DEF OthersOwn, Sound
<1> QED BY <1>4, <1>5, <1>6, <1>8, <1>9, <1>10, <1>12, <1>13 DEF Sound
=============================================================================
