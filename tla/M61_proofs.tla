------------------------------ MODULE M61_proofs ------------------------------
(***************************************************************************)
(* Proofs about the debugging allocator (M61, under the programs of        *)
(* M61MC): for any heap, any number of calls, call sites and counters.     *)
(***************************************************************************)
EXTENDS M61MC, FiniteSetTheorems, WellFoundedInduction, NaturalsInduction, TLAPS

(* What the proofs call the parts of a memory and of the other variables.  *)
(* Place 0 is first_node; a link leads to a place or is NoLink.            *)
Places == {0} \cup Slots
Links == Places \cup {NoLink}
HeaderType == [is : {"header"}, size : Nat, tag : {"none", "live", "freed"},
               site : Sites \cup {NoSite}, prev : Links, next : Links]
CellType == HeaderType \cup {Junk, Foot}
Programs == {"heap", "hhtest"}
Costs == [bytes : Nat, calls : Nat]
HitterType == [n : Nat, site : Sites \cup {NoSite}]
Stats == [mallocs : Int, frees : Int, active : Int, total : Int, fails : Int, failed : Int,
          min : Int, max : Int]

(* The types of the variables.                                             *)
Typed ==
    /\ mem \in [Places -> [0..Span - 1 -> CellType]]
    /\ stat \in Stats
    /\ live \in Seq([slot : Slots, size : 0..Span - 2, site : Sites])
    /\ past \subseteq [slot : Slots, size : 0..Span - 2]
    /\ wild \subseteq Slots
    /\ made \in [Sites -> Costs]
    /\ program \in Programs /\ todo \in Nat

(* The list as the history has it: first_node on both sides of the blocks.  *)
At(i) == IF i \in 1..Len(live) THEN live[i].slot ELSE 0
Distinct == \A i, j \in 1..Len(live) : live[i].slot = live[j].slot => i = j
(* The blocks of the list, from first_node and back to it, are a ring of   *)
(* links, next and prev inverse to each other; before the first allocation *)
(* first_node has no links.                                                *)
Threaded ==
    /\ First.is = "header"
    /\ IF past = {} THEN live = <<>> /\ First.next = NoLink /\ First.prev = NoLink
       ELSE \A i \in 0..Len(live) : /\ mem[At(i)][0].next = At(i + 1)
                                    /\ mem[At(i + 1)][0].prev = At(i)
(* The header of a live block says what was asked for, and its end is as   *)
(* m61_malloc() left it unless the program wrote past it.                  *)
HeadersRight ==
    \A i \in 1..Len(live) : LET h == mem[live[i].slot][0] IN
       /\ h.is = "header" /\ h.tag = "live" /\ h.size = live[i].size /\ h.site = live[i].site
       /\ [slot |-> live[i].slot, size |-> live[i].size] \in past
       /\ mem[live[i].slot][live[i].size + 1] = Foot <=> live[i].slot \notin wild

(* What was once a block: no block of the list leads to it.                 *)
StaleRight ==
    /\ \A s \in Slots : mem[s][0].is = "header" <=> \E b \in past : b.slot = s
    /\ \A s \in Slots : mem[s][0].is = "header" /\ ~IsLive(s) =>
         /\ mem[s][0].prev \in Places /\ mem[mem[s][0].prev][0].is = "header"
         /\ mem[mem[s][0].prev][0].next # s
         /\ mem[s][0].tag = "freed"
    /\ \A s \in Places, o \in 1..Span - 1 : mem[s][o].is = "header" => mem[s][o].tag = "live"

(* The base allocator has lent the blocks that are live, and keeps others. *)
LentRight == /\ DOMAIN lent = {live[i].slot : i \in 1..Len(live)}
             /\ DOMAIN spare \subseteq Slots \ DOMAIN lent

(* The heap's bounds are those of all blocks there ever were.              *)
LimitsRight ==
    /\ past = {} => stat.min = 2 * Span * Wrap /\ stat.max = 0
    /\ past # {} => /\ \E b \in past : stat.min = Addr(Payload(b.slot))
                    /\ \E b \in past : stat.max = Addr(Payload(b.slot)) + (2 * b.size)
    /\ \A b \in past : /\ stat.min <= Addr(Payload(b.slot))
                       /\ Addr(Payload(b.slot)) + (2 * b.size) <= stat.max

(* The sums, none of which reaches Wrap. *)
Largest == IF program = "hhtest" THEN 3 ELSE 2
SumsRight ==
    /\ Nactive = Len(live) /\ stat.mallocs = SumFunction(Calls)
    /\ stat.total = SumFunction(Bytes) /\ stat.active = SumFunction([s \in Slots |-> Held(s)])
    /\ stat.total + (Largest * todo) < Wrap
    /\ stat.active <= stat.total

(* The counters of the heavy hitters.                                       *)
Hitters(h, cost, total) ==
    /\ h \in [Counters -> HitterType]
    /\ \A i \in Counters : h[i].n # 0 => h[i].site \in Sites
    /\ \A i, j \in Counters : h[i].n # 0 /\ h[j].n # 0 /\ h[i].site = h[j].site => i = j
    /\ \A x \in Sites : /\ Shown(h, x) <= cost[x]
                        /\ N1 * (cost[x] - Shown(h, x))
                             <= total - SumFunction([i \in Counters |-> h[i].n])
(* The counters until the report, which uses them up, and the report then. *)
HittersRight ==
    IF said.what = "report"
    THEN /\ program = "hhtest" /\ todo = 0 /\ live = <<>>
         /\ ReportRight(said.bytes, Bytes, stat.total) /\ ReportRight(said.calls, Calls, stat.mallocs)
    ELSE Hitters(byBytes, Bytes, stat.total) /\ Hitters(byCalls, Calls, stat.mallocs)

HeapInv == /\ Distinct /\ Threaded /\ HeadersRight /\ StaleRight /\ LentRight /\ LimitsRight
(* The inductive invariant.                                                *)
IInv == Typed /\ HeapInv /\ SumsRight /\ HittersRight

------------------------------------------------------------------------------
(* Sums of functions over finite sets.                                      *)

(* Every set of numbers has a least one.                                   *)
LEMMA LeastNat ==
    ASSUME NEW T, T \subseteq Nat, T # {}
    PROVE  \E n \in T : \A k \in T : n <= k
<1> DEFINE R == {ss \in Nat \X Nat : ss[1] < ss[2]}
<1>1. \E a \in T : \A b \in T : ~ (<<b, a>> \in R)
  <2>1. IsWellFoundedOn(R, Nat)
    BY NatLessThanWellFounded DEF OpToRel
  <2> HIDE DEF R
  <2> QED
    BY <2>1, WFMin
<1>2. PICK a \in T : \A b \in T : ~ (<<b, a>> \in R)
  BY <1>1
<1>3. ASSUME NEW b \in T PROVE a <= b
  <2>1. a \in Nat /\ b \in Nat /\ ~(<<b, a>> \in Nat \X Nat /\ b < a)
    BY <1>2
  <2> QED
    BY <2>1
<1> QED
  BY <1>3

(* SumFunction(f) is defined by recursion over the subsets of f's domain:  *)
(* Table is that recursion, and takes one element after the other away.    *)
Some(s) == CHOOSE x \in s : TRUE
Rest(s) == s \ {Some(s)}
Step(f, g, s) == IF s = {} THEN 0 ELSE f[Some(s)] + g[Rest(s)]
IsTable(f, S, g) == g = [s \in SUBSET S |-> Step(f, g, s)]
Table(f, S) == CHOOSE g : IsTable(f, S, g)

(* A finite set without one of its elements is finite and smaller.         *)
LEMMA RestIs ==
    ASSUME NEW s, IsFiniteSet(s), s # {}
    PROVE  /\ Some(s) \in s /\ Rest(s) \subseteq s /\ IsFiniteSet(Rest(s))
           /\ Cardinality(s) \in Nat /\ Cardinality(Rest(s)) = Cardinality(s) - 1
           /\ Cardinality(Rest(s)) \in Nat
<1>1. Some(s) \in s
  BY DEF Some
<1>2. /\ IsFiniteSet(Rest(s)) /\ Cardinality(Rest(s)) = Cardinality(s) - 1
  BY <1>1, FS_RemoveElement DEF Rest
<1>3. Cardinality(s) \in Nat /\ Cardinality(Rest(s)) \in Nat
  BY <1>2, FS_CardinalityType
<1> QED
  BY <1>1, <1>2, <1>3 DEF Rest

(* What holds of no element, and of a set when it holds without one of its  *)
(* elements, holds of every finite set.                                     *)
LEMMA SetsInduct ==
    ASSUME NEW S, IsFiniteSet(S), NEW Q, {} \in Q,
           \A s \in SUBSET S : s # {} /\ Rest(s) \in Q => s \in Q
    PROVE  \A s \in SUBSET S : s \in Q
<1> DEFINE N == {Cardinality(s) : s \in {t \in SUBSET S : t \notin Q}}
<1> SUFFICES ASSUME NEW s0 \in SUBSET S, s0 \notin Q PROVE FALSE
  OBVIOUS
<1>1. \A s \in SUBSET S : IsFiniteSet(s) /\ Cardinality(s) \in Nat
  BY FS_Subset, FS_CardinalityType
<1>2. N \subseteq Nat /\ N # {}
  BY <1>1
<1>3. PICK n \in N : \A k \in N : n <= k
  <2> HIDE DEF N
  <2> QED
    BY <1>2, LeastNat
<1>4. PICK s \in SUBSET S : s \notin Q /\ n = Cardinality(s)
  BY <1>3
<1>5. s # {}
  BY <1>4
<1>6. /\ Rest(s) \in SUBSET S /\ Cardinality(Rest(s)) = Cardinality(s) - 1
      /\ Cardinality(s) \in Nat
  <2>1. IsFiniteSet(s)
    BY <1>1
  <2> QED
    BY <1>5, <2>1, RestIs
<1>7. Rest(s) \in Q
  <2>1. Rest(s) \notin Q => Cardinality(Rest(s)) \in N
    BY <1>6
  <2> QED
    BY <1>3, <1>4, <1>6, <2>1
<1> QED
  BY <1>4, <1>5, <1>7

(* The recursion of a sum has a solution. *)
LEMMA TableIs ==
    ASSUME NEW S, IsFiniteSet(S), NEW f
    PROVE  /\ DOMAIN Table(f, S) = SUBSET S
           /\ \A s \in SUBSET S : Table(f, S)[s] = Step(f, Table(f, S), s)
<1> DEFINE Below(n) == {s \in SUBSET S : Cardinality(s) <= n}
           Good(n, g) == /\ g = [s \in SUBSET S |-> g[s]]
                         /\ \A s \in Below(n) : g[s] = Step(f, g, s)
           T == {n \in Nat : \A g : ~Good(n, g)}
<1>0. \A s \in SUBSET S : IsFiniteSet(s) /\ Cardinality(s) \in Nat
  BY FS_Subset, FS_CardinalityType
<1>1. T = {}
  <2> SUFFICES ASSUME T # {} PROVE FALSE
    OBVIOUS
  <2>1. PICK n \in T : \A k \in T : n <= k
    <3>1. T \subseteq Nat
      OBVIOUS
    <3> HIDE DEF T
    <3> QED
      BY <3>1, LeastNat
  <2>2. n # 0
    <3>1. PICK g : g = [s \in SUBSET S |-> 0]
      OBVIOUS
    <3>2. \A s \in Below(0) : s = {}
      BY <1>0, FS_EmptySet
    <3>3. Good(0, g)
      BY <3>1, <3>2 DEF Step
    <3> QED
      BY <3>3
  <2>3. n \in Nat /\ n - 1 \in Nat /\ n - 1 \notin T
    <3>1. n \in Nat
      BY <2>1
    <3> HIDE DEF T
    <3> QED
      BY <2>1, <2>2, <3>1
  <2>4. PICK g : Good(n - 1, g)
    <3> HIDE DEF Good
    <3> QED
      BY <2>3
  <2>5. PICK h : h = [s \in SUBSET S |-> IF Cardinality(s) = n THEN Step(f, g, s) ELSE g[s]]
    OBVIOUS
  <2>6. ASSUME NEW s \in Below(n)
        PROVE  h[s] = Step(f, h, s)
    <3>1. s \in SUBSET S /\ Cardinality(s) \in Nat /\ Cardinality(s) <= n
      BY <1>0, <2>6
    <3>2. h[s] = Step(f, g, s)
      <4>1. Cardinality(s) # n => s \in Below(n - 1)
        BY <2>3, <3>1
      <4>2. h[s] = IF Cardinality(s) = n THEN Step(f, g, s) ELSE g[s]
        BY Zenon, <2>5, <3>1
      <4>3. \A r \in Below(n - 1) : g[r] = Step(f, g, r)
        BY Zenon, <2>4
      <4> HIDE DEF Below, Good
      <4> QED
        BY Zenon, <4>1, <4>2, <4>3
    <3>3. s # {} => h[Rest(s)] = g[Rest(s)]
      <4>1. s # {} => Rest(s) \in SUBSET S /\ Cardinality(Rest(s)) # n
        BY <1>0, <2>3, <3>1, RestIs
      <4> QED
        BY <2>5, <4>1
    <3> QED
      BY Zenon, <3>2, <3>3 DEF Step
  <2>7. Good(n, h)
    BY <2>5, <2>6
  <2> QED
    BY <2>1, <2>7
<1>2. \E g : IsTable(f, S, g)
  <2>1. Cardinality(S) \in Nat
    BY <1>0
  <2>2. PICK g : Good(Cardinality(S), g)
    BY <1>1, <2>1
  <2>3. \A s \in SUBSET S : s \in Below(Cardinality(S))
    BY FS_Subset
  <2>4. g = [s \in SUBSET S |-> g[s]] /\ \A s \in SUBSET S : g[s] = Step(f, g, s)
    BY <2>2, <2>3
  <2>5. g = [s \in SUBSET S |-> Step(f, g, s)]
    BY <2>4
  <2> QED
    BY Zenon, <2>5 DEF IsTable
<1>3. IsTable(f, S, Table(f, S))
  BY Zenon, <1>2 DEF Table
<1> QED
  BY Zenon, <1>3 DEF IsTable

(* What is used of a sum: SumFunction is the table at the whole domain.    *)
Summed(f, S, g) == /\ SumFunction(f) = g[S] /\ g[{}] = 0
                   /\ \A s \in SUBSET S : s # {} => g[s] = f[Some(s)] + g[Rest(s)]

(* SumFunction is the sum over any table's recursion, one element at a     *)
(* time.                                                                   *)
LEMMA SumIs ==
    ASSUME NEW S, IsFiniteSet(S), NEW f \in [S -> Int]
    PROVE  Summed(f, S, Table(f, S))
<1>0. DOMAIN f = S
  OBVIOUS
<1>1. SumFunction(f) = Table(f, S)[S]
  BY Zenon, <1>0 DEF SumFunction, SumFunctionOnSet, FoldFunctionOnSet, MapThenFoldSet, Table, IsTable,
               Step, Some, Rest
<1>2. \A s \in SUBSET S : Table(f, S)[s] = Step(f, Table(f, S), s)
  BY TableIs
<1> QED
  BY Zenon, <1>1, <1>2 DEF Step, Summed

(* Sums of integers are integers.                                          *)
LEMMA SumInt ==
    ASSUME NEW S, IsFiniteSet(S), NEW f \in [S -> Int]
    PROVE  \A s \in SUBSET S : Table(f, S)[s] \in Int
<1>1. PICK g : g = Table(f, S)
  OBVIOUS
<1>3. /\ g[{}] = 0
      /\ \A s \in SUBSET S : s # {} => g[s] = f[Some(s)] + g[Rest(s)]
  BY Zenon, <1>1, SumIs DEF Summed
<1>4. PICK Q : Q = {s \in SUBSET S : g[s] \in Int}
  OBVIOUS
<1>5. {} \in Q
  BY <1>3, <1>4
<1>6. ASSUME NEW s \in SUBSET S, s # {}, Rest(s) \in Q
      PROVE  s \in Q
  <2>1. Some(s) \in S
    BY <1>6 DEF Some
  <2>2. f[Some(s)] \in Int /\ g[Rest(s)] \in Int
    BY <1>4, <1>6, <2>1
  <2>3. g[s] = f[Some(s)] + g[Rest(s)]
    BY Zenon, <1>3, <1>6
  <2>4. g[s] \in Int
    BY <2>2, <2>3
  <2> QED
    BY Zenon, <1>4, <2>4
<1>7. \A s \in SUBSET S : s \in Q
  BY Zenon, <1>5, <1>6, SetsInduct
<1> QED
  BY Zenon, <1>1, <1>4, <1>7

(* The sum is an integer. *)
LEMMA SumTyped ==
    ASSUME NEW S, IsFiniteSet(S), NEW f \in [S -> Int]
    PROVE  SumFunction(f) \in Int
<1>1. Summed(f, S, Table(f, S)) /\ \A s \in SUBSET S : Table(f, S)[s] \in Int
  BY SumIs, SumInt
<1> QED
  BY Zenon, <1>1 DEF Summed

(* Sums add up. *)
Adds(f, g, h, S) == \A x \in S : h[x] = f[x] + g[x]
SumAdds(f, g, h) == SumFunction(h) = SumFunction(f) + SumFunction(g)

(* The sum of the sums is the sum of the functions.                        *)
LEMMA SumPlus ==
    ASSUME NEW S, IsFiniteSet(S), NEW f \in [S -> Int], NEW g \in [S -> Int],
           NEW h \in [S -> Int], Adds(f, g, h, S)
    PROVE  SumAdds(f, g, h)
<1>1. PICK F, G, H : F = Table(f, S) /\ G = Table(g, S) /\ H = Table(h, S)
  OBVIOUS
<1>3. /\ F[{}] = 0 /\ G[{}] = 0 /\ H[{}] = 0
      /\ \A s \in SUBSET S : s # {} => /\ F[s] = f[Some(s)] + F[Rest(s)]
                                       /\ G[s] = g[Some(s)] + G[Rest(s)]
                                       /\ H[s] = h[Some(s)] + H[Rest(s)]
      /\ SumFunction(f) = F[S] /\ SumFunction(g) = G[S] /\ SumFunction(h) = H[S]
  BY Zenon, <1>1, SumIs DEF Summed
<1>4. PICK Q : Q = {s \in SUBSET S : H[s] = F[s] + G[s]}
  OBVIOUS
<1>5. {} \in Q
  BY <1>3, <1>4
<1>6. ASSUME NEW s \in SUBSET S, s # {}, Rest(s) \in Q
      PROVE  s \in Q
  <2>1. Some(s) \in S /\ Rest(s) \in SUBSET S
    BY <1>6 DEF Some, Rest
  <2>2. F[Rest(s)] \in Int /\ G[Rest(s)] \in Int /\ H[Rest(s)] \in Int
    BY Zenon, <1>1, <2>1, SumInt
  <2>3. PICK x, r : x = Some(s) /\ r = Rest(s)
    OBVIOUS
  <2>4. f[x] \in Int /\ g[x] \in Int /\ h[x] = f[x] + g[x]
    BY <2>1, <2>3 DEF Adds
  <2>5. F[s] = f[x] + F[r] /\ G[s] = g[x] + G[r] /\ H[s] = h[x] + H[r]
    BY Zenon, <1>3, <1>6, <2>3
  <2>6. H[r] = F[r] + G[r]
    BY <1>4, <1>6, <2>3
  <2>7. H[s] = F[s] + G[s]
    BY <2>2, <2>3, <2>4, <2>5, <2>6
  <2> QED
    BY Zenon, <1>4, <2>7
<1>7. S \in SUBSET S /\ \A s \in SUBSET S : s \in Q
  BY Zenon, <1>5, <1>6, SetsInduct
<1> QED
  BY Zenon, <1>3, <1>4, <1>7 DEF SumAdds

(* A sum with one addend. *)
ZeroBut(f, S, x) == \A y \in S : y # x => f[y] = 0
SumOnly(f, x) == SumFunction(f) = f[x]

(* A function that is 0 but at one element sums to its value there.        *)
LEMMA SumOne ==
    ASSUME NEW S, IsFiniteSet(S), NEW f \in [S -> Int], NEW x \in S, ZeroBut(f, S, x)
    PROVE  SumOnly(f, x)
<1>1. PICK F : F = Table(f, S)
  OBVIOUS
<1>3. /\ F[{}] = 0
      /\ \A s \in SUBSET S : s # {} => F[s] = f[Some(s)] + F[Rest(s)]
      /\ SumFunction(f) = F[S]
  BY Zenon, <1>1, SumIs DEF Summed
<1>4. PICK Q : Q = {s \in SUBSET S : F[s] = IF x \in s THEN f[x] ELSE 0}
  OBVIOUS
<1>5. {} \in Q
  BY <1>3, <1>4
<1>6. ASSUME NEW s \in SUBSET S, s # {}, Rest(s) \in Q
      PROVE  s \in Q
  <2>1. Some(s) \in s
    BY <1>6 DEF Some
  <2>2. PICK y, r : y = Some(s) /\ r = Rest(s)
    OBVIOUS
  <2>3. y \in S /\ y \in s /\ r = s \ {y} /\ f[x] \in Int
    BY <2>1, <2>2 DEF Rest
  <2>4. F[s] = f[y] + F[r]
    BY Zenon, <1>3, <1>6, <2>2
  <2>5. F[r] = IF x \in r THEN f[x] ELSE 0
    BY <1>4, <1>6, <2>2
  <2>6. F[s] = IF x \in s THEN f[x] ELSE 0
    BY <2>3, <2>4, <2>5 DEF ZeroBut
  <2> QED
    BY Zenon, <1>4, <2>6
<1>7. S \in SUBSET S /\ \A s \in SUBSET S : s \in Q
  BY Zenon, <1>5, <1>6, SetsInduct
<1> QED
  BY Zenon, <1>3, <1>4, <1>7 DEF SumOnly

(* A sum of equal addends. *)
LEMMA SumSame ==
    ASSUME NEW S, IsFiniteSet(S), NEW d \in Int, NEW f, f = [x \in S |-> d]
    PROVE  Cardinality(S) \in Nat /\ SumFunction(f) = Cardinality(S) * d
<1>1. PICK F : F = Table(f, S)
  OBVIOUS
<1>3. /\ F[{}] = 0
      /\ \A s \in SUBSET S : s # {} => F[s] = f[Some(s)] + F[Rest(s)]
      /\ SumFunction(f) = F[S]
  <2>1. f \in [S -> Int]
    OBVIOUS
  <2>2. Summed(f, S, F)
    BY Zenon, <1>1, <2>1, SumIs
  <2> QED
    BY Zenon, <2>2 DEF Summed
<1>4. PICK Q : Q = {s \in SUBSET S : F[s] = Cardinality(s) * d}
  OBVIOUS
<1>5. {} \in Q
  BY <1>3, <1>4, FS_EmptySet
<1>6. ASSUME NEW s \in SUBSET S, s # {}, Rest(s) \in Q
      PROVE  s \in Q
  <2>1. IsFiniteSet(s)
    BY FS_Subset
  <2>2. PICK n, m : n = Cardinality(s) /\ m = Cardinality(Rest(s))
    OBVIOUS
  <2>3. Some(s) \in s /\ n \in Nat /\ m = n - 1
    BY Zenon, <1>6, <2>1, <2>2, RestIs
  <2>4. f[Some(s)] = d
    BY <2>3
  <2>5. F[Rest(s)] = m * d
    BY Zenon, <1>4, <1>6, <2>2
  <2>6. F[s] = d + (n - 1) * d
    BY Zenon, <1>3, <1>6, <2>3, <2>4, <2>5
  <2>7. F[s] = n * d
    BY SMTT(60), <2>3, <2>6
  <2> QED
    BY Zenon, <1>4, <2>2, <2>7
<1>7. S \in SUBSET S /\ \A s \in SUBSET S : s \in Q
  BY Zenon, <1>5, <1>6, SetsInduct
<1> QED
  BY Zenon, <1>3, <1>4, <1>7, FS_CardinalityType

(* A sum in which one addend is another. *)
SameBut(f, g, S, x) == \A y \in S : y # x => g[y] = f[y]
SumMoves(f, g, x) == SumFunction(g) = SumFunction(f) + (g[x] - f[x])

(* Changing a function at one element changes its sum by as much.          *)
LEMMA SumChanged ==
    ASSUME NEW S, IsFiniteSet(S), NEW f \in [S -> Int], NEW g \in [S -> Int], NEW x \in S,
           SameBut(f, g, S, x)
    PROVE  SumMoves(f, g, x)
<1>1. PICK d : d = [y \in S |-> IF y = x THEN g[x] - f[x] ELSE 0]
  OBVIOUS
<1>2. d \in [S -> Int] /\ d[x] = g[x] - f[x] /\ ZeroBut(d, S, x)
  BY <1>1 DEF ZeroBut
<1>3. Adds(f, d, g, S)
  BY <1>1, <1>2 DEF Adds, SameBut
<1>4. SumOnly(d, x)
  BY Zenon, <1>2, SumOne
<1>5. SumAdds(f, d, g)
  BY Zenon, <1>2, <1>3, SumPlus
<1> QED
  BY Zenon, <1>2, <1>4, <1>5 DEF SumOnly, SumAdds, SumMoves

------------------------------------------------------------------------------
(* Writing to memory.                                                       *)

(* Memories, and what one assignment to a header does to one: the rest of  *)
(* the memory, and of the header, is kept.                                 *)
MemType == [Places -> [0..Span - 1 -> CellType]]

(* What does not change at place t, and nothing does elsewhere. *)
Kept(m, k, t) == /\ k \in MemType
                 /\ \A u \in Places : u # t => k[u] = m[u]
                 /\ \A o \in 1..Span - 1 : k[t][o] = m[t][o]
SameBlock(a, b) == b.is = a.is /\ b.size = a.size /\ b.site = a.site
NextSet(m, k, t, v) ==
    /\ Kept(m, k, t) /\ SameBlock(m[t][0], k[t][0])
    /\ k[t][0].tag = m[t][0].tag /\ k[t][0].prev = m[t][0].prev /\ k[t][0].next = v
PrevSet(m, k, t, v) ==
    /\ Kept(m, k, t) /\ SameBlock(m[t][0], k[t][0])
    /\ k[t][0].tag = m[t][0].tag /\ k[t][0].prev = v /\ k[t][0].next = m[t][0].next
TagSet(m, k, t, v) ==
    /\ Kept(m, k, t) /\ SameBlock(m[t][0], k[t][0])
    /\ k[t][0].tag = v /\ k[t][0].prev = m[t][0].prev /\ k[t][0].next = m[t][0].next

(* Slots have room for a header, a payload and an end.                     *)
LEMMA SpanIs == Span \in Nat /\ Span >= 5 /\ 0 \in 0..Span - 1 /\ 1 \in 0..Span - 1 /\ 2 \in 0..Span - 1
<1>1. Span \in Nat /\ Span >= 5
  BY Zenon, HeapAssumption, ProgramAssumption
<1> QED
  BY <1>1

(* A cell that holds a header. *)
LEMMA HeaderIs ==
    ASSUME NEW c \in CellType, c.is = "header"
    PROVE  c \in HeaderType
BY DEF CellType, Junk, Foot

HeaderAs(c, d, tag, prev, next) == /\ d \in HeaderType /\ SameBlock(c, d)
                                   /\ d.tag = tag /\ d.prev = prev /\ d.next = next

(* A header with one field set is a header, with its other fields kept.    *)
LEMMA FieldsSet ==
    ASSUME NEW c \in HeaderType, NEW v \in Links, NEW g \in {"none", "live", "freed"}
    PROVE  /\ HeaderAs(c, [c EXCEPT !.next = v], c.tag, c.prev, v)
           /\ HeaderAs(c, [c EXCEPT !.prev = v], c.tag, v, c.next)
           /\ HeaderAs(c, [c EXCEPT !.tag = g], g, c.prev, c.next)
BY DEF HeaderType, SameBlock, HeaderAs

Put(m, t, c) == [m EXCEPT ![t][0] = c]

(* Setting a header leaves every other cell alone.                         *)
LEMMA CellSet ==
    ASSUME NEW m \in MemType, NEW t \in Places, NEW c \in CellType
    PROVE  Kept(m, Put(m, t, c), t) /\ Put(m, t, c)[t][0] = c
<1>0. PICK k : k = Put(m, t, c)
  OBVIOUS
<1>1. m[t] \in [0..Span - 1 -> CellType] /\ 0 \in 0..Span - 1
  BY SpanIs DEF MemType
<1>2. PICK r : r = [m[t] EXCEPT ![0] = c]
  OBVIOUS
<1>3. r \in [0..Span - 1 -> CellType] /\ r[0] = c /\ \A o \in 1..Span - 1 : r[o] = m[t][o]
  BY <1>1, <1>2, SpanIs
<1>4. k = [m EXCEPT ![t] = r]
  BY <1>0, <1>2 DEF MemType, Put
<1>5. k \in MemType /\ k[t] = r /\ \A u \in Places : u # t => k[u] = m[u]
  BY <1>3, <1>4 DEF MemType
<1> QED
  BY Zenon, <1>0, <1>3, <1>5 DEF Kept

(* What setting one field of a header in memory does.                      *)
LEMMA SetIs ==
    ASSUME NEW m \in MemType, NEW t \in Places, m[t][0].is = "header", NEW v \in Links,
           NEW g \in {"none", "live", "freed"}
    PROVE  /\ NextSet(m, [m EXCEPT ![t][0].next = v], t, v)
           /\ PrevSet(m, [m EXCEPT ![t][0].prev = v], t, v)
           /\ TagSet(m, [m EXCEPT ![t][0].tag = g], t, g)
<1>1. PICK c : c = m[t][0]
  OBVIOUS
<1>2. c \in HeaderType
  <2>1. c \in CellType
    BY <1>1, SpanIs DEF MemType
  <2> QED
    BY <1>1, <2>1, HeaderIs
<1>3. PICK a, b, d : /\ a = [c EXCEPT !.next = v] /\ b = [c EXCEPT !.prev = v]
                     /\ d = [c EXCEPT !.tag = g]
  OBVIOUS
<1>4. /\ a \in HeaderType /\ b \in HeaderType /\ d \in HeaderType
      /\ a.next = v /\ a.prev = c.prev /\ a.tag = c.tag /\ SameBlock(c, a)
      /\ b.prev = v /\ b.next = c.next /\ b.tag = c.tag /\ SameBlock(c, b)
      /\ d.tag = g /\ d.prev = c.prev /\ d.next = c.next /\ SameBlock(c, d)
  <2>1. /\ HeaderAs(c, a, c.tag, c.prev, v) /\ HeaderAs(c, b, c.tag, v, c.next)
        /\ HeaderAs(c, d, g, c.prev, c.next)
    BY Zenon, <1>2, <1>3, FieldsSet
  <2> QED
    BY Zenon, <2>1 DEF HeaderAs
<1>5. a \in CellType /\ b \in CellType /\ d \in CellType
  BY Zenon, <1>4 DEF CellType
<1>6. PICK x, y, z : x = Put(m, t, a) /\ y = Put(m, t, b) /\ z = Put(m, t, d)
  OBVIOUS
<1>7. /\ Kept(m, x, t) /\ x[t][0] = a /\ Kept(m, y, t) /\ y[t][0] = b
      /\ Kept(m, z, t) /\ z[t][0] = d
  BY Zenon, <1>5, <1>6, CellSet
<1>8. /\ [m EXCEPT ![t][0].next = v] = x /\ [m EXCEPT ![t][0].prev = v] = y
      /\ [m EXCEPT ![t][0].tag = g] = z
  BY <1>1, <1>3, <1>6, SpanIs DEF MemType, Put
<1> QED
  BY Zenon, <1>1, <1>4, <1>7, <1>8 DEF NextSet, PrevSet, TagSet

(* m61_malloc() puts a block at the end of the list, behind last.           *)
Last == IF First.next = NoLink THEN 0 ELSE First.prev
Filled(k, s, sz, site, last) ==
    /\ k \in MemType /\ \A u \in Places : u # s => k[u] = mem[u]
    /\ k[s][0] = Header(sz, "live", site, last, 0) /\ k[s][sz + 1] = Foot
    /\ \A o \in 1..Span - 1 : o # sz + 1 => k[s][o] = mem[s][o]
LinkedAs(k, s, sz, site, last) ==
    /\ k \in MemType
    /\ \A u \in Places, o \in 1..Span - 1 :
          k[u][o] = IF u = s /\ o = sz + 1 THEN Foot ELSE mem[u][o]
    /\ k[s][0].is = "header" /\ k[s][0].tag = "live" /\ k[s][0].size = sz /\ k[s][0].site = site
    /\ k[s][0].prev = last /\ k[s][0].next = 0
    /\ \A u \in Places : u # s =>
          /\ SameBlock(mem[u][0], k[u][0]) /\ k[u][0].tag = mem[u][0].tag
          /\ k[u][0].next = IF u = last THEN s ELSE mem[u][0].next
          /\ k[u][0].prev = IF u = 0 THEN s ELSE mem[u][0].prev

(* Writing header and end changes only them.                               *)
LEMMA FilledIs ==
    ASSUME mem \in MemType, NEW s \in Slots, NEW sz \in 0..Span - 2, NEW site \in Sites,
           NEW last \in Places, NEW k,
           k = [mem EXCEPT ![s] = [mem[s] EXCEPT ![0] = Header(sz, "live", site, last, 0),
                                                 ![sz + 1] = Foot]]
    PROVE  Filled(k, s, sz, site, last)
<1>1. PICK h : h = Header(sz, "live", site, last, 0)
  OBVIOUS
<1>2. h \in CellType /\ Foot \in CellType
  <2>1. last \in Links /\ 0 \in Links /\ sz \in Nat /\ site \in Sites \cup {NoSite}
    BY SpanIs DEF Links, Places
  <2>2. h \in HeaderType
    BY <1>1, <2>1 DEF Header, HeaderType
  <2> QED
    BY Zenon, <2>2 DEF CellType
<1>3. PICK a : a = mem[s]
  OBVIOUS
<1>4. a \in [0..Span - 1 -> CellType]
  BY <1>3 DEF MemType, Places
<1>5. sz + 1 \in 0..Span - 1 /\ sz + 1 # 0
  BY SpanIs
<1>6. PICK r : r = [a EXCEPT ![0] = h, ![sz + 1] = Foot]
  OBVIOUS
<1>7. /\ r \in [0..Span - 1 -> CellType] /\ r[0] = h /\ r[sz + 1] = Foot
      /\ \A o \in 1..Span - 1 : o # sz + 1 => r[o] = a[o]
  BY <1>2, <1>4, <1>5, <1>6, SpanIs
<1>8. k = [mem EXCEPT ![s] = r]
  BY Zenon, <1>1, <1>3, <1>6
<1>9. k \in MemType /\ k[s] = r /\ \A u \in Places : u # s => k[u] = mem[u]
  BY ZenonT(90), <1>7, <1>8 DEF MemType, Places
<1> QED
  BY Zenon, <1>1, <1>3, <1>7, <1>9 DEF Filled

(* What a changed link does to the headers.                                 *)
Effect(m, k, t, nxt, prv, u) ==
    /\ SameBlock(m[u][0], k[u][0]) /\ k[u][0].tag = m[u][0].tag
    /\ k[u][0].next = (IF u = t THEN nxt ELSE m[u][0].next)
    /\ k[u][0].prev = (IF u = t THEN prv ELSE m[u][0].prev)

Inner(m, k) == \A u \in Places, o \in 1..Span - 1 : k[u][o] = m[u][o]

(* An assignment of next, or of prev, in terms of Effect.                  *)
LEMMA LinkEffect ==
    ASSUME NEW m, NEW k, NEW t \in Places, NEW v
    PROVE  /\ NextSet(m, k, t, v) => \A u \in Places : Effect(m, k, t, v, m[t][0].prev, u)
           /\ PrevSet(m, k, t, v) => \A u \in Places : Effect(m, k, t, m[t][0].next, v, u)
           /\ Kept(m, k, t) => Inner(m, k)
BY DEF NextSet, PrevSet, Kept, Effect, SameBlock, Inner

(* m61_malloc() links the new block in behind the last one: its header,    *)
(* the last block's next and first_node's prev change, and no other cell.  *)
LEMMA LinkedIs ==
    ASSUME mem \in MemType, NEW s \in Slots, NEW sz \in 0..Span - 2, NEW site \in Sites,
           Last \in Places, s # Last, First.is = "header", mem[Last][0].is = "header",
           First.next \in Links
    PROVE  LinkedAs(Linked(s, sz, site), s, sz, site, Last)
<1>1. PICK last, x : last = Last /\ x = IF First.next = NoLink THEN 0 ELSE First.next
  OBVIOUS
<1>2. last \in Places /\ s # last /\ s \in Places /\ 0 \in Places /\ s # 0 /\ x \in Links
      /\ s \in Links
  BY <1>1, HeapAssumption DEF Places, Links
<1>3. PICK a : a = [mem EXCEPT ![s] = [mem[s] EXCEPT ![0] = Header(sz, "live", site, last, 0),
                                                     ![sz + 1] = Foot]]
  OBVIOUS
<1>4. Filled(a, s, sz, site, last)
  BY Zenon, <1>2, <1>3, FilledIs
<1>5. a \in MemType /\ a[0] = mem[0] /\ a[last] = mem[last]
  BY Zenon, <1>2, <1>4 DEF Filled
<1>6. PICK b : b = [a EXCEPT ![0][0].next = x]
  OBVIOUS
<1>7. NextSet(a, b, 0, x)
  <2>1. a[0][0].is = "header"
    BY Zenon, <1>5 DEF First
  <2> QED
    BY Zenon, <1>2, <1>5, <1>6, <2>1, SetIs
<1>8. PICK c : c = [b EXCEPT ![last][0].next = s]
  OBVIOUS
<1>9. NextSet(b, c, last, s)
  <2>1. b \in MemType
    BY Zenon, <1>7 DEF NextSet, Kept
  <2>2. b[last][0].is = "header"
    BY Zenon, <1>1, <1>2, <1>5, <1>7 DEF NextSet, Kept, SameBlock, First
  <2> QED
    BY Zenon, <1>2, <1>8, <2>1, <2>2, SetIs
<1>10. PICK d : d = [c EXCEPT ![0][0].prev = s]
  OBVIOUS
<1>11. PrevSet(c, d, 0, s)
  <2>1. c \in MemType
    BY Zenon, <1>9 DEF NextSet, Kept
  <2>2. c[0][0].is = "header"
    BY ZenonT(90), <1>1, <1>2, <1>5, <1>7, <1>9 DEF NextSet, Kept, SameBlock, First
  <2> QED
    BY Zenon, <1>2, <1>10, <2>1, <2>2, SetIs
<1>12. Linked(s, sz, site) = d
  BY ZenonT(90), <1>1, <1>2, <1>3, <1>6, <1>8, <1>10, SpanIs DEF Linked, Last, First, MemType
<1>13. First.next = NoLink => last = 0
  BY <1>1 DEF Last
<1>14. LinkedAs(d, s, sz, site, last)
  <2>1. d \in MemType /\ Kept(a, b, 0) /\ Kept(b, c, last) /\ Kept(c, d, 0)
    BY Zenon, <1>7, <1>9, <1>11 DEF NextSet, PrevSet, Kept
  <2>2. \A u \in Places, o \in 1..Span - 1 : d[u][o] = a[u][o]
    <3>1. Inner(a, b) /\ Inner(b, c) /\ Inner(c, d)
      BY Zenon, <1>2, <2>1, LinkEffect
    <3> QED
      BY ZenonT(90), <3>1 DEF Inner
  <2>3. \A u \in Places, o \in 1..Span - 1 :
           d[u][o] = IF u = s /\ o = sz + 1 THEN Foot ELSE mem[u][o]
    <3>1. sz + 1 \in 1..Span - 1
      BY SpanIs
    <3> QED
      BY ZenonT(90), <1>4, <2>2, <3>1 DEF Filled
  <2>4. d[s] = a[s]
    BY Zenon, <1>2, <2>1 DEF Kept
  <2>5. PICK h : h = Header(sz, "live", site, last, 0)
    OBVIOUS
  <2>6. h.is = "header" /\ h.tag = "live" /\ h.size = sz /\ h.site = site
        /\ h.prev = last /\ h.next = 0
    BY <2>5 DEF Header
  <2>7. d[s][0] = h
    BY Zenon, <1>4, <2>4, <2>5 DEF Filled
  <2>8. ASSUME NEW u \in Places, u # s
        PROVE  /\ SameBlock(mem[u][0], d[u][0]) /\ d[u][0].tag = mem[u][0].tag
               /\ d[u][0].next = IF u = last THEN s ELSE mem[u][0].next
               /\ d[u][0].prev = IF u = 0 THEN s ELSE mem[u][0].prev
    <3>1. a[u] = mem[u]
      BY Zenon, <1>4, <2>8 DEF Filled
    <3>2. /\ Effect(a, b, 0, x, a[0][0].prev, u) /\ Effect(b, c, last, s, b[last][0].prev, u)
          /\ Effect(c, d, 0, c[0][0].next, s, u)
      BY Zenon, <1>2, <1>7, <1>9, <1>11, <2>8, LinkEffect
    <3>3. u = 0 /\ u # last => x = mem[u][0].next
      BY Zenon, <1>1, <1>13 DEF First
    <3> QED
      BY ZenonT(90), <1>5, <3>1, <3>2, <3>3 DEF Effect, SameBlock
  <2> QED
    BY Zenon, <2>1, <2>3, <2>6, <2>7, <2>8 DEF LinkedAs
<1> QED
  BY Zenon, <1>1, <1>12, <1>14

(* m61_free() marks a block and takes it out of the list.                   *)
FreedAs(k, t, pv, nx) ==
    /\ k \in MemType /\ Inner(mem, k)
    /\ \A u \in Places :
          /\ SameBlock(mem[u][0], k[u][0])
          /\ k[u][0].tag = IF u = t THEN "freed" ELSE mem[u][0].tag
          /\ k[u][0].next = IF u = pv THEN nx ELSE mem[u][0].next
          /\ k[u][0].prev = IF u = nx THEN pv ELSE mem[u][0].prev
Freed(t, pv, nx) ==
    [[mem EXCEPT ![t][0].tag = "freed", ![pv][0].next = nx] EXCEPT ![nx][0].prev = pv]
HeaderAt(m, u) == m[u][0].is = "header"

Marked(m, k, t, v) ==
    \A u \in Places :
       /\ SameBlock(m[u][0], k[u][0]) /\ k[u][0].tag = (IF u = t THEN v ELSE m[u][0].tag)
       /\ k[u][0].next = m[u][0].next /\ k[u][0].prev = m[u][0].prev

(* Setting the tag changes no other part of the memory.                    *)
LEMMA TagEffect ==
    ASSUME NEW m, NEW k, NEW t \in Places, NEW v, TagSet(m, k, t, v)
    PROVE  Marked(m, k, t, v) /\ Inner(m, k) /\ k \in MemType
BY DEF TagSet, Kept, SameBlock, Inner, Marked

(* Payloads untouched twice are untouched.                                 *)
LEMMA InnerAgain ==
    ASSUME NEW m, NEW a, NEW b, Inner(m, a), Inner(a, b)
    PROVE  Inner(m, b)
BY Zenon DEF Inner

(* m61_free()'s three assignments, one after the other, do what FreedAs    *)
(* says.                                                                   *)
LEMMA FreedIs ==
    ASSUME mem \in MemType, NEW t \in Places, NEW pv \in Places, NEW nx \in Places,
           HeaderAt(mem, t), HeaderAt(mem, pv), HeaderAt(mem, nx)
    PROVE  FreedAs(Freed(t, pv, nx), t, pv, nx)
<1>0. pv \in Links /\ nx \in Links
  BY DEF Links
<1>1. PICK a : a = [mem EXCEPT ![t][0].tag = "freed"]
  OBVIOUS
<1>2. TagSet(mem, a, t, "freed")
  BY Zenon, <1>0, <1>1, SetIs DEF HeaderAt
<1>3. Marked(mem, a, t, "freed") /\ Inner(mem, a) /\ a \in MemType
  BY Zenon, <1>2, TagEffect
<1>4. PICK b : b = [a EXCEPT ![pv][0].next = nx]
  OBVIOUS
<1>5. NextSet(a, b, pv, nx)
  <2>1. a[pv][0].is = "header"
    BY Zenon, <1>3 DEF HeaderAt, SameBlock, Marked
  <2> QED
    BY Zenon, <1>0, <1>3, <1>4, <2>1, SetIs
<1>6. b \in MemType /\ Inner(a, b) /\ \A u \in Places : Effect(a, b, pv, nx, a[pv][0].prev, u)
  <2>1. b \in MemType /\ Kept(a, b, pv)
    BY Zenon, <1>5 DEF NextSet, Kept
  <2> QED
    BY Zenon, <1>5, <2>1, LinkEffect
<1>7. PICK c : c = [b EXCEPT ![nx][0].prev = pv]
  OBVIOUS
<1>8. PrevSet(b, c, nx, pv)
  <2>1. b[nx][0].is = "header"
    BY Zenon, <1>3, <1>6 DEF HeaderAt, SameBlock, Effect, Marked
  <2> QED
    BY Zenon, <1>0, <1>6, <1>7, <2>1, SetIs
<1>9. c \in MemType /\ Inner(b, c) /\ \A u \in Places : Effect(b, c, nx, b[nx][0].next, pv, u)
  <2>1. c \in MemType /\ Kept(b, c, nx)
    BY Zenon, <1>8 DEF PrevSet, Kept
  <2> QED
    BY Zenon, <1>8, <2>1, LinkEffect
<1>10. Freed(t, pv, nx) = c
  BY <1>1, <1>4, <1>7 DEF Freed
<1>11. Inner(mem, c)
  <2>1. Inner(mem, a) /\ Inner(a, b) /\ Inner(b, c)
    BY Zenon, <1>3, <1>6, <1>9
  <2>2. Inner(mem, b)
    BY Zenon, <2>1, InnerAgain
  <2> QED
    BY Zenon, <2>1, <2>2, InnerAgain
<1>12. ASSUME NEW u \in Places
       PROVE  /\ SameBlock(mem[u][0], c[u][0])
              /\ c[u][0].tag = IF u = t THEN "freed" ELSE mem[u][0].tag
              /\ c[u][0].next = IF u = pv THEN nx ELSE mem[u][0].next
              /\ c[u][0].prev = IF u = nx THEN pv ELSE mem[u][0].prev
  <2>1. Effect(a, b, pv, nx, a[pv][0].prev, u) /\ Effect(b, c, nx, b[nx][0].next, pv, u)
    BY Zenon, <1>6, <1>9
  <2> QED
    BY ZenonT(90), <1>3, <2>1 DEF Effect, SameBlock, Marked
<1> QED
  BY Zenon, <1>9, <1>10, <1>11, <1>12 DEF FreedAs

------------------------------------------------------------------------------
(* The list of the blocks.                                                  *)

(* The list of live blocks as a function of their positions.               *)
ListFacts ==
    /\ Len(live) \in Nat /\ At(0) = 0 /\ At(Len(live) + 1) = 0
    /\ \A i \in Nat : At(i) \in Places
    /\ \A i \in 1..Len(live) : At(i) \in Slots /\ At(i) # 0 /\ At(i) = live[i].slot
    /\ \A i, j \in 1..Len(live) : At(i) = At(j) => i = j
    /\ \A s : IsLive(s) <=> \E i \in 1..Len(live) : At(i) = s
    /\ Slots \subseteq Places /\ 0 \in Places /\ 0 \notin Slots /\ NoLink \notin Places

(* The facts about the list that the other proofs use.                     *)
LEMMA ListIs ==
    ASSUME Typed, Distinct
    PROVE  ListFacts
<1>1. Len(live) \in Nat /\ \A i \in 1..Len(live) : live[i].slot \in Slots
  <2>1. PICK R : R = [slot : Slots, size : 0..Span - 2, site : Sites]
    OBVIOUS
  <2>2. live \in Seq(R) /\ \A r \in R : r.slot \in Slots
    BY <2>1 DEF Typed
  <2> QED
    BY <2>2
<1>2. /\ Slots \subseteq Places /\ 0 \in Places /\ 0 \notin Slots /\ NoLink \notin Places
  BY HeapAssumption DEF Places, NoLink
<1>3. /\ At(0) = 0 /\ At(Len(live) + 1) = 0
      /\ \A i \in Nat : At(i) \in Places
      /\ \A i \in 1..Len(live) : At(i) \in Slots /\ At(i) # 0 /\ At(i) = live[i].slot
  BY <1>1, <1>2 DEF At
<1>4. \A i, j \in 1..Len(live) : At(i) = At(j) => i = j
  BY Zenon, <1>3 DEF Distinct
<1>5. \A s : IsLive(s) <=> \E i \in 1..Len(live) : At(i) = s
  BY Zenon, <1>3 DEF IsLive
<1> QED
  BY Zenon, <1>1, <1>2, <1>3, <1>4, <1>5 DEF ListFacts

(* The block that is first in the list is before first_node in the circle.  *)
LEMMA LastIs ==
    ASSUME Typed, HeapInv
    PROVE  /\ Last = At(Len(live)) /\ Last \in Places /\ HeaderAt(mem, Last) /\ HeaderAt(mem, 0)
           /\ First.next \in Links
<1>1. ListFacts /\ Threaded /\ HeadersRight
  BY ListIs DEF HeapInv
<1>2. HeaderAt(mem, 0)
  BY Zenon, <1>1 DEF Threaded, HeaderAt, First
<1>3. Last = At(Len(live))
  <2>1. CASE past = {}
    <3>1. live = <<>> /\ First.next = NoLink
      BY Zenon, <1>1, <2>1 DEF Threaded
    <3>2. Len(live) = 0
      BY <3>1
    <3> QED
      BY Zenon, <1>1, <3>1, <3>2 DEF Last, ListFacts
  <2>2. CASE past # {}
    <3>1. \A i \in 0..Len(live) : /\ mem[At(i)][0].next = At(i + 1)
                                  /\ mem[At(i + 1)][0].prev = At(i)
      BY Zenon, <1>1, <2>2 DEF Threaded
    <3>2. 0 \in 0..Len(live) /\ Len(live) \in 0..Len(live) /\ 0 + 1 \in Nat
      BY <1>1 DEF ListFacts
    <3>3. First.next # NoLink
      <4>1. mem[At(0)][0].next = At(0 + 1) /\ At(0 + 1) \in Places
        BY Zenon, <1>1, <3>1, <3>2 DEF ListFacts
      <4> QED
        BY Zenon, <1>1, <4>1 DEF ListFacts, First
    <3>4. First.prev = At(Len(live))
      BY Zenon, <1>1, <3>1, <3>2 DEF ListFacts, First
    <3> QED
      BY Zenon, <3>3, <3>4 DEF Last
  <2> QED
    BY Zenon, <2>1, <2>2
<1>4. Last \in Places /\ HeaderAt(mem, Last)
  <2>1. CASE Len(live) = 0
    BY Zenon, <1>1, <1>2, <1>3, <2>1 DEF ListFacts
  <2>2. CASE Len(live) # 0
    <3>1. Len(live) \in 1..Len(live)
      BY <1>1, <2>2 DEF ListFacts
    <3> QED
      BY Zenon, <1>1, <1>3, <3>1 DEF ListFacts, HeadersRight, HeaderAt
  <2> QED
    BY Zenon, <2>1, <2>2
<1>5. First.next \in Links
  <2>1. First \in CellType
    BY SpanIs, <1>1 DEF Typed, First, ListFacts
  <2>2. First \in HeaderType
    BY Zenon, <1>2, <2>1, HeaderIs DEF HeaderAt, First
  <2> QED
    BY <2>2 DEF HeaderType
<1> QED
  BY Zenon, <1>2, <1>3, <1>4, <1>5

(* A block more.                                                            *)
Block(s, sz, site) == [slot |-> s, size |-> sz, site |-> site]
BlockType == [slot : Slots, size : 0..Span - 2, site : Sites]
Appended(n, s, sz, site) ==
    /\ Len(live') = n + 1 /\ live' \in Seq(BlockType)
    /\ \A i \in 0..n : At(i)' = At(i)
    /\ At(n + 1)' = s /\ At((n + 1) + 1)' = 0
    /\ \A i \in 1..n : live'[i] = live[i]
    /\ live'[n + 1] = Block(s, sz, site)

(* Where the blocks are after one is appended.                             *)
LEMMA AppendIs ==
    ASSUME live \in Seq(BlockType), NEW s \in Slots, NEW sz \in 0..Span - 2, NEW site \in Sites,
           NEW n, n = Len(live), live' = Append(live, Block(s, sz, site))
    PROVE  n \in Nat /\ Appended(n, s, sz, site)
<1>1. PICK b : b = Block(s, sz, site)
  OBVIOUS
<1>2. b \in BlockType /\ b.slot = s
  BY <1>1 DEF Block, BlockType
<1>3. n \in Nat /\ Len(live') = n + 1 /\ live' \in Seq(BlockType) /\ live'[n + 1] = b
      /\ \A i \in 1..n : live'[i] = live[i]
  BY <1>1, <1>2
<1>4. ASSUME NEW i \in 0..n PROVE At(i)' = At(i)
  BY <1>3 DEF At
<1>5. At(n + 1)' = s /\ At((n + 1) + 1)' = 0
  BY <1>2, <1>3 DEF At
<1> QED
  BY Zenon, <1>1, <1>3, <1>4, <1>5 DEF Appended

(* The same, as positions only.                                            *)
NewList(n, s) ==
    /\ n = Len(live) /\ n \in Nat
    /\ Len(live') = n + 1
    /\ \A i \in 0..n : At(i)' = At(i)
    /\ At(n + 1)' = s /\ At((n + 1) + 1)' = 0

(* A block whose slot was free is new to the list.                         *)
LEMMA AppendDistinct ==
    ASSUME ListFacts, NEW s \in Slots, NEW n, NewList(n, s), ~IsLive(s),
           \A i \in 1..Len(live') : At(i)' = live'[i].slot
    PROVE  Distinct' /\ \A u : IsLive(u)' <=> IsLive(u) \/ u = s
<1>1. \A i \in 1..n + 1 : i = n + 1 \/ i \in 1..n
  BY DEF NewList
<1>2. \A i \in 1..n : i \in 0..n /\ i \in 1..n + 1
  BY DEF NewList
<1>3. \A i \in 1..n : At(i)' = At(i) /\ At(i) # s /\ At(i) = live[i].slot
  BY Zenon, <1>2 DEF NewList, ListFacts
<1>4. \A i, j \in 1..n + 1 : At(i)' = At(j)' => i = j
  <2> SUFFICES ASSUME NEW i \in 1..n + 1, NEW j \in 1..n + 1, At(i)' = At(j)' PROVE i = j
    OBVIOUS
  <2>1. \A k \in 1..n : At(k)' # s
    BY Zenon, <1>3
  <2>2. \A k, l \in 1..n : At(k)' = At(l)' => k = l
    <3>1. \A k, l \in 1..n : At(k) = At(l) => k = l
      BY Zenon DEF ListFacts, NewList
    <3>2. ASSUME NEW k \in 1..n, NEW l \in 1..n, At(k)' = At(l)' PROVE k = l
      <4>1. At(k)' = At(k) /\ At(l)' = At(l)
        BY Zenon, <1>3
      <4>2. At(k) = At(l)
        BY Zenon, <3>2, <4>1
      <4> QED
        BY Zenon, <3>1, <4>2
    <3> QED
      BY Zenon, <3>2
  <2> QED
    BY Zenon, <1>1, <2>1, <2>2 DEF NewList
<1>5. Distinct'
  <2>1. Len(live') = n + 1
    BY Zenon DEF NewList
  <2>2. \A i \in 1..n + 1 : live'[i].slot = At(i)'
    BY Zenon, <2>1
  <2>3. \A i, j \in 1..n + 1 : live'[i].slot = live'[j].slot => i = j
    <3>1. ASSUME NEW i \in 1..n + 1, NEW j \in 1..n + 1, live'[i].slot = live'[j].slot
          PROVE  i = j
      <4>1. live'[i].slot = At(i)' /\ live'[j].slot = At(j)'
        BY Zenon, <2>2
      <4>2. At(i)' = At(j)'
        BY Zenon, <3>1, <4>1
      <4> QED
        BY Zenon, <1>4, <4>2
    <3> QED
      BY Zenon, <3>1
  <2> QED
    BY Zenon, <2>1, <2>3 DEF Distinct
<1>6. n + 1 \in 1..n + 1
  BY DEF NewList
<1>7. ASSUME NEW u
      PROVE  IsLive(u)' <=> IsLive(u) \/ u = s
  <2>1. IsLive(u)' <=> \E i \in 1..n + 1 : At(i)' = u
    BY Zenon DEF IsLive, NewList
  <2>2. IsLive(u) <=> \E i \in 1..n : At(i) = u
    BY Zenon DEF ListFacts, NewList
  <2> QED
    BY Zenon, <1>1, <1>2, <1>3, <1>6, <2>1, <2>2 DEF NewList
<1> QED
  BY Zenon, <1>5, <1>7

(* One step round the ring of links.                                       *)
Ring(i) == mem[At(i)][0].next = At(i + 1) /\ mem[At(i + 1)][0].prev = At(i)

(* m61_malloc() keeps the ring: the new block is its last.                 *)
LEMMA AllocThreaded ==
    ASSUME Typed, HeapInv, NEW s \in Slots, NEW sz, NEW site, NEW n, NewList(n, s), ~IsLive(s),
           LinkedAs(mem', s, sz, site, Last), past' # {}
    PROVE  Threaded'
<1>1. /\ ListFacts /\ Last = At(n) /\ HeaderAt(mem, 0) /\ n \in Nat /\ n = Len(live)
      /\ s # 0 /\ s \in Places
  <2>1. ListFacts
    BY Zenon, ListIs DEF HeapInv
  <2> QED
    BY Zenon, <2>1, LastIs DEF NewList, ListFacts
<1>2. /\ mem'[s][0].prev = Last /\ mem'[s][0].next = 0
      /\ \A u \in Places : u # s =>
            /\ SameBlock(mem[u][0], mem'[u][0])
            /\ mem'[u][0].next = IF u = Last THEN s ELSE mem[u][0].next
            /\ mem'[u][0].prev = IF u = 0 THEN s ELSE mem[u][0].prev
  BY Zenon DEF LinkedAs
<1>3. \A i \in 0..n : At(i)' = At(i) /\ At(i) # s /\ At(i) \in Places
  <2>1. \A i \in 0..n : i = 0 \/ i \in 1..n
    OBVIOUS
  <2>2. \A i \in 0..n : At(i)' = At(i)
    BY Zenon DEF NewList
  <2> QED
    BY Zenon, <1>1, <2>1, <2>2 DEF ListFacts
<1>4. \A i, j \in 0..n : At(i) = At(j) => i = j
  <2>1. \A i \in 0..n : i = 0 \/ i \in 1..n
    OBVIOUS
  <2> QED
    BY Zenon, <1>1, <2>1 DEF ListFacts
<1>5. At(0) = 0 /\ At(0)' = 0 /\ At(n + 1)' = s /\ At((n + 1) + 1)' = 0
  <2>1. 0 \in 0..n
    BY <1>1
  <2> QED
    BY Zenon, <1>1, <1>3, <2>1 DEF ListFacts, NewList
<1>6. ASSUME NEW i \in 0..n - 1 PROVE Ring(i) /\ i \in 0..n /\ i + 1 \in 0..n /\ i # n /\ i + 1 # 0
  <2>1. i \in 0..n /\ i + 1 \in 0..n /\ i # n /\ i + 1 # 0 /\ n # 0
    BY <1>1
  <2>2. past # {}
    <3>1. live # <<>>
      BY <1>1, <2>1
    <3> QED
      BY Zenon, <3>1 DEF Threaded, HeapInv
  <2> QED
    BY Zenon, <1>1, <2>1, <2>2 DEF Ring, Threaded, HeapInv
<1>7. ASSUME NEW i \in 0..n + 1
      PROVE  mem'[At(i)'][0].next = At(i + 1)' /\ mem'[At(i + 1)'][0].prev = At(i)'
  <2>1. CASE i \in 0..n - 1
    <3>1. Ring(i) /\ i \in 0..n /\ i + 1 \in 0..n /\ i # n /\ i + 1 # 0 /\ n \in 0..n /\ 0 \in 0..n
      BY <1>1, <1>6, <2>1
    <3>2. PICK u, v : u = At(i) /\ v = At(i + 1)
      OBVIOUS
    <3>3. u \in Places /\ v \in Places /\ u # s /\ v # s /\ At(i)' = u /\ At(i + 1)' = v
      BY Zenon, <1>3, <3>1, <3>2
    <3>4. u # Last /\ v # 0
      BY Zenon, <1>1, <1>4, <1>5, <3>1, <3>2
    <3>5. mem[u][0].next = v /\ mem[v][0].prev = u
      BY Zenon, <3>1, <3>2 DEF Ring
    <3> QED
      BY Zenon, <1>2, <3>3, <3>4, <3>5
  <2>2. CASE i = n
    <3>1. n \in 0..n
      BY <1>1
    <3> QED
      BY Zenon, <1>1, <1>2, <1>3, <1>5, <2>2, <3>1
  <2>3. CASE i = n + 1
    BY Zenon, <1>1, <1>2, <1>5, <2>3 DEF ListFacts
  <2> QED
    BY <1>1, <2>1, <2>2, <2>3
<1>8. Len(live') = n + 1
  BY Zenon DEF NewList
<1>9. First'.is = "header"
  BY Zenon, <1>1, <1>2 DEF First, HeaderAt, SameBlock, ListFacts
<1> QED
  BY Zenon, <1>7, <1>8, <1>9 DEF Threaded

(* The header of a block that the list holds. *)
Right(b, h, m, ps, ws) ==
    /\ h.is = "header" /\ h.tag = "live" /\ h.size = b.size /\ h.site = b.site
    /\ [slot |-> b.slot, size |-> b.size] \in ps
    /\ m[b.slot][b.size + 1] = Foot <=> b.slot \notin ws

(* HeadersRight, block by block.                                           *)
LEMMA RightIs == HeadersRight <=> \A i \in 1..Len(live) :
                     Right(live[i], mem[live[i].slot][0], mem, past, wild)
BY Zenon DEF HeadersRight, Right

(* m61_malloc() keeps the headers right, the new one included.             *)
LEMMA AllocHeaders ==
    ASSUME Typed, HeapInv, NEW s \in Slots, NEW sz \in 0..Span - 2, NEW site \in Sites,
           NEW n, NewList(n, s), ~IsLive(s), Appended(n, s, sz, site),
           LinkedAs(mem', s, sz, site, Last),
           past' = past \cup {[slot |-> s, size |-> sz]}, wild' = wild \ {s}
    PROVE  HeadersRight'
<1>1. ListFacts /\ n = Len(live) /\ n \in Nat
  BY Zenon, ListIs DEF HeapInv, NewList
<1>2. \A i \in 1..n : Right(live[i], mem[live[i].slot][0], mem, past, wild)
  BY Zenon, <1>1, RightIs DEF HeapInv
<1>3. ASSUME NEW i \in 1..n
      PROVE  Right(live'[i], mem'[live'[i].slot][0], mem', past', wild')
  <2>1. PICK b : b = live[i]
    OBVIOUS
  <2>2. b \in BlockType /\ b.slot \in Places /\ b.slot # s /\ live'[i] = b
    <3>1. b \in BlockType
      <4>1. live \in Seq(BlockType)
        BY DEF Typed, BlockType
      <4> QED
        BY <1>1, <2>1, <4>1
    <3> QED
      BY ZenonT(90), <1>1, <2>1, <3>1 DEF ListFacts, Appended
  <2>3. b.size + 1 \in 1..Span - 1
    BY <2>2, SpanIs DEF BlockType
  <2>4. /\ SameBlock(mem[b.slot][0], mem'[b.slot][0])
        /\ mem'[b.slot][0].tag = mem[b.slot][0].tag
        /\ mem'[b.slot][b.size + 1] = mem[b.slot][b.size + 1]
    BY Zenon, <2>2, <2>3 DEF LinkedAs
  <2>5. Right(b, mem[b.slot][0], mem, past, wild)
    BY Zenon, <1>2, <2>1
  <2>6. /\ b.slot \in wild' <=> b.slot \in wild
        /\ [slot |-> b.slot, size |-> b.size] \in past =>
           [slot |-> b.slot, size |-> b.size] \in past'
    BY <2>2
  <2>7. Right(b, mem'[b.slot][0], mem', past', wild')
    BY Zenon, <2>4, <2>5, <2>6 DEF Right, SameBlock
  <2> QED
    BY Zenon, <2>2, <2>7
<1>4. Right(live'[n + 1], mem'[live'[n + 1].slot][0], mem', past', wild')
  <2>1. PICK b : b = Block(s, sz, site)
    OBVIOUS
  <2>2. b.slot = s /\ b.size = sz /\ b.site = site /\ live'[n + 1] = b
    BY <2>1 DEF Block, Appended
  <2>3. s \in Places /\ sz + 1 \in 1..Span - 1
    BY <1>1, SpanIs DEF ListFacts
  <2>4. mem'[s][sz + 1] = Foot
    BY Zenon, <2>3 DEF LinkedAs
  <2>5. [slot |-> s, size |-> sz] \in past' /\ s \notin wild'
    BY Zenon
  <2>6. Right(b, mem'[s][0], mem', past', wild')
    BY Zenon, <2>2, <2>4, <2>5 DEF Right, LinkedAs
  <2> QED
    BY Zenon, <2>2, <2>6
<1>5. Len(live') = n + 1
  BY Zenon DEF NewList
<1>6. \A i \in 1..n + 1 : i \in 1..n \/ i = n + 1
  BY <1>1
<1>7. \A i \in 1..Len(live') : Right(live'[i], mem'[live'[i].slot][0], mem', past', wild')
  BY Zenon, <1>3, <1>4, <1>5, <1>6
<1> QED
  BY Zenon, <1>7 DEF HeadersRight, Right

(* The header of a block that the list no longer holds. *)
Stale(m, u) ==
    /\ m[u][0].prev \in Places /\ m[m[u][0].prev][0].is = "header"
    /\ m[m[u][0].prev][0].next # u
    /\ m[u][0].tag = "freed"
Blocks(m, ps) == \A u \in Slots : m[u][0].is = "header" <=> \E b \in ps : b.slot = u
Insides(m) == \A u \in Places, o \in 1..Span - 1 : m[u][o].is = "header" => m[u][o].tag = "live"

(* StaleRight, part by part.                                               *)
LEMMA StaleIs ==
    StaleRight <=> /\ Blocks(mem, past) /\ Insides(mem)
                   /\ \A u \in Slots : mem[u][0].is = "header" /\ ~IsLive(u) => Stale(mem, u)
BY Zenon DEF StaleRight, Stale, Blocks, Insides

(* m61_malloc() leads no link to a block that is not live, and overwrites  *)
(* the stale header when it gets the slot of one.                          *)
LEMMA AllocStale ==
    ASSUME Typed, HeapInv, NEW s \in Slots, NEW sz \in 0..Span - 2, NEW site \in Sites,
           ~IsLive(s), LinkedAs(mem', s, sz, site, Last), \A u : IsLive(u)' <=> IsLive(u) \/ u = s,
           past' = past \cup {[slot |-> s, size |-> sz]}, wild' = wild \ {s}
    PROVE  StaleRight'
<1>1. ListFacts /\ Last \in Places /\ s \in Places
  <2>1. ListFacts
    BY Zenon, ListIs DEF HeapInv
  <2> QED
    BY Zenon, <2>1, LastIs DEF ListFacts
<1>2. \A u \in Places : u # s =>
         /\ SameBlock(mem[u][0], mem'[u][0]) /\ mem'[u][0].tag = mem[u][0].tag
         /\ mem'[u][0].next = IF u = Last THEN s ELSE mem[u][0].next
         /\ mem'[u][0].prev = IF u = 0 THEN s ELSE mem[u][0].prev
  BY Zenon DEF LinkedAs
<1>3. mem'[s][0].is = "header" /\ mem'[s][0].next = 0
  BY Zenon DEF LinkedAs
<1>4. ASSUME NEW u \in Slots
      PROVE  mem'[u][0].is = "header" <=> \E b \in past' : b.slot = u
  <2>1. CASE u = s
    <3>1. PICK b : b = [slot |-> s, size |-> sz]
      OBVIOUS
    <3>2. b \in past' /\ b.slot = s
      BY <3>1
    <3> QED
      BY Zenon, <1>3, <2>1, <3>2
  <2>2. CASE u # s
    <3>1. \A b \in past' : b.slot = u => b \in past
      BY <2>2
    <3>2. past \subseteq past'
      OBVIOUS
    <3>3. mem'[u][0].is = mem[u][0].is
      BY Zenon, <1>1, <1>2, <2>2 DEF SameBlock, ListFacts
    <3>4. mem[u][0].is = "header" <=> \E b \in past : b.slot = u
      BY Zenon, StaleIs DEF HeapInv, Blocks
    <3> QED
      BY Zenon, <3>1, <3>2, <3>3, <3>4
  <2> QED
    BY Zenon, <2>1, <2>2
<1>5. ASSUME NEW u \in Slots, mem'[u][0].is = "header", ~IsLive(u)'
      PROVE  /\ mem'[u][0].prev \in Places /\ mem'[mem'[u][0].prev][0].is = "header"
             /\ mem'[mem'[u][0].prev][0].next # u
             /\ mem'[u][0].tag = "freed"
  <2>1. u # s /\ ~IsLive(u) /\ u \in Places /\ u # 0
    BY Zenon, <1>1, <1>5 DEF ListFacts
  <2>2. PICK v : v = mem[u][0].prev
    OBVIOUS
  <2>3. mem'[u][0].prev = v /\ mem[u][0].is = "header" /\ mem'[u][0].tag = mem[u][0].tag
    BY Zenon, <1>2, <1>5, <2>1, <2>2 DEF SameBlock
  <2>4. /\ v \in Places /\ mem[v][0].is = "header" /\ mem[v][0].next # u
        /\ mem[u][0].tag = "freed"
    <3>1. Stale(mem, u)
      BY Zenon, <2>1, <2>3, StaleIs DEF HeapInv
    <3> QED
      BY Zenon, <2>2, <3>1 DEF Stale
  <2>5. mem'[v][0].is = "header" /\ mem'[v][0].next # u
    <3>1. CASE v = s
      BY Zenon, <1>3, <2>1, <3>1
    <3>2. CASE v # s
      BY Zenon, <1>2, <2>1, <2>4, <3>2 DEF SameBlock
    <3> QED
      BY Zenon, <3>1, <3>2
  <2> QED
    BY Zenon, <2>3, <2>4, <2>5
<1>6. ASSUME NEW u \in Places, NEW o \in 1..Span - 1, mem'[u][o].is = "header"
      PROVE  mem'[u][o].tag = "live"
  <2>1. mem'[u][o] = Foot \/ mem'[u][o] = mem[u][o]
    BY Zenon DEF LinkedAs
  <2>2. Foot.is # "header"
    BY DEF Foot
  <2>3. mem'[u][o] = mem[u][o]
    BY Zenon, <1>6, <2>1, <2>2
  <2> QED
    BY Zenon, <1>6, <2>3, StaleIs DEF HeapInv, Insides
<1> QED
  BY Zenon, <1>4, <1>5, <1>6 DEF StaleRight

------------------------------------------------------------------------------
(* What the allocator below m61 has lent, and the ends of the heap.         *)

(* LentRight, element by element.                                          *)
LEMMA LentIs ==
    LentRight <=> /\ \A u : u \in DOMAIN lent <=> IsLive(u)
                  /\ DOMAIN spare \subseteq Slots \ DOMAIN lent
BY DEF LentRight, IsLive

(* The base allocator lends a slot that is not live.                       *)
LEMMA AllocLent ==
    ASSUME HeapInv, NEW s, NEW sz, BaseMalloc(s, sz)
    PROVE  /\ s \in Slots /\ ~IsLive(s)
           /\ (\A u : IsLive(u)' <=> IsLive(u) \/ u = s) => LentRight'
<1>1. /\ \A u : u \in DOMAIN lent <=> IsLive(u)
      /\ DOMAIN spare \subseteq Slots \ DOMAIN lent
  BY Zenon, LentIs DEF HeapInv
<1>2. s \in Slots /\ s \notin DOMAIN lent
  BY <1>1 DEF BaseMalloc, Reusable, Fresh
<1>3. DOMAIN lent' = DOMAIN lent \cup {s} /\ DOMAIN spare' = DOMAIN spare \ {s}
  BY DEF BaseMalloc
<1>4. DOMAIN spare' \subseteq Slots \ DOMAIN lent'
  BY <1>1, <1>2, <1>3
<1>5. ASSUME \A u : IsLive(u)' <=> IsLive(u) \/ u = s
      PROVE  \A u : u \in DOMAIN lent' <=> IsLive(u)'
  BY <1>1, <1>3, <1>5
<1>6. LentRight' <=> /\ \A u : u \in DOMAIN lent' <=> IsLive(u)'
                     /\ DOMAIN spare' \subseteq Slots \ DOMAIN lent'
  BY DEF LentRight, IsLive
<1> QED
  BY Zenon, <1>1, <1>2, <1>4, <1>5, <1>6

(* The least and the largest of two numbers.                               *)
LEMMA TwoExtremes ==
    ASSUME NEW a \in Int, NEW b \in Int
    PROVE  /\ Min({a, b}) = IF a <= b THEN a ELSE b
           /\ Max({a, b}) = IF a <= b THEN b ELSE a
BY DEF Min, Max

(* Where a slot's payload starts.                                          *)
Start(s) == Addr(Payload(s))

(* A payload's address, and a bound on it: the initial min is above them   *)
(* all.                                                                    *)
LEMMA StartIs ==
    ASSUME NEW s \in Places
    PROVE  /\ Start(s) \in Nat /\ Start(s) = 2 * ((s * Span) + 1)
           /\ s \in Slots => Start(s) <= (2 * Span) * Wrap
<1>1. s \in Nat /\ Span \in Nat /\ Span >= 5 /\ Wrap \in Nat
  BY SpanIs, HeapAssumption DEF Places
<1>2. Start(s) = 2 * ((s * Span) + 1)
  <2>1. PICK p : p = Payload(s)
    OBVIOUS
  <2>2. p.slot = s /\ p.off = 1 /\ p.odd = FALSE
    BY <2>1 DEF Payload
  <2>3. Start(s) = 2 * (s * Span + 1) + 0
    BY Zenon, <2>1, <2>2 DEF Start, Addr
  <2>4. s * Span \in Nat
    BY <1>1
  <2> QED
    BY <2>3, <2>4
<1>3. PICK m : m = s * Span
  OBVIOUS
<1>4. m \in Nat
  BY <1>1, <1>3
<1>5. ASSUME s \in Slots PROVE m + 1 <= Span * Wrap
  <2>1. s < Wrap
    BY <1>5, HeapAssumption
  <2>2. s * Span + Span <= Span * Wrap
    BY <1>1, <2>1
  <2> QED
    BY <1>1, <1>3, <2>2
<1>6. (2 * Span) * Wrap = 2 * (Span * Wrap) /\ Span * Wrap \in Nat
  BY <1>1
<1> QED
  BY <1>2, <1>3, <1>4, <1>5, <1>6

(* LimitsRight as a relation of its parameters.                            *)
LimitsOf(lo, hi, ps) ==
    /\ ps = {} => lo = (2 * Span) * Wrap /\ hi = 0
    /\ ps # {} => /\ \E b \in ps : lo = Start(b.slot)
                  /\ \E b \in ps : hi = Start(b.slot) + (2 * b.size)
    /\ \A b \in ps : lo <= Start(b.slot) /\ Start(b.slot) + (2 * b.size) <= hi

(* LimitsRight is that relation of the statistics.                         *)
LEMMA LimitsIs == LimitsRight <=> LimitsOf(stat.min, stat.max, past)
BY Zenon DEF LimitsRight, LimitsOf, Start

(* m61_malloc() widens the bounds to the new block.                        *)
LEMMA AllocLimits ==
    ASSUME past \subseteq [slot : Slots, size : 0..Span - 2], LimitsOf(stat.min, stat.max, past),
           NEW s \in Slots, NEW sz \in 0..Span - 2, NEW lo, NEW hi, NEW ps,
           stat.min \in Int, stat.max \in Int,
           lo = Min({stat.min, Start(s)}), hi = Max({stat.max, Start(s) + (2 * sz)}),
           ps = past \cup {[slot |-> s, size |-> sz]}
    PROVE  LimitsOf(lo, hi, ps) /\ lo \in Int /\ hi \in Int
<1>1. PICK a, e, c : a = Start(s) /\ e = Start(s) + (2 * sz) /\ c = [slot |-> s, size |-> sz]
  OBVIOUS
<1>2. a \in Nat /\ sz \in Nat /\ e \in Nat /\ a <= (2 * Span) * Wrap /\ a <= e /\ e = a + (2 * sz)
  <2>1. s \in Places /\ sz \in Nat
    BY SpanIs DEF Places
  <2>2. Start(s) \in Nat /\ Start(s) <= (2 * Span) * Wrap
    BY <2>1, StartIs
  <2> QED
    BY <1>1, <2>1, <2>2
<1>3. /\ lo = IF stat.min <= a THEN stat.min ELSE a
      /\ hi = IF stat.max <= e THEN e ELSE stat.max
  <2>1. PICK x, y : x = stat.min /\ y = stat.max
    OBVIOUS
  <2>2. x \in Int /\ y \in Int /\ a \in Int /\ e \in Int
    BY <1>2, <2>1
  <2>3. Min({x, a}) = IF x <= a THEN x ELSE a
    BY ONLY <2>2, TwoExtremes
  <2>4. Max({y, e}) = IF y <= e THEN e ELSE y
    BY ONLY <2>2, TwoExtremes
  <2> QED
    BY Zenon, <1>1, <2>1, <2>3, <2>4
<1>4. lo \in Int /\ hi \in Int /\ lo <= stat.min /\ lo <= a /\ stat.max <= hi /\ e <= hi
      /\ (lo = stat.min \/ lo = a) /\ (hi = stat.max \/ hi = e)
  <2>1. PICK x, y : x = stat.min /\ y = stat.max
    OBVIOUS
  <2>2. x \in Int /\ y \in Int /\ a \in Int /\ e \in Int
    BY <1>2, <2>1
  <2>3. lo = (IF x <= a THEN x ELSE a) /\ hi = (IF y <= e THEN e ELSE y)
    BY Zenon, <1>3, <2>1
  <2>4. lo \in Int /\ hi \in Int /\ lo <= x /\ lo <= a /\ y <= hi /\ e <= hi
        /\ (lo = x \/ lo = a) /\ (hi = y \/ hi = e)
    BY ONLY <2>2, <2>3
  <2> QED
    BY Zenon, <2>1, <2>4
<1>5. c \in ps /\ c.slot = s /\ c.size = sz /\ \A b \in ps : b \in past \/ b = c
  BY <1>1
<1>6. \E b \in ps : lo = Start(b.slot)
  <2>1. CASE lo = a
    BY Zenon, <1>1, <1>5, <2>1
  <2>2. CASE lo # a
    <3>1. lo = stat.min
      BY <1>4, <2>2
    <3>2. past # {}
      <4>1. past = {} => stat.min = (2 * Span) * Wrap
        BY Zenon DEF LimitsOf
      <4>2. ASSUME past = {} PROVE FALSE
        <5>1. PICK x : x = stat.min
          OBVIOUS
        <5>2. a <= x
          BY Zenon, <1>2, <4>1, <4>2, <5>1
        <5>3. x \in Int /\ a \in Int /\ lo = x /\ lo <= a
          <6>1. x \in Int /\ lo = x /\ lo <= a
            BY Zenon, <1>4, <3>1, <5>1
          <6>2. a \in Nat
            BY Zenon, <1>2
          <6> QED
            BY ONLY <6>1, <6>2
        <5>4. lo = a
          BY ONLY <5>2, <5>3
        <5> QED
          BY Zenon, <2>2, <5>4
      <4> QED
        BY Zenon, <4>2
    <3> QED
      BY Zenon, <3>1, <3>2 DEF LimitsOf
  <2> QED
    BY Zenon, <2>1, <2>2
<1>7. \E b \in ps : hi = Start(b.slot) + (2 * b.size)
  <2>1. CASE hi = e
    BY Zenon, <1>1, <1>5, <2>1
  <2>2. CASE hi # e
    <3>1. hi = stat.max
      BY <1>4, <2>2
    <3>2. past # {}
      <4>1. past = {} => stat.max = 0
        BY Zenon DEF LimitsOf
      <4> QED
        BY <1>2, <1>3, <2>2, <4>1
    <3> QED
      BY Zenon, <3>1, <3>2 DEF LimitsOf
  <2> QED
    BY Zenon, <2>1, <2>2
<1>8. ASSUME NEW b \in ps PROVE lo <= Start(b.slot) /\ Start(b.slot) + (2 * b.size) <= hi
  <2>1. CASE b = c
    BY <1>1, <1>4, <1>5, <2>1
  <2>2. CASE b \in past
    <3>1. PICK x, y : x = Start(b.slot) /\ y = Start(b.slot) + (2 * b.size)
      OBVIOUS
    <3>2. stat.min <= x /\ y <= stat.max
      BY Zenon, <2>2, <3>1 DEF LimitsOf
    <3>3. x \in Int /\ y \in Int
      <4>1. b.slot \in Places /\ b.size \in Int
        BY <2>2 DEF Places
      <4> QED
        BY <3>1, <4>1, StartIs
    <3> QED
      BY <1>4, <3>1, <3>2, <3>3
  <2> QED
    BY Zenon, <1>5, <2>1, <2>2
<1>9. ps # {}
  BY <1>5
<1> QED
  BY Zenon, <1>4, <1>6, <1>7, <1>8, <1>9 DEF LimitsOf

------------------------------------------------------------------------------
(* A block leaves the list.                                                 *)

(* A function on 1..n is a sequence of length n.                           *)
LEMMA SeqIs ==
    ASSUME NEW R, NEW n \in Nat, NEW f \in [1..n -> R]
    PROVE  f \in Seq(R) /\ Len(f) = n
OBVIOUS

(* The list without its block j.                                           *)
Removed(n, j) ==
    /\ live' \in Seq(BlockType) /\ Len(live') = n - 1
    /\ \A i \in 1..n - 1 : live'[i] = IF i < j THEN live[i] ELSE live[i + 1]
    /\ \A i \in 0..n : At(i)' = IF i < j THEN At(i) ELSE At(i + 1)

(* Taking a block off the list moves the ones behind it forward.           *)
LEMMA RemovedIs ==
    ASSUME live \in Seq(BlockType), ListFacts, NEW n, n = Len(live), NEW j \in 1..n,
           live' = Without(At(j))
    PROVE  Removed(n, j)
<1>1. n \in Nat /\ n - 1 \in Nat /\ j \in Nat
  <2>1. n \in Nat
    BY Zenon DEF ListFacts
  <2> QED
    BY <2>1
<1>2. Place(At(j)) = j
  <2>1. j \in 1..Len(live) /\ live[j].slot = At(j)
    BY Zenon DEF ListFacts
  <2>2. \A i \in 1..Len(live) : live[i].slot = At(j) => i = j
    <3>1. ASSUME NEW i \in 1..Len(live), live[i].slot = At(j) PROVE i = j
      <4>1. At(i) = live[i].slot
        BY Zenon DEF ListFacts
      <4>2. At(i) = At(j)
        BY Zenon, <3>1, <4>1
      <4> QED
        BY Zenon, <2>1, <4>2 DEF ListFacts
    <3> QED
      BY Zenon, <3>1
  <2>3. PICK s : s = At(j)
    OBVIOUS
  <2> QED
    BY <2>1, <2>2, <2>3 DEF Place
<1>3. live' = [k \in 1..n - 1 |-> IF k < j THEN live[k] ELSE live[k + 1]]
  BY Zenon, <1>2 DEF Without
<1>4. \A k \in 1..n : live[k] \in BlockType
  BY <1>1
<1>5. \A k \in 1..n - 1 : k \in 1..n /\ k + 1 \in 1..n
  BY <1>1
<1>6. live' \in [1..n - 1 -> BlockType]
  BY <1>3, <1>4, <1>5
<1>7. live' \in Seq(BlockType) /\ Len(live') = n - 1
  BY Zenon, <1>1, <1>6, SeqIs
<1>8. \A i \in 1..n - 1 : live'[i] = IF i < j THEN live[i] ELSE live[i + 1]
  BY Zenon, <1>3
<1>9. ASSUME NEW i \in 0..n PROVE At(i)' = IF i < j THEN At(i) ELSE At(i + 1)
  <2>1. CASE i \in 1..n - 1
    <3>1. At(i)' = live'[i].slot /\ At(i) = live[i].slot /\ At(i + 1) = live[i + 1].slot
      BY <1>1, <1>7, <2>1 DEF At
    <3> QED
      BY Zenon, <1>8, <2>1, <3>1
  <2>2. CASE i = 0
    <3>1. 0 < j /\ At(0)' = 0 /\ At(0) = 0
      BY <1>1, <1>7 DEF At
    <3> QED
      BY Zenon, <2>2, <3>1
  <2>3. CASE i = n
    <3>1. ~(n < j) /\ At(n)' = 0 /\ At(n + 1) = 0
      BY <1>1, <1>7 DEF At
    <3> QED
      BY Zenon, <2>3, <3>1
  <2> QED
    BY <1>1, <2>1, <2>2, <2>3
<1> QED
  BY Zenon, <1>7, <1>8, <1>9 DEF Removed

(* A block is freed: what changes on the list and in the memory.           *)
Gone(n, j) == /\ n = Len(live) /\ j \in 1..n /\ Removed(n, j)
              /\ FreedAs(mem', At(j), At(j - 1), At(j + 1)) /\ past' = past /\ wild' = wild

(* All blocks are in different places, first_node included, at either end. *)
Spread(n) == /\ n \in Nat
             /\ \A i, j \in 0..n : At(i) = At(j) => i = j
             /\ \A i, j \in 1..n + 1 : At(i) = At(j) => i = j

(* Distinct slots and first_node's make the whole ring distinct.           *)
LEMMA Apart ==
    ASSUME ListFacts, NEW n, n = Len(live)
    PROVE  Spread(n)
<1>1. n \in Nat
  BY Zenon DEF ListFacts
<1>2. \A i \in 0..n : i = 0 \/ i \in 1..n
  OBVIOUS
<1>3. \A i \in 1..n + 1 : i = n + 1 \/ i \in 1..n
  BY <1>1
<1>4. \A i, j \in 0..n : At(i) = At(j) => i = j
  BY Zenon, <1>2 DEF ListFacts
<1>5. \A i, j \in 1..n + 1 : At(i) = At(j) => i = j
  BY Zenon, <1>3 DEF ListFacts
<1> QED
  BY Zenon, <1>1, <1>4, <1>5 DEF Spread

(* m61_free() closes the ring round the block.                             *)
LEMMA FreeThreaded ==
    ASSUME Typed, HeapInv, NEW n, NEW j, Gone(n, j)
    PROVE  Threaded'
<1>1. /\ ListFacts /\ n \in Nat /\ n = Len(live) /\ j \in 1..n /\ HeaderAt(mem, 0) /\ Removed(n, j)
      /\ \A i, k \in 0..n : At(i) = At(k) => i = k
      /\ \A i, k \in 1..n + 1 : At(i) = At(k) => i = k
  <2>1. ListFacts
    BY Zenon, ListIs DEF HeapInv
  <2>2. n = Len(live) /\ j \in 1..n /\ Removed(n, j)
    BY Zenon DEF Gone
  <2>3. Spread(n) /\ HeaderAt(mem, 0)
    BY Zenon, <2>1, <2>2, Apart, LastIs
  <2> QED
    BY Zenon, <2>1, <2>2, <2>3 DEF Spread
<1>2. PICK pv, nx : pv = At(j - 1) /\ nx = At(j + 1)
  OBVIOUS
<1>3. \A u \in Places :
         /\ SameBlock(mem[u][0], mem'[u][0])
         /\ mem'[u][0].next = IF u = pv THEN nx ELSE mem[u][0].next
         /\ mem'[u][0].prev = IF u = nx THEN pv ELSE mem[u][0].prev
  BY Zenon, <1>2 DEF Gone, FreedAs
<1>4. past # {} /\ \A i \in 0..n : Ring(i)
  <2>1. live # <<>>
    BY <1>1
  <2> QED
    BY Zenon, <1>1, <2>1 DEF Ring, Threaded, HeapInv
<1>5. \A i \in 0..n : At(i)' = IF i < j THEN At(i) ELSE At(i + 1)
  BY Zenon, <1>1 DEF Removed
<1>6. \A i \in Nat : At(i) \in Places
  BY Zenon, <1>1 DEF ListFacts
<1>7. ASSUME NEW i \in 0..n - 1
      PROVE  mem'[At(i)'][0].next = At(i + 1)' /\ mem'[At(i + 1)'][0].prev = At(i)'
  <2>1. CASE i + 1 < j
    <3>1. /\ i < j /\ i \in 0..n /\ i + 1 \in 0..n /\ i # j - 1 /\ j - 1 \in 0..n /\ i + 1 # j + 1
          /\ i + 1 \in 1..n + 1 /\ j + 1 \in 1..n + 1 /\ i \in Nat /\ i + 1 \in Nat
      BY <1>1, <2>1
    <3>2. PICK u, v : u = At(i) /\ v = At(i + 1)
      OBVIOUS
    <3>3. u \in Places /\ v \in Places /\ At(i)' = u /\ At(i + 1)' = v
      BY Zenon, <1>5, <1>6, <2>1, <3>1, <3>2
    <3>4. u # pv /\ v # nx
      BY Zenon, <1>1, <1>2, <3>1, <3>2
    <3>5. mem[u][0].next = v /\ mem[v][0].prev = u
      BY Zenon, <1>4, <3>1, <3>2 DEF Ring
    <3> QED
      BY Zenon, <1>3, <3>3, <3>4, <3>5
  <2>2. CASE i + 1 = j
    <3>1. i = j - 1 /\ i < j /\ i \in 0..n /\ j \in 0..n /\ i \in Nat /\ j + 1 \in Nat /\ ~(j < j)
      BY <1>1, <2>2
    <3>2. At(i)' = pv /\ At(i + 1)' = nx /\ pv \in Places /\ nx \in Places
      BY Zenon, <1>2, <1>5, <1>6, <2>2, <3>1
    <3> QED
      BY Zenon, <1>3, <3>2
  <2>3. CASE i >= j
    <3>1. /\ ~(i < j) /\ ~(i + 1 < j) /\ i \in 0..n /\ i + 1 \in 0..n /\ i + 1 # j - 1 /\ j - 1 \in 0..n
          /\ (i + 1) + 1 # j + 1 /\ (i + 1) + 1 \in 1..n + 1 /\ j + 1 \in 1..n + 1
          /\ i + 1 \in Nat /\ (i + 1) + 1 \in Nat
      BY <1>1, <2>3
    <3>2. PICK u, v : u = At(i + 1) /\ v = At((i + 1) + 1)
      OBVIOUS
    <3>3. u \in Places /\ v \in Places /\ At(i)' = u /\ At(i + 1)' = v
      BY Zenon, <1>5, <1>6, <3>1, <3>2
    <3>4. u # pv /\ v # nx
      BY Zenon, <1>1, <1>2, <3>1, <3>2
    <3>5. mem[u][0].next = v /\ mem[v][0].prev = u
      BY Zenon, <1>4, <3>1, <3>2 DEF Ring
    <3> QED
      BY Zenon, <1>3, <3>3, <3>4, <3>5
  <2> QED
    BY <1>1, <2>1, <2>2, <2>3
<1>8. Len(live') = n - 1
  BY Zenon, <1>1 DEF Removed
<1>9. First'.is = "header"
  BY Zenon, <1>1, <1>3 DEF First, HeaderAt, SameBlock, ListFacts
<1>10. past' # {}
  BY Zenon, <1>4 DEF Gone
<1> QED
  BY Zenon, <1>7, <1>8, <1>9, <1>10 DEF Threaded

(* m61_free() leaves the other blocks' headers right.                      *)
LEMMA FreeHeaders ==
    ASSUME Typed, HeapInv, NEW n, NEW j, Gone(n, j)
    PROVE  HeadersRight' /\ Distinct' /\ \A u : IsLive(u)' <=> IsLive(u) /\ u # At(j)
<1>1. /\ ListFacts /\ n \in Nat /\ n = Len(live) /\ j \in 1..n /\ Removed(n, j)
      /\ \A i, k \in 1..n + 1 : At(i) = At(k) => i = k
  <2>1. ListFacts
    BY Zenon, ListIs DEF HeapInv
  <2>2. n = Len(live) /\ j \in 1..n /\ Removed(n, j)
    BY Zenon DEF Gone
  <2>3. Spread(n)
    BY Zenon, <2>1, <2>2, Apart
  <2> QED
    BY Zenon, <2>1, <2>2, <2>3 DEF Spread
<1>2. /\ Inner(mem, mem')
      /\ \A u \in Places :
         /\ SameBlock(mem[u][0], mem'[u][0])
         /\ mem'[u][0].tag = IF u = At(j) THEN "freed" ELSE mem[u][0].tag
  BY Zenon DEF Gone, FreedAs
<1>3. PICK ix : ix = [i \in 1..n - 1 |-> IF i < j THEN i ELSE i + 1]
  OBVIOUS
<1>4. \A i \in 1..n - 1 : /\ ix[i] \in 1..n /\ ix[i] # j /\ ix[i] \in 1..n + 1
                          /\ \A k \in 1..n - 1 : ix[k] = ix[i] => k = i
  BY <1>1, <1>3
<1>5. Len(live') = n - 1 /\ \A i \in 1..n - 1 : live'[i] = live[ix[i]]
  BY Zenon, <1>1, <1>3 DEF Removed
<1>6. \A k \in 1..n : k # j => \E i \in 1..n - 1 : ix[i] = k
  <2>1. ASSUME NEW k \in 1..n, k < j PROVE k \in 1..n - 1 /\ ix[k] = k
    BY <1>1, <1>3, <2>1
  <2>2. ASSUME NEW k \in 1..n, k > j PROVE k - 1 \in 1..n - 1 /\ ix[k - 1] = k
    BY <1>1, <1>3, <2>2
  <2>3. \A k \in 1..n : k = j \/ k < j \/ k > j
    BY <1>1
  <2> QED
    BY Zenon, <2>1, <2>2, <2>3
<1>14. \A k \in 1..n : live[k].slot = At(k) /\ At(k) \in Places /\ (k # j => At(k) # At(j))
  BY Zenon, <1>1 DEF ListFacts
<1>7. \A i \in 1..n - 1 : live'[i].slot = At(ix[i])
  BY Zenon, <1>4, <1>5, <1>14
<1>8. ASSUME NEW i \in 1..n - 1, NEW k \in 1..n - 1, live'[i].slot = live'[k].slot PROVE i = k
  <2>1. At(ix[i]) = At(ix[k])
    BY Zenon, <1>7, <1>8
  <2>2. ix[i] = ix[k]
    BY Zenon, <1>1, <1>4, <2>1
  <2> QED
    BY Zenon, <1>4, <2>2
<1>9. Distinct'
  BY Zenon, <1>5, <1>8 DEF Distinct
<1>10. ASSUME NEW u PROVE IsLive(u)' <=> IsLive(u) /\ u # At(j)
  <2>1. IsLive(u)' <=> \E i \in 1..n - 1 : At(ix[i]) = u
    BY Zenon, <1>5, <1>7 DEF IsLive
  <2>2. IsLive(u) <=> \E k \in 1..n : At(k) = u
    BY Zenon, <1>1 DEF ListFacts
  <2>3. \A k \in 1..n : At(k) = At(j) => k = j
    BY Zenon, <1>1 DEF ListFacts
  <2>4. (\E i \in 1..n - 1 : At(ix[i]) = u) => IsLive(u) /\ u # At(j)
    BY Zenon, <1>4, <2>2, <2>3
  <2>5. IsLive(u) /\ u # At(j) => \E i \in 1..n - 1 : At(ix[i]) = u
    BY Zenon, <1>6, <2>2
  <2> QED
    BY Zenon, <2>1, <2>4, <2>5
<1>11. ASSUME NEW i \in 1..n - 1
       PROVE  Right(live'[i], mem'[live'[i].slot][0], mem', past', wild')
  <2>1. PICK b, k : k = ix[i] /\ b = live[k]
    OBVIOUS
  <2>2. k \in 1..n /\ live'[i] = b /\ b.slot = At(k) /\ b.slot \in Places /\ b.slot # At(j)
    BY Zenon, <1>4, <1>5, <1>14, <2>1
  <2>3. b.size + 1 \in 1..Span - 1
    <3>1. b \in BlockType
      <4>1. live \in Seq(BlockType)
        BY DEF Typed, BlockType
      <4> QED
        BY <1>1, <2>1, <2>2, <4>1
    <3> QED
      BY <3>1, SpanIs DEF BlockType
  <2>4. /\ SameBlock(mem[b.slot][0], mem'[b.slot][0])
        /\ mem'[b.slot][0].tag = mem[b.slot][0].tag
        /\ mem'[b.slot][b.size + 1] = mem[b.slot][b.size + 1]
    BY Zenon, <1>2, <2>2, <2>3 DEF Inner
  <2>5. Right(b, mem[b.slot][0], mem, past, wild)
    BY Zenon, <1>1, <2>1, <2>2, RightIs DEF HeapInv
  <2>6. past' = past /\ wild' = wild
    BY Zenon DEF Gone
  <2>7. Right(b, mem'[b.slot][0], mem', past', wild')
    BY Zenon, <2>4, <2>5, <2>6 DEF Right, SameBlock
  <2> QED
    BY Zenon, <2>2, <2>7
<1>12. \A i \in 1..Len(live') : Right(live'[i], mem'[live'[i].slot][0], mem', past', wild')
  BY Zenon, <1>5, <1>11
<1>13. HeadersRight'
  BY Zenon, <1>12 DEF HeadersRight, Right
<1> QED
  BY Zenon, <1>9, <1>10, <1>13

(* StaleRight and LentRight by their parts.                                *)
StaleParts == /\ Blocks(mem, past) /\ Insides(mem)
              /\ \A u \in Slots : mem[u][0].is = "header" /\ ~IsLive(u) => Stale(mem, u)
LentParts == /\ \A u : u \in DOMAIN lent <=> IsLive(u)
             /\ DOMAIN spare \subseteq Slots \ DOMAIN lent

(* The parts make the wholes.                                              *)
LEMMA PartsIs == (StaleRight <=> StaleParts) /\ (LentRight <=> LentParts)
BY Zenon, StaleIs, LentIs DEF StaleParts, LentParts

(* A freed block is stale as StaleRight says, and no other becomes linked. *)
LEMMA FreeStale ==
    ASSUME Typed, HeapInv, NEW n, NEW j, Gone(n, j), At(j) \notin wild,
           \A u : IsLive(u)' <=> IsLive(u) /\ u # At(j)
    PROVE  StaleRight'
<1>1. /\ ListFacts /\ n \in Nat /\ n = Len(live) /\ j \in 1..n
      /\ \A i, k \in 1..n + 1 : At(i) = At(k) => i = k
  <2>1. ListFacts
    BY Zenon, ListIs DEF HeapInv
  <2>2. n = Len(live) /\ j \in 1..n
    BY Zenon DEF Gone
  <2>3. Spread(n)
    BY Zenon, <2>1, <2>2, Apart
  <2> QED
    BY Zenon, <2>1, <2>2, <2>3 DEF Spread
<1>2. PICK t, pv, nx : t = At(j) /\ pv = At(j - 1) /\ nx = At(j + 1)
  OBVIOUS
<1>3. \A u \in Places :
         /\ SameBlock(mem[u][0], mem'[u][0])
         /\ mem'[u][0].tag = IF u = t THEN "freed" ELSE mem[u][0].tag
         /\ mem'[u][0].next = IF u = pv THEN nx ELSE mem[u][0].next
         /\ mem'[u][0].prev = IF u = nx THEN pv ELSE mem[u][0].prev
  BY Zenon, <1>2 DEF Gone, FreedAs
<1>4. past' = past /\ wild' = wild /\ Inner(mem, mem')
  BY Zenon DEF Gone, FreedAs
<1>5. t \in Slots /\ pv \in Places /\ nx \in Places /\ t # nx /\ mem[t][0].prev = pv /\ HeaderAt(mem, pv)
  <2>1. /\ j \in Nat /\ j - 1 \in 0..n /\ j + 1 \in 1..n + 1 /\ j \in 1..n + 1 /\ j + 1 # j
        /\ j + 1 \in Nat /\ j - 1 \in Nat /\ (j - 1) + 1 = j /\ (j - 1 = 0 \/ j - 1 \in 1..n)
    BY <1>1
  <2>2. t \in Slots /\ pv \in Places /\ nx \in Places /\ t # nx
    BY Zenon, <1>1, <1>2, <2>1 DEF ListFacts
  <2>3. Ring(j - 1)
    <3>1. live # <<>>
      BY <1>1
    <3> QED
      BY Zenon, <1>1, <2>1, <3>1 DEF Ring, Threaded, HeapInv
  <2>4. mem[t][0].prev = pv
    BY Zenon, <1>2, <2>1, <2>3 DEF Ring
  <2>5. HeaderAt(mem, pv)
    <3>1. CASE j - 1 = 0
      BY ZenonT(90), <1>1, <1>2, <3>1, LastIs DEF ListFacts
    <3>2. CASE j - 1 \in 1..n
      <4>1. HeaderAt(mem, live[j - 1].slot) /\ At(j - 1) = live[j - 1].slot
        BY Zenon, <1>1, <3>2 DEF HeadersRight, HeapInv, HeaderAt, ListFacts
      <4> QED
        BY Zenon, <1>2, <4>1
    <3> QED
      BY Zenon, <2>1, <3>1, <3>2
  <2> QED
    BY Zenon, <2>2, <2>4, <2>5
<1>6. nx = 0 \/ IsLive(nx)
  <2>1. j + 1 = n + 1 \/ j + 1 \in 1..n
    BY <1>1
  <2> QED
    BY Zenon, <1>1, <1>2, <2>1 DEF ListFacts
<1>7. Blocks(mem', past')
  <2>1. Blocks(mem, past)
    BY Zenon, StaleIs DEF HeapInv
  <2>2. \A u \in Slots : mem'[u][0].is = mem[u][0].is
    BY Zenon, <1>1, <1>3 DEF SameBlock, ListFacts
  <2> QED
    BY Zenon, <1>4, <2>1, <2>2 DEF Blocks
<1>8. Insides(mem')
  <2>1. Insides(mem) /\ Inner(mem, mem')
    BY Zenon, <1>4, StaleIs DEF HeapInv
  <2>2. ASSUME NEW u \in Places, NEW o \in 1..Span - 1, mem'[u][o].is = "header"
        PROVE  mem'[u][o].tag = "live"
    <3>1. mem'[u][o] = mem[u][o]
      BY Zenon, <2>1 DEF Inner
    <3> QED
      BY Zenon, <2>1, <2>2, <3>1 DEF Insides
  <2> QED
    BY Zenon, <2>2 DEF Insides
<1>9. ASSUME NEW u \in Slots, mem'[u][0].is = "header", ~IsLive(u)'
       PROVE  Stale(mem', u)
  <2>0. u \in Places /\ u # 0
    BY Zenon, <1>1 DEF ListFacts
  <2>1. CASE u = t
    <3>1. mem'[t][0].prev = pv /\ mem'[pv][0].is = "header" /\ mem'[pv][0].next = nx
          /\ mem'[t][0].tag = "freed"
      BY Zenon, <1>3, <1>5, <2>0, <2>1 DEF SameBlock, HeaderAt
    <3> QED
      BY Zenon, <1>5, <2>1, <3>1 DEF Stale
  <2>2. CASE u # t
    <3>1. ~IsLive(u) /\ u # nx
      BY Zenon, <1>2, <1>6, <1>9, <2>0, <2>2
    <3>2. PICK v : v = mem[u][0].prev
      OBVIOUS
    <3>3. mem'[u][0].prev = v /\ mem[u][0].is = "header" /\ mem'[u][0].tag = mem[u][0].tag
      BY Zenon, <1>3, <1>9, <2>0, <2>2, <3>1, <3>2 DEF SameBlock
    <3>4. Stale(mem, u)
      BY Zenon, <3>1, <3>3, StaleIs DEF HeapInv
    <3>5. v \in Places /\ mem[v][0].is = "header" /\ mem[v][0].next # u
      BY Zenon, <3>2, <3>4 DEF Stale
    <3>6. mem'[v][0].is = "header" /\ mem'[v][0].next # u
      BY Zenon, <1>3, <3>1, <3>5 DEF SameBlock
    <3> QED
      BY Zenon, <1>4, <3>3, <3>4, <3>5, <3>6 DEF Stale
  <2> QED
    BY Zenon, <2>1, <2>2
<1>10. StaleRight' <=> StaleParts'
  BY PartsIs, PTL
<1> QED
  BY Zenon, <1>7, <1>8, <1>9, <1>10 DEF StaleParts

(* The base allocator takes the block back.                                *)
LEMMA FreeLent ==
    ASSUME HeapInv, NEW s, IsLive(s), s \in Slots, BaseFree(s),
           \A u : IsLive(u)' <=> IsLive(u) /\ u # s
    PROVE  LentRight'
<1>1. /\ \A u : u \in DOMAIN lent <=> IsLive(u)
      /\ DOMAIN spare \subseteq Slots \ DOMAIN lent
  BY Zenon, LentIs DEF HeapInv
<1>2. s \in DOMAIN lent
  BY <1>1
<1>3. DOMAIN lent' = DOMAIN lent \ {s} /\ DOMAIN spare' = DOMAIN spare \cup {s}
  BY <1>2 DEF BaseFree
<1>4. DOMAIN spare' \subseteq Slots \ DOMAIN lent'
  BY <1>1, <1>2, <1>3
<1>5. \A u : u \in DOMAIN lent' <=> IsLive(u)'
  BY <1>1, <1>3
<1>6. LentRight' <=> LentParts'
  BY PartsIs, PTL
<1> QED
  BY Zenon, <1>4, <1>5, <1>6 DEF LentParts

------------------------------------------------------------------------------
(* What m61_free() frees is a block of the list.                            *)

(* What m61_free() has checked when it frees.                              *)
InHeap(p) == stat.min <= Addr(p) /\ Addr(p) <= stat.max
FreedStep(p, h) ==
    /\ p # Null /\ InHeap(p) /\ ~p.odd /\ h.is = "header" /\ h.tag # "freed" /\ Unlinks(h, p)
    /\ Cell(p.slot, p.off + h.size) = Foot
    /\ mem' = [[mem EXCEPT ![p.slot][p.off - 1].tag = "freed",
                           ![h.prev][0].next = h.next] EXCEPT ![h.next][0].prev = h.prev]
    /\ stat' = [stat EXCEPT !.frees = @ + 1, !.active = (@ - h.size) % Wrap]
    /\ BaseFree(p.slot)

(* What Says makes said.                                                   *)
LEMMA SaysIs ==
    ASSUME NEW w, NEW p, NEW i, Says(w, p, i)
    PROVE  said'.what = w /\ said'.ptr = p /\ said'.inside = i
BY DEF Says

(* A call that frees has passed every check.                               *)
LEMMA FreedStepIs ==
    ASSUME NEW p, Free(p), said'.what = "freed"
    PROVE  FreedStep(p, Cell(p.slot, p.off - 1))
<1>1. \A w \in {"nothing", "not in heap", "not allocated", "double free", "wild write"} : w # "freed"
  OBVIOUS
<1>2. \A w \in {"nothing", "not in heap", "not allocated", "double free", "wild write"} : \A i : ~Says(w, p, i)
  BY Zenon, <1>1, SaysIs
<1>3. PICK h : h = Cell(p.slot, p.off - 1)
  OBVIOUS
<1>4. ~Says("nothing", p, {}) /\ ~Says("not in heap", p, {}) /\ ~Says("double free", p, {})
      /\ ~Says("wild write", p, {}) /\ \A i : ~Says("not allocated", p, i)
  BY <1>2
<1> QED
  BY Zenon, <1>4 DEF Free, FreedStep, InHeap

(* The numbers are integers.                                               *)
LEMMA NatInt == \A n \in Nat : n \in Int
OBVIOUS

(* What pointers there are: with the parity, three places of a slot.       *)
LEMMA PointersAre ==
    ASSUME NEW p \in Pointers, p # Null
    PROVE  /\ p.slot \in Places /\ p.off \in 1..3 /\ p.odd \in BOOLEAN
           /\ p = [slot |-> p.slot, off |-> p.off, odd |-> p.odd]
           /\ (p.slot = 0 => p.off = 1 /\ p.odd = FALSE) /\ (p.odd => p.off = 2)
<1>1. CASE p \in [slot : Slots, off : 1..3, odd : {FALSE}]
  <2>1. /\ p.slot \in Slots /\ p.off \in 1..3 /\ p.odd = FALSE
        /\ p = [slot |-> p.slot, off |-> p.off, odd |-> p.odd]
    BY <1>1
  <2>2. p.slot \in Places /\ p.slot # 0
    BY <2>1, HeapAssumption DEF Places
  <2> QED
    BY <2>1, <2>2
<1>2. CASE p \in [slot : Slots, off : {2}, odd : {TRUE}]
  <2>1. /\ p.slot \in Slots /\ p.off = 2 /\ p.odd = TRUE
        /\ p = [slot |-> p.slot, off |-> p.off, odd |-> p.odd]
    BY <1>2
  <2>2. p.slot \in Places /\ p.slot # 0 /\ p.off \in 1..3
    BY <2>1, HeapAssumption DEF Places
  <2> QED
    BY <2>1, <2>2
<1>3. CASE p = [slot |-> 0, off |-> 1, odd |-> FALSE]
  <2>1. p.slot = 0 /\ p.off = 1 /\ p.odd = FALSE
    BY <1>3
  <2>2. p = [slot |-> p.slot, off |-> p.off, odd |-> p.odd]
    BY Zenon, <1>3, <2>1
  <2>3. p.slot \in Places /\ p.off \in 1..3 /\ p.odd \in BOOLEAN
    <3>1. 0 \in Places /\ 1 \in 1..3 /\ FALSE \in BOOLEAN
      BY DEF Places
    <3> QED
      BY Zenon, <2>1, <3>1
  <2> QED
    BY Zenon, <2>1, <2>2, <2>3
<1> QED
  BY <1>1, <1>2, <1>3 DEF Pointers

(* The heap begins above first_node. *)
LEMMA AboveFirst ==
    ASSUME LimitsOf(stat.min, stat.max, past), past \subseteq [slot : Slots, size : 0..Span - 2],
           NEW a, stat.min <= a, NEW s, a = Start(s)
    PROVE  s # 0
<1> SUFFICES ASSUME s = 0 PROVE FALSE
  OBVIOUS
<1>1. a = 2
  <2>1. 0 \in Places
    BY DEF Places
  <2>2. Start(0) = 2 * ((0 * Span) + 1) /\ Span \in Nat
    BY Zenon, <2>1, StartIs, SpanIs
  <2>3. Start(0) = 2
    BY <2>2
  <2> QED
    BY Zenon, <2>3
<1>2. \E x \in Int : stat.min = x /\ x > 2
  <2>1. CASE past = {}
    <3>1. stat.min = (2 * Span) * Wrap
      BY Zenon, <2>1 DEF LimitsOf
    <3>2. Span >= 5 /\ Span \in Nat /\ Wrap \in Nat /\ Wrap >= 1
      BY SpanIs, HeapAssumption
    <3>3. (2 * Span) * Wrap > 2 /\ (2 * Span) * Wrap \in Int
      <4>1. PICK d : d = 2 * Span
        OBVIOUS
      <4>2. d \in Nat /\ d >= 10
        BY <3>2, <4>1
      <4>3. d * Wrap >= d * 1 /\ d * Wrap \in Nat
        BY <3>2, <4>2
      <4> QED
        BY <4>1, <4>2, <4>3
    <3> QED
      BY Zenon, <3>1, <3>3
  <2>2. CASE past # {}
    <3>1. PICK b \in past : stat.min = Start(b.slot)
      BY Zenon, <2>2 DEF LimitsOf
    <3>2. PICK u : u = b.slot
      OBVIOUS
    <3>3. u \in Places /\ u \in Nat /\ u >= 1
      BY <3>2, HeapAssumption DEF Places
    <3>4. Start(u) = 2 * ((u * Span) + 1) /\ Start(u) \in Nat /\ Span \in Nat /\ Span >= 5
      BY Zenon, <3>3, StartIs, SpanIs
    <3>5. u * Span >= 1 * Span
      BY <3>3, <3>4
    <3>6. Start(u) > 2
      BY <3>3, <3>4, <3>5
    <3> QED
      BY Zenon, <3>1, <3>2, <3>4, <3>6, NatInt
  <2> QED
    BY Zenon, <2>1, <2>2
<1>3. PICK x \in Int : stat.min = x /\ x > 2
  BY <1>2
<1>4. x <= 2
  BY Zenon, <1>1, <1>3
<1> QED
  BY ONLY <1>3, <1>4

(* Freeing the list's block j, with its end intact, through its own        *)
(* pointer.                                                                *)
FreesBlock(p, j) ==
    /\ j \in 1..Len(live) /\ p.slot = At(j) /\ p.off = 1 /\ ~p.odd /\ At(j) \notin wild
    /\ FreedAs(mem', At(j), At(j - 1), At(j + 1)) /\ BaseFree(At(j))
    /\ stat' = [stat EXCEPT !.frees = @ + 1, !.active = (@ - live[j].size) % Wrap]

(* The block of the list that starts at a pointer has the neighbours and    *)
(* the size that its header says.                                           *)
LEMMA BlockAt ==
    ASSUME Typed, HeapInv, NEW j \in 1..Len(live)
    PROVE  /\ At(j) \in Slots /\ HeaderAt(mem, At(j))
           /\ At(j - 1) \in Places /\ HeaderAt(mem, At(j - 1))
           /\ At(j + 1) \in Places /\ HeaderAt(mem, At(j + 1))
           /\ mem[At(j)][0].prev = At(j - 1) /\ mem[At(j)][0].next = At(j + 1)
           /\ mem[At(j - 1)][0].next = At(j) /\ mem[At(j + 1)][0].prev = At(j)
           /\ Right(live[j], mem[At(j)][0], mem, past, wild) /\ live[j].slot = At(j)
<1>1. ListFacts
  BY Zenon, ListIs DEF HeapInv
<1>2. PICK n : n = Len(live)
  OBVIOUS
<1>3. /\ j \in Nat /\ j - 1 \in Nat /\ j + 1 \in Nat /\ j - 1 \in 0..n /\ j \in 0..n
      /\ (j - 1) + 1 = j /\ (j - 1 = 0 \/ j - 1 \in 1..n) /\ (j + 1 = n + 1 \/ j + 1 \in 1..n)
      /\ j \in 1..n
  <2>1. n \in Nat
    BY Zenon, <1>1, <1>2 DEF ListFacts
  <2> QED
    BY <1>2, <2>1
<1>4. \A i \in 1..n : HeaderAt(mem, At(i)) /\ Right(live[i], mem[At(i)][0], mem, past, wild)
  <2>1. ASSUME NEW i \in 1..n
        PROVE  HeaderAt(mem, At(i)) /\ Right(live[i], mem[At(i)][0], mem, past, wild)
    <3>1. At(i) = live[i].slot
      BY Zenon, <1>1, <1>2 DEF ListFacts
    <3>2. Right(live[i], mem[live[i].slot][0], mem, past, wild)
      BY Zenon, <1>2, RightIs DEF HeapInv
    <3> QED
      BY Zenon, <3>1, <3>2 DEF HeaderAt, Right
  <2> QED
    BY Zenon, <2>1
<1>5. HeaderAt(mem, 0) /\ At(0) = 0 /\ At(n + 1) = 0
  BY Zenon, <1>1, <1>2, LastIs DEF ListFacts
<1>6. past # {}
  <2>1. live # <<>>
    BY <1>2, <1>3
  <2> QED
    BY Zenon, <2>1 DEF Threaded, HeapInv
<1>7. Ring(j - 1) /\ Ring(j)
  BY Zenon, <1>2, <1>3, <1>6 DEF Ring, Threaded, HeapInv
<1>8. /\ mem[At(j)][0].prev = At(j - 1) /\ mem[At(j)][0].next = At(j + 1)
      /\ mem[At(j - 1)][0].next = At(j) /\ mem[At(j + 1)][0].prev = At(j)
  BY Zenon, <1>3, <1>7 DEF Ring
<1>9. HeaderAt(mem, At(j - 1)) /\ HeaderAt(mem, At(j + 1))
  BY Zenon, <1>3, <1>4, <1>5
<1>10. At(j) \in Slots /\ At(j - 1) \in Places /\ At(j + 1) \in Places /\ live[j].slot = At(j)
  BY Zenon, <1>1, <1>2, <1>3 DEF ListFacts
<1> QED
  BY Zenon, <1>3, <1>4, <1>8, <1>9, <1>10

(* Whatever passes the checks of m61_free() is a live block: a stale       *)
(* header, or a copied one, does not have neighbours that lead back to it. *)
LEMMA FreesLive ==
    ASSUME Typed, HeapInv, NEW p \in Pointers, Free(p), said'.what = "freed"
    PROVE  \E j : FreesBlock(p, j)
<1>1. PICK s, h : s = p.slot /\ h = Cell(p.slot, p.off - 1)
  OBVIOUS
<1>2. FreedStep(p, h)
  BY Zenon, <1>1, FreedStepIs
<1>3. ListFacts
  BY Zenon, ListIs DEF HeapInv
<1>4. /\ s \in Places /\ p.off = 1 /\ ~p.odd /\ p.odd = FALSE
      /\ p = [slot |-> s, off |-> 1, odd |-> FALSE]
  <2>1. p.off = 1 /\ ~p.odd /\ p # Null
    BY Zenon, <1>2 DEF FreedStep, Unlinks
  <2>2. /\ p.slot \in Places /\ p.odd \in BOOLEAN
        /\ p = [slot |-> p.slot, off |-> p.off, odd |-> p.odd]
    BY Zenon, <2>1, PointersAre
  <2>3. p.odd = FALSE
    BY Zenon, <2>1, <2>2
  <2> QED
    BY Zenon, <1>1, <2>1, <2>2, <2>3
<1>5. s \in Slots
  <2>1. Addr(p) = Start(s)
    BY Zenon, <1>4 DEF Start, Payload
  <2>2. LimitsOf(stat.min, stat.max, past) /\ past \subseteq [slot : Slots, size : 0..Span - 2]
    BY Zenon, LimitsIs DEF HeapInv, Typed
  <2>3. stat.min <= Addr(p)
    BY Zenon, <1>2 DEF FreedStep, InHeap
  <2>4. s # 0
    BY Zenon, <2>1, <2>2, <2>3, AboveFirst
  <2> QED
    BY <1>4, <2>4 DEF Places
<1>6. h = mem[s][0] /\ p.off - 1 = 0
  <2>1. p.off - 1 = 0 /\ 0 \in 0..Span - 1
    BY <1>4, SpanIs
  <2> QED
    BY Zenon, <1>1, <2>1 DEF Cell
<1>7. IsLive(s)
  <2>1. mem[h.prev][0].next = s /\ mem[s][0].is = "header"
    BY Zenon, <1>1, <1>2, <1>6 DEF FreedStep, Unlinks
  <2>2. ~IsLive(s) => Stale(mem, s)
    BY Zenon, <1>5, <2>1, StaleIs DEF HeapInv
  <2> QED
    BY Zenon, <1>6, <2>1, <2>2 DEF Stale
<1>8. PICK j \in 1..Len(live) : At(j) = s
  BY Zenon, <1>3, <1>7 DEF ListFacts
<1>9. /\ At(j - 1) \in Places /\ HeaderAt(mem, At(j - 1))
      /\ At(j + 1) \in Places /\ HeaderAt(mem, At(j + 1)) /\ HeaderAt(mem, s)
      /\ h.prev = At(j - 1) /\ h.next = At(j + 1)
      /\ Right(live[j], h, mem, past, wild) /\ live[j].slot = s
  BY Zenon, <1>6, <1>8, BlockAt
<1>10. h.size = live[j].size
  BY Zenon, <1>9 DEF Right
<1>11. s \notin wild
  <2>1. live[j].size + 1 \in 0..Span - 1 /\ p.off + live[j].size = live[j].size + 1
    <3>1. live[j].size \in 0..Span - 2
      <4>1. PICK R : R = [slot : Slots, size : 0..Span - 2, site : Sites]
        OBVIOUS
      <4>2. live \in Seq(R) /\ \A r \in R : r.size \in 0..Span - 2
        BY <4>1 DEF Typed
      <4> QED
        BY <4>2
    <3> QED
      BY <1>4, <3>1, SpanIs
  <2>2. mem[s][live[j].size + 1] = Foot
    BY Zenon, <1>1, <1>2, <1>10, <2>1 DEF FreedStep, Cell
  <2> QED
    BY Zenon, <1>9, <2>2 DEF Right
<1>12. mem' = Freed(s, h.prev, h.next)
  BY Zenon, <1>1, <1>2, <1>6 DEF FreedStep, Freed
<1>13. FreedAs(mem', s, At(j - 1), At(j + 1))
  <2>1. mem \in MemType /\ s \in Places
    BY Zenon, <1>4 DEF Typed, MemType
  <2>2. FreedAs(Freed(s, At(j - 1), At(j + 1)), s, At(j - 1), At(j + 1))
    BY Zenon, <1>9, <2>1, FreedIs
  <2> QED
    BY Zenon, <1>9, <1>12, <2>2
<1>14. BaseFree(s) /\ stat' = [stat EXCEPT !.frees = @ + 1, !.active = (@ - live[j].size) % Wrap]
  BY Zenon, <1>1, <1>2, <1>10 DEF FreedStep
<1>15. FreesBlock(p, j)
  BY Zenon, <1>1, <1>4, <1>8, <1>11, <1>13, <1>14 DEF FreesBlock
<1> QED
  BY <1>15

------------------------------------------------------------------------------
(* What a buggy program writes leaves the list alone.                       *)

(* What a program's write leaves of the headers: all but the tag.          *)
Linkless(a, b) == SameBlock(a, b) /\ b.prev = a.prev /\ b.next = a.next
Scribbled(m, k) == k \in MemType /\ \A u \in Places : Linkless(m[u][0], k[u][0])

(* What depends on links and blocks alone outlives such a write.           *)
LEMMA SameLinks ==
    ASSUME Typed, HeapInv, Scribbled(mem, mem'), live' = live, past' = past, UNCHANGED <<lent, spare>>,
           stat' = stat
    PROVE  /\ Threaded' /\ Distinct' /\ LentRight' /\ LimitsRight' /\ Blocks(mem', past')
           /\ \A u : IsLive(u)' <=> IsLive(u)
<1>1. ListFacts
  BY Zenon, ListIs DEF HeapInv
<1>2. \A i : At(i)' = At(i)
  BY Zenon DEF At
<1>3. \A u \in Places : Linkless(mem[u][0], mem'[u][0])
  BY Zenon DEF Scribbled
<1>4. First'.is = First.is /\ First'.next = First.next /\ First'.prev = First.prev
  BY Zenon, <1>1, <1>3 DEF ListFacts, First, Linkless, SameBlock
<1>5. Threaded'
  <2>1. CASE past = {}
    BY Zenon, <1>4, <2>1 DEF Threaded, HeapInv
  <2>2. CASE past # {}
    <3>1. ASSUME NEW i \in 0..Len(live)
          PROVE  mem'[At(i)][0].next = At(i + 1) /\ mem'[At(i + 1)][0].prev = At(i)
      <4>1. i \in Nat /\ i + 1 \in Nat
        OBVIOUS
      <4>2. At(i) \in Places /\ At(i + 1) \in Places
        BY Zenon, <1>1, <4>1 DEF ListFacts
      <4>3. Ring(i)
        BY Zenon, <2>2 DEF Ring, Threaded, HeapInv
      <4> QED
        BY Zenon, <1>3, <4>2, <4>3 DEF Ring, Linkless
    <3> QED
      BY Zenon, <1>2, <1>4, <2>2, <3>1 DEF Threaded, HeapInv
  <2> QED
    BY Zenon, <2>1, <2>2
<1>6. Distinct' /\ \A u : IsLive(u)' <=> IsLive(u)
  BY Zenon DEF Distinct, IsLive, HeapInv
<1>7. LentRight' /\ LimitsRight'
  BY Zenon DEF HeapInv, LentRight, LimitsRight
<1>8. Blocks(mem', past')
  <2>1. \A u \in Slots : mem'[u][0].is = mem[u][0].is
    BY Zenon, <1>1, <1>3 DEF ListFacts, Linkless, SameBlock
  <2>2. Blocks(mem, past)
    BY Zenon, StaleIs DEF HeapInv
  <2> QED
    BY Zenon, <2>1, <2>2 DEF Blocks
<1> QED
  BY Zenon, <1>5, <1>6, <1>7, <1>8

(* Writing to cells of a live block, past its header. *)
Written(m, k, s) ==
    /\ k \in MemType /\ \A u \in Places : u # s => k[u] = m[u]
    /\ k[s][0] = m[s][0] /\ \A o \in 1..Span - 1 : k[s][o].is = "header" => k[s][o].tag = "live"

(* A write inside a live block, be it of another block's header, keeps the *)
(* heap's invariant, as long as wild notes whether the end survived.       *)
LEMMA WrittenKeeps ==
    ASSUME Typed, HeapInv, NEW s \in Slots, IsLive(s), Written(mem, mem', s), live' = live,
           past' = past, UNCHANGED <<lent, spare>>, stat' = stat, wild' \subseteq Slots,
           \A u \in Slots : u # s => (u \in wild' <=> u \in wild),
           \A i \in 1..Len(live) : live[i].slot = s =>
              (mem'[s][live[i].size + 1] = Foot <=> s \notin wild')
    PROVE  HeapInv'
<1>1. ListFacts
  BY Zenon, ListIs DEF HeapInv
<1>2. \A u \in Places : mem'[u][0] = mem[u][0]
  BY Zenon DEF Written
<1>3. Scribbled(mem, mem')
  BY Zenon, <1>2 DEF Written, Scribbled, Linkless, SameBlock
<1>4. /\ Threaded' /\ Distinct' /\ LentRight' /\ LimitsRight' /\ Blocks(mem', past')
      /\ \A u : IsLive(u)' <=> IsLive(u)
  BY Zenon, <1>3, SameLinks
<1>5. ASSUME NEW i \in 1..Len(live)
      PROVE  Right(live[i], mem'[live[i].slot][0], mem', past', wild')
  <2>1. PICK b : b = live[i]
    OBVIOUS
  <2>2. Right(b, mem[b.slot][0], mem, past, wild) /\ b.slot \in Slots /\ b.slot \in Places
    BY ZenonT(90), <1>1, <2>1, RightIs DEF HeapInv, ListFacts
  <2>3. mem'[b.slot][0] = mem[b.slot][0]
    BY Zenon, <1>2, <2>2
  <2>4. mem'[b.slot][b.size + 1] = Foot <=> b.slot \notin wild'
    <3>1. CASE b.slot = s
      BY Zenon, <2>1, <3>1
    <3>2. CASE b.slot # s
      BY Zenon, <2>2, <3>2 DEF Written, Right
    <3> QED
      BY Zenon, <3>1, <3>2
  <2> QED
    BY Zenon, <2>1, <2>2, <2>3, <2>4 DEF Right
<1>6. HeadersRight'
  BY Zenon, <1>5 DEF HeadersRight, Right
<1>7. Insides(mem')
  <2>1. Insides(mem)
    BY Zenon, StaleIs DEF HeapInv
  <2> QED
    BY ZenonT(90), <2>1 DEF Insides, Written
<1>8. ASSUME NEW u \in Slots, mem'[u][0].is = "header", ~IsLive(u)'
      PROVE  Stale(mem', u)
  <2>1. ~IsLive(u) /\ u # s /\ u \in Places /\ mem'[u][0] = mem[u][0]
    BY Zenon, <1>1, <1>2, <1>4, <1>8 DEF ListFacts
  <2>2. Stale(mem, u)
    BY Zenon, <1>8, <2>1, StaleIs DEF HeapInv
  <2>3. PICK v : v = mem[u][0].prev
    OBVIOUS
  <2>4. v \in Places /\ mem'[v][0] = mem[v][0]
    BY Zenon, <1>2, <2>2, <2>3 DEF Stale
  <2> QED
    BY Zenon, <2>1, <2>2, <2>3, <2>4 DEF Stale
<1>9. StaleRight'
  <2>1. StaleRight' <=> StaleParts'
    BY PartsIs, PTL
  <2> QED
    BY Zenon, <1>4, <1>7, <1>8, <2>1 DEF StaleParts
<1> QED
  BY Zenon, <1>4, <1>6, <1>9 DEF HeapInv

(* One slot written.                                                       *)
WithRow(m, s, r) == [m EXCEPT ![s] = r]
RowPut(m, k, s, r) == k \in MemType /\ k[s] = r /\ \A u \in Places : u # s => k[u] = m[u]

(* A slot written as a whole is, and no other changes.                     *)
LEMMA RowSet ==
    ASSUME NEW m \in MemType, NEW s \in Places, NEW r \in [0..Span - 1 -> CellType]
    PROVE  RowPut(m, WithRow(m, s, r), s, r)
BY DEF MemType, RowPut, WithRow

(* A write past the end of a live block keeps the heap's invariant.        *)
LEMMA OverrunKeeps ==
    ASSUME Typed, HeapInv, NEW s \in Slots, IsLive(s), Overrun(s), wild' = wild \cup {s},
           live' = live, past' = past
    PROVE  HeapInv' /\ mem' \in MemType
<1>1. ListFacts /\ s \in Places
  BY Zenon, ListIs DEF HeapInv, ListFacts
<1>2. PICK j \in 1..Len(live) : At(j) = s
  BY Zenon, <1>1 DEF ListFacts
<1>3. Right(live[j], mem[s][0], mem, past, wild) /\ live[j].slot = s
  BY Zenon, <1>2, BlockAt
<1>4. PICK z, x : z = mem[s][0].size + 1 /\ x = mem[s]
  OBVIOUS
<1>5. live[j].size = mem[s][0].size /\ z \in 1..Span - 1 /\ z # 0
  <2>1. live[j].size \in 0..Span - 2
    <3>1. PICK R : R = [slot : Slots, size : 0..Span - 2, site : Sites]
      OBVIOUS
    <3>2. live \in Seq(R) /\ \A r \in R : r.size \in 0..Span - 2
      BY <3>1 DEF Typed
    <3> QED
      BY <3>2
  <2>2. live[j].size = mem[s][0].size
    BY Zenon, <1>3 DEF Right
  <2> QED
    BY SMTT(60), <1>4, <2>1, <2>2, SpanIs
<1>6. mem \in MemType /\ x \in [0..Span - 1 -> CellType]
  BY <1>1, <1>4 DEF Typed, MemType
<1>7. PICK r : r = [x EXCEPT ![z] = Junk]
  OBVIOUS
<1>8. r \in [0..Span - 1 -> CellType] /\ r[z] = Junk /\ r[0] = x[0]
      /\ \A o \in 1..Span - 1 : o # z => r[o] = x[o]
  <2>1. Junk \in CellType /\ z \in 0..Span - 1
    BY <1>5, SpanIs DEF CellType
  <2> QED
    BY <1>5, <1>6, <1>7, <2>1, SpanIs
<1>9. mem' = [mem EXCEPT ![s] = r]
  BY Zenon, <1>4, <1>7 DEF Overrun
<1>10. mem' \in MemType /\ mem'[s] = r /\ \A u \in Places : u # s => mem'[u] = mem[u]
  <2>1. RowPut(mem, WithRow(mem, s, r), s, r)
    BY Zenon, <1>1, <1>6, <1>8, RowSet
  <2> QED
    BY Zenon, <1>9, <2>1 DEF RowPut, WithRow
<1>11. Junk.is # "header" /\ Junk # Foot
  BY DEF Junk, Foot
<1>12. ASSUME NEW o \in 1..Span - 1, mem'[s][o].is = "header" PROVE mem'[s][o].tag = "live"
  <2>1. o # z
    BY Zenon, <1>8, <1>10, <1>11, <1>12
  <2>2. mem'[s][o] = mem[s][o]
    BY Zenon, <1>4, <1>8, <1>10, <2>1
  <2> QED
    BY Zenon, <1>1, <1>12, <2>2, StaleIs DEF HeapInv, Insides
<1>13. Written(mem, mem', s)
  BY Zenon, <1>4, <1>8, <1>10, <1>12 DEF Written
<1>14. ASSUME NEW i \in 1..Len(live), live[i].slot = s
       PROVE  mem'[s][live[i].size + 1] = Foot <=> s \notin wild'
  <2>1. i = j
    BY Zenon, <1>2, <1>14 DEF HeapInv, Distinct, ListFacts, At
  <2>2. mem'[s][z] = Junk /\ s \in wild'
    BY Zenon, <1>8, <1>10
  <2> QED
    BY Zenon, <1>4, <1>5, <1>11, <2>1, <2>2
<1>15. wild' \subseteq Slots /\ \A u \in Slots : u # s => (u \in wild' <=> u \in wild)
  BY DEF Typed
<1>16. UNCHANGED <<lent, spare>> /\ stat' = stat
  BY Zenon DEF Overrun
<1>17. HeapInv'
  BY Zenon, <1>13, <1>14, <1>15, <1>16, WrittenKeeps
<1> QED
  BY Zenon, <1>10, <1>17

(* So does a copy of a block, header and all, into another.                *)
LEMMA CopyIntoKeeps ==
    ASSUME Typed, HeapInv, NEW s \in Slots, NEW t \in Slots, IsLive(s), IsLive(t), CopyInto(s, t),
           wild' = wild, live' = live, past' = past
    PROVE  HeapInv' /\ mem' \in MemType
<1>1. ListFacts /\ s \in Places /\ t \in Places
  BY Zenon, ListIs DEF HeapInv, ListFacts
<1>2. PICK j \in 1..Len(live) : At(j) = s
  BY Zenon, <1>1 DEF ListFacts
<1>3. PICK l \in 1..Len(live) : At(l) = t
  BY Zenon, <1>1 DEF ListFacts
<1>4. /\ Right(live[j], mem[s][0], mem, past, wild) /\ live[j].slot = s
      /\ Right(live[l], mem[t][0], mem, past, wild)
  BY Zenon, <1>2, <1>3, BlockAt
<1>5. PICK x, a, b : x = mem[s] /\ a = mem[t][0] /\ b = mem[t][1]
  OBVIOUS
<1>6. mem \in MemType /\ x \in [0..Span - 1 -> CellType] /\ a \in CellType /\ b \in CellType
  BY <1>1, <1>5, SpanIs DEF Typed, MemType
<1>7. PICK r : r = [x EXCEPT ![1] = a, ![2] = b]
  OBVIOUS
<1>8. r \in [0..Span - 1 -> CellType] /\ r[1] = a /\ r[2] = b /\ r[0] = x[0]
      /\ \A o \in 1..Span - 1 : o # 1 /\ o # 2 => r[o] = x[o]
  BY <1>6, <1>7, SpanIs
<1>9. mem' = [mem EXCEPT ![s] = r]
  BY Zenon, <1>5, <1>7 DEF CopyInto
<1>10. mem' \in MemType /\ mem'[s] = r /\ \A u \in Places : u # s => mem'[u] = mem[u]
  <2>1. RowPut(mem, WithRow(mem, s, r), s, r)
    BY Zenon, <1>1, <1>6, <1>8, RowSet
  <2> QED
    BY Zenon, <1>9, <2>1 DEF RowPut, WithRow
<1>11. ASSUME NEW o \in 1..Span - 1, mem'[s][o].is = "header" PROVE mem'[s][o].tag = "live"
  <2>1. CASE o = 1
    BY Zenon, <1>4, <1>5, <1>8, <1>10, <2>1 DEF Right
  <2>2. CASE o = 2
    <3>1. 1 \in 1..Span - 1
      BY SpanIs
    <3>2. mem'[s][o] = mem[t][1]
      BY Zenon, <1>5, <1>8, <1>10, <2>2
    <3> QED
      BY Zenon, <1>1, <1>11, <3>1, <3>2, StaleIs DEF HeapInv, Insides
  <2>3. CASE o # 1 /\ o # 2
    <3>1. mem'[s][o] = mem[s][o]
      BY Zenon, <1>5, <1>8, <1>10, <2>3
    <3> QED
      BY Zenon, <1>1, <1>11, <3>1, StaleIs DEF HeapInv, Insides
  <2> QED
    BY Zenon, <2>1, <2>2, <2>3
<1>12. Written(mem, mem', s)
  BY Zenon, <1>5, <1>8, <1>10, <1>11 DEF Written
<1>13. ASSUME NEW i \in 1..Len(live), live[i].slot = s
       PROVE  mem'[s][live[i].size + 1] = Foot <=> s \notin wild'
  <2>1. i = j
    BY Zenon, <1>2, <1>13 DEF HeapInv, Distinct, ListFacts, At
  <2>2. mem[s][0].size >= 2 /\ live[j].size = mem[s][0].size
    BY Zenon, <1>4 DEF Right, CopyInto
  <2>3. live[j].size + 1 \in 1..Span - 1 /\ live[j].size + 1 # 1 /\ live[j].size + 1 # 2
    <3>1. live[j].size \in 0..Span - 2
      <4>1. PICK R : R = [slot : Slots, size : 0..Span - 2, site : Sites]
        OBVIOUS
      <4>2. live \in Seq(R) /\ \A y \in R : y.size \in 0..Span - 2
        BY <4>1 DEF Typed
      <4> QED
        BY <4>2
    <3>2. PICK z : z = live[j].size
      OBVIOUS
    <3>3. z \in 0..Span - 2 /\ z >= 2
      BY Zenon, <2>2, <3>1, <3>2
    <3>4. z + 1 \in 1..Span - 1 /\ z + 1 # 1 /\ z + 1 # 2
      BY ONLY <3>3, SpanIs
    <3> QED
      BY Zenon, <3>2, <3>4
  <2>4. mem'[s][live[j].size + 1] = mem[s][live[j].size + 1]
    BY Zenon, <1>5, <1>8, <1>10, <2>3
  <2> QED
    BY Zenon, <1>4, <2>1, <2>4 DEF Right
<1>14. wild' \subseteq Slots /\ \A u \in Slots : u # s => (u \in wild' <=> u \in wild)
  BY DEF Typed
<1>15. UNCHANGED <<lent, spare>> /\ stat' = stat
  BY Zenon DEF CopyInto
<1>16. HeapInv'
  BY Zenon, <1>12, <1>13, <1>14, <1>15, WrittenKeeps
<1> QED
  BY Zenon, <1>10, <1>16

------------------------------------------------------------------------------
(* The statistics.                                                          *)

(* What the slots hold, for the sum of the live bytes.                     *)
HeldNow == [s \in Slots |-> Held(s)]
HeldFacts == /\ \A u, i : i \in 1..Len(live) /\ live[i].slot = u => Held(u) = live[i].size
             /\ \A u : ~IsLive(u) => Held(u) = 0
             /\ HeldNow \in [Slots -> Nat]

(* The facts about the list, as one implication.                           *)
LEMMA ListThen == Typed /\ Distinct => ListFacts
BY ListIs

(* The types of a block's parts.                                           *)
LEMMA SizesAre ==
    ASSUME Typed, NEW i \in 1..Len(live)
    PROVE  live[i].size \in 0..Span - 2 /\ live[i].size \in Nat /\ live[i].site \in Sites
<1>1. PICK R : R = [slot : Slots, size : 0..Span - 2, site : Sites]
  OBVIOUS
<1>2. live \in Seq(R) /\ \A y \in R : y.size \in 0..Span - 2 /\ y.site \in Sites
  BY <1>1 DEF Typed
<1>3. live[i].size \in 0..Span - 2 /\ live[i].site \in Sites
  BY <1>2
<1> QED
  BY <1>3, SpanIs

(* A live block's slot holds its size, every other slot nothing.           *)
LEMMA HeldAre == Typed /\ Distinct => HeldFacts
<1> SUFFICES ASSUME Typed, Distinct PROVE HeldFacts
  OBVIOUS
<1>1. ListFacts
  BY Zenon, ListIs
<1>2. ASSUME NEW i \in 1..Len(live) PROVE Held(At(i)) = live[i].size
  <2>1. \A k \in 1..Len(live) : live[k].slot = At(i) => k = i
    <3>1. ASSUME NEW k \in 1..Len(live), live[k].slot = At(i) PROVE k = i
      <4>1. live[i].slot = At(i)
        BY Zenon, <1>1 DEF ListFacts
      <4>2. live[k].slot = live[i].slot
        BY Zenon, <3>1, <4>1
      <4> QED
        BY Zenon, <4>2 DEF Distinct
    <3> QED
      BY Zenon, <3>1
  <2>2. live[i].slot = At(i) /\ IsLive(At(i))
    BY Zenon, <1>1 DEF ListFacts
  <2>3. PICK s : s = At(i)
    OBVIOUS
  <2>4. Place(s) = i
    BY <2>1, <2>2, <2>3 DEF Place
  <2> QED
    BY Zenon, <2>2, <2>3, <2>4 DEF Held
<1>3. \A u : ~IsLive(u) => Held(u) = 0
  BY Zenon DEF Held
<1>4. ASSUME NEW u \in Slots PROVE Held(u) \in Nat
  <2>1. CASE IsLive(u)
    <3>1. PICK i \in 1..Len(live) : At(i) = u
      BY Zenon, <1>1, <2>1 DEF ListFacts
    <3>2. live[i].size \in Nat
      BY Zenon, SizesAre
    <3> QED
      BY Zenon, <1>2, <3>1, <3>2
  <2>2. CASE ~IsLive(u)
    <3>1. 0 \in Nat
      OBVIOUS
    <3> QED
      BY Zenon, <1>3, <2>2, <3>1
  <2> QED
    BY Zenon, <2>1, <2>2
<1>5. HeldNow \in [Slots -> Nat]
  BY <1>4 DEF HeldNow
<1>6. \A u, i : i \in 1..Len(live) /\ live[i].slot = u => Held(u) = live[i].size
  <2>1. ASSUME NEW u, NEW i \in 1..Len(live), live[i].slot = u PROVE Held(u) = live[i].size
    <3>1. At(i) = u
      BY Zenon, <1>1, <2>1 DEF ListFacts
    <3> QED
      BY Zenon, <1>2, <3>1
  <2> QED
    BY Zenon, <2>1
<1> QED
  BY Zenon, <1>3, <1>5, <1>6 DEF HeldFacts

(* A sum of natural numbers is one. *)
LEMMA SumNat ==
    ASSUME NEW S, IsFiniteSet(S), NEW f \in [S -> Nat]
    PROVE  SumFunction(f) \in Nat
<1>1. PICK F : F = Table(f, S)
  OBVIOUS
<1>2. f \in [S -> Int]
  OBVIOUS
<1>3. /\ F[{}] = 0
      /\ \A s \in SUBSET S : s # {} => F[s] = f[Some(s)] + F[Rest(s)]
      /\ SumFunction(f) = F[S]
  BY Zenon, <1>1, <1>2, SumIs DEF Summed
<1>4. PICK Q : Q = {s \in SUBSET S : F[s] \in Nat}
  OBVIOUS
<1>5. {} \in Q
  BY <1>3, <1>4
<1>6. ASSUME NEW s \in SUBSET S, s # {}, Rest(s) \in Q
      PROVE  s \in Q
  <2>1. Some(s) \in S
    BY <1>6 DEF Some
  <2>2. PICK a, b : a = f[Some(s)] /\ b = F[Rest(s)]
    OBVIOUS
  <2>3. a \in Nat /\ b \in Nat
    BY <1>4, <1>6, <2>1, <2>2
  <2>4. F[s] = a + b
    BY Zenon, <1>3, <1>6, <2>2
  <2>5. F[s] \in Nat
    BY <2>3, <2>4
  <2> QED
    BY Zenon, <1>4, <2>5
<1>7. S \in SUBSET S /\ \A s \in SUBSET S : s \in Q
  BY Zenon, <1>5, <1>6, SetsInduct
<1> QED
  BY Zenon, <1>3, <1>4, <1>7

(* The sets summed over are finite.                                        *)
LEMMA FiniteSets == IsFiniteSet(Slots) /\ IsFiniteSet(Sites) /\ IsFiniteSet(Counters)
BY Zenon, HeapAssumption

(* An allocation of d bytes. *)
NoWrap(W, L, k, t, a, d) ==
    /\ (a + d) % W = a + d /\ (t + d) % W = t + d
    /\ (t + d) + (L * (k - 1)) < W /\ a + d <= t + d

(* A sum that leaves room for the calls to come leaves room for one call.  *)
LEMMA AllocArith ==
    ASSUME NEW W \in Nat, NEW L \in Nat, NEW k \in Nat, k > 0, NEW t \in Nat, NEW a \in Nat,
           NEW d \in Nat, d <= L, t + (L * k) < W, a <= t
    PROVE  NoWrap(W, L, k, t, a, d)
<1>1. L * k = L * (k - 1) + L /\ L * (k - 1) \in Nat
  BY SMTT(60)
<1>2. PICK z : z = L * (k - 1)
  OBVIOUS
<1>3. L * k = z + L /\ z \in Nat
  BY <1>1, <1>2
<1>4. (t + d) + z < W /\ a + d < W /\ t + d < W
  BY <1>3
<1>5. (a + d) % W = a + d /\ (t + d) % W = t + d
  BY <1>4
<1> QED
  BY <1>2, <1>4, <1>5 DEF NoWrap

(* A function grows by d at x.                                             *)
Grows(f, g, S, x, d) == /\ f \in [S -> Nat] /\ g \in [S -> Nat] /\ x \in S /\ g[x] = f[x] + d
                        /\ \A y \in S : y # x => g[y] = f[y]

(* Its sum grows by d.                                                     *)
SumMore(f, g, d) == /\ SumFunction(g) = SumFunction(f) + d
                    /\ SumFunction(f) \in Nat /\ SumFunction(g) \in Nat

(* One site's, or one slot's, growth is the sum's.                         *)
LEMMA SumGrows ==
    ASSUME NEW S, IsFiniteSet(S), NEW f, NEW g, NEW x, NEW d \in Int, Grows(f, g, S, x, d)
    PROVE  SumMore(f, g, d)
<1>1. /\ f \in [S -> Int] /\ g \in [S -> Int] /\ f \in [S -> Nat] /\ g \in [S -> Nat]
      /\ x \in S /\ g[x] - f[x] = d /\ \A y \in S : y # x => g[y] = f[y]
  BY DEF Grows
<1>2. SumFunction(g) = SumFunction(f) + (g[x] - f[x])
  <2>1. SameBut(f, g, S, x)
    BY Zenon, <1>1 DEF SameBut
  <2>2. SumMoves(f, g, x)
    BY Zenon, <1>1, <2>1, SumChanged
  <2> QED
    BY Zenon, <2>2 DEF SumMoves
<1>3. SumFunction(f) \in Nat /\ SumFunction(g) \in Nat
  BY Zenon, <1>1, SumNat
<1> QED
  BY Zenon, <1>1, <1>2, <1>3 DEF SumMore

(* A call charges its site with its bytes and one call.                    *)
LEMMA MadeGrows ==
    ASSUME made \in [Sites -> Costs], NEW site \in Sites, NEW sz \in Nat,
           made' = [made EXCEPT ![site] = [bytes |-> @.bytes + sz, calls |-> @.calls + 1]]
    PROVE  /\ made' \in [Sites -> Costs]
           /\ Grows(Bytes, Bytes', Sites, site, sz) /\ Grows(Calls, Calls', Sites, site, 1)
<1>1. PICK c, d : c = made[site] /\ d = [bytes |-> c.bytes + sz, calls |-> c.calls + 1]
  OBVIOUS
<1>2. c.bytes \in Nat /\ c.calls \in Nat
  BY <1>1 DEF Costs
<1>3. d \in Costs /\ d.bytes = c.bytes + sz /\ d.calls = c.calls + 1
  BY <1>1, <1>2 DEF Costs
<1>4. made' = [made EXCEPT ![site] = d]
  BY Zenon, <1>1
<1>5. made' \in [Sites -> Costs] /\ made'[site] = d /\ \A x \in Sites : x # site => made'[x] = made[x]
  BY <1>3, <1>4
<1>6. \A x \in Sites : /\ made[x].bytes \in Nat /\ made[x].calls \in Nat
                       /\ made'[x].bytes \in Nat /\ made'[x].calls \in Nat
  BY <1>5 DEF Costs
<1>7. /\ Bytes \in [Sites -> Nat] /\ Calls \in [Sites -> Nat]
      /\ Bytes' \in [Sites -> Nat] /\ Calls' \in [Sites -> Nat]
      /\ \A x \in Sites : /\ Bytes[x] = made[x].bytes /\ Calls[x] = made[x].calls
                          /\ Bytes'[x] = made'[x].bytes /\ Calls'[x] = made'[x].calls
  BY <1>6 DEF Bytes, Calls
<1>8. \A x \in Sites : x # site => Bytes'[x] = Bytes[x] /\ Calls'[x] = Calls[x]
  BY Zenon, <1>5, <1>7
<1>9. Bytes'[site] = Bytes[site] + sz /\ Calls'[site] = Calls[site] + 1
  BY Zenon, <1>1, <1>3, <1>5, <1>7
<1> QED
  BY Zenon, <1>5, <1>7, <1>8, <1>9 DEF Grows

(* The held bytes before and after. *)
LEMMA HeldGrows ==
    ASSUME Typed, Distinct, HeldFacts', NEW s \in Slots, NEW n, NewList(n, s), NEW sz \in 0..Span - 2,
           NEW site, Appended(n, s, sz, site), ~IsLive(s), \A u : IsLive(u)' <=> IsLive(u) \/ u = s
    PROVE  Grows(HeldNow, HeldNow', Slots, s, sz)
<1>1. HeldFacts /\ ListFacts
  BY Zenon, HeldAre, ListIs
<1>2. HeldNow \in [Slots -> Nat] /\ HeldNow' \in [Slots -> Nat]
      /\ \A u \in Slots : HeldNow[u] = Held(u) /\ HeldNow'[u] = Held(u)'
  BY <1>1 DEF HeldFacts, HeldNow
<1>3. n \in Nat /\ n = Len(live) /\ Len(live') = n + 1 /\ n + 1 \in 1..n + 1
      /\ \A i \in 1..n : i \in 1..n + 1 /\ i \in 0..n
  BY DEF NewList
<1>4. Held(s)' = sz
  <2>1. live'[n + 1].slot = s /\ live'[n + 1].size = sz
    BY DEF Appended, Block
  <2> QED
    BY Zenon, <1>3, <2>1 DEF HeldFacts
<1>5. ASSUME NEW u \in Slots, u # s PROVE Held(u)' = Held(u)
  <2>1. CASE IsLive(u)
    <3>1. PICK i \in 1..n : live[i].slot = u
      BY Zenon, <1>3, <2>1 DEF IsLive
    <3>2. live'[i] = live[i] /\ i \in 1..Len(live') /\ i \in 1..Len(live)
      BY Zenon, <1>3 DEF Appended
    <3>3. Held(u) = live[i].size
      BY Zenon, <1>1, <3>1, <3>2 DEF HeldFacts
    <3>4. Held(u)' = live'[i].size
      BY Zenon, <3>1, <3>2 DEF HeldFacts
    <3> QED
      BY Zenon, <3>2, <3>3, <3>4
  <2>2. CASE ~IsLive(u)
    <3>1. ~IsLive(u)'
      BY Zenon, <1>5, <2>2
    <3> QED
      BY Zenon, <1>1, <2>2, <3>1 DEF HeldFacts
  <2> QED
    BY Zenon, <2>1, <2>2
<1>6. HeldNow'[s] = HeldNow[s] + sz
  <2>1. HeldNow[s] = 0 /\ HeldNow'[s] = sz
    BY Zenon, <1>1, <1>2, <1>4 DEF HeldFacts
  <2>2. sz \in Nat
    BY SpanIs
  <2> QED
    BY ONLY <2>1, <2>2
<1>7. \A u \in Slots : u # s => HeldNow'[u] = HeldNow[u]
  BY Zenon, <1>2, <1>5
<1> QED
  BY Zenon, <1>2, <1>6, <1>7 DEF Grows

(* Freeing gives the slot's bytes back, so the state before is larger by   *)
(* them.                                                                   *)
LEMMA HeldShrinks ==
    ASSUME Typed, Distinct, HeldFacts', NEW n, NEW j, Gone(n, j),
           \A u : IsLive(u)' <=> IsLive(u) /\ u # At(j)
    PROVE  Grows(HeldNow', HeldNow, Slots, At(j), live[j].size)
<1>1. HeldFacts /\ ListFacts
  BY Zenon, HeldAre, ListIs
<1>2. HeldNow \in [Slots -> Nat] /\ HeldNow' \in [Slots -> Nat]
      /\ \A u \in Slots : HeldNow[u] = Held(u) /\ HeldNow'[u] = Held(u)'
  BY <1>1 DEF HeldFacts, HeldNow
<1>3. n \in Nat /\ n = Len(live) /\ j \in 1..n /\ Len(live') = n - 1
      /\ \A i \in 1..n - 1 : live'[i] = IF i < j THEN live[i] ELSE live[i + 1]
  BY Zenon, <1>1 DEF Gone, ListFacts, Removed
<1>4. At(j) \in Slots /\ live[j].slot = At(j)
  BY Zenon, <1>1, <1>3 DEF ListFacts
<1>5. Held(At(j)) = live[j].size
  BY Zenon, <1>1, <1>3, <1>4 DEF HeldFacts
<1>6. PICK s : s = At(j)
  OBVIOUS
<1>7. HeldNow'[s] = 0
  <2>1. ~IsLive(s)'
    BY Zenon, <1>6
  <2>2. Held(s)' = 0
    BY Zenon, <2>1 DEF HeldFacts
  <2> QED
    BY Zenon, <1>2, <1>4, <1>6, <2>2
<1>8. ASSUME NEW u \in Slots, u # s PROVE Held(u)' = Held(u)
  <2>1. CASE IsLive(u)
    <3>1. PICK i \in 1..n : live[i].slot = u
      BY Zenon, <1>3, <2>1 DEF IsLive
    <3>2. i # j
      BY Zenon, <1>4, <1>6, <1>8, <3>1
    <3>3. \E k \in 1..n - 1 : live'[k] = live[i]
      <4>1. CASE i < j
        <5>1. i \in 1..n - 1
          BY <1>3, <4>1
        <5> QED
          BY Zenon, <1>3, <4>1, <5>1
      <4>2. CASE i > j
        <5>1. i - 1 \in 1..n - 1 /\ ~(i - 1 < j) /\ (i - 1) + 1 = i
          BY <1>3, <4>2
        <5> QED
          BY Zenon, <1>3, <5>1
      <4> QED
        BY <1>3, <3>2, <4>1, <4>2
    <3>4. PICK k \in 1..n - 1 : live'[k] = live[i]
      BY Zenon, <3>3
    <3>5. Held(u) = live[i].size
      BY Zenon, <1>1, <1>3, <3>1 DEF HeldFacts
    <3>6. Held(u)' = live'[k].size
      <4>1. k \in 1..Len(live') /\ live'[k].slot = u
        BY Zenon, <1>3, <3>1, <3>4
      <4> QED
        BY Zenon, <4>1 DEF HeldFacts
    <3> QED
      BY Zenon, <3>4, <3>5, <3>6
  <2>2. CASE ~IsLive(u)
    <3>1. ~IsLive(u)'
      BY Zenon, <2>2
    <3> QED
      BY Zenon, <1>1, <2>2, <3>1 DEF HeldFacts
  <2> QED
    BY Zenon, <2>1, <2>2
<1>9. HeldNow[s] = HeldNow'[s] + live[j].size
  <2>1. PICK z : z = live[j].size
    OBVIOUS
  <2>2. z \in Nat /\ HeldNow[s] = z
    BY Zenon, <1>2, <1>3, <1>4, <1>5, <1>6, <2>1, SizesAre
  <2>3. z = 0 + z
    BY <2>2
  <2> QED
    BY Zenon, <1>7, <2>1, <2>2, <2>3
<1>10. \A u \in Slots : u # s => HeldNow[u] = HeldNow'[u]
  BY Zenon, <1>2, <1>8
<1> QED
  BY Zenon, <1>2, <1>4, <1>6, <1>9, <1>10 DEF Grows

(* SumsRight as a relation of numbers.                                     *)
Sums(st, len, c, b, h, bound, k) ==
    /\ st.mallocs - st.frees = len /\ st.mallocs = c /\ st.total = b /\ st.active = h
    /\ st.total + (bound * k) < Wrap /\ st.active <= st.total

SumsNow == Sums(stat, Len(live), SumFunction(Calls), SumFunction(Bytes), SumFunction(HeldNow),
                Largest, todo)

(* SumsRight is that relation of the state.                                *)
LEMMA SumsAre == SumsRight <=> SumsNow
BY Zenon DEF SumsRight, Sums, SumsNow, Nactive, HeldNow

(* The largest request of a program.                                       *)
LEMMA LargestIs ==
    ASSUME program \in Programs
    PROVE  Largest \in Nat /\ (program = "hhtest" => Largest = 3)
           /\ (program = "heap" => Largest = 2)
BY DEF Programs, Largest

(* All the sums are natural numbers.                                       *)
LEMMA SumsTyped ==
    ASSUME Typed, Distinct
    PROVE  /\ SumFunction(Calls) \in Nat /\ SumFunction(Bytes) \in Nat /\ SumFunction(HeldNow) \in Nat
           /\ Bytes \in [Sites -> Nat] /\ Calls \in [Sites -> Nat] /\ Len(live) \in Nat
<1>1. Bytes \in [Sites -> Nat] /\ Calls \in [Sites -> Nat]
  BY DEF Typed, Bytes, Calls, Costs
<1>2. HeldNow \in [Slots -> Nat] /\ Len(live) \in Nat
  BY Zenon, HeldAre, ListIs DEF HeldFacts, ListFacts
<1> QED
  BY Zenon, <1>1, <1>2, SumNat, FiniteSets

(* m61_malloc() keeps the sums right, modulo Wrap without wrapping.        *)
LEMMA AllocSums ==
    ASSUME Typed, Distinct, SumsRight, NEW sz \in Nat, sz <= Largest, todo > 0, todo' = todo - 1,
           Largest' = Largest, Len(live') = Len(live) + 1, NEW s, NEW site,
           Grows(HeldNow, HeldNow', Slots, s, sz), Grows(Bytes, Bytes', Sites, site, sz),
           Grows(Calls, Calls', Sites, site, 1), NEW st, st = stat',
           stat' = [stat EXCEPT !.mallocs = @ + 1, !.active = (@ + sz) % Wrap,
                     !.total = (@ + sz) % Wrap, !.min = st.min, !.max = st.max]
    PROVE  SumsRight'
<1>1. PICK ca, by, he, ca2, by2, he2 :
         /\ ca = SumFunction(Calls) /\ by = SumFunction(Bytes) /\ he = SumFunction(HeldNow)
         /\ ca2 = SumFunction(Calls') /\ by2 = SumFunction(Bytes') /\ he2 = SumFunction(HeldNow')
  OBVIOUS
<1>2. ca \in Nat /\ by \in Nat /\ he \in Nat /\ ca2 = ca + 1 /\ by2 = by + sz /\ he2 = he + sz
  <2>1. sz \in Int /\ 1 \in Int
    OBVIOUS
  <2>2. SumMore(Calls, Calls', 1) /\ SumMore(Bytes, Bytes', sz) /\ SumMore(HeldNow, HeldNow', sz)
    BY Zenon, <2>1, SumGrows, FiniteSets
  <2> QED
    BY Zenon, <1>1, <2>2 DEF SumMore
<1>3. PICK L, k, n : L = Largest /\ k = todo /\ n = Len(live)
  OBVIOUS
<1>4. L \in Nat /\ k \in Nat /\ k > 0 /\ sz <= L /\ Wrap \in Nat /\ n \in Nat
  BY Zenon, <1>3, LargestIs, HeapAssumption, SumsTyped DEF Typed
<1>5. Sums(stat, n, ca, by, he, L, k)
  BY Zenon, <1>1, <1>3, SumsAre DEF SumsNow
<1>6. PICK x, y : x = stat.mallocs /\ y = stat.frees
  OBVIOUS
<1>7. x \in Int /\ y \in Int /\ x - y = n /\ x = ca /\ stat.total = by /\ stat.active = he
      /\ by + (L * k) < Wrap /\ he <= by
  BY Zenon, <1>5, <1>6 DEF Sums, Typed, Stats
<1>8. /\ (he + sz) % Wrap = he + sz /\ (by + sz) % Wrap = by + sz
      /\ (by + sz) + (L * (k - 1)) < Wrap /\ he + sz <= by + sz
  <2>1. NoWrap(Wrap, L, k, by, he, sz)
    BY Zenon, <1>2, <1>4, <1>7, AllocArith
  <2> QED
    BY Zenon, <2>1 DEF NoWrap
<1>9. /\ stat'.mallocs = x + 1 /\ stat'.frees = y /\ stat'.active = (he + sz) % Wrap
      /\ stat'.total = (by + sz) % Wrap
  BY <1>6, <1>7 DEF Typed, Stats
<1>10. (x + 1) - y = n + 1
  BY ONLY <1>4, <1>7
<1>11. Sums(stat', n + 1, ca2, by2, he2, L, k - 1)
  BY Zenon, <1>2, <1>7, <1>8, <1>9, <1>10 DEF Sums
<1>12. SumsRight' <=> SumsNow'
  BY SumsAre, PTL
<1> QED
  BY Zenon, <1>1, <1>3, <1>11, <1>12 DEF SumsNow

(* A number below the modulus is its own remainder.                        *)
LEMMA ModSmall == \A a, w \in Nat : a < w => a % w = a
OBVIOUS

(* m61_free() keeps the sums right.                                        *)
LEMMA FreeSums ==
    ASSUME Typed, Distinct, SumsRight, NEW d \in Nat, todo' = todo, made' = made,
           Largest' = Largest, Len(live') = Len(live) - 1, NEW s,
           Grows(HeldNow', HeldNow, Slots, s, d),
           stat' = [stat EXCEPT !.frees = @ + 1, !.active = (@ - d) % Wrap]
    PROVE  SumsRight'
<1>1. PICK ca, by, he, he2 :
         /\ ca = SumFunction(Calls) /\ by = SumFunction(Bytes) /\ he = SumFunction(HeldNow)
         /\ he2 = SumFunction(HeldNow')
  OBVIOUS
<1>2. ca \in Nat /\ by \in Nat /\ he2 \in Nat /\ he = he2 + d
  <2>1. d \in Int
    OBVIOUS
  <2>2. SumMore(HeldNow', HeldNow, d)
    BY Zenon, <2>1, SumGrows, FiniteSets
  <2> QED
    BY Zenon, <1>1, <2>2, SumsTyped DEF SumMore
<1>3. PICK L, k, n : L = Largest /\ k = todo /\ n = Len(live)
  OBVIOUS
<1>4. L \in Nat /\ k \in Nat /\ Wrap \in Nat /\ n \in Nat
  BY Zenon, <1>3, LargestIs, HeapAssumption, SumsTyped DEF Typed
<1>5. Sums(stat, n, ca, by, he, L, k)
  BY Zenon, <1>1, <1>3, SumsAre DEF SumsNow
<1>6. PICK x, y : x = stat.mallocs /\ y = stat.frees
  OBVIOUS
<1>7. x \in Int /\ y \in Int /\ x - y = n /\ x = ca /\ stat.total = by /\ stat.active = he
      /\ by + (L * k) < Wrap /\ he <= by
  BY Zenon, <1>5, <1>6 DEF Sums, Typed, Stats
<1>8. (he - d) % Wrap = he2 /\ he2 <= by
  <2>1. L * k \in Nat
    BY <1>4
  <2>2. he - d = he2 /\ he2 <= by /\ he2 < Wrap
    BY SMTT(60), <1>2, <1>4, <1>7, <2>1
  <2>3. he2 % Wrap = he2
    BY Zenon, <1>2, <1>4, <2>2, ModSmall
  <2> QED
    BY Zenon, <2>2, <2>3
<1>9. /\ stat'.mallocs = x /\ stat'.frees = y + 1 /\ stat'.active = (he - d) % Wrap
      /\ stat'.total = by
  BY <1>6, <1>7 DEF Typed, Stats
<1>10. x - (y + 1) = n - 1
  BY ONLY <1>4, <1>7
<1>11. Sums(stat', n - 1, ca, by, he2, L, k)
  BY Zenon, <1>2, <1>7, <1>8, <1>9, <1>10 DEF Sums
<1>12. SumsRight' <=> SumsNow'
  BY SumsAre, PTL
<1>13. Calls' = Calls /\ Bytes' = Bytes
  BY Zenon DEF Calls, Bytes
<1> QED
  BY Zenon, <1>1, <1>3, <1>11, <1>12, <1>13 DEF SumsNow

(* So does every step that allocates and frees nothing.                    *)
LEMMA KeepSums ==
    ASSUME Typed, Distinct, SumsRight, todo' = todo \/ (todo > 0 /\ todo' = todo - 1), made' = made,
           Largest' = Largest, live' = live, stat'.mallocs = stat.mallocs, stat'.frees = stat.frees,
           stat'.active = stat.active, stat'.total = stat.total
    PROVE  SumsRight'
<1>1. PICK L, k, k2, t : L = Largest /\ k = todo /\ k2 = todo' /\ t = stat.total
  OBVIOUS
<1>2. L \in Nat /\ k \in Nat /\ k2 \in Nat /\ k2 <= k /\ Wrap \in Nat
  BY <1>1, LargestIs, HeapAssumption DEF Typed
<1>3. t + (L * k) < Wrap /\ t \in Int
  BY Zenon, <1>1 DEF SumsRight, Typed, Stats
<1>4. t + (L * k2) < Wrap
  <2>1. L * k2 <= L * k
    BY ONLY <1>2, SMTT(60)
  <2>2. L * k2 \in Nat /\ L * k \in Nat
    BY <1>2
  <2> QED
    BY <1>2, <1>3, <2>1, <2>2
<1>5. Calls' = Calls /\ Bytes' = Bytes /\ HeldNow' = HeldNow
  BY Zenon DEF Calls, Bytes, HeldNow, Held, IsLive, Place
<1>6. SumsRight' <=> SumsNow'
  BY SumsAre, PTL
<1>7. SumsNow
  BY Zenon, SumsAre
<1> QED
  BY Zenon, <1>1, <1>4, <1>5, <1>6, <1>7 DEF SumsNow, Sums

------------------------------------------------------------------------------
(* The counters of the heavy hitters.                                       *)

(* The counters as functions to sum over, for the Misra-Gries argument:    *)
(* what site x is shown, and what all counters hold.                       *)
Amounts(h) == [i \in Counters |-> h[i].n]
Owned(h, x) == [i \in Counters |-> IF h[i].site = x THEN h[i].n ELSE 0]
CountersType == [Counters -> HitterType]
Owners(h) == /\ \A i \in Counters : h[i].n # 0 => h[i].site \in Sites
             /\ \A i, j \in Counters : h[i].n # 0 /\ h[j].n # 0 /\ h[i].site = h[j].site => i = j
Fair(c, s, t, a) == s <= c /\ N1 * (c - s) <= t - a

(* Hitters by these parts.                                                 *)
LEMMA HittersAre ==
    ASSUME NEW h, NEW cost, NEW total
    PROVE  Hitters(h, cost, total) <=>
              /\ h \in CountersType /\ Owners(h)
              /\ \A x \in Sites : Fair(cost[x], SumFunction(Owned(h, x)), total, SumFunction(Amounts(h)))
BY Zenon DEF Hitters, Owners, Fair, Shown, Owned, Amounts, CountersType

(* The functions summed are numbers.                                       *)
LEMMA OwnedIs ==
    ASSUME NEW h \in CountersType, NEW x
    PROVE  /\ Owned(h, x) \in [Counters -> Nat] /\ Owned(h, x) \in [Counters -> Int]
           /\ Amounts(h) \in [Counters -> Nat] /\ Amounts(h) \in [Counters -> Int]
           /\ \A i \in Counters : h[i].n \in Nat
<1>1. \A i \in Counters : h[i].n \in Nat
  BY DEF CountersType, HitterType
<1>2. Owned(h, x) \in [Counters -> Nat] /\ Amounts(h) \in [Counters -> Nat]
  BY <1>1 DEF Owned, Amounts
<1>3. Owned(h, x) \in [Counters -> Int] /\ Amounts(h) \in [Counters -> Int]
  BY <1>2
<1> QED
  BY Zenon, <1>1, <1>2, <1>3

(* What x is shown is what its counter i holds.                            *)
ShowsOf(h, x, i) == SumFunction(Owned(h, x)) = h[i].n

(* A site with one counter is shown that counter.                          *)
LEMMA ShownIs ==
    ASSUME NEW h \in CountersType, NEW x, NEW i \in Counters, h[i].site = x,
           \A j \in Counters : j # i /\ h[j].site = x => h[j].n = 0
    PROVE  ShowsOf(h, x, i)
<1>1. Owned(h, x)[i] = h[i].n /\ ZeroBut(Owned(h, x), Counters, i)
  BY Zenon DEF Owned, ZeroBut
<1>2. SumOnly(Owned(h, x), i)
  BY Zenon, <1>1, OwnedIs, SumOne, FiniteSets
<1> QED
  BY Zenon, <1>1, <1>2 DEF SumOnly, ShowsOf

(* A site with none is shown nothing.                                      *)
LEMMA ShownNone ==
    ASSUME NEW h \in CountersType, NEW x, \A j \in Counters : h[j].site = x => h[j].n = 0
    PROVE  SumFunction(Owned(h, x)) = 0
<1>1. Owned(h, x) = [j \in Counters |-> 0]
  BY Zenon DEF Owned
<1>2. PICK f : f = Owned(h, x)
  OBVIOUS
<1>3. 0 \in Int /\ f = [j \in Counters |-> 0]
  BY <1>1, <1>2
<1>4. PICK n : n = Cardinality(Counters)
  OBVIOUS
<1>5. n \in Nat /\ SumFunction(f) = n * 0
  BY Zenon, <1>3, <1>4, SumSame, FiniteSets
<1>6. SumFunction(f) = 0
  BY <1>5
<1> QED
  BY Zenon, <1>2, <1>6

(* What is shown is a number.                                              *)
LEMMA ShownNat ==
    ASSUME NEW h \in CountersType, NEW x
    PROVE  SumFunction(Owned(h, x)) \in Nat /\ SumFunction(Amounts(h)) \in Nat
<1>1. Owned(h, x) \in [Counters -> Nat] /\ Amounts(h) \in [Counters -> Nat]
  BY Zenon, OwnedIs
<1> QED
  BY Zenon, <1>1, SumNat, FiniteSets

(* A counter of the site, or an unused one, counts d. *)
Paying(h, k, i, site, d) ==
    /\ k \in CountersType /\ k[i].n = h[i].n + d /\ k[i].site = site
    /\ \A j \in Counters : j # i => k[j] = h[j]

(* Charging a site's own, or an empty, counter keeps the bound.            *)
LEMMA OneCounts ==
    ASSUME NEW h, NEW cost, NEW total \in Int, Hitters(h, cost, total), NEW site \in Sites,
           NEW d \in Nat, NEW i \in Counters, h[i].site = site \/ h[i].n = 0,
           \A j \in Counters : j # i /\ h[j].site = site => h[j].n = 0,
           NEW k, Paying(h, k, i, site, d), NEW cost2, Grows(cost, cost2, Sites, site, d)
    PROVE  Hitters(k, cost2, total + d)
<1>1. /\ h \in CountersType /\ Owners(h) /\ k \in CountersType
      /\ \A x \in Sites : Fair(cost[x], SumFunction(Owned(h, x)), total, SumFunction(Amounts(h)))
  BY Zenon, HittersAre DEF Paying
<1>2. k[i].n = h[i].n + d /\ k[i].site = site /\ \A j \in Counters : j # i => k[j] = h[j]
  BY Zenon DEF Paying
<1>3. SumFunction(Amounts(k)) = SumFunction(Amounts(h)) + d
  <2>1. \A j \in Counters : Amounts(k)[j] = k[j].n /\ Amounts(h)[j] = h[j].n
    BY Zenon DEF Amounts
  <2>2. SumFunction(Amounts(k)) = SumFunction(Amounts(h)) + (Amounts(k)[i] - Amounts(h)[i])
    <3>1. SameBut(Amounts(h), Amounts(k), Counters, i)
      BY Zenon, <1>2, <2>1 DEF SameBut
    <3>2. SumMoves(Amounts(h), Amounts(k), i)
      BY Zenon, <1>1, <3>1, OwnedIs, SumChanged, FiniteSets
    <3> QED
      BY Zenon, <3>2 DEF SumMoves
  <2>3. PICK a : a = h[i].n
    OBVIOUS
  <2>4. a \in Nat /\ Amounts(k)[i] = a + d /\ Amounts(h)[i] = a
    BY Zenon, <1>1, <1>2, <2>1, <2>3, OwnedIs
  <2>5. (a + d) - a = d
    BY <2>4
  <2> QED
    BY Zenon, <2>2, <2>4, <2>5
<1>4. SumFunction(Owned(k, site)) = SumFunction(Owned(h, site)) + d
  <2>1. SameBut(Owned(h, site), Owned(k, site), Counters, i)
    BY Zenon, <1>2 DEF Owned, SameBut
  <2>2. Owned(k, site)[i] = h[i].n + d /\ Owned(h, site)[i] = h[i].n
    <3>1. Owned(k, site)[i] = h[i].n + d
      BY Zenon, <1>2 DEF Owned
    <3>2. Owned(h, site)[i] = h[i].n
      BY Zenon DEF Owned
    <3> QED
      BY Zenon, <3>1, <3>2
  <2>3. SumFunction(Owned(k, site))
          = SumFunction(Owned(h, site)) + (Owned(k, site)[i] - Owned(h, site)[i])
    <3>1. SumMoves(Owned(h, site), Owned(k, site), i)
      BY Zenon, <1>1, <2>1, OwnedIs, SumChanged, FiniteSets
    <3> QED
      BY Zenon, <3>1 DEF SumMoves
  <2>4. PICK a : a = h[i].n
    OBVIOUS
  <2>5. a \in Nat
    BY Zenon, <1>1, <2>4, OwnedIs
  <2>6. (a + d) - a = d
    BY <2>5
  <2> QED
    BY Zenon, <2>2, <2>3, <2>4, <2>6
<1>5. ASSUME NEW x \in Sites, x # site
      PROVE  Owned(k, x) = Owned(h, x)
  <2>1. ASSUME NEW j \in Counters
        PROVE  (IF k[j].site = x THEN k[j].n ELSE 0) = (IF h[j].site = x THEN h[j].n ELSE 0)
    BY Zenon, <1>2, <1>5
  <2> QED
    BY Zenon, <2>1 DEF Owned
<1>6. ASSUME NEW x \in Sites
      PROVE  Fair(cost2[x], SumFunction(Owned(k, x)), total + d, SumFunction(Amounts(k)))
  <2>1. PICK c, s, a, s2, c2 : /\ c = cost[x] /\ s = SumFunction(Owned(h, x)) /\ a = SumFunction(Amounts(h))
                               /\ s2 = SumFunction(Owned(k, x)) /\ c2 = cost2[x]
    OBVIOUS
  <2>2. c \in Nat /\ s \in Nat /\ a \in Nat
    <3>1. cost[x] \in Nat
      BY DEF Grows
    <3> QED
      BY Zenon, <1>1, <2>1, <3>1, ShownNat
  <2>3. (c2 = c /\ s2 = s) \/ (c2 = c + d /\ s2 = s + d)
    BY Zenon, <1>4, <1>5, <2>1 DEF Grows
  <2>4. c2 - s2 = c - s /\ (s <= c => s2 <= c2) /\ (total + d) - (a + d) = total - a
    BY <2>2, <2>3
  <2>5. Fair(c, s, total, a)
    BY Zenon, <1>1, <2>1
  <2>6. Fair(c2, s2, total + d, a + d)
    BY Zenon, <2>4, <2>5 DEF Fair
  <2> QED
    BY Zenon, <1>3, <2>1, <2>6
<1>7. Owners(k)
  <2>1. ASSUME NEW j \in Counters, k[j].n # 0 PROVE k[j].site \in Sites
    BY Zenon, <1>1, <1>2, <2>1 DEF Owners
  <2>2. ASSUME NEW j \in Counters, NEW l \in Counters, k[j].n # 0, k[l].n # 0, k[j].site = k[l].site
        PROVE  j = l
    <3>1. CASE j = i
      BY Zenon, <1>2, <2>2, <3>1
    <3>2. CASE l = i
      BY Zenon, <1>2, <2>2, <3>2
    <3>3. CASE j # i /\ l # i
      BY Zenon, <1>1, <1>2, <2>2, <3>3 DEF Owners
    <3> QED
      BY Zenon, <3>1, <3>2, <3>3
  <2> QED
    BY Zenon, <2>1, <2>2 DEF Owners
<1> QED
  BY Zenon, <1>1, <1>6, <1>7, HittersAre

(* All the counters pay d. *)
Paid(h, k, d) == /\ k \in CountersType
                 /\ \A i \in Counters : h[i].n = k[i].n + d /\ k[i].site = h[i].site

(* N counters that pay d each, and the call itself, are the N + 1 shares   *)
(* that a site may fall short by.                                          *)
LEMMA PayArith ==
    ASSUME NEW N \in Nat, NEW c \in Int, NEW s \in Int, NEW t \in Int, NEW a \in Int, NEW d \in Nat,
           (N + 1) * (c - s) <= t - (a + N * d)
    PROVE  /\ (N + 1) * (c - (s - d)) <= (t + d) - a
           /\ (N + 1) * ((c + d) - s) <= (t + d) - a
           /\ (N + 1) * (c - s) <= (t + d) - a
<1>1. c - (s - d) = (c - s) + d /\ (c + d) - s = (c - s) + d
  OBVIOUS
<1>2. PICK z : z = c - s
  OBVIOUS
<1>3. PICK M, p, q : M = N + 1 /\ p = M * z /\ q = N * d
  OBVIOUS
<1>4. M \in Nat /\ z \in Int
  BY <1>2, <1>3
<1>5. p \in Int /\ q \in Nat
  BY <1>3, <1>4
<1>6. M * (z + d) = p + (q + d)
  <2>1. M * (z + d) = M * z + M * d
    BY ONLY <1>4, d \in Nat
  <2>2. M * d = N * d + d
    BY ONLY <1>3, N \in Nat, d \in Nat
  <2> QED
    BY <1>3, <2>1, <2>2
<1>7. p <= t - (a + q)
  BY <1>2, <1>3
<1>8. p + (q + d) <= (t + d) - a /\ p <= (t + d) - a
  BY <1>5, <1>7
<1> QED
  BY Zenon, <1>1, <1>2, <1>3, <1>6, <1>8

(* When a call finds no counter, all pay: a site falls short by d, and the *)
(* counters and the call give N + 1 times d away.                          *)
LEMMA AllPay ==
    ASSUME NEW h, NEW cost, NEW total \in Int, Hitters(h, cost, total), NEW site \in Sites,
           NEW d \in Nat, \A i \in Counters : h[i].n # 0 /\ h[i].site # site,
           NEW k, Paid(h, k, d), NEW cost2, Grows(cost, cost2, Sites, site, d)
    PROVE  Hitters(k, cost2, total + d)
<1>1. /\ h \in CountersType /\ Owners(h) /\ k \in CountersType
      /\ \A x \in Sites : Fair(cost[x], SumFunction(Owned(h, x)), total, SumFunction(Amounts(h)))
      /\ \A i \in Counters : h[i].n = k[i].n + d /\ k[i].site = h[i].site
  BY Zenon, HittersAre DEF Paid
<1>2. PICK N : N = Cardinality(Counters)
  OBVIOUS
<1>3. PICK D : D = [i \in Counters |-> d]
  OBVIOUS
<1>4. N \in Nat /\ SumFunction(D) = N * d
  <2>1. d \in Int
    OBVIOUS
  <2> QED
    BY Zenon, <1>2, <1>3, <2>1, SumSame, FiniteSets
<1>5. SumFunction(Amounts(h)) = SumFunction(Amounts(k)) + (N * d)
  <2>1. D \in [Counters -> Int]
    BY <1>3
  <2>2. Adds(Amounts(k), D, Amounts(h), Counters)
    <3>1. \A i \in Counters : D[i] = d
      BY Zenon, <1>3
    <3>2. \A i \in Counters : Amounts(k)[i] = k[i].n /\ Amounts(h)[i] = h[i].n
      BY Zenon DEF Amounts
    <3> QED
      BY Zenon, <1>1, <3>1, <3>2 DEF Adds
  <2>3. SumFunction(Amounts(h)) = SumFunction(Amounts(k)) + SumFunction(D)
    <3>1. PICK f, g : f = Amounts(k) /\ g = Amounts(h)
      OBVIOUS
    <3>2. f \in [Counters -> Int] /\ g \in [Counters -> Int] /\ Adds(f, D, g, Counters)
      BY Zenon, <1>1, <2>2, <3>1, OwnedIs
    <3>3. SumAdds(f, D, g)
      BY Zenon, <2>1, <3>2, SumPlus, FiniteSets
    <3> QED
      BY Zenon, <3>1, <3>3 DEF SumAdds
  <2> QED
    BY Zenon, <1>4, <2>3
<1>6. ASSUME NEW x \in Sites
      PROVE  \/ SumFunction(Owned(h, x)) = SumFunction(Owned(k, x)) + d /\ x # site
             \/ SumFunction(Owned(h, x)) = 0 /\ SumFunction(Owned(k, x)) = 0
  <2>1. CASE \E i \in Counters : h[i].site = x
    <3>1. PICK i \in Counters : h[i].site = x
      BY <2>1
    <3>2. \A j \in Counters : j # i => h[j].site # x
      BY Zenon, <1>1, <3>1 DEF Owners
    <3>3. ShowsOf(h, x, i)
      BY Zenon, <1>1, <3>1, <3>2, ShownIs
    <3>4. k[i].site = x /\ \A j \in Counters : j # i => k[j].site # x
      BY Zenon, <1>1, <3>1, <3>2
    <3>5. ShowsOf(k, x, i)
      BY Zenon, <1>1, <3>4, ShownIs
    <3> QED
      BY Zenon, <1>1, <3>1, <3>3, <3>5 DEF ShowsOf
  <2>2. CASE ~\E i \in Counters : h[i].site = x
    BY Zenon, <1>1, <2>2, ShownNone
  <2> QED
    BY Zenon, <2>1, <2>2
<1>7. ASSUME NEW x \in Sites
      PROVE  Fair(cost2[x], SumFunction(Owned(k, x)), total + d, SumFunction(Amounts(k)))
  <2>1. PICK c, s, a, s2, c2 : /\ c = cost[x] /\ s = SumFunction(Owned(h, x)) /\ a = SumFunction(Amounts(k))
                               /\ s2 = SumFunction(Owned(k, x)) /\ c2 = cost2[x]
    OBVIOUS
  <2>2. c \in Nat /\ s \in Nat /\ a \in Nat /\ s2 \in Nat
    <3>1. cost[x] \in Nat
      BY DEF Grows
    <3> QED
      BY Zenon, <1>1, <2>1, <3>1, ShownNat
  <2>3. Fair(c, s, total, a + (N * d))
    BY Zenon, <1>1, <1>5, <2>1
  <2>4. s <= c /\ (N + 1) * (c - s) <= total - (a + N * d)
    BY Zenon, <1>2, <2>3 DEF Fair, N1
  <2>5. /\ (N + 1) * (c - (s - d)) <= (total + d) - a
        /\ (N + 1) * ((c + d) - s) <= (total + d) - a
        /\ (N + 1) * (c - s) <= (total + d) - a
    <3>1. c \in Int /\ s \in Int /\ a \in Int
      BY <2>2
    <3> QED
      BY Zenon, <1>4, <2>4, <3>1, PayArith
  <2>6. \/ c2 = c /\ s2 = s - d
        \/ c2 = c + d /\ s2 = s
        \/ c2 = c /\ s2 = s
    <3>1. (x = site => c2 = c + d) /\ (x # site => c2 = c)
      BY Zenon, <2>1 DEF Grows
    <3>2. (s = s2 + d /\ x # site) \/ (s = 0 /\ s2 = 0)
      BY Zenon, <1>6, <2>1
    <3>3. s = s2 + d => s2 = s - d
      BY <2>2
    <3> QED
      BY Zenon, <3>1, <3>2, <3>3
  <2>7. s2 <= c2
    BY <2>2, <2>4, <2>6
  <2>8. (N + 1) * (c2 - s2) <= (total + d) - a
    BY Zenon, <2>5, <2>6
  <2>9. Fair(c2, s2, total + d, a)
    BY Zenon, <1>2, <2>7, <2>8 DEF Fair, N1
  <2> QED
    BY Zenon, <2>1, <2>9
<1>8. Owners(k)
  <2>1. \A i \in Counters : h[i].n # 0
    BY Zenon
  <2> QED
    BY Zenon, <1>1, <2>1 DEF Owners
<1> QED
  BY Zenon, <1>1, <1>7, <1>8, HittersAre

(* The least number of a set is one of it.                                 *)
LEMMA MinIn ==
    ASSUME NEW T, T \subseteq Nat, T # {}
    PROVE  Min(T) \in T /\ \A y \in T : Min(T) <= y
<1>1. \E n \in T : \A k \in T : n <= k
  BY LeastNat
<1> QED
  BY <1>1 DEF Min

(* The largest counter is one.                                             *)
LEMMA MaxIn ==
    ASSUME NEW T, T \subseteq Counters, T # {}
    PROVE  Max(T) \in T
<1>1. PICK n : n \in Nat /\ T \subseteq 1..n
  <2>1. Cardinality(Counters) \in Nat
    BY Zenon, FiniteSets, FS_CardinalityType
  <2>2. Counters = 1..Cardinality(Counters)
    BY Zenon, HeapAssumption
  <2> QED
    BY Zenon, <2>1, <2>2
<1>2. PICK U : U = {n - t : t \in T}
  OBVIOUS
<1>3. U \subseteq Nat /\ U # {}
  <2>1. \A t \in T : n - t \in Nat
    BY <1>1
  <2> QED
    BY <1>2, <2>1
<1>4. PICK u \in U : \A v \in U : u <= v
  BY <1>3, LeastNat
<1>5. PICK t \in T : u = n - t
  BY <1>2, <1>4
<1>6. \A s \in T : n - t <= n - s
  BY <1>2, <1>4, <1>5
<1>7. \A s \in T : t >= s
  BY <1>1, <1>6
<1> QED
  BY <1>7 DEF Max

(* The two ways m61_malloc() raises a counter.                             *)
LEMMA HitterSet ==
    ASSUME NEW h \in CountersType, NEW i \in Counters, NEW site \in Sites, NEW d \in Nat, NEW k,
           \/ k = [h EXCEPT ![i].n = @ + d] /\ h[i].site = site
           \/ k = [h EXCEPT ![i] = [n |-> d, site |-> site]] /\ h[i].n = 0
    PROVE  Paying(h, k, i, site, d)
<1>1. PICK c, e : c = h[i] /\ e = [n |-> c.n + d, site |-> site]
  OBVIOUS
<1>2. c \in HitterType /\ c.n \in Nat
  BY <1>1 DEF CountersType, HitterType
<1>3. e \in HitterType /\ e.n = c.n + d /\ e.site = site
  BY <1>1, <1>2 DEF HitterType
<1>4. k = [h EXCEPT ![i] = e]
  <2>1. CASE k = [h EXCEPT ![i].n = @ + d] /\ h[i].site = site
    <3>1. [c EXCEPT !.n = @ + d] = e
      BY <1>1, <1>2, <2>1 DEF HitterType
    <3> QED
      BY Zenon, <1>1, <2>1, <3>1
  <2>2. CASE k = [h EXCEPT ![i] = [n |-> d, site |-> site]] /\ h[i].n = 0
    <3>1. c.n + d = d
      BY <1>1, <2>2
    <3> QED
      BY Zenon, <1>1, <2>2, <3>1
  <2> QED
    BY Zenon, <2>1, <2>2
<1>5. k \in CountersType /\ k[i] = e /\ \A j \in Counters : j # i => k[j] = h[j]
  BY <1>3, <1>4 DEF CountersType
<1> QED
  BY Zenon, <1>1, <1>3, <1>5 DEF Paying

(* The loop that lowers all counters does.                                 *)
LEMMA PaidIs ==
    ASSUME NEW h \in CountersType, NEW d \in Nat, \A i \in Counters : d <= h[i].n, NEW k,
           k = [i \in Counters |-> [h[i] EXCEPT !.n = @ - d]]
    PROVE  Paid(h, k, d)
<1>1. ASSUME NEW i \in Counters
      PROVE  k[i] \in HitterType /\ h[i].n = k[i].n + d /\ k[i].site = h[i].site
  <2>1. PICK c, e : c = h[i] /\ e = [c EXCEPT !.n = @ - d]
    OBVIOUS
  <2>2. c \in HitterType /\ c.n \in Nat /\ d <= c.n
    BY <2>1 DEF CountersType, HitterType
  <2>3. e \in HitterType /\ e.n = c.n - d /\ e.site = c.site
    BY <2>1, <2>2 DEF HitterType
  <2>4. c.n = e.n + d
    BY <2>2, <2>3
  <2>5. k[i] = e
    BY Zenon, <2>1
  <2> QED
    BY Zenon, <2>1, <2>3, <2>4, <2>5
<1>2. k \in CountersType
  BY <1>1 DEF CountersType
<1> QED
  BY Zenon, <1>1, <1>2 DEF Paid

(* Every call of m61_malloc() keeps the bound on bytes, by its three       *)
(* cases: a counter of the site's own, a free one, or all that pay.        *)
LEMMA ChargeKeeps ==
    ASSUME NEW h, NEW cost, NEW total \in Int, Hitters(h, cost, total), NEW site \in Sites,
           NEW sz \in Nat, NEW cost2, Grows(cost, cost2, Sites, site, sz)
    PROVE  Hitters(Charge(h, site, sz), cost2, total + sz)
<1>1. h \in CountersType /\ Owners(h) /\ \A i \in Counters : h[i].n \in Nat
  BY Zenon, HittersAre, OwnedIs
<1>2. PICK k : k = Charge(h, site, sz)
  OBVIOUS
<1>3. Counters \subseteq Nat
  <2>1. Counters = 1..Cardinality(Counters) /\ Cardinality(Counters) \in Nat
    BY Zenon, HeapAssumption, FS_CardinalityType
  <2>2. PICK n : n = Cardinality(Counters)
    OBVIOUS
  <2>3. \A i \in 1..n : i \in Nat
    BY <2>1, <2>2
  <2> QED
    BY Zenon, <2>1, <2>2, <2>3
<1>4. CASE Mine(h, site) # {}
  <2>1. PICK i : i = Min(Mine(h, site))
    OBVIOUS
  <2>2. i \in Mine(h, site)
    <3>1. Mine(h, site) \subseteq Nat
      BY <1>3 DEF Mine
    <3> QED
      BY Zenon, <1>4, <2>1, <3>1, MinIn
  <2>3. i \in Counters /\ h[i].n # 0 /\ h[i].site = site
    BY <2>2 DEF Mine
  <2>4. k = [h EXCEPT ![i].n = @ + sz]
    BY Zenon, <1>2, <1>4, <2>1 DEF Charge
  <2>5. Paying(h, k, i, site, sz)
    BY Zenon, <1>1, <2>3, <2>4, HitterSet
  <2>6. \A j \in Counters : j # i /\ h[j].site = site => h[j].n = 0
    BY Zenon, <1>1, <2>3 DEF Owners
  <2> QED
    BY Zenon, <1>2, <2>3, <2>5, <2>6, OneCounts
<1>5. CASE Mine(h, site) = {} /\ Unused(h) # {}
  <2>1. PICK i : i = Max(Unused(h))
    OBVIOUS
  <2>2. i \in Unused(h)
    <3>1. Unused(h) \subseteq Counters
      BY DEF Unused
    <3> QED
      BY Zenon, <1>5, <2>1, <3>1, MaxIn
  <2>3. i \in Counters /\ h[i].n = 0
    BY <2>2 DEF Unused
  <2>4. k = [h EXCEPT ![i] = [n |-> sz, site |-> site]]
    BY Zenon, <1>2, <1>5, <2>1 DEF Charge
  <2>5. Paying(h, k, i, site, sz)
    BY Zenon, <1>1, <2>3, <2>4, HitterSet
  <2>6. \A j \in Counters : j # i /\ h[j].site = site => h[j].n = 0
    BY <1>5 DEF Mine
  <2> QED
    BY Zenon, <1>2, <2>3, <2>5, <2>6, OneCounts
<1>6. CASE Mine(h, site) = {} /\ Unused(h) = {}
  <2>1. \A i \in Counters : h[i].n # 0 /\ h[i].site # site
    BY <1>6 DEF Mine, Unused
  <2>2. PICK T, least : T = {sz} \cup {h[i].n : i \in Counters} /\ least = Min(T)
    OBVIOUS
  <2>3. T \subseteq Nat /\ T # {} /\ sz \in T /\ (\A i \in Counters : h[i].n \in T)
        /\ \A t \in T : t = sz \/ \E i \in Counters : t = h[i].n
    BY <1>1, <2>2
  <2>4. least \in T /\ \A t \in T : least <= t
    BY Zenon, <2>2, <2>3, MinIn
  <2>5. least \in Nat /\ least <= sz /\ \A i \in Counters : least <= h[i].n
    BY <2>3, <2>4
  <2>6. PICK P : P = [i \in Counters |-> [h[i] EXCEPT !.n = @ - least]]
    OBVIOUS
  <2>7. Paid(h, P, least)
    BY Zenon, <1>1, <2>5, <2>6, PaidIs
  <2>8. PICK c1 : c1 = [cost EXCEPT ![site] = cost[site] + least]
    OBVIOUS
  <2>9. Grows(cost, c1, Sites, site, least) /\ Grows(c1, cost2, Sites, site, sz - least)
    <3>1. /\ cost \in [Sites -> Nat] /\ cost2 \in [Sites -> Nat] /\ cost2[site] = cost[site] + sz
          /\ \A y \in Sites : y # site => cost2[y] = cost[y]
      BY Zenon DEF Grows
    <3>2. /\ c1 \in [Sites -> Nat] /\ c1[site] = cost[site] + least
          /\ \A y \in Sites : y # site => c1[y] = cost[y]
      BY <2>5, <2>8, <3>1
    <3>3. cost2[site] = c1[site] + (sz - least)
      <4>1. cost[site] \in Nat
        BY <3>1
      <4> QED
        BY <2>5, <3>1, <3>2, <4>1
    <3>4. \A y \in Sites : y # site => cost2[y] = c1[y]
      BY Zenon, <3>1, <3>2
    <3> QED
      BY Zenon, <3>1, <3>2, <3>3, <3>4 DEF Grows
  <2>10. Hitters(P, c1, total + least)
    BY Zenon, <2>1, <2>5, <2>7, <2>9, AllPay
  <2>11. CASE least = sz
    <3>1. k = P
      BY Zenon, <1>2, <1>6, <2>2, <2>6, <2>11 DEF Charge
    <3>2. c1 = cost2
      <4>1. c1 \in [Sites -> Nat] /\ cost2 \in [Sites -> Nat]
        BY Zenon, <2>9 DEF Grows
      <4>2. \A y \in Sites : c1[y] = cost2[y]
        BY Zenon, <2>9, <2>11 DEF Grows
      <4> QED
        BY <4>1, <4>2
    <3> QED
      BY Zenon, <1>2, <2>10, <2>11, <3>1, <3>2
  <2>12. CASE least # sz
    <3>1. PICK i : i = Min({l \in Counters : h[l].n = least})
      OBVIOUS
    <3>2. i \in Counters /\ h[i].n = least
      <4>1. PICK U : U = {l \in Counters : h[l].n = least}
        OBVIOUS
      <4>2. U \subseteq Nat /\ U # {}
        BY <1>3, <2>3, <2>4, <2>12, <4>1
      <4>3. i \in U
        BY Zenon, <3>1, <4>1, <4>2, MinIn
      <4> QED
        BY <4>1, <4>3
    <3>3. k = [P EXCEPT ![i] = [n |-> sz - least, site |-> site]]
      BY Zenon, <1>2, <1>6, <2>2, <2>6, <2>12, <3>1 DEF Charge
    <3>4. P \in CountersType /\ P[i].n = 0 /\ sz - least \in Nat
          /\ \A j \in Counters : P[j].site # site
      <4>1. P \in CountersType /\ h[i].n = P[i].n + least /\ \A j \in Counters : P[j].site = h[j].site
        BY Zenon, <2>7, <3>2 DEF Paid
      <4>2. P[i].n \in Nat
        BY Zenon, <3>2, <4>1, OwnedIs
      <4>3. PICK z : z = P[i].n
        OBVIOUS
      <4>4. z = 0 /\ sz - least \in Nat
        BY <2>5, <3>2, <4>1, <4>2, <4>3
      <4> QED
        BY Zenon, <2>1, <4>1, <4>3, <4>4
    <3>5. Paying(P, k, i, site, sz - least)
      BY Zenon, <3>2, <3>3, <3>4, HitterSet
    <3>6. total + least \in Int /\ (total + least) + (sz - least) = total + sz
      BY <2>5
    <3>7. \A j \in Counters : j # i /\ P[j].site = site => P[j].n = 0
      BY Zenon, <3>4
    <3>8. Hitters(k, cost2, (total + least) + (sz - least))
      BY Zenon, <2>9, <2>10, <3>2, <3>4, <3>5, <3>6, <3>7, OneCounts
    <3> QED
      BY Zenon, <1>2, <3>6, <3>8
  <2> QED
    BY Zenon, <2>11, <2>12
<1> QED
  BY Zenon, <1>4, <1>5, <1>6

(* Counting a call is charging one unit.                                   *)
LEMMA CountIsCharge ==
    ASSUME NEW h \in CountersType, NEW site
    PROVE  Count(h, site) = Charge(h, site, 1)
<1>1. CASE Mine(h, site) # {} \/ Unused(h) # {}
  BY Zenon, <1>1 DEF Count, Charge
<1>2. CASE Mine(h, site) = {} /\ Unused(h) = {}
  <2>1. \A i \in Counters : h[i].n # 0 /\ h[i].n \in Nat
    BY <1>2, OwnedIs DEF Unused
  <2>2. PICK T, least : T = {1} \cup {h[i].n : i \in Counters} /\ least = Min(T)
    OBVIOUS
  <2>3. T \subseteq Nat /\ T # {} /\ 1 \in T /\ \A t \in T : t >= 1
    BY <2>1, <2>2
  <2>4. least \in T /\ least <= 1
    BY Zenon, <2>2, <2>3, MinIn
  <2>5. least = 1
    BY <2>3, <2>4
  <2> QED
    BY Zenon, <1>2, <2>2, <2>5 DEF Count, Charge
<1> QED
  BY Zenon, <1>1, <1>2

(* One is a number.                                                        *)
LEMMA NatOne == 1 \in Nat
OBVIOUS

(* So the bound on calls is kept in the same way.                          *)
LEMMA CountKeeps ==
    ASSUME NEW h, NEW cost, NEW total \in Int, Hitters(h, cost, total), NEW site \in Sites,
           NEW cost2, Grows(cost, cost2, Sites, site, 1)
    PROVE  Hitters(Count(h, site), cost2, total + 1)
<1>1. h \in CountersType /\ 1 \in Nat
  BY Zenon, HittersAre, NatOne
<1> QED
  BY Zenon, <1>1, CountIsCharge, ChargeKeeps

------------------------------------------------------------------------------
(* The report.                                                              *)

(* The report's loop: after k turns, what is left and what is printed.     *)
NothingPrinted(h) == [left |-> h, printed |-> <<>>]
IsTurn(h, n, f) == f = [k \in 0..n |-> IF k = 0 THEN NothingPrinted(h)
                                       ELSE PrintLargest(f[k - 1], n - k + 1)]
Turn(h, n) == CHOOSE f : IsTurn(h, n, f)

(* The report is the loop's n-th turn.                                     *)
LEMMA ReportIs ==
    ASSUME NEW h, NEW n, n = Cardinality(Counters)
    PROVE  Report(h) = Turn(h, n)[n]
BY Zenon DEF Report, Turn, IsTurn, NothingPrinted

(* The turns there are. *)
LEMMA TurnsExist ==
    ASSUME NEW h, NEW n \in Nat
    PROVE  IsTurn(h, n, Turn(h, n))
<1> DEFINE Good(m, g) == /\ g = [k \in 0..n |-> g[k]]
                         /\ \A k \in 0..m : k <= n =>
                               g[k] = IF k = 0 THEN NothingPrinted(h) ELSE PrintLargest(g[k - 1], n - k + 1)
           T == {m \in Nat : \A g : ~Good(m, g)}
<1>1. T = {}
  <2> SUFFICES ASSUME T # {} PROVE FALSE
    OBVIOUS
  <2>1. PICK m \in T : \A k \in T : m <= k
    <3>1. T \subseteq Nat
      OBVIOUS
    <3> HIDE DEF T
    <3> QED
      BY <3>1, LeastNat
  <2>2. m # 0
    <3>1. PICK g : g = [k \in 0..n |-> NothingPrinted(h)]
      OBVIOUS
    <3>2. \A k \in 0..0 : k = 0 /\ 0 \in 0..n
      OBVIOUS
    <3>3. g[0] = NothingPrinted(h)
      BY <3>1, <3>2
    <3>4. g = [k \in 0..n |-> g[k]]
      BY Zenon, <3>1
    <3>5. Good(0, g)
      BY Zenon, <3>2, <3>3, <3>4
    <3> QED
      BY <3>5
  <2>3. m \in Nat /\ m - 1 \in Nat /\ m - 1 \notin T
    <3>1. m \in Nat
      BY <2>1
    <3> HIDE DEF T
    <3> QED
      BY <2>1, <2>2, <3>1
  <2>4. PICK g : Good(m - 1, g)
    <3> HIDE DEF Good
    <3> QED
      BY <2>3
  <2>5. PICK v : v = PrintLargest(g[m - 1], n - m + 1)
    OBVIOUS
  <2>6. PICK e : e = [k \in 0..n |-> IF k = m THEN v ELSE g[k]]
    OBVIOUS
  <2>7. e = [k \in 0..n |-> e[k]]
    BY Zenon, <2>6
  <2>8. ASSUME NEW k \in 0..m, k <= n
        PROVE  e[k] = IF k = 0 THEN NothingPrinted(h) ELSE PrintLargest(e[k - 1], n - k + 1)
    <3>1. /\ k \in 0..n /\ (k # 0 => k - 1 \in 0..n /\ k - 1 # m) /\ (k # m => k \in 0..m - 1)
      BY <2>3, <2>8
    <3>2. k # 0 => e[k - 1] = g[k - 1]
      BY Zenon, <2>6, <3>1
    <3>3. CASE k = m
      <4>1. e[k] = v
        BY Zenon, <2>6, <3>1, <3>3
      <4> QED
        BY Zenon, <2>2, <2>5, <3>2, <3>3, <4>1
    <3>4. CASE k # m
      <4>1. e[k] = g[k]
        BY Zenon, <2>6, <3>1, <3>4
      <4>2. g[k] = IF k = 0 THEN NothingPrinted(h) ELSE PrintLargest(g[k - 1], n - k + 1)
        BY Zenon, <2>4, <2>8, <3>1, <3>4
      <4> QED
        BY Zenon, <3>2, <4>1, <4>2
    <3> QED
      BY Zenon, <3>3, <3>4
  <2>9. Good(m, e)
    BY Zenon, <2>7, <2>8
  <2> QED
    BY Zenon, <2>1, <2>9
<1>2. PICK g : Good(n, g)
  <2> HIDE DEF Good
  <2> QED
    BY <1>1
<1>3. \A k \in 0..n : k <= n
  OBVIOUS
<1>4. g = [k \in 0..n |-> IF k = 0 THEN NothingPrinted(h) ELSE PrintLargest(g[k - 1], n - k + 1)]
  <2>1. g = [k \in 0..n |-> g[k]]
    BY Zenon, <1>2
  <2>2. \A k \in 0..n : g[k] = IF k = 0 THEN NothingPrinted(h) ELSE PrintLargest(g[k - 1], n - k + 1)
    BY Zenon, <1>2, <1>3
  <2> QED
    BY <2>1, <2>2
<1>5. IsTurn(h, n, g)
  BY Zenon, <1>4 DEF IsTurn
<1> QED
  BY Zenon, <1>5 DEF Turn

(* Among the first counters there is a largest. *)
Most(h, m, j) == j \in 1..m /\ \A k \in 1..m : h[k].n <= h[j].n

(* There is one, by induction on m.                                        *)
LEMMA MostExists ==
    ASSUME NEW h, NEW n \in Nat, \A k \in 1..n : h[k].n \in Nat, NEW m \in 1..n
    PROVE  \E j : Most(h, m, j)
<1> DEFINE T == {k \in Nat : k \in 1..n /\ ~\E j : Most(h, k, j)}
<1>1. T = {}
  <2> SUFFICES ASSUME T # {} PROVE FALSE
    OBVIOUS
  <2>1. PICK k \in T : \A l \in T : k <= l
    <3>1. T \subseteq Nat
      OBVIOUS
    <3> HIDE DEF T
    <3> QED
      BY <3>1, LeastNat
  <2>2. k \in 1..n /\ ~\E j : Most(h, k, j) /\ k \in Nat
    BY <2>1
  <2>3. k # 1
    <3>1. \A l \in 1..1 : l = 1
      OBVIOUS
    <3>2. h[1].n <= h[1].n /\ 1 \in 1..1
      <4>1. 1 \in 1..n
        OBVIOUS
      <4>2. PICK a : a = h[1].n
        OBVIOUS
      <4>3. a \in Nat
        BY Zenon, <4>1, <4>2
      <4> QED
        BY <4>2, <4>3
    <3>3. Most(h, 1, 1)
      BY Zenon, <3>1, <3>2 DEF Most
    <3> QED
      BY Zenon, <2>2, <3>3
  <2>4. k - 1 \in 1..n /\ k - 1 \in Nat /\ k - 1 \notin T
    <3>1. k - 1 \in 1..n /\ k - 1 \in Nat /\ ~(k <= k - 1)
      BY <2>2, <2>3
    <3> HIDE DEF T
    <3> QED
      BY Zenon, <2>1, <3>1
  <2>5. PICK j : Most(h, k - 1, j)
    BY <2>4
  <2>6. PICK a, b : a = h[j].n /\ b = h[k].n
    OBVIOUS
  <2>7. j \in 1..k - 1 /\ j \in 1..k /\ j \in 1..n /\ k \in 1..k /\ \A l \in 1..k : l \in 1..k - 1 \/ l = k
    <3>1. j \in 1..k - 1
      BY Zenon, <2>5 DEF Most
    <3> QED
      BY <2>2, <3>1
  <2>8. a \in Nat /\ b \in Nat /\ \A l \in 1..k - 1 : h[l].n <= a
    BY Zenon, <2>2, <2>5, <2>6, <2>7 DEF Most
  <2>9. CASE b <= a
    <3>1. \A l \in 1..k : h[l].n <= a
      BY Zenon, <2>6, <2>7, <2>8, <2>9
    <3>2. Most(h, k, j)
      BY Zenon, <2>6, <2>7, <3>1 DEF Most
    <3> QED
      BY Zenon, <2>2, <3>2
  <2>10. CASE ~(b <= a)
    <3>1. \A l \in 1..k : h[l].n <= b
      <4>1. ASSUME NEW l \in 1..k PROVE h[l].n <= b
        <5>1. CASE l = k
          <6>1. b <= b
            BY <2>8
          <6> QED
            BY Zenon, <2>6, <5>1, <6>1
        <5>2. CASE l # k
          <6>1. PICK c : c = h[l].n
            OBVIOUS
          <6>2. l \in 1..k - 1 /\ l \in 1..n
            BY <2>2, <5>2
          <6>3. c \in Nat /\ c <= a
            BY Zenon, <2>8, <6>1, <6>2
          <6>4. c <= b
            BY <2>8, <2>10, <6>3
          <6> QED
            BY Zenon, <6>1, <6>4
        <5> QED
          BY Zenon, <5>1, <5>2
      <4> QED
        BY Zenon, <4>1
    <3>2. Most(h, k, k)
      BY Zenon, <2>6, <2>7, <3>1 DEF Most
    <3> QED
      BY Zenon, <2>2, <3>2
  <2> QED
    BY <2>9, <2>10
<1> QED
  BY <1>1

(* What the loop of the report keeps: every counter is printed or left, and *)
(* what is left is no larger than what is printed.                          *)
Printed(h, g, p, m) ==
    /\ g \in CountersType /\ p \in Seq(HitterType)
    /\ \A i \in Counters : h[i].site # NoSite =>
          (\E q \in 1..Len(p) : p[q] = h[i]) \/ (\E q \in 1..m : g[q] = h[i])
    /\ \A q \in 2..Len(p) : p[q].n <= p[q - 1].n
    /\ \A q \in 1..Len(p), l \in 1..m : g[l].n <= p[q].n
(* The same, of the loop's pair.                                           *)
Printing(h, r, m) == Printed(h, r.left, r.printed, m)

(* One turn prints the largest counter left and keeps the loop's           *)
(* invariant.                                                              *)
LEMMA PrintStep ==
    ASSUME NEW h, NEW r, NEW n \in Nat, Counters = 1..n, NEW m \in 1..n, Printing(h, r, m)
    PROVE  Printing(h, PrintLargest(r, m), m - 1)
<1>1. PICK g, p : g = r.left /\ p = r.printed
  OBVIOUS
<1>2. /\ g \in CountersType /\ p \in Seq(HitterType)
      /\ \A i \in Counters : h[i].site # NoSite =>
            \/ \E q \in 1..Len(p) : p[q] = h[i]
            \/ \E q \in 1..m : g[q] = h[i]
      /\ \A q \in 2..Len(p) : p[q].n <= p[q - 1].n
      /\ \A q \in 1..Len(p), l \in 1..m : g[l].n <= p[q].n
  BY Zenon, <1>1 DEF Printing, Printed
<1>3. \A k \in 1..n : g[k].n \in Nat /\ g[k] \in HitterType
  BY <1>2 DEF CountersType, HitterType
<1>4. PICK M, j : M = {i \in 1..m : \A k \in 1..m : g[k].n <= g[i].n} /\ j = Min(M)
  OBVIOUS
<1>5. j \in 1..m /\ \A k \in 1..m : g[k].n <= g[j].n
  <2>1. \E i : Most(g, m, i)
    BY Zenon, <1>3, MostExists
  <2>2. M \subseteq Nat /\ M # {}
    <3>1. M # {}
      BY Zenon, <1>4, <2>1 DEF Most
    <3>2. M \subseteq Nat
      BY <1>4
    <3> QED
      BY <3>1, <3>2
  <2>3. j \in M
    BY Zenon, <1>4, <2>2, MinIn
  <2> QED
    BY Zenon, <1>4, <2>3
<1>6. PICK g2 : g2 = [g EXCEPT ![j] = g[m]]
  OBVIOUS
<1>7. j \in 1..n /\ m \in 1..n /\ \A l \in 1..m - 1 : l \in 1..m /\ l \in 1..n
  BY <1>5
<1>8. /\ g2 \in CountersType /\ g2[j] = g[m] /\ \A l \in 1..n : l # j => g2[l] = g[l]
  <2>1. g[m] \in HitterType
    BY Zenon, <1>3
  <2> QED
    BY <1>2, <1>6, <1>7, <2>1 DEF CountersType
<1>9. \A l \in 1..m - 1 : \E k \in 1..m : g2[l] = g[k]
  <2>1. m \in 1..m
    OBVIOUS
  <2> QED
    BY Zenon, <1>7, <1>8, <2>1
<1>10. \A k \in 1..m : k # j => \E l \in 1..m - 1 : g2[l] = g[k]
  <2>1. ASSUME NEW k \in 1..m, k # j PROVE \E l \in 1..m - 1 : g2[l] = g[k]
    <3>1. CASE k = m
      <4>1. j \in 1..m - 1
        BY <1>5, <2>1, <3>1
      <4> QED
        BY Zenon, <1>8, <3>1, <4>1
    <3>2. CASE k # m
      <4>1. k \in 1..m - 1 /\ k \in 1..n
        BY <3>2
      <4> QED
        BY Zenon, <1>8, <2>1, <4>1
    <3> QED
      BY Zenon, <3>1, <3>2
  <2> QED
    BY Zenon, <2>1
<1>11. PICK p2 : p2 = IF g[j].site = NoSite THEN p ELSE Append(p, g[j])
  OBVIOUS
<1>12. PICK r2 : r2 = [left |-> g2, printed |-> p2]
  OBVIOUS
<1>13. PrintLargest(r, m) = r2 /\ r2.left = g2 /\ r2.printed = p2
  <2>1. PrintLargest(r, m) = r2
    BY Zenon, <1>1, <1>4, <1>6, <1>11, <1>12 DEF PrintLargest
  <2>2. r2.left = g2 /\ r2.printed = p2
    BY ONLY <1>12
  <2> QED
    BY Zenon, <2>1, <2>2
<1>14. PICK e, k : e = g[j] /\ k = Len(p)
  OBVIOUS
<1>15. e \in HitterType /\ k \in Nat /\ e.n \in Nat
  BY <1>2, <1>3, <1>7, <1>14
<1>16. CASE e.site = NoSite
  <2>1. p2 = p
    BY Zenon, <1>11, <1>14, <1>16
  <2>2. ASSUME NEW i \in Counters, h[i].site # NoSite
        PROVE  (\E q \in 1..Len(p) : p[q] = h[i]) \/ (\E q \in 1..m - 1 : g2[q] = h[i])
    <3>1. ASSUME NEW q \in 1..m, g[q] = h[i] PROVE \E l \in 1..m - 1 : g2[l] = h[i]
      <4>1. q # j
        BY Zenon, <1>14, <1>16, <2>2, <3>1
      <4> QED
        BY Zenon, <1>10, <3>1, <4>1
    <3> QED
      BY Zenon, <1>2, <2>2, <3>1
  <2>3. \A q \in 1..Len(p), l \in 1..m - 1 : g2[l].n <= p[q].n
    BY Zenon, <1>2, <1>9
  <2>4. Printed(h, g2, p2, m - 1)
    BY Zenon, <1>2, <1>8, <2>1, <2>2, <2>3 DEF Printed
  <2> QED
    BY Zenon, <1>13, <2>4 DEF Printing
<1>17. CASE e.site # NoSite
  <2>1. p2 = Append(p, e)
    BY Zenon, <1>11, <1>14, <1>17
  <2>2. /\ p2 \in Seq(HitterType) /\ Len(p2) = k + 1 /\ p2[k + 1] = e
        /\ \A q \in 1..k : p2[q] = p[q]
    BY <1>2, <1>14, <1>15, <2>1
  <2>3. k + 1 \in 1..k + 1 /\ \A q \in 1..k : q \in 1..k + 1
    BY <1>15
  <2>4. ASSUME NEW i \in Counters, h[i].site # NoSite
        PROVE  (\E q \in 1..Len(p2) : p2[q] = h[i]) \/ (\E q \in 1..m - 1 : g2[q] = h[i])
    <3>1. ASSUME NEW q \in 1..m, g[q] = h[i]
          PROVE  (\E l \in 1..k + 1 : p2[l] = h[i]) \/ (\E l \in 1..m - 1 : g2[l] = h[i])
      <4>1. CASE q = j
        BY Zenon, <1>14, <2>2, <2>3, <3>1, <4>1
      <4>2. CASE q # j
        BY Zenon, <1>10, <3>1, <4>2
      <4> QED
        BY Zenon, <4>1, <4>2
    <3>2. ASSUME NEW q \in 1..k, p[q] = h[i] PROVE \E l \in 1..k + 1 : p2[l] = h[i]
      BY Zenon, <2>2, <2>3, <3>2
    <3> QED
      BY Zenon, <1>2, <1>14, <2>2, <2>4, <3>1, <3>2
  <2>5. ASSUME NEW q \in 2..Len(p2) PROVE p2[q].n <= p2[q - 1].n
    <3>1. CASE q = k + 1
      <4>1. q - 1 = k /\ k \in 1..k
        BY <1>15, <2>2, <3>1
      <4>2. p2[q] = e /\ p2[q - 1] = p[k]
        BY Zenon, <2>2, <3>1, <4>1
      <4>3. e.n <= p[k].n
        BY Zenon, <1>2, <1>5, <1>14, <4>1
      <4> QED
        BY Zenon, <4>2, <4>3
    <3>2. CASE q # k + 1
      <4>1. q \in 2..k /\ q \in 1..k /\ q - 1 \in 1..k
        BY <1>15, <2>2, <3>2
      <4>2. p2[q] = p[q] /\ p2[q - 1] = p[q - 1]
        BY Zenon, <2>2, <4>1
      <4> QED
        BY Zenon, <1>2, <1>14, <4>1, <4>2
    <3> QED
      BY Zenon, <3>1, <3>2
  <2>6. ASSUME NEW q \in 1..Len(p2), NEW l \in 1..m - 1 PROVE g2[l].n <= p2[q].n
    <3>1. PICK i \in 1..m : g2[l] = g[i]
      BY Zenon, <1>9
    <3>2. CASE q = k + 1
      BY Zenon, <1>5, <1>14, <2>2, <3>1, <3>2
    <3>3. CASE q # k + 1
      <4>1. q \in 1..k
        BY <1>15, <2>2, <3>3
      <4> QED
        BY Zenon, <1>2, <1>14, <2>2, <3>1, <4>1
    <3> QED
      BY Zenon, <3>2, <3>3
  <2>7. \A i \in Counters : h[i].site # NoSite =>
          (\E q \in 1..Len(p2) : p2[q] = h[i]) \/ (\E q \in 1..m - 1 : g2[q] = h[i])
    BY Zenon, <2>4
  <2>8. Printed(h, g2, p2, m - 1)
    BY Zenon, <1>8, <2>2, <2>5, <2>6, <2>7 DEF Printed
  <2> QED
    BY Zenon, <1>13, <2>8 DEF Printing
<1> QED
  BY Zenon, <1>16, <1>17

(* The report prints every counter with a site, the largest first. *)
LEMMA ReportPrints ==
    ASSUME NEW h, h \in CountersType
    PROVE  Printing(h, Report(h), 0)
<1>1. PICK n : n = Cardinality(Counters)
  OBVIOUS
<1>2. n \in Nat /\ Counters = 1..n
  <2>1. n \in Nat
    BY <1>1, FS_CardinalityType, HeapAssumption
  <2> QED
    BY Zenon, <1>1, <2>1, HeapAssumption
<1>3. PICK f : f = Turn(h, n)
  OBVIOUS
<1>4. f = [k \in 0..n |-> IF k = 0 THEN NothingPrinted(h) ELSE PrintLargest(f[k - 1], n - k + 1)]
  <2>1. IsTurn(h, n, f)
    BY Zenon, <1>2, <1>3, TurnsExist
  <2> QED
    BY Zenon, <2>1 DEF IsTurn
<1>5. ASSUME NEW k \in 0..n
      PROVE  f[k] = IF k = 0 THEN NothingPrinted(h) ELSE PrintLargest(f[k - 1], n - k + 1)
  BY Zenon, <1>4
<1> DEFINE T == {k \in Nat : k <= n /\ ~Printing(h, f[k], n - k)}
<1>6. T = {}
  <2> SUFFICES ASSUME T # {} PROVE FALSE
    OBVIOUS
  <2>1. PICK k \in T : \A l \in T : k <= l
    <3>1. T \subseteq Nat
      OBVIOUS
    <3> HIDE DEF T
    <3> QED
      BY <3>1, LeastNat
  <2>2. k \in Nat /\ k <= n /\ k \in 0..n /\ ~Printing(h, f[k], n - k)
    BY <1>2, <2>1
  <2>3. k # 0
    <3>1. SUFFICES ASSUME k = 0 PROVE FALSE
      OBVIOUS
    <3>2. PICK r : r = NothingPrinted(h)
      OBVIOUS
    <3>3. f[k] = r
      BY Zenon, <1>5, <2>2, <3>1, <3>2
    <3>4. r.left = h /\ r.printed = <<>>
      BY ONLY <3>2 DEF NothingPrinted
    <3>5. PICK p : p = <<>>
      OBVIOUS
    <3>6. /\ p \in Seq(HitterType) /\ (\A q \in 2..Len(p) : FALSE) /\ (\A q \in 1..Len(p) : FALSE)
      BY ONLY <3>5
    <3>7. \A i \in Counters : \E q \in 1..n : h[q] = h[i]
      BY Zenon, <1>2
    <3>8. Printed(h, h, p, n)
      BY Zenon, <3>6, <3>7 DEF Printed
    <3>9. n - k = n
      BY <1>2, <3>1
    <3> QED
      BY Zenon, <2>2, <3>3, <3>4, <3>5, <3>8, <3>9 DEF Printing
  <2>4. k - 1 \in Nat /\ k - 1 <= n /\ k - 1 \notin T /\ n - k + 1 \in 1..n /\ n - (k - 1) = n - k + 1
        /\ (n - k + 1) - 1 = n - k
    <3>1. k - 1 \in Nat /\ k - 1 <= n /\ ~(k <= k - 1) /\ n - k + 1 \in 1..n /\ n - (k - 1) = n - k + 1
          /\ (n - k + 1) - 1 = n - k
      BY <1>2, <2>2, <2>3
    <3> HIDE DEF T
    <3> QED
      BY Zenon, <2>1, <3>1
  <2>5. Printing(h, f[k - 1], n - k + 1)
    <3>1. Printing(h, f[k - 1], n - (k - 1))
      BY <2>4
    <3> QED
      BY Zenon, <2>4, <3>1
  <2>6. Printing(h, PrintLargest(f[k - 1], n - k + 1), n - k)
    <3>1. Printing(h, PrintLargest(f[k - 1], n - k + 1), (n - k + 1) - 1)
      BY Zenon, <1>2, <2>4, <2>5, PrintStep
    <3> QED
      BY Zenon, <2>4, <3>1
  <2> QED
    BY Zenon, <1>5, <2>2, <2>3, <2>6
<1>7. Printing(h, f[n], n - n)
  <2>1. n \notin T /\ n \in Nat /\ n <= n
    <3>1. n <= n
      BY <1>2
    <3> HIDE DEF T
    <3> QED
      BY Zenon, <1>2, <1>6, <3>1
  <2> QED
    BY <2>1
<1>8. Report(h) = f[n] /\ n - n = 0
  <2>1. Report(h) = f[n]
    BY Zenon, <1>1, <1>3, ReportIs
  <2> QED
    BY <1>2, <2>1
<1> QED
  BY Zenon, <1>7, <1>8

(* A site with more than its share of the total is among what is printed.   *)
Reported(p, x) == \E q \in 1..Len(p) : p[q].site = x /\ p[q].n > 0
(* A site above its share has a counter that is not empty, so it is        *)
(* printed.                                                                *)
LEMMA SharePrinted ==
    ASSUME NEW h, NEW cost, NEW total \in Nat, Hitters(h, cost, total), NEW x \in Sites,
           cost[x] \in Nat, N1 * cost[x] > total, NEW p, NEW r, Printed(h, r, p, 0)
    PROVE  Reported(p, x)
<1>1. h \in CountersType /\ Fair(cost[x], SumFunction(Owned(h, x)), total, SumFunction(Amounts(h)))
  BY Zenon, HittersAre
<1>2. PICK s, a, c : s = SumFunction(Owned(h, x)) /\ a = SumFunction(Amounts(h)) /\ c = cost[x]
  OBVIOUS
<1>3. s \in Nat /\ a \in Nat
  BY Zenon, <1>1, <1>2, ShownNat
<1>4. s # 0
  <2>1. SUFFICES ASSUME s = 0 PROVE FALSE
    OBVIOUS
  <2>2. N1 * (c - s) <= total - a /\ N1 * c > total
    BY Zenon, <1>1, <1>2 DEF Fair
  <2>3. c - s = c
    BY <1>2, <2>1
  <2>4. N1 * c <= total - a
    BY Zenon, <2>2, <2>3
  <2>5. N1 \in Nat
    BY FS_CardinalityType, HeapAssumption DEF N1
  <2>6. PICK d : d = N1 * c
    OBVIOUS
  <2>7. d \in Int
    BY <1>2, <2>5, <2>6
  <2> QED
    BY <1>3, <2>2, <2>4, <2>6, <2>7
<1>5. PICK i \in Counters : h[i].site = x /\ h[i].n # 0
  BY Zenon, <1>1, <1>2, <1>4, ShownNone
<1>6. h[i].site # NoSite /\ h[i].n \in Nat
  BY Zenon, <1>1, <1>5, OwnedIs, HeapAssumption
<1>7. \E q \in 1..Len(p) : p[q] = h[i]
  <2>1. \A q \in 1..0 : FALSE
    OBVIOUS
  <2> QED
    BY Zenon, <1>6, <2>1 DEF Printed
<1>8. PICK q \in 1..Len(p) : p[q] = h[i]
  BY <1>7
<1>9. p[q].site = x /\ p[q].n # 0 /\ p[q].n \in Nat
  BY Zenon, <1>5, <1>6, <1>8
<1>10. p[q].n > 0
  <2>1. PICK b : b = p[q].n
    OBVIOUS
  <2>2. b \in Nat /\ b # 0
    BY Zenon, <1>9, <2>1
  <2>3. b > 0
    BY <2>2
  <2> QED
    BY Zenon, <2>1, <2>3
<1> QED
  BY Zenon, <1>9, <1>10 DEF Reported

------------------------------------------------------------------------------
(* Every step keeps the invariant.                                          *)

(* A sum of zeros is zero.                                                 *)
LEMMA NoneAllocated ==
    ASSUME NEW S, IsFiniteSet(S), NEW f, f = [x \in S |-> 0]
    PROVE  SumFunction(f) = 0
<1>1. Cardinality(S) \in Nat /\ SumFunction(f) = Cardinality(S) * 0
  <2>1. 0 \in Int
    OBVIOUS
  <2> QED
    BY Zenon, <2>1, SumSame
<1> QED
  BY <1>1

(* The heap's invariant at the start.                                      *)
LEMMA InitHeap == Init => Typed /\ HeapInv
<1> SUFFICES ASSUME Init PROVE Typed /\ HeapInv
  OBVIOUS
<1>1. /\ live = <<>> /\ past = {} /\ wild = {} /\ lent = [s \in {} |-> 0] /\ spare = [s \in {} |-> 0]
      /\ made = [x \in Sites |-> [bytes |-> 0, calls |-> 0]] /\ program \in Programs /\ todo \in Nat
  BY ProgramAssumption DEF Init, M61Init, Programs
<1>2. PICK c : c = Header(0, "none", NoSite, NoLink, NoLink)
  OBVIOUS
<1>3. /\ c \in CellType /\ c.is = "header" /\ c.next = NoLink /\ c.prev = NoLink
      /\ Junk \in CellType /\ Junk.is = "junk"
  BY ONLY <1>2 DEF Header, CellType, HeaderType, Links, Junk
<1>4. /\ \A u \in Places, o \in 0..Span - 1 : mem[u][o] = IF u = 0 /\ o = 0 THEN c ELSE Junk
      /\ mem \in MemType
  <2>1. mem = [u \in Places |-> [o \in 0..Span - 1 |-> IF u = 0 /\ o = 0 THEN c ELSE Junk]]
    BY Zenon, <1>2 DEF Init, M61Init, Places
  <2> QED
    BY <1>3, <2>1 DEF MemType
<1>5. stat \in Stats /\ stat.min = 2 * Span * Wrap /\ stat.max = 0
  <2>1. 2 * Span * Wrap \in Int
    BY HeapAssumption
  <2> QED
    BY <2>1 DEF Init, M61Init, Stats
<1>6. Len(live) = 0 /\ (\A i \in 1..Len(live) : FALSE) /\ live \in Seq([slot : Slots, size : 0..Span - 2, site : Sites])
  BY <1>1
<1>7. Typed
  <2>1. made \in [Sites -> Costs]
    BY <1>1 DEF Costs
  <2> QED
    BY Zenon, <1>1, <1>4, <1>5, <1>6, <2>1 DEF Typed, MemType
<1>8. 0 \in Places /\ 0 \in 0..Span - 1 /\ \A s \in Slots : s \in Places /\ s # 0
  BY SpanIs, HeapAssumption DEF Places
<1>9. Distinct
  BY Zenon, <1>6 DEF Distinct
<1>10. Threaded
  BY Zenon, <1>1, <1>3, <1>4, <1>8 DEF Threaded, First
<1>11. HeadersRight
  BY Zenon, <1>6, RightIs
<1>12. \A s \in Slots : mem[s][0].is = "junk"
  BY Zenon, <1>3, <1>4, <1>8
<1>13. StaleRight
  <2>1. "junk" # "header"
    OBVIOUS
  <2>2. Blocks(mem, past)
    BY Zenon, <1>1, <1>12, <2>1 DEF Blocks
  <2>3. Insides(mem)
    <3>1. \A o \in 1..Span - 1 : o # 0 /\ o \in 0..Span - 1
      BY SpanIs
    <3> QED
      BY Zenon, <1>3, <1>4, <2>1, <3>1 DEF Insides
  <2> QED
    BY Zenon, <1>1, <1>12, <2>1, <2>2, <2>3, StaleIs
<1>14. LentRight
  <2>1. DOMAIN lent = {} /\ DOMAIN spare = {}
    BY Zenon, <1>1
  <2>2. \A u : ~IsLive(u)
    BY Zenon, <1>6 DEF IsLive
  <2> QED
    BY Zenon, <2>1, <2>2, LentIs
<1>15. LimitsRight
  <2>1. 2 * Span * Wrap = (2 * Span) * Wrap
    OBVIOUS
  <2> QED
    BY Zenon, <1>1, <1>5, <2>1 DEF LimitsRight
<1> QED
  BY Zenon, <1>7, <1>9, <1>10, <1>11, <1>13, <1>14, <1>15 DEF HeapInv

(* The calls of either program do not make a sum wrap.                     *)
LEMMA CallsFit == /\ 2 * HeapCalls < Wrap /\ 3 * HhCalls < Wrap
                  /\ 2 * UintMax * HeapCalls < Wrap /\ 2 * UintMax < Wrap
<1>1. PICK u, h, g, w : u = UintMax /\ h = HeapCalls /\ g = HhCalls /\ w = Wrap
  OBVIOUS
<1>2. u \in Nat /\ h \in Nat /\ g \in Nat /\ w \in Nat /\ u > 3 /\ 2 * u * (h + 1) < w /\ 3 * g < w
  BY Zenon, <1>1, HeapAssumption, ProgramAssumption
<1>3. PICK q : q = u * h
  OBVIOUS
<1>4. q \in Nat /\ 2 * u * (h + 1) = 2 * q + 2 * u /\ h <= q /\ 2 * u * h = 2 * q
  BY ONLY <1>2, <1>3
<1>5. 2 * h < w /\ 3 * g < w /\ 2 * u * h < w /\ 2 * u < w
  BY ONLY <1>2, <1>4
<1> QED
  BY Zenon, <1>1, <1>5

(* The sums and the counters at the start.                                 *)
LEMMA InitSums == Init => SumsRight /\ HittersRight
<1> SUFFICES ASSUME Init PROVE SumsRight /\ HittersRight
  OBVIOUS
<1>1. Typed /\ Distinct /\ live = <<>> /\ said.what # "report"
  <2>1. said = Nothing /\ live = <<>>
    BY Zenon DEF Init, M61Init
  <2>2. said.what # "report"
    BY <2>1 DEF Nothing
  <2> QED
    BY Zenon, InitHeap, <2>1, <2>2 DEF HeapInv
<1>2. SumFunction(Bytes) = 0 /\ SumFunction(Calls) = 0 /\ \A x \in Sites : Bytes[x] = 0 /\ Calls[x] = 0
  <2>1. made = [x \in Sites |-> [bytes |-> 0, calls |-> 0]]
    BY Zenon DEF Init
  <2>2. Bytes = [x \in Sites |-> 0] /\ Calls = [x \in Sites |-> 0]
    BY <2>1 DEF Bytes, Calls
  <2> QED
    BY Zenon, <2>2, FiniteSets, NoneAllocated
<1>3. SumFunction(HeldNow) = 0 /\ Len(live) = 0
  <2>1. Len(live) = 0 /\ \A i \in 1..Len(live) : FALSE
    BY <1>1
  <2>2. \A u : ~IsLive(u)
    BY Zenon, <2>1 DEF IsLive
  <2>3. \A u \in Slots : Held(u) = 0
    BY Zenon, <1>1, <2>2, HeldAre DEF HeldFacts
  <2>4. HeldNow = [u \in Slots |-> 0]
    BY <2>3 DEF HeldNow
  <2> QED
    BY Zenon, <2>1, <2>4, FiniteSets, NoneAllocated
<1>4. stat.mallocs = 0 /\ stat.frees = 0 /\ stat.total = 0 /\ stat.active = 0
  BY DEF Init, M61Init
<1>5. Largest * todo < Wrap
  <2>1. \/ program = "heap" /\ todo = HeapCalls
        \/ program = "hhtest" /\ todo = HhCalls
    BY DEF Init
  <2>2. 2 * HeapCalls < Wrap /\ 3 * HhCalls < Wrap
    BY Zenon, CallsFit
  <2>3. (program = "hhtest" => Largest = 3) /\ (program = "heap" => Largest = 2)
    BY Zenon, <1>1, LargestIs DEF Typed
  <2> QED
    BY Zenon, <2>1, <2>2, <2>3
<1>6. SumsRight
  <2>1. Largest \in Nat /\ todo \in Nat
    BY Zenon, <1>1, LargestIs DEF Typed
  <2>2. PICK b : b = Largest
    OBVIOUS
  <2>3. 0 + (b * todo) < Wrap
    <3>1. b * todo \in Int
      BY <2>1, <2>2
    <3> QED
      BY <1>5, <2>2, <3>1
  <2>4. 0 - 0 = 0 /\ 0 <= 0
    OBVIOUS
  <2>5. Sums(stat, Len(live), SumFunction(Calls), SumFunction(Bytes), SumFunction(HeldNow), b, todo)
    BY Zenon, <1>2, <1>3, <1>4, <2>3, <2>4 DEF Sums
  <2> QED
    BY Zenon, <2>2, <2>5, SumsAre DEF SumsNow
<1>7. ASSUME NEW h, h = byBytes \/ h = byCalls, NEW cost, \A x \in Sites : cost[x] = 0
      PROVE  Hitters(h, cost, 0)
  <2>1. h = [i \in Counters |-> [n |-> 0, site |-> NoSite]]
    BY Zenon, <1>7 DEF Init, M61Init
  <2>2. \A i \in Counters : h[i].n = 0
    BY <2>1
  <2>3. h \in CountersType
    BY <2>1 DEF CountersType, HitterType
  <2>4. Owners(h)
    BY Zenon, <2>2 DEF Owners
  <2>5. SumFunction(Amounts(h)) = 0
    <3>1. Amounts(h) = [i \in Counters |-> 0]
      BY <2>2 DEF Amounts
    <3> QED
      BY Zenon, <3>1, FiniteSets, NoneAllocated
  <2>6. \A x \in Sites : SumFunction(Owned(h, x)) = 0
    BY Zenon, <2>2, <2>3, ShownNone
  <2>7. Fair(0, 0, 0, 0)
    <3>1. N1 \in Nat
      BY FS_CardinalityType, HeapAssumption DEF N1
    <3> QED
      BY <3>1 DEF Fair
  <2> QED
    BY Zenon, <1>7, <2>3, <2>4, <2>5, <2>6, <2>7, HittersAre
<1>8. Hitters(byBytes, Bytes, stat.total) /\ Hitters(byCalls, Calls, stat.mallocs)
  BY Zenon, <1>2, <1>4, <1>7
<1> QED
  BY Zenon, <1>1, <1>6, <1>8 DEF HittersRight

(* Typed, with its types named.                                            *)
LEMMA TypedParts ==
    Typed <=> /\ mem \in MemType /\ stat \in Stats /\ live \in Seq(BlockType)
              /\ past \subseteq [slot : Slots, size : 0..Span - 2] /\ wild \subseteq Slots
              /\ made \in [Sites -> Costs] /\ program \in Programs /\ todo \in Nat
BY Zenon DEF Typed, MemType, BlockType

(* What a malloc that finds memory does. *)
Allocated(s, sz, site) ==
    /\ BaseMalloc(s, sz) /\ mem' = Linked(s, sz, site)
    /\ live' = Append(live, Block(s, sz, site))
    /\ past' = past \cup {[slot |-> s, size |-> sz]} /\ wild' = wild \ {s}
    /\ stat'.min = Min({stat.min, Start(s)}) /\ stat'.max = Max({stat.max, Start(s) + (2 * sz)})
(* And to the statistics and the counters.                                 *)
Charged(s, sz, site, st) ==
    /\ stat' = [stat EXCEPT !.mallocs = @ + 1, !.active = (@ + sz) % Wrap,
                  !.total = (@ + sz) % Wrap, !.min = st.min, !.max = st.max]
    /\ made' = [made EXCEPT ![site] = [bytes |-> @.bytes + sz, calls |-> @.calls + 1]]
    /\ byBytes' = Charge(byBytes, site, sz) /\ byCalls' = Count(byCalls, site)
    /\ said' = Nothing

(* That is what a call that does not fail does.                            *)
LEMMA AllocatedIs ==
    ASSUME NEW s \in Slots, NEW sz \in Nat, NEW site \in Sites, sz < UintMax, stat \in Stats,
           Malloc(s, sz, site), Noted(s, sz, site)
    PROVE  Allocated(s, sz, site) /\ Charged(s, sz, site, stat')
<1>1. ~(sz >= UintMax)
  BY HeapAssumption
<1>2. /\ BaseMalloc(s, sz) /\ mem' = Linked(s, sz, site)
      /\ stat' = [stat EXCEPT !.mallocs = @ + 1, !.active = (@ + sz) % Wrap,
                     !.total = (@ + sz) % Wrap,
                     !.min = Min({@, Addr(Payload(s))}),
                     !.max = Max({@, Addr(Payload(s)) + (2 * sz)})]
      /\ byBytes' = Charge(byBytes, site, sz) /\ byCalls' = Count(byCalls, site) /\ said' = Nothing
  BY Zenon, <1>1 DEF Malloc
<1>3. /\ live' = Append(live, [slot |-> s, size |-> sz, site |-> site])
      /\ past' = past \cup {[slot |-> s, size |-> sz]} /\ wild' = wild \ {s}
      /\ made' = [made EXCEPT ![site] = [bytes |-> @.bytes + sz, calls |-> @.calls + 1]]
  BY Zenon, <1>1 DEF Noted
<1>4. PICK lo, hi, st : /\ lo = Min({stat.min, Start(s)}) /\ hi = Max({stat.max, Start(s) + (2 * sz)})
                        /\ st = stat'
  OBVIOUS
<1>5. st = [stat EXCEPT !.mallocs = @ + 1, !.active = (@ + sz) % Wrap,
              !.total = (@ + sz) % Wrap, !.min = lo, !.max = hi]
  BY Zenon, <1>2, <1>4 DEF Start
<1>6. st.min = lo /\ st.max = hi
  BY ONLY <1>5, stat \in Stats DEF Stats
<1> QED
  BY Zenon, <1>2, <1>3, <1>4, <1>5, <1>6 DEF Allocated, Charged, Block

(* It keeps the heap's invariant.                                          *)
LEMMA AllocatedHeap ==
    ASSUME Typed, HeapInv, NEW s \in Slots, NEW sz \in 0..Span - 2, NEW site \in Sites,
           Allocated(s, sz, site), NEW n, n = Len(live)
    PROVE  /\ HeapInv' /\ ~IsLive(s) /\ mem' \in MemType /\ live' \in Seq(BlockType)
           /\ NewList(n, s) /\ Appended(n, s, sz, site)
           /\ \A u : IsLive(u)' <=> IsLive(u) \/ u = s
<1>1. /\ BaseMalloc(s, sz) /\ mem' = Linked(s, sz, site)
      /\ live' = Append(live, Block(s, sz, site))
      /\ past' = past \cup {[slot |-> s, size |-> sz]} /\ wild' = wild \ {s}
      /\ stat'.min = Min({stat.min, Start(s)}) /\ stat'.max = Max({stat.max, Start(s) + (2 * sz)})
  BY Zenon DEF Allocated
<1>2. s \in Slots /\ ~IsLive(s)
  BY Zenon, <1>1, AllocLent
<1>3. ListFacts
  BY Zenon, ListIs DEF HeapInv
<1>4. /\ Last = At(Len(live)) /\ Last \in Places /\ HeaderAt(mem, Last) /\ HeaderAt(mem, 0)
      /\ First.next \in Links
  BY Zenon, LastIs
<1>5. s # Last
  <2>1. n \in Nat /\ (n = 0 \/ n \in 1..Len(live))
    <3>1. Len(live) \in Nat
      BY Zenon, <1>3 DEF ListFacts
    <3> QED
      BY <3>1
  <2>2. CASE n = 0
    BY Zenon, <1>3, <1>4, <2>2 DEF ListFacts
  <2>3. CASE n \in 1..Len(live)
    BY Zenon, <1>2, <1>3, <1>4, <2>3 DEF ListFacts
  <2> QED
    BY Zenon, <2>1, <2>2, <2>3
<1>6. LinkedAs(mem', s, sz, site, Last)
  <2>1. mem \in MemType /\ First.is = "header" /\ mem[Last][0].is = "header"
    BY Zenon, <1>4, TypedParts DEF HeaderAt, First
  <2> QED
    BY Zenon, <1>1, <1>4, <1>5, <2>1, LinkedIs
<1>7. Appended(n, s, sz, site) /\ n \in Nat
  <2>1. live \in Seq(BlockType)
    BY Zenon, TypedParts
  <2> QED
    BY Zenon, <1>1, <2>1, AppendIs
<1>8. NewList(n, s)
  BY Zenon, <1>7 DEF NewList, Appended
<1>9. Distinct' /\ \A u : IsLive(u)' <=> IsLive(u) \/ u = s
  <2>1. \A i \in 1..Len(live') : At(i)' = live'[i].slot
    BY Zenon DEF At
  <2> QED
    BY Zenon, <1>2, <1>3, <1>8, <2>1, AppendDistinct
<1>10. past' # {}
  BY Zenon, <1>1
<1>11. Threaded'
  BY Zenon, <1>2, <1>6, <1>8, <1>10, AllocThreaded
<1>12. HeadersRight'
  BY Zenon, <1>1, <1>2, <1>6, <1>7, <1>8, AllocHeaders
<1>13. StaleRight'
  BY Zenon, <1>1, <1>2, <1>6, <1>9, AllocStale
<1>14. LentRight'
  BY Zenon, <1>1, <1>9, AllocLent
<1>15. LimitsRight'
  <2>1. LimitsOf(stat.min, stat.max, past)
    BY Zenon, LimitsIs DEF HeapInv
  <2>2. LimitsRight' <=> LimitsOf(stat'.min, stat'.max, past')
    <3>1. (LimitsRight <=> LimitsOf(stat.min, stat.max, past))'
      BY LimitsIs, PTL
    <3> QED
      BY Zenon, <3>1 DEF LimitsOf
  <2>3. past \subseteq [slot : Slots, size : 0..Span - 2] /\ stat.min \in Int /\ stat.max \in Int
    BY TypedParts DEF Stats
  <2>4. LimitsOf(stat'.min, stat'.max, past')
    BY Zenon, <1>1, <2>1, <2>3, AllocLimits
  <2> QED
    BY Zenon, <2>2, <2>4
<1>16. HeapInv'
  BY Zenon, <1>9, <1>11, <1>12, <1>13, <1>14, <1>15 DEF HeapInv
<1> QED
  BY Zenon, <1>2, <1>6, <1>7, <1>8, <1>9, <1>16 DEF Appended, LinkedAs

(* It keeps the whole invariant.                                           *)
LEMMA AllocKeeps ==
    ASSUME IInv, NEW s \in Slots, NEW sz \in 0..Span - 2, NEW site \in Sites, sz < UintMax,
           sz <= Largest, Malloc(s, sz, site), Noted(s, sz, site), todo > 0, todo' = todo - 1,
           program' = program
    PROVE  IInv'
<1>1. Typed /\ HeapInv /\ SumsRight /\ HittersRight /\ Distinct
  BY Zenon DEF IInv, HeapInv
<1>2. /\ mem \in MemType /\ stat \in Stats /\ live \in Seq(BlockType)
      /\ past \subseteq [slot : Slots, size : 0..Span - 2] /\ wild \subseteq Slots
      /\ made \in [Sites -> Costs] /\ program \in Programs /\ todo \in Nat
  BY Zenon, <1>1, TypedParts
<1>3. sz \in Nat
  BY SpanIs
<1>4. Allocated(s, sz, site) /\ Charged(s, sz, site, stat')
  BY Zenon, <1>2, <1>3, AllocatedIs
<1>5. PICK n : n = Len(live)
  OBVIOUS
<1>6. /\ HeapInv' /\ ~IsLive(s) /\ mem' \in MemType /\ live' \in Seq(BlockType)
      /\ NewList(n, s) /\ Appended(n, s, sz, site)
      /\ \A u : IsLive(u)' <=> IsLive(u) \/ u = s
  BY Zenon, <1>1, <1>4, <1>5, AllocatedHeap
<1>7. PICK st : st = stat'
  OBVIOUS
<1>8. /\ st = [stat EXCEPT !.mallocs = @ + 1, !.active = (@ + sz) % Wrap,
                  !.total = (@ + sz) % Wrap, !.min = st.min, !.max = st.max]
      /\ made' = [made EXCEPT ![site] = [bytes |-> @.bytes + sz, calls |-> @.calls + 1]]
      /\ byBytes' = Charge(byBytes, site, sz) /\ byCalls' = Count(byCalls, site)
      /\ said' = Nothing
  BY Zenon, <1>4, <1>7 DEF Charged
<1>9. /\ made' \in [Sites -> Costs]
      /\ Grows(Bytes, Bytes', Sites, site, sz) /\ Grows(Calls, Calls', Sites, site, 1)
  BY Zenon, <1>2, <1>3, <1>8, MadeGrows
<1>10. st.min \in Int /\ st.max \in Int
  <2>1. past \subseteq [slot : Slots, size : 0..Span - 2] /\ stat.min \in Int /\ stat.max \in Int
    BY <1>2 DEF Stats
  <2>2. LimitsOf(stat.min, stat.max, past)
    BY Zenon, <1>1, LimitsIs DEF HeapInv
  <2>3. st.min = Min({stat.min, Start(s)}) /\ st.max = Max({stat.max, Start(s) + (2 * sz)})
    BY Zenon, <1>4, <1>7 DEF Allocated
  <2> QED
    BY Zenon, <2>1, <2>2, <2>3, AllocLimits
<1>11. st \in Stats
  <2>1. (stat.active + sz) % Wrap \in Int /\ (stat.total + sz) % Wrap \in Int
    <3>1. stat.active \in Int /\ stat.total \in Int /\ Wrap \in Nat \ {0}
      BY <1>2, HeapAssumption DEF Stats
    <3> QED
      BY <1>3, <3>1
  <2>2. PICK a, t : a = (stat.active + sz) % Wrap /\ t = (stat.total + sz) % Wrap
    OBVIOUS
  <2>3. PICK lo, hi, m : lo = st.min /\ hi = st.max /\ m = stat.mallocs + 1
    OBVIOUS
  <2>4. st = [stat EXCEPT !.mallocs = m, !.active = a, !.total = t, !.min = lo, !.max = hi]
    BY Zenon, <1>8, <2>2, <2>3
  <2>5. m \in Int
    BY ONLY <1>2, <2>3 DEF Stats
  <2>6. a \in Int /\ t \in Int /\ lo \in Int /\ hi \in Int /\ stat \in Stats
    BY Zenon, <1>2, <1>10, <2>1, <2>2, <2>3
  <2> QED
    BY ONLY <2>4, <2>5, <2>6 DEF Stats
<1>12. Typed'
  <2>1. past' \subseteq [slot : Slots, size : 0..Span - 2] /\ wild' \subseteq Slots
    <3>1. past' = past \cup {[slot |-> s, size |-> sz]} /\ wild' = wild \ {s}
      BY Zenon, <1>4 DEF Allocated
    <3> QED
      BY <1>2, <3>1
  <2>2. todo' \in Nat
    BY <1>2
  <2>3. Typed' <=> /\ mem' \in MemType /\ stat' \in Stats /\ live' \in Seq(BlockType)
                   /\ past' \subseteq [slot : Slots, size : 0..Span - 2] /\ wild' \subseteq Slots
                   /\ made' \in [Sites -> Costs] /\ program' \in Programs /\ todo' \in Nat
    BY Zenon DEF Typed, MemType, BlockType
  <2> QED
    BY Zenon, <1>2, <1>6, <1>7, <1>9, <1>11, <2>1, <2>2, <2>3
<1>13. SumsRight'
  <2>1. HeldFacts'
    <3>1. (Typed /\ Distinct => HeldFacts)'
      BY HeldAre, PTL
    <3> QED
      BY Zenon, <1>6, <1>12, <3>1 DEF HeapInv
  <2>2. Grows(HeldNow, HeldNow', Slots, s, sz)
    BY Zenon, <1>1, <1>6, <2>1, HeldGrows
  <2>3. Largest' = Largest
    BY Zenon DEF Largest
  <2>4. Len(live') = Len(live) + 1
    BY Zenon, <1>5, <1>6 DEF NewList
  <2> QED
    BY Zenon, <1>1, <1>3, <1>7, <1>8, <1>9, <2>2, <2>3, <2>4, AllocSums
<1>14. HittersRight'
  <2>1. todo # 0
    OBVIOUS
  <2>2. Hitters(byBytes, Bytes, stat.total) /\ Hitters(byCalls, Calls, stat.mallocs)
    BY Zenon, <1>1, <2>1 DEF HittersRight
  <2>3. stat.total \in Int /\ stat.mallocs \in Int
    BY <1>2 DEF Stats
  <2>4. Hitters(byBytes', Bytes', stat.total + sz)
    BY Zenon, <1>3, <1>8, <1>9, <2>2, <2>3, ChargeKeeps
  <2>5. Hitters(byCalls', Calls', stat.mallocs + 1)
    BY Zenon, <1>8, <1>9, <2>2, <2>3, CountKeeps
  <2>6. st.mallocs = stat.mallocs + 1 /\ st.total = (stat.total + sz) % Wrap
    BY ONLY <1>2, <1>8 DEF Stats
  <2>7. stat.total + sz = (stat.total + sz) % Wrap
    <3>1. Sums(stat, Len(live), SumFunction(Calls), SumFunction(Bytes), SumFunction(HeldNow), Largest, todo)
      BY Zenon, <1>1, SumsAre DEF SumsNow
    <3>2. stat.total = SumFunction(Bytes) /\ stat.total + (Largest * todo) < Wrap
          /\ stat.active = SumFunction(HeldNow) /\ stat.active <= stat.total
      BY Zenon, <3>1 DEF Sums
    <3>3. stat.total \in Nat /\ stat.active \in Nat /\ Largest \in Nat /\ Wrap \in Nat
      BY Zenon, <1>1, <1>2, <3>2, SumsTyped, LargestIs, HeapAssumption
    <3>4. NoWrap(Wrap, Largest, todo, stat.total, stat.active, sz)
      BY Zenon, <1>2, <1>3, <3>2, <3>3, AllocArith
    <3> QED
      BY Zenon, <3>4 DEF NoWrap
  <2>8. said'.what # "report"
    BY <1>8 DEF Nothing
  <2>9. Hitters(byBytes', Bytes', stat'.total) /\ Hitters(byCalls', Calls', stat'.mallocs)
    BY Zenon, <1>7, <2>4, <2>5, <2>6, <2>7
  <2> QED
    BY Zenon, <2>8, <2>9 DEF HittersRight
<1> QED
  BY Zenon, <1>6, <1>12, <1>13, <1>14 DEF IInv

(* The types after a step.                                                 *)
LEMMA TypedNext ==
    ASSUME mem' \in MemType, stat' \in Stats, live' \in Seq(BlockType),
           past' \subseteq [slot : Slots, size : 0..Span - 2], wild' \subseteq Slots,
           made' \in [Sites -> Costs], program' \in Programs, todo' \in Nat
    PROVE  Typed'
BY Zenon DEF Typed, MemType, BlockType

(* The heap's invariant depends on the heap alone.                         *)
LEMMA SameHeap ==
    ASSUME HeapInv, UNCHANGED <<mem, lent, spare, live, past, wild>>, stat'.min = stat.min,
           stat'.max = stat.max
    PROVE  HeapInv'
<1>1. /\ mem' = mem /\ lent' = lent /\ spare' = spare /\ live' = live /\ past' = past /\ wild' = wild
  OBVIOUS
<1>2. /\ Distinct /\ Threaded /\ HeadersRight /\ StaleRight /\ LentRight
      /\ LimitsOf(stat.min, stat.max, past)
  BY Zenon, LimitsIs DEF HeapInv
<1>3. (\A i : At(i)' = At(i)) /\ \A u : IsLive(u)' <=> IsLive(u)
  BY Zenon, <1>1 DEF At, IsLive
<1>4. Distinct' /\ HeadersRight' /\ LentRight'
  <2>1. Distinct'
    BY Zenon, <1>1, <1>2 DEF Distinct
  <2>2. HeadersRight'
    <3>1. (HeadersRight <=> \A i \in 1..Len(live) :
                               Right(live[i], mem[live[i].slot][0], mem, past, wild))'
      BY RightIs, PTL
    <3>2. \A i \in 1..Len(live) : Right(live[i], mem[live[i].slot][0], mem, past, wild)
      BY Zenon, <1>2, RightIs
    <3> QED
      BY Zenon, <1>1, <3>1, <3>2
  <2>3. LentRight'
    BY Zenon, <1>1, <1>2 DEF LentRight
  <2> QED
    BY Zenon, <2>1, <2>2, <2>3
<1>5. StaleRight'
  <2>1. (StaleRight <=> StaleParts)'
    BY PartsIs, PTL
  <2>2. StaleParts
    BY Zenon, <1>2, PartsIs
  <2>3. StaleParts'
    BY Zenon, <1>1, <1>3, <2>2 DEF StaleParts
  <2> QED
    BY Zenon, <2>1, <2>3
<1>6. Threaded'
  BY Zenon, <1>1, <1>2, <1>3 DEF Threaded, First
<1>7. LimitsRight'
  <2>1. (LimitsRight <=> LimitsOf(stat.min, stat.max, past))'
    BY LimitsIs, PTL
  <2>2. LimitsOf(stat'.min, stat'.max, past')
    BY Zenon, <1>1, <1>2
  <2> QED
    BY Zenon, <2>1, <2>2 DEF LimitsOf
<1> QED
  BY Zenon, <1>4, <1>5, <1>6, <1>7 DEF HeapInv

(* A step that neither allocates nor frees. *)
Idle == /\ live' = live /\ past' = past /\ wild' \subseteq Slots /\ made' = made
        /\ program' = program /\ (todo' = todo \/ (todo > 0 /\ todo' = todo - 1))
        /\ stat' \in Stats /\ stat'.mallocs = stat.mallocs /\ stat'.frees = stat.frees
        /\ stat'.active = stat.active /\ stat'.total = stat.total
        /\ mem' \in MemType /\ HeapInv'

(* Such a step keeps types and sums.                                       *)
LEMMA IdleKeeps ==
    ASSUME IInv, Idle
    PROVE  Typed' /\ SumsRight'
<1>1. Typed /\ SumsRight /\ Distinct
  BY Zenon DEF IInv, HeapInv
<1>2. /\ mem \in MemType /\ stat \in Stats /\ live \in Seq(BlockType)
      /\ past \subseteq [slot : Slots, size : 0..Span - 2] /\ wild \subseteq Slots
      /\ made \in [Sites -> Costs] /\ program \in Programs /\ todo \in Nat
  BY Zenon, <1>1, TypedParts
<1>3. todo' \in Nat
  <2>1. todo' = todo \/ (todo > 0 /\ todo' = todo - 1)
    BY Zenon DEF Idle
  <2> QED
    BY <1>2, <2>1
<1>4. Typed'
  BY Zenon, <1>2, <1>3, TypedNext DEF Idle
<1>5. Largest' = Largest
  BY Zenon DEF Idle, Largest
<1>6. SumsRight'
  BY Zenon, <1>1, <1>5, KeepSums DEF Idle
<1> QED
  BY Zenon, <1>4, <1>6

(* The bound stays when neither counters nor calls change.                 *)
LEMMA SameCounters ==
    ASSUME HittersRight, said.what # "report", said'.what # "report", byBytes' = byBytes,
           byCalls' = byCalls, made' = made, stat'.total = stat.total, stat'.mallocs = stat.mallocs
    PROVE  HittersRight'
<1>1. Hitters(byBytes, Bytes, stat.total) /\ Hitters(byCalls, Calls, stat.mallocs)
  BY Zenon DEF HittersRight
<1>2. Bytes' = Bytes /\ Calls' = Calls
  BY Zenon DEF Bytes, Calls
<1>3. Hitters(byBytes', Bytes', stat'.total) /\ Hitters(byCalls', Calls', stat'.mallocs)
  BY Zenon, <1>1, <1>2
<1> QED
  BY Zenon, <1>3 DEF HittersRight

(* A call that fails only counts its failure.                              *)
LEMMA FailedKeeps ==
    ASSUME IInv, NEW sz \in Nat, Failed(sz), UNCHANGED <<live, past, wild, made>>,
           program' = program, todo > 0, todo' = todo - 1
    PROVE  IInv'
<1>1. Typed /\ HeapInv /\ HittersRight
  BY Zenon DEF IInv
<1>2. mem \in MemType /\ stat \in Stats /\ wild \subseteq Slots
  BY Zenon, <1>1, TypedParts
<1>3. /\ stat' \in Stats /\ stat'.mallocs = stat.mallocs /\ stat'.frees = stat.frees
      /\ stat'.active = stat.active /\ stat'.total = stat.total
      /\ stat'.min = stat.min /\ stat'.max = stat.max
  <2>1. PICK a, b, st : a = stat.fails + 1 /\ b = (stat.failed + sz) % Wrap /\ st = stat'
    OBVIOUS
  <2>2. st = [stat EXCEPT !.fails = a, !.failed = b]
    BY Zenon, <2>1 DEF Failed
  <2>3. a \in Int /\ b \in Int
    BY SMTT(60), <1>2, <2>1, HeapAssumption DEF Stats
  <2>4. /\ st \in Stats /\ st.mallocs = stat.mallocs /\ st.frees = stat.frees
        /\ st.active = stat.active /\ st.total = stat.total
        /\ st.min = stat.min /\ st.max = stat.max
    BY ONLY <1>2, <2>2, <2>3 DEF Stats
  <2> QED
    BY Zenon, <2>1, <2>4
<1>4. /\ UNCHANGED <<mem, lent, spare, live, past, wild>> /\ mem' = mem /\ byBytes' = byBytes
      /\ byCalls' = byCalls /\ said' = said /\ live' = live /\ past' = past /\ wild' = wild /\ made' = made
  BY DEF Failed
<1>5. HeapInv'
  BY Zenon, <1>1, <1>3, <1>4, SameHeap
<1>6. Typed' /\ SumsRight'
  <2>1. Idle
    BY Zenon, <1>2, <1>3, <1>4, <1>5 DEF Idle
  <2> QED
    BY Zenon, <2>1, IdleKeeps
<1>7. HittersRight'
  <2>1. todo # 0
    BY <1>1 DEF Typed
  <2>2. said.what # "report"
    BY Zenon, <1>1, <2>1 DEF HittersRight
  <2> QED
    BY Zenon, <1>1, <1>3, <1>4, <2>2, SameCounters
<1> QED
  BY Zenon, <1>5, <1>6, <1>7 DEF IInv

(* Any call of malloc whose size the slots allow. *)
LEMMA MallocKeeps ==
    ASSUME IInv, NEW s \in Slots, NEW sz \in Nat, NEW site \in Sites,
           sz < UintMax => sz \in 0..Span - 2 /\ sz <= Largest,
           Malloc(s, sz, site), Noted(s, sz, site), todo > 0, todo' = todo - 1, program' = program
    PROVE  IInv'
<1>1. CASE sz < UintMax
  BY Zenon, <1>1, AllocKeeps
<1>2. CASE ~(sz < UintMax)
  <2>1. sz >= UintMax
    BY <1>2, HeapAssumption
  <2>2. Failed(sz)
    BY Zenon, <1>2 DEF Malloc
  <2>3. UNCHANGED <<live, past, wild, made>>
    <3>1. Refused(sz)
      BY Zenon, <2>1 DEF Noted
    <3> QED
      BY <3>1 DEF Refused
  <2> QED
    BY Zenon, <2>2, <2>3, FailedKeeps
<1> QED
  BY Zenon, <1>1, <1>2

(* A call of m61_free() that frees nothing changes nothing.                *)
LEMMA FreeSays ==
    ASSUME NEW p, Free(p)
    PROVE  /\ said'.what # "report" /\ byBytes' = byBytes /\ byCalls' = byCalls
           /\ said'.what # "freed" => UNCHANGED <<mem, lent, spare, stat>>
<1>1. PICK w, i : /\ Says(w, p, i)
                  /\ w \in {"nothing", "not in heap", "not allocated", "double free", "wild write", "freed"}
  <2>1. CASE p = Null
    <3>1. Says("nothing", p, {})
      BY Zenon, <2>1 DEF Free
    <3> QED
      BY <3>1
  <2>2. CASE p # Null
    <3>1. \/ Says("not in heap", p, {}) \/ (\E i : Says("not allocated", p, i))
          \/ Says("double free", p, {}) \/ Says("wild write", p, {}) \/ Says("freed", p, {})
      BY Zenon, <2>2 DEF Free
    <3> QED
      BY <3>1
  <2> QED
    BY Zenon, <2>1, <2>2
<1>2. said'.what = w /\ (w # "freed" => UNCHANGED <<mem, lent, spare, stat>>)
  BY <1>1 DEF Says
<1>3. w # "report"
  BY <1>1
<1> QED
  BY Zenon, <1>2, <1>3 DEF Free

(* A call that frees keeps the invariant.                                  *)
LEMMA FreesKeep ==
    ASSUME IInv, NEW p, NEW j, FreesBlock(p, j), live' = Without(At(j)), byBytes' = byBytes,
           byCalls' = byCalls, UNCHANGED <<past, wild, made, todo>>, program' = program,
           said.what # "report", said'.what # "report"
    PROVE  IInv'
<1>1. Typed /\ HeapInv /\ SumsRight /\ HittersRight /\ Distinct
  BY Zenon DEF IInv, HeapInv
<1>2. /\ mem \in MemType /\ stat \in Stats /\ live \in Seq(BlockType)
      /\ past \subseteq [slot : Slots, size : 0..Span - 2] /\ wild \subseteq Slots
      /\ made \in [Sites -> Costs] /\ program \in Programs /\ todo \in Nat
  BY Zenon, <1>1, TypedParts
<1>3. /\ j \in 1..Len(live) /\ At(j) \notin wild
      /\ FreedAs(mem', At(j), At(j - 1), At(j + 1)) /\ BaseFree(At(j))
      /\ stat' = [stat EXCEPT !.frees = @ + 1, !.active = (@ - live[j].size) % Wrap]
  BY Zenon DEF FreesBlock
<1>4. ListFacts
  BY Zenon, <1>1, ListIs
<1>5. PICK n : n = Len(live)
  OBVIOUS
<1>6. Gone(n, j)
  <2>1. Removed(n, j)
    BY Zenon, <1>2, <1>3, <1>4, <1>5, RemovedIs
  <2>2. past' = past /\ wild' = wild
    OBVIOUS
  <2> QED
    BY Zenon, <1>3, <1>5, <2>1, <2>2 DEF Gone
<1>7. HeadersRight' /\ Distinct' /\ \A u : IsLive(u)' <=> IsLive(u) /\ u # At(j)
  BY Zenon, <1>1, <1>6, FreeHeaders
<1>8. Threaded' /\ StaleRight'
  BY Zenon, <1>1, <1>3, <1>6, <1>7, FreeThreaded, FreeStale
<1>9. LentRight'
  <2>1. At(j) \in Slots /\ IsLive(At(j))
    BY Zenon, <1>3, <1>4 DEF ListFacts
  <2> QED
    BY Zenon, <1>1, <1>3, <1>7, <2>1, FreeLent
<1>10. live[j].size \in 0..Span - 2 /\ live[j].size \in Nat
  BY Zenon, <1>1, <1>3, SizesAre
<1>11. /\ stat' \in Stats /\ stat'.min = stat.min /\ stat'.max = stat.max
       /\ stat'.mallocs = stat.mallocs /\ stat'.total = stat.total
  <2>1. PICK a, b, st, d : a = stat.frees + 1 /\ b = (stat.active - d) % Wrap /\ st = stat' /\ d = live[j].size
    OBVIOUS
  <2>2. st = [stat EXCEPT !.frees = a, !.active = b]
    BY Zenon, <1>3, <2>1
  <2>3. a \in Int /\ b \in Int
    <3>1. d \in Nat /\ Wrap \in Nat \ {0} /\ stat.frees \in Int /\ stat.active \in Int
      BY <1>2, <1>10, <2>1, HeapAssumption DEF Stats
    <3> QED
      BY <2>1, <3>1
  <2>4. /\ st \in Stats /\ st.min = stat.min /\ st.max = stat.max
        /\ st.mallocs = stat.mallocs /\ st.total = stat.total
    BY ONLY <1>2, <2>2, <2>3 DEF Stats
  <2> QED
    BY Zenon, <2>1, <2>4
<1>12. LimitsRight'
  <2>1. (LimitsRight <=> LimitsOf(stat.min, stat.max, past))'
    BY LimitsIs, PTL
  <2>2. LimitsOf(stat.min, stat.max, past)
    BY Zenon, <1>1, LimitsIs DEF HeapInv
  <2>3. past' = past
    OBVIOUS
  <2>4. LimitsOf(stat'.min, stat'.max, past')
    BY Zenon, <1>11, <2>2, <2>3
  <2> QED
    BY Zenon, <2>1, <2>4 DEF LimitsOf
<1>13. Typed'
  <2>1. mem' \in MemType /\ live' \in Seq(BlockType)
    BY Zenon, <1>3, <1>6 DEF FreedAs, Gone, Removed
  <2>2. /\ past' = past /\ wild' = wild /\ made' = made /\ todo' = todo
    OBVIOUS
  <2>3. /\ past' \subseteq [slot : Slots, size : 0..Span - 2] /\ wild' \subseteq Slots
        /\ made' \in [Sites -> Costs] /\ program' \in Programs /\ todo' \in Nat
    BY Zenon, <1>2, <2>2
  <2> QED
    BY Zenon, <1>11, <2>1, <2>3, TypedNext
<1>14. SumsRight'
  <2>1. HeldFacts'
    <3>1. (Typed /\ Distinct => HeldFacts)'
      BY HeldAre, PTL
    <3> QED
      BY Zenon, <1>7, <1>13, <3>1
  <2>2. Grows(HeldNow', HeldNow, Slots, At(j), live[j].size)
    BY Zenon, <1>1, <1>6, <1>7, <2>1, HeldShrinks
  <2>3. Largest' = Largest
    BY Zenon DEF Largest
  <2>4. Len(live') = Len(live) - 1
    BY Zenon, <1>5, <1>6 DEF Gone, Removed
  <2>5. todo' = todo /\ made' = made
    OBVIOUS
  <2> QED
    BY Zenon, <1>1, <1>3, <1>10, <2>2, <2>3, <2>4, <2>5, FreeSums
<1>15. HittersRight'
  <2>1. made' = made
    OBVIOUS
  <2> QED
    BY Zenon, <1>1, <1>11, <2>1, SameCounters
<1> QED
  BY Zenon, <1>7, <1>8, <1>9, <1>12, <1>13, <1>14, <1>15 DEF IInv, HeapInv

(* So every call of m61_free() does.                                       *)
LEMMA FreeKeeps ==
    ASSUME IInv, NEW p \in Pointers, FreeNoted(p), program' = program, said.what # "report"
    PROVE  IInv'
<1>1. /\ Free(p) /\ live' = IF said'.what = "freed" /\ IsLive(p.slot) THEN Without(p.slot) ELSE live
      /\ UNCHANGED <<past, wild, made, todo>>
  BY Zenon DEF FreeNoted
<1>2. /\ said'.what # "report" /\ byBytes' = byBytes /\ byCalls' = byCalls
      /\ said'.what # "freed" => UNCHANGED <<mem, lent, spare, stat>>
  BY Zenon, <1>1, FreeSays
<1>3. Typed /\ HeapInv /\ HittersRight
  BY Zenon DEF IInv
<1>4. CASE said'.what = "freed"
  <2>1. PICK j : FreesBlock(p, j)
    BY Zenon, <1>1, <1>3, <1>4, FreesLive
  <2>2. p.slot = At(j) /\ j \in 1..Len(live)
    BY Zenon, <2>1 DEF FreesBlock
  <2>3. IsLive(p.slot)
    BY Zenon, <1>3, <2>2, ListIs DEF ListFacts, HeapInv
  <2>4. live' = Without(At(j))
    BY Zenon, <1>1, <1>4, <2>2, <2>3
  <2> QED
    BY Zenon, <1>1, <1>2, <2>1, <2>4, FreesKeep
<1>5. CASE said'.what # "freed"
  <2>1. /\ mem' = mem /\ lent' = lent /\ spare' = spare /\ stat' = stat /\ live' = live
        /\ past' = past /\ wild' = wild /\ made' = made /\ todo' = todo
        /\ UNCHANGED <<mem, lent, spare, live, past, wild>>
    BY <1>1, <1>2, <1>5
  <2>2. HeapInv'
    BY Zenon, <1>3, <2>1, SameHeap
  <2>3. mem \in MemType /\ stat \in Stats /\ wild \subseteq Slots
    BY Zenon, <1>3, TypedParts
  <2>4. Typed' /\ SumsRight'
    <3>1. Idle
      BY Zenon, <2>1, <2>2, <2>3 DEF Idle
    <3> QED
      BY Zenon, <3>1, IdleKeeps
  <2>5. HittersRight'
    BY Zenon, <1>2, <1>3, <2>1, SameCounters
  <2> QED
    BY Zenon, <2>2, <2>4, <2>5 DEF IInv
<1> QED
  BY Zenon, <1>4, <1>5

(* A write of the program's own, that is no call of the allocator. *)
LEMMA WriteKeeps ==
    ASSUME IInv, HeapInv', mem' \in MemType, UNCHANGED <<live, past, made>>, wild' \subseteq Slots,
           UNCHANGED <<lent, spare, stat, byBytes, byCalls, said>>, program' = program,
           todo > 0, todo' = todo - 1
    PROVE  IInv'
<1>1. Typed /\ HittersRight
  BY Zenon DEF IInv
<1>2. /\ live' = live /\ past' = past /\ made' = made /\ stat' = stat /\ byBytes' = byBytes
      /\ byCalls' = byCalls /\ said' = said
  OBVIOUS
<1>3. Typed' /\ SumsRight'
  <2>1. stat \in Stats
    BY Zenon, <1>1, TypedParts
  <2>2. Idle
    BY Zenon, <1>2, <2>1 DEF Idle
  <2> QED
    BY Zenon, <2>2, IdleKeeps
<1>4. HittersRight'
  <2>1. todo # 0
    BY <1>1 DEF Typed
  <2>2. said.what # "report" /\ said'.what # "report"
    BY Zenon, <1>1, <1>2, <2>1 DEF HittersRight
  <2> QED
    BY Zenon, <1>1, <1>2, <2>2, SameCounters
<1> QED
  BY Zenon, <1>3, <1>4 DEF IInv

(* The program's two kinds of wrong writes keep it.                        *)
LEMMA MisdeedKeeps ==
    ASSUME IInv, UNCHANGED <<live, past, made>>, program' = program, todo > 0, todo' = todo - 1,
           \/ \E s, t \in Slots : IsLive(s) /\ IsLive(t) /\ CopyInto(s, t) /\ wild' = wild
           \/ \E s \in Slots : IsLive(s) /\ Overrun(s) /\ wild' = wild \cup {s}
    PROVE  IInv'
<1>1. Typed /\ HeapInv /\ wild \subseteq Slots
  BY Zenon, TypedParts DEF IInv
<1>2. live' = live /\ past' = past
  OBVIOUS
<1>3. CASE \E s, t \in Slots : IsLive(s) /\ IsLive(t) /\ CopyInto(s, t) /\ wild' = wild
  <2>1. PICK s \in Slots, t \in Slots : IsLive(s) /\ IsLive(t) /\ CopyInto(s, t) /\ wild' = wild
    BY Zenon, <1>3
  <2>2. HeapInv' /\ mem' \in MemType
    BY Zenon, <1>1, <1>2, <2>1, CopyIntoKeeps
  <2>3. UNCHANGED <<lent, spare, stat, byBytes, byCalls, said>> /\ wild' \subseteq Slots
    BY Zenon, <1>1, <2>1 DEF CopyInto
  <2> QED
    BY Zenon, <2>2, <2>3, WriteKeeps
<1>4. CASE \E s \in Slots : IsLive(s) /\ Overrun(s) /\ wild' = wild \cup {s}
  <2>1. PICK s \in Slots : IsLive(s) /\ Overrun(s) /\ wild' = wild \cup {s}
    BY Zenon, <1>4
  <2>2. HeapInv' /\ mem' \in MemType
    BY Zenon, <1>1, <1>2, <2>1, OverrunKeeps
  <2>3. UNCHANGED <<lent, spare, stat, byBytes, byCalls, said>>
    BY Zenon, <2>1 DEF Overrun
  <2>4. wild' \subseteq Slots
    BY <1>1, <2>1
  <2> QED
    BY Zenon, <2>2, <2>3, <2>4, WriteKeeps
<1> QED
  BY Zenon, <1>3, <1>4

(* At the report, what the counters show becomes what is printed.          *)
LEMMA ReportKeeps ==
    ASSUME IInv, PrintHeavyHitters, UNCHANGED <<todo, live, past, wild, made>>, program' = program,
           program = "hhtest", todo = 0, live = <<>>, said.what # "report"
    PROVE  IInv'
<1>1. Typed /\ HeapInv /\ HittersRight
  BY Zenon DEF IInv
<1>2. /\ mem' = mem /\ stat' = stat /\ live' = live /\ past' = past /\ wild' = wild /\ made' = made
      /\ todo' = todo /\ UNCHANGED <<mem, lent, spare, live, past, wild>>
  BY DEF PrintHeavyHitters
<1>3. HeapInv'
  BY Zenon, <1>1, <1>2, SameHeap
<1>4. Typed' /\ SumsRight'
  <2>1. mem \in MemType /\ stat \in Stats /\ wild \subseteq Slots
    BY Zenon, <1>1, TypedParts
  <2>2. Idle
    BY Zenon, <1>2, <1>3, <2>1 DEF Idle
  <2> QED
    BY Zenon, <2>2, IdleKeeps
<1>5. ASSUME NEW h, NEW cost \in [Sites -> Nat], NEW total \in Nat, Hitters(h, cost, total)
      PROVE  ReportRight(Report(h).printed, cost, total)
  <2>1. PICK p, r : p = Report(h).printed /\ r = Report(h).left
    OBVIOUS
  <2>2. h \in CountersType /\ \A x \in Sites : cost[x] \in Nat
    BY Zenon, <1>5, HittersAre
  <2>3. Printed(h, r, p, 0)
    BY Zenon, <2>1, <2>2, ReportPrints DEF Printing
  <2>4. \A x \in Sites : N1 * cost[x] > total => Reported(p, x)
    BY Zenon, <1>5, <2>2, <2>3, SharePrinted
  <2>5. \A q \in 2..Len(p) : p[q].n <= p[q - 1].n
    BY Zenon, <2>3 DEF Printed
  <2> QED
    BY Zenon, <2>1, <2>4, <2>5 DEF ReportRight, Reported
<1>6. /\ Hitters(byBytes, Bytes, stat.total) /\ Hitters(byCalls, Calls, stat.mallocs)
      /\ stat.total \in Nat /\ stat.mallocs \in Nat
      /\ Bytes \in [Sites -> Nat] /\ Calls \in [Sites -> Nat]
  <2>1. stat.total = SumFunction(Bytes) /\ stat.mallocs = SumFunction(Calls)
    BY Zenon, SumsAre DEF IInv, SumsNow, Sums
  <2> QED
    BY Zenon, <1>1, <2>1, SumsTyped DEF HittersRight, HeapInv
<1>7. PICK p, q, u : p = Report(byBytes).printed /\ q = Report(byCalls).printed /\ u = said'
  OBVIOUS
<1>8. u.what = "report" /\ u.bytes = p /\ u.calls = q
  <2>1. u = [what |-> "report", bytes |-> p, calls |-> q]
    BY Zenon, <1>7 DEF PrintHeavyHitters
  <2> QED
    BY ONLY <2>1
<1>9. ReportRight(p, Bytes, stat.total) /\ ReportRight(q, Calls, stat.mallocs)
  BY Zenon, <1>5, <1>6, <1>7
<1>10. HittersRight'
  <2>1. Bytes' = Bytes /\ Calls' = Calls
    BY Zenon, <1>2 DEF Bytes, Calls
  <2>2. said'.what = "report" /\ said'.bytes = p /\ said'.calls = q
    BY Zenon, <1>7, <1>8
  <2>3. ReportRight(said'.bytes, Bytes', stat'.total) /\ ReportRight(said'.calls, Calls', stat'.mallocs)
    BY Zenon, <1>2, <1>9, <2>1, <2>2
  <2>4. program' = "hhtest" /\ todo' = 0 /\ live' = <<>>
    BY Zenon, <1>2
  <2> QED
    BY Zenon, <2>2, <2>3, <2>4 DEF HittersRight
<1> QED
  BY Zenon, <1>3, <1>4, <1>10 DEF IInv

(* The sizes that the programs ask for.                                    *)
LEMMA SizesAsked ==
    /\ 2 < UintMax /\ UintMax \in Nat /\ 2 \in 0..Span - 2 /\ 0 \in 0..Span - 2
    /\ (2 * 1) % Wrap = 2 /\ (2 * UintMax) % Wrap = 2 * UintMax /\ 2 * 1 = 2
    /\ 2 * UintMax \in Nat /\ ~(2 * UintMax < UintMax) /\ ~(UintMax < UintMax)
    /\ 0 <= 2 * UintMax /\ 2 <= 2 * UintMax /\ UintMax <= 2 * UintMax /\ 2 * UintMax <= 2 * UintMax
    /\ \A z \in 1..3 : z \in Nat /\ z < UintMax /\ z \in 0..Span - 2 /\ z <= 3 /\ z <= 2 * UintMax
<1>1. PICK u, w, p : u = UintMax /\ w = Wrap /\ p = Span
  OBVIOUS
<1>2. u \in Nat /\ w \in Nat /\ p \in Nat /\ u > 3 /\ p >= 5 /\ 2 * u < w
  BY Zenon, <1>1, HeapAssumption, ProgramAssumption, CallsFit
<1>3. 2 \in Nat /\ 2 * u \in Nat /\ 2 < w /\ 2 * 1 = 2
  BY ONLY <1>2
<1>4. 2 % w = 2 /\ (2 * u) % w = 2 * u
  BY Zenon, <1>2, <1>3, ModSmall
<1>5. /\ 2 < u /\ 2 \in 0..p - 2 /\ 0 \in 0..p - 2 /\ ~(2 * u < u) /\ ~(u < u)
      /\ 0 <= 2 * u /\ 2 <= 2 * u /\ u <= 2 * u /\ 2 * u <= 2 * u
  BY ONLY <1>2
<1>6. \A z \in 1..3 : z \in Nat /\ z < u /\ z \in 0..p - 2 /\ z <= 3 /\ z <= 2 * u
  BY ONLY <1>2
<1> QED
  BY Zenon, <1>1, <1>2, <1>3, <1>4, <1>5, <1>6

(* What a step is that puts no old header back: a call that allocates or   *)
(* fails, a calloc() refused for its count, a wrong write, a copy, a call  *)
(* that frees or refuses to, or the report.                                *)
Sized(sz) == /\ sz < UintMax => sz \in 0..Span - 2 /\ sz <= Largest
             /\ sz <= 2 * UintMax /\ (program = "hhtest" => sz < UintMax)
Counted == todo > 0 /\ todo' = todo - 1
Allocating == /\ Counted
              /\ \E s \in Slots, sz \in Nat, site \in Sites :
                    Sized(sz) /\ Malloc(s, sz, site) /\ Noted(s, sz, site)
Refusing == program = "heap" /\ Counted /\ Failed(0) /\ Refused(0)
Erring == /\ Counted /\ UNCHANGED <<live, past, made, refused, saved, restored, current>>
          /\ \/ \E s, t \in Slots : IsLive(s) /\ IsLive(t) /\ CopyInto(s, t) /\ wild' = wild
             \/ \E s \in Slots : IsLive(s) /\ Overrun(s) /\ wild' = wild \cup {s}
Saving == Counted /\ \E s \in Slots : IsLive(s) /\ Save(s)
Freeing == (program = "heap" \/ live # <<>>) /\ \E p \in Pointers : FreeNoted(p)
Reporting == /\ program = "hhtest" /\ todo = 0 /\ live = <<>> /\ said.what # "report"
             /\ PrintHeavyHitters
             /\ UNCHANGED <<todo, live, past, wild, made, refused, saved, restored, current>>
Stepping == \/ Allocating \/ Refusing \/ Erring \/ Saving \/ Freeing \/ Reporting

(* Steps of the program that allocates, frees and errs.                    *)
LEMMA HeapStepIs ==
    ASSUME program \in Programs, HeapStep
    PROVE  Restore \/ Stepping
<1>1. program = "heap" /\ program # "hhtest" /\ Largest = 2 /\ 0 \in Nat /\ 2 \in Nat /\ 0 <= 2 /\ 2 <= 2
  <2>1. program = "heap"
    BY Zenon DEF HeapStep
  <2>2. program # "hhtest" /\ 0 \in Nat /\ 2 \in Nat /\ 0 <= 2 /\ 2 <= 2
    BY <2>1
  <2> QED
    BY Zenon, <2>1, <2>2, LargestIs
<1>2. HeapSite \in Sites
  BY Zenon, ProgramAssumption DEF HeapSite
<1>3. \A sz : sz = 0 \/ sz = 2 \/ sz = UintMax \/ sz = 2 * UintMax => sz \in Nat /\ Sized(sz)
  BY Zenon, <1>1, SizesAsked DEF Sized
<1>4. ASSUME Counted, NEW s \in Slots, NEW sz \in {0, 2, UintMax},
             Malloc(s, sz, HeapSite), Noted(s, sz, HeapSite)
      PROVE  Allocating
  <2>1. sz = 0 \/ sz = 2 \/ sz = UintMax
    OBVIOUS
  <2> QED
    BY Zenon, <1>2, <1>3, <1>4, <2>1 DEF Allocating
<1>5. ASSUME Counted, NEW s \in Slots, NEW a \in {<<2, 1>>, <<2, UintMax>>},
             Calloc(s, a[1], a[2], HeapSite), Noted(s, a[1] * a[2], HeapSite)
      PROVE  Allocating
  <2>1. PICK x, y : x = a[1] /\ y = a[2]
    OBVIOUS
  <2>2. x = 2 /\ (y = 1 \/ y = UintMax)
    BY ONLY <2>1, a \in {<<2, 1>>, <<2, UintMax>>}
  <2>3. PICK z : z = x * y
    OBVIOUS
  <2>4. (x * y) % Wrap = z /\ (z = 2 \/ z = 2 * UintMax)
    BY Zenon, <2>2, <2>3, SizesAsked
  <2>5. Calloc(s, x, y, HeapSite) /\ Noted(s, z, HeapSite)
    BY Zenon, <1>5, <2>1, <2>3
  <2>6. Malloc(s, z, HeapSite)
    <3>1. x < UintMax /\ ~(x >= UintMax)
      BY <2>2, SizesAsked
    <3> QED
      BY Zenon, <2>4, <2>5, <3>1 DEF Calloc
  <2> QED
    BY Zenon, <1>2, <1>3, <1>5, <2>4, <2>5, <2>6 DEF Allocating
<1>6. ASSUME Counted, NEW s \in Slots, Calloc(s, UintMax, 1, HeapSite), Refused(0)
      PROVE  Refusing
  BY Zenon, <1>1, <1>6, SizesAsked DEF Calloc, Refusing
<1>7. CASE \E p \in Pointers : FreeNoted(p)
  BY Zenon, <1>1, <1>7 DEF Freeing, Stepping
<1>8. CASE /\ Counted
           /\ \/ \E s \in Slots, sz \in {0, 2, UintMax} :
                   Malloc(s, sz, HeapSite) /\ Noted(s, sz, HeapSite)
              \/ \E s \in Slots, a \in {<<2, 1>>, <<2, UintMax>>} :
                   Calloc(s, a[1], a[2], HeapSite) /\ Noted(s, a[1] * a[2], HeapSite)
              \/ \E s \in Slots : Calloc(s, UintMax, 1, HeapSite) /\ Refused(0)
  BY Zenon, <1>4, <1>5, <1>6, <1>8 DEF Stepping
<1>9. CASE Erring \/ Saving
  BY Zenon, <1>9 DEF Stepping
<1> QED
  BY Zenon, <1>7, <1>8, <1>9 DEF HeapStep, Counted, Erring, Saving

(* Steps of the heavy-hitter test program.                                 *)
LEMMA HhStepIs ==
    ASSUME program \in Programs, live \in Seq(BlockType), DOMAIN spare \subseteq Slots, HhStep
    PROVE  Stepping
<1>1. program = "hhtest" /\ Largest = 3
  BY Zenon, LargestIs DEF HhStep
<1>2. CASE todo = 0 /\ live = <<>> /\ said.what # "report" /\ PrintHeavyHitters
           /\ UNCHANGED <<todo, live, past, wild, made, refused, saved, restored, current>>
  BY Zenon, <1>1, <1>2 DEF Reporting, Stepping
<1>3. ASSUME NEW x \in Sites, Counted, NEW sz \in 1..3, NEW s, s = Min(Slots),
             Malloc(s, sz, x), Noted(s, sz, x)
      PROVE  Allocating
  <2>1. sz \in Nat /\ sz < UintMax /\ sz \in 0..Span - 2 /\ sz <= Largest /\ sz <= 2 * UintMax
    BY Zenon, <1>1, SizesAsked
  <2>2. ~(sz >= UintMax)
    BY <2>1, HeapAssumption
  <2>3. BaseMalloc(s, sz)
    BY Zenon, <1>3, <2>2 DEF Malloc
  <2>4. s \in Slots
    BY <2>3 DEF BaseMalloc, Reusable, Fresh
  <2> QED
    BY Zenon, <1>3, <2>1, <2>4 DEF Sized, Allocating
<1>4. ASSUME live # <<>>, FreeNoted(Payload(live[1].slot)) PROVE Freeing
  <2>1. PICK t : t = live[1].slot
    OBVIOUS
  <2>2. t \in Slots
    <3>1. PICK R : R = [slot : Slots, size : 0..Span - 2, site : Sites]
      OBVIOUS
    <3>2. live \in Seq(R)
      BY Zenon, <3>1 DEF BlockType
    <3>3. live[1] \in R
      BY <1>4, <3>2
    <3> QED
      BY <2>1, <3>1, <3>3
  <2>3. Payload(t) \in Pointers
    BY <2>2 DEF Payload, Pointers
  <2> QED
    BY Zenon, <1>4, <2>1, <2>3 DEF Freeing
<1>5. CASE \E x \in Sites : Allocator(x)
  <2>1. PICK x \in Sites : Allocator(x)
    BY <1>5
  <2>2. \/ Counted /\ \E sz \in 1..3 : Malloc(Min(Slots), sz, x) /\ Noted(Min(Slots), sz, x)
        \/ live # <<>> /\ FreeNoted(Payload(live[1].slot))
    BY Zenon, <2>1 DEF Allocator, Counted
  <2>3. PICK s : s = Min(Slots)
    OBVIOUS
  <2> QED
    BY Zenon, <1>3, <1>4, <2>2, <2>3 DEF Stepping
<1> QED
  BY Zenon, <1>2, <1>5 DEF HhStep

(* Every step is one of those, or the one that puts old headers back.      *)
LEMMA StepIs ==
    ASSUME Typed, HeapInv, Next
    PROVE  program' = program /\ (Stepping \/ (program = "heap" /\ Restore))
<1>0. DOMAIN spare \subseteq Slots
  <2>1. DOMAIN spare \subseteq Slots \ DOMAIN lent
    BY Zenon DEF HeapInv, LentRight
  <2> QED
    BY <2>1
<1>1. program \in Programs /\ live \in Seq(BlockType) /\ program' = program /\ (HeapStep \/ HhStep)
  BY Zenon, TypedParts DEF Next
<1>2. HeapStep => program = "heap"
  BY Zenon DEF HeapStep
<1> QED
  BY Zenon, <1>0, <1>1, <1>2, HeapStepIs, HhStepIs

(* Every step that puts no old header back keeps the invariant.            *)
LEMMA StepKeeps ==
    ASSUME IInv, Stepping, program' = program
    PROVE  IInv'
<1>1. Typed /\ HeapInv /\ HittersRight
  BY Zenon DEF IInv
<1>2. CASE Allocating
  BY Zenon, <1>2, MallocKeeps DEF Allocating, Counted, Sized
<1>3. CASE Refusing
  <2>1. UNCHANGED <<live, past, wild, made>> /\ 0 \in Nat
    BY <1>3 DEF Refusing, Refused
  <2> QED
    BY Zenon, <1>3, <2>1, FailedKeeps DEF Refusing, Counted
<1>4. CASE Erring
  <2>1. UNCHANGED <<live, past, made>>
    BY <1>4 DEF Erring
  <2> QED
    BY Zenon, <1>4, <2>1, MisdeedKeeps DEF Erring, Counted
<1>5. CASE Saving
  <2>1. PICK s : Save(s)
    BY Zenon, <1>5 DEF Saving
  <2>2. /\ mem' = mem /\ stat' = stat /\ wild' = wild
        /\ UNCHANGED <<live, past, made>> /\ UNCHANGED <<mem, lent, spare, live, past, wild>>
        /\ UNCHANGED <<lent, spare, stat, byBytes, byCalls, said>>
    BY <2>1 DEF Save, m61Vars
  <2>3. HeapInv'
    BY Zenon, <1>1, <2>2, SameHeap
  <2>4. mem \in MemType /\ wild \subseteq Slots
    BY Zenon, <1>1, TypedParts
  <2> QED
    BY Zenon, <1>5, <2>2, <2>3, <2>4, WriteKeeps DEF Saving, Counted
<1>6. CASE Freeing
  <2>1. said.what # "report"
    <3>1. program = "heap" => program # "hhtest"
      OBVIOUS
    <3> QED
      BY Zenon, <1>1, <1>6, <3>1 DEF HittersRight, Freeing
  <2> QED
    BY Zenon, <1>6, <2>1, FreeKeeps DEF Freeing
<1>7. CASE Reporting
  <2>1. UNCHANGED <<todo, live, past, wild, made>>
    BY <1>7 DEF Reporting
  <2> QED
    BY Zenon, <1>7, <2>1, ReportKeeps DEF Reporting
<1> QED
  BY Zenon, <1>2, <1>3, <1>4, <1>5, <1>6, <1>7 DEF Stepping

------------------------------------------------------------------------------
(* The list from first_node backwards: the blocks, newest first.            *)
IsWalk(f) == f = [k \in Nat |-> IF k = 0 THEN First.prev
                                ELSE IF f[k - 1] \in {0, NoLink} THEN 0
                                ELSE mem[f[k - 1]][0].prev]
Behind(k) == IF k < Len(live) THEN At(Len(live) - k)
             ELSE IF k = Len(live) THEN (IF First.next = NoLink THEN NoLink ELSE 0) ELSE 0

(* The walk meets the blocks from the last to the first; it is the only    *)
(* function with its recursion.                                            *)
LEMMA WalkIs ==
    ASSUME Typed, HeapInv, NEW f
    PROVE  /\ f = [k \in Nat |-> Behind(k)] => IsWalk(f)
           /\ IsWalk(f) => \A k \in Nat : f[k] = Behind(k)
<1>1. PICK n : n = Len(live)
  OBVIOUS
<1>2. ListFacts /\ n \in Nat /\ NoLink \in {0, NoLink} /\ 0 \in {0, NoLink}
  BY Zenon, <1>1, ListIs DEF HeapInv, ListFacts
<1>3. /\ past = {} => n = 0 /\ First.next = NoLink /\ First.prev = NoLink
      /\ past # {} => \A i \in 0..n : mem[At(i)][0].next = At(i + 1) /\ mem[At(i + 1)][0].prev = At(i)
  <2>1. live = <<>> => n = 0
    BY <1>1
  <2> QED
    BY Zenon, <1>1, <2>1 DEF HeapInv, Threaded
<1>4. \A i \in 1..n : At(i) \notin {0, NoLink}
  BY Zenon, <1>1, <1>2 DEF ListFacts
<1>5. past # {} => First.next # NoLink
  <2>1. SUFFICES ASSUME past # {} PROVE First.next # NoLink
    OBVIOUS
  <2>2. 0 \in 0..n /\ 0 + 1 = 1 /\ 1 \in Nat
    BY <1>2
  <2>3. mem[At(0)][0].next = At(0 + 1)
    BY Zenon, <1>3, <2>1, <2>2
  <2>4. First.next = At(1)
    BY Zenon, <1>2, <2>2, <2>3 DEF First, ListFacts
  <2>5. At(1) \in Places
    BY Zenon, <1>2, <2>2 DEF ListFacts
  <2>6. NoLink \notin Places
    BY Zenon, <1>2 DEF ListFacts
  <2> QED
    BY Zenon, <2>4, <2>5, <2>6
<1>6. Behind(0) = First.prev
  <2>1. CASE past = {}
    <3>1. ~(0 < n)
      BY <1>3, <2>1
    <3> QED
      BY Zenon, <1>1, <1>3, <2>1, <3>1 DEF Behind
  <2>2. CASE past # {}
    <3>1. n \in 0..n /\ (0 < n => n - 0 = n) /\ (~(0 < n) => n = 0)
      BY <1>2
    <3>2. mem[At(n + 1)][0].prev = At(n)
      BY Zenon, <1>3, <2>2, <3>1
    <3>3. First.prev = At(n)
      BY Zenon, <1>1, <1>2, <3>2 DEF First, ListFacts
    <3>4. CASE 0 < n
      BY Zenon, <1>1, <3>1, <3>3, <3>4 DEF Behind
    <3>5. CASE ~(0 < n)
      BY Zenon, <1>1, <1>2, <1>5, <2>2, <3>1, <3>3, <3>5 DEF Behind, ListFacts
    <3> QED
      BY Zenon, <3>4, <3>5
  <2> QED
    BY Zenon, <2>1, <2>2
<1>7. ASSUME NEW k \in Nat, k # 0
      PROVE  Behind(k) = IF Behind(k - 1) \in {0, NoLink} THEN 0 ELSE mem[Behind(k - 1)][0].prev
  <2>1. k - 1 \in Nat
    BY <1>7
  <2>2. CASE k - 1 < n
    <3>1. n - (k - 1) \in 1..n /\ n - k \in 0..n /\ n - k + 1 = n - (k - 1) /\ n # 0
      BY <1>2, <1>7, <2>2
    <3>2. Behind(k - 1) = At(n - (k - 1))
      BY Zenon, <1>1, <2>2 DEF Behind
    <3>3. mem[At(n - (k - 1))][0].prev = At(n - k)
      BY Zenon, <1>3, <3>1
    <3>4. Behind(k) = At(n - k)
      <4>1. CASE k < n
        BY Zenon, <1>1, <4>1 DEF Behind
      <4>2. CASE ~(k < n)
        <5>1. k = n /\ n - k = 0
          BY <1>2, <1>7, <2>2, <4>2
        <5>2. Behind(k) = 0
          BY Zenon, <1>1, <1>3, <1>5, <3>1, <4>2, <5>1 DEF Behind
        <5> QED
          BY Zenon, <1>2, <5>1, <5>2 DEF ListFacts
      <4> QED
        BY Zenon, <4>1, <4>2
    <3> QED
      BY Zenon, <1>4, <3>1, <3>2, <3>3, <3>4
  <2>3. CASE ~(k - 1 < n)
    <3>1. ~(k < n) /\ k # n
      BY <1>2, <1>7, <2>3
    <3>2. Behind(k) = 0
      BY Zenon, <1>1, <3>1 DEF Behind
    <3>3. Behind(k - 1) \in {0, NoLink}
      BY Zenon, <1>1, <1>2, <2>3 DEF Behind
    <3> QED
      BY Zenon, <3>2, <3>3
  <2> QED
    BY Zenon, <2>2, <2>3
<1>8. ASSUME f = [k \in Nat |-> Behind(k)] PROVE IsWalk(f)
  <2>1. \A k \in Nat : f[k] = Behind(k)
    BY Zenon, <1>8
  <2>2. \A k \in Nat : k # 0 => k - 1 \in Nat
    OBVIOUS
  <2>3. ASSUME NEW k \in Nat
        PROVE  Behind(k) = IF k = 0 THEN First.prev
                           ELSE IF f[k - 1] \in {0, NoLink} THEN 0 ELSE mem[f[k - 1]][0].prev
    <3>1. CASE k = 0
      BY Zenon, <1>6, <3>1
    <3>2. CASE k # 0
      <4>1. f[k - 1] = Behind(k - 1)
        BY Zenon, <2>1, <2>2, <3>2
      <4>2. PICK b : b = Behind(k - 1)
        OBVIOUS
      <4> QED
        BY Zenon, <1>7, <3>2, <4>1, <4>2
    <3> QED
      BY Zenon, <3>1, <3>2
  <2>4. f = [k \in Nat |-> IF k = 0 THEN First.prev
                           ELSE IF f[k - 1] \in {0, NoLink} THEN 0 ELSE mem[f[k - 1]][0].prev]
    <3>1. PICK g : g = [k \in Nat |-> IF k = 0 THEN First.prev
                           ELSE IF f[k - 1] \in {0, NoLink} THEN 0 ELSE mem[f[k - 1]][0].prev]
      OBVIOUS
    <3>2. \A k \in Nat : g[k] = Behind(k)
      BY Zenon, <2>3, <3>1
    <3>3. g = [k \in Nat |-> g[k]]
      BY Zenon, <3>1
    <3>4. g = f
      BY Zenon, <1>8, <3>2, <3>3
    <3> QED
      BY Zenon, <3>1, <3>4
  <2> QED
    BY Zenon, <2>4 DEF IsWalk
<1>9. ASSUME IsWalk(f) PROVE \A k \in Nat : f[k] = Behind(k)
  <2>1. \A k \in Nat : f[k] = IF k = 0 THEN First.prev
                              ELSE IF f[k - 1] \in {0, NoLink} THEN 0 ELSE mem[f[k - 1]][0].prev
    BY Zenon, <1>9 DEF IsWalk
  <2> DEFINE T == {k \in Nat : f[k] # Behind(k)}
  <2>2. T = {}
    <3> SUFFICES ASSUME T # {} PROVE FALSE
      OBVIOUS
    <3>1. PICK k \in T : \A l \in T : k <= l
      <4>1. T \subseteq Nat
        OBVIOUS
      <4> HIDE DEF T
      <4> QED
        BY <4>1, LeastNat
    <3>2. k \in Nat /\ f[k] # Behind(k)
      BY <3>1
    <3>3. k # 0
      BY Zenon, <1>6, <2>1, <3>2
    <3>4. f[k - 1] = Behind(k - 1)
      <4>1. k - 1 \in Nat /\ ~(k <= k - 1)
        BY <3>2, <3>3
      <4> QED
        BY Zenon, <3>1, <4>1
    <3> QED
      BY Zenon, <1>7, <2>1, <3>2, <3>3, <3>4
  <2> QED
    BY Zenon, <2>2
<1> QED
  BY Zenon, <1>8, <1>9

(* WalkBack is that walk.                                                  *)
LEMMA WalkBackIs ==
    ASSUME Typed, HeapInv
    PROVE  \A k \in Nat : WalkBack[k] = Behind(k)
<1>1. PICK f : f = [k \in Nat |-> Behind(k)]
  OBVIOUS
<1>2. IsWalk(f)
  BY Zenon, <1>1, WalkIs
<1>3. WalkBack = CHOOSE g : IsWalk(g)
  BY Zenon DEF WalkBack, IsWalk
<1>4. IsWalk(WalkBack)
  BY Zenon, <1>2, <1>3
<1> QED
  BY Zenon, <1>4, WalkIs

(* What Hitters says of one site: never shown too much, and short by no    *)
(* more than its share.                                                    *)
LEMMA FairBounds ==
    ASSUME NEW h, NEW cost, NEW total \in Nat, Hitters(h, cost, total), NEW x \in Sites
    PROVE  Shown(h, x) <= cost[x] /\ (cost[x] \in Nat => N1 * (cost[x] - Shown(h, x)) <= total)
<1>1. h \in CountersType /\ Fair(cost[x], SumFunction(Owned(h, x)), total, SumFunction(Amounts(h)))
  BY Zenon, HittersAre
<1>2. PICK s, a, c, d : /\ s = SumFunction(Owned(h, x)) /\ a = SumFunction(Amounts(h)) /\ c = cost[x]
                        /\ d = N1 * (c - s)
  OBVIOUS
<1>3. s \in Nat /\ a \in Nat
  BY Zenon, <1>1, <1>2, ShownNat
<1>4. s <= c /\ d <= total - a
  BY Zenon, <1>1, <1>2 DEF Fair
<1>5. Shown(h, x) = s
  BY Zenon, <1>2 DEF Shown, Owned
<1>6. c \in Nat => d \in Int
  <2>1. N1 \in Nat
    BY FS_CardinalityType, HeapAssumption DEF N1
  <2> QED
    BY <1>2, <1>3, <2>1
<1>7. c \in Nat => d <= total
  BY <1>3, <1>4, <1>6
<1> QED
  BY Zenon, <1>2, <1>4, <1>5, <1>7

(* What the invariant says of the heavy hitters.                           *)
LEMMA HittersNow ==
    ASSUME IInv
    PROVE  HeavyHittersFound
<1>1. Typed /\ SumsRight /\ HittersRight /\ Distinct
  BY Zenon DEF IInv, HeapInv
<1>2. \A x \in Sites : Bytes[x] = made[x].bytes /\ Calls[x] = made[x].calls
  BY Zenon DEF Bytes, Calls
<1>3. stat.total \in Nat /\ stat.mallocs \in Nat /\ \A x \in Sites : Bytes[x] \in Nat /\ Calls[x] \in Nat
  <2>1. stat.total = SumFunction(Bytes) /\ stat.mallocs = SumFunction(Calls)
    BY Zenon, <1>1, SumsAre DEF SumsNow, Sums
  <2>2. /\ SumFunction(Calls) \in Nat /\ SumFunction(Bytes) \in Nat
        /\ Bytes \in [Sites -> Nat] /\ Calls \in [Sites -> Nat]
    BY Zenon, <1>1, SumsTyped
  <2> QED
    BY Zenon, <2>1, <2>2
<1>4. ASSUME said.what # "report", NEW x \in Sites
      PROVE  /\ Shown(byBytes, x) <= made[x].bytes /\ Shown(byCalls, x) <= made[x].calls
             /\ N1 * (made[x].bytes - Shown(byBytes, x)) <= stat.total
             /\ N1 * (made[x].calls - Shown(byCalls, x)) <= stat.mallocs
  <2>1. Hitters(byBytes, Bytes, stat.total) /\ Hitters(byCalls, Calls, stat.mallocs)
    BY Zenon, <1>1, <1>4 DEF HittersRight
  <2>2. Shown(byBytes, x) <= Bytes[x] /\ N1 * (Bytes[x] - Shown(byBytes, x)) <= stat.total
    BY Zenon, <1>3, <2>1, FairBounds
  <2>3. Shown(byCalls, x) <= Calls[x] /\ N1 * (Calls[x] - Shown(byCalls, x)) <= stat.mallocs
    BY Zenon, <1>3, <2>1, FairBounds
  <2> QED
    BY Zenon, <1>2, <2>2, <2>3
<1>5. said.what = "report" => /\ ReportRight(said.bytes, Bytes, stat.total)
                              /\ ReportRight(said.calls, Calls, stat.mallocs)
  BY Zenon, <1>1 DEF HittersRight
<1> QED
  BY Zenon, <1>4, <1>5 DEF HeavyHittersFound

------------------------------------------------------------------------------
(* What m61_free() says.                                                    *)

(* There are no more live blocks than slots, so BlocksListed, which takes  *)
(* as many steps as there are slots, meets them all.                       *)
LEMMA FewBlocks ==
    ASSUME ListFacts
    PROVE  Len(live) <= Cardinality(Slots) /\ Cardinality(Slots) \in Nat
<1>1. PICK n, f : n = Len(live) /\ f = [i \in 1..n |-> At(i)]
  OBVIOUS
<1>2. n \in Nat /\ n \in Int /\ 1 \in Int
  <2>1. n \in Nat
    BY Zenon, <1>1 DEF ListFacts
  <2> QED
    BY <2>1
<1>3. f \in [1..n -> Slots] /\ \A i, j \in 1..n : f[i] = f[j] => i = j
  <2>1. \A i \in 1..n : f[i] = At(i) /\ At(i) \in Slots
    BY Zenon, <1>1 DEF ListFacts
  <2>2. f \in [1..n -> Slots]
    BY <1>1, <2>1
  <2> QED
    BY Zenon, <1>1, <2>1, <2>2 DEF ListFacts
<1>4. f \in Injection(1..n, Slots)
  BY <1>3 DEF Injection, IsInjective
<1>5. Cardinality(1..n) <= Cardinality(Slots)
  BY <1>4, FS_Injection, FiniteSets
<1>6. Cardinality(1..n) = n
  <2>1. Cardinality(1..n) = IF 1 > n THEN 0 ELSE n - 1 + 1
    BY <1>2, FS_Interval
  <2> QED
    BY <1>2, <2>1
<1> QED
  BY <1>1, <1>5, <1>6, FS_CardinalityType, FiniteSets

(* The walk meets just the blocks of the list. *)
LEMMA ListedAre ==
    ASSUME Typed, HeapInv
    PROVE  \A s : s \in BlocksListed <=> IsLive(s)
<1>1. ListFacts
  BY Zenon, ListIs DEF HeapInv
<1>2. PICK n, C : n = Len(live) /\ C = Cardinality(Slots)
  OBVIOUS
<1>3. n \in Nat /\ C \in Nat /\ n <= C
  BY Zenon, <1>1, <1>2, FewBlocks DEF ListFacts
<1>4. \A k \in Nat : WalkBack[k] = Behind(k)
  BY Zenon, WalkBackIs
<1>5. ASSUME NEW s, s \in BlocksListed PROVE IsLive(s)
  <2>1. PICK k \in 0..C : s = WalkBack[k]
    BY Zenon, <1>2, <1>5 DEF BlocksListed
  <2>2. k \in Nat /\ s = Behind(k) /\ s \notin {0, NoLink}
    <3>1. k \in Nat
      OBVIOUS
    <3> QED
      BY Zenon, <1>4, <1>5, <2>1, <3>1 DEF BlocksListed
  <2>3. k < n
    BY Zenon, <1>2, <2>2 DEF Behind
  <2>4. n - k \in 1..n
    BY <1>3, <2>2, <2>3
  <2>5. s = At(n - k)
    BY Zenon, <1>2, <2>2, <2>3 DEF Behind
  <2> QED
    BY Zenon, <1>1, <1>2, <2>4, <2>5 DEF ListFacts
<1>6. ASSUME NEW s, IsLive(s) PROVE s \in BlocksListed
  <2>1. PICK i \in 1..n : At(i) = s
    BY Zenon, <1>1, <1>2, <1>6 DEF ListFacts
  <2>2. n - i \in Nat /\ n - i \in 0..C /\ n - i < n /\ n - (n - i) = i
    BY <1>3
  <2>3. WalkBack[n - i] = s
    BY Zenon, <1>2, <1>4, <2>1, <2>2 DEF Behind
  <2>4. s # 0 /\ s # NoLink
    BY Zenon, <1>1, <1>2, <2>1 DEF ListFacts
  <2> QED
    BY Zenon, <1>2, <2>2, <2>3, <2>4 DEF BlocksListed
<1> QED
  BY Zenon, <1>5, <1>6

(* Slots do not overlap.                                                   *)
LEMMA RowsApart ==
    ASSUME NEW a \in Nat, NEW b \in Nat, NEW w \in Nat, a < b
    PROVE  (a * w) + w <= b * w
<1>1. PICK d \in Nat : b = (a + 1) + d
  <2>1. b - (a + 1) \in Nat /\ b = (a + 1) + (b - (a + 1))
    OBVIOUS
  <2> QED
    BY Zenon, <2>1
<1>2. b * w = (a * w) + w + (d * w) /\ d * w \in Nat /\ a * w \in Nat
  BY <1>1
<1> QED
  BY <1>2

(* A pointer's address lies in its slot.                                   *)
LEMMA AddrIs ==
    ASSUME NEW p \in Pointers, p # Null
    PROVE  /\ Addr(p) \in Nat /\ 2 * ((p.slot * Span) + 1) <= Addr(p)
           /\ Addr(p) <= 2 * ((p.slot * Span) + 3) + 1 /\ p.slot \in Nat
           /\ p.off = 1 /\ ~p.odd => Addr(p) = Start(p.slot)
<1>1. /\ p.slot \in Places /\ p.off \in 1..3 /\ p.odd \in BOOLEAN
  BY Zenon, PointersAre
<1>2. p.slot \in Nat
  <2>1. Places \subseteq Nat
    BY HeapAssumption DEF Places
  <2> QED
    BY Zenon, <1>1, <2>1
<1>3. PICK t, o, x, e : /\ t = p.slot /\ o = p.off /\ x = t * Span /\ e = (IF p.odd THEN 1 ELSE 0)
  OBVIOUS
<1>4. x \in Nat /\ o \in 1..3 /\ e \in {0, 1}
  <2>1. Span \in Nat
    BY Zenon, SpanIs
  <2> QED
    BY <1>1, <1>2, <1>3, <2>1
<1>5. Addr(p) = 2 * (x + o) + e
  BY Zenon, <1>3 DEF Addr
<1>6. p.off = 1 /\ ~p.odd => Addr(p) = Start(p.slot)
  <2>1. SUFFICES ASSUME p.off = 1, ~p.odd PROVE Addr(p) = Start(p.slot)
    OBVIOUS
  <2>2. o = 1 /\ e = 0
    BY Zenon, <1>3, <2>1
  <2>3. Addr(p) = 2 * (x + 1)
    BY <1>4, <1>5, <2>2
  <2>4. Start(t) = 2 * (x + 1)
    BY Zenon, <1>1, <1>3, StartIs
  <2> QED
    BY Zenon, <1>3, <2>3, <2>4
<1>7. /\ Addr(p) \in Nat /\ 2 * (x + 1) <= Addr(p) /\ Addr(p) <= 2 * (x + 3) + 1
  BY <1>4, <1>5
<1> QED
  BY Zenon, <1>2, <1>3, <1>6, <1>7

(* A pointer into a block points into its slot. *)
LEMMA InsideIs ==
    ASSUME NEW p \in Pointers, p # Null, NEW s \in Slots, NEW z \in 0..Span - 2,
           Start(s) <= Addr(p), Addr(p) < Start(s) + (2 * z)
    PROVE  s = p.slot
<1>1. PICK t, x, y, a, b : /\ t = p.slot /\ x = t * Span /\ y = s * Span /\ a = Addr(p) /\ b = Start(s)
  OBVIOUS
<1>2. /\ t \in Nat /\ s \in Nat /\ Span \in Nat /\ Span >= 5 /\ s \in Places /\ z \in Nat /\ z <= Span - 2
  <2>1. s \in Nat /\ s \in Places
    BY HeapAssumption DEF Places
  <2>2. t \in Nat
    BY Zenon, <1>1, AddrIs
  <2> QED
    BY <2>1, <2>2, SpanIs
<1>3. a \in Nat /\ 2 * (x + 1) <= a /\ a <= 2 * (x + 3) + 1 /\ x \in Nat /\ y \in Nat
  <2>1. a \in Nat /\ 2 * (x + 1) <= a /\ a <= 2 * (x + 3) + 1
    BY Zenon, <1>1, AddrIs
  <2> QED
    BY <1>1, <1>2, <2>1
<1>4. b = 2 * (y + 1) /\ b <= a /\ a < b + (2 * z)
  BY Zenon, <1>1, <1>2, StartIs
<1>5. ~(s < t)
  <2>1. SUFFICES ASSUME s < t PROVE FALSE
    OBVIOUS
  <2>2. y + Span <= x
    BY Zenon, <1>1, <1>2, <2>1, RowsApart
  <2> QED
    BY <1>2, <1>3, <1>4, <2>2
<1>6. ~(t < s)
  <2>1. SUFFICES ASSUME t < s PROVE FALSE
    OBVIOUS
  <2>2. x + Span <= y
    BY Zenon, <1>1, <1>2, <2>1, RowsApart
  <2> QED
    BY <1>2, <1>3, <1>4, <2>2
<1> QED
  BY <1>1, <1>2, <1>5, <1>6

(* All pointers are below the heap's end before there is one. *)
LEMMA BelowTop ==
    ASSUME NEW p \in Pointers, p # Null
    PROVE  ~((2 * Span) * Wrap <= Addr(p))
<1>1. PICK t, x, y, a : t = p.slot /\ x = t * Span /\ y = Wrap * Span /\ a = Addr(p)
  OBVIOUS
<1>2. a \in Nat /\ a <= 2 * (x + 3) + 1 /\ t \in Nat
  BY Zenon, <1>1, AddrIs
<1>3. Span \in Nat /\ Span >= 5 /\ Wrap \in Nat /\ t < Wrap
  <2>1. Wrap \in Nat /\ 0 < Wrap /\ Span \in Nat /\ Span >= 5
    BY HeapAssumption, SpanIs
  <2>2. t \in Places
    BY Zenon, <1>1, PointersAre
  <2> QED
    BY <2>1, <2>2, HeapAssumption DEF Places
<1>4. x + Span <= y
  BY Zenon, <1>1, <1>2, <1>3, RowsApart
<1>5. (2 * Span) * Wrap = 2 * y /\ x \in Nat /\ y \in Nat
  BY <1>1, <1>2, <1>3
<1>6. a < 2 * y
  BY <1>2, <1>3, <1>4, <1>5
<1> QED
  BY <1>1, <1>2, <1>5, <1>6

(* The least and the largest of a set, by their property.                  *)
LEMMA ExtremesAre ==
    ASSUME NEW T, T \subseteq Int, NEW m \in T
    PROVE  /\ (\A y \in T : m <= y) => Min(T) = m
           /\ (\A y \in T : y <= m) => Max(T) = m
<1>1. \A y \in T : y \in Int
  OBVIOUS
<1>2. ASSUME \A y \in T : m <= y PROVE Min(T) = m
  <2>1. Min(T) \in T /\ \A y \in T : Min(T) <= y
    BY Zenon, <1>2 DEF Min
  <2>2. PICK v : v = Min(T)
    OBVIOUS
  <2>3. v \in Int /\ m \in Int /\ v <= m /\ m <= v
    BY Zenon, <1>1, <1>2, <2>1, <2>2
  <2>4. v = m
    BY ONLY <2>3
  <2> QED
    BY Zenon, <2>2, <2>4
<1>3. ASSUME \A y \in T : y <= m PROVE Max(T) = m
  <2>1. \A y \in T : m >= y
    BY <1>1, <1>3
  <2>2. Max(T) \in T /\ \A y \in T : Max(T) >= y
    BY Zenon, <2>1 DEF Max
  <2>3. PICK v : v = Max(T)
    OBVIOUS
  <2>4. v \in Int /\ m \in Int /\ v >= m /\ v <= m
    BY Zenon, <1>1, <1>3, <2>2, <2>3
  <2>5. v = m
    BY ONLY <2>4
  <2> QED
    BY Zenon, <2>3, <2>5
<1> QED
  BY <1>2, <1>3

(* The heap is between the first start and the last end. *)
LEMMA EndsAre ==
    ASSUME Typed, HeapInv, past # {}
    PROVE  Min(Starts) = stat.min /\ Max(Ends) = stat.max /\ stat.min \in Int /\ stat.max \in Int
<1>1. past \subseteq [slot : Slots, size : 0..Span - 2] /\ stat.min \in Int /\ stat.max \in Int
  BY TypedParts DEF Stats
<1>2. LimitsOf(stat.min, stat.max, past)
  BY Zenon, LimitsIs DEF HeapInv
<1>3. \A b \in past : Start(b.slot) \in Int /\ Start(b.slot) + (2 * b.size) \in Int
  <2>1. ASSUME NEW b \in past PROVE Start(b.slot) \in Int /\ Start(b.slot) + (2 * b.size) \in Int
    <3>1. PICK s, z : s = b.slot /\ z = b.size
      OBVIOUS
    <3>2. s \in Slots /\ z \in 0..Span - 2
      BY <1>1, <3>1
    <3>3. s \in Places
      BY <3>2 DEF Places
    <3>4. Start(s) \in Nat
      BY Zenon, <3>3, StartIs
    <3>5. Start(s) \in Int /\ Start(s) + (2 * z) \in Int
      BY <3>2, <3>4, SpanIs
    <3> QED
      BY Zenon, <3>1, <3>5
  <2> QED
    BY Zenon, <2>1
<1>4. /\ \E b \in past : stat.min = Start(b.slot)
      /\ \E b \in past : stat.max = Start(b.slot) + (2 * b.size)
      /\ \A b \in past : stat.min <= Start(b.slot) /\ Start(b.slot) + (2 * b.size) <= stat.max
  BY Zenon, <1>2 DEF LimitsOf
<1>5. Min(Starts) = stat.min
  <2>1. PICK T : T = {Start(b.slot) : b \in past}
    OBVIOUS
  <2>2. T \subseteq Int /\ stat.min \in T /\ \A y \in T : stat.min <= y
    BY Zenon, <1>3, <1>4, <2>1
  <2>3. Starts = T
    BY Zenon, <2>1 DEF Starts, Start
  <2> QED
    BY Zenon, <2>2, <2>3, ExtremesAre
<1>6. Max(Ends) = stat.max
  <2>1. PICK T : T = {Start(b.slot) + (2 * b.size) : b \in past}
    OBVIOUS
  <2>2. T \subseteq Int /\ stat.max \in T /\ \A y \in T : y <= stat.max
    BY Zenon, <1>3, <1>4, <2>1
  <2>3. Ends = T
    BY Zenon, <2>1 DEF Ends, Start
  <2> QED
    BY Zenon, <2>2, <2>3, ExtremesAre
<1> QED
  BY Zenon, <1>1, <1>5, <1>6

(* What Due asks about a pointer.                                          *)
AtStart(p) == p.off = 1 /\ ~p.odd
WasBlock(s) == \E b \in past : b.slot = s
DueOf(p) ==
    IF AtStart(p) /\ IsLive(p.slot) THEN IF p.slot \in wild THEN "wild write" ELSE "freed"
    ELSE IF ~InHeap(p) THEN "not in heap"
    ELSE IF AtStart(p) /\ WasBlock(p.slot) THEN "double free"
    ELSE "not allocated"

(* Due, in the terms that m61_free() compares: min and max are the ends of *)
(* the heap there ever was.                                                *)
LEMMA DueIs ==
    ASSUME Typed, HeapInv, NEW p \in Pointers, p # Null
    PROVE  Due(p) = DueOf(p)
<1>1. PICK a : a = Addr(p)
  OBVIOUS
<1>2. a \in Nat
  BY Zenon, <1>1, AddrIs
<1>3. (past = {} \/ a < Min(Starts) \/ a > Max(Ends)) <=> ~InHeap(p)
  <2>1. CASE past = {}
    <3>1. stat.min = (2 * Span) * Wrap
      BY Zenon, <2>1, LimitsIs DEF HeapInv, LimitsOf
    <3> QED
      BY Zenon, <2>1, <3>1, BelowTop DEF InHeap
  <2>2. CASE past # {}
    <3>1. PICK lo, hi : lo = stat.min /\ hi = stat.max
      OBVIOUS
    <3>2. Min(Starts) = lo /\ Max(Ends) = hi /\ lo \in Int /\ hi \in Int
      BY Zenon, <2>2, <3>1, EndsAre
    <3>3. (a < lo \/ a > hi) <=> ~(lo <= a /\ a <= hi)
      BY <1>2, <3>2
    <3> QED
      BY Zenon, <1>1, <2>2, <3>1, <3>2, <3>3 DEF InHeap
  <2> QED
    BY Zenon, <2>1, <2>2
<1>5. Due(p) = IF AtStart(p) /\ IsLive(p.slot) THEN IF p.slot \in wild THEN "wild write" ELSE "freed"
               ELSE IF past = {} \/ a < Min(Starts) \/ a > Max(Ends) THEN "not in heap"
               ELSE IF AtStart(p) /\ WasBlock(p.slot) THEN "double free"
               ELSE "not allocated"
  BY Zenon, <1>1 DEF Due, AtStart, WasBlock, Starts, Ends
<1> QED
  BY Zenon, <1>3, <1>5 DEF DueOf

(* What m61_free() does, check by check. *)
Chain(p, h) ==
    IF ~InHeap(p) THEN Says("not in heap", p, {})
    ELSE IF p.odd \/ h.is # "header"
    THEN Says("not allocated", p, {s \in BlocksListed : Contains(s, p)})
    ELSE IF h.tag = "freed" THEN Says("double free", p, {})
    ELSE IF ~Unlinks(h, p) THEN Says("not allocated", p, {})
    ELSE IF Cell(p.slot, p.off + h.size) # Foot THEN Says("wild write", p, {})
    ELSE Says("freed", p, {})

(* A call goes through them.                                               *)
LEMMA ChainIs ==
    ASSUME NEW p, p # Null, Free(p)
    PROVE  Chain(p, Cell(p.slot, p.off - 1))
<1>1. PICK h : h = Cell(p.slot, p.off - 1)
  OBVIOUS
<1>2. Chain(p, h)
  BY Zenon, <1>1 DEF Free, Chain, InHeap
<1> QED
  BY Zenon, <1>1, <1>2

(* The blocks that contain a pointer: the one of its slot, if it is live.   *)
LEMMA AroundIs ==
    ASSUME Typed, HeapInv, NEW p \in Pointers, p # Null
    PROVE  {s \in BlocksListed : Contains(s, p)} = Around(p)
<1>1. ListFacts
  BY Zenon, ListIs DEF HeapInv
<1>2. \A s : s \in BlocksListed <=> IsLive(s)
  BY Zenon, ListedAre
<1>3. PICK a : a = Addr(p)
  OBVIOUS
<1>4. ASSUME NEW i \in 1..Len(live)
      PROVE  /\ Contains(live[i].slot, p) <=>
                   Start(live[i].slot) <= a /\ a < Start(live[i].slot) + (2 * live[i].size)
             /\ live[i].slot \in Slots /\ live[i].size \in 0..Span - 2
  <2>1. mem[live[i].slot][0].size = live[i].size
    BY Zenon DEF HeapInv, HeadersRight
  <2>2. live[i].slot \in Slots /\ live[i].size \in 0..Span - 2
    BY ZenonT(90), <1>1, SizesAre DEF ListFacts
  <2> QED
    BY Zenon, <1>3, <2>1, <2>2 DEF Contains, Start
<1>5. ASSUME NEW s, s \in BlocksListed, Contains(s, p) PROVE s \in Around(p)
  <2>1. PICK i \in 1..Len(live) : live[i].slot = s
    BY Zenon, <1>2, <1>5 DEF IsLive
  <2>2. Start(s) <= a /\ a < Start(s) + (2 * live[i].size) /\ s \in Slots /\ live[i].size \in 0..Span - 2
    BY Zenon, <1>4, <1>5, <2>1
  <2>3. s = p.slot
    BY Zenon, <1>3, <2>2, InsideIs
  <2> QED
    BY Zenon, <1>3, <2>1, <2>2, <2>3 DEF Around, Start
<1>6. ASSUME NEW s, s \in Around(p) PROVE s \in BlocksListed /\ Contains(s, p)
  <2>1. PICK i \in 1..Len(live) : /\ s = live[i].slot /\ live[i].slot = p.slot
                                  /\ Start(p.slot) <= a /\ a < Start(p.slot) + (2 * live[i].size)
    BY Zenon, <1>3, <1>6 DEF Around, Start
  <2>2. IsLive(s)
    BY Zenon, <2>1 DEF IsLive
  <2>3. Contains(s, p)
    BY Zenon, <1>4, <2>1
  <2> QED
    BY Zenon, <1>2, <2>2, <2>3
<1> QED
  BY Zenon, <1>5, <1>6

(* The call's verdict is the one due.                                      *)
Judged(p, w, inside) == /\ w = DueOf(p)
                        /\ w = "not allocated" /\ ~Faked(p) => inside = Around(p)

(* m61_free()'s verdict on any pointer but a null pointer is the one due,  *)
(* whatever was written: by cases of where the pointer leads.              *)
LEMMA FreeJudged ==
    ASSUME Typed, HeapInv, NEW p \in Pointers, p # Null, Free(p)
    PROVE  Judged(p, said'.what, said'.inside)
<1>1. PICK h : h = Cell(p.slot, p.off - 1)
  OBVIOUS
<1>2. Chain(p, h)
  BY Zenon, <1>1, ChainIs
<1>3. PICK w, I : w = said'.what /\ I = said'.inside
  OBVIOUS
<1>4. /\ p.slot \in Places /\ p.off \in 1..3 /\ p.odd \in BOOLEAN /\ (p.odd => p.off = 2)
  BY Zenon, PointersAre
<1>5. h = mem[p.slot][p.off - 1] /\ p.off - 1 \in 0..Span - 1 /\ (p.off # 1 => p.off - 1 \in 1..Span - 1)
  <2>1. p.off - 1 \in 0..Span - 1 /\ (p.off # 1 => p.off - 1 \in 1..Span - 1)
    <3>1. PICK o : o = p.off
      OBVIOUS
    <3>2. o \in 1..3
      BY Zenon, <1>4, <3>1
    <3>3. o - 1 \in 0..Span - 1 /\ (o # 1 => o - 1 \in 1..Span - 1)
      BY <3>2, SpanIs
    <3> QED
      BY Zenon, <3>1, <3>3
  <2> QED
    BY Zenon, <1>1, <2>1 DEF Cell
<1>6. ListFacts
  BY Zenon, ListIs DEF HeapInv
<1>7. Blocks(mem, past) /\ Insides(mem) /\ \A u \in Slots : mem[u][0].is = "header" /\ ~IsLive(u) => Stale(mem, u)
  BY Zenon, StaleIs DEF HeapInv
<1>8. CASE AtStart(p) /\ IsLive(p.slot)
  <2>1. PICK j \in 1..Len(live) : At(j) = p.slot
    BY Zenon, <1>6, <1>8 DEF ListFacts
  <2>2. /\ HeaderAt(mem, At(j)) /\ mem[At(j)][0].prev = At(j - 1) /\ mem[At(j)][0].next = At(j + 1)
        /\ mem[At(j - 1)][0].next = At(j) /\ mem[At(j + 1)][0].prev = At(j)
        /\ Right(live[j], mem[At(j)][0], mem, past, wild) /\ live[j].slot = At(j)
    BY Zenon, BlockAt
  <2>3. p.off = 1 /\ ~p.odd
    BY Zenon, <1>8 DEF AtStart
  <2>4. h = mem[At(j)][0]
    <3>1. p.off - 1 = 0
      BY <2>3
    <3> QED
      BY Zenon, <1>5, <2>1, <3>1
  <2>5. /\ h.is = "header" /\ h.tag = "live" /\ h.size = live[j].size
        /\ [slot |-> At(j), size |-> live[j].size] \in past
        /\ (mem[At(j)][live[j].size + 1] = Foot <=> At(j) \notin wild)
    BY Zenon, <2>2, <2>4 DEF Right
  <2>6. InHeap(p)
    <3>1. PICK b, z : b = [slot |-> At(j), size |-> live[j].size] /\ z = live[j].size
      OBVIOUS
    <3>2. b \in past /\ b.slot = At(j) /\ b.size = z
      <4>1. b \in past
        BY Zenon, <2>5, <3>1
      <4> QED
        BY <3>1, <4>1
    <3>3. stat.min <= Start(At(j)) /\ Start(At(j)) + (2 * z) <= stat.max
      BY Zenon, <3>2, LimitsIs DEF HeapInv, LimitsOf
    <3>4. Addr(p) = Start(At(j)) /\ Addr(p) \in Nat
      BY Zenon, <2>1, <2>3, AddrIs
    <3>5. z \in Nat
      BY Zenon, <3>1, SizesAre
    <3>6. stat.max \in Int
      BY TypedParts DEF Stats
    <3>7. PICK a, m : a = Addr(p) /\ m = stat.max
      OBVIOUS
    <3>8. a \in Nat /\ m \in Int /\ a + (2 * z) <= m
      BY Zenon, <3>3, <3>4, <3>6, <3>7
    <3>9. a <= m
      BY <3>5, <3>8
    <3> QED
      BY Zenon, <3>3, <3>4, <3>7, <3>9 DEF InHeap
  <2>7. Unlinks(h, p)
    BY Zenon, <2>1, <2>2, <2>3, <2>4 DEF Unlinks
  <2>8. Cell(p.slot, p.off + h.size) = mem[At(j)][live[j].size + 1]
    <3>1. PICK z : z = live[j].size
      OBVIOUS
    <3>2. z \in 0..Span - 2
      BY Zenon, <3>1, SizesAre
    <3>3. 1 + z = z + 1 /\ z + 1 \in 0..Span - 1
      BY <3>2, SpanIs
    <3>4. p.off + h.size = z + 1
      BY Zenon, <2>3, <2>5, <3>1, <3>3
    <3> QED
      BY Zenon, <2>1, <3>1, <3>3, <3>4 DEF Cell
  <2>9. "live" # "freed" /\ "wild write" # "not allocated" /\ "freed" # "not allocated"
    OBVIOUS
  <2>10. CASE p.slot \in wild
    <3>1. Says("wild write", p, {})
      BY Zenon, <1>2, <2>1, <2>3, <2>5, <2>6, <2>7, <2>8, <2>9, <2>10 DEF Chain
    <3>2. w = "wild write"
      BY Zenon, <1>3, <3>1, SaysIs
    <3> QED
      BY Zenon, <1>3, <1>8, <2>9, <2>10, <3>2 DEF Judged, DueOf
  <2>11. CASE p.slot \notin wild
    <3>1. Says("freed", p, {})
      BY Zenon, <1>2, <2>1, <2>3, <2>5, <2>6, <2>7, <2>8, <2>9, <2>11 DEF Chain
    <3>2. w = "freed"
      BY Zenon, <1>3, <3>1, SaysIs
    <3> QED
      BY Zenon, <1>3, <1>8, <2>9, <2>11, <3>2 DEF Judged, DueOf
  <2> QED
    BY Zenon, <2>10, <2>11
<1>9. CASE ~(AtStart(p) /\ IsLive(p.slot)) /\ ~InHeap(p)
  <2>1. w = "not in heap" /\ "not in heap" # "not allocated"
    <3>1. Says("not in heap", p, {})
      BY Zenon, <1>2, <1>9 DEF Chain
    <3>2. "not in heap" # "not allocated"
      OBVIOUS
    <3> QED
      BY Zenon, <1>3, <3>1, <3>2, SaysIs
  <2> QED
    BY Zenon, <1>3, <1>9, <2>1 DEF Judged, DueOf
<1>10. CASE ~(AtStart(p) /\ IsLive(p.slot)) /\ InHeap(p)
  <2>1. AtStart(p) => p.slot \in Slots /\ h = mem[p.slot][0]
    <3>1. SUFFICES ASSUME AtStart(p) PROVE p.slot \in Slots /\ h = mem[p.slot][0]
      OBVIOUS
    <3>2. p.off - 1 = 0
      BY <3>1 DEF AtStart
    <3>3. Addr(p) = Start(p.slot)
      BY Zenon, <3>1, AddrIs DEF AtStart
    <3>4. stat.min <= Addr(p)
      BY Zenon, <1>10 DEF InHeap
    <3>5. LimitsOf(stat.min, stat.max, past) /\ past \subseteq [slot : Slots, size : 0..Span - 2]
      BY Zenon, LimitsIs, TypedParts DEF HeapInv
    <3>6. p.slot # 0
      BY Zenon, <3>3, <3>4, <3>5, AboveFirst
    <3>7. p.slot \in Slots
      BY <1>4, <3>6 DEF Places
    <3> QED
      BY Zenon, <1>5, <3>2, <3>7
  <2>2. CASE p.odd \/ h.is # "header"
    <3>1. Says("not allocated", p, {s \in BlocksListed : Contains(s, p)})
      BY Zenon, <1>2, <1>10, <2>2 DEF Chain
    <3>2. w = "not allocated" /\ I = Around(p)
      BY Zenon, <1>3, <3>1, SaysIs, AroundIs
    <3>3. ~(AtStart(p) /\ WasBlock(p.slot))
      BY Zenon, <1>7, <2>1, <2>2 DEF AtStart, Blocks, WasBlock
    <3> QED
      BY Zenon, <1>3, <1>10, <3>2, <3>3 DEF Judged, DueOf
  <2>3. CASE ~p.odd /\ h.is = "header"
    <3>1. Faked(p)
      BY Zenon, <1>1, <2>3 DEF Faked, IsHeader
    <3>2. CASE ~AtStart(p)
      <4>1. p.off # 1
        BY Zenon, <2>3, <3>2 DEF AtStart
      <4>2. h.tag = "live" /\ "live" # "freed"
        <5>1. "live" # "freed"
          OBVIOUS
        <5> QED
          BY Zenon, <1>4, <1>5, <1>7, <2>3, <4>1, <5>1 DEF Insides
      <4>3. ~Unlinks(h, p)
        BY Zenon, <4>1 DEF Unlinks
      <4>4. Says("not allocated", p, {})
        BY Zenon, <1>2, <1>10, <2>3, <4>2, <4>3 DEF Chain
      <4>5. w = "not allocated"
        BY Zenon, <1>3, <4>4, SaysIs
      <4> QED
        BY Zenon, <1>3, <1>10, <3>1, <3>2, <4>5 DEF Judged, DueOf
    <3>3. CASE AtStart(p)
      <4>1. /\ p.slot \in Slots /\ h = mem[p.slot][0] /\ ~IsLive(p.slot) /\ WasBlock(p.slot)
        BY Zenon, <1>7, <1>10, <2>1, <2>3, <3>3 DEF Blocks, WasBlock
      <4>2. Stale(mem, p.slot)
        BY Zenon, <1>7, <2>3, <4>1
      <4>3. "double free" # "not allocated"
        OBVIOUS
      <4>4. h.tag = "freed"
        BY Zenon, <4>1, <4>2 DEF Stale
      <4>5. Says("double free", p, {})
        BY Zenon, <1>2, <1>10, <2>3, <4>4 DEF Chain
      <4>6. w = "double free"
        BY Zenon, <1>3, <4>5, SaysIs
      <4> QED
        BY Zenon, <1>3, <1>10, <3>3, <4>1, <4>3, <4>6 DEF Judged, DueOf
    <3> QED
      BY Zenon, <3>2, <3>3
  <2> QED
    BY Zenon, <2>2, <2>3
<1> QED
  BY Zenon, <1>8, <1>9, <1>10

(* Freeing a null pointer says nothing.                                    *)
LEMMA NullJudged ==
    ASSUME Free(Null)
    PROVE  said'.what = "nothing" /\ said'.ptr = Null /\ Due(Null) = "nothing"
<1>1. Says("nothing", Null, {})
  BY Zenon DEF Free
<1> QED
  BY Zenon, <1>1, SaysIs DEF Due

(* A verdict is about the pointer that was passed.                         *)
LEMMA FreePtr ==
    ASSUME NEW p, Free(p)
    PROVE  said'.ptr = p
<1>1. \E w, i : Says(w, p, i)
  <2>1. CASE p = Null
    BY Zenon, <2>1 DEF Free
  <2>2. CASE p # Null
    BY Zenon, <2>2 DEF Free
  <2> QED
    BY Zenon, <2>1, <2>2
<1> QED
  BY Zenon, <1>1, SaysIs

------------------------------------------------------------------------------
(* Refused calls, copies, and old headers put back.                         *)

(* The refused calls are counted, and their sizes do not wrap.             *)
RefusedRight ==
    /\ refused \in Costs /\ stat.fails = refused.calls /\ stat.failed = refused.bytes
    /\ program = "heap" => refused.bytes + (2 * UintMax * todo) < Wrap

(* What a copy holds of header h of the block in slot s while it is        *)
(* current: it is the block's, or the one that it had when it was freed;   *)
(* what were its neighbours are still neighbours of each other then.       *)
CopyOf(m, s, h, held) ==
    /\ h.is = "header" /\ h.tag = "live" /\ h.prev \in Places /\ h.next \in Places
    /\ h.prev # s /\ h.next # s /\ (h.prev # s + 1 \/ h.next # s + 1)
    /\ held => m[s][0] = h
    /\ ~held => m[h.prev][0].next = h.next /\ m[h.next][0].prev = h.prev
CopyRight ==
    current => /\ saved.slot \in Slots /\ WasBlock(saved.slot)
               /\ CopyOf(mem, saved.slot, saved.row[0], IsLive(saved.slot))

(* Once put back, a header whose copy was current fails the check of the   *)
(* list: its neighbours do not both lead to it.                            *)
Refutable(m, s) ==
    /\ m[s][0].is = "header" /\ m[s][0].tag = "live"
    /\ ~(m[m[s][0].prev][0].next = s /\ m[m[s][0].next][0].prev = s)
Shaped(st) == st = [f \in DOMAIN st |-> st[f]] /\ {"total", "mallocs"} \subseteq DOMAIN st
RestoredRight ==
    /\ program = "heap" /\ said.what # "report" /\ HeavyHittersFound /\ Shaped(stat)
    /\ current => /\ saved.slot \in Slots /\ InHeap(Payload(saved.slot))
                  /\ Refutable(mem, saved.slot)

(* The whole invariant, before and after old headers are put back.         *)
Sound == /\ ~restored => IInv /\ RefusedRight /\ CopyRight
         /\ restored => RestoredRight

(* A step that changes neither keeps what is said of refusals.             *)
LEMMA RefusedSame ==
    ASSUME RefusedRight, stat'.fails = stat.fails, stat'.failed = stat.failed, refused' = refused,
           program' = program, todo \in Nat, todo' \in Nat, todo' <= todo
    PROVE  RefusedRight'
<1>1. PICK a, u, k, l, w : a = refused.bytes /\ u = 2 * UintMax /\ k = todo /\ l = todo' /\ w = Wrap
  OBVIOUS
<1>2. a \in Nat /\ u \in Nat /\ k \in Nat /\ l \in Nat /\ w \in Nat /\ l <= k
  BY <1>1, HeapAssumption DEF RefusedRight, Costs
<1>3. u * l <= u * k /\ u * l \in Nat /\ u * k \in Nat
  BY ONLY <1>2
<1>4. a + (u * k) < w => a + (u * l) < w
  BY ONLY <1>2, <1>3
<1> QED
  BY Zenon, <1>1, <1>4 DEF RefusedRight

(* A call that is refused adds one, and its size.                          *)
LEMMA RefusedMore ==
    ASSUME Typed, RefusedRight, NEW sz \in Nat, sz <= 2 * UintMax, Failed(sz), Refused(sz), Counted,
           program' = program, program = "heap"
    PROVE  RefusedRight'
<1>1. PICK a, c, u, k, w, r, st : /\ a = refused.bytes /\ c = refused.calls /\ u = 2 * UintMax
                                  /\ k = todo /\ w = Wrap /\ r = refused' /\ st = stat'
  OBVIOUS
<1>2. a \in Nat /\ c \in Nat /\ u \in Nat /\ k \in Nat /\ k > 0 /\ w \in Nat /\ sz <= u
  BY <1>1, HeapAssumption DEF RefusedRight, Costs, Typed, Counted
<1>3. a + (u * k) < w
  BY Zenon, <1>1 DEF RefusedRight
<1>4. u * (k - 1) = (u * k) - u /\ u * k \in Nat
  BY ONLY <1>2
<1>5. a + sz \in Nat /\ a + sz < w /\ (a + sz) + (u * (k - 1)) < w
  <2>1. k - 1 \in Nat
    BY ONLY <1>2
  <2>2. PICK x, y : x = u * k /\ y = u * (k - 1)
    OBVIOUS
  <2>3. y \in Nat
    BY ONLY <1>2, <2>1, <2>2
  <2> QED
    BY ONLY <1>2, <1>3, <1>4, <2>2, <2>3
<1>6. (a + sz) % w = a + sz
  BY Zenon, <1>2, <1>5, ModSmall
<1>7. r = [bytes |-> a + sz, calls |-> c + 1]
  BY Zenon, <1>1 DEF Refused
<1>8. r \in Costs /\ r.bytes = a + sz /\ r.calls = c + 1
  BY ONLY <1>2, <1>7 DEF Costs
<1>9. st.fails = c + 1 /\ st.failed = a + sz
  <2>1. PICK x, y : x = stat.fails + 1 /\ y = (stat.failed + sz) % Wrap
    OBVIOUS
  <2>2. st = [stat EXCEPT !.fails = x, !.failed = y] /\ stat \in Stats
    BY Zenon, <1>1, <2>1, TypedParts DEF Failed
  <2>3. st.fails = x /\ st.failed = y
    BY ONLY <2>2 DEF Stats
  <2>4. stat.fails = c /\ stat.failed = a
    BY Zenon, <1>1 DEF RefusedRight
  <2> QED
    BY Zenon, <1>1, <1>6, <2>1, <2>3, <2>4
<1>10. todo' = k - 1
  BY Zenon, <1>1 DEF Counted
<1> QED
  BY Zenon, <1>1, <1>5, <1>8, <1>9, <1>10 DEF RefusedRight

(* So the count of refusals is right after every step.                     *)
LEMMA RefusedKeeps ==
    ASSUME IInv, RefusedRight, Stepping, program' = program
    PROVE  RefusedRight'
<1>1. Typed /\ HeapInv /\ stat \in Stats /\ todo \in Nat /\ program \in Programs
  BY Zenon, TypedParts DEF IInv
<1>2. Counted => todo' \in Nat /\ todo' <= todo
  BY <1>1 DEF Counted
<1>3. CASE Allocating
  <2>1. PICK s \in Slots, sz \in Nat, site \in Sites :
           Sized(sz) /\ Malloc(s, sz, site) /\ Noted(s, sz, site)
    BY Zenon, <1>3 DEF Allocating
  <2>2. CASE sz < UintMax
    <3>1. Charged(s, sz, site, stat')
      BY Zenon, <1>1, <2>1, <2>2, AllocatedIs
    <3>2. ~(sz >= UintMax)
      BY <2>2, HeapAssumption
    <3>3. refused' = refused
      BY <2>1, <3>2 DEF Noted
    <3>4. stat'.fails = stat.fails /\ stat'.failed = stat.failed
      <4>1. PICK a, b, c : a = stat.mallocs + 1 /\ b = (stat.active + sz) % Wrap /\ c = (stat.total + sz) % Wrap
        OBVIOUS
      <4>2. PICK k : k = stat'
        OBVIOUS
      <4>3. k = [stat EXCEPT !.mallocs = a, !.active = b, !.total = c, !.min = k.min, !.max = k.max]
        BY Zenon, <3>1, <4>1, <4>2 DEF Charged
      <4> QED
        <5>1. stat \in Stats
          BY Zenon, <1>1
        <5>2. k.fails = stat.fails /\ k.failed = stat.failed
          BY ONLY <4>3, <5>1 DEF Stats
        <5> QED
          BY Zenon, <4>2, <5>2
    <3> QED
      BY Zenon, <1>1, <1>2, <1>3, <3>3, <3>4, RefusedSame DEF Allocating
  <2>3. CASE ~(sz < UintMax)
    <3>1. sz >= UintMax
      BY <2>3, HeapAssumption
    <3>2. Failed(sz) /\ Refused(sz)
      BY Zenon, <2>1, <2>3, <3>1 DEF Malloc, Noted
    <3>3. program = "heap" /\ sz <= 2 * UintMax
      <4>1. program # "hhtest" /\ sz <= 2 * UintMax
        BY Zenon, <2>1, <2>3 DEF Sized
      <4> QED
        BY <1>1, <4>1 DEF Programs
    <3> QED
      BY Zenon, <1>1, <1>3, <3>2, <3>3, RefusedMore DEF Allocating
  <2> QED
    BY Zenon, <2>2, <2>3
<1>4. CASE Refusing
  <2>1. 0 \in Nat /\ 0 <= 2 * UintMax
    BY HeapAssumption
  <2> QED
    BY Zenon, <1>1, <1>4, <2>1, RefusedMore DEF Refusing
<1>5. CASE Erring \/ Saving
  <2>1. stat' = stat /\ refused' = refused /\ Counted
    BY <1>5 DEF Erring, Saving, CopyInto, Overrun, Save, m61Vars
  <2> QED
    BY Zenon, <1>1, <1>2, <2>1, RefusedSame
<1>6. CASE Freeing
  <2>1. PICK p \in Pointers : FreeNoted(p)
    BY Zenon, <1>6 DEF Freeing
  <2>2. Free(p) /\ todo' = todo /\ refused' = refused /\ todo <= todo
    BY <1>1, <2>1 DEF FreeNoted
  <2>3. stat'.fails = stat.fails /\ stat'.failed = stat.failed
    <3>1. CASE said'.what = "freed"
      <4>1. PICK j : FreesBlock(p, j)
        BY Zenon, <1>1, <2>2, <3>1, FreesLive
      <4>2. PICK a, b : a = stat.frees + 1 /\ b = (stat.active - live[j].size) % Wrap
        OBVIOUS
      <4>3. PICK k : k = stat'
        OBVIOUS
      <4>4. k = [stat EXCEPT !.frees = a, !.active = b] /\ stat \in Stats
        BY Zenon, <1>1, <4>1, <4>2, <4>3 DEF FreesBlock
      <4>5. k.fails = stat.fails /\ k.failed = stat.failed
        BY ONLY <4>4 DEF Stats
      <4> QED
        BY Zenon, <4>3, <4>5
    <3>2. CASE said'.what # "freed"
      <4>1. UNCHANGED <<mem, lent, spare, stat>>
        BY Zenon, <2>2, <3>2, FreeSays
      <4> QED
        BY <4>1
    <3> QED
      BY Zenon, <3>1, <3>2
  <2> QED
    BY Zenon, <1>1, <2>2, <2>3, RefusedSame
<1>7. CASE Reporting
  <2>1. stat' = stat /\ refused' = refused /\ todo' = todo /\ todo <= todo
    BY <1>1, <1>7 DEF Reporting, PrintHeavyHitters
  <2> QED
    BY Zenon, <1>1, <2>1, RefusedSame
<1> QED
  BY Zenon, <1>3, <1>4, <1>5, <1>6, <1>7 DEF Stepping

(* A copy stays as good as it was while headers, the list and copies stay. *)
LEMMA CopySame ==
    ASSUME CopyRight, \A u \in Places : mem'[u][0] = mem[u][0], Slots \subseteq Places,
           live' = live, past' = past, saved' = saved, current' => current
    PROVE  CopyRight'
<1> SUFFICES ASSUME current' PROVE CopyRight'
  BY Zenon DEF CopyRight
<1>1. PICK s, h : s = saved.slot /\ h = saved.row[0]
  OBVIOUS
<1>2. s \in Slots /\ s \in Places /\ WasBlock(s) /\ CopyOf(mem, s, h, IsLive(s))
  BY Zenon, <1>1 DEF CopyRight
<1>3. WasBlock(s)' /\ (IsLive(s)' <=> IsLive(s))
  BY Zenon, <1>2 DEF WasBlock, IsLive
<1>4. CopyOf(mem', s, h, IsLive(s)')
  BY Zenon, <1>2, <1>3 DEF CopyOf
<1>5. s' = s /\ saved'.slot = s /\ saved'.row[0] = h
  BY Zenon, <1>1
<1> QED
  BY Zenon, <1>2, <1>3, <1>4, <1>5 DEF CopyRight, WasBlock, IsLive

(* Writing to other cells of a slot than the first keeps all first cells.  *)
HeadersKept(k, m) == \A u \in Places : k[u][0] = m[u][0]
OneCell(m, s, o, c) == [m EXCEPT ![s][o] = c]
TwoCells(m, s, c, d) == [m EXCEPT ![s] = [@ EXCEPT ![1] = c, ![2] = d]]
LEMMA CellKept ==
    ASSUME NEW m \in MemType, NEW s \in Places, NEW o \in Nat \ {0}, NEW c
    PROVE  HeadersKept(OneCell(m, s, o, c), m)
<1>1. PICK r, a, k : r = m[s] /\ a = [r EXCEPT ![o] = c] /\ k = OneCell(m, s, o, c)
  OBVIOUS
<1>2. r \in [0..Span - 1 -> CellType]
  BY Zenon, <1>1 DEF MemType
<1>3. a[0] = r[0]
  BY <1>1, <1>2, SpanIs
<1>4. k = [m EXCEPT ![s] = [m[s] EXCEPT ![o] = c]]
  BY Zenon, <1>1 DEF OneCell
<1>5. \A u \in Places : k[u] = IF u = s THEN [m[s] EXCEPT ![o] = c] ELSE m[u]
  BY Zenon, <1>4 DEF MemType
<1>6. \A u \in Places : k[u][0] = m[u][0]
  BY Zenon, <1>1, <1>3, <1>5
<1> QED
  BY Zenon, <1>1, <1>6 DEF HeadersKept

LEMMA CellsKept ==
    ASSUME NEW m \in MemType, NEW s \in Places, NEW c, NEW d
    PROVE  HeadersKept(TwoCells(m, s, c, d), m)
<1>1. PICK r, a, k : r = m[s] /\ a = [r EXCEPT ![1] = c, ![2] = d] /\ k = TwoCells(m, s, c, d)
  OBVIOUS
<1>2. r \in [0..Span - 1 -> CellType]
  BY Zenon, <1>1 DEF MemType
<1>3. a[0] = r[0]
  BY <1>1, <1>2, SpanIs
<1>4. k = [m EXCEPT ![s] = [m[s] EXCEPT ![1] = c, ![2] = d]]
  BY Zenon, <1>1 DEF TwoCells
<1>5. \A u \in Places : k[u] = IF u = s THEN [m[s] EXCEPT ![1] = c, ![2] = d] ELSE m[u]
  BY Zenon, <1>4 DEF MemType
<1>6. \A u \in Places : k[u][0] = m[u][0]
  BY Zenon, <1>1, <1>3, <1>5
<1> QED
  BY Zenon, <1>1, <1>6 DEF HeadersKept

(* Neither wrong write reaches cell 0.                                     *)
LEMMA HeadersSpared ==
    ASSUME Typed, HeapInv, NEW s \in Slots, IsLive(s), Overrun(s) \/ \E t \in Slots : CopyInto(s, t)
    PROVE  \A u \in Places : mem'[u][0] = mem[u][0]
<1>1. ListFacts /\ mem \in MemType
  BY Zenon, ListIs, TypedParts DEF HeapInv
<1>2. s \in Places
  BY Zenon, <1>1 DEF ListFacts
<1>3. CASE Overrun(s)
  <2>1. PICK j \in 1..Len(live) : At(j) = s
    BY Zenon, <1>1 DEF ListFacts
  <2>2. Right(live[j], mem[s][0], mem, past, wild)
    BY Zenon, <2>1, BlockAt
  <2>3. PICK o : o = mem[s][0].size + 1
    OBVIOUS
  <2>4. o \in Nat \ {0}
    <3>1. mem[s][0].size = live[j].size /\ live[j].size \in Nat
      BY Zenon, <1>1, <2>1, <2>2, SizesAre DEF Right, HeapInv
    <3> QED
      BY <2>3, <3>1
  <2>5. mem' = OneCell(mem, s, o, Junk)
    BY Zenon, <1>3, <2>3 DEF Overrun, OneCell
  <2>6. HeadersKept(OneCell(mem, s, o, Junk), mem)
    BY Zenon, <1>1, <1>2, <2>4, CellKept
  <2> QED
    BY Zenon, <2>5, <2>6 DEF HeadersKept
<1>4. CASE \E t \in Slots : CopyInto(s, t)
  <2>1. PICK t \in Slots : CopyInto(s, t)
    BY Zenon, <1>4
  <2>2. mem' = TwoCells(mem, s, mem[t][0], mem[t][1])
    BY Zenon, <2>1 DEF CopyInto, TwoCells
  <2>3. HeadersKept(TwoCells(mem, s, mem[t][0], mem[t][1]), mem)
    BY Zenon, <1>1, <1>2, CellsKept
  <2> QED
    BY Zenon, <2>2, <2>3 DEF HeadersKept
<1> QED
  BY Zenon, <1>3, <1>4

(* A copy is good when it is made.                                         *)
LEMMA CopyMade ==
    ASSUME Typed, HeapInv, NEW s \in Slots, IsLive(s), Save(s)
    PROVE  CopyRight'
<1>1. ListFacts
  BY Zenon, ListIs DEF HeapInv
<1>2. PICK j \in 1..Len(live) : At(j) = s
  BY Zenon, <1>1 DEF ListFacts
<1>3. PICK h, pv, nx, n : h = mem[s][0] /\ pv = At(j - 1) /\ nx = At(j + 1) /\ n = Len(live)
  OBVIOUS
<1>4. /\ h.is = "header" /\ h.prev = pv /\ h.next = nx /\ pv \in Places /\ nx \in Places
      /\ Right(live[j], h, mem, past, wild) /\ live[j].slot = s
  BY Zenon, <1>2, <1>3, BlockAt DEF HeaderAt
<1>5. h.tag = "live" /\ WasBlock(s)
  <2>1. PICK b : b = [slot |-> s, size |-> live[j].size]
    OBVIOUS
  <2>2. h.tag = "live" /\ b \in past
    BY Zenon, <1>4, <2>1 DEF Right
  <2>3. b.slot = s
    BY ONLY <2>1
  <2> QED
    BY Zenon, <2>2, <2>3 DEF WasBlock
<1>6. n \in Nat /\ j \in 1..n
  BY Zenon, <1>1, <1>2, <1>3 DEF ListFacts
<1>7. Spread(n)
  BY Zenon, <1>1, <1>3, Apart
<1>8. /\ j - 1 \in 0..n /\ j \in 0..n /\ j - 1 # j /\ j + 1 \in 1..n + 1 /\ j \in 1..n + 1 /\ j + 1 # j
      /\ (j - 1 = 0 \/ j - 1 \in 1..n) /\ (j + 1 = n + 1 \/ j + 1 \in 1..n) /\ j - 1 # j + 1
  BY ONLY <1>6
<1>9. pv # s /\ nx # s
  BY Zenon, <1>2, <1>3, <1>7, <1>8 DEF Spread
<1>10. pv # s + 1 \/ nx # s + 1
  <2> SUFFICES ASSUME pv = s + 1, nx = s + 1 PROVE FALSE
    BY Zenon
  <2>1. s + 1 # 0
    BY HeapAssumption
  <2>2. j - 1 \in 1..n /\ j + 1 \in 1..n
    BY Zenon, <1>1, <1>3, <1>8, <2>1 DEF ListFacts
  <2>3. At(j - 1) = At(j + 1)
    BY Zenon, <1>3
  <2>4. j - 1 = j + 1
    BY Zenon, <1>1, <1>3, <2>2, <2>3 DEF ListFacts
  <2> QED
    BY Zenon, <1>8, <2>4
<1>11. mem' = mem /\ past' = past /\ live' = live /\ saved' = Copy(s)
  BY DEF Save, m61Vars
<1>12. saved'.slot = s /\ saved'.row[0] = h
  <2>1. PICK c, r, b : c = saved' /\ r = mem[s] /\ b = (IF s + 1 \in Slots THEN mem[s + 1][0] ELSE Junk)
    OBVIOUS
  <2>2. c = [slot |-> s, row |-> r, behind |-> b]
    BY Zenon, <1>11, <2>1 DEF Copy
  <2>3. c.slot = s /\ c.row = r
    BY ONLY <2>2
  <2> QED
    BY Zenon, <1>3, <2>1, <2>3
<1>13. CopyOf(mem', s, h, IsLive(s)')
  BY Zenon, <1>3, <1>4, <1>5, <1>9, <1>10, <1>11 DEF CopyOf, IsLive
<1> QED
  BY Zenon, <1>5, <1>11, <1>12, <1>13 DEF CopyRight, WasBlock, IsLive

(* What a call that frees leaves: the block off the list, its neighbours    *)
(* linked to each other.                                                    *)
LEMMA FreedAway ==
    ASSUME Typed, HeapInv, NEW j, NEW p, FreesBlock(p, j), live' = Without(At(j)),
           past' = past, wild' = wild
    PROVE  \A u : IsLive(u)' <=> IsLive(u) /\ u # At(j)
<1>1. j \in 1..Len(live) /\ FreedAs(mem', At(j), At(j - 1), At(j + 1)) /\ live \in Seq(BlockType) /\ ListFacts
  BY Zenon, ListIs, TypedParts DEF FreesBlock, HeapInv
<1>2. PICK n : n = Len(live)
  OBVIOUS
<1>3. Gone(n, j)
  BY Zenon, <1>1, <1>2, RemovedIs DEF Gone
<1> QED
  BY Zenon, <1>3, FreeHeaders

(* A call of m61_free() leaves a copy good: of the block it frees, the      *)
(* copy now has the old links; another block's ages.                        *)
LEMMA CopyFreed ==
    ASSUME Typed, HeapInv, CopyRight, NEW p \in Pointers, FreeNoted(p)
    PROVE  CopyRight'
<1>1. ListFacts /\ mem \in MemType
  BY Zenon, ListIs, TypedParts DEF HeapInv
<1>2. /\ Free(p) /\ past' = past /\ wild' = wild /\ saved' = saved
      /\ live' = IF said'.what = "freed" /\ IsLive(p.slot) THEN Without(p.slot) ELSE live
      /\ current' = (current /\ (said'.what = "freed" => p.slot = saved.slot))
  BY DEF FreeNoted
<1>3. CASE said'.what # "freed"
  <2>1. mem' = mem
    <3>1. UNCHANGED <<mem, lent, spare, stat>>
      BY Zenon, <1>2, <1>3, FreeSays
    <3> QED
      BY <3>1
  <2> QED
    BY Zenon, <1>1, <1>2, <1>3, <2>1, CopySame DEF ListFacts
<1>4. CASE said'.what = "freed" /\ current'
  <2>1. PICK j : FreesBlock(p, j)
    BY Zenon, <1>2, <1>4, FreesLive
  <2>2. PICK s, h, pv, nx : s = saved.slot /\ h = saved.row[0] /\ pv = At(j - 1) /\ nx = At(j + 1)
    OBVIOUS
  <2>3. current /\ p.slot = s
    BY Zenon, <1>2, <1>4, <2>2
  <2>4. s = At(j) /\ j \in 1..Len(live) /\ FreedAs(mem', s, pv, nx)
    BY Zenon, <2>1, <2>2, <2>3 DEF FreesBlock
  <2>5. IsLive(s)
    BY Zenon, <1>1, <2>4 DEF ListFacts
  <2>6. s \in Slots /\ WasBlock(s) /\ CopyOf(mem, s, h, IsLive(s))
    BY Zenon, <2>2, <2>3 DEF CopyRight
  <2>7. mem[s][0] = h
    BY Zenon, <2>5, <2>6 DEF CopyOf
  <2>8. h.prev = pv /\ h.next = nx /\ pv \in Places /\ nx \in Places
    BY Zenon, <2>2, <2>4, <2>7, BlockAt
  <2>9. mem'[pv][0].next = nx /\ mem'[nx][0].prev = pv
    BY Zenon, <2>4, <2>8 DEF FreedAs
  <2>10. ~IsLive(s)'
    <3>1. live' = Without(At(j))
      BY Zenon, <1>2, <1>4, <2>3, <2>4, <2>5
    <3> QED
      BY Zenon, <1>2, <2>1, <2>4, <3>1, FreedAway
  <2>11. CopyOf(mem', s, h, IsLive(s)')
    BY Zenon, <2>6, <2>8, <2>9, <2>10 DEF CopyOf
  <2> QED
    BY Zenon, <1>2, <2>2, <2>6, <2>11 DEF CopyRight, WasBlock, IsLive
<1>5. CASE ~current'
  BY Zenon, <1>5 DEF CopyRight
<1> QED
  BY Zenon, <1>3, <1>4, <1>5

(* So a copy is good after every step.                                     *)
LEMMA CopyKeeps ==
    ASSUME IInv, CopyRight, Stepping
    PROVE  CopyRight'
<1>1. Typed /\ HeapInv /\ ListFacts
  BY Zenon, ListIs DEF IInv, HeapInv
<1>2. Slots \subseteq Places
  BY Zenon, <1>1 DEF ListFacts
<1>3. ASSUME NEW sz, Failed(sz), Refused(sz) PROVE CopyRight'
  <2>1. mem' = mem /\ live' = live /\ past' = past /\ saved' = saved /\ current' = current
    BY <1>3 DEF Failed, Refused
  <2> QED
    BY Zenon, <1>2, <2>1, CopySame
<1>4. CASE Allocating
  <2>1. PICK s \in Slots, sz \in Nat, site \in Sites : Malloc(s, sz, site) /\ Noted(s, sz, site)
    BY Zenon, <1>4 DEF Allocating
  <2>2. CASE sz < UintMax
    <3>1. ~(sz >= UintMax)
      BY <2>2, HeapAssumption
    <3>2. ~current'
      BY Zenon, <2>1, <3>1 DEF Noted
    <3> QED
      BY Zenon, <3>2 DEF CopyRight
  <2>3. CASE ~(sz < UintMax)
    <3>1. sz >= UintMax
      BY <2>3, HeapAssumption
    <3>2. Failed(sz) /\ Refused(sz)
      BY Zenon, <2>1, <2>3, <3>1 DEF Malloc, Noted
    <3> QED
      BY Zenon, <1>3, <3>2
  <2> QED
    BY Zenon, <2>2, <2>3
<1>5. CASE Refusing
  BY Zenon, <1>3, <1>5 DEF Refusing
<1>6. CASE Erring
  <2>1. \E s \in Slots : IsLive(s) /\ (Overrun(s) \/ \E t \in Slots : CopyInto(s, t))
    BY Zenon, <1>6 DEF Erring
  <2>2. \A u \in Places : mem'[u][0] = mem[u][0]
    BY Zenon, <1>1, <2>1, HeadersSpared
  <2>3. live' = live /\ past' = past /\ saved' = saved /\ current' = current
    BY <1>6 DEF Erring
  <2> QED
    BY Zenon, <1>2, <2>2, <2>3, CopySame
<1>7. CASE Saving
  BY Zenon, <1>1, <1>7, CopyMade DEF Saving
<1>8. CASE Freeing
  BY Zenon, <1>1, <1>8, CopyFreed DEF Freeing
<1>9. CASE Reporting
  <2>1. mem' = mem /\ live' = live /\ past' = past /\ saved' = saved /\ current' = current
    BY <1>9 DEF Reporting, PrintHeavyHitters
  <2> QED
    BY Zenon, <1>2, <2>1, CopySame
<1> QED
  BY Zenon, <1>4, <1>5, <1>6, <1>7, <1>8, <1>9 DEF Stepping

------------------------------------------------------------------------------
(* Old headers are put back, and blocks are freed then.                     *)

(* Calls of m61_free() leave the counters and the totals alone.            *)
LEMMA TotalsKept ==
    ASSUME Shaped(stat), NEW p, Free(p)
    PROVE  /\ Shaped(stat)' /\ stat'.total = stat.total /\ stat'.mallocs = stat.mallocs
           /\ byBytes' = byBytes /\ byCalls' = byCalls /\ said'.what # "report"
<1>1. /\ byBytes' = byBytes /\ byCalls' = byCalls /\ said'.what # "report"
      /\ said'.what # "freed" => UNCHANGED <<mem, lent, spare, stat>>
  BY Zenon, FreeSays
<1>2. CASE said'.what # "freed"
  <2>1. stat' = stat
    BY <1>1, <1>2
  <2> QED
    BY Zenon, <1>1, <2>1 DEF Shaped
<1>3. CASE said'.what = "freed"
  <2>1. PICK a, b, k, st : /\ a = stat.frees + 1 /\ k = stat' /\ st = stat
                           /\ b = (stat.active - Cell(p.slot, p.off - 1).size) % Wrap
    OBVIOUS
  <2>2. k = [st EXCEPT !.frees = a, !.active = b]
    BY Zenon, <1>3, <2>1, FreedStepIs DEF FreedStep
  <2>3. Shaped(st)
    BY Zenon, <2>1
  <2>4. DOMAIN k = DOMAIN st /\ k = [f \in DOMAIN k |-> k[f]] /\ k.total = st.total /\ k.mallocs = st.mallocs
    BY ONLY <2>2, <2>3 DEF Shaped
  <2> QED
    BY Zenon, <1>1, <2>1, <2>3, <2>4 DEF Shaped
<1> QED
  BY Zenon, <1>2, <1>3

(* What the heavy hitters' property is about. *)
LEMMA HittersSame ==
    ASSUME HeavyHittersFound, said.what # "report", said'.what # "report", byBytes' = byBytes,
           byCalls' = byCalls, made' = made, stat'.total = stat.total, stat'.mallocs = stat.mallocs
    PROVE  HeavyHittersFound'
BY Zenon DEF HeavyHittersFound

(* A header that was put back is not a freed block's, is in the heap, and  *)
(* fails the check of the list: the call refuses it.                       *)
LEMMA PutBackRefused ==
    ASSUME NEW s \in Slots, InHeap(Payload(s)), Refutable(mem, s), Free(Payload(s))
    PROVE  said'.what = "not allocated"
<1>1. PICK p, h : p = Payload(s) /\ h = Cell(p.slot, p.off - 1)
  OBVIOUS
<1>2. p.slot = s /\ p.off = 1 /\ p.odd = FALSE /\ p # Null
  <2>1. Payload(s).slot = s /\ Payload(s).off = 1 /\ Payload(s).odd = FALSE
    BY DEF Payload
  <2>2. Null.off = 0 /\ 0 # 1
    BY DEF Null
  <2> QED
    BY Zenon, <1>1, <2>1, <2>2
<1>3. h = mem[s][0]
  <2>1. p.off - 1 = 0
    BY <1>2
  <2> QED
    BY Zenon, <1>1, <1>2, <2>1, SpanIs DEF Cell
<1>4. /\ h.is = "header" /\ h.tag # "freed" /\ InHeap(p) /\ ~Unlinks(h, p)
  <2>1. "live" # "freed"
    OBVIOUS
  <2> QED
    BY Zenon, <1>1, <1>2, <1>3, <2>1 DEF Refutable, Unlinks
<1>5. Says("not allocated", p, {})
  BY Zenon, <1>1, <1>2, <1>4, ChainIs DEF Chain
<1> QED
  BY Zenon, <1>5, SaysIs

(* The write leads at least one old neighbour past the block.              *)
LEMMA PutBackIs ==
    ASSUME mem \in MemType, CopyOf(mem, saved.slot, saved.row[0], FALSE), saved.slot \in Slots,
           Slots \subseteq Places, PutBack(saved)
    PROVE  Refutable(mem', saved.slot)
<1>1. PICK s, h, b : s = saved.slot /\ h = saved.row[0] /\ b = saved.behind
  OBVIOUS
<1>2. /\ h.is = "header" /\ h.tag = "live" /\ h.prev \in Places /\ h.next \in Places
      /\ h.prev # s /\ h.next # s /\ (h.prev # s + 1 \/ h.next # s + 1)
      /\ mem[h.prev][0].next = h.next /\ mem[h.next][0].prev = h.prev
  BY Zenon, <1>1 DEF CopyOf
<1>3. DOMAIN mem = Places /\ s \in Places
  BY Zenon, <1>1 DEF MemType
<1>4. \A t \in Places : mem'[t] = IF t = s THEN saved.row
                                  ELSE IF t = s + 1 THEN [mem[t] EXCEPT ![0] = b] ELSE mem[t]
  BY Zenon, <1>1, <1>3 DEF PutBack
<1>5. mem'[s][0] = h
  BY Zenon, <1>1, <1>3, <1>4
<1>6. h.prev # s + 1 => mem'[h.prev][0].next # s
  BY Zenon, <1>2, <1>4
<1>7. h.next # s + 1 => mem'[h.next][0].prev # s
  BY Zenon, <1>2, <1>4
<1> QED
  BY Zenon, <1>1, <1>2, <1>5, <1>6, <1>7 DEF Refutable

(* The payload of any block there was is in the heap.                      *)
LEMMA WasInHeap ==
    ASSUME Typed, HeapInv, NEW s \in Slots, WasBlock(s)
    PROVE  InHeap(Payload(s))
<1>1. PICK b \in past : b.slot = s
  BY Zenon DEF WasBlock
<1>2. PICK z, a, m : z = b.size /\ a = Start(s) /\ m = stat.max
  OBVIOUS
<1>3. z \in Nat
  <2>1. past \subseteq [slot : Slots, size : 0..Span - 2]
    BY Zenon, TypedParts
  <2> QED
    BY <1>2, <2>1
<1>4. a \in Nat
  <2>1. s \in Places
    BY DEF Places
  <2> QED
    BY Zenon, <1>2, <2>1, StartIs
<1>5. stat.min <= a /\ a + (2 * z) <= m
  BY Zenon, <1>1, <1>2, LimitsIs DEF HeapInv, LimitsOf
<1>6. m \in Int
  BY <1>2, TypedParts DEF Stats
<1>7. a <= m
  BY ONLY <1>3, <1>4, <1>5, <1>6
<1>8. Addr(Payload(s)) = a
  BY Zenon, <1>2 DEF Start
<1> QED
  BY Zenon, <1>2, <1>5, <1>7, <1>8 DEF InHeap

(* When old headers are put back, the block of a current copy is one that  *)
(* m61_free() refuses.                                                     *)
LEMMA RestoreSound ==
    ASSUME IInv, CopyRight, program = "heap", program' = program, Restore
    PROVE  RestoredRight'
<1>1. Typed /\ HeapInv /\ HittersRight /\ mem \in MemType /\ stat \in Stats /\ ListFacts
  BY Zenon, ListIs, TypedParts DEF IInv, HeapInv
<1>2. /\ PutBack(saved) /\ ~IsLive(saved.slot) /\ made' = made /\ saved' = saved /\ current' = current
      /\ stat' = stat /\ byBytes' = byBytes /\ byCalls' = byCalls /\ said' = said
  BY DEF Restore, PutBack
<1>3. said.what # "report"
  <2>1. program # "hhtest"
    OBVIOUS
  <2> QED
    BY Zenon, <1>1, <2>1 DEF HittersRight
<1>4. HeavyHittersFound'
  BY Zenon, <1>2, <1>3, HittersNow, HittersSame
<1>5. Shaped(stat)
  <2>1. PICK st : st = stat
    OBVIOUS
  <2>2. st = [f \in DOMAIN st |-> st[f]] /\ {"total", "mallocs"} \subseteq DOMAIN st
    BY <1>1, <2>1 DEF Stats
  <2> QED
    BY Zenon, <2>1, <2>2 DEF Shaped
<1>6. current => /\ saved.slot \in Slots /\ InHeap(Payload(saved.slot))
                 /\ Refutable(mem', saved.slot)
  <2> SUFFICES ASSUME current
               PROVE  saved.slot \in Slots /\ InHeap(Payload(saved.slot)) /\ Refutable(mem', saved.slot)
    OBVIOUS
  <2>1. /\ saved.slot \in Slots /\ WasBlock(saved.slot)
        /\ CopyOf(mem, saved.slot, saved.row[0], IsLive(saved.slot))
    BY Zenon DEF CopyRight
  <2>2. CopyOf(mem, saved.slot, saved.row[0], FALSE)
    BY Zenon, <1>2, <2>1 DEF CopyOf
  <2>3. Refutable(mem', saved.slot)
    BY Zenon, <1>1, <1>2, <2>1, <2>2, PutBackIs DEF ListFacts
  <2>4. InHeap(Payload(saved.slot))
    BY Zenon, <1>1, <2>1, WasInHeap
  <2> QED
    BY Zenon, <2>1, <2>3, <2>4
<1>7. InHeap(Payload(saved.slot)) => InHeap(Payload(saved.slot))'
  BY Zenon, <1>2 DEF InHeap
<1> QED
  BY Zenon, <1>2, <1>3, <1>4, <1>5, <1>6, <1>7 DEF RestoredRight, Shaped

(* From then on the program only frees, and that block is never freed.     *)
LEMMA RestoredFree ==
    ASSUME RestoredRight, NEW p, FreeNoted(p), program' = program
    PROVE  RestoredRight'
<1>1. /\ Free(p) /\ made' = made /\ saved' = saved
      /\ current' = (current /\ (said'.what = "freed" => p.slot = saved.slot))
  BY DEF FreeNoted
<1>2. /\ program = "heap" /\ said.what # "report" /\ HeavyHittersFound /\ Shaped(stat)
      /\ current => /\ saved.slot \in Slots /\ InHeap(Payload(saved.slot))
                    /\ Refutable(mem, saved.slot)
  BY Zenon DEF RestoredRight
<1>3. /\ Shaped(stat)' /\ stat'.total = stat.total /\ stat'.mallocs = stat.mallocs
      /\ byBytes' = byBytes /\ byCalls' = byCalls /\ said'.what # "report"
  BY Zenon, <1>1, <1>2, TotalsKept
<1>4. HeavyHittersFound'
  BY Zenon, <1>1, <1>2, <1>3, HittersSame
<1>5. CASE ~current'
  BY Zenon, <1>2, <1>3, <1>4, <1>5 DEF RestoredRight
<1>6. CASE current' /\ said'.what = "freed"
  <2>1. FreedStep(p, Cell(p.slot, p.off - 1)) /\ current /\ p.slot = saved.slot
    BY Zenon, <1>1, <1>6, FreedStepIs
  <2>2. PICK h : h = Cell(p.slot, p.off - 1)
    OBVIOUS
  <2>3. p.off = 1 /\ Unlinks(h, p) /\ h.is = "header"
    BY Zenon, <2>1, <2>2 DEF FreedStep, Unlinks
  <2>4. h = mem[saved.slot][0]
    <3>1. p.off - 1 = 0
      BY <2>3
    <3> QED
      BY Zenon, <2>1, <2>2, <3>1, SpanIs DEF Cell
  <2>5. FALSE
    BY Zenon, <1>2, <2>1, <2>3, <2>4 DEF Refutable, Unlinks
  <2> QED
    BY Zenon, <2>5
<1>7. CASE current' /\ said'.what # "freed"
  <2>1. mem' = mem /\ stat' = stat
    <3>1. UNCHANGED <<mem, lent, spare, stat>>
      BY Zenon, <1>1, <1>7, FreeSays
    <3> QED
      BY <3>1
  <2>2. current
    BY Zenon, <1>1, <1>7
  <2>3. InHeap(Payload(saved.slot)) => InHeap(Payload(saved.slot))'
    BY Zenon, <1>1, <2>1 DEF InHeap
  <2> QED
    BY Zenon, <1>1, <1>2, <1>3, <1>4, <2>1, <2>2, <2>3 DEF RestoredRight
<1> QED
  BY Zenon, <1>5, <1>6, <1>7

(* After that, every step is a call of m61_free().                         *)
LEMMA RestoredSteps ==
    ASSUME restored, program = "heap", Next
    PROVE  program' = program /\ restored' /\ \E p \in Pointers : FreeNoted(p)
<1>1. ~HhStep
  <2>1. program # "hhtest"
    OBVIOUS
  <2> QED
    BY Zenon, <2>1 DEF HhStep
<1>2. HeapStep /\ program' = program
  BY Zenon, <1>1 DEF Next
<1>3. PICK p \in Pointers : FreeNoted(p)
  BY Zenon, <1>2 DEF HeapStep, Restore
<1>4. restored' = restored
  BY <1>3 DEF FreeNoted
<1> QED
  BY Zenon, <1>2, <1>3, <1>4

(* Before it, the flag stays as it is.                                     *)
LEMMA NotRestored ==
    ASSUME Stepping
    PROVE  restored' = restored
<1>1. CASE Allocating
  BY <1>1 DEF Allocating, Noted, Refused
<1>2. CASE Refusing \/ Erring \/ Saving
  BY <1>2 DEF Refusing, Erring, Saving, Refused, Save
<1>3. CASE Freeing \/ Reporting
  BY <1>3 DEF Freeing, Reporting, FreeNoted
<1> QED
  BY Zenon, <1>1, <1>2, <1>3 DEF Stepping

------------------------------------------------------------------------------
(* The whole invariant.                                                     *)

(* It holds at first.                                                      *)
LEMMA SoundAtFirst == Init => Sound
<1> SUFFICES ASSUME Init PROVE Sound
  OBVIOUS
<1>1. IInv
  BY Zenon, InitHeap, InitSums DEF IInv
<1>2. ~current /\ ~restored
  BY DEF Init
<1>3. PICK r, st, t : r = refused /\ st = stat /\ t = todo
  OBVIOUS
<1>4. r = [bytes |-> 0, calls |-> 0] /\ st.fails = 0 /\ st.failed = 0
  <2>1. \E m, n : st = [mallocs |-> 0, frees |-> 0, active |-> 0, total |-> 0, fails |-> 0,
                        failed |-> 0, min |-> m, max |-> n]
    BY Zenon, <1>3 DEF Init, M61Init
  <2>2. st.fails = 0 /\ st.failed = 0
    BY ONLY <2>1
  <2>3. r = [bytes |-> 0, calls |-> 0]
    BY Zenon, <1>3 DEF Init
  <2> QED
    BY Zenon, <2>2, <2>3
<1>5. r \in Costs /\ r.bytes = 0 /\ r.calls = 0
  BY ONLY <1>4 DEF Costs
<1>6. program = "heap" => t = HeapCalls
  <2>1. PICK c \in {<<"heap", HeapCalls>>, <<"hhtest", HhCalls>>} : program = c[1] /\ t = c[2]
    BY Zenon, <1>3 DEF Init
  <2>2. c = <<"heap", HeapCalls>> => c[2] = HeapCalls
    OBVIOUS
  <2>3. c = <<"hhtest", HhCalls>> => c[1] = "hhtest" /\ "hhtest" # "heap"
    OBVIOUS
  <2> QED
    BY Zenon, <2>1, <2>2, <2>3
<1>7. program = "heap" => 0 + (2 * UintMax * t) < Wrap
  <2>1. SUFFICES ASSUME program = "heap" PROVE 0 + (2 * UintMax * t) < Wrap
    OBVIOUS
  <2>2. PICK x : x = 2 * UintMax * HeapCalls
    OBVIOUS
  <2>3. x \in Int /\ x < Wrap
    <3>1. x \in Int
      BY <2>2, HeapAssumption, ProgramAssumption
    <3> QED
      BY Zenon, <2>2, <3>1, CallsFit
  <2>4. 0 + x = x
    BY <2>3
  <2> QED
    BY Zenon, <1>6, <2>1, <2>2, <2>3, <2>4
<1>8. RefusedRight
  BY Zenon, <1>3, <1>4, <1>5, <1>7 DEF RefusedRight
<1> QED
  BY Zenon, <1>1, <1>2, <1>8 DEF Sound, CopyRight

(* A step that changes nothing keeps it.                                   *)
LEMMA SoundStutters ==
    ASSUME Sound, UNCHANGED vars
    PROVE  Sound'
<1>1. /\ mem' = mem /\ lent' = lent /\ spare' = spare /\ stat' = stat /\ byBytes' = byBytes
      /\ byCalls' = byCalls /\ said' = said /\ program' = program /\ todo' = todo /\ live' = live
      /\ past' = past /\ wild' = wild /\ made' = made /\ refused' = refused /\ saved' = saved
      /\ restored' = restored /\ current' = current
      /\ UNCHANGED <<mem, lent, spare, live, past, wild>>
  BY DEF vars, m61Vars
<1>2. CASE restored
  <2>1. RestoredRight
    BY Zenon, <1>2 DEF Sound
  <2>2. said.what # "report" /\ said'.what # "report" /\ HeavyHittersFound
    BY Zenon, <1>1, <2>1 DEF RestoredRight
  <2>3. HeavyHittersFound'
    BY Zenon, <1>1, <2>2, HittersSame
  <2>4. InHeap(Payload(saved.slot)) => InHeap(Payload(saved.slot))'
    BY Zenon, <1>1 DEF InHeap
  <2>5. RestoredRight'
    BY Zenon, <1>1, <2>1, <2>2, <2>3, <2>4 DEF RestoredRight, Shaped
  <2> QED
    BY Zenon, <1>1, <1>2, <2>5 DEF Sound
<1>3. CASE ~restored
  <2>1. IInv /\ RefusedRight /\ CopyRight
    BY Zenon, <1>3 DEF Sound
  <2>2. Typed /\ HeapInv /\ HittersRight
    BY Zenon, <2>1 DEF IInv
  <2>3. HeapInv'
    BY Zenon, <1>1, <2>2, SameHeap
  <2>4. Typed' /\ SumsRight'
    <3>1. mem \in MemType /\ stat \in Stats /\ wild \subseteq Slots
      BY Zenon, <2>2, TypedParts
    <3>2. Idle
      BY Zenon, <1>1, <2>3, <3>1 DEF Idle
    <3> QED
      BY Zenon, <2>1, <3>2, IdleKeeps
  <2>5. HittersRight'
    <3>1. Bytes' = Bytes /\ Calls' = Calls
      BY Zenon, <1>1 DEF Bytes, Calls
    <3>2. CASE said.what = "report"
      BY Zenon, <1>1, <2>2, <3>1, <3>2 DEF HittersRight
    <3>3. CASE said.what # "report"
      <4>1. said'.what # "report"
        BY Zenon, <1>1, <3>3
      <4> QED
        BY Zenon, <1>1, <2>2, <3>3, <4>1, SameCounters
    <3> QED
      BY Zenon, <3>2, <3>3
  <2>6. RefusedRight'
    BY Zenon, <1>1, <2>1 DEF RefusedRight
  <2>7. CopyRight'
    <3>1. Slots \subseteq Places
      BY DEF Places
    <3> QED
      BY Zenon, <1>1, <2>1, <3>1, CopySame
  <2> QED
    BY Zenon, <1>1, <1>3, <2>3, <2>4, <2>5, <2>6, <2>7 DEF Sound, IInv
<1> QED
  BY Zenon, <1>2, <1>3

(* So does every step of the program.                                      *)
LEMMA SoundKeeps ==
    ASSUME Sound, Next
    PROVE  Sound'
<1>1. CASE restored
  <2>1. RestoredRight
    BY Zenon, <1>1 DEF Sound
  <2>2. program' = program /\ restored' /\ \E p \in Pointers : FreeNoted(p)
    BY Zenon, <1>1, <2>1, RestoredSteps DEF RestoredRight
  <2>3. RestoredRight'
    BY Zenon, <2>1, <2>2, RestoredFree
  <2> QED
    BY Zenon, <2>2, <2>3 DEF Sound
<1>2. CASE ~restored
  <2>1. IInv /\ RefusedRight /\ CopyRight
    BY Zenon, <1>2 DEF Sound
  <2>2. Typed /\ HeapInv
    BY Zenon, <2>1 DEF IInv
  <2>3. program' = program /\ (Stepping \/ (program = "heap" /\ Restore))
    BY Zenon, <2>2, StepIs
  <2>4. CASE Stepping
    <3>1. IInv' /\ RefusedRight' /\ CopyRight' /\ restored' = restored
      BY Zenon, <2>1, <2>3, <2>4, StepKeeps, RefusedKeeps, CopyKeeps, NotRestored
    <3> QED
      BY Zenon, <1>2, <3>1 DEF Sound
  <2>5. CASE program = "heap" /\ Restore
    <3>1. restored'
      BY <2>5 DEF Restore
    <3>2. RestoredRight'
      BY Zenon, <2>1, <2>3, <2>5, RestoreSound
    <3> QED
      BY Zenon, <3>1, <3>2 DEF Sound
  <2> QED
    BY Zenon, <2>3, <2>4, <2>5
<1> QED
  BY Zenon, <1>1, <1>2

(* Sound is an invariant.                                                  *)
LEMMA Inductive == Spec => []Sound
<1>1. Sound /\ [Next]_vars => Sound'
  BY Zenon, SoundKeeps, SoundStutters
<1> QED
  BY <1>1, SoundAtFirst, PTL DEF Spec

(* The statistics and the leak report agree with the calls that were made:  *)
(* m61_malloc() and m61_free() keep the counts, the sums, the bounds of the *)
(* heap and the list, in whatever order blocks are freed and their memory   *)
(* is given out again, until old headers are put back.                      *)
THEOREM LedgerAgreesHolds == Spec => []LedgerAgrees
<1>1. Sound => LedgerAgrees
  <2> SUFFICES ASSUME Sound, ~restored PROVE LedgerAgrees
    BY Zenon DEF LedgerAgrees
  <2>1. Typed /\ HeapInv /\ SumsRight /\ HeadersRight /\ RefusedRight
    BY Zenon DEF Sound, IInv, HeapInv
  <2>2. /\ Nactive = Len(live) /\ stat.active = SumFunction([s \in Slots |-> Held(s)])
        /\ stat.total = SumFunction(Bytes) /\ stat.mallocs = SumFunction(Calls)
    BY Zenon, <2>1 DEF SumsRight
  <2>3. ASSUME NEW k \in 0..Len(live)
        PROVE  WalkBack[k] = IF k < Len(live) THEN live[Len(live) - k].slot
                             ELSE IF First.next = NoLink THEN NoLink ELSE 0
    <3>1. WalkBack[k] = Behind(k)
      <4>1. k \in Nat
        BY <2>1 DEF Typed
      <4> QED
        BY Zenon, <2>1, <4>1, WalkBackIs
    <3>2. CASE k < Len(live)
      <4>1. Len(live) - k \in 1..Len(live)
        BY <2>1, <3>2 DEF Typed
      <4>2. At(Len(live) - k) = live[Len(live) - k].slot
        BY Zenon, <4>1 DEF At
      <4> QED
        BY Zenon, <3>1, <3>2, <4>2 DEF Behind
    <3>3. CASE ~(k < Len(live))
      <4>1. k = Len(live)
        BY <2>1, <3>3 DEF Typed
      <4> QED
        BY Zenon, <3>1, <3>3, <4>1 DEF Behind
    <3> QED
      BY Zenon, <3>2, <3>3
  <2>4. \A i \in 1..Len(live) :
           LET h == mem[live[i].slot][0] IN h.size = live[i].size /\ h.site = live[i].site
    BY Zenon, <2>1 DEF HeadersRight
  <2>5. DOMAIN lent = {live[i].slot : i \in 1..Len(live)}
    BY Zenon, <2>1 DEF HeapInv, LentRight
  <2>6. stat.fails = refused.calls /\ stat.failed = refused.bytes
    BY Zenon, <2>1 DEF RefusedRight
  <2>7. past # {} => stat.min = Min(Starts) /\ stat.max = Max(Ends)
    BY Zenon, <2>1, EndsAre
  <2> QED
    BY Zenon, <2>2, <2>3, <2>4, <2>5, <2>6, <2>7 DEF LedgerAgrees
<1> QED
  BY <1>1, Inductive, PTL

(* The counters of m61_malloc() find the heavy hitters: no site is shown    *)
(* more than it allocated, none is short by more than its share of the      *)
(* total, and the report prints every site above that share, of bytes and   *)
(* of calls, sorted.                                                        *)
THEOREM HeavyHittersFoundHolds == Spec => []HeavyHittersFound
<1>1. Sound => HeavyHittersFound
  BY Zenon, HittersNow DEF Sound, RestoredRight
<1> QED
  BY <1>1, Inductive, PTL

(* What FreesJudged says of one step.                                      *)
Judgement ==
    Frees =>
       LET p == said'.ptr IN
       /\ ~restored => said'.what = Due(p)
       /\ ~restored /\ said'.what = "not allocated" /\ ~Faked(p) => said'.inside = Around(p)
       /\ restored /\ current /\ p = Payload(saved.slot) => said'.what = "not allocated"

(* A call's verdict is due.                                                *)
LEMMA CallJudged ==
    ASSUME IInv, ~restored, NEW p \in Pointers, Free(p)
    PROVE  Judgement
<1>1. Typed /\ HeapInv
  BY Zenon DEF IInv
<1>2. said'.ptr = p
  BY Zenon, FreePtr
<1>3. said'.what = Due(p) /\ (said'.what = "not allocated" /\ ~Faked(p) => said'.inside = Around(p))
  <2>1. CASE p = Null
    <3>1. said'.what = "nothing" /\ Due(p) = "nothing"
      BY Zenon, <2>1, NullJudged
    <3>2. "nothing" # "not allocated"
      OBVIOUS
    <3> QED
      BY Zenon, <3>1, <3>2
  <2>2. CASE p # Null
    <3>1. Judged(p, said'.what, said'.inside)
      BY Zenon, <1>1, <2>2, FreeJudged
    <3>2. Due(p) = DueOf(p)
      BY Zenon, <1>1, <2>2, DueIs
    <3> QED
      BY Zenon, <3>1, <3>2 DEF Judged
  <2> QED
    BY Zenon, <2>1, <2>2
<1> QED
  BY Zenon, <1>2, <1>3 DEF Judgement

(* After old headers are put back, the call refuses the copied block.      *)
LEMMA PutBackJudged ==
    ASSUME RestoredRight, restored, NEW p \in Pointers, Free(p)
    PROVE  Judgement
<1>1. said'.ptr = p
  BY Zenon, FreePtr
<1>2. current /\ p = Payload(saved.slot) => said'.what = "not allocated"
  BY Zenon, PutBackRefused DEF RestoredRight
<1> QED
  BY Zenon, <1>1, <1>2 DEF Judgement

(* Every step's verdict is right, or it gives none.                        *)
LEMMA StepJudged ==
    ASSUME Sound, Next
    PROVE  Judgement
<1>1. CASE restored
  <2>1. RestoredRight
    BY Zenon, <1>1 DEF Sound
  <2>2. PICK p \in Pointers : FreeNoted(p)
    BY Zenon, <1>1, <2>1, RestoredSteps DEF RestoredRight
  <2>3. Free(p)
    BY <2>2 DEF FreeNoted
  <2> QED
    BY Zenon, <1>1, <2>1, <2>3, PutBackJudged
<1>2. CASE ~restored
  <2>1. IInv /\ Typed /\ HeapInv /\ todo \in Nat
    BY Zenon, <1>2, TypedParts DEF Sound, IInv
  <2>2. Stepping \/ Restore
    BY Zenon, <2>1, StepIs
  <2>3. CASE Restore
    <3>1. restored' # restored
      BY <1>2, <2>3 DEF Restore
    <3> QED
      BY Zenon, <3>1 DEF Judgement, Frees
  <2>4. CASE Allocating \/ Refusing \/ Erring \/ Saving
    <3>1. Counted
      BY Zenon, <2>4 DEF Allocating, Refusing, Erring, Saving
    <3>2. todo' # todo
      BY <2>1, <3>1 DEF Counted
    <3> QED
      BY Zenon, <3>2 DEF Judgement, Frees
  <2>5. CASE Freeing
    <3>1. PICK p \in Pointers : FreeNoted(p)
      BY Zenon, <2>5 DEF Freeing
    <3>2. Free(p)
      BY <3>1 DEF FreeNoted
    <3> QED
      BY Zenon, <1>2, <2>1, <3>2, CallJudged
  <2>6. CASE Reporting
    <3>1. PICK b, c, u : b = Report(byBytes).printed /\ c = Report(byCalls).printed /\ u = said'
      OBVIOUS
    <3>2. u = [what |-> "report", bytes |-> b, calls |-> c]
      BY Zenon, <2>6, <3>1 DEF Reporting, PrintHeavyHitters
    <3>3. u.what = "report"
      BY ONLY <3>2
    <3> QED
      BY Zenon, <3>1, <3>3 DEF Judgement, Frees
  <2> QED
    BY Zenon, <2>2, <2>3, <2>4, <2>5, <2>6 DEF Stepping
<1> QED
  BY Zenon, <1>1, <1>2

(* m61_free() judges every pointer rightly, by the history alone: it frees  *)
(* a live block with its end intact and nothing else, and of every other    *)
(* pointer it names the fault and the block around it, until old headers    *)
(* are put back; then it still refuses the block they belong to, if nothing *)
(* was allocated and no other block freed since they were copied.           *)
THEOREM FreesJudgedHolds == Spec => FreesJudged
<1>1. Sound /\ [Next]_vars => [Judgement]_vars
  BY StepJudged
<1>2. Spec => []Sound
  BY Inductive
<1> QED
  BY <1>1, <1>2, PTL DEF Spec, FreesJudged, Judgement
=============================================================================
