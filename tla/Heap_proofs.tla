----------------------------- MODULE Heap_proofs -----------------------------
(***************************************************************************)
(* The collector, in zones of every size and with objects of every number  *)
(* and kind: the halves are tiled, the roots survive any number of         *)
(* collections, there is room for the copies, and a collection of an       *)
(* undamaged half copies every object once and loses none.                 *)
(***************************************************************************)
EXTENDS Heap, TLAPS, FiniteSetTheorems

(***************************************************************************)
(* The invariant                                                           *)
(***************************************************************************)

Alive == status \notin {"abort", "wild"}

(* Every object lies in one half.                                          *)
Whole(m) ==
  \A a \in DOMAIN m :
    \/ GetEndingAddress(m, a) <= 1 + SemiSize
    \/ 1 + SemiSize <= a /\ GetEndingAddress(m, a) <= 1 + 2 * SemiSize

(* No two objects share an address.                                        *)
Apart(m) == \A a, b \in DOMAIN m : a < b => GetEndingAddress(m, a) <= b

(* The objects of m from start up to end follow one another.               *)
Between(m, start, end) == {a \in DOMAIN m : start <= a /\ a < end}
Chain(m, start, end) ==
  /\ start \in Between(m, start, end) \cup {end}
  /\ \A a \in Between(m, start, end) : GetEndingAddress(m, a) \in Between(m, start, end) \cup {end}
  /\ \A a \in Between(m, start, end) \cup {end} :
       a = start \/ \E b \in Between(m, start, end) : GetEndingAddress(m, b) = a

(* What the collector copies from.                                         *)
Old == Between(mem, tospace, current)
New == Between(mem, fromspace, next)

OldHalf ==
  Collection =>
    /\ current \in Space(tospace)
    /\ \A a \in Old : GetEndingAddress(mem, a) <= current

Chains ==
  /\ Alive => Chain(mem, fromspace, Frontier)
  /\ status = "roots" => curr = fromspace
  /\ status = "scan" => curr \in New \cup {next}

(* Each root has an id of its own.                                         *)
Distinct(s) == \A i, j \in DOMAIN s : s[i].id = s[j].id => i = j
RootIds ==
  /\ Distinct(classes) /\ Distinct(modules)
  /\ \A i \in DOMAIN classes, j \in DOMAIN modules : classes[i].id # modules[j].id

(* Where a root is, at the several stages of a collection.                 *)
IsAt(root, region) == root.at \in region /\ mem[root.at].id = root.id
RootPlaces ==
  /\ Running => \A i \in DOMAIN Roots : IsAt(Roots[i], Between(mem, fromspace, current))
  /\ status = "roots" => \A i \in DOMAIN Roots :
       IsAt(Roots[i], Old) /\ (i < index => HasCopy(Roots[i].at))
  /\ status = "scan" => \A i \in DOMAIN Roots : IsAt(Roots[i], Old) /\ HasCopy(Roots[i].at)
  /\ status = "notify" => \A i \in DOMAIN Roots :
       IF i < index THEN IsAt(Roots[i], New) ELSE IsAt(Roots[i], Old) /\ HasCopy(Roots[i].at)

(* The copies take as much room as their originals in the old half.        *)
Span(m, a)  == a..(GetEndingAddress(m, a) - 1)
Cover(m, A) == UNION {Span(m, a) : a \in A}
RootsDone == {Roots[i].at : i \in {j \in DOMAIN Roots : j < index}}
Moved     == {a \in Old : IsForwarding(mem, a)}
Room ==
  /\ status = "roots" => next - fromspace = Cardinality(Cover(mem, RootsDone))
  /\ status = "scan" /\ clean => next - fromspace = Cardinality(Cover(mem, Moved))

(* A clean collection: the old half is closed, forwarding addresses and    *)
(* copies correspond.                                                      *)
IsCopyOf(b, a) ==
  /\ mem[a].forwarding = b
  /\ mem[b].id = mem[a].id /\ mem[b].kind = mem[a].kind /\ mem[b].refs = mem[a].refs
Closed ==
  \A a \in Old : \A i \in DOMAIN PointersOf(mem[a]) : PointersOf(mem[a])[i] \in Old \cup {UNALLOCATED}
Single == \A a, b \in Old : mem[a].id = mem[b].id => a = b
Copies ==
  /\ \A a \in Old : IsForwarding(mem, a) => HasCopy(a)
  /\ \A b \in New : \E a \in Old : IsCopyOf(b, a)
CleanRoots == Moved = RootsDone

(* The pointers the collector has visited lead to copies.                  *)
Visited(b) == {i \in DOMAIN PointersOf(mem[b]) : b < curr \/ (b = curr /\ i < index)}
CleanScan   == \A b \in New : \A i \in Visited(b) : HasCopy(PointersOf(mem[b])[i])
CleanNotify == \A b \in New : \A i \in DOMAIN PointersOf(mem[b]) : HasCopy(PointersOf(mem[b])[i])
Clean ==
  /\ Collection /\ clean => Closed /\ Single /\ Copies
  /\ status = "roots" /\ clean => CleanRoots
  /\ status = "scan" /\ clean => CleanScan
  /\ status = "notify" /\ clean => CleanNotify

Inv ==
  /\ TypeOK
  /\ Whole(mem) /\ Apart(mem)
  /\ OldHalf /\ Chains
  /\ RootIds /\ RootPlaces
  /\ Room /\ Clean

(***************************************************************************)
(* Writing an object                                                       *)
(***************************************************************************)

Record(n) ==
  [kind : {"object", "error", "class", "module"}, id : 1..n, size : Sizes,
   refs : Seq(Address), forwarding : Address]
Memory(m, n) == DOMAIN m \subseteq Address \ {UNALLOCATED} /\ m \in [DOMAIN m -> Record(n)]

LEMMA ObjectLemma == Object = Record(Len(held))
  BY DEF Object, Record

LEMMA SizeLemma ==
  ASSUME NEW n \in Nat, NEW m, Memory(m, n), NEW a \in DOMAIN m
  PROVE  /\ a \in Nat \ {0} /\ a <= 2 * SemiSize /\ m[a] \in Record(n)
         /\ m[a].size \in Nat \ {0}
         /\ GetEndingAddress(m, a) = a + Header + m[a].size
         /\ GetEndingAddress(m, a) \in Nat /\ a < GetEndingAddress(m, a)
<1>1. a \in Nat \ {0} /\ a <= 2 * SemiSize /\ m[a] \in Record(n)
  BY SizesAssumption DEF Memory, Address, UNALLOCATED
<1>2. m[a].size \in Sizes
  BY <1>1 DEF Record
<1>. QED
  BY <1>1, <1>2, SizesAssumption DEF GetEndingAddress, GetTotalSize

(* m with an object of this size at f instead of those it overlaps.        *)
Extends(m, w, f, size) ==
  /\ DOMAIN w = {b \in DOMAIN m : GetEndingAddress(m, b) <= f \/ f + Header + size <= b} \cup {f}
  /\ w[f].size = size
  /\ \A b \in DOMAIN w \ {f} : w[b].size = m[b].size

LEMMA EndsLemma ==
  ASSUME NEW n \in Nat, NEW m, Memory(m, n), NEW w, NEW f \in Nat, NEW size \in Sizes, Extends(m, w, f, size)
  PROVE  /\ GetEndingAddress(w, f) = f + Header + size
         /\ \A b \in DOMAIN w \ {f} : b \in DOMAIN m /\ GetEndingAddress(w, b) = GetEndingAddress(m, b)
         /\ \A b \in DOMAIN m : GetEndingAddress(m, b) <= f \/ f + Header + size <= b => b \in DOMAIN w
<1>1. \A b \in DOMAIN w \ {f} : b \in DOMAIN m
  BY DEF Extends
<1>. QED
  BY <1>1, SizeLemma, SizesAssumption DEF Extends, GetEndingAddress, GetTotalSize

LEMMA ExtendsWhole ==
  ASSUME NEW n \in Nat, NEW m, Memory(m, n), Whole(m), NEW w, NEW size \in Sizes,
         NEW start \in {1, 1 + SemiSize}, NEW f \in Space(start), f + Header + size < start + SemiSize,
         Extends(m, w, f, size)
  PROVE  Whole(w)
<1>1. SemiSize \in Nat /\ f \in Nat /\ start <= f /\ Header \in Nat /\ size \in Nat
  BY SizesAssumption DEF Space
<1>e. /\ GetEndingAddress(w, f) = f + Header + size
      /\ \A b \in DOMAIN w \ {f} : b \in DOMAIN m /\ GetEndingAddress(w, b) = GetEndingAddress(m, b)
      /\ \A b \in DOMAIN m : GetEndingAddress(m, b) <= f \/ f + Header + size <= b => b \in DOMAIN w
  BY <1>1, EndsLemma
<1>s. \A b \in DOMAIN m : b \in Nat /\ GetEndingAddress(m, b) \in Nat /\ b < GetEndingAddress(m, b)
  BY SizeLemma
<1>2. ASSUME NEW a \in DOMAIN w
      PROVE  \/ GetEndingAddress(w, a) <= 1 + SemiSize
             \/ 1 + SemiSize <= a /\ GetEndingAddress(w, a) <= 1 + 2 * SemiSize
  <2>1. CASE a = f
    BY <1>1, <2>1, <1>e
  <2>2. CASE a # f
    BY <1>1, <2>2, <1>e DEF Whole
  <2>. QED
    BY <2>1, <2>2
<1>. QED
  BY <1>2 DEF Whole

LEMMA ExtendsApart ==
  ASSUME NEW n \in Nat, NEW m, Memory(m, n), Apart(m), NEW w, NEW size \in Sizes, NEW f \in Nat,
         Extends(m, w, f, size)
  PROVE  Apart(w)
<1>1. Header \in Nat \ {0} /\ size \in Nat \ {0}
  BY SizesAssumption
<1>e. /\ GetEndingAddress(w, f) = f + Header + size
      /\ \A b \in DOMAIN w \ {f} : b \in DOMAIN m /\ GetEndingAddress(w, b) = GetEndingAddress(m, b)
      /\ \A b \in DOMAIN m : GetEndingAddress(m, b) <= f \/ f + Header + size <= b => b \in DOMAIN w
  BY EndsLemma
<1>s. \A b \in DOMAIN m : b \in Nat /\ GetEndingAddress(m, b) \in Nat /\ b < GetEndingAddress(m, b)
  BY SizeLemma
<1>2. ASSUME NEW a \in DOMAIN w, NEW b \in DOMAIN w, a < b
      PROVE  GetEndingAddress(w, a) <= b
  <2>1. CASE a = f
    <3>1. b \in DOMAIN m /\ (GetEndingAddress(m, b) <= f \/ f + Header + size <= b)
      BY <1>2, <2>1 DEF Extends
    <3>. QED
      BY <1>1, <1>2, <2>1, <3>1, <1>e, <1>s
  <2>2. CASE b = f /\ a # f
    <3>1. a \in DOMAIN m /\ (GetEndingAddress(m, a) <= f \/ f + Header + size <= a)
      BY <1>2, <2>2 DEF Extends
    <3>. QED
      BY <1>1, <1>2, <2>2, <3>1, <1>e, <1>s
  <2>3. CASE a # f /\ b # f
    BY <1>2, <2>3, <1>e DEF Apart
  <2>. QED
    BY <2>1, <2>2, <2>3
<1>. QED
  BY <1>2 DEF Apart

(* At the end of a chain, the object becomes its last one.                 *)
LEMMA ExtendsChain ==
  ASSUME NEW n \in Nat, NEW m, Memory(m, n), NEW w, NEW size \in Sizes, NEW f \in Nat, NEW start \in Nat,
         Chain(m, start, f), Extends(m, w, f, size)
  PROVE  /\ Between(w, start, f + Header + size) = Between(m, start, f) \cup {f}
         /\ Chain(w, start, f + Header + size)
<1> DEFINE end == f + Header + size
<1>1. Header \in Nat \ {0} /\ size \in Nat \ {0} /\ end \in Nat /\ f < end
  BY SizesAssumption
<1>e. /\ GetEndingAddress(w, f) = f + Header + size
      /\ \A b \in DOMAIN w \ {f} : b \in DOMAIN m /\ GetEndingAddress(w, b) = GetEndingAddress(m, b)
      /\ \A b \in DOMAIN m : GetEndingAddress(m, b) <= f \/ f + Header + size <= b => b \in DOMAIN w
  BY EndsLemma
<1>s. \A b \in DOMAIN m : b \in Nat /\ GetEndingAddress(m, b) \in Nat /\ b < GetEndingAddress(m, b)
  BY SizeLemma
<1>2. start <= f
  BY DEF Chain, Between
<1>3. \A b \in Between(m, start, f) : GetEndingAddress(m, b) <= f /\ b \in DOMAIN w /\ b # f
  <2>1. \A b \in Between(m, start, f) : GetEndingAddress(m, b) <= f /\ b # f /\ b \in DOMAIN m
    BY <1>s DEF Chain, Between
  <2>. QED
    BY <2>1, <1>e
<1>4. \A b \in DOMAIN w \ {f} : b < end => b < f
  <2>1. \A b \in DOMAIN w \ {f} : b \in DOMAIN m /\ (GetEndingAddress(m, b) <= f \/ end <= b)
    BY DEF Extends
  <2>. QED
    BY <1>1, <2>1, <1>s
<1>5. f \in DOMAIN w
  BY DEF Extends
<1>6. ASSUME NEW b
      PROVE  b \in Between(w, start, end) <=> b \in Between(m, start, f) \cup {f}
  <2>1. CASE b = f
    BY <1>1, <1>2, <1>5, <2>1 DEF Between
  <2>2. ASSUME b # f, b \in Between(w, start, end) PROVE b \in Between(m, start, f)
    BY <1>4, <2>2, <1>e DEF Between
  <2>3. ASSUME b # f, b \in Between(m, start, f) PROVE b \in Between(w, start, end)
    <3>1. b \in DOMAIN m /\ b \in Nat /\ start <= b /\ b < f
      BY <2>3, <1>s DEF Between
    <3>. QED
      BY <1>1, <1>3, <2>3, <3>1 DEF Between
  <2>. QED
    BY <2>1, <2>2, <2>3
<1>7. Between(w, start, end) = Between(m, start, f) \cup {f}
  BY <1>6
<1>8. \A b \in Between(m, start, f) : GetEndingAddress(w, b) = GetEndingAddress(m, b)
  BY <1>3, <1>e
<1>9. GetEndingAddress(w, f) = end
  BY <1>e
<1>10. start \in Between(w, start, end) \cup {end}
  BY <1>7 DEF Chain
<1>11. \A a \in Between(w, start, end) : GetEndingAddress(w, a) \in Between(w, start, end) \cup {end}
  BY <1>7, <1>8, <1>9 DEF Chain
<1>12. \A a \in Between(w, start, end) \cup {end} :
         a = start \/ \E b \in Between(w, start, end) : GetEndingAddress(w, b) = a
  BY <1>7, <1>8, <1>9 DEF Chain
<1>. QED
  BY <1>7, <1>10, <1>11, <1>12 DEF Chain

(* The other half does not change.                                         *)
LEMMA ExtendsOther ==
  ASSUME NEW n \in Nat, NEW m, Memory(m, n), Whole(m), NEW w, NEW size \in Sizes,
         NEW start \in {1, 1 + SemiSize}, NEW f \in Space(start), f + Header + size < start + SemiSize,
         Extends(m, w, f, size),
         NEW other \in {1, 1 + SemiSize} \ {start}, NEW end \in Space(other)
  PROVE  Between(w, other, end) = Between(m, other, end)
<1>1. SemiSize \in Nat /\ f \in Nat /\ start <= f /\ Header \in Nat \ {0} /\ size \in Nat \ {0}
  BY SizesAssumption DEF Space
<1>e. /\ GetEndingAddress(w, f) = f + Header + size
      /\ \A b \in DOMAIN w \ {f} : b \in DOMAIN m /\ GetEndingAddress(w, b) = GetEndingAddress(m, b)
      /\ \A b \in DOMAIN m : GetEndingAddress(m, b) <= f \/ f + Header + size <= b => b \in DOMAIN w
  BY <1>1, EndsLemma
<1>s. \A b \in DOMAIN m : b \in Nat /\ GetEndingAddress(m, b) \in Nat /\ b < GetEndingAddress(m, b)
  BY SizeLemma
<1>2. other <= end /\ end < other + SemiSize /\ end \in Nat /\ other \in Nat
  BY <1>1 DEF Space
<1>3. \A b : b \in Between(w, other, end) => b \in Between(m, other, end)
  BY <1>1, <1>2, <1>e DEF Between
<1>4. ASSUME NEW b \in Between(m, other, end) PROVE b \in Between(w, other, end)
  <2>1. b \in DOMAIN m /\ b \in Nat /\ other <= b /\ b < end
    BY <1>4, <1>s DEF Between
  <2>2. GetEndingAddress(m, b) \in Nat /\ b < GetEndingAddress(m, b)
    BY <2>1, <1>s
  <2>3. \/ GetEndingAddress(m, b) <= 1 + SemiSize
        \/ 1 + SemiSize <= b /\ GetEndingAddress(m, b) <= 1 + 2 * SemiSize
    BY <2>1 DEF Whole
  <2>4. GetEndingAddress(m, b) <= f \/ f + Header + size <= b
    BY <1>1, <1>2, <2>1, <2>2, <2>3
  <2>5. b \in DOMAIN w
    BY <1>1, <2>1, <2>4, <1>e
  <2>. QED
    BY <2>1, <2>5 DEF Between
<1>. QED
  BY <1>3, <1>4

(***************************************************************************)
(* The room that objects take                                              *)
(***************************************************************************)

LEMMA CoverLemma ==
  ASSUME NEW n \in Nat, NEW m, Memory(m, n), Apart(m),
         NEW start \in Nat, NEW end \in Nat, start <= end,
         \A b \in Between(m, start, end) : GetEndingAddress(m, b) <= end,
         NEW A \in SUBSET Between(m, start, end), NEW a \in Between(m, start, end) \ A
  PROVE  /\ Cardinality(Cover(m, A)) \in Nat
         /\ Cardinality(Cover(m, A \cup {a})) = Cardinality(Cover(m, A)) + Header + m[a].size
         /\ Cardinality(Cover(m, A \cup {a})) <= end - start
<1>1. \A b \in Between(m, start, end) :
        /\ b \in DOMAIN m /\ b \in Nat /\ start <= b /\ b < end
        /\ GetEndingAddress(m, b) = b + Header + m[b].size
        /\ GetEndingAddress(m, b) \in Nat /\ b < GetEndingAddress(m, b)
  BY SizeLemma DEF Between
<1>2. IsFiniteSet(start..(end - 1)) /\ Cardinality(start..(end - 1)) = end - start
  <2>1. end - 1 \in Int /\ start \in Int
    OBVIOUS
  <2>2. /\ IsFiniteSet(start..(end - 1))
        /\ Cardinality(start..(end - 1)) = IF start > end - 1 THEN 0 ELSE (end - 1) - start + 1
    BY <2>1, FS_Interval
  <2>. QED
    BY <2>2
<1>3. \A b \in Between(m, start, end) : Span(m, b) \subseteq start..(end - 1)
  BY <1>1 DEF Span
<1>4. Cover(m, A) \in SUBSET (start..(end - 1)) /\ Cover(m, A \cup {a}) \in SUBSET (start..(end - 1))
  BY <1>3 DEF Cover
<1>5. IsFiniteSet(Cover(m, A)) /\ Cardinality(Cover(m, A \cup {a})) <= end - start
  BY <1>2, <1>4, FS_Subset
<1>6. IsFiniteSet(Span(m, a)) /\ Cardinality(Span(m, a)) = Header + m[a].size
  <2>1. /\ IsFiniteSet(a..(GetEndingAddress(m, a) - 1))
        /\ Cardinality(a..(GetEndingAddress(m, a) - 1)) = GetEndingAddress(m, a) - 1 - a + 1
    BY <1>1, FS_Interval
  <2>2. m[a].size \in Nat /\ Header \in Nat
    BY <1>1, SizeLemma, SizesAssumption
  <2>. QED
    BY <1>1, <2>1, <2>2, SMTT(30) DEF Span
<1>7. Cover(m, A) \cap Span(m, a) = {}
  <2>1. ASSUME NEW b \in A, NEW x \in Span(m, b), x \in Span(m, a) PROVE FALSE
    <3>1. b \in Nat /\ a \in Nat /\ a # b /\ b \in DOMAIN m /\ a \in DOMAIN m
      BY <1>1
    <3>2. GetEndingAddress(m, b) <= a \/ GetEndingAddress(m, a) <= b
      BY <3>1 DEF Apart
    <3>. QED
      BY <1>1, <2>1, <3>1, <3>2 DEF Span
  <2>. QED
    BY <2>1 DEF Cover
<1>8. Cover(m, A \cup {a}) = Cover(m, A) \cup Span(m, a)
  BY DEF Cover
<1>9. Cardinality(Cover(m, A) \cup Span(m, a)) =
        Cardinality(Cover(m, A)) + Cardinality(Span(m, a)) - Cardinality({})
  BY <1>5, <1>6, <1>7, FS_Union
<1>10. Cardinality(Cover(m, A)) \in Nat
  BY <1>5, FS_CardinalityType
<1>11. m[a].size \in Nat /\ Header \in Nat
  BY <1>1, SizeLemma, SizesAssumption
<1>. QED
  BY <1>5, <1>6, <1>8, <1>9, <1>10, <1>11, FS_EmptySet

LEMMA SameCover ==
  ASSUME NEW m, NEW w, NEW A, \A a \in A : w[a].size = m[a].size
  PROVE  Cover(w, A) = Cover(m, A)
  BY DEF Cover, Span, GetEndingAddress, GetTotalSize

LEMMA EmptyCover == ASSUME NEW m PROVE Cardinality(Cover(m, {})) = 0
  BY FS_EmptySet DEF Cover

(***************************************************************************)
(* Copying an object                                                       *)
(***************************************************************************)

LEMMA TypeLemma ==
  ASSUME TypeOK
  PROVE  /\ Len(held) \in Nat /\ Memory(mem, Len(held))
         /\ fromspace \in {1, 1 + SemiSize} /\ tospace \in {1, 1 + SemiSize} \ {fromspace}
         /\ fromspace \in Nat /\ tospace \in Nat /\ SemiSize \in Nat
         /\ current \in Nat /\ next \in Nat /\ curr \in Nat
<1>1. Len(held) \in Nat
  BY DEF TypeOK
<1>2. Memory(mem, Len(held))
  BY ObjectLemma DEF TypeOK, Memory
<1>3. /\ SemiSize \in Nat \ {0}
      /\ \/ fromspace = 1 /\ tospace = 1 + SemiSize
         \/ fromspace = 1 + SemiSize /\ tospace = 1
  BY SizesAssumption DEF TypeOK
<1>4. current \in Nat /\ next \in Nat /\ curr \in Nat
  BY <1>3 DEF TypeOK, Address
<1>. QED
  BY <1>1, <1>2, <1>3, <1>4

(* The places of objects in a collection.                                  *)
Places == TypeOK /\ Whole(mem) /\ Apart(mem) /\ OldHalf /\ Chain(mem, fromspace, next)

(* What a copy of a does to memory.                                        *)
Copied(a) ==
  /\ next \in DOMAIN mem' /\ mem'[next] = [mem[a] EXCEPT !.forwarding = UNALLOCATED]
  /\ a \in DOMAIN mem' /\ a # next
  /\ \A b \in DOMAIN mem' \ {next} :
       b \in DOMAIN mem /\ mem'[b] = IF b = a THEN [mem[a] EXCEPT !.forwarding = next] ELSE mem[b]
  /\ New' = New \cup {next} /\ next \notin New /\ Old' = Old

(* The copy is the same object, and every other one stays what it is.      *)
Same(o, p) == o.kind = p.kind /\ o.id = p.id /\ o.size = p.size /\ o.refs = p.refs

LEMMA OutsideLemma ==
  ASSUME Places, Collection, NEW a \in DOMAIN mem, ~Overlaps(a)
  PROVE  a # next /\ (GetEndingAddress(mem, a) <= next \/ next + GetTotalSize(mem[a]) <= a)
<1>1. /\ a \in Nat /\ GetEndingAddress(mem, a) = a + Header + mem[a].size
      /\ mem[a].size \in Nat \ {0} /\ Header \in Nat \ {0} /\ next \in Nat
      /\ GetTotalSize(mem[a]) = Header + mem[a].size
  BY SizeLemma, TypeLemma, SizesAssumption DEF Places, GetTotalSize
<1>2. a < next \/ next + GetTotalSize(mem[a]) <= a
  BY <1>1 DEF Overlaps
<1>3. a # next
  BY <1>1 DEF Overlaps
<1>4. ASSUME a < next PROVE GetEndingAddress(mem, a) <= next
  <2>1. CASE fromspace <= a
    <3>1. a \in Between(mem, fromspace, next)
      BY <1>4, <2>1 DEF Between
    <3>2. GetEndingAddress(mem, a) \in Between(mem, fromspace, next) \cup {next}
      BY <3>1 DEF Places, Chain
    <3>. QED
      BY <1>1, <3>2 DEF Between
  <2>2. CASE ~(fromspace <= a)
    <3>1. /\ fromspace \in {1, 1 + SemiSize} /\ SemiSize \in Nat /\ fromspace <= next
      BY TypeLemma DEF Places, Chain, Between
    <3>2. \/ GetEndingAddress(mem, a) <= 1 + SemiSize
          \/ 1 + SemiSize <= a
      BY DEF Places, Whole
    <3>3. a >= 1
      BY SizeLemma, TypeLemma DEF Places
    <3>. QED
      BY <1>1, <2>2, <3>1, <3>2, <3>3
  <2>. QED
    BY <2>1, <2>2
<1>. QED
  BY <1>2, <1>3, <1>4

LEMMA ProcessLemma ==
  ASSUME Places, Collection, NEW a \in DOMAIN mem, Fits(a), ~Overlaps(a), Process(a),
         UNCHANGED <<fromspace, tospace, current, held>>
  PROVE  /\ Copied(a) /\ Memory(mem', Len(held)) /\ Whole(mem') /\ Apart(mem')
         /\ Chain(mem', fromspace, next')
         /\ next' = next + Header + mem[a].size /\ next' \in Space(fromspace) /\ next < next'
<1> DEFINE w == Write(mem, next, mem[a])
           T == GetTotalSize(mem[a])
<1>1. /\ Len(held) \in Nat /\ Memory(mem, Len(held)) /\ SemiSize \in Nat
      /\ fromspace \in {1, 1 + SemiSize} /\ tospace \in {1, 1 + SemiSize} \ {fromspace}
      /\ fromspace \in Nat /\ tospace \in Nat /\ next \in Nat
  BY TypeLemma DEF Places
<1>2. /\ mem[a] \in Record(Len(held)) /\ mem[a].size \in Nat \ {0} /\ Header \in Nat \ {0}
      /\ T = Header + mem[a].size
  BY <1>1, SizeLemma, SizesAssumption DEF GetTotalSize
<1>3. next \in Space(fromspace) /\ next + Header + mem[a].size < fromspace + SemiSize
  <2>1. next + T < fromspace + SemiSize
    BY DEF Fits
  <2>2. fromspace <= next
    BY <1>1 DEF Places, Chain, Between
  <2>. QED
    BY <1>1, <1>2, <2>1, <2>2 DEF Space
<1>4. a # next /\ (GetEndingAddress(mem, a) <= next \/ next + T <= a)
  BY OutsideLemma
<1>5. /\ DOMAIN w = {b \in DOMAIN mem : GetEndingAddress(mem, b) <= next \/ next + T <= b} \cup {next}
      /\ w[next] = [mem[a] EXCEPT !.forwarding = UNALLOCATED]
      /\ \A b \in DOMAIN w \ {next} : b \in DOMAIN mem /\ w[b] = mem[b]
  BY DEF Write
<1>6. mem' = [w EXCEPT ![a].forwarding = next]
  BY DEF Process, Forwarded
<1>7. DOMAIN mem' = DOMAIN w /\ a \in DOMAIN w /\ next \in DOMAIN w
  BY <1>4, <1>5, <1>6
<1>8. mem'[a] = [mem[a] EXCEPT !.forwarding = next]
  BY <1>4, <1>5, <1>6, <1>7
<1>9. \A b \in DOMAIN mem' \ {a} : mem'[b] = w[b]
  BY <1>6, <1>7
<1>10. mem'[next] = [mem[a] EXCEPT !.forwarding = UNALLOCATED]
  BY <1>4, <1>5, <1>7, <1>9
<1>11. \A b \in DOMAIN mem' \ {next} :
         b \in DOMAIN mem /\ mem'[b] = IF b = a THEN [mem[a] EXCEPT !.forwarding = next] ELSE mem[b]
  BY <1>5, <1>7, <1>8, <1>9
<1>12. mem'[next].size = mem[a].size /\ mem'[a].size = mem[a].size
  BY <1>2, <1>8, <1>10 DEF Record
<1>13. \A b \in DOMAIN mem' \ {next} : mem'[b].size = mem[b].size
  BY <1>11, <1>12
<1>14. next + T = next + Header + mem[a].size
  BY <1>1, <1>2
<1>15. Extends(mem, mem', next, mem[a].size)
  BY <1>5, <1>7, <1>12, <1>13, <1>14 DEF Extends
<1>16. mem[a].size \in Sizes
  BY <1>2 DEF Record
<1>17. Whole(mem') /\ Apart(mem')
  BY <1>1, <1>3, <1>15, <1>16, ExtendsWhole, ExtendsApart DEF Places
<1>18. /\ Between(mem', fromspace, next + Header + mem[a].size) = Between(mem, fromspace, next) \cup {next}
       /\ Chain(mem', fromspace, next + Header + mem[a].size)
  BY <1>1, <1>15, <1>16, ExtendsChain DEF Places
<1>19. next' = next + Header + mem[a].size
  BY <1>14 DEF Process
<1>20. next' \in Space(fromspace) /\ next < next'
  <2>1. fromspace <= next
    BY <1>3 DEF Space
  <2> DEFINE s == mem[a].size
             n == next + Header + s
  <2>2. s \in Nat \ {0} /\ Header \in Nat \ {0} /\ n < fromspace + SemiSize /\ next' = n
    BY <1>2, <1>3, <1>19
  <2> HIDE DEF s
  <2>3. n \in fromspace..(fromspace + SemiSize - 1) /\ next < n
    BY <1>1, <2>1, <2>2
  <2>. QED
    BY <2>2, <2>3 DEF Space
<1>21. current \in Space(tospace)
  BY DEF Places, OldHalf
<1>22. Between(mem', tospace, current) = Between(mem, tospace, current)
  BY <1>1, <1>3, <1>15, <1>16, <1>21, ExtendsOther DEF Places
<1>23. New' = New \cup {next} /\ Old' = Old /\ next \notin New
  BY <1>1, <1>18, <1>19, <1>22 DEF New, Old, Between
<1>24. Memory(mem', Len(held))
  <2>1. next \in Address \ {UNALLOCATED}
    BY <1>1, <1>3 DEF Address, UNALLOCATED, Space
  <2>2. DOMAIN mem' \subseteq Address \ {UNALLOCATED}
    BY <1>1, <1>11, <2>1 DEF Memory
  <2>3. UNALLOCATED \in Address
    BY <1>1 DEF Address, UNALLOCATED
  <2>6. mem'[next] \in Record(Len(held)) /\ mem'[a] \in Record(Len(held))
    BY <1>2, <1>8, <1>10, <2>1, <2>3 DEF Record
  <2>4. \A b \in DOMAIN mem' : mem'[b] \in Record(Len(held))
    BY <1>1, <1>8, <1>11, <2>6 DEF Memory
  <2>5. mem' = [b \in DOMAIN mem' |-> mem'[b]]
    BY <1>6, <1>7
  <2>. QED
    BY <2>2, <2>4, <2>5 DEF Memory
<1>. QED
  BY <1>4, <1>7, <1>10, <1>11, <1>17, <1>18, <1>19, <1>20, <1>23, <1>24 DEF Copied

(* HasCopy, in terms of New.                                               *)
LEMMA HasCopyLemma ==
  ASSUME NEW a
  PROVE  HasCopy(a) <=> /\ a \in DOMAIN mem /\ mem[a].forwarding # UNALLOCATED
                        /\ mem[a].forwarding \in New /\ mem[mem[a].forwarding].id = mem[a].id
  BY DEF HasCopy, IsForwarding, New, Between, ObjectsUpTo

LEMMA OldNewLemma ==
  ASSUME Places, Collection
  PROVE  next \notin Old /\ Old \cap New = {} /\ Old \subseteq DOMAIN mem /\ New \subseteq DOMAIN mem
<1>1. /\ SemiSize \in Nat /\ next \in Nat
      /\ \/ fromspace = 1 /\ tospace = 1 + SemiSize
         \/ fromspace = 1 + SemiSize /\ tospace = 1
  BY TypeLemma DEF Places
<1>2. current \in tospace..(tospace + SemiSize - 1)
  BY DEF Places, OldHalf, Space
<1>3. next \in fromspace..(fromspace + SemiSize - 1)
  BY DEF Places, TypeOK, Frontier, Collection, Space
<1>4. Old \subseteq DOMAIN mem /\ New \subseteq DOMAIN mem
  BY DEF Old, New, Between
<1>5. \A b \in DOMAIN mem : b \in Nat
  BY TypeLemma, SizeLemma DEF Places
<1>6. next \notin Old
  BY <1>1, <1>2, <1>3 DEF Old, Between
<1>7. \A b \in DOMAIN mem : ~(b \in Old /\ b \in New)
  BY <1>1, <1>2, <1>3, <1>5 DEF Old, New, Between
<1>. QED
  BY <1>4, <1>6, <1>7

LEMMA SamePointers ==
  ASSUME NEW o, NEW p, Same(o, p), UNCHANGED locals
  PROVE  PointersOf(o)' = PointersOf(p)
  BY DEF Same, PointersOf

LEMMA CopiedLemma ==
  ASSUME Places, Collection, NEW a \in DOMAIN mem, Copied(a)
  PROVE  /\ Same(mem'[next], mem[a])
         /\ \A b \in DOMAIN mem' \ {next} : b \in DOMAIN mem /\ Same(mem'[b], mem[b])
         /\ mem'[a].forwarding = next /\ mem'[next].forwarding = UNALLOCATED
         /\ \A b \in DOMAIN mem' \ {a, next} : mem'[b].forwarding = mem[b].forwarding
         /\ Old \subseteq DOMAIN mem' /\ New \subseteq DOMAIN mem'
         /\ \A b \in Old : HasCopy(b) \/ b = a => HasCopy(b)'
<1>1. \A b \in DOMAIN mem : mem[b] \in Record(Len(held))
  BY TypeLemma, SizeLemma DEF Places
<1>2. Same(mem'[next], mem[a]) /\ mem'[next].forwarding = UNALLOCATED
  BY <1>1 DEF Copied, Same, Record
<1>3. Same(mem'[a], mem[a]) /\ mem'[a].forwarding = next
  BY <1>1 DEF Copied, Same, Record
<1>4. \A b \in DOMAIN mem' \ {a, next} : b \in DOMAIN mem /\ mem'[b] = mem[b]
  BY DEF Copied
<1>5. \A b \in DOMAIN mem' \ {next} : b \in DOMAIN mem /\ Same(mem'[b], mem[b])
  BY <1>3, <1>4 DEF Same
<1>6. Old \subseteq DOMAIN mem' /\ New \subseteq DOMAIN mem' /\ next \notin Old
  <2>1. Old' \subseteq DOMAIN mem' /\ New' \subseteq DOMAIN mem'
    BY DEF Old, New, Between
  <2>. QED
    BY <2>1, OldNewLemma DEF Copied
<1>7. next \in Nat \ {0}
  <2>1. next \in fromspace..(fromspace + SemiSize - 1)
    BY DEF Places, TypeOK, Frontier, Collection, Space
  <2>. QED
    BY <2>1, TypeLemma DEF Places
<1>8. ASSUME NEW b \in Old, HasCopy(b) \/ b = a PROVE HasCopy(b)'
  <2> DEFINE c == mem'[b].forwarding
  <2>1. HasCopy(b)' <=> /\ b \in DOMAIN mem' /\ c # UNALLOCATED /\ c \in New' /\ mem'[c].id = mem'[b].id
    BY DEF HasCopy, IsForwarding, New, Between, ObjectsUpTo
  <2>2. b \in DOMAIN mem' /\ b # next /\ mem'[b].id = mem[b].id
    BY <1>5, <1>6 DEF Same
  <2>3. CASE b = a
    BY <1>2, <1>3, <1>7, <2>1, <2>2, <2>3 DEF Copied, Same, UNALLOCATED
  <2>4. CASE b # a
    <3>1. HasCopy(b) /\ c = mem[b].forwarding
      BY <1>4, <1>8, <2>2, <2>4
    <3>2. c # UNALLOCATED /\ c \in New /\ mem[c].id = mem[b].id
      BY <3>1, HasCopyLemma
    <3>3. c \in New' /\ c # next /\ mem'[c].id = mem[c].id
      BY <1>5, <1>6, <3>2 DEF Copied, Same
    <3>. QED
      BY <2>1, <2>2, <3>2, <3>3
  <2>. QED
    BY <2>3, <2>4
<1>. QED
  BY <1>2, <1>3, <1>4, <1>5, <1>6, <1>8

(***************************************************************************)
(* Steps of the program                                                    *)
(***************************************************************************)

LEMMA SeqLemma == ASSUME NEW S, NEW T, S \subseteq T, NEW s \in Seq(S) PROVE s \in Seq(T)
  OBVIOUS

LEMMA AppendLemma == ASSUME NEW S, NEW s \in Seq(S), NEW e \in S PROVE Append(s, e) \in Seq(S)
  OBVIOUS

LEMMA RecordLemma == ASSUME NEW n \in Nat PROVE Record(n) \subseteq Record(n + 1)
  BY DEF Record

Kinds == {"object", "error", "class", "module"}

(* The new object extends fromspace, and the others stay.                  *)
LEMMA NewLemma ==
  ASSUME Inv, NEW kind \in Kinds, NEW size \in Sizes, NEW refs \in Seq(Address),
         Allocates(size), TryAllocate(kind, size, refs)
  PROVE  /\ Memory(mem', Len(held)') /\ Whole(mem') /\ Apart(mem')
         /\ Len(held)' = NewId /\ NewId \in Nat \ {0} /\ held' \in Seq(Address)
         /\ current' \in Space(fromspace) /\ current' \in Address /\ current \in Address
         /\ Chain(mem', fromspace, current')
         /\ Between(mem', fromspace, current') = Between(mem, fromspace, current) \cup {current}
         /\ mem'[current].id = NewId /\ mem'[current].kind = kind
         /\ \A b \in DOMAIN mem' \ {current} : b \in DOMAIN mem /\ mem'[b] = mem[b]
         /\ current \notin Between(mem, fromspace, current)
<1> DEFINE o == [kind |-> kind, id |-> NewId, size |-> size, refs |-> refs, forwarding |-> UNALLOCATED]
           w == Write(mem, current, o)
<1>1. /\ Len(held) \in Nat /\ Memory(mem, Len(held)) /\ SemiSize \in Nat
      /\ fromspace \in {1, 1 + SemiSize} /\ fromspace \in Nat /\ current \in Nat
  BY TypeLemma DEF Inv
<1>2. size \in Nat \ {0} /\ Header \in Nat \ {0} /\ GetTotalSize(o) = Header + size
  BY SizesAssumption DEF GetTotalSize
<1>3. /\ NewId = Len(held) + 1 /\ NewId \in Nat \ {0}
      /\ mem' = w /\ current' = current + Header + size /\ held' = Append(held, current)
  BY <1>1 DEF TryAllocate, NewId
<1>4. status = "run" /\ current + Header + size < fromspace + SemiSize
  BY DEF Allocates, Running, HasRoom
<1>5. current \in Space(fromspace) /\ Chain(mem, fromspace, current)
  BY <1>4 DEF Inv, TypeOK, Chains, Alive, Frontier, Collection
<1>6. current \in Address /\ current # UNALLOCATED /\ current' \in Space(fromspace) /\ current' \in Address
  BY <1>1, <1>2, <1>3, <1>4, <1>5 DEF Space, Address, UNALLOCATED
<1>7. /\ DOMAIN w = {b \in DOMAIN mem : GetEndingAddress(mem, b) <= current \/ current + GetTotalSize(o) <= b}
                      \cup {current}
      /\ w[current] = [o EXCEPT !.forwarding = UNALLOCATED]
      /\ \A b \in DOMAIN w \ {current} : b \in DOMAIN mem /\ w[b] = mem[b]
      /\ w = [b \in DOMAIN w |-> w[b]]
  BY DEF Write
<1>8. w[current] = o
  BY <1>7
<1>9. current + GetTotalSize(o) = current + Header + size
  BY <1>1, <1>2
<1>10. Extends(mem, w, current, size)
  BY <1>7, <1>8, <1>9 DEF Extends
<1>11. Whole(w) /\ Apart(w)
  BY <1>1, <1>4, <1>5, <1>10, ExtendsWhole, ExtendsApart DEF Inv
<1>12. /\ Between(w, fromspace, current + Header + size) = Between(mem, fromspace, current) \cup {current}
       /\ Chain(w, fromspace, current + Header + size)
  BY <1>1, <1>5, <1>10, ExtendsChain
<1>13. held \in Seq(Address)
  BY DEF Inv, TypeOK
<1>14. held' \in Seq(Address) /\ Len(held)' = NewId
  BY <1>3, <1>6, <1>13
<1>15. Memory(w, NewId)
  <2>1. o \in Record(NewId)
    BY <1>1, <1>3, <1>6 DEF Record, Kinds, Address, UNALLOCATED
  <2>2. \A b \in DOMAIN w : w[b] \in Record(NewId)
    BY <1>1, <1>3, <1>7, <1>8, <2>1, RecordLemma DEF Memory
  <2>3. DOMAIN w \subseteq Address \ {UNALLOCATED}
    BY <1>1, <1>6, <1>7 DEF Memory
  <2>. QED
    BY <1>7, <2>2, <2>3 DEF Memory
<1>16. current \notin Between(mem, fromspace, current)
  BY <1>1 DEF Between
<1>. QED
  BY <1>3, <1>6, <1>7, <1>8, <1>11, <1>12, <1>14, <1>15, <1>16

LEMMA AllocateLemma ==
  ASSUME Inv, NEW kind \in Kinds, NEW size \in Sizes, NEW refs \in Seq(Address),
         Allocates(size), TryAllocate(kind, size, refs),
         DOMAIN locals' \subseteq 1..NewId, locals' \in [DOMAIN locals' -> Seq(Address)],
         DOMAIN locals \subseteq DOMAIN locals', kind = "module" => NewId \in DOMAIN locals',
         classes' \in Seq(Root'), modules' \in Seq(Root'), RootIds',
         \A i \in DOMAIN Roots' :
           \/ Roots'[i] = [id |-> NewId, at |-> current]
           \/ \E j \in DOMAIN Roots : Roots'[i] = Roots[j]
  PROVE  Inv'
<1>1. /\ Memory(mem', Len(held)') /\ Whole(mem') /\ Apart(mem')
      /\ Len(held)' = NewId /\ held' \in Seq(Address)
      /\ current' \in Space(fromspace) /\ current' \in Address
      /\ Chain(mem', fromspace, current')
      /\ Between(mem', fromspace, current') = Between(mem, fromspace, current) \cup {current}
      /\ mem'[current].id = NewId /\ mem'[current].kind = kind
      /\ \A b \in DOMAIN mem' \ {current} : b \in DOMAIN mem /\ mem'[b] = mem[b]
      /\ current \notin Between(mem, fromspace, current)
  BY NewLemma
<1>2. /\ status = "run" /\ status' = "run" /\ fromspace' = fromspace /\ tospace' = tospace
      /\ UNCHANGED <<next, curr, index, collections, clean>>
  BY DEF Allocates, Running, TryAllocate, collector
<1>3. ~Collection' /\ Alive' /\ Frontier' = current'
  BY <1>2 DEF Collection, Alive, Frontier
<1>4. TypeOK'
  <2>1. mem' \in [DOMAIN mem' -> Object'] /\ DOMAIN mem' \subseteq Address \ {UNALLOCATED}
    BY <1>1 DEF Memory, Object, Record
  <2>2. \A a \in DOMAIN mem' : mem'[a].kind = "module" => mem'[a].id \in DOMAIN locals'
    BY <1>1 DEF Inv, TypeOK
  <2>3. Address' = Address /\ Space(fromspace)' = Space(fromspace)
    BY <1>2 DEF Address, Space
  <2>. QED
    BY <1>1, <1>2, <1>3, <2>1, <2>2, <2>3 DEF Inv, TypeOK
<1>5. OldHalf' /\ Room' /\ Clean'
  BY <1>2, <1>3 DEF OldHalf, Room, Clean, Collection
<1>6. Chains'
  BY <1>1, <1>2, <1>3 DEF Chains
<1>7. RootPlaces'
  <2>1. ASSUME NEW i \in DOMAIN Roots'
        PROVE  Roots'[i].at \in Between(mem', fromspace, current') /\ mem'[Roots'[i].at].id = Roots'[i].id
    <3>1. CASE Roots'[i] = [id |-> NewId, at |-> current]
      BY <1>1, <3>1
    <3>2. ASSUME NEW j \in DOMAIN Roots, Roots'[i] = Roots[j]
          PROVE  Roots'[i].at \in Between(mem', fromspace, current') /\ mem'[Roots'[i].at].id = Roots'[i].id
      <4>1. Roots[j].at \in Between(mem, fromspace, current) /\ mem[Roots[j].at].id = Roots[j].id
        BY <1>2 DEF Inv, RootPlaces, IsAt, Running
      <4>2. Roots[j].at \in DOMAIN mem' \ {current}
        BY <1>1, <4>1 DEF Between
      <4>. QED
        BY <1>1, <3>2, <4>1, <4>2
    <3>. QED
      BY <2>1, <3>1, <3>2
  <2>. QED
    BY <1>2, <2>1 DEF RootPlaces, IsAt, Running
<1>. QED
  BY <1>1, <1>4, <1>5, <1>6, <1>7 DEF Inv

(* The two lists of roots as one.                                          *)
LEMMA ConcatLemma ==
  ASSUME NEW S, NEW s \in Seq(S), NEW t \in Seq(S)
  PROVE  /\ s \o t \in Seq(S) /\ Len(s \o t) = Len(s) + Len(t)
         /\ DOMAIN (s \o t) = 1..(Len(s) + Len(t))
         /\ Len(s) \in Nat /\ Len(t) \in Nat
         /\ \A i \in DOMAIN s : i \in DOMAIN (s \o t) /\ (s \o t)[i] = s[i]
         /\ \A i \in DOMAIN t : Len(s) + i \in DOMAIN (s \o t) /\ (s \o t)[Len(s) + i] = t[i]
         /\ \A i \in DOMAIN (s \o t) :
              IF i <= Len(s) THEN i \in DOMAIN s /\ (s \o t)[i] = s[i]
              ELSE i - Len(s) \in DOMAIN t /\ (s \o t)[i] = t[i - Len(s)]
  OBVIOUS

(* A new object in one of the two lists, or in none.                       *)
LEMMA RegisterLemma ==
  ASSUME Inv, NEW e, e = [id |-> NewId, at |-> current], Len(held)' = NewId,
         \/ classes' = Append(classes, e) /\ modules' = modules
         \/ modules' = Append(modules, e) /\ classes' = classes
         \/ classes' = classes /\ modules' = modules
  PROVE  /\ classes' \in Seq(Root') /\ modules' \in Seq(Root') /\ RootIds'
         /\ \A i \in DOMAIN Roots' : Roots'[i] = e \/ \E j \in DOMAIN Roots : Roots'[i] = Roots[j]
<1>1. /\ Len(held) \in Nat /\ NewId = Len(held) + 1 /\ current \in Address
      /\ classes \in Seq(Root) /\ modules \in Seq(Root)
  BY TypeLemma DEF Inv, TypeOK, NewId
<1>2. Root \subseteq Root' /\ e \in Root'
  BY <1>1 DEF Root, Address
<1>3. classes \in Seq(Root') /\ modules \in Seq(Root')
  BY <1>1, <1>2, SeqLemma
<1>4. classes' \in Seq(Root') /\ modules' \in Seq(Root')
  BY <1>2, <1>3, AppendLemma
<1>5. /\ \A i \in DOMAIN classes : classes[i].id # NewId
      /\ \A i \in DOMAIN modules : modules[i].id # NewId
  <2>1. \A r \in Root : r.id # NewId
    BY <1>1 DEF Root
  <2>. QED
    BY <1>1, <2>1
<1>6. Distinct(classes) /\ Distinct(modules)
      /\ \A i \in DOMAIN classes, j \in DOMAIN modules : classes[i].id # modules[j].id
  BY DEF Inv, RootIds
<1>7. e.id = NewId
  OBVIOUS
<1>11. /\ \A k \in DOMAIN classes : k \in DOMAIN Roots /\ Roots[k] = classes[k]
       /\ \A k \in DOMAIN modules :
            Len(classes) + k \in DOMAIN Roots /\ Roots[Len(classes) + k] = modules[k]
  BY <1>1, ConcatLemma DEF Roots
<1>8. CASE classes' = Append(classes, e) /\ modules' = modules
  <2>1. \A i \in DOMAIN classes' : (i \in DOMAIN classes /\ classes'[i] = classes[i]) \/
                                   (i = Len(classes) + 1 /\ classes'[i] = e)
    BY <1>1, <1>8
  <2>2. RootIds'
    BY <1>5, <1>6, <1>7, <1>8, <2>1 DEF RootIds, Distinct
  <2>3. ASSUME NEW i \in DOMAIN Roots' PROVE Roots'[i] = e \/ \E j \in DOMAIN Roots : Roots'[i] = Roots[j]
    <3>1. IF i <= Len(classes') THEN i \in DOMAIN classes' /\ Roots'[i] = classes'[i]
          ELSE i - Len(classes') \in DOMAIN modules' /\ Roots'[i] = modules'[i - Len(classes')]
      BY <1>4, ConcatLemma DEF Roots
    <3>. QED
      BY <1>8, <2>1, <3>1, <1>11
  <2>. QED
    BY <1>4, <2>2, <2>3
<1>9. CASE modules' = Append(modules, e) /\ classes' = classes
  <2>1. \A i \in DOMAIN modules' : (i \in DOMAIN modules /\ modules'[i] = modules[i]) \/
                                   (i = Len(modules) + 1 /\ modules'[i] = e)
    BY <1>1, <1>9
  <2>2. RootIds'
    BY <1>5, <1>6, <1>7, <1>9, <2>1 DEF RootIds, Distinct
  <2>3. ASSUME NEW i \in DOMAIN Roots' PROVE Roots'[i] = e \/ \E j \in DOMAIN Roots : Roots'[i] = Roots[j]
    <3>1. IF i <= Len(classes') THEN i \in DOMAIN classes' /\ Roots'[i] = classes'[i]
          ELSE i - Len(classes') \in DOMAIN modules' /\ Roots'[i] = modules'[i - Len(classes')]
      BY <1>4, ConcatLemma DEF Roots
    <3>. QED
      BY <1>9, <2>1, <3>1, <1>11
  <2>. QED
    BY <1>4, <2>2, <2>3
<1>10. CASE classes' = classes /\ modules' = modules
  BY <1>4, <1>6, <1>10 DEF RootIds, Roots
<1>. QED
  BY <1>8, <1>9, <1>10

LEMMA KnownLemma == ASSUME Inv, NEW a \in Known PROVE a \in Address
  BY DEF Inv, TypeOK, Known

LEMMA NewObjectStep ==
  ASSUME Inv, NEW size \in Sizes, NEW a \in Known \cup {UNALLOCATED},
         \/ NewObject(size)
         \/ a \in Known /\ (NewError(size, a) \/ NewClass(size, a) \/ NewModule(size, a))
  PROVE  Inv'
<1> DEFINE e == [id |-> NewId, at |-> current]
<1>1. /\ DOMAIN locals \subseteq 1..Len(held) /\ locals \in [DOMAIN locals -> Seq(Address)]
      /\ NewId = Len(held) + 1 /\ Len(held) \in Nat
  BY TypeLemma DEF Inv, TypeOK, NewId
<1>2. <<>> \in Seq(Address) /\ (a \in Known => <<a>> \in Seq(Address))
  BY KnownLemma
<1>3. CASE NewObject(size)
  <2>1. /\ Allocates(size) /\ TryAllocate("object", size, <<>>)
        /\ classes' = classes /\ modules' = modules /\ locals' = locals
    BY <1>3 DEF NewObject, roots
  <2>2. Len(held)' = NewId
    BY <1>2, <2>1, NewLemma DEF Kinds
  <2>3. /\ classes' \in Seq(Root') /\ modules' \in Seq(Root') /\ RootIds'
        /\ \A i \in DOMAIN Roots' : Roots'[i] = e \/ \E j \in DOMAIN Roots : Roots'[i] = Roots[j]
    BY <2>1, <2>2, RegisterLemma
  <2>4. DOMAIN locals' \subseteq 1..NewId
    BY <1>1, <2>1
  <2>. QED
    BY <1>1, <1>2, <2>1, <2>3, <2>4, AllocateLemma DEF Kinds
<1>4. CASE a \in Known /\ NewError(size, a)
  <2>1. /\ Allocates(size) /\ TryAllocate("error", size, <<a>>)
        /\ classes' = classes /\ modules' = modules /\ locals' = locals
    BY <1>4 DEF NewError, roots
  <2>2. Len(held)' = NewId
    BY <1>2, <1>4, <2>1, NewLemma DEF Kinds
  <2>3. /\ classes' \in Seq(Root') /\ modules' \in Seq(Root') /\ RootIds'
        /\ \A i \in DOMAIN Roots' : Roots'[i] = e \/ \E j \in DOMAIN Roots : Roots'[i] = Roots[j]
    BY <2>1, <2>2, RegisterLemma
  <2>4. DOMAIN locals' \subseteq 1..NewId
    BY <1>1, <2>1
  <2>. QED
    BY <1>1, <1>2, <1>4, <2>1, <2>3, <2>4, AllocateLemma DEF Kinds
<1>5. CASE a \in Known /\ NewClass(size, a)
  <2>1. /\ Allocates(size) /\ TryAllocate("class", size, <<a>>)
        /\ classes' = Append(classes, e) /\ modules' = modules /\ locals' = locals
    BY <1>5 DEF NewClass
  <2>2. Len(held)' = NewId
    BY <1>2, <1>5, <2>1, NewLemma DEF Kinds
  <2>3. /\ classes' \in Seq(Root') /\ modules' \in Seq(Root') /\ RootIds'
        /\ \A i \in DOMAIN Roots' : Roots'[i] = e \/ \E j \in DOMAIN Roots : Roots'[i] = Roots[j]
    BY <2>1, <2>2, RegisterLemma
  <2>4. DOMAIN locals' \subseteq 1..NewId
    BY <1>1, <2>1
  <2>. QED
    BY <1>1, <1>2, <1>5, <2>1, <2>3, <2>4, AllocateLemma DEF Kinds
<1>6. CASE a \in Known /\ NewModule(size, a)
  <2>1. /\ Allocates(size) /\ TryAllocate("module", size, <<a>>)
        /\ modules' = Append(modules, e) /\ classes' = classes
        /\ locals' = [id \in DOMAIN locals \cup {NewId} |-> IF id = NewId THEN <<>> ELSE locals[id]]
    BY <1>6 DEF NewModule
  <2>2. Len(held)' = NewId
    BY <1>2, <1>6, <2>1, NewLemma DEF Kinds
  <2>3. /\ classes' \in Seq(Root') /\ modules' \in Seq(Root') /\ RootIds'
        /\ \A i \in DOMAIN Roots' : Roots'[i] = e \/ \E j \in DOMAIN Roots : Roots'[i] = Roots[j]
    BY <2>1, <2>2, RegisterLemma
  <2>4. /\ DOMAIN locals' = DOMAIN locals \cup {NewId} /\ DOMAIN locals' \subseteq 1..NewId
        /\ locals' \in [DOMAIN locals' -> Seq(Address)]
    BY <1>1, <1>2, <2>1
  <2>. QED
    BY <1>1, <1>2, <1>6, <2>1, <2>3, <2>4, AllocateLemma DEF Kinds
<1>. QED
  BY <1>3, <1>4, <1>5, <1>6

(* A step that changes locals only, while the program runs.                *)
LEMMA LocalsStep ==
  ASSUME Inv, Running, DOMAIN locals' = DOMAIN locals, locals' \in [DOMAIN locals' -> Seq(Address)],
         UNCHANGED <<mem, zone, roots, held, status, collector>>
  PROVE  Inv'
<1> USE DEF zone, roots, collector, Running
<1>1. TypeOK'
  BY DEF Inv, TypeOK, Frontier, Collection, Object, Root, Address, Space
<1>2. OldHalf' /\ Room' /\ Clean'
  BY DEF OldHalf, Room, Clean, Collection
<1>3. Chains' /\ RootIds'
  BY DEF Inv, Chains, RootIds, Alive, Frontier, Collection
<1>4. RootPlaces'
  BY DEF Inv, RootPlaces, IsAt, Roots
<1>. QED
  BY <1>1, <1>2, <1>3, <1>4 DEF Inv

LEMMA LocalStep ==
  ASSUME Inv, NEW id \in DOMAIN locals, NEW a \in Known \cup {UNALLOCATED},
         AddLocal(id, a) \/ \E i \in 1..MaxLocals : SetLocal(id, i, a)
  PROVE  Inv'
<1>1. a \in Address
  BY KnownLemma, SizesAssumption DEF Address, UNALLOCATED
<1>2. locals \in [DOMAIN locals -> Seq(Address)] /\ locals[id] \in Seq(Address)
  BY DEF Inv, TypeOK
<1>3. CASE AddLocal(id, a)
  <2>1. locals' = [locals EXCEPT ![id] = Append(locals[id], a)]
    BY <1>3 DEF AddLocal
  <2>2. Append(locals[id], a) \in Seq(Address)
    BY <1>1, <1>2
  <2>3. DOMAIN locals' = DOMAIN locals /\ locals' \in [DOMAIN locals' -> Seq(Address)]
    BY <1>2, <2>1, <2>2
  <2>. QED
    BY <1>3, <2>3, LocalsStep DEF AddLocal
<1>4. ASSUME NEW i \in 1..MaxLocals, SetLocal(id, i, a) PROVE Inv'
  <2>1. i \in DOMAIN locals[id] /\ locals' = [locals EXCEPT ![id] = [locals[id] EXCEPT ![i] = a]]
    BY <1>4 DEF SetLocal
  <2>2. [locals[id] EXCEPT ![i] = a] \in Seq(Address)
    BY <1>1, <1>2, <2>1
  <2>3. DOMAIN locals' = DOMAIN locals /\ locals' \in [DOMAIN locals' -> Seq(Address)]
    BY <1>2, <2>1, <2>2
  <2>. QED
    BY <1>4, <2>3, LocalsStep DEF SetLocal
<1>. QED
  BY <1>3, <1>4

(* The program ends.                                                       *)
LEMMA EndStep == ASSUME Inv, Abort \/ Wild PROVE Inv'
<1> USE DEF zone, roots, collector, Abort, Wild
<1>1. ~Collection' /\ ~Alive' /\ ~Running'
  BY DEF Collection, Alive, Running
<1>2. TypeOK'
  BY DEF Inv, TypeOK, Object, Root, Address
<1>3. OldHalf' /\ Room' /\ Clean' /\ Chains' /\ RootPlaces'
  BY <1>1 DEF OldHalf, Room, Clean, Chains, RootPlaces, Collection, Alive, Running
<1>4. RootIds'
  BY DEF Inv, RootIds
<1>. QED
  BY <1>2, <1>3, <1>4 DEF Inv

LEMMA ChainEnds ==
  ASSUME NEW n \in Nat, NEW m, Memory(m, n), NEW start \in Nat, NEW end \in Nat, Chain(m, start, end)
  PROVE  start <= end /\ \A a \in Between(m, start, end) : GetEndingAddress(m, a) <= end
<1>1. start <= end
  BY DEF Chain, Between
<1>. QED
  BY <1>1, SizeLemma DEF Chain, Between

(* A collection begins: the objects of the program are the old ones.       *)
LEMMA CollectStep == ASSUME Inv, Collect PROVE Inv'
<1>1. /\ status = "run" /\ status' = "roots" /\ fromspace' = tospace /\ tospace' = fromspace
      /\ next' = tospace /\ curr' = tospace /\ index' = 1 /\ clean' = Undamaged
      /\ collections' = collections + 1
      /\ UNCHANGED <<mem, current, classes, modules, locals, held>>
  BY DEF Collect, Running, roots
<1>2. /\ Len(held) \in Nat /\ Memory(mem, Len(held)) /\ SemiSize \in Nat \ {0}
      /\ fromspace \in Nat /\ tospace \in Nat /\ current \in Nat
      /\ \/ fromspace = 1 /\ tospace = 1 + SemiSize
         \/ fromspace = 1 + SemiSize /\ tospace = 1
  BY TypeLemma, SizesAssumption DEF Inv
<1>3. Collection' /\ Alive' /\ Frontier' = tospace /\ Frontier = current /\ Alive
  BY <1>1 DEF Collection, Alive, Frontier
<1>4. /\ current \in Space(fromspace) /\ Chain(mem, fromspace, current)
      /\ \A a \in Between(mem, fromspace, current) : GetEndingAddress(mem, a) <= current
  <2>1. current \in Space(fromspace) /\ Chain(mem, fromspace, current)
    BY <1>3 DEF Inv, TypeOK, Chains, Alive
  <2>. QED
    BY <1>2, <2>1, ChainEnds
<1>5. Old' = Between(mem, fromspace, current) /\ New' = {} /\ Between(mem, tospace, tospace) = {}
  <2>1. Between(mem, tospace, tospace) = {}
    BY <1>2, SizeLemma DEF Between
  <2>. QED
    BY <1>1, <2>1 DEF Old, New
<1>6. TypeOK'
  <2>1. tospace \in Address /\ tospace \in Space(tospace) /\ Address' = Address
    BY <1>2 DEF Address, Space
  <2>2. Object' = Object /\ Root' = Root
    BY <1>1 DEF Object, Root, Address
  <2>3. Undamaged \in BOOLEAN
    BY DEF Undamaged
  <2>4. Space(fromspace)' = Space(tospace)
    BY <1>1 DEF Space
  <2>. QED
    BY <1>1, <1>2, <1>3, <2>1, <2>2, <2>3, <2>4 DEF Inv, TypeOK
<1>7. OldHalf'
  BY <1>1, <1>4, <1>5 DEF OldHalf, Space
<1>8. Chains'
  BY <1>1, <1>3, <1>5 DEF Chains, Chain
<1>9. Whole(mem') /\ Apart(mem') /\ RootIds'
  BY <1>1 DEF Inv, RootIds
<1>10. RootPlaces'
  <2>1. \A i \in DOMAIN Roots : i \in Nat \ {0} /\ IsAt(Roots[i], Between(mem, fromspace, current))
    <3>1. classes \in Seq(Root) /\ modules \in Seq(Root)
      BY DEF Inv, TypeOK
    <3>2. DOMAIN Roots \subseteq Nat \ {0}
      BY <3>1, ConcatLemma DEF Roots
    <3>. QED
      BY <1>1, <3>2 DEF Inv, RootPlaces, Running
  <2>2. Roots' = Roots
    BY <1>1 DEF Roots
  <2>. QED
    BY <1>1, <1>5, <2>1, <2>2 DEF RootPlaces, IsAt, Running
<1>11. RootsDone' = {}
  <2>1. classes \in Seq(Root) /\ modules \in Seq(Root) /\ Roots' = Roots
    BY <1>1 DEF Inv, TypeOK, Roots
  <2>2. DOMAIN Roots \subseteq Nat \ {0}
    BY <2>1, ConcatLemma DEF Roots
  <2>. QED
    BY <1>1, <2>1, <2>2 DEF RootsDone
<1>12. Room'
  <2>1. Cardinality(Cover(mem', RootsDone')) = 0
    BY <1>11, EmptyCover
  <2>. QED
    BY <1>1, <1>2, <2>1 DEF Room
<1>13. ASSUME Undamaged PROVE Closed' /\ Single' /\ Copies' /\ CleanRoots'
  <2>1. ObjectsUpTo(current) = Old'
    BY <1>5 DEF ObjectsUpTo, Between
  <2>4. \A a : PointersOf(mem[a])' = PointersOf(mem[a])
    BY <1>1 DEF PointersOf
  <2>2. Closed' /\ Single'
    BY <1>1, <1>13, <2>1, <2>4 DEF Undamaged, Closed, Single
  <2>3. \A a \in Old' : ~IsForwarding(mem, a)
    BY <1>13, <2>1 DEF Undamaged
  <2>. QED
    BY <1>1, <1>5, <1>11, <2>2, <2>3 DEF Copies, CleanRoots, Moved, IsForwarding
<1>14. Clean'
  BY <1>1, <1>13 DEF Clean
<1>. QED
  BY <1>6, <1>7, <1>8, <1>9, <1>10, <1>12, <1>14 DEF Inv

(***************************************************************************)
(* Steps of a collection that copy an object                               *)
(***************************************************************************)

LEMMA PlacesLemma ==
  ASSUME Inv, Collection
  PROVE  /\ Places /\ next \in Space(fromspace) /\ current \in Space(tospace)
         /\ \A a \in Old : GetEndingAddress(mem, a) <= current
<1>1. Alive /\ Frontier = next
  BY DEF Collection, Alive, Frontier
<1>. QED
  BY <1>1 DEF Inv, Places, Chains, OldHalf, TypeOK, Alive

(* Copies of old objects do not overlap their originals.                   *)
LEMMA OldOutside == ASSUME Inv, Collection, NEW a \in Old, Fits(a) PROVE ~Overlaps(a)
<1>1. /\ SemiSize \in Nat /\ next \in Nat /\ current \in Nat
      /\ Len(held) \in Nat /\ Memory(mem, Len(held))
      /\ \/ fromspace = 1 /\ tospace = 1 + SemiSize
         \/ fromspace = 1 + SemiSize /\ tospace = 1
  BY TypeLemma DEF Inv
<1>2. a \in DOMAIN mem /\ tospace <= a /\ a < current
  BY DEF Old, Between
<1>3. a \in Nat /\ mem[a].size \in Nat /\ Header \in Nat
  BY <1>1, <1>2, SizeLemma, SizesAssumption
<1>4. /\ current \in tospace..(tospace + SemiSize - 1)
      /\ next \in fromspace..(fromspace + SemiSize - 1)
  BY PlacesLemma DEF Space
<1>5. next + (Header + mem[a].size) < fromspace + SemiSize
  BY DEF Fits, GetTotalSize
<1>6. a \notin next..(next + (Header + mem[a].size) - 1)
  <2>1. CASE fromspace = 1 /\ tospace = 1 + SemiSize
    BY <1>1, <1>2, <1>3, <1>4, <1>5, <2>1
  <2>2. CASE fromspace = 1 + SemiSize /\ tospace = 1
    BY <1>1, <1>2, <1>3, <1>4, <1>5, <2>2
  <2>. QED
    BY <1>1, <2>1, <2>2
<1>. QED
  BY <1>6 DEF Overlaps, GetTotalSize

(* Room for one more old object.                                           *)
LEMMA RoomLemma ==
  ASSUME Inv, Collection, NEW A \in SUBSET Old, NEW a \in Old \ A,
         next - fromspace = Cardinality(Cover(mem, A))
  PROVE  /\ Fits(a)
         /\ (next + Header + mem[a].size) - fromspace = Cardinality(Cover(mem, A \cup {a}))
<1>1. /\ SemiSize \in Nat /\ next \in Nat /\ current \in Nat /\ fromspace \in Nat /\ tospace \in Nat
      /\ Len(held) \in Nat /\ Memory(mem, Len(held))
  BY TypeLemma DEF Inv
<1>2. a \in DOMAIN mem /\ Apart(mem)
  BY DEF Old, Between, Inv
<1>3. a \in Nat /\ mem[a].size \in Nat /\ Header \in Nat
  BY <1>1, <1>2, SizeLemma, SizesAssumption
<1>4. tospace <= current /\ current < tospace + SemiSize
  BY <1>1, PlacesLemma DEF Space
<1>5. \A b \in Between(mem, tospace, current) : GetEndingAddress(mem, b) <= current
  BY PlacesLemma DEF Old
<1>6. /\ Cardinality(Cover(mem, A)) \in Nat
      /\ Cardinality(Cover(mem, A \cup {a})) = Cardinality(Cover(mem, A)) + Header + mem[a].size
      /\ Cardinality(Cover(mem, A \cup {a})) <= current - tospace
  BY <1>1, <1>2, <1>4, <1>5, CoverLemma DEF Old
<1>7. (next + Header + mem[a].size) - fromspace = Cardinality(Cover(mem, A \cup {a}))
  BY <1>1, <1>3, <1>6
<1>8. (next + Header + mem[a].size) - fromspace <= current - tospace
  BY <1>6, <1>7
<1>9. next + (Header + mem[a].size) < fromspace + SemiSize
  BY <1>1, <1>3, <1>4, <1>8, SMTT(30)
<1>. QED
  BY <1>7, <1>9 DEF Fits, GetTotalSize

(* What every copy keeps.                                                  *)
LEMMA CopyPlaces ==
  ASSUME Inv, status \in {"roots", "scan"}, NEW a \in DOMAIN mem, Fits(a), ~Overlaps(a), Process(a),
         index' \in Nat \ {0},
         UNCHANGED <<zone, roots, locals, held, status, curr, collections, clean>>
  PROVE  /\ TypeOK' /\ Whole(mem') /\ Apart(mem') /\ OldHalf' /\ Chains' /\ RootIds'
         /\ Copied(a) /\ next' = next + Header + mem[a].size /\ next < next'
<1>1. Collection /\ Places
  <2>1. Collection
    BY DEF Collection
  <2>. QED
    BY <2>1, PlacesLemma
<1>2. /\ UNCHANGED <<fromspace, tospace, current, classes, modules, locals, held, status, curr>>
      /\ UNCHANGED <<collections, clean>>
  BY DEF zone, roots
<1>3. /\ Copied(a) /\ Memory(mem', Len(held)) /\ Whole(mem') /\ Apart(mem')
      /\ Chain(mem', fromspace, next')
      /\ next' = next + Header + mem[a].size /\ next' \in Space(fromspace) /\ next < next'
  BY <1>1, <1>2, ProcessLemma
<1>4. Collection' /\ Alive' /\ Frontier' = next'
  BY <1>2 DEF Collection, Alive, Frontier
<1>5. /\ \A b \in DOMAIN mem' \ {next} : b \in DOMAIN mem /\ Same(mem'[b], mem[b])
      /\ Same(mem'[next], mem[a])
      /\ Old \subseteq DOMAIN mem' /\ next \notin Old
  BY <1>1, <1>3, CopiedLemma, OldNewLemma
<1>6. TypeOK'
  <2>1. mem' \in [DOMAIN mem' -> Object'] /\ DOMAIN mem' \subseteq Address \ {UNALLOCATED}
    BY <1>2, <1>3 DEF Memory, Object, Record
  <2>2. \A b \in DOMAIN mem' : mem'[b].kind = "module" => mem'[b].id \in DOMAIN locals'
    <3>1. \A b \in DOMAIN mem : mem[b].kind = "module" => mem[b].id \in DOMAIN locals
      BY DEF Inv, TypeOK
    <3>. QED
      BY <1>2, <1>5, <3>1 DEF Same
  <2>3. next' \in Address
    <3>1. /\ fromspace \in {1, 1 + SemiSize} /\ SemiSize \in Nat
      BY <1>1, TypeLemma DEF Places
    <3>. QED
      BY <1>3, <3>1 DEF Space, Address
  <2>4. /\ Address' = Address /\ Root' = Root /\ Space(fromspace)' = Space(fromspace)
    BY <1>2 DEF Address, Root, Space
  <2>. QED
    BY <1>2, <1>3, <1>4, <2>1, <2>2, <2>3, <2>4 DEF Inv, TypeOK
<1>7. OldHalf'
  <2>1. current \in Space(tospace) /\ \A b \in Old : GetEndingAddress(mem, b) <= current
    BY <1>1, PlacesLemma
  <2>2. \A b \in Old : GetEndingAddress(mem', b) = GetEndingAddress(mem, b)
    BY <1>5 DEF Same, GetEndingAddress, GetTotalSize
  <2>3. Space(tospace)' = Space(tospace) /\ Old' = Old
    BY <1>2, <1>3 DEF Space, Copied
  <2>. QED
    BY <1>2, <2>1, <2>2, <2>3 DEF OldHalf
<1>8. Chains'
  BY <1>2, <1>3, <1>4 DEF Inv, Chains, Copied
<1>9. RootIds'
  BY <1>2 DEF Inv, RootIds
<1>. QED
  BY <1>3, <1>6, <1>7, <1>8, <1>9

(* What a copy keeps in a clean collection.                                *)
LEMMA CleanCopy ==
  ASSUME Places, Collection, Closed, Single, Copies,
         NEW a \in Old, ~IsForwarding(mem, a), Copied(a), UNCHANGED locals
  PROVE  Closed' /\ Single' /\ Copies' /\ Moved' = Moved \cup {a}
<1>1. /\ Same(mem'[next], mem[a])
      /\ \A b \in DOMAIN mem' \ {next} : b \in DOMAIN mem /\ Same(mem'[b], mem[b])
      /\ mem'[a].forwarding = next /\ mem'[next].forwarding = UNALLOCATED
      /\ \A b \in DOMAIN mem' \ {a, next} : mem'[b].forwarding = mem[b].forwarding
      /\ Old \subseteq DOMAIN mem' /\ New \subseteq DOMAIN mem'
      /\ \A b \in Old : HasCopy(b) \/ b = a => HasCopy(b)'
      /\ a \in DOMAIN mem
  <2>1. a \in DOMAIN mem
    BY DEF Old, Between
  <2>. QED
    BY <2>1, CopiedLemma
<1>2. next \notin Old /\ Old' = Old /\ New' = New \cup {next} /\ next \notin New /\ Old \cap New = {}
  BY OldNewLemma DEF Copied
<1>3. \A b \in Old \cup New : Same(mem'[b], mem[b])
  BY <1>1, <1>2
<1>4. Closed'
  <2>1. \A b \in Old : PointersOf(mem[b])' = PointersOf(mem[b])
    BY <1>3 DEF Same, PointersOf
  <2>. QED
    BY <1>2, <2>1 DEF Closed
<1>5. Single'
  BY <1>2, <1>3 DEF Single, Same
<1>6. next # UNALLOCATED /\ \A b \in New : b # UNALLOCATED
  <2>1. next \in fromspace..(fromspace + SemiSize - 1)
    BY DEF Places, TypeOK, Frontier, Collection, Space
  <2>2. \A b \in DOMAIN mem : b # UNALLOCATED
    BY DEF Places, TypeOK
  <2>. QED
    BY <2>1, <2>2, TypeLemma DEF Places, New, Between, UNALLOCATED
<1>7. \A b \in Old : mem'[b].forwarding = IF b = a THEN next ELSE mem[b].forwarding
  BY <1>1, <1>2
<1>8. Moved' = Moved \cup {a}
  BY <1>2, <1>6, <1>7 DEF Moved, IsForwarding
<1>9. \A b \in Old' : IsForwarding(mem, b)' => HasCopy(b)'
  BY <1>1, <1>2, <1>7 DEF Copies, IsForwarding
<1>10. ASSUME NEW b \in New' PROVE \E s \in Old' : IsCopyOf(b, s)'
  <2>1. CASE b = next
    <3>1. IsCopyOf(b, a)'
      BY <1>1, <1>2, <1>3, <2>1 DEF IsCopyOf, Same
    <3>. QED
      BY <1>2, <3>1
  <2>2. CASE b # next
    <3>1. b \in New
      BY <1>2, <1>10, <2>2
    <3>2. PICK s \in Old : IsCopyOf(b, s)
      BY <3>1 DEF Copies
    <3>3. s # a
      BY <1>6, <3>1, <3>2 DEF IsCopyOf, IsForwarding
    <3>4. IsCopyOf(b, s)'
      BY <1>3, <1>7, <3>1, <3>2, <3>3 DEF IsCopyOf, Same
    <3>. QED
      BY <1>2, <3>4
  <2>. QED
    BY <2>1, <2>2
<1>. QED
  BY <1>4, <1>5, <1>8, <1>9, <1>10 DEF Copies

LEMMA RootsLemma ==
  ASSUME Inv
  PROVE  /\ Roots \in Seq(Root) /\ Len(Roots) \in Nat /\ DOMAIN Roots = 1..Len(Roots)
         /\ Len(Roots) = Len(classes) + Len(modules) /\ Len(classes) \in Nat /\ Len(modules) \in Nat
         /\ \A i \in DOMAIN Roots :
              IF i <= Len(classes) THEN i \in DOMAIN classes /\ Roots[i] = classes[i]
              ELSE i - Len(classes) \in DOMAIN modules /\ Roots[i] = modules[i - Len(classes)]
         /\ Distinct(Roots)
<1>1. classes \in Seq(Root) /\ modules \in Seq(Root)
  BY DEF Inv, TypeOK
<1>2. /\ Roots \in Seq(Root) /\ Len(Roots) \in Nat /\ DOMAIN Roots = 1..Len(Roots)
      /\ Len(Roots) = Len(classes) + Len(modules) /\ Len(classes) \in Nat /\ Len(modules) \in Nat
      /\ \A i \in DOMAIN Roots :
           IF i <= Len(classes) THEN i \in DOMAIN classes /\ Roots[i] = classes[i]
           ELSE i - Len(classes) \in DOMAIN modules /\ Roots[i] = modules[i - Len(classes)]
  BY <1>1, ConcatLemma DEF Roots
<1>3. ASSUME NEW i \in DOMAIN Roots, NEW j \in DOMAIN Roots, Roots[i].id = Roots[j].id PROVE i = j
  <2>1. RootIds
    BY DEF Inv
  <2>2. CASE i <= Len(classes) /\ j <= Len(classes)
    BY <1>2, <1>3, <2>1, <2>2 DEF RootIds, Distinct
  <2>3. CASE ~(i <= Len(classes)) /\ ~(j <= Len(classes))
    <3>1. i - Len(classes) = j - Len(classes)
      BY <1>2, <1>3, <2>1, <2>3 DEF RootIds, Distinct
    <3>. QED
      BY <1>2, <3>1
  <2>4. CASE i <= Len(classes) /\ ~(j <= Len(classes))
    BY <1>2, <1>3, <2>1, <2>4 DEF RootIds
  <2>5. CASE ~(i <= Len(classes)) /\ j <= Len(classes)
    BY <1>2, <1>3, <2>1, <2>5 DEF RootIds
  <2>. QED
    BY <2>2, <2>3, <2>4, <2>5
<1>. QED
  BY <1>2, <1>3 DEF Distinct

(* The next root is an old object that no earlier root is.                 *)
LEMMA NextRoot ==
  ASSUME Inv, status = "roots", index <= Len(Roots)
  PROVE  /\ index \in DOMAIN Roots /\ RootsDone \in SUBSET Old /\ Roots[index].at \in Old \ RootsDone
         /\ Fits(Roots[index].at)
         /\ (next + Header + mem[Roots[index].at].size) - fromspace =
              Cardinality(Cover(mem, RootsDone \cup {Roots[index].at}))
<1>1. index \in DOMAIN Roots
  BY RootsLemma DEF Inv, TypeOK
<1>2. \A i \in DOMAIN Roots : Roots[i].at \in Old /\ mem[Roots[i].at].id = Roots[i].id
  BY DEF Inv, RootPlaces, IsAt
<1>3. \A i \in DOMAIN Roots : i < index => Roots[i].at # Roots[index].at
  BY <1>1, <1>2, RootsLemma, SMTT(30) DEF Distinct
<1>4. RootsDone \in SUBSET Old /\ Roots[index].at \in Old \ RootsDone
  BY <1>1, <1>2, <1>3 DEF RootsDone
<1>5. Collection /\ next - fromspace = Cardinality(Cover(mem, RootsDone))
  BY DEF Inv, Room, Collection
<1>. QED
  BY <1>1, <1>4, <1>5, RoomLemma

LEMMA ProcessRootStep == ASSUME Inv, ProcessRoot PROVE Inv'
<1> DEFINE a == Roots[index].at
<1>1. status = "roots" /\ index <= Len(Roots) /\ Collection
  BY DEF ProcessRoot, Collection
<1>2. /\ index \in DOMAIN Roots /\ RootsDone \in SUBSET Old /\ a \in Old \ RootsDone /\ Fits(a)
      /\ (next + Header + mem[a].size) - fromspace = Cardinality(Cover(mem, RootsDone \cup {a}))
  BY <1>1, NextRoot
<1>3. /\ Process(a) /\ index' = index + 1
      /\ UNCHANGED <<zone, roots, locals, held, status, curr, collections, clean>>
  BY <1>2 DEF ProcessRoot
<1>4. a \in DOMAIN mem /\ ~Overlaps(a) /\ index \in Nat \ {0} /\ index' \in Nat \ {0}
  <2>1. index \in Nat \ {0}
    BY DEF Inv, TypeOK
  <2>. QED
    BY <1>1, <1>2, <1>3, <2>1, OldOutside DEF Old, Between
<1>5. /\ TypeOK' /\ Whole(mem') /\ Apart(mem') /\ OldHalf' /\ Chains' /\ RootIds'
      /\ Copied(a) /\ next' = next + Header + mem[a].size
  BY <1>1, <1>2, <1>3, <1>4, CopyPlaces
<1>6. Places
  BY <1>1, PlacesLemma
<1>7. /\ \A b \in DOMAIN mem' \ {next} : b \in DOMAIN mem /\ Same(mem'[b], mem[b])
      /\ Old \subseteq DOMAIN mem' /\ next \notin Old /\ Old' = Old
      /\ \A b \in Old : HasCopy(b) \/ b = a => HasCopy(b)'
  BY <1>1, <1>4, <1>5, <1>6, CopiedLemma, OldNewLemma DEF Copied
<1>8. \A b \in Old : Same(mem'[b], mem[b])
  BY <1>7
<1>9. Roots' = Roots /\ DOMAIN Roots \subseteq Nat /\ status' = status /\ clean' = clean
      /\ fromspace' = fromspace /\ locals' = locals
  BY <1>3, RootsLemma DEF Roots, roots, zone
<1>10. RootPlaces'
  <2>1. \A i \in DOMAIN Roots : IsAt(Roots[i], Old) /\ (i < index => HasCopy(Roots[i].at))
    BY <1>1 DEF Inv, RootPlaces
  <2>2. \A i \in DOMAIN Roots : i < index' => i < index \/ i = index
    BY <1>3, <1>4, <1>9
  <2>3. \A i \in DOMAIN Roots : Roots[i].at \in Old' /\ mem'[Roots[i].at].id = Roots[i].id
    BY <1>7, <1>8, <2>1 DEF IsAt, Same
  <2>4. \A i \in DOMAIN Roots : i < index' => HasCopy(Roots[i].at)'
    BY <1>7, <1>9, <2>1, <2>2 DEF IsAt
  <2>. QED
    BY <1>1, <1>9, <2>3, <2>4 DEF RootPlaces, IsAt, Running
<1>11. RootsDone' = RootsDone \cup {a}
  <2>1. {j \in DOMAIN Roots : j < index'} = {j \in DOMAIN Roots : j < index} \cup {index}
    BY <1>2, <1>3, <1>4, <1>9
  <2>. QED
    BY <1>9, <2>1 DEF RootsDone
<1>12. Room'
  <2>1. Cover(mem', RootsDone') = Cover(mem, RootsDone \cup {a})
    <3>1. \A b \in RootsDone \cup {a} : mem'[b].size = mem[b].size
      BY <1>2, <1>8 DEF Same
    <3>. QED
      BY <1>11, <3>1, SameCover
  <2>2. next' - fromspace' = Cardinality(Cover(mem, RootsDone \cup {a}))
    BY <1>2, <1>5, <1>9
  <2>3. next' - fromspace' = Cardinality(Cover(mem', RootsDone'))
    BY <2>1, <2>2
  <2>. QED
    BY <1>1, <1>9, <2>3 DEF Room
<1>13. ASSUME clean PROVE Closed' /\ Single' /\ Copies' /\ CleanRoots'
  <2>1. Closed /\ Single /\ Copies /\ Moved = RootsDone
    BY <1>1, <1>13 DEF Inv, Clean, CleanRoots
  <2>2. ~IsForwarding(mem, a)
    BY <1>2, <2>1 DEF Moved
  <2>3. Closed' /\ Single' /\ Copies' /\ Moved' = Moved \cup {a}
    BY <1>1, <1>2, <1>5, <1>6, <1>9, <2>1, <2>2, CleanCopy
  <2>. QED
    BY <1>11, <2>1, <2>3 DEF CleanRoots
<1>14. Clean'
  BY <1>1, <1>9, <1>13 DEF Clean
<1>. QED
  BY <1>5, <1>10, <1>12, <1>14 DEF Inv

(***************************************************************************)
(* Scanning                                                                *)
(***************************************************************************)

LEMMA PointersLemma == ASSUME Inv, NEW b \in DOMAIN mem PROVE PointersOf(mem[b]) \in Seq(Address)
<1>1. /\ mem[b].refs \in Seq(Address)
      /\ mem[b].kind = "module" => mem[b].id \in DOMAIN locals
      /\ locals \in [DOMAIN locals -> Seq(Address)]
  BY DEF Inv, TypeOK, Object
<1>2. mem[b].kind = "module" => mem[b].refs \o locals[mem[b].id] \in Seq(Address)
  BY <1>1
<1>3. <<>> \in Seq(Address)
  OBVIOUS
<1>4. CASE mem[b].kind = "module"
  BY <1>2, <1>4 DEF PointersOf
<1>5. CASE mem[b].kind = "error"
  BY <1>1, <1>5 DEF PointersOf
<1>6. CASE mem[b].kind # "module" /\ mem[b].kind # "error"
  BY <1>3, <1>6 DEF PointersOf
<1>. QED
  BY <1>4, <1>5, <1>6

(* The copies of a clean collection show old objects.                      *)
LEMMA CleanTarget ==
  ASSUME Closed, Copies, NEW b \in New, NEW i \in DOMAIN PointersOf(mem[b])
  PROVE  PointersOf(mem[b])[i] \in Old \cup {UNALLOCATED}
<1>1. PICK a \in Old : IsCopyOf(b, a)
  BY DEF Copies
<1>2. PointersOf(mem[b]) = PointersOf(mem[a])
  BY <1>1 DEF IsCopyOf, PointersOf
<1>. QED
  BY <1>2 DEF Closed

(* What Scanning looks at.                                                 *)
LEMMA ScanningLemma ==
  ASSUME Inv, Scanning
  PROVE  /\ status = "scan" /\ Collection /\ Places /\ curr \in New /\ curr \in DOMAIN mem
         /\ index \in Nat \ {0} /\ Pointers \in Seq(Address)
         /\ curr \in Nat /\ next \in Nat /\ curr < next
<1>1. status = "scan" /\ Collection /\ curr < next /\ index \in Nat \ {0}
  BY DEF Scanning, Collection, Inv, TypeOK
<1>2. curr \in Nat /\ next \in Nat
  BY TypeLemma DEF Inv
<1>3. curr \in New /\ curr \in DOMAIN mem
  BY <1>1, <1>2 DEF Inv, Chains, New, Between
<1>. QED
  BY <1>1, <1>2, <1>3, PlacesLemma, PointersLemma DEF Pointers

(* The target of a clean scan: there is room for it.                       *)
LEMMA TargetLemma ==
  ASSUME Inv, Scanning, clean, index \in DOMAIN Pointers
  PROVE  /\ Closed /\ Single /\ Copies /\ CleanScan /\ Target \in Old \cup {UNALLOCATED}
         /\ Target \in Old /\ ~IsForwarding(mem, Target) =>
              /\ Fits(Target)
              /\ (next + Header + mem[Target].size) - fromspace = Cardinality(Cover(mem, Moved \cup {Target}))
<1>1. status = "scan" /\ Collection /\ curr \in New
  BY ScanningLemma
<1>2. Closed /\ Single /\ Copies /\ CleanScan /\ next - fromspace = Cardinality(Cover(mem, Moved))
  BY <1>1 DEF Inv, Clean, Room
<1>3. Target \in Old \cup {UNALLOCATED}
  BY <1>1, <1>2, CleanTarget DEF Target, Pointers
<1>4. ASSUME Target \in Old, ~IsForwarding(mem, Target)
      PROVE  /\ Fits(Target)
             /\ (next + Header + mem[Target].size) - fromspace = Cardinality(Cover(mem, Moved \cup {Target}))
  <2>1. Moved \in SUBSET Old /\ Target \in Old \ Moved
    BY <1>4 DEF Moved
  <2>. QED
    BY <1>1, <1>2, <2>1, RoomLemma
<1>. QED
  BY <1>2, <1>3, <1>4

(* Nothing but the place in the collection changes.                        *)
LEMMA StillLemma ==
  ASSUME UNCHANGED <<mem, zone, locals, held, next>>
  PROVE  /\ Old' = Old /\ New' = New /\ Moved' = Moved
         /\ \A b : HasCopy(b)' <=> HasCopy(b)
         /\ \A b : PointersOf(mem[b])' = PointersOf(mem[b])
         /\ (Closed /\ Single /\ Copies) => (Closed /\ Single /\ Copies)'
<1>1. Old' = Old /\ New' = New /\ Moved' = Moved
  BY DEF Old, New, Moved, Between, IsForwarding, zone
<1>2. \A b : HasCopy(b)' <=> HasCopy(b)
  BY DEF HasCopy, IsForwarding, ObjectsUpTo, zone
<1>3. \A b : PointersOf(mem[b])' = PointersOf(mem[b])
  BY DEF PointersOf
<1>4. (Closed /\ Single /\ Copies) => (Closed /\ Single /\ Copies)'
  BY <1>1, <1>2, <1>3 DEF Closed, Single, Copies, IsForwarding, IsCopyOf
<1>. QED
  BY <1>1, <1>2, <1>3, <1>4

LEMMA StillPlaces ==
  ASSUME Inv, Collection, Collection', UNCHANGED <<mem, zone, locals, held, next, collections, clean>>,
         curr' \in Address, index' \in Nat \ {0}, classes' \in Seq(Root), modules' \in Seq(Root)
  PROVE  TypeOK' /\ Whole(mem') /\ Apart(mem') /\ OldHalf' /\ Chain(mem', fromspace', Frontier')
<1>1. UNCHANGED <<mem, fromspace, tospace, current, locals, held, next, collections, clean>>
  BY DEF zone
<1>2. Frontier' = Frontier /\ Frontier = next /\ Alive
  BY <1>1 DEF Frontier, Alive, Collection
<1>3. Object' = Object /\ Root' = Root /\ Address' = Address /\ Space(fromspace)' = Space(fromspace)
  BY <1>1 DEF Object, Root, Address, Space
<1>4. TypeOK'
  BY <1>1, <1>2, <1>3 DEF Inv, TypeOK, Collection
<1>5. OldHalf'
  BY <1>1, StillLemma DEF Inv, OldHalf, Space
<1>. QED
  BY <1>1, <1>2, <1>4, <1>5 DEF Inv, Chains

LEMMA EndProcessRootsStep == ASSUME Inv, EndProcessRoots PROVE Inv'
<1>1. /\ status = "roots" /\ index > Len(Roots) /\ status' = "scan" /\ index' = 1
      /\ UNCHANGED <<mem, zone, classes, modules, locals, held, next, curr, collections, clean>>
  BY DEF EndProcessRoots, roots
<1>2. Collection /\ Collection'
  BY <1>1 DEF Collection
<1>3. TypeOK' /\ Whole(mem') /\ Apart(mem') /\ OldHalf' /\ Chain(mem', fromspace', Frontier')
  BY <1>1, <1>2, StillPlaces DEF Inv, TypeOK
<1>4. /\ Old' = Old /\ New' = New /\ Moved' = Moved
      /\ \A b : HasCopy(b)' <=> HasCopy(b)
      /\ \A b : PointersOf(mem[b])' = PointersOf(mem[b])
      /\ (Closed /\ Single /\ Copies) => (Closed /\ Single /\ Copies)'
  BY <1>1, StillLemma
<1>5. Roots' = Roots /\ fromspace' = fromspace /\ \A i \in DOMAIN Roots : i < index
  BY <1>1, RootsLemma DEF Roots, zone, Inv, TypeOK
<1>6. curr = fromspace /\ Chain(mem, fromspace, next)
  BY <1>1, <1>2, PlacesLemma DEF Inv, Chains, Places
<1>7. Chains'
  BY <1>1, <1>3, <1>4, <1>6 DEF Chains, Chain, New
<1>8. RootPlaces' /\ RootIds'
  BY <1>1, <1>4, <1>5 DEF Inv, RootPlaces, RootIds, IsAt, Running
<1>9. RootsDone = {Roots[i].at : i \in DOMAIN Roots}
  BY <1>5 DEF RootsDone
<1>10. ASSUME clean PROVE Room' /\ Clean'
  <2>1. Closed /\ Single /\ Copies /\ Moved = RootsDone
    BY <1>1, <1>2, <1>10 DEF Inv, Clean, CleanRoots
  <2>2. next - fromspace = Cardinality(Cover(mem, RootsDone))
    BY <1>1 DEF Inv, Room
  <2>3. Room'
    BY <1>1, <1>4, <1>5, <2>1, <2>2 DEF Room
  <2>4. CleanScan'
    <3>1. ASSUME NEW b \in New', NEW i \in Visited(b)' PROVE FALSE
      <4>1. /\ b \in Nat /\ fromspace <= b /\ b \in DOMAIN mem /\ PointersOf(mem[b]) \in Seq(Address)
            /\ fromspace \in Nat
        BY <1>4, <3>1, TypeLemma, SizeLemma, PointersLemma DEF New, Between, Inv
      <4>2. i \in DOMAIN PointersOf(mem[b]) /\ (b < curr \/ (b = curr /\ i < 1))
        BY <1>1, <1>4, <3>1 DEF Visited
      <4>. QED
        BY <1>6, <4>1, <4>2
    <3>. QED
      BY <3>1 DEF CleanScan
  <2>. QED
    BY <1>1, <1>4, <2>1, <2>3, <2>4 DEF Clean
<1>11. ASSUME ~clean PROVE Room' /\ Clean'
  BY <1>1, <1>11 DEF Room, Clean
<1>. QED
  BY <1>3, <1>7, <1>8, <1>10, <1>11 DEF Inv

LEMMA EndVisitPointersStep == ASSUME Inv, EndVisitPointers PROVE Inv'
<1>1. /\ status = "scan" /\ Collection /\ Places /\ curr \in New /\ curr \in DOMAIN mem
      /\ index \in Nat \ {0} /\ Pointers \in Seq(Address)
      /\ curr \in Nat /\ next \in Nat /\ curr < next
  BY ScanningLemma DEF EndVisitPointers
<1>2. /\ index \notin DOMAIN Pointers /\ curr' = GetEndingAddress(mem, curr) /\ index' = 1
      /\ UNCHANGED <<mem, zone, classes, modules, locals, held, status, next, collections, clean>>
  BY DEF EndVisitPointers, roots, Advance, GetEndingAddress
<1>3. Collection' /\ Chain(mem, fromspace, next)
  BY <1>1, <1>2 DEF Collection, Places
<1>4. curr' \in New \cup {next}
  BY <1>1, <1>2, <1>3 DEF Chain, New
<1>5. curr' \in Address
  <2>1. \A b \in DOMAIN mem : b \in Address
    BY DEF Inv, TypeOK
  <2>2. next \in Address
    BY DEF Inv, TypeOK
  <2>. QED
    BY <1>4, <2>1, <2>2 DEF New, Between
<1>6. TypeOK' /\ Whole(mem') /\ Apart(mem') /\ OldHalf' /\ Chain(mem', fromspace', Frontier')
  BY <1>1, <1>2, <1>3, <1>5, StillPlaces DEF Inv, TypeOK
<1>7. /\ Old' = Old /\ New' = New /\ Moved' = Moved
      /\ \A b : HasCopy(b)' <=> HasCopy(b)
      /\ \A b : PointersOf(mem[b])' = PointersOf(mem[b])
      /\ (Closed /\ Single /\ Copies) => (Closed /\ Single /\ Copies)'
  BY <1>2, StillLemma
<1>8. Roots' = Roots /\ fromspace' = fromspace
  BY <1>2 DEF Roots, zone
<1>9. Chains'
  BY <1>1, <1>2, <1>4, <1>6, <1>7 DEF Chains
<1>10. RootPlaces' /\ RootIds'
  BY <1>1, <1>2, <1>7, <1>8 DEF Inv, RootPlaces, RootIds, IsAt, Running
<1>11. Room'
  BY <1>1, <1>2, <1>7, <1>8 DEF Inv, Room
<1>12. ASSUME clean PROVE CleanScan'
  <2>1. CleanScan
    BY <1>1, <1>12 DEF Inv, Clean
  <2>2. ASSUME NEW b \in New, NEW i \in Visited(b)' PROVE HasCopy(PointersOf(mem[b])[i])
    <3>1. b \in Nat /\ b \in DOMAIN mem /\ PointersOf(mem[b]) \in Seq(Address)
      BY TypeLemma, SizeLemma, PointersLemma DEF New, Between, Inv
    <3>2. i \in DOMAIN PointersOf(mem[b]) /\ (b < curr' \/ (b = curr' /\ i < 1))
      BY <1>2, <1>7, <2>2 DEF Visited
    <3>3. b < curr' /\ i \in Nat
      BY <3>1, <3>2
    <3>4. b <= curr
      BY <1>1, <1>2, <3>1, <3>3, TypeLemma, SizeLemma, SMTT(30) DEF Inv, Apart
    <3>5. b = curr => i < index
      BY <1>1, <1>2, <3>2 DEF Pointers
    <3>6. i \in Visited(b)
      BY <1>1, <3>1, <3>2, <3>4, <3>5 DEF Visited
    <3>. QED
      BY <2>1, <3>6 DEF CleanScan
  <2>. QED
    BY <1>7, <2>2 DEF CleanScan
<1>13. Clean'
  BY <1>1, <1>2, <1>7, <1>12 DEF Inv, Clean
<1>. QED
  BY <1>6, <1>9, <1>10, <1>11, <1>13 DEF Inv

LEMMA EndProcessFromspaceStep == ASSUME Inv, EndProcessFromspace PROVE Inv'
<1>1. /\ status = "scan" /\ curr >= next /\ status' = "notify" /\ index' = 1
      /\ UNCHANGED <<mem, zone, classes, modules, locals, held, next, curr, collections, clean>>
  BY DEF EndProcessFromspace, roots
<1>2. Collection /\ Collection'
  BY <1>1 DEF Collection
<1>3. TypeOK' /\ Whole(mem') /\ Apart(mem') /\ OldHalf' /\ Chain(mem', fromspace', Frontier')
  BY <1>1, <1>2, StillPlaces DEF Inv, TypeOK
<1>4. /\ Old' = Old /\ New' = New
      /\ \A b : HasCopy(b)' <=> HasCopy(b)
      /\ \A b : PointersOf(mem[b])' = PointersOf(mem[b])
      /\ (Closed /\ Single /\ Copies) => (Closed /\ Single /\ Copies)'
  BY <1>1, StillLemma
<1>5. curr = next /\ next \in Nat
  BY <1>1, TypeLemma DEF Inv, Chains, New, Between
<1>6. Chains'
  BY <1>1, <1>3 DEF Chains
<1>7. Roots' = Roots /\ \A i \in DOMAIN Roots : ~(i < 1)
  BY <1>1, RootsLemma DEF Roots
<1>8. RootPlaces' /\ RootIds'
  BY <1>1, <1>4, <1>7 DEF Inv, RootPlaces, RootIds, IsAt, Running
<1>9. ASSUME clean PROVE CleanNotify'
  <2>1. CleanScan
    BY <1>1, <1>9 DEF Inv, Clean
  <2>2. \A b \in New : b < curr
    BY <1>5 DEF New, Between
  <2>3. \A b \in New : \A i \in DOMAIN PointersOf(mem[b]) : HasCopy(PointersOf(mem[b])[i])
    BY <2>1, <2>2 DEF CleanScan, Visited
  <2>. QED
    BY <1>4, <2>3 DEF CleanNotify
<1>10. Room' /\ Clean'
  BY <1>1, <1>2, <1>4, <1>9 DEF Inv, Room, Clean
<1>. QED
  BY <1>3, <1>6, <1>8, <1>10 DEF Inv

(* The object was copied before.                                           *)
LEMMA SkipStep ==
  ASSUME Inv, Scanning, index \in DOMAIN Pointers, Target \in DOMAIN mem, Skips(Target), index' = index + 1,
         UNCHANGED <<mem, next, zone, roots, locals, held, status, curr, collections, clean>>
  PROVE  Inv'
<1>1. /\ status = "scan" /\ Collection /\ Places /\ curr \in New /\ curr \in DOMAIN mem
      /\ index \in Nat \ {0} /\ Pointers \in Seq(Address)
  BY ScanningLemma
<1>2. Collection' /\ classes' = classes /\ modules' = modules /\ index' \in Nat \ {0} /\ fromspace' = fromspace
  BY <1>1 DEF Collection, roots, zone
<1>3. TypeOK' /\ Whole(mem') /\ Apart(mem') /\ OldHalf' /\ Chain(mem', fromspace', Frontier')
  BY <1>1, <1>2, StillPlaces DEF Inv, TypeOK
<1>4. /\ Old' = Old /\ New' = New /\ Moved' = Moved
      /\ \A b : HasCopy(b)' <=> HasCopy(b)
      /\ \A b : PointersOf(mem[b])' = PointersOf(mem[b])
      /\ (Closed /\ Single /\ Copies) => (Closed /\ Single /\ Copies)'
  BY StillLemma
<1>5. Chains'
  BY <1>1, <1>3, <1>4 DEF Inv, Chains
<1>6. RootPlaces' /\ RootIds'
  BY <1>1, <1>2, <1>4 DEF Inv, RootPlaces, RootIds, IsAt, Running, Roots
<1>7. Room'
  BY <1>1, <1>2, <1>4 DEF Inv, Room
<1>8. ASSUME clean PROVE CleanScan'
  <2>1. Copies /\ CleanScan /\ Target \in Old \cup {UNALLOCATED}
    BY <1>8, TargetLemma
  <2>2. HasCopy(Target)
    <3>1. Target # UNALLOCATED
      BY DEF Inv, TypeOK
    <3>. QED
      BY <2>1, <3>1 DEF Copies, Skips
  <2>3. ASSUME NEW b \in New, NEW i \in Visited(b)' PROVE HasCopy(PointersOf(mem[b])[i])
    <3>1. b \in DOMAIN mem /\ PointersOf(mem[b]) \in Seq(Address)
      BY PointersLemma DEF New, Between
    <3>2. i \in DOMAIN PointersOf(mem[b]) /\ (b < curr \/ (b = curr /\ i < index + 1))
      BY <1>4, <2>3 DEF Visited
    <3>3. i \in Visited(b) \/ (b = curr /\ i = index)
      BY <1>1, <3>1, <3>2 DEF Visited
    <3>. QED
      BY <2>1, <2>2, <3>3 DEF CleanScan, Target, Pointers
  <2>. QED
    BY <1>4, <2>3 DEF CleanScan
<1>9. Clean'
  BY <1>1, <1>4, <1>8 DEF Inv, Clean
<1>. QED
  BY <1>3, <1>5, <1>6, <1>7, <1>9 DEF Inv

(* The object is copied now.                                               *)
LEMMA VisitStep ==
  ASSUME Inv, Scanning, index \in DOMAIN Pointers, Target \in DOMAIN mem, ~Skips(Target),
         Fits(Target), ~Overlaps(Target), Process(Target), index' = index + 1,
         UNCHANGED <<zone, roots, locals, held, status, curr, collections, clean>>
  PROVE  Inv'
<1> DEFINE a == Target
<1>1. /\ status = "scan" /\ Collection /\ Places /\ curr \in New /\ curr \in DOMAIN mem
      /\ index \in Nat \ {0} /\ Pointers \in Seq(Address)
      /\ curr \in Nat /\ next \in Nat /\ curr < next
  BY ScanningLemma
<1>2. index' \in Nat \ {0} /\ a \in DOMAIN mem /\ ~IsForwarding(mem, a)
  BY <1>1 DEF Skips
<1>3. /\ TypeOK' /\ Whole(mem') /\ Apart(mem') /\ OldHalf' /\ Chains' /\ RootIds'
      /\ Copied(a) /\ next' = next + Header + mem[a].size
  BY <1>1, <1>2, CopyPlaces
<1>4. /\ \A b \in DOMAIN mem' \ {next} : b \in DOMAIN mem /\ Same(mem'[b], mem[b])
      /\ Old \subseteq DOMAIN mem' /\ New \subseteq DOMAIN mem'
      /\ next \notin Old /\ Old' = Old /\ New' = New \cup {next} /\ next \notin New
      /\ \A b \in Old : HasCopy(b) \/ b = a => HasCopy(b)'
  BY <1>1, <1>2, <1>3, CopiedLemma, OldNewLemma DEF Copied
<1>5. \A b \in Old \cup New : Same(mem'[b], mem[b])
  BY <1>4
<1>6. Roots' = Roots /\ status' = status /\ clean' = clean /\ fromspace' = fromspace /\ locals' = locals
  BY DEF Roots, roots, zone
<1>7. RootPlaces'
  <2>1. \A i \in DOMAIN Roots : IsAt(Roots[i], Old) /\ HasCopy(Roots[i].at)
    BY <1>1 DEF Inv, RootPlaces
  <2>2. \A i \in DOMAIN Roots : Roots[i].at \in Old' /\ mem'[Roots[i].at].id = Roots[i].id
    BY <1>4, <1>5, <2>1 DEF IsAt, Same
  <2>3. \A i \in DOMAIN Roots : HasCopy(Roots[i].at)'
    BY <1>4, <1>6, <2>1 DEF IsAt
  <2>. QED
    BY <1>1, <1>6, <2>2, <2>3 DEF RootPlaces, IsAt, Running
<1>8. ASSUME ~clean PROVE Room' /\ Clean'
  BY <1>1, <1>6, <1>8 DEF Room, Clean
<1>9. ASSUME clean PROVE Room' /\ Clean'
  <2>1. /\ Closed /\ Single /\ Copies /\ CleanScan /\ a \in Old
        /\ (next + Header + mem[a].size) - fromspace = Cardinality(Cover(mem, Moved \cup {a}))
    <3>1. a # UNALLOCATED
      BY <1>2 DEF Inv, TypeOK
    <3>. QED
      BY <1>2, <1>9, <3>1, TargetLemma
  <2>2. Closed' /\ Single' /\ Copies' /\ Moved' = Moved \cup {a}
    BY <1>1, <1>2, <1>3, <1>6, <2>1, CleanCopy
  <2>3. Room'
    <3>1. \A b \in Moved \cup {a} : mem'[b].size = mem[b].size
      BY <1>5, <2>1 DEF Moved, Same
    <3>2. Cover(mem', Moved') = Cover(mem, Moved \cup {a})
      BY <2>2, <3>1, SameCover
    <3>3. next' - fromspace' = Cardinality(Cover(mem, Moved \cup {a}))
      BY <1>3, <1>6, <2>1
    <3>4. next' - fromspace' = Cardinality(Cover(mem', Moved'))
      BY <3>2, <3>3
    <3>. QED
      BY <1>1, <1>6, <3>4 DEF Room
  <2>4. ASSUME NEW b \in New', NEW i \in Visited(b)' PROVE HasCopy(PointersOf(mem[b])[i])'
    <3>1. i \in DOMAIN (PointersOf(mem[b])') /\ (b < curr \/ (b = curr /\ i < index + 1))
      BY <2>4 DEF Visited
    <3>2. b \in New
      BY <1>1, <1>4, <2>4, <3>1
    <3>3. PointersOf(mem[b])' = PointersOf(mem[b])
      BY <1>5, <1>6, <3>2, SamePointers
    <3>4. b \in DOMAIN mem /\ PointersOf(mem[b]) \in Seq(Address)
      BY <3>2, PointersLemma DEF New, Between
    <3>5. i \in Visited(b) \/ (b = curr /\ i = index)
      BY <1>1, <3>1, <3>3, <3>4 DEF Visited
    <3>6. CASE i \in Visited(b)
      <4>1. HasCopy(PointersOf(mem[b])[i])
        BY <2>1, <3>2, <3>6 DEF CleanScan
      <4>2. PointersOf(mem[b])[i] \in DOMAIN mem
        BY <4>1 DEF HasCopy
      <4>3. PointersOf(mem[b])[i] \in Old
        <5>1. i \in DOMAIN PointersOf(mem[b])
          BY <3>6 DEF Visited
        <5>2. UNALLOCATED \notin DOMAIN mem
          BY DEF Inv, TypeOK
        <5>. QED
          BY <2>1, <3>2, <4>2, <5>1, <5>2, CleanTarget
      <4>. QED
        BY <1>4, <3>3, <4>1, <4>3
    <3>7. CASE b = curr /\ i = index
      <4>1. PointersOf(mem[b])[i] = a
        BY <3>7 DEF Target, Pointers
      <4>. QED
        BY <1>4, <2>1, <3>3, <4>1
    <3>. QED
      BY <3>5, <3>6, <3>7
  <2>5. CleanScan'
    BY <2>4 DEF CleanScan
  <2>. QED
    BY <1>1, <1>6, <2>2, <2>3, <2>5 DEF Clean
<1>. QED
  BY <1>3, <1>7, <1>8, <1>9 DEF Inv

LEMMA VisitPointerStep == ASSUME Inv, VisitPointer PROVE Inv'
<1>1. CASE Skips(Target)
  BY <1>1, SkipStep DEF VisitPointer
<1>2. CASE ~Skips(Target)
  BY <1>2, VisitStep DEF VisitPointer
<1>. QED
  BY <1>1, <1>2

LEMMA NotifyRootStep == ASSUME Inv, NotifyRoot PROVE Inv'
<1> DEFINE r == Notified(Roots[index])
<1>1. /\ status = "notify" /\ index <= Len(Roots) /\ index' = index + 1 /\ Collection /\ Collection'
      /\ UNCHANGED <<mem, zone, locals, held, status, next, curr, collections, clean>>
  BY DEF NotifyRoot, Collection
<1>2. /\ index \in Nat \ {0} /\ index' \in Nat \ {0} /\ index \in DOMAIN Roots
      /\ DOMAIN Roots = 1..Len(Roots) /\ Len(Roots) = Len(classes) + Len(modules)
      /\ Len(classes) \in Nat /\ Len(modules) \in Nat
      /\ classes \in Seq(Root) /\ modules \in Seq(Root) /\ Roots[index] \in Root
  BY <1>1, RootsLemma DEF Inv, TypeOK
<1>3. IsAt(Roots[index], Old) /\ HasCopy(Roots[index].at)
  BY <1>1, <1>2 DEF Inv, RootPlaces
<1>4. r \in Root /\ r.id = Roots[index].id /\ r.at = mem[Roots[index].at].forwarding
  <2>1. mem[Roots[index].at].forwarding \in Address
    BY <1>3 DEF HasCopy, Inv, TypeOK, Object
  <2>. QED
    BY <1>2, <2>1 DEF Notified, Root
<1>5. r.at \in New /\ mem[r.at].id = r.id
  BY <1>3, <1>4, HasCopyLemma DEF IsAt
<1>6. IF index <= Len(classes)
      THEN classes' = [classes EXCEPT ![index] = r] /\ modules' = modules
      ELSE modules' = [modules EXCEPT ![index - Len(classes)] = r] /\ classes' = classes
  <2>1. IF index <= Len(classes) THEN index \in DOMAIN classes /\ Roots[index] = classes[index]
        ELSE index - Len(classes) \in DOMAIN modules /\ Roots[index] = modules[index - Len(classes)]
    BY <1>2, RootsLemma
  <2>. QED
    BY <2>1 DEF NotifyRoot
<1>7. classes' \in Seq(Root) /\ modules' \in Seq(Root) /\ Len(classes') = Len(classes) /\ Len(modules') = Len(modules)
  BY <1>2, <1>4, <1>6, SMTT(30)
<1>8. /\ DOMAIN Roots' = DOMAIN Roots
      /\ \A i \in DOMAIN Roots : Roots'[i] = IF i = index THEN r ELSE Roots[i]
  <2>1. /\ DOMAIN Roots' = 1..(Len(classes) + Len(modules))
        /\ \A i \in DOMAIN Roots' :
             IF i <= Len(classes) THEN i \in DOMAIN classes' /\ Roots'[i] = classes'[i]
             ELSE i - Len(classes) \in DOMAIN modules' /\ Roots'[i] = modules'[i - Len(classes)]
    <3>1. /\ DOMAIN Roots' = 1..(Len(classes') + Len(modules'))
          /\ \A i \in DOMAIN Roots' :
               IF i <= Len(classes') THEN i \in DOMAIN classes' /\ Roots'[i] = classes'[i]
               ELSE i - Len(classes') \in DOMAIN modules' /\ Roots'[i] = modules'[i - Len(classes')]
      <4>1. Roots' = classes' \o modules'
        BY DEF Roots
      <4>2. /\ DOMAIN (classes' \o modules') = 1..(Len(classes') + Len(modules'))
            /\ \A i \in DOMAIN (classes' \o modules') :
                 IF i <= Len(classes') THEN i \in DOMAIN classes' /\ (classes' \o modules')[i] = classes'[i]
                 ELSE /\ i - Len(classes') \in DOMAIN modules'
                      /\ (classes' \o modules')[i] = modules'[i - Len(classes')]
        <5>1. classes' \in Seq(Root) /\ modules' \in Seq(Root)
          BY <1>7
        <5>. QED
          BY <5>1, ConcatLemma
      <4>. QED
        BY <4>1, <4>2
    <3>. QED
      BY <1>7, <3>1
  <2>2. \A i \in DOMAIN Roots :
          IF i <= Len(classes) THEN i \in DOMAIN classes /\ Roots[i] = classes[i]
          ELSE i - Len(classes) \in DOMAIN modules /\ Roots[i] = modules[i - Len(classes)]
    BY RootsLemma
  <2>3. DOMAIN Roots' = DOMAIN Roots
    BY <1>2, <2>1
  <2>4. ASSUME NEW i \in DOMAIN Roots PROVE Roots'[i] = IF i = index THEN r ELSE Roots[i]
    <3>1. i \in Nat
      BY <1>2
    <3>2. CASE i <= Len(classes)
      BY <1>2, <1>6, <2>1, <2>2, <2>3, <3>1, <3>2
    <3>3. CASE ~(i <= Len(classes))
      <4>1. /\ Roots'[i] = modules'[i - Len(classes)] /\ Roots[i] = modules[i - Len(classes)]
            /\ i - Len(classes) \in DOMAIN modules
        BY <2>1, <2>2, <2>3, <3>3
      <4>2. i - Len(classes) = index - Len(classes) <=> i = index
        BY <1>2, <3>1
      <4>. QED
        BY <1>6, <3>3, <4>1, <4>2
    <3>. QED
      BY <3>2, <3>3
  <2>. QED
    BY <2>3, <2>4
<1>9. RootIds'
  <2>1. /\ DOMAIN classes' = DOMAIN classes /\ DOMAIN modules' = DOMAIN modules
    BY <1>6
  <2>2. \A i \in DOMAIN classes : classes'[i].id = classes[i].id
    BY <1>2, <1>4, <1>6, RootsLemma
  <2>3. \A i \in DOMAIN modules : modules'[i].id = modules[i].id
    <3>1. ~(index <= Len(classes)) => Roots[index] = modules[index - Len(classes)]
      BY <1>2, RootsLemma
    <3>. QED
      BY <1>4, <1>6, <3>1
  <2>. QED
    BY <2>1, <2>2, <2>3 DEF Inv, RootIds, Distinct
<1>10. TypeOK' /\ Whole(mem') /\ Apart(mem') /\ OldHalf' /\ Chain(mem', fromspace', Frontier')
  BY <1>1, <1>2, <1>7, StillPlaces DEF Inv, TypeOK
<1>11. /\ Old' = Old /\ New' = New
       /\ \A b : HasCopy(b)' <=> HasCopy(b)
       /\ \A b : PointersOf(mem[b])' = PointersOf(mem[b])
       /\ (Closed /\ Single /\ Copies) => (Closed /\ Single /\ Copies)'
  BY <1>1, StillLemma
<1>12. Chains'
  BY <1>1, <1>10 DEF Chains
<1>13. RootPlaces'
  <2>1. \A i \in DOMAIN Roots :
          IF i < index THEN IsAt(Roots[i], New) ELSE IsAt(Roots[i], Old) /\ HasCopy(Roots[i].at)
    BY <1>1 DEF Inv, RootPlaces
  <2>2. ASSUME NEW i \in DOMAIN Roots'
        PROVE  IF i < index' THEN IsAt(Roots[i], New)' ELSE IsAt(Roots[i], Old)' /\ HasCopy(Roots[i].at)'
    <3>1. i \in DOMAIN Roots /\ i \in Nat
      BY <1>2, <1>8
    <3>2. CASE i = index
      BY <1>1, <1>2, <1>5, <1>8, <1>11, <3>1, <3>2 DEF IsAt
    <3>3. CASE i # index
      <4>1. Roots'[i] = Roots[i] /\ (i < index' <=> i < index)
        BY <1>1, <1>2, <1>8, <3>1, <3>3
      <4>2. IF i < index THEN IsAt(Roots[i], New) ELSE IsAt(Roots[i], Old) /\ HasCopy(Roots[i].at)
        BY <2>1, <3>1
      <4>. QED
        BY <1>1, <1>11, <4>1, <4>2 DEF IsAt
    <3>. QED
      BY <3>2, <3>3
  <2>. QED
    BY <1>1, <2>2 DEF RootPlaces, Running
<1>14. Room' /\ Clean'
  BY <1>1, <1>11 DEF Inv, Room, Clean, CleanNotify
<1>. QED
  BY <1>9, <1>10, <1>12, <1>13, <1>14 DEF Inv

LEMMA EndCollectStep == ASSUME Inv, EndCollect PROVE Inv'
<1>1. /\ status = "notify" /\ index > Len(Roots) /\ current' = next /\ status' = "run"
      /\ UNCHANGED <<mem, fromspace, tospace, classes, modules, locals, held>>
      /\ UNCHANGED <<next, curr, index, collections, clean>>
  BY DEF EndCollect, roots, collector
<1>2. Collection /\ ~Collection' /\ Frontier' = next /\ Alive'
  BY <1>1 DEF Collection, Frontier, Alive
<1>3. Places /\ next \in Space(fromspace)
  BY <1>2, PlacesLemma
<1>4. TypeOK'
  <2>1. Object' = Object /\ Root' = Root /\ Address' = Address /\ Space(fromspace)' = Space(fromspace)
    BY <1>1 DEF Object, Root, Address, Space
  <2>. QED
    BY <1>1, <1>2, <1>3, <2>1 DEF Inv, TypeOK
<1>5. OldHalf' /\ Room' /\ Clean'
  BY <1>1, <1>2 DEF OldHalf, Room, Clean, Collection
<1>6. Chains'
  BY <1>1, <1>2, <1>3 DEF Chains, Places
<1>7. \A i \in DOMAIN Roots : i < index
  BY <1>1, RootsLemma DEF Inv, TypeOK
<1>8. RootPlaces' /\ RootIds'
  BY <1>1, <1>7 DEF Inv, RootPlaces, RootIds, IsAt, Running, New, Roots
<1>. QED
  BY <1>1, <1>4, <1>5, <1>6, <1>8 DEF Inv

(***************************************************************************)
(* The theorems                                                            *)
(***************************************************************************)

LEMMA InitLemma == ASSUME Init PROVE Inv
<1> USE DEF Init
<1>1. SemiSize \in Nat \ {0} /\ DOMAIN mem = {} /\ status = "run"
  BY SizesAssumption
<1>2. ~Collection /\ Frontier = current /\ Alive
  BY <1>1 DEF Collection, Frontier, Alive
<1>3. TypeOK
  <2>1. current \in Address /\ next \in Address /\ curr \in Address /\ current \in Space(fromspace)
    BY <1>1 DEF Address, Space, UNALLOCATED
  <2>. QED
    BY <1>1, <1>2, <2>1 DEF TypeOK
<1>4. Whole(mem) /\ Apart(mem)
  BY <1>1 DEF Whole, Apart
<1>5. OldHalf /\ Room /\ Clean
  BY <1>1, <1>2 DEF OldHalf, Room, Clean, Collection
<1>6. Chains
  BY <1>1, <1>2 DEF Chains, Chain, Between
<1>7. Roots = <<>> /\ RootIds
  BY DEF Roots, RootIds, Distinct
<1>8. RootPlaces
  BY <1>1, <1>7 DEF RootPlaces, Running
<1>. QED
  BY <1>3, <1>4, <1>5, <1>6, <1>7, <1>8 DEF Inv

LEMMA StutterLemma == ASSUME Inv, UNCHANGED vars PROVE Inv'
<1>1. /\ UNCHANGED <<mem, fromspace, tospace, current, classes, modules, locals, held, status>>
      /\ UNCHANGED <<next, curr, index, collections, clean>>
  BY DEF vars, zone, roots, collector
<1>2. /\ Object' = Object /\ Root' = Root /\ Address' = Address /\ Frontier' = Frontier
      /\ Collection' = Collection /\ Alive' = Alive /\ Roots' = Roots /\ RootsDone' = RootsDone
  BY <1>1 DEF Object, Root, Address, Frontier, Collection, Alive, Roots, RootsDone
<1>3. /\ Old' = Old /\ New' = New /\ Moved' = Moved
      /\ \A b : HasCopy(b)' <=> HasCopy(b)
      /\ \A b : PointersOf(mem[b])' = PointersOf(mem[b])
      /\ (Closed /\ Single /\ Copies) => (Closed /\ Single /\ Copies)'
  BY <1>1, StillLemma DEF zone
<1>4. TypeOK' /\ OldHalf'
  BY <1>1, <1>2, <1>3 DEF Inv, TypeOK, OldHalf, Space
<1>5. Chains' /\ RootIds' /\ Room'
  BY <1>1, <1>2, <1>3 DEF Inv, Chains, RootIds, Room
<1>6. RootPlaces'
  BY <1>1, <1>2, <1>3 DEF Inv, RootPlaces, IsAt, Running
<1>7. Clean'
  BY <1>1, <1>2, <1>3 DEF Inv, Clean, CleanRoots, CleanScan, CleanNotify, Visited
<1>. QED
  BY <1>1, <1>4, <1>5, <1>6, <1>7 DEF Inv

LEMMA NextLemma == ASSUME Inv, [Next]_vars PROVE Inv'
<1>1. ASSUME NEW size \in Sizes, NewObject(size) \/ OutOfMemory(size) PROVE Inv'
  BY <1>1, NewObjectStep, EndStep DEF OutOfMemory
<1>2. ASSUME NEW size \in Sizes, NEW a \in Known, NewError(size, a) \/ NewClass(size, a) \/ NewModule(size, a)
      PROVE  Inv'
  BY <1>2, NewObjectStep
<1>3. ASSUME NEW id \in DOMAIN locals, NEW a \in Known \cup {UNALLOCATED}, AddLocal(id, a) PROVE Inv'
  BY <1>3, LocalStep
<1>4. ASSUME NEW id \in DOMAIN locals, NEW i \in 1..MaxLocals, NEW a \in Known, SetLocal(id, i, a) PROVE Inv'
  BY <1>4, LocalStep
<1>5. CASE Collect
  BY <1>5, CollectStep
<1>6. CASE ProcessRoot \/ EndProcessRoots
  BY <1>6, ProcessRootStep, EndProcessRootsStep
<1>7. CASE VisitPointer \/ EndVisitPointers
  BY <1>7, VisitPointerStep, EndVisitPointersStep
<1>8. CASE VisitPointerFails
  BY <1>8, EndStep DEF VisitPointerFails
<1>9. CASE EndProcessFromspace \/ NotifyRoot \/ EndCollect
  BY <1>9, EndProcessFromspaceStep, NotifyRootStep, EndCollectStep
<1>10. CASE UNCHANGED vars
  BY <1>10, StutterLemma
<1>. QED
  BY <1>1, <1>2, <1>3, <1>4, <1>5, <1>6, <1>7, <1>8, <1>9, <1>10 DEF Next, Program, Collecting

(* Inv holds in every state of every program, for every size of the zone   *)
(* and of objects: NewZone, Heap::TryAllocate and Collector::Collect.      *)
THEOREM Invariance == Spec => []Inv
<1>1. Init => Inv
  BY InitLemma
<1>2. Inv /\ [Next]_vars => Inv'
  BY NextLemma
<1>. QED
  BY <1>1, <1>2, PTL DEF Spec

(* Objects, roots, locals and the addresses of the collector are what they *)
(* should be, and the last address of fromspace is never used.             *)
THEOREM Types == Spec => []TypeOK
<1>1. Inv => TypeOK
  BY DEF Inv
<1>. QED
  BY <1>1, Invariance, PTL

(* The objects of fromspace follow one another, and ProcessFromspace is    *)
(* always at one of them or behind the last: curr_address_ never points    *)
(* into an object.                                                         *)
THEOREM Tiling == Spec => []Tiled
<1>1. ASSUME Inv PROVE Tiled
  <2>1. SUFFICES ASSUME Alive
                 PROVE  LET ends == {GetEndingAddress(mem, a) : a \in ObjectsUpTo(Frontier)}
                        IN  /\ ObjectsUpTo(Frontier) \cup {Frontier} = ends \cup {fromspace}
                            /\ status = "scan" => curr \in ObjectsUpTo(Frontier) \cup {Frontier}
    BY DEF Tiled, Alive
  <2>2. ObjectsUpTo(Frontier) = Between(mem, fromspace, Frontier) /\ Chain(mem, fromspace, Frontier)
    BY <1>1, <2>1 DEF ObjectsUpTo, Between, Inv, Chains
  <2>3. status = "scan" => curr \in ObjectsUpTo(Frontier) \cup {Frontier}
    BY <1>1, <2>2 DEF Inv, Chains, New, Frontier, Collection
  <2>. QED
    BY <2>2, <2>3 DEF Chain
<1>. QED
  BY <1>1, Invariance, PTL

(* The class or module a root was registered for is at the address the     *)
(* list of roots has for it whenever the program runs: ProcessRoots copies *)
(* each once, nothing that is copied later loses its forwarding address,   *)
(* and PointerNotifier follows it, even when pointers are stale.           *)
THEOREM Rooted == Spec => []RootsIntact
<1>1. ASSUME Inv PROVE RootsIntact
  BY <1>1 DEF Inv, RootPlaces, RootsIntact, IsAt, Between, ObjectsUpTo
<1>. QED
  BY <1>1, Invariance, PTL

(* Collector::Process finds room for every root, and in a clean collection *)
(* for every object: copies need no more room than the old half had.       *)
THEOREM Roomy == Spec => []RoomToCopy
<1>1. ASSUME Inv PROVE RoomToCopy
  <2>1. ASSUME status = "roots", index <= Len(Roots) PROVE Fits(Roots[index].at)
    BY <1>1, <2>1, NextRoot
  <2>2. ASSUME Scanning, clean, index \in DOMAIN Pointers, Target # UNALLOCATED
        PROVE  Target \in DOMAIN mem /\ (Skips(Target) \/ Fits(Target))
    BY <1>1, <2>2, TargetLemma DEF Skips, Old, Between
  <2>. QED
    BY <2>1, <2>2 DEF RoomToCopy
<1>. QED
  BY <1>1, Invariance, PTL

(* Collector::Visit copies no object twice, in a clean collection.         *)
THEOREM Once == Spec => []CopiedOnce
<1>1. ASSUME Inv PROVE CopiedOnce
  <2>1. ASSUME Collection, clean, NEW a \in New, NEW b \in New, mem[a].id = mem[b].id PROVE a = b
    <3>1. Single /\ Copies
      BY <1>1, <2>1 DEF Inv, Clean
    <3>2. PICK s \in Old : IsCopyOf(a, s)
      BY <3>1 DEF Copies
    <3>3. PICK t \in Old : IsCopyOf(b, t)
      BY <3>1 DEF Copies
    <3>4. s = t
      BY <2>1, <3>1, <3>2, <3>3, ZenonT(30) DEF Single, IsCopyOf
    <3>. QED
      BY <3>2, <3>3, <3>4 DEF IsCopyOf
  <2>. QED
    BY <2>1 DEF CopiedOnce, New, Between, ObjectsUpTo
<1>. QED
  BY <1>1, Invariance, PTL

(* What a copy shows a pointer to has a copy itself, when ProcessFromspace *)
(* of a clean collection has come to its end.                              *)
THEOREM Complete == Spec => []NothingLost
<1>1. ASSUME Inv PROVE NothingLost
  BY <1>1 DEF Inv, Clean, CleanNotify, NothingLost, New, Between, ObjectsUpTo
<1>. QED
  BY <1>1, Invariance, PTL

(***************************************************************************)
(* The first collection is clean                                           *)
(***************************************************************************)

(* Before the first collection the program knows where every object is,    *)
(* and whatever refers to one has its address from the program.            *)
Fresh ==
  /\ \A id \in DOMAIN held : held[id] \in ObjectsUpTo(current)
  /\ \A a \in ObjectsUpTo(current) :
       /\ ~IsForwarding(mem, a)
       /\ mem[a].id \in DOMAIN held /\ held[mem[a].id] = a
       /\ \A i \in DOMAIN mem[a].refs : mem[a].refs[i] \in Known
  /\ \A id \in DOMAIN locals : \A i \in DOMAIN locals[id] : locals[id][i] \in Known \cup {UNALLOCATED}

FirstClean == collections <= 1 => clean
FirstInv   == FirstClean /\ (collections = 0 => ~Collection /\ (Running => Fresh))

LEMMA FreshUndamaged == ASSUME Inv, Fresh PROVE Undamaged
<1>1. \A x \in Known : x \in ObjectsUpTo(current)
  BY DEF Fresh, Known
<1>2. ASSUME NEW a \in ObjectsUpTo(current), NEW i \in DOMAIN PointersOf(mem[a])
      PROVE  PointersOf(mem[a])[i] \in ObjectsUpTo(current) \cup {UNALLOCATED}
  <2>1. /\ mem[a].refs \in Seq(Address)
        /\ mem[a].kind = "module" => mem[a].id \in DOMAIN locals
        /\ locals \in [DOMAIN locals -> Seq(Address)]
    BY DEF Inv, TypeOK, Object, ObjectsUpTo
  <2>2. CASE mem[a].kind = "module"
    <3>1. locals[mem[a].id] \in Seq(Address) /\ PointersOf(mem[a]) = mem[a].refs \o locals[mem[a].id]
      BY <2>1, <2>2 DEF PointersOf
    <3>2. IF i <= Len(mem[a].refs)
          THEN i \in DOMAIN mem[a].refs /\ PointersOf(mem[a])[i] = mem[a].refs[i]
          ELSE /\ i - Len(mem[a].refs) \in DOMAIN locals[mem[a].id]
               /\ PointersOf(mem[a])[i] = locals[mem[a].id][i - Len(mem[a].refs)]
      <4> DEFINE r == mem[a].refs
                 l == locals[mem[a].id]
      <4>1. r \in Seq(Address) /\ l \in Seq(Address) /\ PointersOf(mem[a]) = r \o l
        BY <2>1, <3>1
      <4>2. i \in DOMAIN (r \o l)
        BY <1>2, <4>1
      <4> HIDE DEF r, l
      <4>3. IF i <= Len(r) THEN i \in DOMAIN r /\ (r \o l)[i] = r[i]
            ELSE i - Len(r) \in DOMAIN l /\ (r \o l)[i] = l[i - Len(r)]
        BY <4>1, <4>2, ConcatLemma
      <4>. QED
        BY <4>1, <4>3 DEF r, l
    <3>. QED
      BY <1>1, <2>1, <2>2, <3>2 DEF Fresh
  <2>3. CASE mem[a].kind = "error"
    <3>1. PointersOf(mem[a]) = mem[a].refs
      BY <2>3 DEF PointersOf
    <3>. QED
      BY <1>1, <1>2, <3>1 DEF Fresh
  <2>4. CASE mem[a].kind # "module" /\ mem[a].kind # "error"
    <3>1. PointersOf(mem[a]) = <<>>
      BY <2>4 DEF PointersOf
    <3>. QED
      BY <1>2, <3>1
  <2>. QED
    BY <2>2, <2>3, <2>4
<1>3. \A a, b \in ObjectsUpTo(current) : mem[a].id = mem[b].id => a = b
  BY DEF Fresh
<1>. QED
  BY <1>2, <1>3 DEF Undamaged, Fresh

LEMMA FreshAllocate ==
  ASSUME Inv, Fresh, NEW kind \in Kinds, NEW size \in Sizes, NEW refs \in Seq(Address),
         \A i \in DOMAIN refs : refs[i] \in Known,
         Allocates(size), TryAllocate(kind, size, refs),
         \A id \in DOMAIN locals' : locals'[id] = <<>> \/ (id \in DOMAIN locals /\ locals'[id] = locals[id])
  PROVE  Fresh'
<1> DEFINE o == [kind |-> kind, id |-> NewId, size |-> size, refs |-> refs, forwarding |-> UNALLOCATED]
<1>1. /\ Len(held)' = NewId /\ NewId \in Nat \ {0} /\ NewId = Len(held) + 1 /\ held \in Seq(Address)
      /\ Between(mem', fromspace, current') = Between(mem, fromspace, current) \cup {current}
      /\ \A b \in DOMAIN mem' \ {current} : b \in DOMAIN mem /\ mem'[b] = mem[b]
      /\ current \notin Between(mem, fromspace, current)
  BY NewLemma DEF NewId, Inv, TypeOK
<1>2. /\ mem' = Write(mem, current, o) /\ held' = Append(held, current) /\ fromspace' = fromspace
  BY DEF TryAllocate
<1>3. mem'[current] = o
  BY <1>2 DEF Write
<1>4. ObjectsUpTo(current)' = ObjectsUpTo(current) \cup {current} /\ current \notin ObjectsUpTo(current)
  BY <1>1, <1>2 DEF ObjectsUpTo, Between
<1>5. /\ DOMAIN held' = DOMAIN held \cup {NewId} /\ held'[NewId] = current
      /\ \A id \in DOMAIN held : id # NewId /\ held'[id] = held[id]
  BY <1>1, <1>2
<1>6. Known \subseteq Known'
  BY <1>5 DEF Known
<1>7. \A id \in DOMAIN held' : held'[id] \in ObjectsUpTo(current)'
  BY <1>4, <1>5 DEF Fresh
<1>8. ASSUME NEW a \in ObjectsUpTo(current)'
      PROVE  /\ mem'[a].forwarding = UNALLOCATED
             /\ mem'[a].id \in DOMAIN held' /\ held'[mem'[a].id] = a
             /\ \A i \in DOMAIN mem'[a].refs : mem'[a].refs[i] \in Known'
  <2>1. CASE a = current
    BY <1>3, <1>5, <1>6, <2>1
  <2>2. CASE a # current
    <3>1. a \in ObjectsUpTo(current) /\ mem'[a] = mem[a]
      BY <1>1, <1>4, <1>8, <2>2 DEF ObjectsUpTo
    <3>. QED
      BY <1>5, <1>6, <3>1 DEF Fresh, IsForwarding
  <2>. QED
    BY <2>1, <2>2
<1>9. \A id \in DOMAIN locals' : \A i \in DOMAIN locals'[id] : locals'[id][i] \in Known' \cup {UNALLOCATED}
  BY <1>6 DEF Fresh
<1>. QED
  BY <1>7, <1>8, <1>9 DEF Fresh, IsForwarding

LEMMA FreshLocal ==
  ASSUME Inv, Fresh, NEW id \in DOMAIN locals, NEW a \in Known \cup {UNALLOCATED},
         AddLocal(id, a) \/ \E i \in 1..MaxLocals : SetLocal(id, i, a)
  PROVE  Fresh'
<1>1. UNCHANGED <<mem, fromspace, current, held>>
  BY DEF AddLocal, SetLocal, zone
<1>2. locals \in [DOMAIN locals -> Seq(Address)] /\ locals[id] \in Seq(Address)
  BY DEF Inv, TypeOK
<1>3. \A x \in DOMAIN locals' : x \in DOMAIN locals /\ \A i \in DOMAIN locals'[x] :
        locals'[x][i] = a \/ (i \in DOMAIN locals[x] /\ locals'[x][i] = locals[x][i])
  <2>1. CASE AddLocal(id, a)
    <3>1. locals' = [locals EXCEPT ![id] = Append(locals[id], a)]
      BY <2>1 DEF AddLocal
    <3>2. \A i \in DOMAIN Append(locals[id], a) :
            Append(locals[id], a)[i] = a \/ (i \in DOMAIN locals[id] /\ Append(locals[id], a)[i] = locals[id][i])
      BY <1>2
    <3>. QED
      BY <1>2, <3>1, <3>2
  <2>2. ASSUME NEW i \in 1..MaxLocals, SetLocal(id, i, a)
        PROVE  \A x \in DOMAIN locals' : x \in DOMAIN locals /\ \A j \in DOMAIN locals'[x] :
                 locals'[x][j] = a \/ (j \in DOMAIN locals[x] /\ locals'[x][j] = locals[x][j])
    <3>1. locals' = [locals EXCEPT ![id] = [locals[id] EXCEPT ![i] = a]]
      BY <2>2 DEF SetLocal
    <3>. QED
      BY <1>2, <3>1
  <2>. QED
    BY <2>1, <2>2
<1>4. ObjectsUpTo(current)' = ObjectsUpTo(current) /\ Known' = Known
  BY <1>1 DEF ObjectsUpTo, Known
<1>5. \A x \in DOMAIN locals' : \A i \in DOMAIN locals'[x] : locals'[x][i] \in Known' \cup {UNALLOCATED}
  BY <1>3, <1>4 DEF Fresh
<1>. QED
  BY <1>1, <1>4, <1>5 DEF Fresh, IsForwarding

(* A step that is not part of a collection, nor begins one.                *)
LEMMA FirstStep ==
  ASSUME FirstInv, UNCHANGED <<collections, clean>>,
         collections = 0 => ~Collection' /\ (Running' => Fresh')
  PROVE  FirstInv'
  BY DEF FirstInv, FirstClean

LEMMA FirstNext == ASSUME Inv, FirstInv, [Next]_vars PROVE FirstInv'
<1>1. ASSUME NEW size \in Sizes, NewObject(size) PROVE FirstInv'
  <2>1. /\ status = "run" /\ status' = status /\ locals' = locals /\ UNCHANGED <<collections, clean>>
        /\ Allocates(size) /\ TryAllocate("object", size, <<>>)
    BY <1>1 DEF NewObject, Allocates, Running, TryAllocate, collector
  <2>2. <<>> \in Seq(Address) /\ DOMAIN <<>> = {}
    OBVIOUS
  <2>3. Fresh => Fresh'
    BY <2>1, <2>2, FreshAllocate DEF Kinds
  <2>. QED
    BY <2>1, <2>3, FirstStep DEF FirstInv, Running, Collection
<1>2. ASSUME NEW size \in Sizes, NEW a \in Known, NewError(size, a) \/ NewClass(size, a) \/ NewModule(size, a)
      PROVE  FirstInv'
  <2>1. /\ status = "run" /\ status' = status /\ UNCHANGED <<collections, clean>> /\ Allocates(size)
        /\ \E kind \in Kinds : TryAllocate(kind, size, <<a>>)
        /\ \A id \in DOMAIN locals' : locals'[id] = <<>> \/ (id \in DOMAIN locals /\ locals'[id] = locals[id])
    BY <1>2 DEF NewError, NewClass, NewModule, Allocates, Running, TryAllocate, collector, Kinds
  <2>2. <<a>> \in Seq(Address) /\ \A i \in DOMAIN <<a>> : <<a>>[i] \in Known
    BY KnownLemma
  <2>3. Fresh => Fresh'
    BY <2>1, <2>2, FreshAllocate
  <2>. QED
    BY <2>1, <2>3, FirstStep DEF FirstInv, Running, Collection
<1>3. ASSUME NEW id \in DOMAIN locals, NEW a \in Known \cup {UNALLOCATED},
             AddLocal(id, a) \/ \E i \in 1..MaxLocals : SetLocal(id, i, a)
      PROVE  FirstInv'
  <2>1. status = "run" /\ status' = status /\ UNCHANGED <<collections, clean>>
    BY <1>3 DEF AddLocal, SetLocal, Running, collector
  <2>2. Fresh => Fresh'
    BY <1>3, FreshLocal
  <2>. QED
    BY <2>1, <2>2, FirstStep DEF FirstInv, Running, Collection
<1>4. CASE Collect
  <2>1. /\ status = "run" /\ collections' = collections + 1 /\ clean' = Undamaged
        /\ collections \in Nat
    BY <1>4 DEF Collect, Running, Inv, TypeOK
  <2>2. collections = 0 => Undamaged
    BY <2>1, FreshUndamaged DEF FirstInv, Running
  <2>. QED
    BY <2>1, <2>2 DEF FirstInv, FirstClean
<1>5. CASE Abort \/ Wild
  <2>1. status' \in {"abort", "wild"} /\ UNCHANGED <<collections, clean>>
    BY <1>5 DEF Abort, Wild, collector
  <2>. QED
    BY <2>1, FirstStep DEF Running, Collection
<1>6. ASSUME Collection, UNCHANGED <<collections, clean>> PROVE FirstInv'
  BY <1>6, FirstStep DEF FirstInv
<1>7. CASE Collecting
  <2>1. Collecting => Abort \/ Wild \/ (Collection /\ UNCHANGED <<collections, clean>>)
    BY DEF Collecting, ProcessRoot, EndProcessRoots, VisitPointer, VisitPointerFails, EndVisitPointers,
           EndProcessFromspace, NotifyRoot, EndCollect, Scanning, Collection, collector
  <2>. QED
    BY <1>5, <1>6, <1>7, <2>1
<1>8. CASE UNCHANGED vars
  <2>1. /\ UNCHANGED <<mem, fromspace, current, held, locals, status, collections, clean>>
    BY <1>8 DEF vars, zone, collector
  <2>2. ObjectsUpTo(current)' = ObjectsUpTo(current) /\ Known' = Known
    BY <2>1 DEF ObjectsUpTo, Known
  <2>3. Fresh => Fresh'
    BY <2>1, <2>2 DEF Fresh, IsForwarding
  <2>. QED
    BY <2>1, <2>3, FirstStep DEF FirstInv, Running, Collection
<1>. QED
  BY <1>1, <1>2, <1>3, <1>4, <1>5, <1>7, <1>8 DEF Next, Program, OutOfMemory

(* The first collection of every program begins in an undamaged half, so   *)
(* that what holds of clean collections holds of it, whatever the program  *)
(* has allocated and stored before it calls gel/minor-gc!                  *)
THEOREM First == Spec => []FirstClean
<1>1. Init => FirstInv
  BY DEF Init, FirstInv, FirstClean, Collection, Fresh, ObjectsUpTo
<1>2. Inv /\ FirstInv /\ [Next]_vars => FirstInv'
  BY FirstNext
<1>3. FirstInv => FirstClean
  BY DEF FirstInv
<1>. QED
  BY <1>1, <1>2, <1>3, Invariance, PTL DEF Spec

=============================================================================
