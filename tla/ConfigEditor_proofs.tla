------------------------- MODULE ConfigEditor_proofs -------------------------
(***************************************************************************)
(* Proofs about Topology and ConfigEditor.                                 *)
(***************************************************************************)
EXTENDS ConfigEditor, FiniteSetTheorems, TLAPS

-----------------------------------------------------------------------------
(* Sorting. *)

(* A finite set can be put in the order of any relation that is strict and *)
(* total on it: the place of a member is the number of those below it.     *)
LEMMA Ranking ==
  ASSUME NEW S, IsFiniteSet(S), NEW R,
         \A x \in S : <<x, x>> \notin R,
         \A x, y, z \in S : <<x, y>> \in R /\ <<y, z>> \in R => <<x, z>> \in R,
         \A x, y \in S : x = y \/ <<x, y>> \in R \/ <<y, x>> \in R
  PROVE  \E f \in [1 .. Cardinality(S) -> S] :
           \A i, j \in 1 .. Cardinality(S) : i < j => <<f[i], f[j]>> \in R
<1> DEFINE n == Cardinality(S)
           Below(x) == {y \in S : <<y, x>> \in R}
           place == [x \in S |-> Cardinality(Below(x)) + 1]
<1>1. n \in Nat
  BY FS_CardinalityType
<1>2. ASSUME NEW x \in S
      PROVE  /\ IsFiniteSet(Below(x)) /\ Cardinality(Below(x)) \in Nat
             /\ Cardinality(Below(x)) < n
  <2>1. Below(x) \subseteq S /\ x \notin Below(x)
    OBVIOUS
  <2>2. IsFiniteSet(Below(x)) /\ Cardinality(Below(x)) <= n /\ Cardinality(Below(x)) # n
    BY <2>1, FS_Subset
  <2>3. Cardinality(Below(x)) \in Nat
    BY <2>2, FS_CardinalityType
  <2> QED
    BY <1>1, <2>2, <2>3
<1>3. ASSUME NEW x \in S, NEW y \in S, <<x, y>> \in R
      PROVE  place[x] < place[y]
  <2>1. Below(x) \subseteq Below(y) /\ x \in Below(y) /\ x \notin Below(x)
    BY <1>3
  <2>2. Cardinality(Below(x)) <= Cardinality(Below(y)) /\ Cardinality(Below(x)) # Cardinality(Below(y))
    BY <1>2, <2>1, FS_Subset
  <2>3. Cardinality(Below(x)) < Cardinality(Below(y))
    BY <1>2, <2>2, SMTT(30)
  <2>4. place[x] = Cardinality(Below(x)) + 1 /\ place[y] = Cardinality(Below(y)) + 1
    OBVIOUS
  <2> HIDE DEF Below, place
  <2> QED
    BY <1>2, <2>3, <2>4
<1>4. place \in [S -> 1 .. n]
  <2>1. \A x \in S : Cardinality(Below(x)) + 1 \in 1 .. n
    BY <1>1, <1>2
  <2> QED
    BY <2>1
<1> HIDE DEF place
<1>5. \A x, y \in S : place[x] = place[y] => x = y
  <2>1. \A x \in S : place[x] \in Int
    BY <1>1, <1>4
  <2>2. \A x, y \in S : <<x, y>> \in R => place[x] # place[y]
    BY <1>3, <2>1
  <2> QED
    BY <2>2
<1>6. \A i \in 1 .. n : \E x \in S : place[x] = i
  <2>1. place \in Injection(S, 1 .. n)
    BY <1>4, <1>5 DEF Injection, IsInjective
  <2>2. IsFiniteSet(1 .. n) /\ Cardinality(1 .. n) = n
    BY <1>1, FS_Interval
  <2>3. place \in Surjection(S, 1 .. n)
    BY <2>1, <2>2, FS_Injection
  <2> QED
    BY <2>3 DEF Surjection
<1> DEFINE f == [i \in 1 .. n |-> CHOOSE x \in S : place[x] = i]
<1>7. \A i \in 1 .. n : f[i] \in S /\ place[f[i]] = i
  BY <1>6
<1>8. f \in [1 .. n -> S]
  BY <1>7
<1>9. ASSUME NEW i \in 1 .. n, NEW j \in 1 .. n, i < j
      PROVE  <<f[i], f[j]>> \in R
  <2>1. f[i] # f[j] /\ ~(place[f[j]] < place[f[i]])
    BY <1>1, <1>7, <1>9
  <2> QED
    BY <1>3, <1>7, <2>1
<1> QED
  BY <1>8, <1>9

(* A list without repetitions, as long as a finite set is large, is full.  *)
LEMMA Exhausting ==
  ASSUME NEW S, IsFiniteSet(S), NEW f \in [1 .. Cardinality(S) -> S],
         \A i, j \in 1 .. Cardinality(S) : i < j => f[i] # f[j]
  PROVE  \A x \in S : \E i \in 1 .. Cardinality(S) : f[i] = x
<1> DEFINE n == Cardinality(S)
<1>1. n \in Nat
  BY FS_CardinalityType
<1>2. \A i, j \in 1 .. n : f[i] = f[j] => i = j
  BY <1>1
<1>3. f \in Injection(1 .. n, S)
  BY <1>2 DEF Injection, IsInjective
<1>4. IsFiniteSet(1 .. n) /\ Cardinality(1 .. n) = n
  BY <1>1, FS_Interval
<1>5. f \in Surjection(1 .. n, S)
  BY <1>3, <1>4, FS_Injection
<1> QED
  BY <1>5 DEF Surjection

(* Numbers can be put in decreasing order, ... *)
LEMMA SortedDown ==
  ASSUME NEW S \in SUBSET Nat, IsFiniteSet(S)
  PROVE  \E g \in [1 .. Cardinality(S) -> S] : \A i, j \in DOMAIN g : i < j => g[i] > g[j]
<1> DEFINE n == Cardinality(S)
           R == {p \in S \X S : p[1] > p[2]}
<1>1. \E g \in [1 .. n -> S] : \A i, j \in 1 .. n : i < j => <<g[i], g[j]>> \in R
  <2>1. \A x, y \in S : <<x, y>> \in R <=> x > y
    OBVIOUS
  <2> HIDE DEF R
  <2>2. /\ \A x \in S : <<x, x>> \notin R
        /\ \A x, y, z \in S : <<x, y>> \in R /\ <<y, z>> \in R => <<x, z>> \in R
        /\ \A x, y \in S : x = y \/ <<x, y>> \in R \/ <<y, x>> \in R
    BY <2>1
  <2> QED
    BY <2>2, Ranking
<1> QED
  BY <1>1

(* ... and a list in that order names each once. *)
LEMMA DistinctDown ==
  ASSUME NEW S \in SUBSET Nat, IsFiniteSet(S), NEW f \in [1 .. Cardinality(S) -> S],
         \A i, j \in DOMAIN f : i < j => f[i] > f[j]
  PROVE  /\ Cardinality(S) \in Nat
         /\ \A i, j \in 1 .. Cardinality(S) : f[i] = f[j] => i = j
         /\ \A x \in S : \E i \in 1 .. Cardinality(S) : f[i] = x
<1> DEFINE n == Cardinality(S)
<1>1. n \in Nat
  BY FS_CardinalityType
<1>2. ASSUME NEW i \in 1 .. n, NEW j \in 1 .. n, i < j
      PROVE  f[i] # f[j]
  <2>1. f[i] \in Nat /\ f[j] \in Nat /\ f[i] > f[j]
    BY <1>2
  <2> QED
    BY <2>1
<1>3. \A x \in S : \E i \in 1 .. n : f[i] = x
  BY <1>1, <1>2, Exhausting, SMTT(30)
<1>4. \A i, j \in 1 .. n : f[i] = f[j] => i = j
  BY <1>1, <1>2
<1> QED
  BY <1>1, <1>3, <1>4

-----------------------------------------------------------------------------
(* The two scans. *)

(* The CPUs are numbered without a gap, and u8 and MAX_CPU can hold their   *)
(* number.                                                                 *)
SmallMachine == \E n \in Nat : Cpus = 0 .. n - 1 /\ n < Byte /\ n <= MaxCpu

LEMMA MachineFacts ==
  ASSUME SmallMachine, NEW m \in Machine(Nat)
  PROVE  /\ Cardinality(Cpus) \in Nat /\ Cpus = 0 .. Cardinality(Cpus) - 1
         /\ Cardinality(Cpus) < Byte /\ Cardinality(Cpus) <= MaxCpu
         /\ OnlineCount(m) \in 1 .. Cardinality(Cpus)
         /\ Known(m) \subseteq Cpus /\ IsFiniteSet(Known(m))
         /\ Cardinality(Known(m)) \in 0 .. Cardinality(Cpus)
<1>1. PICK n \in Nat : Cpus = 0 .. n - 1 /\ n < Byte /\ n <= MaxCpu
  BY DEF SmallMachine
<1>2. IsFiniteSet(Cpus) /\ Cardinality(Cpus) = n
  <2>1. IsFiniteSet(0 .. n - 1) /\ Cardinality(0 .. n - 1) = IF 0 > n - 1 THEN 0 ELSE n - 1 - 0 + 1
    BY FS_Interval
  <2> QED
    BY <1>1, <2>1
<1>3. \A T \in SUBSET Cpus : /\ IsFiniteSet(T) /\ Cardinality(T) \in Nat
                             /\ Cardinality(T) <= n /\ (T # {} => Cardinality(T) # 0)
  BY <1>2, FS_Subset, FS_CardinalityType, FS_EmptySet
<1>4. OnlineCount(m) \in 1 .. n
  BY <1>3 DEF OnlineCount, Machine
<1>5. Known(m) \in SUBSET Cpus
  BY DEF Known
<1> QED
  BY <1>1, <1>2, <1>3, <1>4, <1>5

(* The distinct frequencies, high to low: each is that of some CPU, and     *)
(* each CPU that has one finds it.                                         *)
LEMMA FreqFacts ==
  ASSUME SmallMachine, NEW m \in Machine(Nat), NEW f, f = Freqs(m)
  PROVE  \E n \in 0 .. Cardinality(Cpus) :
           /\ Known(m) # {} => n # 0
           /\ DOMAIN f = 1 .. n /\ Len(f) = n
           /\ \A i \in 1 .. n : \E c \in Known(m) : m.freq[c] = f[i]
           /\ \A c \in Known(m) : \E i \in 1 .. n : f[i] = m.freq[c]
           /\ \A i, j \in 1 .. n : f[i] = f[j] => i = j
           /\ \A i \in 1 .. n : f[i] \in Nat \ {0}
<1> DEFINE S == {m.freq[c] : c \in Known(m)}
           n == Cardinality(S)
           g == [c \in Known(m) |-> m.freq[c]]
<1>1. S \subseteq Nat /\ 0 \notin S
  BY DEF Known, Machine
<1>2. g \in Surjection(Known(m), S)
  BY DEF Surjection
<1>3. IsFiniteSet(S) /\ n <= Cardinality(Known(m)) /\ n \in Nat
  BY <1>2, MachineFacts, FS_Surjection, FS_CardinalityType
<1>4. Known(m) # {} => n # 0
  BY <1>3, FS_EmptySet
<1>5. n \in 0 .. Cardinality(Cpus)
  BY <1>3, MachineFacts
<1>6. f \in [1 .. n -> S] /\ \A i, j \in DOMAIN f : i < j => f[i] > f[j]
  BY <1>1, <1>3, SortedDown DEF Freqs, Sorted
<1> HIDE DEF S
<1>7. DOMAIN f = 1 .. n /\ Len(f) = n
  BY <1>3, <1>6
<1>8. /\ \A i, j \in 1 .. n : f[i] = f[j] => i = j
      /\ \A x \in S : \E i \in 1 .. n : f[i] = x
  BY <1>1, <1>3, <1>6, DistinctDown
<1> USE DEF S
<1>9. /\ \A i \in 1 .. n : \E c \in Known(m) : m.freq[c] = f[i]
      /\ \A c \in Known(m) : \E i \in 1 .. n : f[i] = m.freq[c]
      /\ \A i \in 1 .. n : f[i] \in Nat \ {0}
  <2>1. \A i \in 1 .. n : f[i] \in S
    BY <1>6, <1>7
  <2>2. \A x \in S : x \in Nat \ {0} /\ \E c \in Known(m) : m.freq[c] = x
    BY <1>1
  <2>3. \A c \in Known(m) : m.freq[c] \in S
    OBVIOUS
  <2> HIDE DEF S
  <2> QED
    BY <1>8, <2>1, <2>2, <2>3
<1> HIDE DEF S
<1> QED
  BY <1>4, <1>5, <1>7, <1>8, <1>9

(* On a machine with frequencies: kind k is the k-th group, and neither is  *)
(* empty.                                                                  *)
LEMMA KindFacts ==
  ASSUME SmallMachine, NEW m \in Machine(Nat), Known(m) # {}
  PROVE  \E n \in 1 .. Cardinality(Cpus) :
           /\ KindNum(m) = n /\ DOMAIN Groups(m) = 1 .. n /\ Len(Groups(m)) = n
           /\ \A c \in Cpus : Kind(m, c) \in 0 .. n /\ (Kind(m, c) # 0 <=> c \in Known(m))
           /\ \A k \in 1 .. n :
                /\ Groups(m)[k].cpus = {c \in Cpus : Kind(m, c) = k}
                /\ \E c \in Cpus : Kind(m, c) = k
                /\ Groups(m)[k].name = GroupName(k - 1, n)
<1> DEFINE f == Freqs(m)
<1>1. PICK n \in 0 .. Cardinality(Cpus) :
           /\ Known(m) # {} => n # 0
           /\ DOMAIN f = 1 .. n /\ Len(f) = n
           /\ \A i \in 1 .. n : \E c \in Known(m) : m.freq[c] = f[i]
           /\ \A c \in Known(m) : \E i \in 1 .. n : f[i] = m.freq[c]
           /\ \A i, j \in 1 .. n : f[i] = f[j] => i = j
           /\ \A i \in 1 .. n : f[i] \in Nat \ {0}
  BY FreqFacts
<1>2. n \in 1 .. Cardinality(Cpus) /\ n \in Nat /\ n < Byte /\ Byte \in Nat \ {0}
  BY <1>1, MachineFacts, WidthAssumption
<1>3. \A k \in 0 .. n : k % Byte = k
  BY <1>2
<1>4. SortedFreqs(m) = f
  BY DEF SortedFreqs, Freqs
<1> HIDE DEF f
<1>5. KindNum(m) = n
  BY <1>1, <1>2, <1>3 DEF KindNum, f
<1>6. Groups(m) = [i \in 1 .. n |-> [name |-> GroupName(i - 1, n),
                                    cpus |-> {c \in Cpus : m.freq[c] = f[i]}]]
  BY <1>1, <1>4 DEF Groups
<1>7. ASSUME NEW c \in Cpus
      PROVE  /\ Kind(m, c) \in 0 .. n /\ (Kind(m, c) # 0 <=> c \in Known(m))
             /\ \A k \in 1 .. n : m.freq[c] = f[k] <=> Kind(m, c) = k
  <2>1. CASE c \in Known(m)
    <3> DEFINE k0 == CHOOSE k \in 1 .. n : f[k] = m.freq[c]
    <3>1. k0 \in 1 .. n /\ f[k0] = m.freq[c]
      BY <1>1, <2>1
    <3>2. Kind(m, c) = k0 % Byte
      BY <1>1, <2>1 DEF Kind, Known, f
    <3>3. Kind(m, c) = k0
      BY <1>3, <3>1, <3>2
    <3> HIDE DEF k0
    <3>4. \A k \in 1 .. n : m.freq[c] = f[k] <=> k0 = k
      BY <1>1, <3>1
    <3>5. k0 \in 0 .. n /\ k0 # 0
      BY <1>2, <3>1
    <3> QED
      BY <2>1, <3>3, <3>4, <3>5
  <2>2. CASE c \notin Known(m)
    BY <1>1, <1>2, <2>2 DEF Kind, Known
  <2> QED
    BY <2>1, <2>2
<1>8. ASSUME NEW k \in 1 .. n
      PROVE  /\ Groups(m)[k].cpus = {c \in Cpus : Kind(m, c) = k}
             /\ \E c \in Cpus : Kind(m, c) = k
             /\ Groups(m)[k].name = GroupName(k - 1, n)
  <2>1. Groups(m)[k].cpus = {c \in Cpus : Kind(m, c) = k}
    BY <1>6, <1>7
  <2>2. \E c \in Cpus : Kind(m, c) = k
    <3>1. PICK c \in Known(m) : m.freq[c] = f[k]
      BY <1>1
    <3>2. c \in Cpus
      BY <3>1, MachineFacts
    <3> QED
      BY <1>7, <3>1, <3>2
  <2> QED
    BY <1>6, <2>1, <2>2
<1>9. DOMAIN Groups(m) = 1 .. n /\ Len(Groups(m)) = n
  BY <1>2, <1>6
<1> QED
  BY <1>2, <1>5, <1>7, <1>8, <1>9

(* A machine without frequencies: one group, one kind, the CPUs from 0 on.  *)
LEMMA FallbackFacts ==
  ASSUME SmallMachine, NEW m \in Machine(Nat), Known(m) = {}
  PROVE  /\ KindNum(m) = 1 /\ DOMAIN Groups(m) = {1} /\ Len(Groups(m)) = 1
         /\ Groups(m)[1].name = <<"core">>
         /\ Groups(m)[1].cpus = {c \in Cpus : Kind(m, c) = 1}
         /\ \A c \in Cpus : Kind(m, c) = IF c < OnlineCount(m) THEN 1 ELSE 0
         /\ \E c \in Cpus : Kind(m, c) = 1
         /\ CpuNum(m) = OnlineCount(m)
<1> DEFINE n == OnlineCount(m)
<1>1. /\ n \in 1 .. Cardinality(Cpus) /\ Cardinality(Cpus) \in Nat
      /\ Cpus = 0 .. Cardinality(Cpus) - 1
      /\ Cardinality(Cpus) < Byte /\ Cardinality(Cpus) <= MaxCpu
  BY MachineFacts
<1>2. Groups(m) = <<[name |-> <<"core">>, cpus |-> 0 .. n - 1]>>
  BY DEF Groups
<1>3. FallbackCount(m) = n
  BY <1>1, WidthAssumption DEF FallbackCount
<1>4. \A c \in Cpus : Kind(m, c) = IF c < n THEN 1 ELSE 0
  BY <1>3 DEF Kind
<1>5. CpuNum(m) = n
  <2>1. n % Byte = n
    BY <1>1, WidthAssumption
  <2> QED
    BY <1>3, <2>1 DEF CpuNum
<1>6. Groups(m)[1].cpus = {c \in Cpus : Kind(m, c) = 1}
  <2>1. \A c : c \in 0 .. n - 1 <=> c \in Cpus /\ Kind(m, c) = 1
    BY <1>1, <1>4
  <2>2. Groups(m)[1].cpus = 0 .. n - 1
    BY <1>2
  <2> QED
    BY <2>1, <2>2
<1>7. 0 \in Cpus /\ Kind(m, 0) = 1
  BY <1>1, <1>4
<1> QED
  BY <1>2, <1>4, <1>5, <1>6, <1>7 DEF KindNum

LEMMA SidesAgreeOn ==
  ASSUME SmallMachine, NEW m \in Machine(Nat)
  PROVE  SidesAgree(Groups(m), Packed(m))
<1>1. \A c \in Cpus : Packed(m).kind[c] = Kind(m, c)
  BY DEF Packed
<1>2. Packed(m).kindNum = KindNum(m)
  BY DEF Packed
<1>3. /\ KindNum(m) = Len(Groups(m))
      /\ \A k \in 1 .. KindNum(m) : Groups(m)[k].cpus = {c \in Cpus : Kind(m, c) = k}
  <2>1. CASE Known(m) # {}
    BY <2>1, KindFacts
  <2>2. CASE Known(m) = {}
    <3>1. 1 .. 1 = {1}
      OBVIOUS
    <3> QED
      BY <2>2, <3>1, FallbackFacts
  <2> QED
    BY <2>1, <2>2
<1> QED
  BY <1>1, <1>2, <1>3 DEF SidesAgree

(* The list of select_cpu on a machine with frequencies: every CPU that has *)
(* one, by kind and number.                                                *)
LEMMA OrderFacts ==
  ASSUME SmallMachine, NEW m \in Machine(Nat), Known(m) # {}
  PROVE  LET n == Cardinality(Known(m))
             f == FastToSlow(m)
         IN  /\ n \in Nat /\ CpuNum(m) = n
             /\ f \in [1 .. n -> Known(m)]
             /\ \A x \in Known(m) : \E i \in 1 .. n : f[i] = x
             /\ \A i, j \in 1 .. n :
                  i < j => f[i] # f[j] /\ Kind(m, f[i]) <= Kind(m, f[j])
<1> DEFINE S == Known(m)
           n == Cardinality(S)
           Before(a, b) == \/ Kind(m, a) < Kind(m, b)
                           \/ Kind(m, a) = Kind(m, b) /\ a < b
           R == {p \in S \X S : Before(p[1], p[2])}
<1>1. /\ S \subseteq Cpus /\ S \subseteq Nat /\ IsFiniteSet(S) /\ n \in Nat /\ n < Byte
      /\ \A c \in S : c < Byte
      /\ Byte \in Nat \ {0}
  BY MachineFacts, WidthAssumption
<1>2. \A c \in S : Kind(m, c) \in Nat
  BY <1>1, KindFacts
<1>3. \E g \in [1 .. n -> S] : \A i, j \in DOMAIN g : i < j => Before(g[i], g[j])
  <2>1. \A x, y \in S : <<x, y>> \in R <=> Before(x, y)
    OBVIOUS
  <2> HIDE DEF R, S
  <2>2. /\ \A x \in S : <<x, x>> \notin R
        /\ \A x, y, z \in S : <<x, y>> \in R /\ <<y, z>> \in R => <<x, z>> \in R
        /\ \A x, y \in S : x = y \/ <<x, y>> \in R \/ <<y, x>> \in R
    BY <1>1, <1>2, <2>1
  <2>3. \E g \in [1 .. n -> S] : \A i, j \in 1 .. n : i < j => <<g[i], g[j]>> \in R
    BY <1>1, <2>2, Ranking
  <2> QED
    BY <2>1, <2>3
<1> DEFINE order == Sorted(Known(m), Before)
<1>4. order \in [1 .. n -> S] /\ \A i, j \in DOMAIN order : i < j => Before(order[i], order[j])
  BY <1>3 DEF Sorted
<1>5. FastToSlow(m) = [i \in DOMAIN order |-> order[i] % Byte]
  BY DEF FastToSlow
<1> HIDE DEF order
<1>6. FastToSlow(m) = order
  <2>1. \A i \in 1 .. n : order[i] % Byte = order[i]
    BY <1>1, <1>4
  <2> QED
    BY <1>4, <1>5, <2>1
<1>7. ASSUME NEW i \in 1 .. n, NEW j \in 1 .. n, i < j
      PROVE  order[i] # order[j] /\ Kind(m, order[i]) <= Kind(m, order[j])
  BY <1>1, <1>2, <1>4, <1>7
<1>8. \A x \in S : \E i \in 1 .. n : order[i] = x
  BY <1>1, <1>4, <1>7, Exhausting
<1>9. CpuNum(m) = n
  BY <1>1 DEF CpuNum
<1> QED
  BY <1>1, <1>4, <1>6, <1>7, <1>8, <1>9

LEMMA OrderCompleteOn ==
  ASSUME SmallMachine, NEW m \in Machine(Nat)
  PROVE  OrderComplete(Packed(m))
<1> DEFINE f == FastToSlow(m)
           s == SlowToFast(m)
<1>1. \E n \in Nat :
        /\ CpuNum(m) = n /\ DOMAIN f = 1 .. n /\ Len(f) = n
        /\ {f[i] : i \in 1 .. n} = {c \in Cpus : Kind(m, c) # 0}
        /\ \A i \in 1 .. n : f[i] \in Cpus /\ Kind(m, f[i]) \in Nat
        /\ \A i, j \in 1 .. n :
             i < j => f[i] # f[j] /\ Kind(m, f[i]) <= Kind(m, f[j])
  <2>1. CASE Known(m) # {}
    <3>1. PICK n \in Nat :
            /\ CpuNum(m) = n /\ f \in [1 .. n -> Known(m)]
            /\ \A x \in Known(m) : \E i \in 1 .. n : f[i] = x
            /\ \A i, j \in 1 .. n :
                 i < j => f[i] # f[j] /\ Kind(m, f[i]) <= Kind(m, f[j])
      BY <2>1, OrderFacts
    <3>2. /\ \A c \in Cpus : Kind(m, c) # 0 <=> c \in Known(m)
          /\ \A c \in Known(m) : c \in Cpus /\ Kind(m, c) \in Nat
      BY <2>1, KindFacts, MachineFacts
    <3> HIDE DEF f
    <3>3. {f[i] : i \in 1 .. n} = {c \in Cpus : Kind(m, c) # 0}
      BY <3>1, <3>2
    <3>4. DOMAIN f = 1 .. n /\ Len(f) = n
      BY <3>1
    <3> QED
      BY <3>1, <3>2, <3>3, <3>4
  <2>2. CASE Known(m) = {}
    <3> DEFINE n == OnlineCount(m)
    <3>1. /\ CpuNum(m) = n /\ n \in Nat
          /\ \A c \in Cpus : Kind(m, c) = IF c < n THEN 1 ELSE 0
          /\ \A c : c \in 0 .. n - 1 => c \in Cpus
          /\ Cpus \subseteq Nat
      BY <2>2, FallbackFacts, MachineFacts, CpuAssumption
    <3>2. f = [i \in 1 .. n |-> i - 1]
      BY <2>2, <3>1 DEF FastToSlow
    <3> HIDE DEF f, n
    <3>3. \A i \in 1 .. n : f[i] = i - 1 /\ f[i] \in 0 .. n - 1
      BY <3>1, <3>2
    <3>4. {f[i] : i \in 1 .. n} = {c \in Cpus : Kind(m, c) # 0}
      <4>1. \A c \in Cpus : Kind(m, c) # 0 => c + 1 \in 1 .. n /\ f[c + 1] = c
        BY <3>1, <3>3
      <4> QED
        BY <3>1, <3>3, <4>1
    <3>5. DOMAIN f = 1 .. n /\ Len(f) = n
      BY <3>1, <3>2
    <3>6. ASSUME NEW i \in 1 .. n
          PROVE  f[i] \in Cpus /\ Kind(m, f[i]) = 1
      BY <3>1, <3>3
    <3> QED
      BY <3>1, <3>3, <3>4, <3>5, <3>6
  <2> QED
    BY <2>1, <2>2
<1>2. PICK n \in Nat :
        /\ CpuNum(m) = n /\ DOMAIN f = 1 .. n /\ Len(f) = n
        /\ {f[i] : i \in 1 .. n} = {c \in Cpus : Kind(m, c) # 0}
        /\ \A i \in 1 .. n : f[i] \in Cpus /\ Kind(m, f[i]) \in Nat
        /\ \A i, j \in 1 .. n :
             i < j => f[i] # f[j] /\ Kind(m, f[i]) <= Kind(m, f[j])
  BY <1>1
<1>3. s = [i \in 1 .. n |-> f[(n - i) + 1]]
  BY <1>2 DEF SlowToFast, Reverse
<1>4. /\ Packed(m).fastToSlow = f /\ Packed(m).slowToFast = s /\ Packed(m).cpuNum = n
      /\ Packed(m).kind = [c \in Cpus |-> Kind(m, c)]
  BY <1>2 DEF Packed
<1> HIDE DEF f, s
<1>5. DOMAIN s = 1 .. n /\ Len(s) = n
  BY <1>3
<1>6. \A i \in 1 .. n : (n - i) + 1 \in 1 .. n /\ s[i] = f[(n - i) + 1] /\ s[(n - i) + 1] = f[i]
  BY <1>3
<1>7. {s[i] : i \in 1 .. n} = {f[i] : i \in 1 .. n}
  BY <1>6
<1>8. ASSUME NEW i \in 1 .. n, NEW j \in 1 .. n, i < j
      PROVE  /\ f[i] # f[j] /\ Kind(m, f[i]) <= Kind(m, f[j])
             /\ Kind(m, s[i]) >= Kind(m, s[j])
             /\ f[i] \in Cpus /\ f[j] \in Cpus /\ s[i] \in Cpus /\ s[j] \in Cpus
  <2>1. (n - j) + 1 < (n - i) + 1
    BY <1>8
  <2>2. Kind(m, f[(n - j) + 1]) <= Kind(m, f[(n - i) + 1])
    BY <1>2, <1>6, <2>1
  <2> QED
    BY <1>2, <1>6, <1>8, <2>2
<1> DEFINE p == Packed(m)
<1>9. p.fastToSlow = f /\ p.slowToFast = s /\ p.cpuNum = n
  BY <1>4
<1>10. \A c \in Cpus : p.kind[c] = Kind(m, c)
  BY <1>4
<1> HIDE DEF p
<1>11. {f[i] : i \in DOMAIN f} = {c \in Cpus : p.kind[c] # 0}
  BY <1>2, <1>10
<1>12. {s[i] : i \in DOMAIN s} = {f[i] : i \in DOMAIN f}
  BY <1>2, <1>5, <1>7
<1>13. ASSUME NEW i \in DOMAIN f, NEW j \in DOMAIN f, i < j
       PROVE  f[i] # f[j] /\ p.kind[f[i]] <= p.kind[f[j]]
                          /\ p.kind[s[i]] >= p.kind[s[j]]
  BY <1>2, <1>8, <1>10, <1>13
<1>14. OrderComplete(p)
  <2>1. Len(p.fastToSlow) = p.cpuNum /\ Len(p.slowToFast) = p.cpuNum
    BY <1>2, <1>5, <1>9
  <2>2. {p.fastToSlow[i] : i \in DOMAIN p.fastToSlow} = {c \in Cpus : p.kind[c] # 0}
    BY <1>9, <1>11
  <2>3. {p.slowToFast[i] : i \in DOMAIN p.slowToFast}
          = {p.fastToSlow[i] : i \in DOMAIN p.fastToSlow}
    BY <1>9, <1>12
  <2>4. \A i, j \in DOMAIN p.fastToSlow :
          i < j => /\ p.fastToSlow[i] # p.fastToSlow[j]
                   /\ p.kind[p.fastToSlow[i]] <= p.kind[p.fastToSlow[j]]
                   /\ p.kind[p.slowToFast[i]] >= p.kind[p.slowToFast[j]]
    BY <1>9, <1>13
  <2> QED
    BY <2>1, <2>2, <2>3, <2>4 DEF OrderComplete
<1> QED
  BY <1>14 DEF p

-----------------------------------------------------------------------------
(* The inductive invariant of the editors. *)

(* What the two scans have found never changes, and is what they find on    *)
(* some machine.                                                           *)
Scanned == \E m \in Machine(Nat) : groups = Groups(m) /\ packed = Packed(m)

FilesSound ==
  /\ clusters \in [Models -> 1 .. MaxClusters \cup {None}]
  /\ DOMAIN disk = Files
  /\ \A f \in Files : disk[f] \in {None, Garbage} \/ IsConfig(disk[f])

(* an editor that shows a table has one *)
EditorSound(e) ==
  /\ e \in Editor /\ IsTable(e.table)
  /\ e.sig # None => Len(e.table) = e.sig[3] + 1
  /\ e.shown => e.sig # None
EditorsSound == ed \in [Editors -> Editor] /\ \A x \in Editors : EditorSound(ed[x])

(* A set carries the configuration of the table it was made from, on its     *)
(* whole way from the button into force.                                   *)
MadeFrom(set, table) == set.config = ConfigOf(table) /\ IsTable(table)
HandedSound(set) == \E n \in 1 .. MaxClusters : set \in Handed(n) /\ MadeFrom(set, set.table)
InUseSound(set) == \E n \in 1 .. MaxClusters : set \in InUse(n) /\ MadeFrom(set, set.table)

SchedSound ==
  /\ DOMAIN sched = {"pc", "default", "target"}
  /\ sched.pc \in {"off", "starting", "loaded", "running"}
  /\ sched.pc = "off" => sched = NoSched
  /\ sched.pc = "starting" => HandedSound(sched.default)
                              /\ (sched.target = None \/ HandedSound(sched.target))
  /\ sched.pc \in {"loaded", "running"} =>
       InUseSound(sched.default) /\ (sched.target = None \/ InUseSound(sched.target))
  /\ sched.pc = "running" =>
       Valid(sched.default.config) /\ (sched.target = None \/ Valid(sched.target.config))

ControlSound == (control = None \/ HandedSound(control)) /\ unseen \in BOOLEAN

(* a file that nobody has touched since it was saved has the table in it *)
SavedSound ==
  /\ DOMAIN saves = Files
  /\ \A f \in Files :
       \/ saves[f] = None
       \/ \E n \in 1 .. MaxClusters :
            /\ saves[f] \in [1 .. n + 1 -> Row] /\ IsTable(saves[f])
            /\ disk[f] = ConfigOf(saves[f])

LeftSound == left \in [{"user", "others"} -> Nat]

IInv ==
  /\ Scanned /\ FilesSound /\ EditorsSound /\ SchedSound /\ ControlSound
  /\ SavedSound /\ LeftSound

-----------------------------------------------------------------------------
(* The groups. *)

LEMMA NamesDiffer ==
  ASSUME NEW n \in Nat, NEW i \in 1 .. n, NEW j \in 1 .. n
  PROVE  /\ GroupName(i - 1, n) \in Words /\ GroupName(i - 1, n) # <<"any">>
         /\ GroupName(i - 1, n) = GroupName(j - 1, n) => i = j
<1>1. CASE n = 1
  BY <1>1 DEF GroupName, Words
<1>2. CASE n = 2
  BY <1>2 DEF GroupName, Words
<1>3. CASE n \notin {1, 2}
  <2>1. GroupName(i - 1, n) = <<"tier", i - 1>> /\ GroupName(j - 1, n) = <<"tier", j - 1>>
    BY <1>3 DEF GroupName
  <2>2. i - 1 \in Nat
    OBVIOUS
  <2> QED
    BY <2>1, <2>2 DEF Words
<1> QED
  BY <1>1, <1>2, <1>3

(* What the editors and the scheduler need of a machine. *)
LEMMA ScanFacts ==
  ASSUME SmallMachine, Scanned
  PROVE  /\ TwoScansAgree
         /\ Len(groups) \in Nat \ {0} /\ DOMAIN groups = 1 .. Len(groups)
         /\ packed.kindNum = Len(groups) /\ Cpus # {}
         /\ \A i \in 1 .. Len(groups) :
              /\ groups[i].name \in Words /\ groups[i].name # <<"any">>
              /\ groups[i].cpus = {c \in Cpus : packed.kind[c] = i}
              /\ groups[i].cpus # {}
         /\ \A i, j \in 1 .. Len(groups) : groups[i].name = groups[j].name => i = j
<1>1. PICK m \in Machine(Nat) : groups = Groups(m) /\ packed = Packed(m)
  BY DEF Scanned
<1>2. TwoScansAgree
  BY <1>1, SidesAgreeOn, OrderCompleteOn DEF TwoScansAgree
<1>3. Cpus # {}
  BY <1>1 DEF Machine
<1>4. packed.kindNum = KindNum(m) /\ \A c \in Cpus : packed.kind[c] = Kind(m, c)
  BY <1>1 DEF Packed
<1>5. \E n \in Nat \ {0} :
        /\ KindNum(m) = n /\ DOMAIN groups = 1 .. n /\ Len(groups) = n
        /\ \A k \in 1 .. n : /\ groups[k].cpus = {c \in Cpus : Kind(m, c) = k}
                             /\ \E c \in Cpus : Kind(m, c) = k
                             /\ groups[k].name = GroupName(k - 1, n)
  <2>1. CASE Known(m) # {}
    <3>1. \A c \in 1 .. Cardinality(Cpus) : c \in Nat \ {0}
      BY MachineFacts
    <3> QED
      BY <1>1, <2>1, <3>1, KindFacts
  <2>2. CASE Known(m) = {}
    <3>1. 1 .. 1 = {1} /\ 1 \in Nat \ {0} /\ GroupName(1 - 1, 1) = <<"core">>
      BY DEF GroupName
    <3>2. /\ KindNum(m) = 1 /\ DOMAIN groups = 1 .. 1 /\ Len(groups) = 1
          /\ groups[1].cpus = {c \in Cpus : Kind(m, c) = 1}
          /\ \E c \in Cpus : Kind(m, c) = 1
          /\ groups[1].name = GroupName(1 - 1, 1)
      BY <1>1, <2>2, <3>1, FallbackFacts
    <3> QED
      BY <3>1, <3>2
  <2> QED
    BY <2>1, <2>2
<1>6. PICK n \in Nat \ {0} :
        /\ KindNum(m) = n /\ DOMAIN groups = 1 .. n /\ Len(groups) = n
        /\ \A k \in 1 .. n : /\ groups[k].cpus = {c \in Cpus : Kind(m, c) = k}
                             /\ \E c \in Cpus : Kind(m, c) = k
                             /\ groups[k].name = GroupName(k - 1, n)
  BY <1>5
<1>7. ASSUME NEW i \in 1 .. n
      PROVE  /\ groups[i].name \in Words /\ groups[i].name # <<"any">>
             /\ groups[i].cpus = {c \in Cpus : packed.kind[c] = i}
             /\ groups[i].cpus # {}
  <2>1. groups[i].cpus = {c \in Cpus : packed.kind[c] = i} /\ groups[i].cpus # {}
    BY <1>4, <1>6
  <2>2. groups[i].name = GroupName(i - 1, n)
    BY <1>6
  <2>3. GroupName(i - 1, n) \in Words /\ GroupName(i - 1, n) # <<"any">>
    BY NamesDiffer
  <2> QED
    BY <2>1, <2>2, <2>3
<1>8. ASSUME NEW i \in 1 .. n, NEW j \in 1 .. n, groups[i].name = groups[j].name
      PROVE  i = j
  <2>1. groups[i].name = GroupName(i - 1, n) /\ groups[j].name = GroupName(j - 1, n)
    BY <1>6
  <2> QED
    BY <1>8, <2>1, NamesDiffer
<1> QED
  BY <1>2, <1>3, <1>4, <1>6, <1>7, <1>8

-----------------------------------------------------------------------------
(* Tables and configurations. *)

LEMMA LabelFacts ==
  ASSUME SmallMachine, Scanned, NEW k \in Nat
  PROVE  KindLabel(k) \in [k : Nat, says : Words] /\ KindLabel(k).k = k
<1>1. KindLabel(k).says \in Words
  <2>1. CASE k = 0
    BY <2>1 DEF KindLabel, Words
  <2>2. CASE k # 0 /\ k <= Len(groups)
    BY <2>2, ScanFacts DEF KindLabel
  <2>3. CASE k # 0 /\ ~(k <= Len(groups))
    BY <2>3 DEF KindLabel, Words
  <2> QED
    BY <2>1, <2>2, <2>3
<1> QED
  BY <1>1 DEF KindLabel

LEMMA PreferFacts ==
  /\ \A p \in Nat : PreferLabel(p) \in Range(PreferLabels)
  /\ \A l \in Range(PreferLabels) : \E i \in 1 .. 3 : PreferLabels[i] = l
  /\ \A i, j \in 1 .. 3 : PreferLabels[i] = PreferLabels[j] => i = j
<1>1. DOMAIN PreferLabels = 1 .. 3
  BY DEF PreferLabels
<1>2. Range(PreferLabels) = {PreferLabels[i] : i \in 1 .. 3}
  BY <1>1 DEF Range
<1>3. \A p \in 0 .. 2 : p + 1 \in 1 .. 3
  OBVIOUS
<1>4. \A i, j \in 1 .. 3 : PreferLabels[i] = PreferLabels[j] => i = j
  <2>1. /\ PreferLabels[1] = "no preference" /\ PreferLabels[2] = "prefer fast"
        /\ PreferLabels[3] = "prefer slow"
    BY DEF PreferLabels
  <2>2. \A i \in 1 .. 3 : i = 1 \/ i = 2 \/ i = 3
    OBVIOUS
  <2> QED
    BY <2>1, <2>2
<1> HIDE DEF PreferLabels
<1>5. \A p \in Nat : PreferLabel(p) \in Range(PreferLabels)
  BY <1>2, <1>3 DEF PreferLabel
<1> QED
  BY <1>2, <1>4, <1>5

(* An entry, whatever it lacks, makes a row. *)
LEMMA RowTyped ==
  ASSUME SmallMachine, Scanned, NEW entry, IsEntry(entry)
  PROVE  /\ RowFromEntry(entry) \in Row
         /\ RowFromEntry(entry).kind = KindLabel(RowFromEntry(entry).kind.k)
<1>1. \A field \in Fields, d \in Nat : Get(entry, field, d) \in Nat
  BY DEF IsEntry, Get
<1>2. /\ Get(entry, "prio", LowestPrio) \in Nat /\ Get(entry, "slice", Floor) \in Nat
      /\ Get(entry, "kind", 0) \in Nat /\ Get(entry, "prefer", 0) \in Nat
  BY <1>1, EditorAssumption DEF Fields
<1>3. /\ KindLabel(Get(entry, "kind", 0)) \in [k : Nat, says : Words]
      /\ KindLabel(Get(entry, "kind", 0)).k = Get(entry, "kind", 0)
  BY <1>2, LabelFacts
<1>4. PreferLabel(Get(entry, "prefer", 0)) \in Range(PreferLabels)
  BY <1>2, PreferFacts
<1> QED
  BY <1>2, <1>3, <1>4 DEF RowFromEntry, Row

LEMMA NoEntryTyped == IsEntry(NoEntry) /\ IsConfig(NoConfig)
  BY DEF IsEntry, NoEntry, IsConfig, NoConfig

LEMMA SeedTyped ==
  ASSUME SmallMachine, Scanned, NEW n \in Nat, NEW config, IsConfig(config)
  PROVE  /\ Seed(n, config) \in [1 .. n + 1 -> Row] /\ IsTable(Seed(n, config))
         /\ Len(Seed(n, config)) = n + 1
<1> DEFINE t == Seed(n, config)
           entry(i) == IF i > n THEN config.default ELSE Get(config.clusters, i - 1, NoEntry)
<1>1. t = [i \in 1 .. n + 1 |-> RowFromEntry(entry(i))]
  BY DEF Seed
<1>2. \A i \in 1 .. n + 1 : IsEntry(entry(i))
  BY NoEntryTyped DEF IsConfig, Get
<1> HIDE DEF entry, t
<1>3. \A i \in 1 .. n + 1 : t[i] \in Row /\ t[i].kind = KindLabel(t[i].kind.k)
  BY <1>1, <1>2, RowTyped
<1>4. t \in [1 .. n + 1 -> Row] /\ Len(t) = n + 1 /\ DOMAIN t = 1 .. n + 1
  BY <1>1, <1>3
<1>5. t \in Seq(Row)
  BY <1>4
<1>6. IsTable(t)
  BY <1>3, <1>4, <1>5 DEF IsTable
<1> QED
  BY <1>4, <1>6 DEF t

LEMMA EntryTyped ==
  ASSUME NEW row \in Row
  PROVE  /\ EntryOf(row) \in Setting
         /\ EntryOf(row).prio = row.prio /\ EntryOf(row).kind = row.kind.k
         /\ EntryOf(row).slice = IF row.slice < Floor THEN Floor ELSE row.slice
         /\ EntryOf(row).prefer \in 0 .. 2
         /\ PreferLabels[EntryOf(row).prefer + 1] = row.prefer
<1> DEFINE i == CHOOSE i \in 1 .. 3 : PreferLabels[i] = row.prefer
<1>1. i \in 1 .. 3 /\ PreferLabels[i] = row.prefer
  BY PreferFacts DEF Row
<1>2. EntryOf(row) = [prio |-> row.prio, kind |-> row.kind.k, prefer |-> i - 1,
                      slice |-> IF row.slice < Floor THEN Floor ELSE row.slice]
  BY DEF EntryOf
<1> HIDE DEF i
<1>3. i - 1 \in 0 .. 2 /\ (i - 1) + 1 = i
  BY <1>1
<1> QED
  BY <1>1, <1>2, <1>3, EditorAssumption DEF Row, Setting

LEMMA ConfigTyped ==
  ASSUME NEW n \in 1 .. MaxClusters, NEW t \in [1 .. n + 1 -> Row]
  PROVE  /\ ConfigOf(t) \in Config(n) /\ IsConfig(ConfigOf(t))
         /\ ConfigOf(t) \notin {None, Garbage}
         /\ ConfigOf(t).clusters = [c \in 0 .. n - 1 |-> EntryOf(t[c + 1])]
         /\ ConfigOf(t).default = EntryOf(t[n + 1])
<1>1. n \in Nat /\ Len(t) = n + 1 /\ (n + 1) - 2 = n - 1 /\ n + 1 \in 1 .. n + 1
  BY EditorAssumption
<1>2. /\ ConfigOf(t).clusters = [c \in 0 .. n - 1 |-> EntryOf(t[c + 1])]
      /\ ConfigOf(t).default = EntryOf(t[n + 1])
      /\ ConfigOf(t) = [clusters |-> [c \in 0 .. n - 1 |-> EntryOf(t[c + 1])],
                        default |-> EntryOf(t[n + 1])]
  BY <1>1 DEF ConfigOf
<1>3. \A i \in 1 .. n + 1 : EntryOf(t[i]) \in Setting
  BY EntryTyped
<1>4. ConfigOf(t) \in Config(n)
  BY <1>1, <1>2, <1>3 DEF Config
<1>5. \A e \in Setting : IsEntry(e)
  BY DEF Setting, IsEntry, Fields
<1>6. IsConfig(ConfigOf(t))
  BY <1>1, <1>2, <1>3, <1>5 DEF IsConfig
<1> QED
  BY <1>2, <1>4, <1>6, NoneAssumption

-----------------------------------------------------------------------------
(* Editors. *)

(* the script passes the editor e, with these files, and leaves it as p *)
Passing(e, p, files) ==
  /\ EditorSound(p) /\ p.mode = e.mode
  /\ p.shown => p.sig = Signature(p) /\ clusters[p.model] \in 1 .. MaxClusters
  /\ p.sig = e.sig => p.table = e.table
  /\ p.sig # e.sig =>
       /\ p.sig = Signature(p) /\ clusters[p.model] \in 1 .. MaxClusters
       /\ p.table = Seed(clusters[p.model],
                         IF Loaded(Source(p), files) THEN files[Source(p)] ELSE NoConfig)

Configs(files) == \A f \in Files : files[f] \in {None, Garbage} \/ IsConfig(files[f])

LEMMA RenderSound ==
  ASSUME SmallMachine, Scanned, FilesSound, NEW files, Configs(files),
         NEW e, EditorSound(e)
  PROVE  Passing(e, Render(e, files), files)
<1> DEFINE n == clusters[e.model]
           config == IF Loaded(Source(e), files) THEN files[Source(e)] ELSE NoConfig
           r == Render(e, files)
<1> SUFFICES Passing(e, r, files)
  OBVIOUS
<1>1. /\ e \in Editor /\ e.model \in Models /\ e.mode \in {"gui", "file"}
      /\ e.file \in Files \cup {None} /\ Source(e) \in Files \cup {None}
      /\ n \in 1 .. MaxClusters \cup {None}
  BY DEF EditorSound, Editor, Source, FilesSound
<1>2. CASE n = None
  <2>1. r = [e EXCEPT !.shown = FALSE]
    BY <1>2 DEF Render
  <2>2. r \in Editor /\ r.mode = e.mode /\ r.sig = e.sig /\ r.table = e.table /\ r.shown = FALSE
    BY <1>1, <2>1 DEF Editor
  <2> HIDE DEF r
  <2> QED
    BY <2>2 DEF Passing, EditorSound
<1>3. CASE n # None
  <2>1. n \in 1 .. MaxClusters /\ n \in Nat /\ Signature(e) = <<e.mode, Source(e), n>>
    BY <1>1, <1>3, EditorAssumption DEF Signature
  <2>2. Signature(e) \in Signatures /\ Signature(e) # None /\ Signature(e)[3] = n
    BY <1>1, <2>1, NoneAssumption DEF Signatures
  <2>3. CASE e.sig = Signature(e)
    <3>1. r = [e EXCEPT !.shown = TRUE]
      BY <1>3, <2>3 DEF Render
    <3>2. /\ r \in Editor /\ r.mode = e.mode /\ r.sig = e.sig /\ r.table = e.table
          /\ r.shown = TRUE /\ r.model = e.model /\ r.file = e.file
      BY <1>1, <3>1 DEF Editor
    <3> HIDE DEF r
    <3>3. Signature(r) = Signature(e)
      BY <3>2 DEF Signature, Source
    <3> QED
      BY <2>1, <2>2, <2>3, <3>2, <3>3 DEF Passing, EditorSound
  <2>4. CASE e.sig # Signature(e)
    <3>1. r = [e EXCEPT !.shown = TRUE, !.sig = Signature(e), !.table = Seed(n, config)]
      BY <1>3, <2>4 DEF Render
    <3>2. IsConfig(config)
      BY <1>1, NoEntryTyped DEF Configs, Loaded
    <3> HIDE DEF config
    <3>3. /\ IsTable(Seed(n, config)) /\ Len(Seed(n, config)) = n + 1
          /\ Seed(n, config) \in Seq(Row)
      BY <2>1, <3>2, SeedTyped DEF IsTable
    <3>4. /\ r \in Editor /\ r.mode = e.mode /\ r.sig = Signature(e)
          /\ r.table = Seed(n, config) /\ r.shown = TRUE /\ r.model = e.model /\ r.file = e.file
      BY <1>1, <2>2, <3>1, <3>3 DEF Editor
    <3> HIDE DEF r
    <3>5. Signature(r) = Signature(e) /\ Source(r) = Source(e)
      BY <3>4 DEF Signature, Source
    <3>6. EditorSound(r)
      BY <2>2, <3>3, <3>4 DEF EditorSound
    <3>7. r.table = Seed(clusters[r.model],
                         IF Loaded(Source(r), files) THEN files[Source(r)] ELSE NoConfig)
      BY <3>4, <3>5 DEF config
    <3> QED
      BY <2>1, <2>4, <3>4, <3>5, <3>6, <3>7 DEF Passing
  <2> QED
    BY <2>3, <2>4
<1> QED
  BY <1>2, <1>3

LEMMA PassedSound ==
  ASSUME SmallMachine, Scanned, FilesSound, NEW files, Configs(files),
         NEW e, EditorSound(e), NEW p \in Passed(e, files)
  PROVE  Passing(e, p, files)
<1>1. PICK d \in Drawn(e, files) : p = Render(d, files)
  BY DEF Passed
<1>2. PICK m \in PickModel(e), f \in PickFile(e, files) : d = [e EXCEPT !.model = m, !.file = f]
  BY DEF Drawn
<1>3. m \in Models /\ f \in Files \cup {None}
  BY DEF EditorSound, Editor, PickModel, PickFile
<1>4. /\ d \in Editor /\ d.mode = e.mode /\ d.sig = e.sig /\ d.table = e.table
      /\ d.shown = e.shown
  BY <1>2, <1>3 DEF EditorSound, Editor
<1>5. EditorSound(d)
  BY <1>4 DEF EditorSound
<1>6. Passing(d, p, files)
  BY <1>1, <1>5, RenderSound
<1> QED
  BY <1>4, <1>6 DEF Passing

LEMMA PageSound ==
  ASSUME SmallMachine, Scanned, FilesSound, NEW w, \A x \in Editors : EditorSound(w[x]),
         NEW p \in Page(w)
  PROVE  p \in [Editors -> Editor] /\ \A x \in Editors : Passing(w[x], p[x], disk)
<1>1. PICK a \in Passed(w["classify"], disk), b \in Passed(w["classify_tset"], disk) :
        p = [x \in Editors |-> IF x = "classify" THEN a ELSE b]
  BY DEF Page
<1>2. Configs(disk)
  BY DEF Configs, FilesSound
<1>3. Passing(w["classify"], a, disk) /\ Passing(w["classify_tset"], b, disk)
  BY <1>2, PassedSound DEF Editors
<1>4. a \in Editor /\ b \in Editor
  BY <1>3 DEF Passing, EditorSound
<1> QED
  BY <1>1, <1>3, <1>4 DEF Editors

(* An edit leaves a table a table. *)
LEMMA EditTyped ==
  ASSUME SmallMachine, Scanned, NEW t, IsTable(t), NEW i \in DOMAIN t, NEW edit \in Edits
  PROVE  LET u == [t EXCEPT ![i][edit.field] = Cell(edit)]
         IN  IsTable(u) /\ Len(u) = Len(t)
<1> DEFINE row == [t[i] EXCEPT ![edit.field] = Cell(edit)]
           u == [t EXCEPT ![i][edit.field] = Cell(edit)]
<1>1. PICK n \in Nat : t \in [1 .. n -> Row] /\ Len(t) = n /\ DOMAIN t = 1 .. n
  BY DEF IsTable
<1>2. edit.field \in Fields /\ edit.value \in Nat
  BY EditorAssumption
<1>3. t[i] \in Row /\ t[i].kind = KindLabel(t[i].kind.k)
  BY <1>1 DEF IsTable
<1>4. u = [t EXCEPT ![i] = row]
  BY <1>1
<1> HIDE DEF u
<1>5. row \in Row /\ row.kind = KindLabel(row.kind.k)
  <2>1. CASE edit.field = "kind"
    <3>1. Cell(edit) = KindLabel(edit.value)
      BY <2>1 DEF Cell
    <3>2. Cell(edit) \in [k : Nat, says : Words] /\ Cell(edit).k = edit.value
      BY <1>2, <3>1, LabelFacts
    <3>3. row = [t[i] EXCEPT !.kind = Cell(edit)]
      BY <2>1
    <3> HIDE DEF row
    <3>4. row \in Row /\ row.kind = Cell(edit)
      BY <1>3, <3>2, <3>3 DEF Row
    <3> QED
      BY <3>1, <3>2, <3>4
  <2>2. CASE edit.field = "prefer"
    <3>1. Cell(edit) \in Range(PreferLabels)
      BY <1>2, <2>2, PreferFacts DEF Cell
    <3>2. row = [t[i] EXCEPT !.prefer = Cell(edit)]
      BY <2>2
    <3> HIDE DEF row
    <3> QED
      BY <1>3, <3>1, <3>2 DEF Row
  <2>3. CASE edit.field \in {"prio", "slice"}
    <3>1. Cell(edit) \in Nat
      BY <1>2, <2>3 DEF Cell
    <3>2. row = [t[i] EXCEPT !.prio = Cell(edit)] \/ row = [t[i] EXCEPT !.slice = Cell(edit)]
      BY <2>3
    <3> HIDE DEF row
    <3> QED
      BY <1>3, <3>1, <3>2 DEF Row
  <2> QED
    BY <1>2, <2>1, <2>2, <2>3 DEF Fields
<1> HIDE DEF row
<1>6. u \in [1 .. n -> Row] /\ Len(u) = n /\ DOMAIN u = 1 .. n
  BY <1>1, <1>4, <1>5
<1>7. \A j \in 1 .. n : u[j].kind = KindLabel(u[j].kind.k)
  <2>1. \A j \in 1 .. n : u[j] = IF j = i THEN row ELSE t[j]
    BY <1>1, <1>4
  <2> QED
    BY <1>1, <1>5, <2>1 DEF IsTable
<1>8. u \in Seq(Row)
  BY <1>6
<1> QED
  BY <1>1, <1>6, <1>7, <1>8 DEF IsTable, u

-----------------------------------------------------------------------------
(* The files. *)

LEMMA ShownFacts ==
  ASSUME NEW e, EditorSound(e)
  PROVE  /\ Source(e) \in Files \cup {None}
         /\ e.shown => \E n \in 1 .. MaxClusters : e.table \in [1 .. n + 1 -> Row]
<1>1. Source(e) \in Files \cup {None}
  BY DEF EditorSound, Editor, Source
<1>2. ASSUME e.shown
      PROVE  \E n \in 1 .. MaxClusters : e.table \in [1 .. n + 1 -> Row]
  <2>1. e.sig \in Signatures /\ Len(e.table) = e.sig[3] + 1 /\ e.table \in Seq(Row)
    BY <1>2 DEF EditorSound, Editor
  <2>2. e.sig[3] \in 1 .. MaxClusters
    BY <2>1 DEF Signatures
  <2>3. e.table \in [1 .. Len(e.table) -> Row]
    BY <2>1
  <2> QED
    BY <2>1, <2>2, <2>3
<1> QED
  BY <1>1, <1>2

(* what a step may do to the files *)
FileSaved(f, t) ==
  /\ disk' = [disk EXCEPT ![f] = ConfigOf(t)] /\ saves' = [saves EXCEPT ![f] = t]
FileSpoilt(f, config) ==
  /\ disk' = [disk EXCEPT ![f] = config] /\ saves' = [saves EXCEPT ![f] = None]

LEMMA DiskMoves ==
  ASSUME SmallMachine, IInv, Next
  PROVE  \/ UNCHANGED <<disk, saves>>
         \/ \E f \in Files, n \in 1 .. MaxClusters : \E t \in [1 .. n + 1 -> Row] :
              IsTable(t) /\ FileSaved(f, t)
         \/ \E f \in Files : \E config :
              (config \in {None, Garbage} \/ IsConfig(config)) /\ FileSpoilt(f, config)
<1>1. /\ Scanned /\ FilesSound /\ Configs(disk)
      /\ \A x \in Editors : EditorSound(ed[x])
  BY DEF IInv, EditorsSound, FilesSound, Configs
<1>2. ASSUME NEW x \in Editors, Save(x)
      PROVE  \E f \in Files, n \in 1 .. MaxClusters : \E t \in [1 .. n + 1 -> Row] :
               IsTable(t) /\ FileSaved(f, t)
  <2>1. PICK e \in Passed(ed[x], disk) :
          /\ e.shown /\ Source(e) # None
          /\ disk' = [disk EXCEPT ![Source(e)] = ConfigOf(e.table)]
          /\ saves' = [saves EXCEPT ![Source(e)] = e.table]
    BY <1>2 DEF Save
  <2>2. EditorSound(e)
    BY <1>1, PassedSound DEF Passing
  <2>3. Source(e) \in Files /\ IsTable(e.table)
        /\ \E n \in 1 .. MaxClusters : e.table \in [1 .. n + 1 -> Row]
    BY <2>1, <2>2, ShownFacts DEF EditorSound
  <2> QED
    BY <2>1, <2>3 DEF FileSaved
<1>3. ASSUME NEW x \in Editors, SaveFails(x)
      PROVE  \E f \in Files : FileSpoilt(f, Garbage)
  <2>1. PICK p \in Page(ed) :
          /\ Source(p[x]) # None
          /\ disk' = [disk EXCEPT ![Source(p[x])] = Garbage]
          /\ saves' = [saves EXCEPT ![Source(p[x])] = None]
    BY <1>3 DEF SaveFails
  <2>2. EditorSound(p[x])
    BY <1>1, PageSound DEF Passing
  <2> QED
    BY <2>1, <2>2, ShownFacts DEF FileSpoilt
<1>4. ASSUME NEW f \in Files, NEW config \in OldConfigs \cup {None, Garbage},
             FileWritten(f, config)
      PROVE  (config \in {None, Garbage} \/ IsConfig(config)) /\ FileSpoilt(f, config)
  BY <1>4, EditorAssumption DEF FileWritten, FileSpoilt
<1>5. CASE UserMove
  <2>1. ASSUME NEW x \in Editors, NEW m, ChooseModel(x, m)
        PROVE  UNCHANGED <<disk, saves>>
    BY <2>1 DEF ChooseModel, Choose
  <2>2. ASSUME NEW x \in Editors, NEW mode, ChooseMode(x, mode)
        PROVE  UNCHANGED <<disk, saves>>
    BY <2>2 DEF ChooseMode, Choose
  <2>3. ASSUME NEW x \in Editors, NEW f, ChooseFile(x, f)
        PROVE  UNCHANGED <<disk, saves>>
    BY <2>3 DEF ChooseFile, Choose
  <2>4. ASSUME NEW x \in Editors, NEW i, NEW edit, EditCell(x, i, edit)
        PROVE  UNCHANGED <<disk, saves>>
    BY <2>4 DEF EditCell
  <2>5. Start \/ Apply \/ Clear => UNCHANGED <<disk, saves>>
    BY DEF Start, Apply, Clear
  <2> QED
    BY <1>2, <1>3, <1>5, <2>1, <2>2, <2>3, <2>4, <2>5 DEF UserMove
<1>6. CASE Rerun \/ SchedMove
  BY <1>6 DEF Rerun, SchedMove, Load, Attach, Poll, Stop
<1>7. CASE OthersMove
  <2>1. ASSUME NEW m, NEW count, ModelChanged(m, count)
        PROVE  UNCHANGED <<disk, saves>>
    BY <2>1 DEF ModelChanged
  <2> QED
    BY <1>4, <1>7, <2>1 DEF OthersMove
<1> QED
  BY <1>5, <1>6, <1>7 DEF Next

(* Only others change the models; the machine stays as it was scanned, and   *)
(* the bounds are bounds.                                                  *)
LEMMA OthersMoves ==
  ASSUME IInv, Next
  PROVE  /\ UNCHANGED <<groups, packed>> /\ LeftSound'
         /\ clusters' = clusters \/ \E m \in Models, count \in 1 .. MaxClusters \cup {None} :
                                      ModelChanged(m, count)
<1>1. ASSUME NEW who, Moves(who), who \in {"user", "others"}
      PROVE  LeftSound'
  BY <1>1 DEF IInv, LeftSound, Moves
<1>2. CASE UserMove
  <2>1. ASSUME NEW x \in Editors, NEW field, NEW v, Choose(x, field, v)
        PROVE  UNCHANGED <<groups, packed, clusters>> /\ Moves("user")
    BY <2>1 DEF Choose
  <2>2. ASSUME NEW x \in Editors, NEW i, NEW edit, EditCell(x, i, edit)
        PROVE  UNCHANGED <<groups, packed, clusters>> /\ Moves("user")
    BY <2>2 DEF EditCell
  <2>3. ASSUME NEW x \in Editors, Save(x) \/ SaveFails(x)
        PROVE  UNCHANGED <<groups, packed, clusters>> /\ Moves("user")
    BY <2>3 DEF Save, SaveFails
  <2>4. Start \/ Apply \/ Clear => UNCHANGED <<groups, packed, clusters>> /\ Moves("user")
    BY DEF Start, Apply, Clear
  <2> QED
    BY <1>1, <1>2, <2>1, <2>2, <2>3, <2>4
    DEF UserMove, ChooseModel, ChooseMode, ChooseFile
<1>3. CASE Rerun \/ SchedMove
  <2>1. UNCHANGED <<groups, packed, clusters, left>>
    BY <1>3 DEF Rerun, SchedMove, Load, Attach, Poll, Stop
  <2> QED
    BY <2>1 DEF IInv, LeftSound
<1>4. CASE OthersMove
  <2>1. ASSUME NEW f, NEW config, FileWritten(f, config)
        PROVE  UNCHANGED <<groups, packed, clusters>> /\ Moves("others")
    BY <2>1 DEF FileWritten
  <2>2. ASSUME NEW m, NEW count, ModelChanged(m, count)
        PROVE  UNCHANGED <<groups, packed>> /\ Moves("others")
    BY <2>2 DEF ModelChanged
  <2> QED
    BY <1>1, <1>4, <2>1, <2>2 DEF OthersMove
<1> QED
  BY <1>2, <1>3, <1>4 DEF Next

LEMMA FilesStep ==
  ASSUME SmallMachine, IInv, [Next]_vars
  PROVE  FilesSound' /\ SavedSound' /\ LeftSound' /\ UNCHANGED <<groups, packed>>
<1>1. FilesSound /\ SavedSound /\ LeftSound
  BY DEF IInv
<1>2. CASE UNCHANGED vars
  BY <1>1, <1>2 DEF vars, FilesSound, SavedSound, LeftSound, IsTable, KindLabel
<1>3. CASE Next
  <2>1. UNCHANGED <<groups, packed>> /\ LeftSound'
    BY <1>3, OthersMoves
  <2>2. clusters' \in [Models -> 1 .. MaxClusters \cup {None}]
    BY <1>1, <1>3, OthersMoves DEF FilesSound, ModelChanged
  <2>3. \A t : IsTable(t) <=> IsTable(t)'
    BY <2>1 DEF IsTable, KindLabel
  <2> DEFINE Sound(files, saved) ==
               /\ DOMAIN files = Files /\ DOMAIN saved = Files
               /\ \A f \in Files : files[f] \in {None, Garbage} \/ IsConfig(files[f])
               /\ \A f \in Files :
                    \/ saved[f] = None
                    \/ \E n \in 1 .. MaxClusters :
                         /\ saved[f] \in [1 .. n + 1 -> Row] /\ IsTable(saved[f])
                         /\ files[f] = ConfigOf(saved[f])
  <2>4. Sound(disk', saves')
    <3>1. CASE UNCHANGED <<disk, saves>>
      BY <1>1, <3>1 DEF FilesSound, SavedSound
    <3>2. ASSUME NEW f \in Files, NEW n \in 1 .. MaxClusters, NEW t \in [1 .. n + 1 -> Row],
                 IsTable(t), FileSaved(f, t)
          PROVE  Sound(disk', saves')
      BY <1>1, <3>2, ConfigTyped DEF FilesSound, SavedSound, FileSaved
    <3>3. ASSUME NEW f \in Files, NEW config, config \in {None, Garbage} \/ IsConfig(config),
                 FileSpoilt(f, config)
          PROVE  Sound(disk', saves')
      BY <1>1, <3>3 DEF FilesSound, SavedSound, FileSpoilt
    <3> QED
      BY <1>3, <3>1, <3>2, <3>3, DiskMoves
  <2> QED
    BY <2>1, <2>2, <2>3, <2>4 DEF FilesSound, SavedSound
<1> QED
  BY <1>2, <1>3

-----------------------------------------------------------------------------
(* What a step does to an editor. *)

RenderedAgain(x) ==
  \E e : /\ EditorSound(e) /\ e.sig = ed[x].sig /\ e.table = ed[x].table
         /\ Passing(e, ed'[x], disk) \/ Passing(e, ed'[x], disk')
RenderedAndEdited(x) ==
  \E i \in DOMAIN ed[x].table, edit \in Edits : \E p, t :
    /\ Passing(ed[x], p, disk) /\ p.shown /\ p.sig = ed[x].sig
    /\ t = [ed[x].table EXCEPT ![i][edit.field] = Cell(edit)]
    /\ ed'[x] = [p EXCEPT !.table = t]

EditorMoved(x) ==
  \/ ed'[x] = ed[x]
  \/ clusters' = clusters /\ (RenderedAgain(x) \/ RenderedAndEdited(x))

LEMMA PageMoves ==
  ASSUME SmallMachine, IInv, clusters' = clusters, ed' \in Page(ed)
  PROVE  ed' \in [Editors -> Editor] /\ \A x \in Editors : EditorMoved(x)
<1>1. Scanned /\ FilesSound /\ \A x \in Editors : EditorSound(ed[x])
  BY DEF IInv, EditorsSound
<1>2. ed' \in [Editors -> Editor] /\ \A x \in Editors : Passing(ed[x], ed'[x], disk)
  BY <1>1, PageSound
<1> QED
  BY <1>1, <1>2 DEF EditorMoved, RenderedAgain

LEMMA ChooseMoves ==
  ASSUME SmallMachine, IInv, NEW x \in Editors, NEW field, NEW value, Choose(x, field, value),
         \/ field = "model" /\ value \in Models
         \/ field = "mode" /\ value \in {"gui", "file"}
         \/ field = "file" /\ value \in Files
  PROVE  ed' \in [Editors -> Editor] /\ \A y \in Editors : EditorMoved(y)
<1> DEFINE e == [ed[x] EXCEPT ![field] = value]
           w == [ed EXCEPT ![x] = e]
<1>1. /\ Scanned /\ FilesSound /\ ed \in [Editors -> Editor]
      /\ \A y \in Editors : EditorSound(ed[y])
  BY DEF IInv, EditorsSound
<1>2. clusters' = clusters /\ ed' \in Page(w)
  BY <1>1 DEF Choose
<1>3. e.sig = ed[x].sig /\ e.table = ed[x].table /\ e.shown = ed[x].shown /\ e \in Editor
  <2>1. CASE field = "model" /\ value \in Models
    BY <1>1, <2>1 DEF Editor
  <2>2. CASE field = "mode" /\ value \in {"gui", "file"}
    BY <1>1, <2>2 DEF Editor
  <2>3. CASE field = "file" /\ value \in Files
    BY <1>1, <2>3 DEF Editor
  <2> QED
    BY <2>1, <2>2, <2>3
<1> HIDE DEF e
<1>4. EditorSound(e)
  BY <1>1, <1>3 DEF EditorSound
<1>5. \A y \in Editors : w[y] = IF y = x THEN e ELSE ed[y]
  BY <1>1
<1> HIDE DEF w
<1>6. \A y \in Editors : EditorSound(w[y])
  BY <1>1, <1>4, <1>5
<1>7. ed' \in [Editors -> Editor] /\ \A y \in Editors : Passing(w[y], ed'[y], disk)
  BY <1>1, <1>2, <1>6, PageSound
<1>8. \A y \in Editors : w[y].sig = ed[y].sig /\ w[y].table = ed[y].table
  BY <1>3, <1>5
<1> QED
  BY <1>2, <1>6, <1>7, <1>8 DEF EditorMoved, RenderedAgain

LEMMA EditMoves ==
  ASSUME SmallMachine, IInv, NEW x \in Editors, NEW i, NEW edit \in Edits, EditCell(x, i, edit)
  PROVE  ed' \in [Editors -> Editor] /\ \A y \in Editors : EditorMoved(y)
<1>1. /\ Scanned /\ FilesSound /\ ed \in [Editors -> Editor]
      /\ \A y \in Editors : EditorSound(ed[y])
  BY DEF IInv, EditorsSound
<1>2. clusters' = clusters /\ i \in DOMAIN ed[x].table
  BY DEF EditCell
<1>3. PICK p \in Page(ed) :
        ed' = IF p[x].shown /\ p[x].sig = ed[x].sig
              THEN [p EXCEPT ![x].table[i][edit.field] = Cell(edit)] ELSE p
  BY DEF EditCell
<1>4. p \in [Editors -> Editor] /\ \A y \in Editors : Passing(ed[y], p[y], disk)
  BY <1>1, PageSound
<1>5. CASE p[x].shown /\ p[x].sig = ed[x].sig
  <2> DEFINE t == [ed[x].table EXCEPT ![i][edit.field] = Cell(edit)]
             e == [p[x] EXCEPT !.table = t]
  <2>1. ed' = [p EXCEPT ![x].table[i][edit.field] = Cell(edit)]
    BY <1>3, <1>5
  <2>2. p[x].table = ed[x].table /\ IsTable(ed[x].table)
    BY <1>1, <1>4, <1>5 DEF Passing, EditorSound
  <2>3. ed' = [p EXCEPT ![x] = e]
    BY <1>4, <2>1, <2>2
  <2>4. t \in Seq(Row)
    BY <1>1, <1>2, <2>2, EditTyped DEF IsTable
  <2>5. RenderedAndEdited(x) /\ e \in Editor
    <3>1. ed'[x] = e
      BY <1>4, <2>3
    <3>2. t = [ed[x].table EXCEPT ![i][edit.field] = Cell(edit)]
      OBVIOUS
    <3> HIDE DEF t
    <3>3. e \in Editor
      BY <1>4, <2>4 DEF Editor
    <3> QED
      BY <1>2, <1>4, <1>5, <3>1, <3>2, <3>3 DEF RenderedAndEdited
  <2> HIDE DEF e
  <2>6. ASSUME NEW y \in Editors, y # x
        PROVE  RenderedAgain(y)
    <3>1. ed'[y] = p[y]
      BY <1>4, <2>3, <2>6
    <3> QED
      BY <1>1, <1>4, <3>1 DEF RenderedAgain
  <2> QED
    BY <1>2, <1>4, <2>3, <2>5, <2>6 DEF EditorMoved
<1>6. CASE ~(p[x].shown /\ p[x].sig = ed[x].sig)
  <2>1. ed' = p
    BY <1>3, <1>6
  <2> QED
    BY <1>1, <1>2, <1>4, <2>1 DEF EditorMoved, RenderedAgain
<1> QED
  BY <1>5, <1>6

LEMMA SaveMoves ==
  ASSUME SmallMachine, IInv, [Next]_vars, NEW x \in Editors, Save(x)
  PROVE  ed' \in [Editors -> Editor] /\ \A y \in Editors : EditorMoved(y)
<1>1. /\ Scanned /\ FilesSound /\ ed \in [Editors -> Editor]
      /\ \A y \in Editors : EditorSound(ed[y])
  BY DEF IInv, EditorsSound
<1>2. Configs(disk) /\ Configs(disk')
  BY <1>1, FilesStep DEF FilesSound, Configs
<1>3. PICK e \in Passed(ed[x], disk), o \in Editors \ {x} :
        \E r \in Passed(ed[o], IF x = "classify" THEN disk' ELSE disk) :
          ed' = [ed EXCEPT ![x] = e, ![o] = r]
  BY DEF Save
<1>4. PICK r : /\ r \in Passed(ed[o], disk) \/ r \in Passed(ed[o], disk')
               /\ ed' = [ed EXCEPT ![x] = e, ![o] = r]
  BY <1>3
<1>5. Passing(ed[x], e, disk)
  BY <1>1, <1>2, PassedSound
<1>6. Passing(ed[o], r, disk) \/ Passing(ed[o], r, disk')
  BY <1>1, <1>2, <1>4, PassedSound
<1>7. e \in Editor /\ r \in Editor
  BY <1>5, <1>6 DEF Passing, EditorSound
<1>8. ed' \in [Editors -> Editor] /\ ed'[x] = e /\ ed'[o] = r
  BY <1>1, <1>3, <1>4, <1>7
<1>9. \A y \in Editors : y = x \/ y = o
  BY <1>3 DEF Editors
<1>10. clusters' = clusters
  BY DEF Save
<1> QED
  BY <1>1, <1>5, <1>6, <1>8, <1>9, <1>10 DEF EditorMoved, RenderedAgain

LEMMA EditorMoves ==
  ASSUME SmallMachine, IInv, [Next]_vars
  PROVE  ed' \in [Editors -> Editor] /\ \A x \in Editors : EditorMoved(x)
<1>1. ed \in [Editors -> Editor]
  BY DEF IInv, EditorsSound
<1>2. CASE ed' = ed
  BY <1>1, <1>2 DEF EditorMoved
<1>3. CASE Next
  <2>1. CASE UserMove
    <3>1. ASSUME NEW x \in Editors,
                 \/ \E m \in Models : ChooseModel(x, m)
                 \/ \E mode \in {"gui", "file"} : ChooseMode(x, mode)
                 \/ \E f \in Files : ChooseFile(x, f)
          PROVE  ed' \in [Editors -> Editor] /\ \A y \in Editors : EditorMoved(y)
      BY <3>1, ChooseMoves DEF ChooseModel, ChooseMode, ChooseFile
    <3>2. ASSUME NEW x \in Editors, SaveFails(x)
          PROVE  ed' \in [Editors -> Editor] /\ \A y \in Editors : EditorMoved(y)
      <4>1. ed' \in Page(ed) /\ clusters' = clusters
        BY <3>2 DEF SaveFails
      <4> QED
        BY <4>1, PageMoves
    <3>3. CASE Start \/ Apply \/ Clear
      <4>1. ed' \in Page(ed) /\ clusters' = clusters
        BY <3>3 DEF Start, Apply, Clear
      <4> QED
        BY <4>1, PageMoves
    <3> QED
      BY <2>1, <3>1, <3>2, <3>3, EditMoves, SaveMoves DEF UserMove
  <2>2. CASE Rerun
    BY <2>2, PageMoves DEF Rerun
  <2>3. CASE SchedMove
    BY <1>2, <2>3 DEF SchedMove, Load, Attach, Poll, Stop
  <2>4. CASE OthersMove
    BY <1>2, <2>4 DEF OthersMove, FileWritten, ModelChanged
  <2> QED
    BY <1>3, <2>1, <2>2, <2>3, <2>4 DEF Next
<1> QED
  BY <1>2, <1>3 DEF vars

LEMMA EditorsStep ==
  ASSUME SmallMachine, IInv, [Next]_vars
  PROVE  EditorsSound'
<1>1. UNCHANGED <<groups, packed>>
  BY FilesStep
<1>2. \A t : IsTable(t) <=> IsTable(t)'
  BY <1>1 DEF IsTable, KindLabel
<1>3. Scanned /\ FilesSound /\ ed \in [Editors -> Editor] /\ \A x \in Editors : EditorSound(ed[x])
  BY DEF IInv, EditorsSound
<1>4. ed' \in [Editors -> Editor] /\ \A x \in Editors : EditorMoved(x)
  BY EditorMoves
<1>5. ASSUME NEW x \in Editors
      PROVE  EditorSound(ed'[x])
  <2>1. CASE ed'[x] = ed[x] \/ RenderedAgain(x)
    BY <1>3, <2>1 DEF RenderedAgain, Passing
  <2>2. CASE RenderedAndEdited(x)
    <3>1. PICK i \in DOMAIN ed[x].table, edit \in Edits :
            \E p, t : /\ Passing(ed[x], p, disk) /\ p.shown /\ p.sig = ed[x].sig
                      /\ t = [ed[x].table EXCEPT ![i][edit.field] = Cell(edit)]
                      /\ ed'[x] = [p EXCEPT !.table = t]
      BY <2>2 DEF RenderedAndEdited
    <3>2. PICK p, t : /\ Passing(ed[x], p, disk) /\ p.shown /\ p.sig = ed[x].sig
                      /\ t = [ed[x].table EXCEPT ![i][edit.field] = Cell(edit)]
                      /\ ed'[x] = [p EXCEPT !.table = t]
      BY <3>1
    <3>3. EditorSound(p) /\ p \in Editor /\ p.table = ed[x].table
      BY <3>2 DEF Passing, EditorSound
    <3>4. IsTable(t) /\ Len(t) = Len(p.table)
      <4> DEFINE u == [ed[x].table EXCEPT ![i][edit.field] = Cell(edit)]
      <4>1. IsTable(ed[x].table)
        BY <1>3 DEF EditorSound
      <4>2. IsTable(u) /\ Len(u) = Len(ed[x].table)
        BY <1>3, <4>1, EditTyped
      <4>3. t = u
        BY <3>2
      <4> HIDE DEF u
      <4> QED
        BY <3>3, <4>2, <4>3
    <3>5. /\ ed'[x].table = t /\ ed'[x].sig = p.sig /\ ed'[x].shown = p.shown
          /\ ed'[x] \in Editor
      BY <1>4, <3>2, <3>3 DEF Editor
    <3> QED
      BY <3>3, <3>4, <3>5 DEF EditorSound
  <2> QED
    BY <1>4, <2>1, <2>2 DEF EditorMoved
<1> QED
  BY <1>2, <1>4, <1>5 DEF EditorsSound, EditorSound

-----------------------------------------------------------------------------
(* The scheduler and the control files. *)

LEMMA GivenSound ==
  ASSUME NEW e, EditorSound(e), e.shown
  PROVE  HandedSound(Given(e))
<1>1. PICK n \in 1 .. MaxClusters : e.table \in [1 .. n + 1 -> Row]
  BY ShownFacts
<1>2. ConfigOf(e.table) \in Config(n) /\ e.model \in Models /\ IsTable(e.table)
  BY <1>1, ConfigTyped DEF EditorSound, Editor
<1>3. /\ Given(e).model = e.model /\ Given(e).config = ConfigOf(e.table)
      /\ Given(e).table = e.table /\ Given(e) \in Handed(n)
  BY <1>1, <1>2 DEF Given, Handed
<1> QED
  BY <1>2, <1>3 DEF HandedSound, MadeFrom

LEMMA SetFacts ==
  /\ \A s : HandedSound(s) => s # None /\ s.model \in Models
  /\ \A s : InUseSound(s) => s # None /\ s.model \in Models
  /\ \A s : HandedSound(s) /\ FilesSound /\ clusters[s.model] # None =>
              InUseSound(LoadSet(s)) /\ LoadSet(s).config = s.config
  /\ \A s : InUseSound(s) =>
              HandedSound([model |-> s.model, config |-> s.config, table |-> s.table])
<1>1. ASSUME NEW s, HandedSound(s)
      PROVE  s # None /\ s.model \in Models
  BY <1>1, NoneAssumption DEF HandedSound, Handed
<1>2. ASSUME NEW s, InUseSound(s)
      PROVE  s # None /\ s.model \in Models
  BY <1>2, NoneAssumption DEF InUseSound, InUse
<1>3. ASSUME NEW s, HandedSound(s), FilesSound, clusters[s.model] # None
      PROVE  InUseSound(LoadSet(s)) /\ LoadSet(s).config = s.config
  <2>1. clusters[s.model] \in 1 .. MaxClusters
    BY <1>1, <1>3 DEF FilesSound
  <2>2. PICK n \in 1 .. MaxClusters : s \in Handed(n) /\ MadeFrom(s, s.table)
    BY <1>3 DEF HandedSound
  <2>3. /\ LoadSet(s) \in InUse(n) /\ LoadSet(s).config = s.config
        /\ LoadSet(s).table = s.table
    BY <2>1, <2>2 DEF Handed, InUse, LoadSet
  <2> QED
    BY <2>2, <2>3 DEF InUseSound, MadeFrom
<1>4. ASSUME NEW s, InUseSound(s)
      PROVE  HandedSound([model |-> s.model, config |-> s.config, table |-> s.table])
  <2> DEFINE h == [model |-> s.model, config |-> s.config, table |-> s.table]
  <2>1. PICK n \in 1 .. MaxClusters : s \in InUse(n) /\ MadeFrom(s, s.table)
    BY <1>4 DEF InUseSound
  <2>2. h \in Handed(n) /\ h.config = s.config /\ h.table = s.table
    BY <2>1 DEF Handed, InUse
  <2> QED
    BY <2>1, <2>2 DEF HandedSound, MadeFrom
<1> QED
  BY <1>1, <1>2, <1>3, <1>4

LEMMA PageShown ==
  ASSUME SmallMachine, IInv, NEW p \in Page(ed), NEW x \in Editors, p[x].shown
  PROVE  HandedSound(Given(p[x]))
<1>1. Passing(ed[x], p[x], disk)
  BY PageSound DEF IInv, EditorsSound
<1> QED
  BY <1>1, GivenSound DEF Passing

(* what a step may do to the scheduler, ... *)
SchedMoved(new) ==
  \/ new = sched \/ new = NoSched
  \/ /\ DOMAIN new = {"pc", "default", "target"}
     /\ \/ new.pc = "starting" /\ HandedSound(new.default)
                               /\ (new.target = None \/ HandedSound(new.target))
        \/ /\ new.pc \in {"loaded", "running"} /\ InUseSound(new.default)
           /\ new.target = None \/ InUseSound(new.target)
           /\ new.pc = "running" =>
                Valid(new.default.config) /\ (new.target = None \/ Valid(new.target.config))
(* ... and to the control files *)
ControlMoved(new) == new = control \/ new = None \/ HandedSound(new)

LEMMA SchedMoves ==
  ASSUME SmallMachine, IInv, [Next]_vars
  PROVE  SchedMoved(sched') /\ ControlMoved(control') /\ unseen' \in BOOLEAN
<1>1. SchedSound /\ ControlSound /\ FilesSound
  BY DEF IInv
<1>2. "classify" \in Editors /\ "classify_tset" \in Editors
  BY DEF Editors
<1>3. ASSUME sched' = sched, control' = control, unseen' = unseen
      PROVE  SchedMoved(sched') /\ ControlMoved(control') /\ unseen' \in BOOLEAN
  BY <1>1, <1>3 DEF SchedMoved, ControlMoved, ControlSound
<1>4. CASE Start
  <2>1. PICK p \in Page(ed) :
          sched' = IF ~p["classify"].shown THEN sched
                   ELSE [pc |-> "starting", default |-> Given(p["classify"]),
                         target |-> IF p["classify_tset"].shown
                                    THEN Given(p["classify_tset"]) ELSE None]
    BY <1>4 DEF Start
  <2>2. SchedMoved(sched')
    <3>1. CASE ~p["classify"].shown
      BY <2>1, <3>1 DEF SchedMoved
    <3>2. CASE p["classify"].shown
      <4>1. HandedSound(Given(p["classify"]))
        BY <1>2, <3>2, PageShown
      <4>2. p["classify_tset"].shown => HandedSound(Given(p["classify_tset"]))
        BY <1>2, PageShown
      <4> QED
        BY <2>1, <3>2, <4>1, <4>2 DEF SchedMoved
    <3> QED
      BY <3>1, <3>2
  <2>3. UNCHANGED <<control, unseen>>
    BY <1>4 DEF Start
  <2> QED
    BY <1>1, <2>2, <2>3 DEF ControlMoved, ControlSound
<1>5. CASE Load
  <2>1. UNCHANGED <<control, unseen>> /\ sched.pc = "starting"
    BY <1>5 DEF Load
  <2>2. HandedSound(sched.default) /\ (sched.target = None \/ HandedSound(sched.target))
    BY <1>1, <2>1 DEF SchedSound
  <2>3. SchedMoved(sched')
    <3>1. CASE \E s \in {sched.default, sched.target} \ {None} : clusters[s.model] = None
      BY <1>5, <3>1 DEF Load, SchedMoved
    <3>2. CASE ~\E s \in {sched.default, sched.target} \ {None} : clusters[s.model] = None
      <4>1. InUseSound(LoadSet(sched.default))
        BY <1>1, <2>2, <3>2, SetFacts
      <4>2. sched.target # None => InUseSound(LoadSet(sched.target))
        BY <1>1, <2>2, <3>2, SetFacts
      <4>3. sched' = [pc |-> "loaded", default |-> LoadSet(sched.default),
                      target |-> IF sched.target = None THEN None ELSE LoadSet(sched.target)]
        BY <1>5, <3>2 DEF Load
      <4> QED
        BY <4>1, <4>2, <4>3 DEF SchedMoved
    <3> QED
      BY <3>1, <3>2
  <2> QED
    BY <1>1, <2>1, <2>3 DEF ControlMoved, ControlSound
<1>6. CASE Attach
  <2>1. /\ unseen' = FALSE /\ sched.pc = "loaded"
        /\ sched' = IF \A s \in {sched.default, sched.target} \ {None} : Valid(s.config)
                    THEN [sched EXCEPT !.pc = "running"] ELSE NoSched
        /\ control' = IF sched.target = None THEN None
                      ELSE [model |-> sched.target.model, config |-> sched.target.config,
                            table |-> sched.target.table]
    BY <1>6 DEF Attach
  <2>2. /\ InUseSound(sched.default) /\ (sched.target = None \/ InUseSound(sched.target))
        /\ DOMAIN sched = {"pc", "default", "target"}
    BY <1>1, <2>1 DEF SchedSound
  <2>3. ControlMoved(control')
    BY <2>1, <2>2, SetFacts DEF ControlMoved
  <2>4. SchedMoved(sched')
    <3>1. CASE \A s \in {sched.default, sched.target} \ {None} : Valid(s.config)
      <4>1. Valid(sched.default.config) /\ (sched.target = None \/ Valid(sched.target.config))
        BY <2>2, <3>1, SetFacts
      <4>2. sched' = [sched EXCEPT !.pc = "running"]
        BY <2>1, <3>1
      <4>3. /\ DOMAIN sched' = {"pc", "default", "target"} /\ sched'.pc = "running"
            /\ sched'.default = sched.default /\ sched'.target = sched.target
        BY <2>2, <4>2
      <4> QED
        BY <2>2, <4>1, <4>3 DEF SchedMoved
    <3>2. CASE ~\A s \in {sched.default, sched.target} \ {None} : Valid(s.config)
      BY <2>1, <3>2 DEF SchedMoved
    <3> QED
      BY <3>1, <3>2
  <2> QED
    BY <2>1, <2>3, <2>4
<1>7. CASE Poll
  <2>1. /\ unseen' = FALSE /\ control' = control /\ sched.pc = "running"
        /\ sched' = IF control = None THEN [sched EXCEPT !.target = None]
                    ELSE IF clusters[control.model] # None /\ Valid(control.config)
                    THEN [sched EXCEPT !.target = LoadSet(control)]
                    ELSE sched
    BY <1>7 DEF Poll
  <2>2. /\ InUseSound(sched.default) /\ DOMAIN sched = {"pc", "default", "target"}
        /\ Valid(sched.default.config)
    BY <1>1, <2>1 DEF SchedSound
  <2>3. ASSUME NEW t, sched' = [sched EXCEPT !.target = t],
               t = None \/ (InUseSound(t) /\ Valid(t.config))
        PROVE  SchedMoved(sched')
    <3>1. /\ DOMAIN sched' = {"pc", "default", "target"} /\ sched'.pc = "running"
          /\ sched'.default = sched.default /\ sched'.target = t
      BY <2>1, <2>2, <2>3
    <3> QED
      BY <2>2, <2>3, <3>1 DEF SchedMoved
  <2>4. control # None /\ clusters[control.model] # None /\ Valid(control.config) =>
          InUseSound(LoadSet(control)) /\ Valid(LoadSet(control).config)
    BY <1>1, SetFacts DEF ControlSound
  <2>5. CASE control = None
    BY <2>1, <2>3, <2>5 DEF ControlMoved
  <2>6. CASE control # None /\ clusters[control.model] # None /\ Valid(control.config)
    BY <2>1, <2>3, <2>4, <2>6 DEF ControlMoved
  <2>7. CASE control # None /\ ~(clusters[control.model] # None /\ Valid(control.config))
    BY <2>1, <2>7 DEF ControlMoved, SchedMoved
  <2> QED
    BY <2>5, <2>6, <2>7
<1>8. CASE Stop
  BY <1>1, <1>8 DEF Stop, SchedMoved, ControlMoved, ControlSound
<1>9. CASE Apply
  <2>1. PICK p \in Page(ed) :
          IF ~p["classify_tset"].shown THEN UNCHANGED <<control, unseen>>
          ELSE /\ control' = Given(p["classify_tset"])
               /\ unseen' = TRUE \/ UNCHANGED unseen
    BY <1>9 DEF Apply
  <2>2. p["classify_tset"].shown => HandedSound(Given(p["classify_tset"]))
    BY <1>2, PageShown
  <2>3. sched' = sched
    BY <1>9 DEF Apply
  <2> QED
    BY <1>1, <2>1, <2>2, <2>3 DEF SchedMoved, ControlMoved, ControlSound
<1>10. CASE Clear
  BY <1>10 DEF Clear, SchedMoved, ControlMoved
<1>11. CASE UserMove
  <2>1. ASSUME NEW x \in Editors,
               \/ \E m \in Models : ChooseModel(x, m)
               \/ \E mode \in {"gui", "file"} : ChooseMode(x, mode)
               \/ \E f \in Files : ChooseFile(x, f)
        PROVE  UNCHANGED <<sched, control, unseen>>
    BY <2>1 DEF ChooseModel, ChooseMode, ChooseFile, Choose
  <2>2. ASSUME NEW x \in Editors, NEW i, NEW edit, EditCell(x, i, edit)
        PROVE  UNCHANGED <<sched, control, unseen>>
    BY <2>2 DEF EditCell
  <2>3. ASSUME NEW x \in Editors, Save(x) \/ SaveFails(x)
        PROVE  UNCHANGED <<sched, control, unseen>>
    BY <2>3 DEF Save, SaveFails
  <2> QED
    BY <1>3, <1>4, <1>9, <1>10, <1>11, <2>1, <2>2, <2>3 DEF UserMove
<1>12. CASE OthersMove
  BY <1>3, <1>12 DEF OthersMove, FileWritten, ModelChanged
<1>13. CASE Rerun
  BY <1>3, <1>13 DEF Rerun
<1>14. CASE UNCHANGED vars
  BY <1>3, <1>14 DEF vars
<1> QED
  BY <1>5, <1>6, <1>7, <1>8, <1>11, <1>12, <1>13, <1>14 DEF Next, SchedMove

LEMMA SchedStep ==
  ASSUME SmallMachine, IInv, [Next]_vars
  PROVE  SchedSound' /\ ControlSound'
<1>1. SchedSound /\ ControlSound
  BY DEF IInv
<1>2. UNCHANGED <<groups, packed>>
  BY FilesStep
<1>3. /\ \A s : HandedSound(s) <=> HandedSound(s)'
      /\ \A s : InUseSound(s) <=> InUseSound(s)'
      /\ \A c : Valid(c) <=> Valid(c)'
  BY <1>2 DEF HandedSound, InUseSound, MadeFrom, Valid, IsTable, KindLabel
<1>4. SchedMoved(sched') /\ ControlMoved(control') /\ unseen' \in BOOLEAN
  BY SchedMoves
<1>5. ControlSound'
  BY <1>1, <1>3, <1>4 DEF ControlSound, ControlMoved
<1>6. SchedSound'
  <2>1. CASE sched' = sched
    BY <1>1, <1>3, <2>1 DEF SchedSound
  <2>2. CASE sched' = NoSched
    BY <2>2 DEF SchedSound, NoSched
  <2>3. CASE sched' # sched /\ sched' # NoSched
    BY <1>3, <1>4, <2>3 DEF SchedSound, SchedMoved
  <2> QED
    BY <2>1, <2>2, <2>3
<1> QED
  BY <1>5, <1>6

-----------------------------------------------------------------------------
(* The invariant holds always. *)

LEMMA InitSound ==
  ASSUME SmallMachine, Init
  PROVE  IInv
<1>1. PICK s \in Sessions :
        /\ groups = Groups(s.machine) /\ packed = Packed(s.machine)
        /\ clusters = s.clusters /\ disk = s.disk
        /\ left = [user |-> s.user, others |-> s.others]
  BY DEF Init
<1>2. PICK m \in Models :
        ed = [x \in Editors |->
                Render([model |-> m, mode |-> "gui", file |-> None, sig |-> None,
                        table |-> << >>, shown |-> FALSE], disk)]
  BY DEF Init
<1>3. s \in Session
  BY EditorAssumption
<1>4. Scanned
  BY <1>1, <1>3 DEF Scanned, Session
<1>5. FilesSound /\ LeftSound
  BY <1>1, <1>3, EditorAssumption DEF FilesSound, LeftSound, Session
<1> DEFINE e == [model |-> m, mode |-> "gui", file |-> None, sig |-> None,
                 table |-> << >>, shown |-> FALSE]
<1>6. EditorSound(e)
  <2>1. << >> \in Seq(Row) /\ DOMAIN << >> = {}
    OBVIOUS
  <2> QED
    BY <2>1 DEF EditorSound, Editor, IsTable
<1>7. \A x \in Editors : ed[x] = Render(e, disk)
  BY <1>2
<1> HIDE DEF e
<1>8. EditorSound(Render(e, disk)) /\ Render(e, disk) \in Editor
  <2>1. Configs(disk)
    BY <1>5 DEF FilesSound, Configs
  <2> QED
    BY <1>4, <1>5, <1>6, <2>1, RenderSound DEF Passing, EditorSound
<1>9. EditorsSound
  <2>1. ed = [x \in Editors |-> Render(e, disk)]
    BY <1>2 DEF e
  <2> QED
    BY <1>7, <1>8, <2>1 DEF EditorsSound
<1>10. SchedSound /\ ControlSound /\ SavedSound
  BY DEF Init, SchedSound, ControlSound, SavedSound, NoSched
<1> QED
  BY <1>4, <1>5, <1>9, <1>10 DEF IInv

LEMMA StepSound ==
  ASSUME SmallMachine, IInv, [Next]_vars
  PROVE  IInv'
<1>1. Scanned'
  BY FilesStep DEF IInv, Scanned
<1> QED
  BY <1>1, FilesStep, EditorsStep, SchedStep DEF IInv

LEMMA Invariant == ASSUME SmallMachine PROVE Spec => []IInv
<1>1. Init => IInv
  BY InitSound
<1>2. IInv /\ [Next]_vars => IInv'
  BY StepSound
<1> QED
  BY <1>1, <1>2, PTL DEF Spec

(* Every editor, file and set keeps its type: in particular a table has a    *)
(* row for each cluster of the model it was seeded for and the default row, *)
(* and a row means what its label says.                                    *)
THEOREM EditorTypeCorrect == ASSUME SmallMachine PROVE Spec => []TypeOK
<1>1. \A s : (HandedSound(s) => IsHanded(s)) /\ (InUseSound(s) => IsInUse(s))
  BY DEF HandedSound, InUseSound, IsHanded, IsInUse
<1>2. ASSUME IInv
      PROVE  TypeOK
  <2>1. sched.pc = "off" => sched = NoSched
    BY <1>2 DEF IInv, SchedSound
  <2>2. \A x \in Editors : /\ IsTable(ed[x].table)
                           /\ ed[x].sig # None => Len(ed[x].table) = ed[x].sig[3] + 1
    BY <1>2 DEF IInv, EditorsSound, EditorSound
  <2> QED
    BY <1>1, <1>2, <2>1, <2>2
    DEF IInv, FilesSound, EditorsSound, SchedSound, ControlSound, SavedSound, LeftSound, TypeOK
<1> QED
  BY <1>2, Invariant, PTL

(* The two scans of a machine agree on the CPUs of every kind, and the order *)
(* in which select_cpu looks at them is complete, on every machine whose    *)
(* CPUs a u8 can count, with any frequencies and any CPUs offline.          *)
THEOREM ScansAgree == ASSUME SmallMachine PROVE Spec => []TwoScansAgree
<1>1. IInv => TwoScansAgree
  BY ScanFacts DEF IInv
<1> QED
  BY <1>1, Invariant, PTL

-----------------------------------------------------------------------------
(* What is in force. *)

(* the setting of a cluster is that of its row *)
LEMMA SettingIsRow ==
  ASSUME NEW s, InUseSound(s), NEW c \in Nat
  PROVE  /\ RowOf(s.table, c) \in Row
         /\ RowOf(s.table, c).kind = KindLabel(RowOf(s.table, c).kind.k)
         /\ SettingOf(s, c) = EntryOf(RowOf(s.table, c))
         /\ SettingOf(s, c) = s.config.default
            \/ (c \in DOMAIN s.config.clusters /\ SettingOf(s, c) = s.config.clusters[c])
<1>1. PICK n \in 1 .. MaxClusters : s \in InUse(n) /\ MadeFrom(s, s.table)
  BY DEF InUseSound
<1>2. /\ s.table \in [1 .. n + 1 -> Row] /\ n \in Nat /\ Len(s.table) = n + 1
      /\ s.config = ConfigOf(s.table) /\ IsTable(s.table)
  BY <1>1, EditorAssumption DEF InUse, MadeFrom
<1>3. /\ s.config.clusters = [d \in 0 .. n - 1 |-> EntryOf(s.table[d + 1])]
      /\ s.config.default = EntryOf(s.table[n + 1])
  BY <1>2, ConfigTyped
<1>4. RowOf(s.table, c) = IF c < n THEN s.table[c + 1] ELSE s.table[n + 1]
  BY <1>2 DEF RowOf
<1>5. DOMAIN s.config.clusters = 0 .. n - 1 /\ (c \in 0 .. n - 1 <=> c < n)
  BY <1>2, <1>3
<1>6. SettingOf(s, c) = IF c < n THEN s.config.clusters[c] ELSE s.config.default
  BY <1>5 DEF SettingOf, Get
<1>7. \A i \in 1 .. n + 1 : s.table[i] \in Row /\ s.table[i].kind = KindLabel(s.table[i].kind.k)
  BY <1>2 DEF IsTable
<1> QED
  BY <1>2, <1>3, <1>4, <1>5, <1>6, <1>7

(* the CPUs of a kind are those the GUI names *)
LEMMA NamedCpus ==
  ASSUME SmallMachine, Scanned, NEW k \in 0 .. packed.kindNum
  PROVE  /\ CpusOf(k) = CpusNamed(KindLabel(k))
         /\ CpusOf(k) # {} /\ CpusOf(k) \subseteq Cpus
<1>1. CASE k = 0
  <2>1. KindLabel(k).says = <<"any">>
    BY <1>1 DEF KindLabel
  <2> QED
    BY <1>1, <2>1, ScanFacts DEF CpusOf, CpusNamed
<1>2. CASE k # 0
  <2>1. k \in 1 .. Len(groups) /\ DOMAIN groups = 1 .. Len(groups)
    BY <1>2, ScanFacts
  <2>2. KindLabel(k).says = groups[k].name /\ groups[k].name # <<"any">>
    BY <1>2, <2>1, ScanFacts DEF KindLabel
  <2>3. {j \in DOMAIN groups : groups[j].name = groups[k].name} = {k}
    BY <2>1, ScanFacts
  <2>4. CpusNamed(KindLabel(k)) = UNION {groups[i].cpus : i \in {k}}
    BY <2>2, <2>3 DEF CpusNamed
  <2>5. CpusNamed(KindLabel(k)) = groups[k].cpus
    BY <2>4
  <2>6. CpusOf(k) = {c \in Cpus : packed.kind[c] = k}
    BY <1>2 DEF CpusOf
  <2>7. groups[k].cpus = {c \in Cpus : packed.kind[c] = k} /\ groups[k].cpus # {}
    BY <2>1, ScanFacts
  <2> QED
    BY <2>5, <2>6, <2>7
<1> QED
  BY <1>1, <1>2

LEMMA KindFits ==
  ASSUME SmallMachine, Scanned, NEW s, InUseSound(s), Valid(s.config), NEW c \in Nat
  PROVE  SettingOf(s, c).kind \in 0 .. packed.kindNum
<1>1. SettingOf(s, c) \in Setting
  BY SettingIsRow, EntryTyped
<1>2. SettingOf(s, c).kind <= packed.kindNum
  BY SettingIsRow DEF Valid
<1>3. packed.kindNum \in Nat
  BY ScanFacts
<1> QED
  BY <1>1, <1>2, <1>3 DEF Setting

(* Every cluster runs as its row said when the set was handed over: the      *)
(* priority, the slice, the preference and the CPUs whose name was on the   *)
(* screen, whatever edits, reruns, files, models and polls came between.    *)
THEOREM RowsInForce == ASSUME SmallMachine PROVE Spec => []InForceAsShown
<1>1. ASSUME IInv, NEW s \in SetsInForce, NEW c \in DOMAIN Policy(s)
      PROVE  LET row == RowOf(s.table, c)
                 got == Policy(s)[c]
             IN  /\ got.prio = row.prio
                 /\ got.slice = IF row.slice < Floor THEN Floor ELSE row.slice
                 /\ PreferLabels[got.prefer + 1] = row.prefer
                 /\ got.cpus = CpusNamed(row.kind)
  <2>1. InUseSound(s) /\ Valid(s.config) /\ Scanned
    BY <1>1 DEF IInv, SetsInForce, SchedSound
  <2>2. c \in Nat /\ c \in 0 .. s.count - 1
    BY <1>1 DEF Policy
  <2> DEFINE row == RowOf(s.table, c)
             entry == SettingOf(s, c)
  <2>3. Policy(s)[c] = [prio |-> entry.prio, slice |-> entry.slice, prefer |-> entry.prefer,
                        cpus |-> CpusOf(entry.kind)]
    BY <2>2 DEF Policy
  <2>4. row \in Row /\ row.kind = KindLabel(row.kind.k) /\ entry = EntryOf(row)
    BY <2>1, <2>2, SettingIsRow
  <2>5. entry.kind \in 0 .. packed.kindNum
    BY <2>1, <2>2, KindFits
  <2> HIDE DEF row, entry
  <2>6. entry.kind = row.kind.k /\ entry.prio = row.prio
        /\ entry.slice = (IF row.slice < Floor THEN Floor ELSE row.slice)
        /\ PreferLabels[entry.prefer + 1] = row.prefer
    BY <2>4, EntryTyped
  <2>7. CpusOf(entry.kind) = CpusNamed(row.kind)
    BY <2>1, <2>4, <2>5, <2>6, NamedCpus
  <2> QED
    BY <2>3, <2>6, <2>7 DEF row
<1>2. IInv => InForceAsShown
  BY <1>1 DEF InForceAsShown
<1> QED
  BY <1>2, Invariant, PTL

-----------------------------------------------------------------------------
(* The refinement. *)

LEMMA PolicySound ==
  ASSUME SmallMachine, Scanned, NEW s, InUseSound(s), Valid(s.config)
  PROVE  Policy(s) # None /\ Enforced!Sound(Policy(s))
<1> DEFINE entry(c) == SettingOf(s, c)
<1>1. s.count \in 1 .. MaxClusters /\ s.count \in Nat
  BY EditorAssumption DEF InUseSound, InUse
<1>2. Policy(s) = [c \in 0 .. s.count - 1 |->
                     [prio |-> entry(c).prio, slice |-> entry(c).slice,
                      prefer |-> entry(c).prefer, cpus |-> CpusOf(entry(c).kind)]]
  BY DEF Policy
<1>3. ASSUME NEW c \in 0 .. s.count - 1
      PROVE  /\ entry(c) \in Setting /\ entry(c).slice >= Floor
             /\ CpusOf(entry(c).kind) # {} /\ CpusOf(entry(c).kind) \subseteq Cpus
  <2>1. c \in Nat
    BY <1>1
  <2>2. RowOf(s.table, c) \in Row /\ entry(c) = EntryOf(RowOf(s.table, c))
    BY <2>1, SettingIsRow
  <2>3. entry(c) \in Setting /\ entry(c).slice >= Floor
    BY <2>2, EntryTyped, EditorAssumption DEF Row, Setting
  <2>4. entry(c).kind \in 0 .. packed.kindNum
    BY <2>1, KindFits
  <2> QED
    BY <2>3, <2>4, NamedCpus
<1> HIDE DEF entry
<1>4. Policy(s) \in Policies(s.count)
  BY <1>2, <1>3 DEF Policies, Setting
<1>5. Policy(s) # None
  BY <1>1, <1>4, NoneAssumption
<1>6. Enforced!Sound(Policy(s))
  BY <1>2, <1>3 DEF Enforced!Sound
<1> QED
  BY <1>5, <1>6

(* a default set is kept for the whole run *)
LEMMA DefaultKept ==
  ASSUME SmallMachine, IInv, [Next]_vars, sched.pc = "running", sched'.pc = "running"
  PROVE  sched'.default = sched.default
<1>1. SchedSound
  BY DEF IInv
<1>2. CASE Poll
  <2>1. DOMAIN sched = {"pc", "default", "target"}
    BY <1>1 DEF SchedSound
  <2> QED
    BY <1>2, <2>1 DEF Poll
<1>3. CASE Start \/ Load \/ Attach
  BY <1>3 DEF Start, Load, Attach
<1>4. CASE Stop
  BY <1>4 DEF Stop, NoSched
<1>5. CASE sched' = sched
  BY <1>5
<1>6. CASE UserMove
  <2>1. ASSUME NEW x \in Editors,
               \/ \E m \in Models : ChooseModel(x, m)
               \/ \E mode \in {"gui", "file"} : ChooseMode(x, mode)
               \/ \E f \in Files : ChooseFile(x, f)
        PROVE  sched' = sched
    BY <2>1 DEF ChooseModel, ChooseMode, ChooseFile, Choose
  <2>2. ASSUME NEW x \in Editors, NEW i, NEW edit, EditCell(x, i, edit)
        PROVE  sched' = sched
    BY <2>2 DEF EditCell
  <2>3. ASSUME NEW x \in Editors, Save(x) \/ SaveFails(x)
        PROVE  sched' = sched
    BY <2>3 DEF Save, SaveFails
  <2>4. Apply \/ Clear => sched' = sched
    BY DEF Apply, Clear
  <2> QED
    BY <1>3, <1>6, <2>1, <2>2, <2>3, <2>4 DEF UserMove
<1>7. CASE Rerun \/ OthersMove
  BY <1>7 DEF Rerun, OthersMove, FileWritten, ModelChanged
<1> QED
  BY <1>2, <1>3, <1>4, <1>5, <1>6, <1>7 DEF Next, SchedMove, vars

(* The scheduler enforces policies and does nothing else to them: each gives *)
(* every cluster of its model some CPUs and a slice, for any models, tables *)
(* and control files, and the default one is kept for the whole run.        *)
THEOREM ConfigsEnforced == ASSUME SmallMachine PROVE Spec => ImplementsEnforcement
<1> DEFINE D == IF sched.pc = "running" THEN Policy(sched.default) ELSE None
           T == IF sched.pc = "running" /\ sched.target # None
                THEN Policy(sched.target) ELSE None
<1>1. Init => Enforced!Init
  BY DEF Init, NoSched, Enforced!Init
<1> DEFINE Good == sched.pc = "running" =>
                     D # None /\ Enforced!Sound(D) /\ (T = None \/ Enforced!Sound(T))
<1>2. IInv => Good
  <2> SUFFICES ASSUME IInv, sched.pc = "running"
               PROVE  D # None /\ Enforced!Sound(D) /\ (T = None \/ Enforced!Sound(T))
    OBVIOUS
  <2>1. /\ Scanned /\ InUseSound(sched.default) /\ Valid(sched.default.config)
        /\ sched.target = None \/ (InUseSound(sched.target) /\ Valid(sched.target.config))
    BY DEF IInv, SchedSound
  <2> QED
    BY <2>1, PolicySound
<1>3. IInv' => Good'
  BY <1>2, PTL
<1>4. ASSUME IInv, IInv', [Next]_vars
      PROVE  [Enforced!Next]_(Enforced!vars)
  <2>1. sched.pc = "running" =>
          D # None /\ Enforced!Sound(D) /\ (T = None \/ Enforced!Sound(T))
    BY <1>2, <1>4
  <2>2. (sched.pc = "running" =>
          D # None /\ Enforced!Sound(D) /\ (T = None \/ Enforced!Sound(T)))'
    BY <1>3, <1>4
  <2>3. packed' = packed
    BY <1>4, FilesStep
  <2>4. CASE sched.pc # "running" /\ sched'.pc # "running"
    BY <2>4 DEF Enforced!vars
  <2>5. CASE sched.pc # "running" /\ sched'.pc = "running"
    <3>1. Enforced!Begin
      BY <2>2, <2>5 DEF Enforced!Begin, Enforced!Sound
    <3> QED
      BY <3>1 DEF Enforced!Next
  <2>6. CASE sched.pc = "running" /\ sched'.pc = "running"
    <3>1. D' = D
      BY <1>4, <2>3, <2>6, DefaultKept DEF Policy, SettingOf, CpusOf
    <3>2. Enforced!Retarget
      BY <2>1, <2>2, <2>6, <3>1 DEF Enforced!Retarget, Enforced!Sound
    <3> QED
      BY <3>2 DEF Enforced!Next
  <2>7. CASE sched.pc = "running" /\ sched'.pc # "running"
    <3>1. Enforced!End
      BY <2>1, <2>7 DEF Enforced!End
    <3> QED
      BY <3>1 DEF Enforced!Next
  <2> QED
    BY <2>4, <2>5, <2>6, <2>7
<1> QED
  BY <1>1, <1>4, Invariant, PTL DEF Spec, ImplementsEnforcement, Enforced!Spec

-----------------------------------------------------------------------------
(* What becomes of a table. *)

(* Reruns, launches, failing saves and the other editor leave a table alone: *)
(* only a change of its source, by the user or by others, seeds it anew.    *)
THEOREM EditsSurvive == ASSUME SmallMachine PROVE Spec => EditsKept
<1> DEFINE Kept ==
      \A x \in Editors :
        SameSource(x) =>
          \/ ed'[x].table = ed[x].table
          \/ \E i \in DOMAIN ed[x].table, edit \in Edits :
               ed'[x].table = [ed[x].table EXCEPT ![i][edit.field] = Cell(edit)]
<1>1. ASSUME IInv, [Next]_vars, NEW x \in Editors, SameSource(x)
      PROVE  \/ ed'[x].table = ed[x].table
             \/ \E i \in DOMAIN ed[x].table, edit \in Edits :
                  ed'[x].table = [ed[x].table EXCEPT ![i][edit.field] = Cell(edit)]
  <2>1. EditorMoved(x)
    BY <1>1, EditorMoves
  <2>2. CASE ed'[x] = ed[x]
    BY <2>2
  <2>3. CASE clusters' = clusters /\ RenderedAgain(x)
    <3>1. PICK e : /\ e.sig = ed[x].sig /\ e.table = ed[x].table
                   /\ Passing(e, ed'[x], disk) \/ Passing(e, ed'[x], disk')
      BY <2>3 DEF RenderedAgain
    <3>2. ed'[x].sig # e.sig => ed'[x].sig = Signature(ed'[x])
      BY <3>1 DEF Passing
    <3>3. Signature(ed[x])' = Signature(ed'[x])
      BY <2>3 DEF Signature, Source
    <3>4. Signature(ed[x])' = ed[x].sig
      BY <1>1 DEF SameSource
    <3> QED
      BY <3>1, <3>2, <3>3, <3>4 DEF Passing
  <2>4. CASE RenderedAndEdited(x)
    <3>1. PICK i \in DOMAIN ed[x].table, edit \in Edits :
            \E p, t : /\ Passing(ed[x], p, disk)
                      /\ t = [ed[x].table EXCEPT ![i][edit.field] = Cell(edit)]
                      /\ ed'[x] = [p EXCEPT !.table = t]
      BY <2>4 DEF RenderedAndEdited
    <3>2. PICK p, t : /\ Passing(ed[x], p, disk)
                      /\ t = [ed[x].table EXCEPT ![i][edit.field] = Cell(edit)]
                      /\ ed'[x] = [p EXCEPT !.table = t]
      BY <3>1
    <3>3. p \in Editor
      BY <3>2 DEF Passing, EditorSound
    <3>4. ed'[x].table = t
      BY <3>2, <3>3 DEF Editor
    <3>5. ed'[x].table = [ed[x].table EXCEPT ![i][edit.field] = Cell(edit)]
      BY <3>2, <3>4
    <3> QED
      BY <3>5, Zenon
  <2> QED
    BY <2>1, <2>2, <2>3, <2>4 DEF EditorMoved
<1>2. IInv /\ [Next]_vars => [Kept]_vars
  BY <1>1
<1> QED
  BY <1>2, Invariant, PTL DEF Spec, EditsKept

(* a row that is written and read again is the row, down to the floor *)
LEMMA RoundTrip ==
  ASSUME NEW row \in Row, row.kind = KindLabel(row.kind.k)
  PROVE  RowFromEntry(EntryOf(row)) = Floored(row)
<1> DEFINE e == EntryOf(row)
           slice == IF row.slice < Floor THEN Floor ELSE row.slice
<1>1. /\ e \in Setting /\ e.prio = row.prio /\ e.kind = row.kind.k /\ e.slice = slice
      /\ e.prefer \in 0 .. 2 /\ PreferLabels[e.prefer + 1] = row.prefer
  BY EntryTyped
<1> HIDE DEF e
<1>2. PreferLabel(e.prefer) = row.prefer
  BY <1>1 DEF PreferLabel
<1>3. RowFromEntry(e) = [prio |-> e.prio, slice |-> e.slice, kind |-> KindLabel(e.kind),
                         prefer |-> PreferLabel(e.prefer)]
  BY <1>1 DEF RowFromEntry, Get, Setting
<1>4. RowFromEntry(e) = [prio |-> row.prio, slice |-> slice, kind |-> row.kind,
                         prefer |-> row.prefer]
  BY <1>1, <1>2, <1>3
<1>5. Floored(row) = [prio |-> row.prio, slice |-> slice, kind |-> row.kind,
                      prefer |-> row.prefer]
  BY DEF Floored, Row
<1> QED
  BY <1>4, <1>5 DEF e

LEMMA SeedOfSaved ==
  ASSUME SmallMachine, Scanned, NEW n \in 1 .. MaxClusters, NEW m \in 1 .. MaxClusters,
         NEW old \in [1 .. m + 1 -> Row], IsTable(old)
  PROVE  LET new == Seed(n, ConfigOf(old))
         IN  /\ Len(new) = n + 1 /\ Len(old) = m + 1
             /\ new[n + 1] = Floored(old[m + 1])
             /\ \A i \in 1 .. n : new[i] = IF i < m + 1 THEN Floored(old[i])
                                           ELSE RowFromEntry(NoEntry)
<1> DEFINE config == ConfigOf(old)
           new == Seed(n, config)
<1>1. n \in Nat /\ m \in Nat /\ Len(old) = m + 1
  BY EditorAssumption
<1>2. /\ IsConfig(config) /\ config.default = EntryOf(old[m + 1])
      /\ config.clusters = [c \in 0 .. m - 1 |-> EntryOf(old[c + 1])]
  BY ConfigTyped
<1> HIDE DEF config
<1>3. new = [i \in 1 .. n + 1 |->
               RowFromEntry(IF i > n THEN config.default
                            ELSE Get(config.clusters, i - 1, NoEntry))]
  BY DEF Seed
<1>4. \A i \in 1 .. m + 1 : RowFromEntry(EntryOf(old[i])) = Floored(old[i])
  BY <1>1, RoundTrip DEF IsTable
<1>5. new[n + 1] = Floored(old[m + 1])
  <2>1. n + 1 \in 1 .. n + 1 /\ n + 1 > n /\ m + 1 \in 1 .. m + 1
    BY <1>1
  <2> QED
    BY <1>2, <1>3, <1>4, <2>1
<1>6. ASSUME NEW i \in 1 .. n
      PROVE  new[i] = IF i < m + 1 THEN Floored(old[i]) ELSE RowFromEntry(NoEntry)
  <2>1. i \in 1 .. n + 1 /\ ~(i > n)
    BY <1>1
  <2>2. new[i] = RowFromEntry(Get(config.clusters, i - 1, NoEntry))
    BY <1>3, <2>1
  <2>3. CASE i < m + 1
    <3>1. i - 1 \in 0 .. m - 1 /\ (i - 1) + 1 = i /\ i \in 1 .. m + 1
      BY <1>1, <2>3
    <3>2. Get(config.clusters, i - 1, NoEntry) = EntryOf(old[i])
      BY <1>2, <3>1 DEF Get
    <3> QED
      BY <1>4, <2>2, <2>3, <3>1, <3>2
  <2>4. CASE ~(i < m + 1)
    <3>1. i - 1 \notin DOMAIN config.clusters
      BY <1>1, <1>2, <2>4
    <3> QED
      BY <2>2, <2>4, <3>1 DEF Get
  <2> QED
    BY <2>3, <2>4
<1>7. Len(new) = n + 1
  BY <1>1, <1>2, SeedTyped
<1> QED
  BY <1>1, <1>5, <1>6, <1>7 DEF config

(* A table that was saved comes back from its file as it was, in either      *)
(* editor, unless somebody has written the file since.                      *)
THEOREM SavedComesBack == ASSUME SmallMachine PROVE Spec => SavedIsShown
<1> DEFINE Shown(x) ==
      LET old == saves[ed'[x].file]
          new == ed'[x].table
      IN  /\ ed'[x].sig # ed[x].sig /\ ed'[x].sig[1] = "file"
          /\ ed'[x].file # None
          /\ old # None /\ saves' = saves
          => /\ new[Len(new)] = Floored(old[Len(old)])
             /\ \A i \in 1 .. Len(new) - 1 :
                  new[i] = IF i < Len(old) THEN Floored(old[i])
                           ELSE RowFromEntry(NoEntry)
<1>1. ASSUME IInv, [Next]_vars, NEW x \in Editors,
             ed'[x].sig # ed[x].sig, ed'[x].sig[1] = "file", ed'[x].file # None,
             saves[ed'[x].file] # None, saves' = saves
      PROVE  LET old == saves[ed'[x].file]
                 new == ed'[x].table
             IN  /\ new[Len(new)] = Floored(old[Len(old)])
                 /\ \A i \in 1 .. Len(new) - 1 :
                      new[i] = IF i < Len(old) THEN Floored(old[i])
                               ELSE RowFromEntry(NoEntry)
  <2> DEFINE p == ed'[x]
             f == p.file
             old == saves[f]
  <2>1. RenderedAgain(x)
    <3>1. EditorMoved(x)
      BY <1>1, EditorMoves
    <3>2. ~RenderedAndEdited(x)
      <4> SUFFICES ASSUME RenderedAndEdited(x) PROVE FALSE
        OBVIOUS
      <4>1. PICK q, t : Passing(ed[x], q, disk) /\ q.sig = ed[x].sig /\ ed'[x] = [q EXCEPT !.table = t]
        BY DEF RenderedAndEdited
      <4>2. q \in Editor
        BY <4>1 DEF Passing, EditorSound
      <4>3. ed'[x].sig = q.sig
        BY <4>1, <4>2 DEF Editor
      <4> QED
        BY <1>1, <4>1, <4>3
    <3> QED
      BY <1>1, <3>1, <3>2 DEF EditorMoved
  <2>2. PICK files : (files = disk \/ files = disk') /\ EditorSound(p)
                     /\ p.sig = Signature(p) /\ clusters[p.model] \in 1 .. MaxClusters
                     /\ p.table = Seed(clusters[p.model],
                                       IF Loaded(Source(p), files) THEN files[Source(p)]
                                       ELSE NoConfig)
    BY <1>1, <2>1 DEF RenderedAgain, Passing
  <2> HIDE DEF p
  <2>3. Source(p) = f /\ f \in Files
    <3>1. p.sig[1] = p.mode
      BY <2>2 DEF Signature
    <3> QED
      BY <1>1, <2>2, <3>1 DEF Source, EditorSound, Editor, p
  <2>4. PICK m \in 1 .. MaxClusters :
          old \in [1 .. m + 1 -> Row] /\ IsTable(old) /\ disk[f] = ConfigOf(old)
    BY <1>1, <2>3 DEF IInv, SavedSound, p
  <2>5. disk'[f] = ConfigOf(old)
    <3>1. SavedSound'
      BY <1>1, FilesStep
    <3>2. saves'[f] # None /\ saves'[f] = old
      BY <1>1 DEF p
    <3> QED
      BY <2>3, <3>1, <3>2 DEF SavedSound
  <2>6. files[f] = ConfigOf(old) /\ ConfigOf(old) \notin {None, Garbage}
    BY <2>2, <2>4, <2>5, ConfigTyped
  <2>7. Loaded(Source(p), files)
    BY <1>1, <2>3, <2>6 DEF Loaded, p
  <2>8. p.table = Seed(clusters[p.model], ConfigOf(old))
    BY <2>2, <2>3, <2>6, <2>7
  <2> DEFINE n == clusters[p.model]
             new == p.table
  <2> HIDE DEF n, new, old
  <2>9. /\ Len(new) = n + 1 /\ Len(old) = m + 1 /\ n \in Nat
        /\ new[n + 1] = Floored(old[m + 1])
        /\ \A i \in 1 .. n : new[i] = IF i < m + 1 THEN Floored(old[i])
                                      ELSE RowFromEntry(NoEntry)
    <3>1. Scanned /\ n \in 1 .. MaxClusters /\ n \in Nat
      BY <1>1, <2>2, EditorAssumption DEF IInv, n
    <3>2. LET seed == Seed(n, ConfigOf(old))
          IN  /\ Len(seed) = n + 1 /\ Len(old) = m + 1
              /\ seed[n + 1] = Floored(old[m + 1])
              /\ \A i \in 1 .. n : seed[i] = IF i < m + 1 THEN Floored(old[i])
                                             ELSE RowFromEntry(NoEntry)
      BY <2>4, <3>1, SeedOfSaved
    <3>3. new = Seed(n, ConfigOf(old))
      BY <2>8 DEF new, n
    <3> QED
      BY <3>1, <3>2, <3>3
  <2>10. /\ new[Len(new)] = Floored(old[Len(old)])
         /\ \A i \in 1 .. Len(new) - 1 :
              new[i] = IF i < Len(old) THEN Floored(old[i]) ELSE RowFromEntry(NoEntry)
    BY <2>9
  <2> QED
    BY <2>10 DEF new, old, p
<1>2. IInv /\ [Next]_vars => [\A x \in Editors : Shown(x)]_vars
  BY <1>1
<1> QED
  BY <1>2, Invariant, PTL DEF Spec, SavedIsShown
=============================================================================
