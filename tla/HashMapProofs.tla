---------------------------- MODULE HashMapProofs ----------------------------
(***************************************************************************)
(* Proofs about the hash map, for every word size, table size, set of keys *)
(* and set of objects.                                                     *)
(***************************************************************************)
EXTENDS HashMap, SequenceTheorems, WellFoundedInduction, TLAPS

-----------------------------------------------------------------------------
(***************************************************************************)
(* Induction over the natural numbers, stated for sets and not for         *)
(* predicates: what is needed of recursive functions and of least numbers. *)
(***************************************************************************)

\* A set of natural numbers has a least element.
LEMMA LeastNat ==
  ASSUME NEW S \in SUBSET Nat, S # {}
  PROVE  \E x \in S : \A y \in S : x <= y
<1> DEFINE R == OpToRel(<, Nat)
<1>1. IsWellFoundedOn(R, Nat)
  BY NatLessThanWellFounded
<1>2. \A x, y \in Nat : <<y, x>> \in R <=> y < x
  BY DEF OpToRel
<1> HIDE DEF R
<1>3. PICK x \in S : \A y \in S : ~ (<<y, x>> \in R)
  BY <1>1, WFMin
<1>4. \A y \in S : x <= y
  <2> SUFFICES ASSUME NEW y \in S PROVE x <= y
    OBVIOUS
  <2>1. x \in Nat /\ y \in Nat /\ ~ (<<y, x>> \in R)
    BY <1>3
  <2>2. ~(y < x)
    BY <1>2, <2>1
  <2> QED
    BY <2>1, <2>2
<1> QED
  BY <1>4

\* A set with 0 and the successor of each of its members has them all.
LEMMA NatSet ==
  ASSUME NEW S \in SUBSET Nat, 0 \in S, \A n \in S : n + 1 \in S
  PROVE  S = Nat
<1> SUFFICES ASSUME Nat \ S # {} PROVE FALSE
  OBVIOUS
<1>1. PICK x \in Nat \ S : \A y \in Nat \ S : x <= y
  BY LeastNat
<1>2. x # 0 /\ x - 1 \in Nat
  OBVIOUS
<1>3. x - 1 \in S
  BY <1>1, <1>2
<1> QED
  BY <1>2, <1>3

-----------------------------------------------------------------------------
(***************************************************************************)
(* Powers of two.                                                          *)
(***************************************************************************)

\* The tables of the first n powers.
Powers(n) ==
  {f \in [0 .. n -> Nat] : f[0] = 1 /\ \A i \in 1 .. n : f[i] = 2 * f[i - 1]}

\* There is one for every n.
LEMMA PowersExist == \A n \in Nat : Powers(n) # {}
<1> DEFINE S == {n \in Nat : Powers(n) # {}}
<1>1. 0 \in S
  <2>1. [i \in 0 .. 0 |-> 1] \in Powers(0)
    BY DEF Powers
  <2> QED
    BY <2>1
<1>2. ASSUME NEW n \in S PROVE n + 1 \in S
  <2>1. PICK f : f \in Powers(n)
    OBVIOUS
  <2> DEFINE g == [i \in 0 .. n + 1 |-> IF i = n + 1 THEN 2 * f[n] ELSE f[i]]
  <2>2. f \in [0 .. n -> Nat] /\ f[0] = 1 /\ \A i \in 1 .. n : f[i] = 2 * f[i - 1]
    BY <2>1 DEF Powers
  <2>3. n \in Nat /\ f[n] \in Nat
    BY <2>2
  <2>4. g \in [0 .. n + 1 -> Nat]
    BY <2>2, <2>3
  <2>5. g[0] = 1
    BY <2>2, <2>3
  <2>6. ASSUME NEW i \in 1 .. n + 1 PROVE g[i] = 2 * g[i - 1]
    <3>1. i \in Nat /\ i \in 0 .. n + 1 /\ i - 1 \in 0 .. n + 1 /\ i - 1 # n + 1
      BY <2>3
    <3>2. g[i - 1] = f[i - 1]
      BY <3>1
    <3>3. CASE i = n + 1
      BY <2>3, <3>1, <3>2, <3>3
    <3>4. CASE i # n + 1
      <4>1. i \in 1 .. n
        BY <2>3, <3>4
      <4>2. g[i] = f[i]
        BY <3>1, <3>4
      <4> QED
        BY <2>2, <3>2, <4>1, <4>2
    <3> QED
      BY <3>3, <3>4
  <2>7. g \in Powers(n + 1)
    BY <2>4, <2>5, <2>6 DEF Powers
  <2> QED
    BY <2>3, <2>7
<1> HIDE DEF S
<1>3. S = Nat
  <2>1. S \in SUBSET Nat
    BY DEF S
  <2> QED
    BY <1>1, <1>2, <2>1, NatSet
<1> QED
  BY <1>3 DEF S

\* Two tables agree where both are defined.
LEMMA PowersAgree ==
  ASSUME NEW m \in Nat, NEW n \in Nat, m <= n, NEW f \in Powers(m), NEW g \in Powers(n)
  PROVE  f[m] = g[m]
<1> DEFINE S == {i \in Nat : i <= m => f[i] = g[i]}
<1>0. /\ f[0] = 1 /\ \A i \in 1 .. m : f[i] = 2 * f[i - 1]
      /\ g[0] = 1 /\ \A i \in 1 .. n : g[i] = 2 * g[i - 1]
  BY DEF Powers
<1>1. 0 \in S
  BY <1>0
<1>2. ASSUME NEW i \in S PROVE i + 1 \in S
  <2> SUFFICES ASSUME i + 1 <= m PROVE f[i + 1] = g[i + 1]
    OBVIOUS
  <2>1. i \in Nat /\ i + 1 \in 1 .. m /\ i + 1 \in 1 .. n /\ (i + 1) - 1 = i
    OBVIOUS
  <2>2. f[i] = g[i]
    BY <2>1
  <2>3. f[i + 1] = 2 * f[i]
    BY <1>0, <2>1
  <2>4. g[i + 1] = 2 * g[i]
    BY <1>0, <2>1
  <2> QED
    BY <2>2, <2>3, <2>4
<1>3. S \in SUBSET Nat
  OBVIOUS
<1> HIDE DEF S
<1>4. S = Nat
  BY <1>1, <1>2, <1>3, NatSet
<1> QED
  BY <1>4 DEF S

\* The equation of pow2.
LEMMA Pow2 ==
  /\ pow2[0] = 1
  /\ \A n \in Nat : pow2[n] \in Nat \ {0}
  /\ \A n \in Nat : pow2[n + 1] = 2 * pow2[n]
<1> DEFINE table(n) == CHOOSE f : f \in Powers(n)
           g == [n \in Nat |-> table(n)[n]]
           F(f) == [n \in Nat |-> IF n = 0 THEN 1 ELSE 2 * f[n - 1]]
<1>1. \A n \in Nat : table(n) \in Powers(n)
  BY PowersExist
<1> HIDE DEF table
<1>2. ASSUME NEW n \in Nat PROVE g[n] = IF n = 0 THEN 1 ELSE 2 * g[n - 1]
  <2>1. CASE n = 0
    BY <1>1, <2>1 DEF Powers
  <2>2. CASE n # 0
    <3>1. n - 1 \in Nat /\ n - 1 <= n /\ n \in 1 .. n
      BY <2>2
    <3>2. table(n)[n] = 2 * table(n)[n - 1]
      BY <1>1, <3>1 DEF Powers
    <3>3. table(n)[n - 1] = table(n - 1)[n - 1]
      BY <1>1, <3>1, PowersAgree
    <3> QED
      BY <2>2, <3>1, <3>2, <3>3
  <2> QED
    BY <2>1, <2>2
<1>3. g = F(g)
  BY <1>2
<1>4. pow2 = CHOOSE f : f = F(f)
  BY DEF pow2
<1> HIDE DEF g
<1>5. pow2 = F(pow2)
  BY <1>3, <1>4
<1>6. \A n \in Nat : pow2[n] = IF n = 0 THEN 1 ELSE 2 * pow2[n - 1]
  BY <1>5
<1>7. pow2[0] = 1 /\ \A n \in Nat : pow2[n + 1] = 2 * pow2[n]
  BY <1>6
<1>8. \A n \in Nat : pow2[n] \in Nat \ {0}
  <2> DEFINE S == {n \in Nat : pow2[n] \in Nat \ {0}}
  <2>1. S \in SUBSET Nat /\ 0 \in S
    BY <1>7
  <2>2. \A n \in S : n + 1 \in S
    BY <1>7
  <2> HIDE DEF S
  <2>3. S = Nat
    BY <2>1, <2>2, NatSet
  <2> QED
    BY <2>3 DEF S
<1> QED
  BY <1>7, <1>8

\* Powers multiply when their exponents are added.
LEMMA Pow2Add ==
  ASSUME NEW a \in Nat, NEW b \in Nat
  PROVE  pow2[a + b] = pow2[a] * pow2[b]
<1> DEFINE S == {n \in Nat : pow2[a + n] = pow2[a] * pow2[n]}
<1>1. 0 \in S
  BY Pow2
<1>2. ASSUME NEW n \in S PROVE n + 1 \in S
  <2>1. n \in Nat /\ a + n \in Nat /\ pow2[a] \in Nat /\ pow2[n] \in Nat
    BY Pow2
  <2>2. pow2[a + (n + 1)] = 2 * pow2[a + n]
    <3>1. a + (n + 1) = (a + n) + 1
      BY <2>1
    <3> QED
      BY <2>1, <3>1, Pow2
  <2>3. pow2[n + 1] = 2 * pow2[n]
    BY <2>1, Pow2
  <2>4. pow2[a + n] = pow2[a] * pow2[n]
    OBVIOUS
  <2>5. \A x, y \in Nat : 2 * (x * y) = x * (2 * y)
    OBVIOUS
  <2>6. pow2[a + (n + 1)] = pow2[a] * pow2[n + 1]
    BY <2>1, <2>2, <2>3, <2>4, <2>5
  <2> QED
    BY <2>1, <2>6
<1>3. S \in SUBSET Nat
  OBVIOUS
<1> HIDE DEF S
<1>4. S = Nat
  BY <1>1, <1>2, <1>3, NatSet
<1> QED
  BY <1>4 DEF S

\* __builtin_ctz of a size that is not 0: the size is a multiple of that power
\* of two, which fits in the word.
LEMMA CtzDivides ==
  ASSUME NEW n \in 1 .. pow2[WordSize] - 1
  PROVE  ctz(n) \in 0 .. WordSize - 1 /\ n % pow2[ctz(n)] = 0
<1> DEFINE S == {c \in Nat : n % pow2[c] # 0}
           P(c) == n % pow2[c] = 0 /\ n % pow2[c + 1] # 0
<1>0. WordSize \in Nat \ {0} /\ pow2[WordSize] \in Nat \ {0} /\ n \in Nat \ {0}
  BY HashMapAssumption, Pow2
<1>1. WordSize \in S
  BY <1>0
<1>2. 0 \notin S
  BY <1>0, Pow2
<1>3. PICK d \in S : \A y \in S : d <= y
  <2>1. S \in SUBSET Nat /\ S # {}
    BY <1>1
  <2> HIDE DEF S
  <2> QED
    BY <2>1, LeastNat
<1>4. d \in Nat /\ d # 0 /\ d <= WordSize
  BY <1>1, <1>2, <1>3
<1>5. d - 1 \in 0 .. WordSize - 1 /\ (d - 1) + 1 = d /\ d - 1 \notin S
  BY <1>0, <1>3, <1>4
<1>6. d - 1 \in 0 .. WordSize /\ P(d - 1)
  BY <1>0, <1>3, <1>4, <1>5
<1>7. ctz(n) = CHOOSE c \in 0 .. WordSize : P(c)
  BY DEF ctz
<1>8. ctz(n) \in 0 .. WordSize /\ P(ctz(n))
  <2> HIDE DEF P
  <2> QED
    BY <1>6, <1>7
<1>9. ctz(n) # WordSize
  BY <1>0, <1>8
<1> QED
  BY <1>0, <1>8, <1>9

\* What is left of a number below d * q by a division by d is below q.
LEMMA DivBelow ==
  ASSUME NEW x \in Nat, NEW d \in Nat \ {0}, NEW q \in Nat, x < d * q
  PROVE  x \div d \in 0 .. q - 1
<1> DEFINE y == x \div d
<1>1. y \in Nat /\ d * y <= x
  OBVIOUS
<1> HIDE DEF y
<1>2. ASSUME q <= y PROVE d * q <= d * y
  <2>1. PICK z \in Nat : y = q + z
    <3>1. y - q \in Nat /\ y = q + (y - q)
      BY <1>1, <1>2
    <3> QED
      BY <3>1
  <2>2. d * y = d * q + d * z /\ d * z \in Nat /\ d * q \in Nat
    BY <2>1
  <2> QED
    BY <2>2
<1>3. y < q
  <2>1. d * q \in Nat /\ d * y \in Nat
    BY <1>1
  <2> QED
    BY <1>1, <1>2, <2>1
<1>4. y \in 0 .. q - 1
  BY <1>1, <1>3
<1> QED
  BY <1>4 DEF y

\* A divisor is no larger than what it divides.
LEMMA DivisorBelow ==
  ASSUME NEW n \in Nat \ {0}, NEW d \in Nat \ {0}, n % d = 0
  PROVE  d <= n
<1>1. d > n => n % d = n
  OBVIOUS
<1> QED
  BY <1>1

-----------------------------------------------------------------------------
(***************************************************************************)
(* The hash.                                                               *)
(***************************************************************************)

\* size and shift_bits as map_init leaves them.
SizeInv ==
  exists => size \in 1 .. pow2[WordSize] - 1 /\ shift_bits = WordSize - ctz(size)

\* The hash of a key is the number of a bucket.
LEMMA IndexLemma ==
  ASSUME SizeInv, exists, NEW k \in Keys
  PROVE  map_index(k) \in 0 .. size - 1
<1> DEFINE x == (k * Multiplier) % pow2[WordSize]
           c == ctz(size)
<1>1. /\ WordSize \in Nat \ {0} /\ pow2[WordSize] \in Nat \ {0}
      /\ k \in Nat /\ Multiplier \in Nat /\ size \in Nat \ {0}
  BY HashMapAssumption, Pow2 DEF SizeInv
<1>2. c \in 0 .. WordSize - 1 /\ size % pow2[c] = 0 /\ shift_bits = WordSize - c
  BY CtzDivides DEF SizeInv
<1> HIDE DEF c
<1>3. k * Multiplier \in Nat
  BY <1>1
<1>4. x \in Nat /\ x < pow2[WordSize]
  BY <1>1, <1>3
<1> HIDE DEF x
<1>5. c \in Nat /\ WordSize - c \in Nat /\ (WordSize - c) + c = WordSize
  BY <1>1, <1>2
<1>6. pow2[c] \in Nat \ {0} /\ pow2[WordSize - c] \in Nat \ {0}
  BY <1>5, Pow2
<1>7. pow2[WordSize] = pow2[WordSize - c] * pow2[c]
  <2>1. pow2[(WordSize - c) + c] = pow2[WordSize - c] * pow2[c]
    BY <1>5, Pow2Add
  <2> QED
    BY <1>5, <2>1
<1>8. x \div pow2[WordSize - c] \in 0 .. pow2[c] - 1
  BY <1>4, <1>6, <1>7, DivBelow
<1>9. pow2[c] <= size
  BY <1>1, <1>2, <1>6, DivisorBelow
<1>10. map_index(k) = x \div pow2[WordSize - c]
  BY <1>2 DEF map_index, x
<1> QED
  BY <1>1, <1>6, <1>8, <1>9, <1>10

\* Only map_init sets the size.
LEMMA SizeKept == SizeInv /\ [Next]_vars => SizeInv'
<1> SUFFICES ASSUME SizeInv, [Next]_vars PROVE SizeInv'
  OBVIOUS
<1>1. ASSUME NEW n \in Sizes, map_init(n) PROVE SizeInv'
  <2>1. n \in 1 .. pow2[WordSize] - 2 /\ pow2[WordSize] \in Nat
    <3>1. n # 0
      BY <1>1 DEF map_init
    <3>2. WordSize \in Nat /\ Sizes \subseteq 0 .. pow2[WordSize] - 2
      BY HashMapAssumption
    <3>3. pow2[WordSize] \in Nat
      BY <3>2, Pow2
    <3> QED
      BY <3>1, <3>2, <3>3
  <2>2. size' \in 1 .. pow2[WordSize] - 1
    BY <1>1, <2>1 DEF map_init, even_size
  <2>3. shift_bits' = WordSize - ctz(size')
    BY <1>1 DEF map_init, shift_for
  <2> QED
    BY <2>2, <2>3 DEF SizeInv
<1>2. CASE (exists' => exists) /\ UNCHANGED <<size, shift_bits>>
  BY <1>2 DEF SizeInv
<1>3. ASSUME NEW k \in Keys, NEW o \in Objs, map_lookup(k) \/ map_delete(k) \/ map_insert(k, o)
      PROVE  UNCHANGED <<exists, size, shift_bits>>
  BY <1>3 DEF map_lookup, map_insert, map_delete
<1>4. ASSUME map_free PROVE ~exists' /\ UNCHANGED <<size, shift_bits>>
  BY <1>4 DEF map_free
<1>5. ASSUME NEW k \in Keys, map_lookup(k) \/ map_delete(k)
      PROVE  UNCHANGED <<exists, size, shift_bits>>
  BY <1>5 DEF map_lookup, map_delete
<1>6. CASE UNCHANGED vars
  BY <1>6 DEF SizeInv, vars
<1> QED
  BY <1>1, <1>2, <1>3, <1>4, <1>5, <1>6 DEF Next

\* The multiplicative hash never leaves the table, for every word size and
\* every size map_init may be called with, also one that is no power of two.
THEOREM HashInRange == Spec => []IndexInRange
<1>1. Init => SizeInv
  BY DEF Init, SizeInv
<1>2. SizeInv => IndexInRange
  BY IndexLemma DEF IndexInRange
<1> QED
  BY <1>1, <1>2, SizeKept, PTL DEF Spec

-----------------------------------------------------------------------------
(***************************************************************************)
(* Chains: what the walk along one finds.                                  *)
(***************************************************************************)
Where(s, k) == SelectInSeq(s, LAMBDA e : e.key = k)

Found(s, k) == IF Where(s, k) = 0 THEN NULL ELSE s[Where(s, k)].obj

Distinct(s) == \A p, q \in 1 .. Len(s) : s[p].key = s[q].key => p = q

\* The walk stops at an entry with the key, or there is none.
LEMMA WhereIs ==
  ASSUME NEW s \in Seq(Entry), NEW k
  PROVE  \/ Where(s, k) = 0 /\ \A i \in 1 .. Len(s) : s[i].key # k
         \/ Where(s, k) \in 1 .. Len(s) /\ s[Where(s, k)].key = k
<1> DEFINE I == {i \in 1 .. Len(s) : s[i].key = k}
<1>1. Where(s, k) = IF I # {} THEN Min(I) ELSE 0
  BY DEF Where, SelectInSeq
<1>2. I \in SUBSET Nat
  OBVIOUS
<1>3. CASE I = {}
  BY <1>1, <1>3
<1>4. CASE I # {}
  <2> HIDE DEF I
  <2>1. Min(I) \in I
    BY <1>2, <1>4, LeastNat DEF Min
  <2>2. Where(s, k) \in I
    BY <1>1, <1>4, <2>1
  <2> QED
    BY <2>2 DEF I
<1> QED
  BY <1>3, <1>4

\* In a chain without doubles it finds the entry with the key.
LEMMA FoundIs ==
  ASSUME NEW s \in Seq(Entry), Distinct(s), NEW k
  PROVE  /\ \A i \in 1 .. Len(s) : s[i].key = k => Found(s, k) = s[i].obj /\ Where(s, k) = i
         /\ (\A i \in 1 .. Len(s) : s[i].key # k) => Found(s, k) = NULL /\ Where(s, k) = 0
         /\ Found(s, k) \in Objs \cup {NULL}
         /\ Found(s, k) = NULL <=> Where(s, k) = 0
<1>1. \/ Where(s, k) = 0 /\ \A i \in 1 .. Len(s) : s[i].key # k
      \/ Where(s, k) \in 1 .. Len(s) /\ s[Where(s, k)].key = k
  BY WhereIs
<1>2. \A i \in 1 .. Len(s) : s[i].obj \in Objs
  <2>1. \A i \in 1 .. Len(s) : s[i] \in Entry
    OBVIOUS
  <2> QED
    BY <2>1 DEF Entry
<1>3. NULL \notin Objs
  BY HashMapAssumption
<1>4. CASE Where(s, k) = 0 /\ \A i \in 1 .. Len(s) : s[i].key # k
  BY <1>4 DEF Found
<1>5. CASE Where(s, k) \in 1 .. Len(s) /\ s[Where(s, k)].key = k
  <2>1. Found(s, k) = s[Where(s, k)].obj /\ Where(s, k) # 0
    BY <1>5 DEF Found
  <2>2. \A i \in 1 .. Len(s) : s[i].key = k => i = Where(s, k)
    BY <1>5 DEF Distinct
  <2> QED
    BY <1>2, <1>3, <1>5, <2>1, <2>2
<1> QED
  BY <1>1, <1>4, <1>5

\* An entry in front of a chain that has not its key is found; the others are
\* as before.
LEMMA ConsFound ==
  ASSUME NEW s \in Seq(Entry), Distinct(s), NEW e \in Entry, Found(s, e.key) = NULL
  PROVE  /\ <<e>> \o s \in Seq(Entry) /\ Distinct(<<e>> \o s)
         /\ Found(<<e>> \o s, e.key) = e.obj
         /\ \A l : l # e.key => Found(<<e>> \o s, l) = Found(s, l)
         /\ \A i \in 1 .. Len(<<e>> \o s) :
              (<<e>> \o s)[i] = e \/ \E j \in 1 .. Len(s) : (<<e>> \o s)[i] = s[j]
<1> DEFINE t == <<e>> \o s
<1>1. /\ t \in Seq(Entry) /\ Len(t) = Len(s) + 1 /\ Len(s) \in Nat
      /\ t[1] = e /\ \A i \in 1 .. Len(s) : t[i + 1] = s[i]
  OBVIOUS
<1>2. \A i \in 1 .. Len(t) : i = 1 \/ (i - 1 \in 1 .. Len(s) /\ t[i] = s[i - 1])
  <2> SUFFICES ASSUME NEW i \in 1 .. Len(t), i # 1
               PROVE  i - 1 \in 1 .. Len(s) /\ t[i] = s[i - 1]
    OBVIOUS
  <2>1. i - 1 \in 1 .. Len(s) /\ (i - 1) + 1 = i
    BY <1>1
  <2>2. t[(i - 1) + 1] = s[i - 1]
    BY <1>1, <2>1
  <2> QED
    BY <2>1, <2>2
<1>3. \A i \in 1 .. Len(s) : s[i].key # e.key
  <2>1. Where(s, e.key) = 0
    BY FoundIs
  <2> QED
    BY <2>1, WhereIs
<1> HIDE DEF t
<1>4. Distinct(t)
  <2> SUFFICES ASSUME NEW p \in 1 .. Len(t), NEW q \in 1 .. Len(t), t[p].key = t[q].key
               PROVE  p = q
    BY DEF Distinct
  <2>1. CASE p = 1 \/ q = 1
    BY <1>1, <1>2, <1>3, <2>1
  <2>2. CASE p # 1 /\ q # 1
    <3>1. /\ p - 1 \in 1 .. Len(s) /\ q - 1 \in 1 .. Len(s)
          /\ s[p - 1].key = s[q - 1].key
      BY <1>2, <2>2
    <3>2. p - 1 = q - 1
      BY <3>1 DEF Distinct
    <3> QED
      BY <1>1, <3>2
  <2> QED
    BY <2>1, <2>2
<1>5. Found(t, e.key) = e.obj
  <2>1. 1 \in 1 .. Len(t)
    BY <1>1
  <2> QED
    BY <1>1, <1>4, <2>1, FoundIs
<1>6. ASSUME NEW l, l # e.key PROVE Found(t, l) = Found(s, l)
  <2>1. CASE \E i \in 1 .. Len(s) : s[i].key = l
    <3>1. PICK i \in 1 .. Len(s) : s[i].key = l
      BY <2>1
    <3>2. i + 1 \in 1 .. Len(t) /\ t[i + 1] = s[i]
      BY <1>1
    <3>3. Found(t, l) = t[i + 1].obj
      BY <1>1, <1>4, <3>1, <3>2, FoundIs
    <3>4. Found(s, l) = s[i].obj
      BY <3>1, FoundIs
    <3> QED
      BY <3>2, <3>3, <3>4
  <2>2. CASE \A i \in 1 .. Len(s) : s[i].key # l
    <3>1. \A i \in 1 .. Len(t) : t[i].key # l
      BY <1>1, <1>2, <1>6, <2>2
    <3>2. Found(t, l) = NULL
      BY <1>1, <1>4, <3>1, FoundIs
    <3>3. Found(s, l) = NULL
      BY <2>2, FoundIs
    <3> QED
      BY <3>2, <3>3
  <2> QED
    BY <2>1, <2>2
<1>7. \A i \in 1 .. Len(t) : t[i] = e \/ \E j \in 1 .. Len(s) : t[i] = s[j]
  BY <1>1, <1>2
<1> QED
  BY <1>1, <1>4, <1>5, <1>6, <1>7 DEF t

\* A chain an entry is removed from has its key no more; the others are as
\* before.
LEMMA RemoveFound ==
  ASSUME NEW s \in Seq(Entry), Distinct(s), NEW k, Found(s, k) # NULL
  PROVE  LET t == RemoveAt(s, Where(s, k))
         IN  /\ t \in Seq(Entry) /\ Distinct(t)
             /\ Found(t, k) = NULL
             /\ \A l : l # k => Found(t, l) = Found(s, l)
             /\ \A i \in 1 .. Len(t) : \E j \in 1 .. Len(s) : t[i] = s[j]
<1> DEFINE w == Where(s, k)
           t == RemoveAt(s, w)
           from(i) == IF i < w THEN i ELSE i + 1
<1>1. w \in 1 .. Len(s) /\ s[w].key = k
  BY WhereIs, FoundIs
<1> HIDE DEF w
<1>2. /\ t \in Seq(Entry) /\ Len(t) = Len(s) - 1 /\ Len(s) \in Nat
      /\ \A i \in 1 .. Len(s) - 1 : t[i] = s[from(i)]
  <2> DEFINE a == SubSeq(s, 1, w - 1)
             b == SubSeq(s, w + 1, Len(s))
  <2>1. /\ a \in Seq(Entry) /\ Len(a) = w - 1
        /\ \A i \in 1 .. w - 1 : a[i] = s[i]
    BY <1>1
  <2>2. /\ b \in Seq(Entry) /\ Len(b) = Len(s) - w
        /\ \A i \in 1 .. Len(s) - w : b[i] = s[w + i]
    BY <1>1
  <2>3. t = a \o b
    BY DEF RemoveAt
  <2> HIDE DEF a, b, t
  <2>4. /\ t \in Seq(Entry) /\ Len(t) = (w - 1) + (Len(s) - w)
        /\ \A i \in 1 .. Len(t) : t[i] = IF i <= w - 1 THEN a[i] ELSE b[i - (w - 1)]
    <3>1. /\ t \in Seq(Entry) /\ Len(t) = Len(a) + Len(b)
          /\ \A i \in 1 .. Len(a) + Len(b) : t[i] = IF i <= Len(a) THEN a[i] ELSE b[i - Len(a)]
      BY <2>1, <2>2, <2>3, ConcatProperties
    <3> QED
      BY <2>1, <2>2, <3>1
  <2>5. Len(s) \in Nat /\ w \in Nat /\ Len(t) = Len(s) - 1
    BY <1>1, <2>4
  <2>6. ASSUME NEW i \in 1 .. Len(s) - 1 PROVE t[i] = s[from(i)]
    <3>1. CASE i < w
      <4>1. i \in 1 .. Len(t) /\ i \in 1 .. w - 1 /\ i <= w - 1
        BY <2>5, <3>1
      <4>2. t[i] = a[i] /\ a[i] = s[i]
        BY <2>1, <2>4, <4>1
      <4> QED
        BY <3>1, <4>2
    <3>2. CASE i >= w
      <4>1. t[i] = b[i - (w - 1)]
        BY <2>4, <2>5, <3>2
      <4>2. i - (w - 1) \in 1 .. Len(s) - w /\ w + (i - (w - 1)) = i + 1
        BY <2>5, <3>2
      <4>3. t[i] = s[i + 1]
        BY <2>2, <4>1, <4>2
      <4> QED
        BY <2>5, <3>2, <4>3
    <3> QED
      BY <2>5, <3>1, <3>2
  <2> QED
    BY <2>4, <2>5, <2>6
<1> HIDE DEF t
<1>3. \A i \in 1 .. Len(t) : from(i) \in 1 .. Len(s) /\ from(i) # w /\ t[i] = s[from(i)]
  BY <1>1, <1>2
<1>4. \A i, j \in 1 .. Len(t) : from(i) = from(j) => i = j
  BY <1>1, <1>2
<1> HIDE DEF from
<1>5. Distinct(t)
  <2> SUFFICES ASSUME NEW p \in 1 .. Len(t), NEW q \in 1 .. Len(t), t[p].key = t[q].key
               PROVE  p = q
    BY DEF Distinct
  <2>1. from(p) = from(q)
    BY <1>3 DEF Distinct
  <2> QED
    BY <1>4, <2>1
<1>6. Found(t, k) = NULL
  <2>1. \A i \in 1 .. Len(t) : t[i].key # k
    BY <1>1, <1>3 DEF Distinct
  <2> QED
    BY <1>2, <1>5, <2>1, FoundIs
<1>7. ASSUME NEW l, l # k PROVE Found(t, l) = Found(s, l)
  <2>1. CASE \E i \in 1 .. Len(s) : s[i].key = l
    <3>1. PICK i \in 1 .. Len(s) : s[i].key = l
      BY <2>1
    <3>2. PICK j \in 1 .. Len(t) : from(j) = i
      <4>1. i # w
        BY <1>1, <1>7, <3>1
      <4>2. CASE i < w
        <5>1. i \in 1 .. Len(t) /\ from(i) = i
          BY <1>1, <1>2, <4>2 DEF from
        <5> QED
          BY <5>1
      <4>3. CASE i > w
        <5>1. i - 1 \in 1 .. Len(t) /\ from(i - 1) = i
          BY <1>1, <1>2, <4>3 DEF from
        <5> QED
          BY <5>1
      <4> QED
        BY <1>1, <4>1, <4>2, <4>3
    <3>3. t[j] = s[i]
      BY <1>3, <3>2
    <3>4. Found(t, l) = t[j].obj
      BY <1>2, <1>5, <3>1, <3>3, FoundIs
    <3>5. Found(s, l) = s[i].obj
      BY <3>1, FoundIs
    <3> QED
      BY <3>3, <3>4, <3>5
  <2>2. CASE \A i \in 1 .. Len(s) : s[i].key # l
    <3>1. \A i \in 1 .. Len(t) : t[i].key # l
      BY <1>3, <2>2
    <3>2. Found(t, l) = NULL
      BY <1>2, <1>5, <3>1, FoundIs
    <3>3. Found(s, l) = NULL
      BY <2>2, FoundIs
    <3> QED
      BY <3>2, <3>3
  <2> QED
    BY <2>1, <2>2
<1>8. \A i \in 1 .. Len(t) : \E j \in 1 .. Len(s) : t[i] = s[j]
  BY <1>3
<1> QED
  BY <1>2, <1>5, <1>6, <1>7, <1>8 DEF t, w

-----------------------------------------------------------------------------
(***************************************************************************)
(* The table: every chain is without doubles and holds the keys that hash  *)
(* to it.                                                                  *)
(***************************************************************************)
TableInv ==
  /\ SizeInv
  /\ exists \in BOOLEAN /\ cf \in BOOLEAN
  /\ exists =>
       /\ elements \in [0 .. size - 1 -> Seq(Entry)]
       /\ \A i \in 0 .. size - 1 :
            /\ Distinct(elements[i])
            /\ \A j \in 1 .. Len(elements[i]) : map_index(elements[i][j].key) = i

\* map_lookup finds what the walk along one chain finds.
LEMMA LookupIs ==
  ASSUME NEW k
  PROVE  /\ lookup(k) = IF exists THEN Found(elements[map_index(k)], k) ELSE NULL
         /\ position(k) = Where(elements[map_index(k)], k)
BY DEF lookup, position, chain, Found, Where, SelectInSeq

\* The same after a step.
LEMMA LookupNext ==
  ASSUME NEW k
  PROVE  lookup(k)' = IF exists' THEN Found(elements'[map_index(k)'], k) ELSE NULL
BY DEF lookup, position, chain, Found, Where, SelectInSeq

\* The chain of a key is one.
LEMMA ChainOf ==
  ASSUME TableInv, exists, NEW k \in Keys
  PROVE  /\ map_index(k) \in 0 .. size - 1
         /\ elements[map_index(k)] \in Seq(Entry) /\ Distinct(elements[map_index(k)])
         /\ chain(k) = elements[map_index(k)]
BY IndexLemma DEF TableInv, chain

\* It returns an object or NULL.
LEMMA LookupType ==
  ASSUME TableInv, NEW k \in Keys
  PROVE  lookup(k) \in Objs \cup {NULL}
<1>1. CASE exists
  BY <1>1, ChainOf, FoundIs, LookupIs
<1> QED
  BY <1>1, LookupIs

\* What map_lookup can find is all the table holds.
Lookups == {lookup(k) : k \in Keys} \ {NULL}

\* stored, which map_free walks through, is what map_lookup can find.
LEMMA StoredIs ==
  ASSUME TableInv
  PROVE  stored = Lookups
<1>1. CASE ~exists
  BY <1>1, LookupIs DEF stored, Lookups
<1>2. CASE exists
  <2>0. stored = UNION {{elements[i][j].obj : j \in DOMAIN elements[i]} : i \in 0 .. size - 1}
    BY <1>2 DEF stored
  <2>1. ASSUME NEW o \in stored PROVE o \in Lookups
    <3>1. PICK i \in 0 .. size - 1 : o \in {elements[i][j].obj : j \in DOMAIN elements[i]}
      BY <2>0
    <3>2. PICK j \in DOMAIN elements[i] : o = elements[i][j].obj
      BY <3>1
    <3>3. elements[i] \in Seq(Entry) /\ Distinct(elements[i]) /\ j \in 1 .. Len(elements[i])
      BY <1>2 DEF TableInv
    <3>4. elements[i][j] \in Entry
      BY <3>3
    <3>5. elements[i][j].key \in Keys /\ o \in Objs
      BY <3>2, <3>4 DEF Entry
    <3>6. map_index(elements[i][j].key) = i
      BY <1>2, <3>3 DEF TableInv
    <3>7. lookup(elements[i][j].key) = Found(elements[i], elements[i][j].key)
      BY <1>2, <3>6, LookupIs
    <3>8. lookup(elements[i][j].key) = o
      BY <3>2, <3>3, <3>7, FoundIs
    <3> QED
      BY <3>5, <3>8, HashMapAssumption DEF Lookups
  <2>2. ASSUME NEW k \in Keys, lookup(k) # NULL PROVE lookup(k) \in stored
    <3> DEFINE s == elements[map_index(k)]
    <3>1. map_index(k) \in 0 .. size - 1 /\ s \in Seq(Entry) /\ Distinct(s)
      BY <1>2, ChainOf
    <3>2. Where(s, k) # 0 /\ lookup(k) = s[Where(s, k)].obj
      BY <1>2, <2>2, LookupIs DEF Found
    <3>3. Where(s, k) \in DOMAIN s
      BY <3>1, <3>2, WhereIs
    <3>4. lookup(k) \in {s[j].obj : j \in DOMAIN s}
      BY <3>2, <3>3
    <3> QED
      BY <2>0, <3>1, <3>4
  <2> QED
    BY <2>1, <2>2 DEF Lookups
<1> QED
  BY <1>1, <1>2

\* A step that replaces one chain, and what it finds only for one key, changes
\* the map for that key and keeps the table sound.
LEMMA ChainReplaced ==
  ASSUME TableInv, exists, exists', UNCHANGED <<cf, size, shift_bits>>,
         NEW k \in Keys, NEW t \in Seq(Entry), Distinct(t),
         elements' = [elements EXCEPT ![map_index(k)] = t],
         \A i \in 1 .. Len(t) : \/ t[i].key = k
                                \/ \E j \in 1 .. Len(chain(k)) : t[i] = chain(k)[j],
         \A l : l # k => Found(t, l) = Found(chain(k), l)
  PROVE  /\ TableInv'
         /\ lookup(k)' = Found(t, k)
         /\ \A l \in Keys : l # k => lookup(l)' = lookup(l)
<1>0. \A l : map_index(l)' = map_index(l)
  BY DEF map_index
<1>1. /\ map_index(k) \in 0 .. size - 1 /\ chain(k) = elements[map_index(k)]
      /\ elements \in [0 .. size - 1 -> Seq(Entry)]
  BY ChainOf DEF TableInv
<1>2. /\ elements'[map_index(k)] = t
      /\ \A i \in 0 .. size - 1 : i # map_index(k) => elements'[i] = elements[i]
      /\ elements' \in [0 .. size - 1 -> Seq(Entry)]
  BY <1>1
<1>3. lookup(k)' = Found(t, k)
  BY <1>0, <1>2, LookupNext
<1>4. ASSUME NEW l \in Keys, l # k PROVE lookup(l)' = lookup(l)
  <2>1. lookup(l)' = Found(elements'[map_index(l)], l) /\ lookup(l) = Found(elements[map_index(l)], l)
    BY <1>0, LookupNext, LookupIs
  <2>2. map_index(l) \in 0 .. size - 1
    BY ChainOf
  <2>3. CASE map_index(l) = map_index(k)
    BY <1>1, <1>2, <1>4, <2>1, <2>3
  <2>4. CASE map_index(l) # map_index(k)
    BY <1>2, <2>1, <2>2, <2>4
  <2> QED
    BY <2>3, <2>4
<1>5. ASSUME NEW i \in 0 .. size - 1
      PROVE  /\ Distinct(elements'[i])
             /\ \A j \in 1 .. Len(elements'[i]) : map_index(elements'[i][j].key) = i
  <2>1. CASE i = map_index(k)
    <3>1. \A j \in 1 .. Len(chain(k)) : map_index(chain(k)[j].key) = i
      BY <1>1, <2>1 DEF TableInv
    <3> QED
      BY <1>2, <2>1, <3>1
  <2>2. CASE i # map_index(k)
    BY <1>2, <2>2 DEF TableInv
  <2> QED
    BY <2>1, <2>2
<1>6. SizeInv'
  BY DEF TableInv, SizeInv
<1>7. TableInv'
  BY <1>0, <1>2, <1>5, <1>6 DEF TableInv, Distinct
<1> QED
  BY <1>3, <1>4, <1>7

\* A step that leaves the chains alone leaves the map alone.
LEMMA ChainsKept ==
  ASSUME TableInv, UNCHANGED <<exists, cf, size, shift_bits, elements>>
  PROVE  TableInv' /\ \A l : lookup(l)' = lookup(l)
<1>0. \A l : map_index(l)' = map_index(l)
  BY DEF map_index
<1>1. TableInv'
  BY <1>0 DEF TableInv, SizeInv, Distinct
<1>2. \A l : lookup(l)' = lookup(l)
  BY <1>0, LookupNext, LookupIs
<1> QED
  BY <1>1, <1>2

\* map_insert takes the object, or finds the key taken and changes nothing.
LEMMA InsertEffect ==
  ASSUME TableInv, NEW k \in Keys, NEW o \in Objs, map_insert(k, o)
  PROVE  /\ TableInv'
         /\ ret' = (exists /\ lookup(k) = NULL)
         /\ exists /\ lookup(k) = NULL =>
              /\ lookup(k)' = o /\ \A l \in Keys : l # k => lookup(l)' = lookup(l)
              /\ given' = given \cup {o}
         /\ ~(exists /\ lookup(k) = NULL) =>
              (\A l : lookup(l)' = lookup(l)) /\ given' = given
         /\ o \notin given /\ UNCHANGED <<exists, cf, cleaned>>
<1>1. CASE exists /\ lookup(k) = NULL
  <2> DEFINE e == [key |-> k, obj |-> o]
             s == elements[map_index(k)]
             t == <<e>> \o s
  <2>1. s \in Seq(Entry) /\ Distinct(s) /\ chain(k) = s /\ map_index(k) \in 0 .. size - 1
    BY <1>1, ChainOf
  <2>2. e \in Entry /\ e.key = k /\ e.obj = o
    BY DEF Entry
  <2>3. Found(s, e.key) = NULL
    BY <1>1, <2>2, LookupIs
  <2>4. elements' = [elements EXCEPT ![map_index(k)] = t]
    BY <1>1, <2>1 DEF map_insert
  <2> HIDE DEF e, s
  <2>5. /\ t \in Seq(Entry) /\ Distinct(t) /\ Found(t, k) = o
        /\ \A l : l # k => Found(t, l) = Found(chain(k), l)
        /\ \A i \in 1 .. Len(t) : t[i] = e \/ \E j \in 1 .. Len(s) : t[i] = s[j]
    BY <2>1, <2>2, <2>3, ConsFound
  <2> HIDE DEF t
  <2>6. exists' /\ UNCHANGED <<exists, cf, size, shift_bits, cleaned>>
    BY <1>1 DEF map_insert
  <2>7. \A i \in 1 .. Len(t) : t[i].key = k \/ \E j \in 1 .. Len(chain(k)) : t[i] = chain(k)[j]
    BY <2>1, <2>2, <2>5
  <2>8. TableInv' /\ lookup(k)' = o /\ \A l \in Keys : l # k => lookup(l)' = lookup(l)
    BY <1>1, <2>4, <2>5, <2>6, <2>7, ChainReplaced
  <2> QED
    BY <1>1, <2>6, <2>8 DEF map_insert
<1>2. CASE ~(exists /\ lookup(k) = NULL)
  <2>1. UNCHANGED <<exists, cf, size, shift_bits, elements, given, cleaned>>
    BY <1>2 DEF map_insert
  <2> QED
    BY <1>2, <2>1, ChainsKept DEF map_insert
<1> QED
  BY <1>1, <1>2

\* map_delete makes the key free and cleans up its object.
LEMMA DeleteEffect ==
  ASSUME TableInv, NEW k \in Keys, map_delete(k)
  PROVE  /\ TableInv'
         /\ lookup(k)' = NULL /\ \A l \in Keys : l # k => lookup(l)' = lookup(l)
         /\ cleaned' = IF cf THEN cleaned \cup ({lookup(k)} \ {NULL}) ELSE cleaned
         /\ UNCHANGED <<exists, cf, given, ret>>
<1>1. CASE lookup(k) = NULL
  <2>1. UNCHANGED <<exists, cf, size, shift_bits, elements, given, cleaned, ret>>
    BY <1>1 DEF map_delete
  <2>2. TableInv' /\ \A l : lookup(l)' = lookup(l)
    BY <2>1, ChainsKept
  <2> QED
    BY <1>1, <2>1, <2>2
<1>2. CASE lookup(k) # NULL
  <2> DEFINE s == elements[map_index(k)]
             t == RemoveAt(s, Where(s, k))
  <2>0. exists
    BY <1>2, LookupIs
  <2>1. s \in Seq(Entry) /\ Distinct(s) /\ chain(k) = s /\ map_index(k) \in 0 .. size - 1
    BY <2>0, ChainOf
  <2>2. Found(s, k) # NULL
    BY <1>2, <2>0, LookupIs
  <2>3. elements' = [elements EXCEPT ![map_index(k)] = t]
    <3>1. elements' = [elements EXCEPT ![map_index(k)] = RemoveAt(elements[map_index(k)], position(k))]
      BY <1>2 DEF map_delete, unlink
    <3> QED
      BY <3>1, LookupIs
  <2> HIDE DEF s
  <2>4. /\ t \in Seq(Entry) /\ Distinct(t) /\ Found(t, k) = NULL
        /\ \A l : l # k => Found(t, l) = Found(chain(k), l)
        /\ \A i \in 1 .. Len(t) : \E j \in 1 .. Len(chain(k)) : t[i] = chain(k)[j]
    BY <2>1, <2>2, RemoveFound
  <2> HIDE DEF t
  <2>5. /\ exists' /\ UNCHANGED <<exists, cf, size, shift_bits, given, ret>>
        /\ cleaned' = IF cf THEN cleaned \cup {lookup(k)} ELSE cleaned
    BY <1>2, <2>0 DEF map_delete
  <2>6. TableInv' /\ lookup(k)' = NULL /\ \A l \in Keys : l # k => lookup(l)' = lookup(l)
    BY <2>0, <2>3, <2>4, <2>5, ChainReplaced
  <2> QED
    BY <1>2, <2>5, <2>6
<1> QED
  BY <1>1, <1>2

\* The hash of every key is the number of a bucket.
LEMMA IndexAll == SizeInv => IndexInRange
BY IndexLemma DEF IndexInRange

\* The same after a step.
LEMMA IndexNext == SizeInv' => IndexInRange'
BY IndexAll, PTL

\* map_init makes an empty table where there was none.
LEMMA InitEffect ==
  ASSUME TableInv, NEW n \in Sizes, map_init(n)
  PROVE  /\ TableInv' /\ ~exists /\ exists'
         /\ \A l \in Keys : lookup(l)' = NULL /\ lookup(l) = NULL
         /\ UNCHANGED <<cf, given, cleaned, ret>>
<1>1. /\ ~exists /\ exists' = TRUE /\ UNCHANGED <<cf, given, cleaned, ret>>
      /\ elements' = [i \in 0 .. size' - 1 |-> <<>>]
  BY DEF map_init
<1>2. SizeInv'
  <2>1. [Next]_vars
    BY DEF Next
  <2> QED
    BY <2>1, SizeKept DEF TableInv
<1>3. <<>> \in Seq(Entry) /\ Distinct(<<>>) /\ Len(<<>>) = 0
  BY DEF Distinct
<1>4. TableInv'
  <2>1. elements' \in [0 .. size' - 1 -> Seq(Entry)]
    BY <1>1, <1>3
  <2>2. \A i \in 0 .. size' - 1 : Distinct(elements'[i]) /\ Len(elements'[i]) = 0
    BY <1>1, <1>3
  <2> QED
    <3>1. \A i \in 0 .. size' - 1 : \A j \in 1 .. Len(elements'[i]) : map_index(elements[i][j].key)' = i
      BY <2>2
    <3>2. \A i \in 0 .. size' - 1 : Distinct(elements[i])'
      BY <2>2 DEF Distinct
    <3>3. exists' \in BOOLEAN /\ cf' \in BOOLEAN
      BY <1>1 DEF TableInv
    <3> QED
      BY <1>1, <1>2, <2>1, <3>1, <3>2, <3>3 DEF TableInv
<1>5. ASSUME NEW l \in Keys PROVE lookup(l)' = NULL /\ lookup(l) = NULL
  <2>1. map_index(l)' \in 0 .. size' - 1
    BY <1>1, <1>2, IndexNext DEF IndexInRange
  <2>2. elements'[map_index(l)'] = <<>>
    BY <1>1, <2>1
  <2>3. Found(<<>>, l) = NULL
    <3>1. \A i \in 1 .. Len(<<>>) : FALSE
      BY <1>3
    <3>2. Where(<<>>, l) = 0
      BY <1>3, <3>1, WhereIs
    <3> QED
      BY <3>2 DEF Found
  <2> QED
    <3>1. lookup(l)' = Found(elements'[map_index(l)'], l)
      BY <1>1, LookupNext
    <3>2. lookup(l)' = NULL
      BY <2>2, <2>3, <3>1
    <3>3. lookup(l) = NULL
      BY <1>1, LookupIs
    <3> QED
      BY <3>2, <3>3
<1> QED
  BY <1>1, <1>4, <1>5

\* map_free cleans up all that is in the table.
LEMMA FreeEffect ==
  ASSUME TableInv, map_free
  PROVE  /\ TableInv' /\ ~exists'
         /\ \A l \in Keys : lookup(l)' = NULL
         /\ cleaned' = IF cf THEN cleaned \cup Lookups ELSE cleaned
         /\ UNCHANGED <<cf, given, ret>>
<1>1. /\ exists' = FALSE /\ UNCHANGED <<cf, size, shift_bits, given, ret>>
      /\ cleaned' = IF cf THEN cleaned \cup stored ELSE cleaned
  BY DEF map_free
<1>2. TableInv'
  BY <1>1 DEF TableInv, SizeInv
<1> QED
  BY <1>1, <1>2, LookupNext, StoredIs

-----------------------------------------------------------------------------
(***************************************************************************)
(* The refinement.                                                         *)
(***************************************************************************)

\* What each step does to the map and to the objects.
LEMMA TableKept == TableInv /\ [Next]_vars => TableInv'
<1> SUFFICES ASSUME TableInv, [Next]_vars PROVE TableInv'
  OBVIOUS
<1>1. ASSUME NEW k \in Keys, map_lookup(k) PROVE TableInv'
  BY <1>1, ChainsKept DEF map_lookup
<1>2. CASE UNCHANGED vars
  BY <1>2, ChainsKept DEF vars
<1> QED
  BY <1>1, <1>2, InitEffect, FreeEffect, InsertEffect, DeleteEffect DEF Next

\* Before map_init there is no table and nothing to find.
LEMMA TableStart == Init => TableInv /\ \A k \in Keys : lookup(k) = NULL
<1> SUFFICES ASSUME Init PROVE TableInv /\ \A k \in Keys : lookup(k) = NULL
  OBVIOUS
<1>1. exists = FALSE /\ cf \in BOOLEAN
  BY DEF Init
<1> QED
  BY <1>1, LookupIs DEF TableInv, SizeInv

\* Every step of the table is one of the map, or changes nothing of it.
LEMMA MapStep == TableInv /\ [Next]_vars => [Table!MapNext]_(Table!mapVars)
<1> SUFFICES ASSUME TableInv, [Next]_vars PROVE [Table!MapNext]_(Table!mapVars)
  OBVIOUS
<1> DEFINE contents == [k \in Keys |-> lookup(k)]
<1>1. ASSUME NEW n \in Sizes, map_init(n) PROVE Table!Create
  <2>1. contents' = contents
    BY <1>1, InitEffect
  <2> QED
    BY <1>1, <2>1, InitEffect DEF Table!Create, map_init
<1>2. ASSUME NEW k \in Keys, map_lookup(k) PROVE Table!Lookup(k)
  <2>1. contents' = contents
    BY <1>2, ChainsKept DEF map_lookup
  <2> QED
    BY <1>2, <2>1 DEF Table!Lookup, map_lookup
<1>3. ASSUME NEW k \in Keys, NEW o \in Objs, map_insert(k, o) PROVE Table!Insert(k, o)
  <2>1. CASE exists /\ lookup(k) = NULL
    <3>1. contents' = [contents EXCEPT ![k] = o]
      BY <1>3, <2>1, InsertEffect
    <3> QED
      BY <1>3, <2>1, <3>1, InsertEffect DEF Table!Insert
  <2>2. CASE ~(exists /\ lookup(k) = NULL)
    <3>1. contents' = contents
      BY <1>3, <2>2, InsertEffect
    <3> QED
      BY <1>3, <2>2, <3>1, InsertEffect DEF Table!Insert
  <2> QED
    BY <2>1, <2>2
<1>4. ASSUME NEW k \in Keys, map_delete(k) PROVE Table!Delete(k)
  <2>1. contents' = [contents EXCEPT ![k] = NULL]
    BY <1>4, DeleteEffect
  <2> QED
    BY <1>4, <2>1, DeleteEffect DEF Table!Delete
<1>5. ASSUME map_free PROVE Table!Free
  <2>1. contents' = Table!Empty
    BY <1>5, FreeEffect DEF Table!Empty
  <2>2. Table!Objects = Lookups
    BY DEF Table!Objects, Lookups
  <2>3. exists' = FALSE
    BY <1>5 DEF map_free
  <2> QED
    BY <1>5, <2>1, <2>2, <2>3, FreeEffect DEF Table!Free
<1>6. CASE UNCHANGED vars
  <2>1. contents' = contents
    BY <1>6, ChainsKept DEF vars
  <2> QED
    BY <1>6, <2>1 DEF Table!mapVars, vars
<1> QED
  BY <1>1, <1>2, <1>3, <1>4, <1>5, <1>6 DEF Next, Table!MapNext

\* The chains of hashmap.c, with collisions, insertion at the head and
\* removal from the middle, are a map, for any table size and any keys.
THEOREM TableIsMap == Spec => MapSpec
<1>1. Init => Table!MapInit
  BY TableStart DEF Init, Table!MapInit, Table!Empty
<1> QED
  BY <1>1, TableStart, TableKept, MapStep, PTL DEF Spec, MapSpec, Table!MapSpec

-----------------------------------------------------------------------------
(***************************************************************************)
(* Who owns the objects.                                                   *)
(***************************************************************************)
OwnInv ==
  /\ cleaned \subseteq given /\ Lookups \subseteq given
  /\ Lookups \cap cleaned = {}
  /\ cf => given = Lookups \cup cleaned
  /\ \A k, l \in Keys : lookup(k) = lookup(l) /\ lookup(k) # NULL => k = l

\* Every step keeps every object in one place.
LEMMA OwnKept == TableInv /\ OwnInv /\ [Next]_vars => OwnInv'
<1> SUFFICES ASSUME TableInv, OwnInv, [Next]_vars PROVE OwnInv'
  OBVIOUS
<1> USE DEF OwnInv
<1>0. NULL \notin Objs
  BY HashMapAssumption
<1>1. ASSUME \A k \in Keys : lookup(k)' = lookup(k), UNCHANGED <<cf, given, cleaned>>
      PROVE  OwnInv'
  BY <1>1 DEF Lookups
<1>2. ASSUME NEW n \in Sizes, map_init(n) PROVE OwnInv'
  BY <1>1, <1>2, InitEffect
<1>3. ASSUME NEW k \in Keys, map_lookup(k) PROVE OwnInv'
  BY <1>1, <1>3, ChainsKept DEF map_lookup
<1>4. ASSUME NEW k \in Keys, NEW o \in Objs, map_insert(k, o) PROVE OwnInv'
  <2>1. CASE exists /\ lookup(k) = NULL
    <3>1. /\ lookup(k)' = o /\ \A l \in Keys : l # k => lookup(l)' = lookup(l)
          /\ given' = given \cup {o} /\ o \notin given /\ UNCHANGED <<cf, cleaned>>
      BY <1>4, <2>1, InsertEffect
    <3>2. Lookups' = Lookups \cup {o}
      BY <1>0, <2>1, <3>1 DEF Lookups
    <3>3. \A l \in Keys : lookup(l) # o
      BY <1>0, <3>1 DEF Lookups
    <3> QED
      BY <3>1, <3>2, <3>3
  <2>2. CASE ~(exists /\ lookup(k) = NULL)
    BY <1>1, <1>4, <2>2, InsertEffect
  <2> QED
    BY <2>1, <2>2
<1>5. ASSUME NEW k \in Keys, map_delete(k) PROVE OwnInv'
  <2>1. /\ lookup(k)' = NULL /\ \A l \in Keys : l # k => lookup(l)' = lookup(l)
        /\ cleaned' = IF cf THEN cleaned \cup ({lookup(k)} \ {NULL}) ELSE cleaned
        /\ UNCHANGED <<cf, given>>
    BY <1>5, DeleteEffect
  <2>2. Lookups' = Lookups \ {lookup(k)}
    BY <2>1 DEF Lookups
  <2>3. lookup(k) # NULL => lookup(k) \in Lookups
    BY DEF Lookups
  <2>4. NULL \notin Lookups
    BY DEF Lookups
  <2>5. \A l, m \in Keys : lookup(l)' = lookup(m)' /\ lookup(l)' # NULL => l = m
    BY <2>1
  <2> QED
    BY <2>1, <2>2, <2>3, <2>4, <2>5
<1>6. ASSUME map_free PROVE OwnInv'
  <2>1. /\ \A l \in Keys : lookup(l)' = NULL
        /\ cleaned' = IF cf THEN cleaned \cup Lookups ELSE cleaned
        /\ UNCHANGED <<cf, given>>
    BY <1>6, FreeEffect
  <2>2. Lookups' = {}
    BY <2>1 DEF Lookups
  <2> QED
    BY <2>1, <2>2
<1>7. CASE UNCHANGED vars
  BY <1>1, <1>7, ChainsKept DEF vars
<1> QED
  BY <1>2, <1>3, <1>4, <1>5, <1>6, <1>7 DEF Next

\* No location and no breakpoint is lost, and none is cleaned up while the
\* table holds it or twice, for any sequence of calls.
THEOREM ObjectsOwned == Spec => []Owned
<1>1. Init => OwnInv
  <2> SUFFICES ASSUME Init PROVE OwnInv
    OBVIOUS
  <2>1. Lookups = {} /\ given = {} /\ cleaned = {}
    BY TableStart DEF Lookups, Init
  <2> QED
    BY <2>1, TableStart DEF OwnInv
<1>2. TableInv /\ OwnInv => Owned
  BY StoredIs DEF OwnInv, Owned
<1> QED
  BY <1>1, <1>2, TableStart, TableKept, OwnKept, PTL DEF Spec

=============================================================================
