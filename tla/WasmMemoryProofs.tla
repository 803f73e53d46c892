-------------------------- MODULE WasmMemoryProofs --------------------------
(***************************************************************************)
(* The allocator and the shadow stack for every width of a word, every     *)
(* number of classes, every set of layouts and every size of a frame.       *)
(*                                                                         *)
(* Powers of two are counted (2^n subsets of 1 .. n), and induction is the  *)
(* least number of a set, from the well-founded order of finite sets: what *)
(* the memory needs of powers, remainders and multiples is proved first.    *)
(*                                                                         *)
(* HeapInv says that each free list is a chain of all the blocks of its     *)
(* list that have no owner, each once; it needs no hypothesis.  FitInv says *)
(* that the blocks lie one above the other, OwnersInv that a block serves   *)
(* its owner, StackInv that the frames are stacked below the table.         *)
(*                                                                         *)
(* The theorems are about modules whose static data ends below the table,   *)
(* or is zero there, as Init says; only Disjoint needs it as a hypothesis.  *)
(***************************************************************************)
EXTENDS WasmMemory, FiniteSetTheorems, SequenceTheorems, WellFoundedInduction, TLAPS

-----------------------------------------------------------------------------
\* Numbers: induction, powers of two, remainders and multiples.

LEMMA LeastNumber ==
  ASSUME NEW S, S \subseteq Nat, S # {}
  PROVE  \E x \in S : \A y \in S : x <= y
<1> DEFINE T == {0 .. n : n \in S}
<1>1. T \subseteq FiniteSubsetsOf(Nat)
  <2> SUFFICES ASSUME NEW n \in S PROVE 0 .. n \in FiniteSubsetsOf(Nat)
    OBVIOUS
  <2>1. IsFiniteSet(0 .. n)
    BY FS_Interval
  <2> QED BY <2>1 DEF FiniteSubsetsOf
<1>2. T # {}
  OBVIOUS
<1>3. IsWellFoundedOn(StrictSubsetOrdering(Nat), FiniteSubsetsOf(Nat))
  BY FS_StrictSubsetOrderingWellFounded
<1> HIDE DEF T
<1>4. PICK t \in T : \A u \in T : <<u, t>> \notin StrictSubsetOrdering(Nat)
  BY <1>1, <1>2, <1>3, WFMin
<1>5. PICK x \in S : t = 0 .. x
  BY DEF T
<1>6. ASSUME NEW y \in S, ~(x <= y) PROVE FALSE
  <2>1. 0 .. y \in T
    BY DEF T
  <2>2. 0 .. y \subseteq 0 .. x /\ 0 .. y # 0 .. x
    <3>1. x \in 0 .. x /\ x \notin 0 .. y
      BY <1>6
    <3> QED BY <1>6, <3>1
  <2>3. <<0 .. y, 0 .. x>> \in StrictSubsetOrdering(Nat)
    BY <2>2 DEF StrictSubsetOrdering
  <2> QED BY <1>4, <1>5, <2>1, <2>3
<1> QED BY <1>6

LEMMA Induction ==
  ASSUME NEW S, 0 \in S, \A n \in Nat : n \in S => n + 1 \in S
  PROVE  Nat \subseteq S
<1> SUFFICES ASSUME Nat \ S # {} PROVE FALSE
  OBVIOUS
<1>1. PICK x \in Nat \ S : \A y \in Nat \ S : x <= y
  BY LeastNumber, Zenon
<1>2. x # 0
  OBVIOUS
<1>3. x - 1 \in Nat /\ x - 1 \in S
  BY <1>1, <1>2
<1> QED BY <1>3

LEMMA PowerIsCount ==
  ASSUME NEW n \in Nat
  PROVE  /\ IsFiniteSet(SUBSET (1 .. n)) /\ Cardinality(SUBSET (1 .. n)) = 2 ^ n
         /\ 2 ^ n \in Nat
<1>1. IsFiniteSet(1 .. n) /\ Cardinality(1 .. n) = n
  BY FS_Interval
<1>2. IsFiniteSet(SUBSET (1 .. n)) /\ Cardinality(SUBSET (1 .. n)) = 2 ^ n
  BY <1>1, FS_SUBSET
<1> QED BY <1>2, FS_CardinalityType

LEMMA PowerDoubles ==
  ASSUME NEW n \in Nat
  PROVE  2 ^ (n + 1) = 2 * 2 ^ n
<1> DEFINE Old == SUBSET (1 .. n)
<1> DEFINE New == {T \in SUBSET (1 .. n + 1) : n + 1 \in T}
<1> DEFINE f == [T \in Old |-> T \cup {n + 1}]
<1>1. SUBSET (1 .. n + 1) = Old \cup New /\ Old \cap New = {}
  <2>1. 1 .. n + 1 = (1 .. n) \cup {n + 1} /\ n + 1 \notin 1 .. n
    OBVIOUS
  <2> QED BY <2>1
<1>2. f \in Bijection(Old, New)
  <2>1. n + 1 \notin 1 .. n /\ 1 .. n + 1 = (1 .. n) \cup {n + 1}
    OBVIOUS
  <2>2. f \in [Old -> New]
    BY <2>1
  <2>3. \A S, T \in Old : f[S] = f[T] => S = T
    <3>1. SUFFICES ASSUME NEW S \in Old, NEW T \in Old, f[S] = f[T] PROVE S = T
      OBVIOUS
    <3>2. S \cup {n + 1} = T \cup {n + 1} /\ n + 1 \notin S /\ n + 1 \notin T
      BY <2>1, <3>1
    <3> QED BY <3>2
  <2>4. ASSUME NEW T \in New PROVE \E S \in Old : f[S] = T
    <3>1. T \ {n + 1} \in Old
      BY <2>1
    <3>2. f[T \ {n + 1}] = T
      BY <3>1
    <3> QED BY <3>1, <3>2
  <2> HIDE DEF f, Old, New
  <2> QED BY <2>2, <2>3, <2>4 DEF Bijection, Injection, Surjection, IsInjective
<1>3. IsFiniteSet(Old) /\ Cardinality(Old) = 2 ^ n
  BY PowerIsCount
<1>4. IsFiniteSet(New) /\ Cardinality(New) = 2 ^ n
  BY <1>2, <1>3, FS_Bijection DEF ExistsBijection
<1>5. Cardinality(Old \cup New) = 2 ^ n + 2 ^ n - Cardinality({})
  <2> HIDE DEF Old, New
  <2> QED BY <1>1, <1>3, <1>4, FS_Union
<1>6. Cardinality(SUBSET (1 .. n + 1)) = 2 ^ (n + 1)
  BY PowerIsCount
<1>7. 2 ^ (n + 1) = 2 ^ n + 2 ^ n
  <2> HIDE DEF Old, New
  <2>1. 2 ^ n \in Nat
    BY PowerIsCount
  <2>2. 2 ^ (n + 1) = 2 ^ n + 2 ^ n - Cardinality({})
    BY <1>1, <1>5, <1>6
  <2> QED BY <2>1, <2>2, FS_EmptySet
<1> QED BY <1>7, PowerIsCount

\* Division.

LEMMA Divides ==
  ASSUME NEW n \in Int, NEW d \in Nat \ {0}
  PROVE  n = d * (n \div d) + (n % d) /\ n % d \in 0 .. d - 1 /\ n \div d \in Int
  OBVIOUS

LEMMA Remainder ==
  ASSUME NEW q \in Int, NEW d \in Nat \ {0}, NEW r \in 0 .. d - 1
  PROVE  (d * q + r) % d = r /\ (d * q + r) \div d = q
<1> DEFINE n == d * q + r
<1> DEFINE p == n \div d
<1>1. n \in Int /\ n = d * p + (n % d) /\ n % d \in 0 .. d - 1 /\ p \in Int
  BY Divides
<1> HIDE DEF p
<1>2. d * (q - p) = (n % d) - r
  <2>1. d * (q - p) = d * q - d * p
    BY <1>1
  <2> QED BY <1>1, <2>1
<1>3. ASSUME q > p PROVE FALSE
  <2>1. PICK k \in Nat : q - p = k + 1
    <3>1. q - p - 1 \in Nat
      BY <1>1, <1>3
    <3> QED BY <1>1, <3>1
  <2>2. d * (q - p) = d * k + d /\ d * k \in Nat
    BY <2>1
  <2> QED BY <1>1, <1>2, <2>2
<1>4. ASSUME q < p PROVE FALSE
  <2>1. PICK k \in Nat : q - p = -k - 1
    <3>1. p - q - 1 \in Nat
      BY <1>1, <1>4
    <3> QED BY <1>1, <3>1
  <2>2. d * (q - p) = -(d * k) - d /\ d * k \in Nat
    BY <2>1
  <2> QED BY <1>1, <1>2, <2>2
<1>5. p = q
  BY <1>1, <1>3, <1>4
<1>6. n % d = r
  BY <1>1, <1>5
<1> QED BY <1>5, <1>6 DEF p

\* d divides n.
Multiple(n, d) == \E k \in Nat : n = d * k

LEMMA MultipleIs ==
  ASSUME NEW n \in Nat, NEW d \in Nat \ {0}
  PROVE  Multiple(n, d) <=> n % d = 0
<1>1. ASSUME Multiple(n, d) PROVE n % d = 0
  <2>1. PICK k \in Nat : n = d * k
    BY <1>1 DEF Multiple
  <2>2. n = d * k + 0
    BY <2>1
  <2> QED BY <2>2, Remainder
<1>2. ASSUME n % d = 0 PROVE Multiple(n, d)
  <2>1. n = d * (n \div d) /\ n \div d \in Nat
    BY <1>2
  <2> QED BY <2>1 DEF Multiple
<1> QED BY <1>1, <1>2

LEMMA ProductMonotone ==
  ASSUME NEW m \in Nat, NEW n \in Nat, NEW d \in Nat, m <= n
  PROVE  m * d <= n * d
<1>1. PICK k \in Nat : n = m + k
  <2>1. n - m \in Nat /\ n = m + (n - m)
    OBVIOUS
  <2> QED BY <2>1
<1>2. n * d = m * d + k * d /\ k * d \in Nat /\ m * d \in Nat
  BY <1>1
<1> QED BY <1>2

LEMMA MultipleSum ==
  ASSUME NEW n \in Nat, NEW m \in Nat, NEW d \in Nat \ {0}, Multiple(n, d), Multiple(m, d)
  PROVE  Multiple(n + m, d) /\ (m <= n => Multiple(n - m, d))
<1>1. PICK j \in Nat, k \in Nat : n = d * j /\ m = d * k
  BY DEF Multiple
<1>2. n + m = d * (j + k) /\ n - m = d * (j - k)
  BY <1>1
<1>3. ASSUME m <= n PROVE j - k \in Nat
  <2>1. ASSUME j < k PROVE FALSE
    <3>1. PICK i \in Nat : j - k = -i - 1
      <4>1. k - j - 1 \in Nat
        BY <2>1
      <4> QED BY <4>1
    <3>2. d * (j - k) = -(d * i) - d /\ d * i \in Nat
      BY <3>1
    <3> QED BY <1>2, <1>3, <3>2
  <2> QED BY <2>1
<1>4. j + k \in Nat
  OBVIOUS
<1> QED BY <1>2, <1>3, <1>4 DEF Multiple

LEMMA MultipleTransitive ==
  ASSUME NEW n \in Nat, NEW d \in Nat \ {0}, NEW e \in Nat \ {0}, Multiple(n, d), Multiple(d, e)
  PROVE  Multiple(n, e)
<1>1. PICK j \in Nat, k \in Nat : n = d * j /\ d = e * k
  BY DEF Multiple
<1>2. n = e * (k * j) /\ k * j \in Nat
  BY <1>1
<1> QED BY <1>2 DEF Multiple

\* Of two multiples the lesser is less by d at least.
LEMMA MultipleGap ==
  ASSUME NEW n \in Nat, NEW m \in Nat, NEW d \in Nat \ {0}, Multiple(n, d), Multiple(m, d),
         n < m
  PROVE  n + d <= m
<1>1. Multiple(m - n, d) /\ m - n \in Nat
  BY MultipleSum
<1>2. PICK k \in Nat : m - n = d * k
  BY <1>1 DEF Multiple
<1>3. k # 0
  BY <1>2
<1>4. PICK i \in Nat : k = i + 1
  BY <1>3
<1>5. d * k = d * i + d /\ d * i \in Nat
  BY <1>4
<1> QED BY <1>2, <1>5

\* Powers of two.
LEMMA PowerPositive == ASSUME NEW n \in Nat PROVE 2 ^ n \in Nat \ {0} /\ 2 ^ 0 = 1
<1> DEFINE S == {k \in Nat : 2 ^ k # 0}
<1>1. 2 ^ 0 = 1
  OBVIOUS
<1>2. \A k \in Nat : k \in S => k + 1 \in S
  <2> SUFFICES ASSUME NEW k \in Nat, 2 ^ k # 0 PROVE 2 ^ (k + 1) # 0
    OBVIOUS
  <2> QED BY PowerDoubles, PowerIsCount
<1>3. Nat \subseteq S
  <2>1. 0 \in S
    BY <1>1
  <2> HIDE DEF S
  <2> QED BY <1>2, <2>1, Induction
<1> QED BY <1>1, <1>3, PowerIsCount

LEMMA PowerSum ==
  ASSUME NEW m \in Nat, NEW n \in Nat
  PROVE  2 ^ (m + n) = 2 ^ m * 2 ^ n
<1> DEFINE S == {k \in Nat : 2 ^ (m + k) = 2 ^ m * 2 ^ k}
<1>1. 0 \in S
  <2>1. m + 0 = m /\ 2 ^ m = 2 ^ m * 1 /\ 2 ^ 0 = 1
    BY PowerIsCount
  <2> QED BY <2>1
<1>2. ASSUME NEW k \in Nat, k \in S PROVE k + 1 \in S
  <2>1. m + (k + 1) = (m + k) + 1 /\ m + k \in Nat
    OBVIOUS
  <2>2. 2 ^ (m + (k + 1)) = 2 * 2 ^ (m + k) /\ 2 ^ (k + 1) = 2 * 2 ^ k
    BY <2>1, PowerDoubles
  <2>3. 2 * (2 ^ m * 2 ^ k) = 2 ^ m * (2 * 2 ^ k)
    BY PowerIsCount
  <2>4. 2 ^ (m + (k + 1)) = 2 ^ m * 2 ^ (k + 1)
    BY <1>2, <2>2, <2>3
  <2> QED BY <2>4
<1>3. n \in S
  <2> HIDE DEF S
  <2> QED BY <1>1, <1>2, Induction
<1> QED BY <1>3

LEMMA PowerMultiple ==
  ASSUME NEW m \in Nat, NEW n \in Nat, m <= n
  PROVE  Multiple(2 ^ n, 2 ^ m)
<1>1. n - m \in Nat /\ n = m + (n - m)
  OBVIOUS
<1>2. 2 ^ n = 2 ^ m * 2 ^ (n - m) /\ 2 ^ (n - m) \in Nat
  BY <1>1, PowerSum, PowerIsCount
<1> QED BY <1>2 DEF Multiple

LEMMA PowerMonotone ==
  ASSUME NEW m \in Nat, NEW n \in Nat, m <= n
  PROVE  2 ^ m <= 2 ^ n
<1>1. PICK k \in Nat : 2 ^ n = 2 ^ m * k
  BY PowerMultiple DEF Multiple
<1>2. 2 ^ m \in Nat \ {0} /\ 2 ^ n \in Nat \ {0}
  BY PowerPositive
<1>3. k # 0
  BY <1>1, <1>2
<1>4. PICK j \in Nat : k = j + 1
  BY <1>3
<1>5. 2 ^ m * k = 2 ^ m * j + 2 ^ m /\ 2 ^ m * j \in Nat
  BY <1>2, <1>4
<1> QED BY <1>1, <1>2, <1>5

LEMMA PowerStrict ==
  ASSUME NEW m \in Nat, NEW n \in Nat
  PROVE  m < n <=> 2 ^ m < 2 ^ n
<1>1. 2 ^ m \in Nat \ {0} /\ 2 ^ n \in Nat \ {0}
  BY PowerPositive
<1>2. ASSUME m < n PROVE 2 ^ m < 2 ^ n
  <2>1. 2 ^ (m + 1) <= 2 ^ n
    BY <1>2, PowerMonotone
  <2>2. 2 ^ (m + 1) = 2 * 2 ^ m
    BY PowerDoubles
  <2> QED BY <1>1, <2>1, <2>2
<1>3. ASSUME 2 ^ m < 2 ^ n, ~(m < n) PROVE FALSE
  <2>1. 2 ^ n <= 2 ^ m
    BY <1>3, PowerMonotone
  <2> QED BY <1>1, <1>3, <2>1
<1> QED BY <1>2, <1>3

-----------------------------------------------------------------------------
\* Rounding.

LEMMA DownIs ==
  ASSUME NEW n \in Nat, NEW a \in Nat \ {0}
  PROVE  /\ Down(n, a) \in Nat /\ Multiple(Down(n, a), a)
         /\ Down(n, a) <= n /\ n < Down(n, a) + a
<1>1. n = a * (n \div a) + (n % a) /\ n % a \in 0 .. a - 1 /\ n \div a \in Nat
  OBVIOUS
<1>2. n - (n % a) = a * (n \div a)
  BY <1>1
<1>3. Multiple(n - (n % a), a)
  BY <1>1, <1>2 DEF Multiple
<1>4. n - (n % a) \in Nat
  BY <1>1
<1> QED BY <1>1, <1>3, <1>4 DEF Down

LEMMA UpIs ==
  ASSUME NEW n \in Nat, NEW a \in Nat \ {0}
  PROVE  /\ Down(n + a - 1, a) \in Nat /\ Multiple(Down(n + a - 1, a), a)
         /\ n <= Down(n + a - 1, a)
         /\ \A m \in Nat : Multiple(m, a) /\ n <= m => Down(n + a - 1, a) <= m
<1> DEFINE u == Down(n + a - 1, a)
<1>1. u \in Nat /\ Multiple(u, a) /\ u <= n + a - 1 /\ n + a - 1 < u + a
  <2>1. n + a - 1 \in Nat
    OBVIOUS
  <2> QED BY <2>1, DownIs
<1> HIDE DEF u
<1>2. ASSUME NEW m \in Nat, Multiple(m, a), n <= m, m < u PROVE FALSE
  <2>1. m + a <= u
    BY <1>1, <1>2, MultipleGap
  <2> QED BY <1>1, <1>2, <2>1
<1>3. n <= u /\ \A m \in Nat : Multiple(m, a) /\ n <= m => u <= m
  BY <1>1, <1>2
<1> QED BY <1>1, <1>3 DEF u

\* The largest multiple below a bound that is a multiple itself.
LEMMA DownBelow ==
  ASSUME NEW n \in Nat, NEW a \in Nat \ {0}, NEW m \in Nat, Multiple(m, a)
  PROVE  /\ n < m => Down(n, a) + a <= m
         /\ m <= n => m <= Down(n, a)
<1>1. /\ Down(n, a) \in Nat /\ Multiple(Down(n, a), a)
      /\ Down(n, a) <= n /\ n < Down(n, a) + a
  BY DownIs
<1>2. ASSUME n < m PROVE Down(n, a) + a <= m
  BY <1>1, <1>2, MultipleGap
<1>3. ASSUME m <= n, Down(n, a) < m PROVE FALSE
  <2>1. Down(n, a) + a <= m
    BY <1>1, <1>3, MultipleGap
  <2> QED BY <1>1, <1>3, <2>1
<1> QED BY <1>1, <1>2, <1>3

-----------------------------------------------------------------------------
\* The constants.

LEMMA Sizes ==
  /\ WordBits \in Nat /\ PageBits \in Nat /\ Shift \in Nat /\ ClassCount \in Nat
  /\ Modulus \in Nat \ {0} /\ Page \in Nat \ {0} /\ Header \in Nat \ {0} /\ 4 <= Header
  /\ Multiple(Modulus, Header)
  /\ 2 ^ (WordBits - PageBits) \in Nat /\ 2 <= 2 ^ (WordBits - PageBits)
  /\ Modulus = Page * 2 ^ (WordBits - PageBits)
<1>1. /\ WordBits \in Nat /\ PageBits \in Nat /\ Shift \in Nat /\ ClassCount \in Nat
      /\ 2 <= Shift /\ Shift <= WordBits /\ WordBits - PageBits \in Nat
      /\ 1 <= WordBits - PageBits
  BY MemoryAssumption
<1>2. Modulus \in Nat \ {0} /\ Page \in Nat \ {0} /\ Header \in Nat \ {0}
  BY <1>1, PowerPositive DEF Modulus, Page, Header
<1>3. 2 ^ 2 = 4 /\ 2 ^ 1 = 2
  OBVIOUS
<1>4. 4 <= Header
  BY <1>1, <1>3, PowerMonotone DEF Header
<1>5. Multiple(Modulus, Header)
  BY <1>1, PowerMultiple DEF Modulus, Header
<1>6. 2 ^ (WordBits - PageBits) \in Nat /\ 2 <= 2 ^ (WordBits - PageBits)
  <2>1. 2 ^ 1 <= 2 ^ (WordBits - PageBits)
    BY <1>1, PowerMonotone
  <2>2. 2 ^ (WordBits - PageBits) \in Nat
    BY <1>1, PowerIsCount
  <2> QED BY <1>3, <2>1, <2>2
<1>7. Modulus = Page * 2 ^ (WordBits - PageBits)
  <2>1. WordBits = PageBits + (WordBits - PageBits)
    BY <1>1
  <2> QED BY <1>1, <2>1, PowerSum DEF Modulus, Page
<1> QED BY <1>1, <1>2, <1>4, <1>5, <1>6, <1>7

\* The heap begins above the table, and a header below the end of the word.
LEMMA HeapBaseIs ==
  /\ TableBase \in Nat /\ StaticEnd \in Nat /\ HeapBase \in Nat \ {0}
  /\ TableBase < HeapBase /\ HeapBase <= Modulus - Header /\ Modulus - Header \in Nat
  /\ Multiple(Modulus - Header, Header)
<1> DEFINE table == (ClassCount + 1) * (Header \div 4)
<1>1. TableBase \in Nat /\ StaticEnd \in Nat /\ HeapBase + Header <= Modulus
  BY MemoryAssumption
<1>2. table \in Nat \ {0}
  <2>1. Header \div 4 \in Nat /\ Header = 4 * (Header \div 4) + (Header % 4) /\ Header % 4 < 4
    BY Sizes
  <2>2. Header \div 4 # 0
    BY <2>1, Sizes
  <2>3. \A i, j \in Nat \ {0} : i * j \in Nat \ {0}
    OBVIOUS
  <2> QED BY <2>1, <2>2, <2>3, Sizes
<1>3. HeapBase = TableBase + Down(table + Header - 1, Header)
  BY DEF HeapBase
<1> HIDE DEF table
<1>4. Down(table + Header - 1, Header) \in Nat /\ table <= Down(table + Header - 1, Header)
  BY <1>2, Sizes, UpIs
<1>5. HeapBase \in Nat /\ TableBase < HeapBase
  BY <1>1, <1>2, <1>3, <1>4
<1>6. Multiple(Modulus - Header, Header)
  <2>1. Multiple(Header, Header)
    <3>1. Header = Header * 1
      BY Sizes
    <3> QED BY <3>1 DEF Multiple
  <2>2. Header <= Modulus
    BY <1>1, <1>5, Sizes
  <2> QED BY <2>1, <2>2, Sizes, MultipleSum
<1> QED BY <1>1, <1>5, <1>6, Sizes

LEMMA Wraps ==
  ASSUME NEW n \in Nat
  PROVE  /\ Wrap(n) \in Address
         /\ n < Modulus => Wrap(n) = n
         /\ Modulus <= n /\ n < 2 * Modulus => Wrap(n) = n - Modulus
<1>1. Wrap(n) \in Address
  BY Sizes DEF Wrap, Address
<1>2. ASSUME n < Modulus PROVE Wrap(n) = n
  <2>1. n = Modulus * 0 + n /\ n \in 0 .. Modulus - 1
    BY <1>2, Sizes
  <2> QED BY <2>1, Sizes, Remainder DEF Wrap
<1>3. ASSUME Modulus <= n, n < 2 * Modulus PROVE Wrap(n) = n - Modulus
  <2>1. n = Modulus * 1 + (n - Modulus) /\ n - Modulus \in 0 .. Modulus - 1
    BY <1>3, Sizes
  <2> QED BY <2>1, Sizes, Remainder DEF Wrap
<1> QED BY <1>1, <1>2, <1>3

LEMMA PowersDivide ==
  ASSUME NEW a \in Powers
  PROVE  /\ a \in Nat \ {0} /\ a < Modulus /\ Multiple(Modulus, a)
         /\ a < Header => Multiple(Header, a)
         /\ ~(a < Header) => Multiple(a, Header)
<1>1. PICK n \in 0 .. WordBits - 1 : a = 2 ^ n
  BY DEF Powers
<1>2. n \in Nat /\ n < WordBits
  BY <1>1, Sizes
<1>3. a \in Nat \ {0}
  BY <1>1, <1>2, PowerPositive
<1>4. a < Modulus
  BY <1>1, <1>2, Sizes, PowerStrict DEF Modulus
<1>5. Multiple(Modulus, a)
  BY <1>1, <1>2, Sizes, PowerMultiple DEF Modulus
<1>6. ASSUME a < Header PROVE Multiple(Header, a)
  <2>1. n < Shift
    BY <1>1, <1>2, <1>6, Sizes, PowerStrict DEF Header
  <2> QED BY <1>1, <1>2, <2>1, Sizes, PowerMultiple DEF Header
<1>7. ASSUME ~(a < Header) PROVE Multiple(a, Header)
  <2>1. ~(n < Shift)
    BY <1>1, <1>2, <1>7, Sizes, PowerStrict DEF Header
  <2>2. Shift <= n
    BY <1>2, <2>1, Sizes
  <2> QED BY <1>1, <1>2, <2>2, Sizes, PowerMultiple DEF Header
<1> QED BY <1>3, <1>4, <1>5, <1>6, <1>7

-----------------------------------------------------------------------------
\* The classes.

LEMMA BitLengthIs ==
  ASSUME NEW n \in Nat, n < Modulus
  PROVE  /\ BitLength(n) \in 0 .. WordBits /\ n < 2 ^ BitLength(n)
         /\ BitLength(n) > 0 => 2 ^ (BitLength(n) - 1) <= n
<1> DEFINE S == {b \in 0 .. WordBits : n < 2 ^ b}
<1>1. S \subseteq Nat /\ WordBits \in S
  BY Sizes DEF Modulus
<1>2. PICK b \in S : \A c \in S : b <= c
  <2> HIDE DEF S
  <2> QED BY <1>1, LeastNumber
<1>3. b \in 0 .. WordBits /\ n < 2 ^ b
  OBVIOUS
<1>4. ASSUME b > 0 PROVE 2 ^ (b - 1) <= n
  <2>1. b - 1 \in 0 .. WordBits /\ b - 1 \in Nat
    BY <1>3, <1>4, Sizes
  <2>2. b - 1 \notin S
    BY <1>2, <1>3, <2>1
  <2>3. ~(n < 2 ^ (b - 1))
    BY <2>1, <2>2
  <2> QED BY <2>1, <2>3, PowerIsCount
<1>5. \E c \in 0 .. WordBits : n < 2 ^ c /\ (c > 0 => 2 ^ (c - 1) <= n)
  BY <1>3, <1>4
<1> QED BY <1>5 DEF BitLength

LEMMA LayoutType ==
  ASSUME NEW r \in Layouts
  PROVE  /\ r.bytes \in Nat /\ r.bytes < Modulus /\ r.alignment \in Powers
         /\ Alignment(r) \in Powers /\ Header <= Alignment(r)
         /\ Multiple(Alignment(r), r.alignment) /\ Multiple(Alignment(r), Header)
<1>1. r.bytes \in Nat /\ r.bytes < Modulus /\ r.alignment \in Powers
  BY MemoryAssumption, Sizes
<1>2. Header \in Powers
  <2>1. Shift \in 0 .. WordBits - 1
    BY MemoryAssumption
  <2> QED BY <2>1 DEF Header, Powers
<1>3. \A a \in Nat : Multiple(a, a)
  <2> SUFFICES ASSUME NEW a \in Nat PROVE Multiple(a, a)
    OBVIOUS
  <2>1. a = a * 1
    OBVIOUS
  <2> QED BY <2>1 DEF Multiple
<1>4. r.alignment \in Nat
  BY <1>1, PowersDivide
<1> QED BY <1>1, <1>2, <1>3, <1>4, Sizes, PowersDivide DEF Alignment

\* The class of a layout is in range, and its capacity holds the bytes.
LEMMA ClassIs ==
  ASSUME NEW r \in Layouts
  PROVE  /\ Class(r) \in -1 .. ClassCount - 1
         /\ Capacity(r) \in Address /\ r.bytes <= Capacity(r)
         /\ Class(r) >= 0 => /\ Alignment(r) = Header
                             /\ Capacity(r) = 2 ^ (Class(r) + Shift)
                             /\ Capacity(r) + Header <= Modulus
         /\ Class(r) = -1 => Capacity(r) = r.bytes
<1>1. r.bytes \in Nat /\ r.bytes < Modulus
  BY LayoutType
<1>2. /\ Shift \in Nat /\ ClassCount \in Nat /\ 1 <= ClassCount /\ WordBits \in Nat
      /\ Shift + ClassCount <= WordBits
  BY MemoryAssumption, Sizes
<1>3. CASE Alignment(r) # Header \/ r.bytes > LargestClass
  BY <1>1, <1>2, <1>3, Sizes DEF Class, Capacity, Address
<1>4. CASE ~(Alignment(r) # Header \/ r.bytes > LargestClass)
  <2>1. /\ Class(r) \in 0 .. ClassCount - 1
        /\ r.bytes <= 2 ^ (Class(r) + Shift)
    <3>1. CASE r.bytes <= Header
      <4>1. Class(r) = 0
        BY <1>4, <3>1 DEF Class
      <4>2. Class(r) + Shift = Shift
        BY <1>2, <4>1
      <4> QED BY <1>2, <3>1, <4>1, <4>2 DEF Header
    <3>2. CASE ~(r.bytes <= Header)
      <4> DEFINE n == r.bytes - 1
      <4> DEFINE b == BitLength(n)
      <4>1. n \in Nat /\ n < Modulus /\ Header <= n
        BY <1>1, <3>2, Sizes
      <4>2. b \in 0 .. WordBits /\ n < 2 ^ b /\ (b > 0 => 2 ^ (b - 1) <= n)
        BY <4>1, BitLengthIs
      <4>3. Class(r) = b - Shift
        BY <1>4, <3>2 DEF Class
      <4> HIDE DEF b
      <4>4. Shift < b
        <5>1. Header < 2 ^ b
          BY <4>1, <4>2, Sizes, PowerIsCount
        <5> QED BY <1>2, <4>2, <5>1, PowerStrict DEF Header
      <4>5. b - 1 < Shift + ClassCount - 1
        <5>1. LargestClass \in Nat /\ 2 ^ (b - 1) \in Nat
          <6>1. Shift + ClassCount - 1 \in Nat /\ b - 1 \in Nat
            BY <1>2, <4>2, <4>4
          <6> QED BY <6>1, PowerIsCount DEF LargestClass
        <5>2. 2 ^ (b - 1) < LargestClass
          BY <1>1, <1>4, <4>1, <4>2, <4>4, <5>1, <1>2
        <5>3. Shift + ClassCount - 1 \in Nat /\ b - 1 \in Nat
          BY <1>2, <4>2, <4>4
        <5> QED BY <5>2, <5>3, PowerStrict DEF LargestClass
      <4>6. Class(r) + Shift = b /\ Class(r) \in 0 .. ClassCount - 1
        BY <1>2, <4>2, <4>3, <4>4, <4>5
      <4>7. r.bytes <= 2 ^ b
        <5>1. 2 ^ b \in Nat
          <6>1. b \in Nat
            BY <1>2, <4>2
          <6> QED BY <6>1, PowerIsCount
        <5> QED BY <1>1, <4>2, <5>1
      <4> QED BY <4>6, <4>7
    <3> QED BY <3>1, <3>2
  <2>2. Capacity(r) = 2 ^ (Class(r) + Shift) /\ Alignment(r) = Header
    BY <1>4, <2>1 DEF Capacity
  <2>3. Capacity(r) + Header <= Modulus /\ Capacity(r) \in Nat
    <3> DEFINE e == Class(r) + Shift
    <3>1. e \in Nat /\ e + 1 <= WordBits /\ Shift <= WordBits - 1 /\ WordBits - 1 \in Nat
      BY <1>2, <2>1
    <3> HIDE DEF e
    <3>2. 2 ^ e <= 2 ^ (WordBits - 1) /\ Header <= 2 ^ (WordBits - 1)
      <4>1. e <= WordBits - 1
        BY <3>1, <1>2
      <4> QED BY <1>2, <3>1, <4>1, PowerMonotone DEF Header
    <3>3. Modulus = 2 * 2 ^ (WordBits - 1)
      <4>1. WordBits = (WordBits - 1) + 1
        BY <1>2
      <4> QED BY <3>1, <4>1, PowerDoubles DEF Modulus
    <3>4. 2 ^ e \in Nat /\ 2 ^ (WordBits - 1) \in Nat /\ Capacity(r) = 2 ^ e
      BY <2>2, <3>1, PowerIsCount DEF e
    <3> QED BY <3>2, <3>3, <3>4, Sizes
  <2>4. Capacity(r) \in Address
    BY <2>3, Sizes DEF Address
  <2> QED BY <2>1, <2>2, <2>3, <2>4, <1>2
<1> QED BY <1>3, <1>4

-----------------------------------------------------------------------------
\* The place of a fresh block.

\* Hypothesis on the constants: no layout ends within a header of the end of the word.
LayoutsFit == \A r \in Layouts : r.bytes + Header <= Modulus

Pointed == heapPointer \in HeapBase .. Modulus - Header

LEMMA CursorIs ==
  ASSUME Pointed
  PROVE  /\ Cursor = Down(heapPointer + Header - 1, Header)
         /\ Cursor \in Nat /\ Multiple(Cursor, Header)
         /\ heapPointer <= Cursor /\ Cursor <= Modulus - Header
<1>1. heapPointer \in Nat /\ heapPointer <= Modulus - Header
  BY HeapBaseIs DEF Pointed
<1>2. Wrap(heapPointer + Header - 1) = heapPointer + Header - 1
  BY <1>1, Wraps, Sizes
<1>3. Cursor = Down(heapPointer + Header - 1, Header)
  BY <1>2 DEF Cursor
<1> QED BY <1>1, <1>3, Sizes, UpIs, HeapBaseIs

LEMMA PlaceIs ==
  ASSUME Pointed, NEW r \in Layouts, Representable(r)
  PROVE  /\ Payload(r) \in Nat /\ heapPointer + Header <= Payload(r)
         /\ Multiple(Payload(r), Header) /\ Multiple(Payload(r), r.alignment)
         /\ Payload(r) + Header <= Modulus
         /\ Down(Reach(r), Header) \in Nat
         /\ Payload(r) <= Down(Reach(r), Header)
         /\ Down(Reach(r), Header) + Header <= Modulus
         /\ Capacity(r) + Header <= Modulus =>
              /\ Payload(r) + Capacity(r) <= Down(Reach(r), Header)
              /\ Payload(r) + Capacity(r) + Header - 1 < Modulus
              /\ Payload(r) = Down((Cursor + Header) + Alignment(r) - 1, Alignment(r))
<1> DEFINE a == Alignment(r)
<1> DEFINE p == Payload(r)
<1> DEFINE e == Capacity(r)
<1>1. /\ Cursor \in Nat /\ Multiple(Cursor, Header)
      /\ heapPointer <= Cursor /\ Cursor <= Modulus - Header
      /\ heapPointer \in Nat \ {0}
  BY CursorIs, HeapBaseIs DEF Pointed
<1>2. /\ a \in Nat \ {0} /\ a < Modulus /\ Multiple(Modulus, a) /\ Header <= a
      /\ Multiple(a, Header) /\ Multiple(a, r.alignment) /\ r.alignment \in Nat \ {0}
  BY LayoutType, PowersDivide
<1>3. e \in Nat /\ e < Modulus
  BY ClassIs, Sizes DEF Address
<1> HIDE DEF a
<1>4. p >= Cursor /\ Reach(r) >= p
  BY DEF Representable
<1>5. p = Down(Wrap(Cursor + Header + a - 1), a)
  BY DEF Payload, a
<1>6. Cursor + Header + a - 1 < Modulus
  <2> SUFFICES ASSUME Modulus <= Cursor + Header + a - 1 PROVE FALSE
    BY <1>1, <1>2, Sizes
  <2>1. Wrap(Cursor + Header + a - 1) = Cursor + Header + a - 1 - Modulus
    BY <1>1, <1>2, Sizes, Wraps
  <2>2. Wrap(Cursor + Header + a - 1) \in 0 .. a - 1
    BY <1>1, <1>2, <2>1, Sizes
  <2>3. Wrap(Cursor + Header + a - 1) = a * 0 + Wrap(Cursor + Header + a - 1)
    BY <1>2, <2>2
  <2>4. Wrap(Cursor + Header + a - 1) % a = Wrap(Cursor + Header + a - 1)
    BY <1>2, <2>2, <2>3, Remainder
  <2>5. p = 0
    BY <1>5, <2>2, <2>4 DEF Down
  <2> QED BY <1>1, <1>4, <2>5
<1>7. p = Down((Cursor + Header) + a - 1, a)
  BY <1>1, <1>2, <1>5, <1>6, Sizes, Wraps
<1>8. p \in Nat /\ Multiple(p, a) /\ Cursor + Header <= p /\ p < Modulus
  <2>1. p \in Nat /\ Multiple(p, a) /\ Cursor + Header <= p
    <3> DEFINE n == Cursor + Header
    <3>1. n \in Nat /\ p = Down(n + a - 1, a)
      BY <1>1, <1>7, Sizes
    <3> HIDE DEF n
    <3>2. p \in Nat /\ Multiple(p, a) /\ n <= p
      BY <1>2, <3>1, UpIs
    <3> QED BY <3>2 DEF n
  <2>2. p <= Cursor + Header + a - 1
    <3>1. Cursor + Header + a - 1 \in Nat
      BY <1>1, <1>2, Sizes
    <3> QED BY <1>2, <1>7, <3>1, DownIs
  <2> QED BY <1>1, <1>2, <1>6, <2>1, <2>2, Sizes
<1> HIDE DEF p
<1>9. Multiple(p, Header) /\ Multiple(p, r.alignment)
  BY <1>2, <1>8, Sizes, MultipleTransitive
<1>10. p + Header <= Modulus
  BY <1>8, <1>9, Sizes, MultipleGap
<1>11. Reach(r) = Wrap(p + e + Header - 1)
  BY DEF Reach, p
<1>12. Reach(r) \in Nat /\ Reach(r) < Modulus
  <2>1. p + e + Header - 1 \in Nat
    BY <1>3, <1>8, Sizes
  <2> QED BY <1>11, <2>1, Wraps, Sizes DEF Address
<1>13. /\ Down(Reach(r), Header) \in Nat /\ p <= Down(Reach(r), Header)
       /\ Down(Reach(r), Header) + Header <= Modulus
  BY <1>4, <1>8, <1>9, <1>12, Sizes, DownIs, DownBelow DEF p
<1>14. ASSUME e + Header <= Modulus
       PROVE  p + e <= Down(Reach(r), Header) /\ p + e + Header - 1 < Modulus
  <2>1. p + e + Header - 1 < Modulus
    <3> SUFFICES ASSUME Modulus <= p + e + Header - 1 PROVE FALSE
      BY <1>3, <1>8, Sizes
    <3>1. Reach(r) = p + e + Header - 1 - Modulus
      BY <1>3, <1>8, <1>10, <1>11, Sizes, Wraps
    <3> QED BY <1>3, <1>4, <1>8, <1>14, <3>1, Sizes DEF p
  <2>2. Reach(r) = (p + e) + Header - 1
    BY <1>3, <1>8, <1>11, <2>1, Sizes, Wraps
  <2>3. p + e <= Down(Reach(r), Header)
    BY <1>3, <1>8, <2>2, Sizes, UpIs
  <2> QED BY <2>1, <2>3
<1> QED BY <1>1, <1>7, <1>8, <1>9, <1>10, <1>13, <1>14, Sizes DEF p, e, a

\* Where the block of a request ends when the sums are not words of the machine.
Up(n, a) == Down(n + a - 1, a)
ExactPayload(r) == Up(Up(heapPointer, Header) + Header, Alignment(r))
ExactReach(r) == ExactPayload(r) + Capacity(r) + Header - 1

LEMMA RefusalIs ==
  ASSUME Pointed, NEW r \in Layouts, Capacity(r) + Header <= Modulus
  PROVE  Representable(r) <=> ExactReach(r) < Modulus
<1> DEFINE a == Alignment(r)
<1> DEFINE p == ExactPayload(r)
<1> DEFINE e == Capacity(r)
<1>1. Cursor = Down(heapPointer + Header - 1, Header) /\ Cursor \in Nat
  BY CursorIs
<1>2. p = Down((Cursor + Header) + a - 1, a)
  BY <1>1 DEF ExactPayload, Up
<1>3. ASSUME Representable(r) PROVE ExactReach(r) < Modulus
  <2>1. Payload(r) = p
    BY <1>2, <1>3, PlaceIs
  <2> QED BY <1>3, <2>1, PlaceIs DEF ExactReach
<1>4. ASSUME ExactReach(r) < Modulus PROVE Representable(r)
  <2>1. a \in Nat \ {0} /\ Multiple(Modulus, a) /\ e \in Nat
    BY LayoutType, PowersDivide, ClassIs, Sizes DEF Address
  <2> DEFINE n == Cursor + Header
  <2>2. n \in Nat /\ Cursor <= n /\ p = Down(n + a - 1, a) /\ n + a - 1 \in Nat
    BY <1>1, <1>2, <2>1, Sizes
  <2> HIDE DEF p, a, n
  <2>3. p \in Nat /\ n <= p /\ Multiple(p, a) /\ n + a - 1 < p + a
    BY <2>1, <2>2, UpIs, DownIs
  <2>4. p + e + Header - 1 < Modulus
    BY <1>4 DEF ExactReach, p, e
  <2> HIDE DEF e
  <2>5. p < Modulus
    BY <2>1, <2>3, <2>4, Sizes
  <2>6. p + a <= Modulus
    BY <2>1, <2>3, <2>5, Sizes, MultipleGap
  <2>7. Wrap(n + a - 1) = n + a - 1
    BY <2>1, <2>2, <2>3, <2>6, Sizes, Wraps
  <2>8. Payload(r) = p
    BY <2>2, <2>7 DEF Payload, a, n
  <2>9. p + e + Header - 1 \in Nat
    BY <2>1, <2>3, Sizes
  <2>10. Reach(r) = p + e + Header - 1
    BY <2>4, <2>8, <2>9, Wraps DEF Reach, e
  <2> QED BY <1>1, <2>1, <2>2, <2>3, <2>8, <2>10, Sizes DEF Representable
<1> QED BY <1>3, <1>4

\* The memory covers what it is asked to cover.
LEMMA Covers ==
  ASSUME TypeOK, NEW end \in Nat \ {0}, end < Modulus, Cover(end)
  PROVE  /\ pages' \in 1 .. 2 ^ (WordBits - PageBits)
         /\ pages <= pages' /\ end <= pages' * Page
<1> DEFINE q == (end - 1) \div Page
<1>1. pages \in Nat /\ 1 <= pages /\ pages <= 2 ^ (WordBits - PageBits)
  BY Sizes DEF TypeOK
<1>2. PagesFor(end) = q + 1
  BY Wraps, Sizes DEF PagesFor
<1>3. q \in Nat /\ end - 1 = Page * q + ((end - 1) % Page) /\ (end - 1) % Page \in 0 .. Page - 1
  BY Sizes
<1>4. q + 1 <= 2 ^ (WordBits - PageBits)
  <2>1. Multiple(Modulus, Page)
    BY Sizes DEF Multiple
  <2>2. Down(end - 1, Page) + Page <= Modulus /\ Down(end - 1, Page) = Page * q
    BY <1>3, <2>1, Sizes, DownBelow DEF Down
  <2> DEFINE m == 2 ^ (WordBits - PageBits)
  <2>3. Page * q + Page <= Page * m /\ m \in Nat
    BY <2>2, Sizes
  <2> HIDE DEF m, q
  <2>4. ASSUME q + 1 > m PROVE FALSE
    <3>1. PICK k \in Nat : q = m + k
      <4>1. q - m \in Nat /\ q = m + (q - m)
        BY <1>3, <2>3, <2>4
      <4> QED BY <4>1
    <3>2. Page * q = Page * m + Page * k /\ Page * k \in Nat /\ Page * m \in Nat
      BY <2>3, <3>1, Sizes
    <3> QED BY <2>3, <3>2, Sizes
  <2> QED BY <1>3, <2>3, <2>4 DEF m
<1>5. end <= (q + 1) * Page
  <2>1. (q + 1) * Page = Page * q + Page
    BY <1>3, Sizes
  <2> QED BY <1>3, <2>1, Sizes
<1> HIDE DEF q
<1>6. pages' \in Nat /\ pages <= pages' /\ q + 1 <= pages'
  BY <1>1, <1>2, <1>3 DEF Cover
<1>7. pages' \in 1 .. 2 ^ (WordBits - PageBits)
  BY <1>1, <1>2, <1>3, <1>4, Sizes DEF Cover
<1>8. (q + 1) * Page <= pages' * Page
  <2>1. q + 1 \in Nat /\ pages' \in Nat /\ q + 1 <= pages' /\ Page \in Nat
    BY <1>3, <1>6, Sizes
  <2> QED BY <2>1, ProductMonotone
<1>9. (q + 1) * Page \in Nat /\ pages' * Page \in Nat
  <2>1. q + 1 \in Nat /\ pages' \in Nat /\ Page \in Nat
    BY <1>3, <1>6, Sizes
  <2>2. \A i, j \in Nat : i * j \in Nat
    OBVIOUS
  <2> QED BY <2>1, <2>2
<1>10. end <= pages' * Page
  BY <1>5, <1>8, <1>9
<1> QED BY <1>6, <1>7, <1>10

-----------------------------------------------------------------------------
\* The invariant: the headers and the free lists.

\* A block is a header on a boundary of headers, and one of a class has its capacity.
Placed(b) ==
  /\ b \in Nat /\ HeapBase <= b /\ b + Header <= heapPointer /\ Multiple(b, Header)
  /\ blocks[b].class >= 0 => blocks[b].capacity = 2 ^ (blocks[b].class + Shift)

HeadersInv == Pointed /\ \A b \in DOMAIN blocks : Placed(b)

\* The blocks that list l has to hold.
Free(l) == {b \in DOMAIN blocks \ DOMAIN owned : List(blocks[b].class) = l}

\* List l has the n blocks c[n], ..., c[1], each once, and these are all it has to hold.
Chain(l, n, c) ==
  /\ c[0] = 0 /\ heads[l] = c[n]
  /\ \A i \in 1 .. n : c[i] \in Free(l) /\ blocks[c[i]].next = c[i - 1]
  /\ \A i, j \in 1 .. n : c[i] = c[j] => i = j
  /\ \A b \in Free(l) : \E i \in 1 .. n : c[i] = b

Chained ==
  \A l \in 0 .. ClassCount : \E n \in Nat : \E c \in [0 .. n -> Address] : Chain(l, n, c)

HeapInv == TypeOK /\ HeadersInv /\ Chained

LEMMA ListIs ==
  ASSUME NEW k \in -1 .. ClassCount - 1
  PROVE  /\ List(k) \in 0 .. ClassCount
         /\ \A j \in -1 .. ClassCount - 1 : List(j) = List(k) => j = k
  BY Sizes DEF List

LEMMA HeapInit == Init => HeapInv
<1> SUFFICES ASSUME Init PROVE HeapInv
  OBVIOUS
<1>1. TypeOK
  <2>1. pages \in 1 .. 2 ^ (WordBits - PageBits)
    BY Sizes DEF Init
  <2>2. heads \in [0 .. ClassCount -> Address]
    BY Sizes DEF Init, Address
  <2>3. stackPointer \in Nat /\ heapPointer \in Nat
    BY HeapBaseIs DEF Init
  <2>4. frames \in Seq([base : Nat, end : Address]) /\ status \in {"fine", "overflow"}
    BY DEF Init
  <2>5. DOMAIN blocks = {} /\ DOMAIN owned = {}
    BY DEF Init
  <2>6. blocks \in [DOMAIN blocks -> BlockHeader] /\ owned \in [DOMAIN owned -> Layouts]
    BY DEF Init
  <2> QED BY <2>1, <2>2, <2>3, <2>4, <2>5, <2>6 DEF TypeOK
<1>2. DOMAIN blocks = {}
  BY DEF Init
<1>3. HeadersInv
  BY <1>2, HeapBaseIs, Sizes DEF Init, HeadersInv, Pointed
<1>4. Chained
  <2> SUFFICES ASSUME NEW l \in 0 .. ClassCount
               PROVE  \E n \in Nat : \E c \in [0 .. n -> Address] : Chain(l, n, c)
    BY DEF Chained
  <2> DEFINE c == [i \in 0 .. 0 |-> 0]
  <2>1. c \in [0 .. 0 -> Address] /\ c[0] = 0
    BY Sizes DEF Address
  <2>2. heads[l] = 0
    BY DEF Init
  <2>3. Free(l) = {}
    BY <1>2 DEF Free
  <2>4. 1 .. 0 = {}
    OBVIOUS
  <2> HIDE DEF c
  <2>5. Chain(l, 0, c)
    BY <2>1, <2>2, <2>3, <2>4 DEF Chain
  <2> QED BY <2>1, <2>5
<1> QED BY <1>1, <1>3, <1>4 DEF HeapInv

\* A step that leaves the heap alone.
LEMMA HeapFrame ==
  ASSUME HeadersInv, Chained, UNCHANGED <<heapPointer, heads, blocks, owned>>
  PROVE  HeadersInv' /\ Chained'
<1>1. HeadersInv'
  BY DEF HeadersInv, Pointed, Placed
<1>2. ASSUME NEW l, NEW n, NEW c, Chain(l, n, c) PROVE Chain(l, n, c)'
  <2>1. Free(l)' = Free(l)
    BY DEF Free
  <2> QED BY <1>2, <2>1 DEF Chain
<1> QED BY <1>1, <1>2 DEF Chained

\* A step that leaves a list alone.
LEMMA ChainFrame ==
  ASSUME NEW l, NEW n \in Nat, NEW c, Chain(l, n, c), heads'[l] = heads[l], Free(l)' = Free(l),
         \A b \in Free(l) : blocks'[b].next = blocks[b].next
  PROVE  Chain(l, n, c)'
  BY DEF Chain

\* The head of a list is a block it has to hold.
LEMMA HeadIs ==
  ASSUME HeapInv, NEW l \in 0 .. ClassCount
  PROVE  heads[l] # 0 => heads[l] \in Free(l)
<1>0. PICK n \in Nat : \E c \in [0 .. n -> Address] : Chain(l, n, c)
  BY DEF HeapInv, Chained
<1>1. PICK c \in [0 .. n -> Address] : Chain(l, n, c)
  BY <1>0
<1>2. n = 0 \/ n \in 1 .. n
  OBVIOUS
<1> QED BY <1>1, <1>2 DEF Chain

LEMMA EmptyIs ==
  ASSUME HeapInv, NEW l \in 0 .. ClassCount, heads[l] = 0
  PROVE  Free(l) = {}
<1>0. PICK n \in Nat : \E c \in [0 .. n -> Address] : Chain(l, n, c)
  BY DEF HeapInv, Chained
<1>1. PICK c \in [0 .. n -> Address] : Chain(l, n, c)
  BY <1>0
<1>2. ASSUME n # 0 PROVE FALSE
  <2>1. n \in 1 .. n
    BY <1>2
  <2>2. heads[l] \in Free(l)
    BY <1>1, <2>1 DEF Chain
  <2>3. heads[l] >= HeapBase
    BY <2>2 DEF Free, HeapInv, HeadersInv, Placed
  <2> QED BY <2>3, HeapBaseIs
<1>3. 1 .. 0 = {}
  OBVIOUS
<1> QED BY <1>1, <1>2, <1>3 DEF Chain

LEMMA ReuseIs ==
  ASSUME HeapInv, NEW r \in Layouts, Reuse(r)
  PROVE  /\ List(Class(r)) \in 0 .. ClassCount
         /\ FirstFree(r) \in Free(List(Class(r)))
         /\ blocks[FirstFree(r)].class = Class(r)
         /\ r.bytes <= blocks[FirstFree(r)].capacity
         /\ Multiple(FirstFree(r) + Header, r.alignment)
<1> DEFINE b == FirstFree(r)
<1>1. Class(r) \in -1 .. ClassCount - 1 /\ List(Class(r)) \in 0 .. ClassCount
  BY ClassIs, ListIs
<1>2. b \in Free(List(Class(r))) /\ HeadServes(r)
  BY <1>1, HeadIs DEF Reuse, HeadServes, FirstFree
<1>3. b \in DOMAIN blocks /\ blocks[b] \in BlockHeader /\ List(blocks[b].class) = List(Class(r))
  BY <1>2 DEF Free, HeapInv, TypeOK
<1>4. blocks[b].class = Class(r) /\ blocks[b].capacity \in Nat
  BY <1>1, <1>3, ListIs, Sizes DEF BlockHeader, Address
<1>5. b \in Nat /\ Multiple(b, Header) /\ Placed(b)
  BY <1>3 DEF HeapInv, HeadersInv, Placed
<1>6. Multiple(b + Header, Header)
  <2>1. Header = Header * 1
    BY Sizes
  <2>2. Multiple(Header, Header)
    BY <2>1 DEF Multiple
  <2> QED BY <1>5, <2>2, Sizes, MultipleSum
<1>7. /\ r.alignment \in Nat \ {0} /\ Alignment(r) \in Nat \ {0}
      /\ Multiple(Alignment(r), r.alignment)
  BY LayoutType, PowersDivide
<1> HIDE DEF b
<1>8. b + Header \in Nat
  BY <1>5, Sizes
<1>9. CASE Class(r) >= 0
  <2>1. Alignment(r) = Header /\ Capacity(r) = 2 ^ (Class(r) + Shift) /\ r.bytes <= Capacity(r)
    BY <1>9, ClassIs
  <2>2. blocks[b].capacity = Capacity(r)
    BY <1>4, <1>5, <1>9, <2>1 DEF Placed
  <2>3. Multiple(b + Header, r.alignment)
    BY <1>6, <1>7, <1>8, <2>1, MultipleTransitive
  <2> QED BY <1>1, <1>2, <1>4, <2>1, <2>2, <2>3 DEF b
<1>10. CASE ~(Class(r) >= 0)
  <2>1. blocks[b].capacity >= r.bytes /\ (b + Header) % Alignment(r) = 0
    BY <1>2, <1>10 DEF HeadServes, b
  <2>2. Multiple(b + Header, Alignment(r))
    BY <1>7, <1>8, <2>1, MultipleIs
  <2>3. Multiple(b + Header, r.alignment)
    BY <1>7, <1>8, <2>2, MultipleTransitive
  <2>4. r.bytes <= blocks[b].capacity
    BY <1>4, <2>1, LayoutType
  <2> QED BY <1>1, <1>2, <1>4, <2>3, <2>4 DEF b
<1> QED BY <1>9, <1>10

LEMMA ReuseHeap ==
  ASSUME HeapInv, NEW r \in Layouts, Reuse(r)
  PROVE  HeapInv'
<1> DEFINE list == List(Class(r))
<1> DEFINE b == heads[list]
<1>1. /\ list \in 0 .. ClassCount /\ b \in Free(list) /\ b # 0
      /\ heads' = [heads EXCEPT ![list] = blocks[b].next]
      /\ blocks' = [blocks EXCEPT ![b].next = 0]
      /\ owned' = [o \in DOMAIN owned \cup {b} |-> IF o = b THEN r ELSE owned[o]]
      /\ UNCHANGED <<heapPointer, pages, stackPointer, frames, status>>
  BY ReuseIs DEF Reuse, FirstFree, HeadServes, stackVars
<1> HIDE DEF b, list
<1>2. b \in DOMAIN blocks /\ blocks[b] \in BlockHeader /\ 0 \in Address
  <2>1. 0 \in Address
    BY Sizes DEF Address
  <2>2. b \in DOMAIN blocks
    BY <1>1 DEF Free
  <2> QED BY <2>1, <2>2 DEF HeapInv, TypeOK
<1>3. TypeOK'
  <2>1. heads' \in [0 .. ClassCount -> Address]
    BY <1>1, <1>2 DEF HeapInv, TypeOK, BlockHeader
  <2>2. DOMAIN blocks' = DOMAIN blocks /\ blocks' \in [DOMAIN blocks -> BlockHeader]
    BY <1>1, <1>2 DEF HeapInv, TypeOK, BlockHeader
  <2>3. DOMAIN owned' = DOMAIN owned \cup {b} /\ owned' \in [DOMAIN owned' -> Layouts]
    BY <1>1 DEF HeapInv, TypeOK
  <2> QED BY <1>1, <1>2, <2>1, <2>2, <2>3 DEF HeapInv, TypeOK
<1>4. /\ DOMAIN blocks' = DOMAIN blocks
      /\ \A o \in DOMAIN blocks : /\ blocks'[o].class = blocks[o].class
                                  /\ blocks'[o].capacity = blocks[o].capacity
                                  /\ o # b => blocks'[o] = blocks[o]
  BY <1>1, <1>2 DEF HeapInv, TypeOK, BlockHeader
<1>5. HeadersInv'
  BY <1>1, <1>4 DEF HeapInv, HeadersInv, Pointed, Placed
<1>6. DOMAIN owned' = DOMAIN owned \cup {b}
  BY <1>1
<1>7. \A l : Free(l)' = Free(l) \ {b}
  BY <1>4, <1>6 DEF Free
<1>8. Chained'
  <2> SUFFICES ASSUME NEW l \in 0 .. ClassCount
               PROVE  \E n \in Nat : \E c \in [0 .. n -> Address] : Chain(l, n, c)'
    BY DEF Chained
  <2>0. PICK n \in Nat : \E c \in [0 .. n -> Address] : Chain(l, n, c)
    BY DEF HeapInv, Chained
  <2>1. PICK c \in [0 .. n -> Address] : Chain(l, n, c)
    BY <2>0
  <2>2. CASE l # list
    <3>1. Free(l)' = Free(l) /\ b \notin Free(l)
      BY <1>1, <1>7, <2>2 DEF Free
    <3>2. heads'[l] = heads[l]
      BY <1>1, <2>2 DEF HeapInv, TypeOK
    <3>3. \A o \in Free(l) : blocks'[o].next = blocks[o].next
      BY <1>4, <3>1 DEF Free
    <3> QED BY <2>1, <3>1, <3>2, <3>3, ChainFrame
  <2>3. CASE l = list
    <3>1. n # 0 /\ b = c[n]
      BY <1>1, <2>1, <2>3 DEF Chain, b
    <3>2. PICK m \in Nat : n = m + 1
      <4>1. n - 1 \in Nat /\ n = (n - 1) + 1
        BY <3>1
      <4> QED BY <4>1
    <3> DEFINE d == [i \in 0 .. m |-> c[i]]
    <3>3. d \in [0 .. m -> Address]
      BY <3>2
    <3>4. /\ \A i \in 1 .. m : i \in 1 .. n /\ i - 1 \in 0 .. m /\ i \in 0 .. m /\ i # n
          /\ 0 \in 0 .. m /\ m \in 0 .. m /\ n \in 1 .. n /\ n - 1 = m
          /\ \A i \in 1 .. n : i = n \/ i \in 1 .. m
      BY <3>2
    <3>5. /\ \A i \in 0 .. m : d[i] = c[i]
      OBVIOUS
    <3> HIDE DEF d
    <3>6. blocks[b].next = c[m]
      BY <2>1, <2>3, <3>1, <3>4 DEF Chain
    <3>7. d[0] = 0 /\ heads'[l] = d[m]
      BY <1>1, <2>1, <2>3, <3>4, <3>5, <3>6 DEF Chain, HeapInv, TypeOK
    <3>8. ASSUME NEW i \in 1 .. m PROVE d[i] \in Free(l)' /\ blocks'[d[i]].next = d[i - 1]
      <4>1. c[i] \in Free(l) /\ blocks[c[i]].next = c[i - 1] /\ c[i] # b
        BY <2>1, <3>1, <3>4 DEF Chain
      <4>2. blocks'[c[i]] = blocks[c[i]]
        BY <1>4, <4>1 DEF Free
      <4> QED BY <1>7, <3>4, <3>5, <4>1, <4>2
    <3>9. ASSUME NEW i \in 1 .. m, NEW j \in 1 .. m, d[i] = d[j] PROVE i = j
      BY <2>1, <3>4, <3>5, <3>9 DEF Chain
    <3>10. ASSUME NEW o \in Free(l)' PROVE \E i \in 1 .. m : d[i] = o
      <4>1. PICK i \in 1 .. n : c[i] = o
        BY <1>7, <2>1 DEF Chain
      <4>2. i # n
        BY <1>7, <3>1, <4>1
      <4>3. i \in 1 .. m
        BY <3>4, <4>2
      <4> QED BY <3>4, <3>5, <4>1, <4>3
    <3>11. Chain(l, m, d)'
      BY <3>7, <3>8, <3>9, <3>10 DEF Chain
    <3> QED BY <3>3, <3>11
  <2> QED BY <2>2, <2>3
<1> QED BY <1>3, <1>5, <1>8 DEF HeapInv

LEMMA ReleaseHeap ==
  ASSUME HeapInv, NEW b \in DOMAIN owned, Release(b)
  PROVE  HeapInv'
<1> DEFINE list == List(blocks[b].class)
<1>1. /\ blocks' = [blocks EXCEPT ![b].next = heads[list]]
      /\ heads' = [heads EXCEPT ![list] = b]
      /\ owned' = [o \in DOMAIN owned \ {b} |-> owned[o]]
      /\ UNCHANGED <<heapPointer, pages, stackPointer, frames, status>>
  BY DEF Release, stackVars
<1>2. /\ b \in DOMAIN blocks /\ b \in Address /\ blocks[b] \in BlockHeader
      /\ list \in 0 .. ClassCount
  BY ListIs DEF HeapInv, TypeOK, BlockHeader
<1> HIDE DEF list
<1>3. TypeOK'
  <2>1. heads' \in [0 .. ClassCount -> Address] /\ heads[list] \in Address
    BY <1>1, <1>2 DEF HeapInv, TypeOK
  <2>2. DOMAIN blocks' = DOMAIN blocks /\ blocks' \in [DOMAIN blocks -> BlockHeader]
    BY <1>1, <1>2, <2>1 DEF HeapInv, TypeOK, BlockHeader
  <2>3. DOMAIN owned' = DOMAIN owned \ {b} /\ owned' \in [DOMAIN owned' -> Layouts]
    BY <1>1 DEF HeapInv, TypeOK
  <2> QED BY <1>1, <1>2, <2>1, <2>2, <2>3 DEF HeapInv, TypeOK
<1>4. /\ DOMAIN blocks' = DOMAIN blocks
      /\ \A o \in DOMAIN blocks : /\ blocks'[o].class = blocks[o].class
                                  /\ blocks'[o].capacity = blocks[o].capacity
                                  /\ o # b => blocks'[o] = blocks[o]
      /\ blocks'[b].next = heads[list]
  BY <1>1, <1>2 DEF HeapInv, TypeOK, BlockHeader
<1>5. HeadersInv'
  BY <1>1, <1>4 DEF HeapInv, HeadersInv, Pointed, Placed
<1>6. DOMAIN owned' = DOMAIN owned \ {b}
  BY <1>1
<1>7. \A l : b \notin Free(l) /\ Free(l)' = IF l = list THEN Free(l) \cup {b} ELSE Free(l)
  BY <1>2, <1>4, <1>6 DEF Free, list
<1>8. Chained'
  <2> SUFFICES ASSUME NEW l \in 0 .. ClassCount
               PROVE  \E n \in Nat : \E c \in [0 .. n -> Address] : Chain(l, n, c)'
    BY DEF Chained
  <2>0. PICK n \in Nat : \E c \in [0 .. n -> Address] : Chain(l, n, c)
    BY DEF HeapInv, Chained
  <2>1. PICK c \in [0 .. n -> Address] : Chain(l, n, c)
    BY <2>0
  <2>2. CASE l # list
    <3>1. heads'[l] = heads[l] /\ Free(l)' = Free(l)
      BY <1>1, <1>7, <2>2 DEF HeapInv, TypeOK
    <3>2. \A o \in Free(l) : blocks'[o].next = blocks[o].next
      BY <1>4, <1>7 DEF Free
    <3> QED BY <2>1, <3>1, <3>2, ChainFrame
  <2>3. CASE l = list
    <3> DEFINE m == n + 1
    <3> DEFINE d == [i \in 0 .. m |-> IF i = m THEN b ELSE c[i]]
    <3>1. d \in [0 .. m -> Address] /\ m \in Nat
      BY <1>2
    <3>2. /\ \A i \in 0 .. n : d[i] = c[i]
          /\ d[m] = b
      OBVIOUS
    <3>3. /\ \A i \in 1 .. m : i = m \/ (i \in 1 .. n /\ i \in 0 .. n /\ i - 1 \in 0 .. n)
          /\ 0 \in 0 .. n /\ n \in 0 .. n /\ m \in 1 .. m /\ m - 1 = n
          /\ \A i \in 1 .. n : i \in 1 .. m /\ i \in 0 .. n
      OBVIOUS
    <3> HIDE DEF d, m
    <3>4. d[0] = 0 /\ heads'[l] = d[m]
      BY <1>1, <2>1, <2>3, <3>2, <3>3 DEF Chain, HeapInv, TypeOK
    <3>5. ASSUME NEW i \in 1 .. m PROVE d[i] \in Free(l)' /\ blocks'[d[i]].next = d[i - 1]
      <4>1. CASE i = m
        BY <1>4, <1>7, <2>1, <2>3, <3>2, <3>3, <4>1 DEF Chain
      <4>2. CASE i # m
        <5>1. c[i] \in Free(l) /\ blocks[c[i]].next = c[i - 1]
          BY <2>1, <3>3, <4>2 DEF Chain
        <5>2. blocks'[c[i]] = blocks[c[i]]
          BY <1>4, <1>7, <5>1 DEF Free
        <5> QED BY <1>7, <2>3, <3>2, <3>3, <4>2, <5>1, <5>2
      <4> QED BY <4>1, <4>2
    <3>6. ASSUME NEW i \in 1 .. m, NEW j \in 1 .. m, d[i] = d[j] PROVE i = j
      <4>1. \A k \in 1 .. n : d[k] = c[k] /\ c[k] # b
        BY <1>7, <2>1, <3>2, <3>3 DEF Chain
      <4> QED BY <2>1, <3>2, <3>3, <3>6, <4>1 DEF Chain
    <3>7. ASSUME NEW o \in Free(l)' PROVE \E i \in 1 .. m : d[i] = o
      <4>1. CASE o = b
        BY <3>2, <3>3, <4>1
      <4>2. CASE o # b
        <5>1. PICK i \in 1 .. n : c[i] = o
          BY <1>7, <2>1, <2>3, <4>2 DEF Chain
        <5> QED BY <3>2, <3>3, <5>1
      <4> QED BY <4>1, <4>2
    <3>8. Chain(l, m, d)'
      BY <3>4, <3>5, <3>6, <3>7 DEF Chain
    <3> QED BY <3>1, <3>8
  <2> QED BY <2>2, <2>3
<1> QED BY <1>3, <1>5, <1>8 DEF HeapInv

\* The block that is carved is new, and the table is left alone.
CarvedAs(r, block) ==
  /\ block \in Nat /\ heapPointer <= block /\ block + Header = Payload(r)
  /\ block \notin DOMAIN blocks /\ Multiple(block, Header)
  /\ blocks' = [b \in DOMAIN blocks \cup {block} |->
                  IF b = block
                  THEN [capacity |-> Capacity(r), class |-> Class(r), next |-> 0]
                  ELSE blocks[b]]
  /\ owned' = [b \in DOMAIN owned \cup {block} |-> IF b = block THEN r ELSE owned[b]]
  /\ UNCHANGED <<heads, stackPointer, frames, status>>
  /\ heapPointer' = Down(Reach(r), Header) /\ Cover(heapPointer')
  /\ Representable(r) /\ ~HeadServes(r)
  /\ Payload(r) <= heapPointer' /\ heapPointer' \in HeapBase .. Modulus - Header

LEMMA CarveIs ==
  ASSUME HeapInv, NEW r \in Layouts, Carve(r)
  PROVE  \E block : CarvedAs(r, block)
<1>0. PICK block : block = Payload(r) - Header
  OBVIOUS
<1>1. Representable(r) /\ ~HeadServes(r) /\ Pointed
  BY DEF Carve, HeapInv, HeadersInv
<1>2. /\ Payload(r) \in Nat /\ heapPointer + Header <= Payload(r)
      /\ Multiple(Payload(r), Header) /\ Payload(r) + Header <= Modulus
      /\ Down(Reach(r), Header) \in Nat /\ Payload(r) <= Down(Reach(r), Header)
      /\ Down(Reach(r), Header) + Header <= Modulus
  BY <1>1, PlaceIs
<1>3. heapPointer \in Nat /\ HeapBase <= heapPointer
  BY <1>1, HeapBaseIs DEF Pointed
<1>4. block \in Nat /\ heapPointer <= block /\ block + Header = Payload(r)
  BY <1>0, <1>2, <1>3, Sizes
<1>5. ASSUME block \in DOMAIN blocks PROVE FALSE
  <2>1. block + Header <= heapPointer
    BY <1>5 DEF HeapInv, HeadersInv, Placed
  <2> QED BY <1>3, <1>4, <2>1, Sizes
<1>6. Multiple(block, Header)
  <2>1. Multiple(Header, Header)
    <3>1. Header = Header * 1
      BY Sizes
    <3> QED BY <3>1 DEF Multiple
  <2> QED BY <1>2, <1>4, <2>1, Sizes, MultipleSum
<1>7. Down(Reach(r), Header) \in HeapBase .. Modulus - Header
  BY <1>2, <1>3, <1>4, Sizes, HeapBaseIs
<1>8. heapPointer' = Down(Reach(r), Header) /\ Cover(heapPointer')
  BY DEF Carve, Cover
<1>9. /\ blocks' = [b \in DOMAIN blocks \cup {block} |->
                      IF b = block
                      THEN [capacity |-> Capacity(r), class |-> Class(r), next |-> 0]
                      ELSE blocks[b]]
      /\ owned' = [b \in DOMAIN owned \cup {block} |-> IF b = block THEN r ELSE owned[b]]
      /\ UNCHANGED <<heads, stackPointer, frames, status>>
  BY <1>0 DEF Carve, stackVars
<1> QED BY <1>1, <1>2, <1>4, <1>5, <1>6, <1>7, <1>8, <1>9 DEF CarvedAs

LEMMA CarveHeap ==
  ASSUME HeapInv, NEW r \in Layouts, Carve(r)
  PROVE  HeapInv'
<1>0. PICK block : CarvedAs(r, block)
  BY CarveIs
<1>1. /\ block \in Nat /\ heapPointer <= block /\ block + Header = Payload(r)
      /\ block \notin DOMAIN blocks /\ Multiple(block, Header)
      /\ blocks' = [b \in DOMAIN blocks \cup {block} |->
                      IF b = block
                      THEN [capacity |-> Capacity(r), class |-> Class(r), next |-> 0]
                      ELSE blocks[b]]
      /\ owned' = [b \in DOMAIN owned \cup {block} |-> IF b = block THEN r ELSE owned[b]]
      /\ heads' = heads /\ UNCHANGED <<stackPointer, frames, status>>
      /\ Cover(heapPointer')
      /\ Payload(r) <= heapPointer' /\ heapPointer' \in HeapBase .. Modulus - Header
  BY <1>0 DEF CarvedAs
<1>2. heapPointer \in Nat /\ HeapBase <= heapPointer /\ heapPointer' \in Nat \ {0}
      /\ heapPointer' < Modulus
  <2>1. heapPointer \in HeapBase .. Modulus - Header
    BY DEF HeapInv, HeadersInv, Pointed
  <2> QED BY <1>1, <2>1, HeapBaseIs, Sizes
<1>3. block \in Address /\ 0 \in Address /\ block + Header <= heapPointer'
  BY <1>1, <1>2, Sizes DEF Address
<1>4. [capacity |-> Capacity(r), class |-> Class(r), next |-> 0] \in BlockHeader
  BY <1>3, ClassIs DEF BlockHeader
<1>5. /\ DOMAIN blocks' = DOMAIN blocks \cup {block} /\ DOMAIN owned' = DOMAIN owned \cup {block}
      /\ \A b \in DOMAIN blocks : blocks'[b] = blocks[b]
      /\ blocks'[block].class = Class(r) /\ blocks'[block].capacity = Capacity(r)
      /\ blocks'[block] \in BlockHeader
  BY <1>1, <1>4
<1>6. TypeOK'
  <2>1. pages' \in 1 .. 2 ^ (WordBits - PageBits)
    BY <1>1, <1>2, Covers DEF HeapInv
  <2>2. DOMAIN blocks' \subseteq Address /\ blocks' \in [DOMAIN blocks' -> BlockHeader]
    <3>1. \A b \in DOMAIN blocks : blocks[b] \in BlockHeader
      BY DEF HeapInv, TypeOK
    <3> QED BY <1>1, <1>3, <1>4, <1>5, <3>1 DEF HeapInv, TypeOK
  <2>3. DOMAIN owned' \subseteq DOMAIN blocks' /\ owned' \in [DOMAIN owned' -> Layouts]
    BY <1>1, <1>5 DEF HeapInv, TypeOK
  <2> QED BY <1>1, <1>2, <2>1, <2>2, <2>3 DEF HeapInv, TypeOK
<1>7. HeadersInv'
  <2>1. Pointed'
    BY <1>1 DEF Pointed
  <2>2. ASSUME NEW b \in DOMAIN blocks PROVE Placed(b)'
    <3>1. Placed(b)
      BY DEF HeapInv, HeadersInv
    <3>2. heapPointer <= heapPointer'
      BY <1>1, <1>2, <1>3, Sizes
    <3>3. b \in Nat /\ HeapBase <= b /\ b + Header <= heapPointer /\ Multiple(b, Header)
      BY <3>1 DEF Placed
    <3>4. b + Header <= heapPointer'
      BY <1>2, <3>2, <3>3, Sizes
    <3> QED BY <1>5, <3>1, <3>3, <3>4 DEF Placed
  <2>3. Placed(block)'
    <3>1. HeapBase <= block
      BY <1>1, <1>2, HeapBaseIs
    <3>2. Class(r) >= 0 => Capacity(r) = 2 ^ (Class(r) + Shift)
      BY ClassIs
    <3> QED BY <1>1, <1>3, <1>5, <3>1, <3>2 DEF Placed
  <2> QED BY <1>5, <2>1, <2>2, <2>3 DEF HeadersInv
<1>8. Chained'
  <2>1. \A l : Free(l)' = Free(l)
    BY <1>1, <1>5 DEF Free
  <2> SUFFICES ASSUME NEW l \in 0 .. ClassCount
               PROVE  \E n \in Nat : \E c \in [0 .. n -> Address] : Chain(l, n, c)'
    BY DEF Chained
  <2>2. PICK n \in Nat : \E c \in [0 .. n -> Address] : Chain(l, n, c)
    BY DEF HeapInv, Chained
  <2>3. PICK c \in [0 .. n -> Address] : Chain(l, n, c)
    BY <2>2
  <2>4. \A b \in Free(l) : blocks'[b].next = blocks[b].next
    BY <1>5 DEF Free
  <2> QED BY <1>1, <2>1, <2>3, <2>4, ChainFrame
<1> QED BY <1>6, <1>7, <1>8 DEF HeapInv

\* The steps of the stack.
LEMMA EnterType ==
  ASSUME TypeOK, NEW size \in FrameSizes, Enter(size)
  PROVE  /\ FrameEnd(size) \in Nat \ {0} /\ FrameEnd(size) < Modulus
         /\ stackPointer <= FrameEnd(size) /\ FrameEnd(size) <= TableBase
         /\ TypeOK'
<1>1. /\ FrameEnd(size) >= stackPointer /\ FrameEnd(size) <= TableBase
      /\ Cover(FrameEnd(size))
      /\ frames' = Append(frames, [base |-> stackPointer, end |-> FrameEnd(size)])
      /\ stackPointer' = FrameEnd(size)
      /\ UNCHANGED <<heapPointer, heads, blocks, owned, status>>
  BY DEF Enter
<1>2. stackPointer \in Nat /\ size \in Nat \ {0} /\ size < Modulus
  <2>1. size \in 1 .. Modulus - 1
    BY MemoryAssumption
  <2>2. stackPointer \in Nat
    BY DEF TypeOK
  <2> QED BY <2>1, <2>2, Sizes
<1>3. FrameEnd(size) \in Address
  BY <1>2, Wraps DEF FrameEnd
<1>4. FrameEnd(size) \in Nat /\ FrameEnd(size) < Modulus
  BY <1>3, Sizes DEF Address
<1>5. FrameEnd(size) # 0
  <2>1. CASE stackPointer = 0
    <3>1. FrameEnd(size) = size
      <4>1. stackPointer + size = size
        BY <1>2, <2>1
      <4> QED BY <1>2, <4>1, Wraps DEF FrameEnd
    <3> QED BY <1>2, <3>1
  <2>2. CASE stackPointer # 0
    BY <1>1, <1>2, <1>4, <2>2
  <2> QED BY <2>1, <2>2
<1> DEFINE end == FrameEnd(size)
<1> HIDE DEF end
<1>6. pages' \in 1 .. 2 ^ (WordBits - PageBits)
  BY <1>1, <1>4, <1>5, Covers DEF end
<1>7. frames' \in Seq([base : Nat, end : Address])
  BY <1>1, <1>2, <1>3 DEF TypeOK
<1>8. TypeOK'
  BY <1>1, <1>4, <1>6, <1>7 DEF TypeOK
<1> QED BY <1>1, <1>2, <1>4, <1>5, <1>8

LEMMA TrapType ==
  ASSUME TypeOK, NEW size, Overflow(size) \/ WrapTrap(size)
  PROVE  TypeOK'
<1>1. <<>> \in Seq([base : Nat, end : Address])
  OBVIOUS
<1>2. CASE Overflow(size)
  BY <1>1, <1>2, HeapBaseIs DEF TypeOK, Overflow
<1>3. CASE WrapTrap(size)
  BY <1>1, <1>3 DEF TypeOK, WrapTrap
<1> QED BY <1>2, <1>3

LEMMA PopIs ==
  ASSUME NEW S, NEW q \in Seq(S), q # <<>>, NEW p, p = SubSeq(q, 1, Len(q) - 1)
  PROVE  /\ Len(q) \in 1 .. Len(q) /\ q[Len(q)] \in S
         /\ p \in Seq(S) /\ Len(p) = Len(q) - 1 /\ Len(p) \in Nat
         /\ \A i \in 1 .. Len(p) : p[i] = q[i]
<1>1. Len(q) \in Nat /\ Len(q) # 0
  OBVIOUS
<1>2. Len(q) \in 1 .. Len(q) /\ q[Len(q)] \in S
  BY <1>1
<1>3. Len(q) - 1 \in Nat /\ \A i \in 1 .. Len(q) - 1 : q[i] \in S
  BY <1>1
<1>4. /\ p \in Seq(S) /\ Len(p) = IF 1 <= Len(q) - 1 THEN Len(q) - 1 - 1 + 1 ELSE 0
      /\ \A i \in 1 .. Len(q) - 1 - 1 + 1 : p[i] = q[1 + i - 1]
  BY <1>3, SubSeqProperties
<1>5. Len(p) = Len(q) - 1 /\ Len(p) \in Nat
  <2>1. \A n \in Nat : n # 0 => /\ (IF 1 <= n - 1 THEN n - 1 - 1 + 1 ELSE 0) = n - 1
                                /\ n - 1 \in Nat
    OBVIOUS
  <2> QED BY <1>1, <1>4, <2>1, Zenon
<1>6. ASSUME NEW i \in 1 .. Len(p) PROVE p[i] = q[i]
  <2>1. i \in 1 .. Len(q) - 1 - 1 + 1 /\ 1 + i - 1 = i
    BY <1>1, <1>5
  <2> QED BY <1>4, <2>1
<1> QED BY <1>2, <1>4, <1>5, <1>6

LEMMA LeaveType ==
  ASSUME TypeOK, Leave
  PROVE  /\ Len(frames) \in 1 .. Len(frames) /\ frames[Len(frames)] \in [base : Nat, end : Address]
         /\ Len(frames') = Len(frames) - 1
         /\ \A i \in 1 .. Len(frames') : frames'[i] = frames[i]
         /\ TypeOK'
<1>1. /\ frames # <<>> /\ stackPointer' = frames[Len(frames)].base
      /\ frames' = SubSeq(frames, 1, Len(frames) - 1)
      /\ UNCHANGED <<status, heapPointer, heads, blocks, owned, pages>>
  BY DEF Leave
<1>2. frames \in Seq([base : Nat, end : Address])
  BY DEF TypeOK
<1>3. /\ Len(frames) \in 1 .. Len(frames) /\ frames[Len(frames)] \in [base : Nat, end : Address]
      /\ Len(frames') = Len(frames) - 1
      /\ frames' \in Seq([base : Nat, end : Address])
      /\ \A i \in 1 .. Len(frames') : frames'[i] = frames[i]
  <2> DEFINE S == [base : Nat, end : Address]
  <2> HIDE DEF S
  <2>1. frames \in Seq(S) /\ frames # <<>> /\ frames' = SubSeq(frames, 1, Len(frames) - 1)
    BY <1>1, <1>2 DEF S
  <2>2. /\ Len(frames) \in 1 .. Len(frames) /\ frames[Len(frames)] \in S
        /\ frames' \in Seq(S) /\ Len(frames') = Len(frames) - 1
        /\ \A i \in 1 .. Len(frames') : frames'[i] = frames[i]
    BY <2>1, PopIs, Zenon
  <2> QED BY <2>2 DEF S
<1>4. stackPointer' \in Nat
  BY <1>1, <1>3
<1>5. TypeOK'
  BY <1>1, <1>3, <1>4 DEF TypeOK
<1> QED BY <1>3, <1>5

\* The invariant holds in every step.
LEMMA HeapStep == HeapInv /\ [Next]_vars => HeapInv'
<1> SUFFICES ASSUME HeapInv, [Next]_vars PROVE HeapInv'
  OBVIOUS
<1>1. TypeOK /\ HeadersInv /\ Chained
  BY DEF HeapInv
<1>2. ASSUME NEW r \in Layouts, Reuse(r) PROVE HeapInv'
  BY <1>2, ReuseHeap
<1>3. ASSUME NEW r \in Layouts, Carve(r) PROVE HeapInv'
  BY <1>3, CarveHeap
<1>4. ASSUME NEW b \in DOMAIN owned, Release(b) PROVE HeapInv'
  BY <1>4, ReleaseHeap
<1>5. ASSUME NEW size \in FrameSizes, Enter(size) PROVE HeapInv'
  <2>1. UNCHANGED <<heapPointer, heads, blocks, owned>>
    BY <1>5 DEF Enter
  <2>2. TypeOK'
    BY <1>1, <1>5, EnterType
  <2> QED BY <1>1, <2>1, <2>2, HeapFrame DEF HeapInv
<1>6. ASSUME NEW size \in FrameSizes, Overflow(size) \/ WrapTrap(size) PROVE HeapInv'
  <2>1. UNCHANGED <<heapPointer, heads, blocks, owned>>
    BY <1>6 DEF Overflow, WrapTrap
  <2>2. TypeOK'
    BY <1>1, <1>6, TrapType
  <2> QED BY <1>1, <2>1, <2>2, HeapFrame DEF HeapInv
<1>7. ASSUME Leave PROVE HeapInv'
  <2>1. UNCHANGED <<heapPointer, heads, blocks, owned>>
    BY <1>7 DEF Leave
  <2>2. TypeOK'
    BY <1>1, <1>7, LeaveType
  <2> QED BY <1>1, <2>1, <2>2, HeapFrame DEF HeapInv
<1>8. ASSUME UNCHANGED vars PROVE HeapInv'
  <2>1. TypeOK' /\ UNCHANGED <<heapPointer, heads, blocks, owned>>
    BY <1>1, <1>8 DEF vars, TypeOK
  <2> QED BY <1>1, <2>1, HeapFrame DEF HeapInv
<1> QED BY <1>2, <1>3, <1>4, <1>5, <1>6, <1>7, <1>8 DEF Next

LEMMA HeapHolds == Spec => []HeapInv
  BY HeapInit, HeapStep, PTL DEF Spec

\* The registers, the table and the headers stay words of the machine, and memory never grows past
\* the address space: every sum of heapAllocate and reserveFrame wraps, and is tested.
THEOREM Typing == Spec => []TypeOK
<1>1. HeapInv => TypeOK
  BY DEF HeapInv
<1> QED BY <1>1, HeapHolds, PTL

-----------------------------------------------------------------------------
\* The lists, walked from their heads.

LEMMA BlocksAreFinite ==
  ASSUME TypeOK
  PROVE  IsFiniteSet(DOMAIN blocks) /\ Cardinality(DOMAIN blocks) \in Nat
<1>1. IsFiniteSet(Address)
  BY Sizes, FS_Interval DEF Address
<1>2. DOMAIN blocks \in SUBSET Address
  BY DEF TypeOK
<1>3. IsFiniteSet(DOMAIN blocks)
  BY <1>1, <1>2, FS_Subset
<1> QED BY <1>3, FS_CardinalityType

LEMMA ChainIsShort ==
  ASSUME TypeOK, NEW l, NEW n \in Nat, NEW c \in [0 .. n -> Address], Chain(l, n, c)
  PROVE  n <= Cardinality(DOMAIN blocks)
<1> DEFINE d == [i \in 1 .. n |-> c[i]]
<1>1. \A i \in 1 .. n : c[i] \in DOMAIN blocks
  BY DEF Chain, Free
<1>2. d \in [1 .. n -> DOMAIN blocks]
  BY <1>1
<1>3. \A i, j \in 1 .. n : d[i] = d[j] => i = j
  BY DEF Chain
<1> HIDE DEF d
<1>4. d \in Injection(1 .. n, DOMAIN blocks)
  BY <1>2, <1>3 DEF Injection, IsInjective
<1>5. IsFiniteSet(DOMAIN blocks) /\ Cardinality(DOMAIN blocks) \in Nat
  BY BlocksAreFinite
<1>6. Cardinality(1 .. n) <= Cardinality(DOMAIN blocks)
  BY <1>4, <1>5, FS_Injection
<1>7. Cardinality(1 .. n) = n
  BY FS_Interval
<1> QED BY <1>6, <1>7

\* The walk of a list meets the blocks of its chain in order, and then 0.
LEMMA WalkIs ==
  ASSUME HeapInv, NEW size \in [0 .. ClassCount -> Nat], NEW chain,
         \A l \in 0 .. ClassCount : /\ chain[l] \in [0 .. size[l] -> Address]
                                    /\ Chain(l, size[l], chain[l])
  PROVE  \A k \in 0 .. Cardinality(DOMAIN blocks), l \in 0 .. ClassCount :
            After[k][l] = IF k <= size[l] THEN chain[l][size[l] - k] ELSE 0
<1> DEFINE N == Cardinality(DOMAIN blocks)
<1> DEFINE At(k) == [l \in 0 .. ClassCount |-> IF k <= size[l] THEN chain[l][size[l] - k] ELSE 0]
<1> DEFINE Next1(p) == [l \in 0 .. ClassCount |-> IF p[l] = 0 THEN 0 ELSE blocks[p[l]].next]
<1>1. N \in Nat /\ TypeOK
  BY BlocksAreFinite DEF HeapInv
<1>2. At(0) = heads
  <2>1. \A l \in 0 .. ClassCount : At(0)[l] = heads[l]
    BY DEF Chain
  <2>2. heads \in [0 .. ClassCount -> Address]
    BY <1>1 DEF TypeOK
  <2> QED BY <2>1, <2>2
<1>3. ASSUME NEW k \in 1 .. N PROVE At(k) = Next1(At(k - 1))
  <2> SUFFICES ASSUME NEW l \in 0 .. ClassCount
               PROVE  At(k)[l] = IF At(k - 1)[l] = 0 THEN 0 ELSE blocks[At(k - 1)[l]].next
    OBVIOUS
  <2> DEFINE n == size[l]
  <2> DEFINE c == chain[l]
  <2>1. n \in Nat /\ Chain(l, n, c)
    OBVIOUS
  <2>2. /\ At(k)[l] = IF k <= n THEN c[n - k] ELSE 0
        /\ At(k - 1)[l] = IF k - 1 <= n THEN c[n - (k - 1)] ELSE 0
    OBVIOUS
  <2> HIDE DEF n, c, At
  <2>3. CASE k <= n
    <3>1. n - (k - 1) \in 1 .. n /\ n - (k - 1) - 1 = n - k /\ k - 1 <= n
      BY <2>1, <2>3
    <3>2. /\ c[n - (k - 1)] \in Free(l)
          /\ blocks[c[n - (k - 1)]].next = c[n - k]
      BY <2>1, <3>1 DEF Chain
    <3>3. c[n - (k - 1)] # 0
      <4>1. HeapBase <= c[n - (k - 1)]
        BY <3>2 DEF Free, HeapInv, HeadersInv, Placed
      <4> QED BY <4>1, HeapBaseIs
    <3> QED BY <2>2, <2>3, <3>1, <3>2, <3>3
  <2>4. CASE ~(k <= n)
    <3>1. k - 1 <= n => n - (k - 1) = 0
      BY <2>1, <2>4
    <3>2. c[0] = 0
      BY <2>1 DEF Chain
    <3> QED BY <2>2, <2>4, <3>1, <3>2
  <2> QED BY <2>3, <2>4
<1> DEFINE F == [k \in 0 .. N |-> At(k)]
<1> HIDE DEF At, N
<1>4. F = [k \in 0 .. N |-> IF k = 0 THEN heads ELSE Next1(F[k - 1])]
  <2>1. \A k \in 0 .. N : F[k] = IF k = 0 THEN heads ELSE Next1(F[k - 1])
    <3> SUFFICES ASSUME NEW k \in 0 .. N
                 PROVE  F[k] = IF k = 0 THEN heads ELSE Next1(F[k - 1])
      OBVIOUS
    <3>1. CASE k = 0
      BY <1>2, <3>1
    <3>2. CASE k # 0
      <4>1. k \in 1 .. N /\ k - 1 \in 0 .. N
        BY <1>1, <3>2
      <4> QED BY <1>3, <3>2, <4>1
    <3> QED BY <3>1, <3>2
  <2> QED BY <2>1, Zenon
<1>5. After = [k \in 0 .. N |-> IF k = 0 THEN heads ELSE Next1(After[k - 1])]
  BY <1>4, Zenon DEF After, N
<1> HIDE DEF F, Next1
<1> DEFINE S == {k \in Nat : k \in 0 .. N => After[k] = F[k]}
<1>6. 0 \in S
  BY <1>4, <1>5
<1>7. ASSUME NEW k \in Nat, k \in S PROVE k + 1 \in S
  <2> SUFFICES ASSUME k + 1 \in 0 .. N PROVE After[k + 1] = F[k + 1]
    OBVIOUS
  <2>1. k \in 0 .. N /\ (k + 1) - 1 = k /\ k + 1 # 0
    BY <1>1
  <2>2. After[k] = F[k]
    BY <1>7, <2>1
  <2>3. After[k + 1] = Next1(After[k])
    BY <1>5, <2>1
  <2>4. F[k + 1] = Next1(F[k])
    BY <1>4, <2>1
  <2> QED BY <2>2, <2>3, <2>4
<1> HIDE DEF S
<1>8. Nat \subseteq S
  BY <1>6, <1>7, Induction
<1>9. \A k \in 0 .. N : After[k] = F[k]
  BY <1>1, <1>8 DEF S
<1> QED BY <1>9 DEF F, At, N

LEMMA ListsHold == HeapInv => EveryBlockIsOwnedOrListed
<1> SUFFICES ASSUME HeapInv PROVE EveryBlockIsOwnedOrListed
  OBVIOUS
<1> DEFINE N == Cardinality(DOMAIN blocks)
<1>1. TypeOK /\ N \in Nat
  BY BlocksAreFinite DEF HeapInv
<1> DEFINE size == [l \in 0 .. ClassCount |->
                      CHOOSE n \in Nat : \E c \in [0 .. n -> Address] : Chain(l, n, c)]
<1> DEFINE chain == [l \in 0 .. ClassCount |->
                       CHOOSE c \in [0 .. size[l] -> Address] : Chain(l, size[l], c)]
<1>2. \A l \in 0 .. ClassCount :
        size[l] \in Nat /\ \E c \in [0 .. size[l] -> Address] : Chain(l, size[l], c)
  BY DEF HeapInv, Chained
<1>3. size \in [0 .. ClassCount -> Nat]
  BY <1>2
<1> HIDE DEF size
<1>4. \A l \in 0 .. ClassCount : /\ chain[l] \in [0 .. size[l] -> Address]
                                 /\ Chain(l, size[l], chain[l])
  BY <1>2
<1> HIDE DEF chain, N
<1>5. \A k \in 0 .. N, l \in 0 .. ClassCount :
        After[k][l] = IF k <= size[l] THEN chain[l][size[l] - k] ELSE 0
  BY <1>1, <1>3, <1>4, WalkIs DEF N
<1>6. ASSUME NEW l \in 0 .. ClassCount
      PROVE  After[N][l] = 0 /\ Listed(l) = Free(l)
  <2> DEFINE n == size[l]
  <2> DEFINE c == chain[l]
  <2>1. n \in Nat /\ c \in [0 .. n -> Address] /\ Chain(l, n, c)
    BY <1>3, <1>4
  <2>2. n <= N
    BY <1>1, <2>1, ChainIsShort DEF N
  <2>3. \A k \in 0 .. N : After[k][l] = IF k <= n THEN c[n - k] ELSE 0
    BY <1>5
  <2> HIDE DEF n, c
  <2>4. c[0] = 0 /\ \A i \in 1 .. n : c[i] \in Free(l)
    BY <2>1 DEF Chain
  <2>5. After[N][l] = 0
    <3>1. N \in 0 .. N /\ (N <= n => n - N = 0)
      BY <1>1, <2>1, <2>2
    <3> QED BY <2>3, <2>4, <3>1
  <2>6. ASSUME NEW b \in Listed(l) PROVE b \in Free(l)
    <3>1. PICK k \in 0 .. N : b = After[k][l] /\ b # 0
      BY DEF Listed, N
    <3>2. k <= n /\ b = c[n - k] /\ n - k # 0
      BY <2>3, <2>4, <3>1
    <3>3. n - k \in 1 .. n
      BY <1>1, <2>1, <3>2
    <3> QED BY <2>4, <3>2, <3>3
  <2>7. ASSUME NEW b \in Free(l) PROVE b \in Listed(l)
    <3>1. PICK i \in 1 .. n : c[i] = b
      BY <2>1 DEF Chain
    <3>2. n - i \in 0 .. N /\ n - i <= n /\ n - (n - i) = i
      BY <1>1, <2>1, <2>2
    <3>3. After[n - i][l] = b
      BY <2>3, <3>1, <3>2
    <3>4. b # 0
      <4>1. HeapBase <= b
        BY DEF Free, HeapInv, HeadersInv, Placed
      <4> QED BY <4>1, HeapBaseIs
    <3> QED BY <3>2, <3>3, <3>4 DEF Listed, N
  <2> QED BY <2>5, <2>6, <2>7
<1>7. ASSUME NEW b \in DOMAIN blocks, b \notin DOMAIN owned
      PROVE  List(blocks[b].class) \in 0 .. ClassCount /\ b \in Free(List(blocks[b].class))
  BY <1>1, <1>7, ListIs DEF TypeOK, BlockHeader, Free
<1>8. DOMAIN owned \subseteq DOMAIN blocks
  BY <1>1 DEF TypeOK
<1>9. DOMAIN blocks = DOMAIN owned \cup UNION {Listed(l) : l \in 0 .. ClassCount}
  <2>1. ASSUME NEW l \in 0 .. ClassCount, NEW b \in Listed(l) PROVE b \in DOMAIN blocks
    BY <1>6, <2>1 DEF Free
  <2>2. ASSUME NEW b \in DOMAIN blocks, b \notin DOMAIN owned
        PROVE  \E l \in 0 .. ClassCount : b \in Listed(l)
    BY <1>6, <1>7, <2>2
  <2> QED BY <1>8, <2>1, <2>2
<1>10. \A l \in 0 .. ClassCount : \A b \in Listed(l) :
         b \in DOMAIN blocks \ DOMAIN owned /\ List(blocks[b].class) = l
  BY <1>6 DEF Free
<1> QED BY <1>6, <1>9, <1>10 DEF EveryBlockIsOwnedOrListed, N

\* A block that was carved has one owner or is on the one free list of its class, and every list
\* ends: heapAllocate and heapRelease lose no block and never hand one out twice.
THEOREM Lists == Spec => []EveryBlockIsOwnedOrListed
  BY HeapHolds, ListsHold, PTL

LEMMA ReuseStep ==
  ASSUME HeapInv, [Next]_vars, NEW c \in DOMAIN blocks', c \notin DOMAIN blocks,
         blocks'[c].class >= 0,
         NEW b \in DOMAIN blocks, blocks[b].class = blocks'[c].class
  PROVE  b \in DOMAIN owned
<1>1. PICK r \in Layouts : Carve(r)
  <2>1. ASSUME NEW r \in Layouts, Reuse(r) PROVE DOMAIN blocks' = DOMAIN blocks
    BY <2>1 DEF Reuse
  <2>2. ASSUME NEW o, Release(o) PROVE DOMAIN blocks' = DOMAIN blocks
    BY <2>2 DEF Release
  <2>3. ASSUME NEW size, Enter(size) \/ Overflow(size) \/ WrapTrap(size)
        PROVE  blocks' = blocks
    BY <2>3 DEF Enter, Overflow, WrapTrap
  <2>4. ASSUME Leave \/ UNCHANGED vars PROVE blocks' = blocks
    BY <2>4 DEF Leave, vars
  <2> QED BY <2>1, <2>2, <2>3, <2>4 DEF Next
<1>2. PICK block : CarvedAs(r, block)
  BY <1>1, CarveIs
<1>3. c = block /\ blocks'[c].class = Class(r) /\ ~HeadServes(r)
  BY <1>2 DEF CarvedAs
<1> DEFINE list == List(Class(r))
<1>4. heads[list] = 0
  BY <1>3 DEF HeadServes, FirstFree
<1>5. list \in 0 .. ClassCount
  BY ClassIs, ListIs
<1> HIDE DEF list
<1>6. Free(list) = {}
  BY <1>4, <1>5, EmptyIs
<1> QED BY <1>3, <1>6 DEF Free, list

\* A block of a size class is carved only when every block of that class has an owner: heapAllocate
\* looks at the head of the class before it carves, and heapRelease lost no block of it.
THEOREM Reused == Spec => ReleasedBlocksAreReused
<1>1. HeapInv /\ [Next]_vars =>
        [\A c \in DOMAIN blocks' \ DOMAIN blocks :
           blocks'[c].class >= 0 =>
             \A b \in DOMAIN blocks : blocks[b].class = blocks'[c].class => b \in DOMAIN owned]_vars
  BY ReuseStep
<1> QED BY <1>1, HeapHolds, PTL DEF Spec, ReleasedBlocksAreReused

-----------------------------------------------------------------------------
\* The frames are stacked between the static data and the table.
StackInv ==
  /\ StaticEnd <= stackPointer
  /\ \A i \in 1 .. Len(frames) :
       /\ StaticEnd <= frames[i].base /\ frames[i].base <= frames[i].end
       /\ frames[i].end <= TableBase /\ frames[i].end <= stackPointer
       /\ \A j \in 1 .. Len(frames) : i < j => frames[i].end <= frames[j].base

LEMMA FrameType ==
  ASSUME TypeOK, NEW i \in 1 .. Len(frames)
  PROVE  frames[i].base \in Nat /\ frames[i].end \in Nat
<1>1. frames[i] \in [base : Nat, end : Address]
  <2> DEFINE S == [base : Nat, end : Address]
  <2> HIDE DEF S
  <2>1. frames \in Seq(S)
    BY DEF TypeOK, S
  <2>2. frames[i] \in S
    BY <2>1
  <2> QED BY <2>2 DEF S
<1> QED BY <1>1, Sizes DEF Address

LEMMA StackStep == TypeOK /\ StackInv /\ [Next]_vars => StackInv'
<1> SUFFICES ASSUME TypeOK, StackInv, [Next]_vars PROVE StackInv'
  OBVIOUS
<1>1. stackPointer \in Nat /\ StaticEnd \in Nat /\ TableBase \in Nat /\ Len(frames) \in Nat
  BY HeapBaseIs DEF TypeOK
<1>2. ASSUME UNCHANGED <<stackPointer, frames>> PROVE StackInv'
  BY <1>2 DEF StackInv
<1>3. ASSUME NEW r \in Layouts, Reuse(r) \/ Carve(r) PROVE StackInv'
  BY <1>2, <1>3 DEF Reuse, Carve, stackVars
<1>4. ASSUME NEW b, Release(b) PROVE StackInv'
  BY <1>2, <1>4 DEF Release, stackVars
<1>5. ASSUME NEW size \in FrameSizes, Enter(size) PROVE StackInv'
  <2> DEFINE end == FrameEnd(size)
  <2>1. /\ end \in Nat /\ stackPointer <= end /\ end <= TableBase
        /\ frames' = Append(frames, [base |-> stackPointer, end |-> end])
        /\ stackPointer' = end
    BY <1>5, EnterType DEF Enter
  <2> HIDE DEF end
  <2>2. /\ Len(frames') = Len(frames) + 1
        /\ frames'[Len(frames) + 1] = [base |-> stackPointer, end |-> end]
        /\ \A i \in 1 .. Len(frames) : frames'[i] = frames[i]
    BY <2>1 DEF TypeOK
  <2>3. frames'[Len(frames) + 1].base = stackPointer /\ frames'[Len(frames) + 1].end = end
    BY <2>2
  <2>4. ASSUME NEW i \in 1 .. Len(frames') PROVE i = Len(frames) + 1 \/ i \in 1 .. Len(frames)
    BY <1>1, <2>2
  <2>5. ASSUME NEW i \in 1 .. Len(frames')
        PROVE  /\ StaticEnd <= frames'[i].base /\ frames'[i].base <= frames'[i].end
               /\ frames'[i].end <= TableBase /\ frames'[i].end <= end
    <3>1. CASE i = Len(frames) + 1
      BY <1>1, <2>1, <2>3, <3>1 DEF StackInv
    <3>2. CASE i \in 1 .. Len(frames)
      BY <1>1, <2>1, <2>2, <3>2, FrameType DEF StackInv
    <3> QED BY <2>4, <3>1, <3>2
  <2>6. ASSUME NEW i \in 1 .. Len(frames'), NEW j \in 1 .. Len(frames'), i < j
        PROVE  frames'[i].end <= frames'[j].base
    <3>1. i \in 1 .. Len(frames)
      BY <1>1, <2>2, <2>6
    <3>2. CASE j = Len(frames) + 1
      BY <2>2, <2>3, <3>1, <3>2 DEF StackInv
    <3>3. CASE j \in 1 .. Len(frames)
      BY <2>2, <2>6, <3>1, <3>3 DEF StackInv
    <3> QED BY <2>4, <3>2, <3>3
  <2>7. StaticEnd <= end
    BY <1>1, <2>1 DEF StackInv
  <2> QED BY <2>1, <2>5, <2>6, <2>7 DEF StackInv
<1>6. ASSUME NEW size, Overflow(size) PROVE StackInv'
  <2>1. frames' = <<>> /\ stackPointer' = StaticEnd
    BY <1>6 DEF Overflow
  <2>2. 1 .. Len(frames') = {}
    BY <2>1
  <2> QED BY <1>1, <2>1, <2>2 DEF StackInv
<1>7. ASSUME NEW size, WrapTrap(size) PROVE StackInv'
  <2>1. frames' = <<>> /\ stackPointer' = stackPointer
    BY <1>7 DEF WrapTrap
  <2>2. 1 .. Len(frames') = {}
    BY <2>1
  <2> QED BY <2>1, <2>2 DEF StackInv
<1>8. ASSUME Leave PROVE StackInv'
  <2> DEFINE n == Len(frames)
  <2>1. /\ n \in 1 .. n /\ Len(frames') = n - 1 /\ stackPointer' = frames[n].base
        /\ \A i \in 1 .. Len(frames') : frames'[i] = frames[i]
    BY <1>8, LeaveType DEF Leave
  <2> HIDE DEF n
  <2>2. \A i \in 1 .. Len(frames') : i \in 1 .. n /\ i < n
    BY <1>1, <2>1 DEF n
  <2>3. \A i \in 1 .. Len(frames') : frames'[i].end <= stackPointer'
    BY <2>1, <2>2 DEF StackInv, n
  <2> QED BY <2>1, <2>2, <2>3 DEF StackInv, n
<1>9. ASSUME UNCHANGED vars PROVE StackInv'
  BY <1>2, <1>9 DEF vars
<1> QED BY <1>3, <1>4, <1>5, <1>6, <1>7, <1>8, <1>9 DEF Next

LEMMA StackHolds == Spec => []StackInv
<1>1. Init => StackInv
  <2> SUFFICES ASSUME Init PROVE StackInv
    OBVIOUS
  <2>1. stackPointer = StaticEnd /\ frames = <<>> /\ StaticEnd \in Nat
    BY HeapBaseIs DEF Init
  <2>2. 1 .. Len(frames) = {}
    BY <2>1
  <2> QED BY <2>1, <2>2 DEF StackInv
<1>2. HeapInv => TypeOK
  BY DEF HeapInv
<1> QED BY <1>1, <1>2, HeapHolds, StackStep, PTL DEF Spec

\* What an owner asked for is held by its block, and the block is aligned for it.
OwnersInv ==
  \A b \in DOMAIN owned :
    /\ Multiple(b + Header, owned[b].alignment)
    /\ owned[b].bytes <= blocks[b].capacity

LEMMA OwnersStep == HeapInv /\ OwnersInv /\ [Next]_vars => OwnersInv'
<1> SUFFICES ASSUME HeapInv, OwnersInv, [Next]_vars PROVE OwnersInv'
  OBVIOUS
<1>1. DOMAIN owned \subseteq DOMAIN blocks
  BY DEF HeapInv, TypeOK
<1>2. ASSUME NEW r \in Layouts, Reuse(r) PROVE OwnersInv'
  <2> DEFINE f == FirstFree(r)
  <2>1. /\ r.bytes <= blocks[f].capacity /\ Multiple(f + Header, r.alignment)
        /\ f \in DOMAIN blocks
    BY <1>2, ReuseIs DEF Free
  <2>2. /\ blocks' = [blocks EXCEPT ![f].next = 0]
        /\ owned' = [b \in DOMAIN owned \cup {f} |-> IF b = f THEN r ELSE owned[b]]
    BY <1>2 DEF Reuse
  <2> HIDE DEF f
  <2>3. \A b \in DOMAIN blocks : blocks'[b].capacity = blocks[b].capacity
    BY <2>1, <2>2 DEF HeapInv, TypeOK, BlockHeader
  <2> QED BY <1>1, <2>1, <2>2, <2>3 DEF OwnersInv
<1>3. ASSUME NEW r \in Layouts, Carve(r) PROVE OwnersInv'
  <2>1. PICK block : CarvedAs(r, block)
    BY <1>3, CarveIs
  <2>2. /\ block \notin DOMAIN blocks /\ block + Header = Payload(r)
        /\ blocks' = [b \in DOMAIN blocks \cup {block} |->
                        IF b = block
                        THEN [capacity |-> Capacity(r), class |-> Class(r), next |-> 0]
                        ELSE blocks[b]]
        /\ owned' = [b \in DOMAIN owned \cup {block} |-> IF b = block THEN r ELSE owned[b]]
    BY <2>1 DEF CarvedAs
  <2>3. Multiple(Payload(r), r.alignment)
    BY <2>1, PlaceIs DEF CarvedAs, HeapInv, HeadersInv
  <2>4. r.bytes <= Capacity(r)
    BY ClassIs
  <2>5. \A b \in DOMAIN owned : b # block /\ blocks'[b] = blocks[b]
    BY <1>1, <2>2
  <2>6. blocks'[block].capacity = Capacity(r)
    BY <2>2
  <2> QED BY <1>1, <2>2, <2>3, <2>4, <2>5, <2>6 DEF OwnersInv
<1>4. ASSUME NEW o \in DOMAIN owned, Release(o) PROVE OwnersInv'
  <2>1. \A b \in DOMAIN blocks : blocks'[b].capacity = blocks[b].capacity
    BY <1>4 DEF Release, HeapInv, TypeOK, BlockHeader
  <2>2. owned' = [b \in DOMAIN owned \ {o} |-> owned[b]]
    BY <1>4 DEF Release
  <2> QED BY <1>1, <2>1, <2>2 DEF OwnersInv
<1>5. ASSUME UNCHANGED <<blocks, owned>> PROVE OwnersInv'
  BY <1>5 DEF OwnersInv
<1>6. ASSUME NEW size, Enter(size) \/ Overflow(size) \/ WrapTrap(size) PROVE OwnersInv'
  BY <1>5, <1>6 DEF Enter, Overflow, WrapTrap
<1>7. ASSUME Leave \/ UNCHANGED vars PROVE OwnersInv'
  BY <1>5, <1>7 DEF Leave, vars
<1> QED BY <1>2, <1>3, <1>4, <1>6, <1>7 DEF Next

\* The blocks lie one above the other, below the heap pointer and in mapped memory.
End(b) == b + Header + blocks[b].capacity
Fits(b) == End(b) <= heapPointer /\ End(b) <= pages * Page
FitInv ==
  \A b \in DOMAIN blocks : /\ Fits(b)
                           /\ \A c \in DOMAIN blocks : b < c => End(b) <= c

LEMMA EndIs ==
  ASSUME HeapInv, NEW b \in DOMAIN blocks
  PROVE  /\ b \in Nat /\ HeapBase <= b /\ blocks[b].capacity \in Nat /\ End(b) \in Nat
         /\ b <= End(b)
<1>1. b \in Nat /\ HeapBase <= b
  BY DEF HeapInv, HeadersInv, Placed
<1>2. blocks[b].capacity \in Nat
  BY Sizes DEF HeapInv, TypeOK, BlockHeader, Address
<1> QED BY <1>1, <1>2, Sizes DEF End

LEMMA MappedIs ==
  ASSUME TypeOK, NEW end \in Nat \ {0}, end < Modulus, Cover(end)
  PROVE  /\ pages * Page \in Nat /\ pages' * Page \in Nat
         /\ pages * Page <= pages' * Page /\ end <= pages' * Page
<1>1. /\ pages' \in 1 .. 2 ^ (WordBits - PageBits)
      /\ pages <= pages' /\ end <= pages' * Page
  BY Covers
<1>2. pages \in Nat /\ pages' \in Nat /\ Page \in Nat
  <2>1. pages \in 1 .. 2 ^ (WordBits - PageBits)
    BY DEF TypeOK
  <2> QED BY <1>1, <2>1, Sizes
<1>3. \A i, j \in Nat : i * j \in Nat
  OBVIOUS
<1> QED BY <1>1, <1>2, <1>3, ProductMonotone

LEMMA CapacityFits ==
  ASSUME LayoutsFit, NEW r \in Layouts
  PROVE  Capacity(r) + Header <= Modulus /\ Capacity(r) \in Nat
<1>1. Class(r) \in -1 .. ClassCount - 1 /\ ClassCount \in Nat
  BY ClassIs, Sizes
<1>2. CASE Class(r) >= 0
  BY <1>2, ClassIs, Sizes DEF Address
<1>3. CASE Class(r) = -1
  BY <1>3, ClassIs, LayoutType DEF LayoutsFit
<1> QED BY <1>1, <1>2, <1>3

LEMMA FitStep == ASSUME LayoutsFit PROVE HeapInv /\ FitInv /\ [Next]_vars => FitInv'
<1> SUFFICES ASSUME HeapInv, FitInv, [Next]_vars PROVE FitInv'
  OBVIOUS
<1>1. TypeOK /\ heapPointer \in Nat
  BY DEF HeapInv, TypeOK
<1>2. ASSUME UNCHANGED <<heapPointer, pages>>, DOMAIN blocks' = DOMAIN blocks,
             \A b \in DOMAIN blocks : blocks'[b].capacity = blocks[b].capacity
      PROVE  FitInv'
  BY <1>2 DEF FitInv, Fits, End
<1>3. ASSUME NEW r \in Layouts, Reuse(r) PROVE FitInv'
  <2>1. FirstFree(r) \in DOMAIN blocks
    BY <1>3, ReuseIs DEF Free
  <2> QED BY <1>2, <1>3, <2>1 DEF Reuse, HeapInv, TypeOK, BlockHeader
<1>4. ASSUME NEW r \in Layouts, Carve(r) PROVE FitInv'
  <2>1. PICK block : CarvedAs(r, block)
    BY <1>4, CarveIs
  <2>2. /\ block \in Nat /\ heapPointer <= block /\ block + Header = Payload(r)
        /\ block \notin DOMAIN blocks
        /\ blocks' = [b \in DOMAIN blocks \cup {block} |->
                        IF b = block
                        THEN [capacity |-> Capacity(r), class |-> Class(r), next |-> 0]
                        ELSE blocks[b]]
        /\ heapPointer' = Down(Reach(r), Header) /\ Cover(heapPointer') /\ Representable(r)
        /\ heapPointer' \in HeapBase .. Modulus - Header
    BY <2>1 DEF CarvedAs
  <2>3. Capacity(r) + Header <= Modulus /\ Capacity(r) \in Nat
    BY CapacityFits
  <2>4. Payload(r) + Capacity(r) <= heapPointer'
    BY <2>2, <2>3, PlaceIs DEF HeapInv, HeadersInv
  <2>5. heapPointer' \in Nat \ {0} /\ heapPointer' < Modulus /\ heapPointer <= heapPointer'
    <3>1. heapPointer' \in Nat \ {0} /\ heapPointer' < Modulus
      BY <2>2, HeapBaseIs, Sizes
    <3> QED BY <1>1, <2>2, <2>3, <2>4, <3>1, Sizes
  <2>6. /\ pages * Page \in Nat /\ pages' * Page \in Nat
        /\ pages * Page <= pages' * Page /\ heapPointer' <= pages' * Page
    BY <1>1, <2>2, <2>5, MappedIs
  <2>7. /\ DOMAIN blocks' = DOMAIN blocks \cup {block}
        /\ \A b \in DOMAIN blocks : End(b)' = End(b)
        /\ blocks'[block].capacity = Capacity(r)
    BY <2>2 DEF End
  <2>8. ASSUME NEW b \in DOMAIN blocks
        PROVE  /\ Fits(b)' /\ End(b)' <= block
               /\ \A c \in DOMAIN blocks : b < c => End(b)' <= c
    <3>1. End(b) \in Nat /\ End(b) <= heapPointer /\ End(b) <= pages * Page
      BY EndIs DEF FitInv, Fits
    <3>2. End(b) <= heapPointer' /\ End(b) <= pages' * Page /\ End(b) <= block
      BY <1>1, <2>2, <2>5, <2>6, <3>1
    <3> QED BY <2>7, <3>2 DEF Fits, FitInv
  <2>9. block + Header + Capacity(r) <= heapPointer' /\ block + Header + Capacity(r) \in Nat
    BY <2>2, <2>3, <2>4, Sizes
  <2>10. Fits(block)'
    <3>1. block + Header + Capacity(r) <= pages' * Page
      BY <2>5, <2>6, <2>9
    <3> QED BY <2>7, <2>9, <3>1 DEF Fits, End
  <2>11. \A c \in DOMAIN blocks : ~(block < c)
    <3> SUFFICES ASSUME NEW c \in DOMAIN blocks PROVE ~(block < c)
      OBVIOUS
    <3>1. c \in Nat /\ End(c) \in Nat /\ c <= End(c) /\ End(c) <= heapPointer
      BY EndIs DEF FitInv, Fits
    <3> QED BY <1>1, <2>2, <3>1
  <2>12. ASSUME NEW b \in DOMAIN blocks' PROVE Fits(b)'
    BY <2>7, <2>8, <2>10
  <2>13. ASSUME NEW b \in DOMAIN blocks', NEW c \in DOMAIN blocks', b < c PROVE End(b)' <= c
    <3>1. CASE b = block
      BY <2>2, <2>7, <2>11, <2>13, <3>1
    <3>2. CASE b \in DOMAIN blocks
      BY <2>7, <2>8, <2>13, <3>2
    <3> QED BY <2>7, <3>1, <3>2
  <2> QED BY <2>12, <2>13 DEF FitInv
<1>5. ASSUME NEW o \in DOMAIN owned, Release(o) PROVE FitInv'
  BY <1>2, <1>5 DEF Release, HeapInv, TypeOK, BlockHeader
<1>6. ASSUME NEW size \in FrameSizes, Enter(size) PROVE FitInv'
  <2> DEFINE end == FrameEnd(size)
  <2>1. end \in Nat \ {0} /\ end < Modulus /\ Cover(end) /\ UNCHANGED <<heapPointer, blocks>>
    BY <1>1, <1>6, EnterType DEF Enter
  <2> HIDE DEF end
  <2>2. pages * Page \in Nat /\ pages' * Page \in Nat /\ pages * Page <= pages' * Page
    BY <1>1, <2>1, MappedIs
  <2>3. ASSUME NEW b \in DOMAIN blocks PROVE Fits(b)'
    <3>1. End(b) \in Nat /\ End(b) <= heapPointer /\ End(b) <= pages * Page
      BY EndIs DEF FitInv, Fits
    <3>2. End(b) <= pages' * Page /\ End(b)' = End(b)
      BY <2>1, <2>2, <3>1 DEF End
    <3> QED BY <2>1, <3>1, <3>2 DEF Fits
  <2>4. \A b \in DOMAIN blocks : End(b)' = End(b)
    BY <2>1 DEF End
  <2> QED BY <2>1, <2>3, <2>4 DEF FitInv
<1>7. ASSUME NEW size, Overflow(size) \/ WrapTrap(size) PROVE FitInv'
  BY <1>2, <1>7 DEF Overflow, WrapTrap
<1>8. ASSUME Leave \/ UNCHANGED vars PROVE FitInv'
  BY <1>2, <1>8 DEF Leave, vars
<1> QED BY <1>3, <1>4, <1>5, <1>6, <1>7, <1>8 DEF Next

LEMMA FitHolds == ASSUME LayoutsFit PROVE Spec => [](OwnersInv /\ FitInv)
<1>1. Init => OwnersInv /\ FitInv
  BY DEF Init, OwnersInv, FitInv
<1> QED BY <1>1, HeapHolds, OwnersStep, FitStep, PTL DEF Spec

\* An owner has a block that is aligned for its layout, holds its bytes, and lies in mapped memory:
\* heapAllocate tests each sum of a fresh block for a wrap, and measures the head it reuses when
\* the list is not one of a class.  The hypothesis is that no layout ends within a header of the
\* end of the address space, where heapAllocate's last sum wraps past its own test.
THEOREM Served == ASSUME LayoutsFit PROVE Spec => []OwnersAreServed
<1>1. HeapInv /\ OwnersInv /\ FitInv => OwnersAreServed
  <2> SUFFICES ASSUME HeapInv, OwnersInv, FitInv, NEW b \in DOMAIN owned
               PROVE  /\ (b + Header) % owned[b].alignment = 0
                      /\ owned[b].bytes <= blocks[b].capacity
                      /\ b + Header + owned[b].bytes <= pages * Page
    BY DEF OwnersAreServed
  <2>1. b \in DOMAIN blocks /\ owned[b] \in Layouts
    BY DEF HeapInv, TypeOK
  <2>2. b \in Nat /\ blocks[b].capacity \in Nat /\ End(b) \in Nat
    BY <2>1, EndIs
  <2>3. owned[b].bytes \in Nat /\ owned[b].alignment \in Nat \ {0}
    BY <2>1, LayoutType, PowersDivide
  <2>4. /\ Multiple(b + Header, owned[b].alignment)
        /\ owned[b].bytes <= blocks[b].capacity
    BY DEF OwnersInv
  <2>5. (b + Header) % owned[b].alignment = 0
    <3>1. b + Header \in Nat
      BY <2>2, Sizes
    <3> QED BY <2>3, <2>4, <3>1, MultipleIs
  <2>6. b + Header + owned[b].bytes <= End(b)
    BY <2>2, <2>3, <2>4, Sizes DEF End
  <2>7. End(b) <= pages * Page /\ pages * Page \in Nat
    <3>1. pages \in Nat /\ Page \in Nat
      BY Sizes DEF HeapInv, TypeOK
    <3>2. \A i, j \in Nat : i * j \in Nat
      OBVIOUS
    <3> QED BY <2>1, <3>1, <3>2 DEF FitInv, Fits
  <2>8. b + Header + owned[b].bytes \in Nat
    BY <2>2, <2>3, Sizes
  <2> QED BY <2>2, <2>4, <2>5, <2>6, <2>7, <2>8
<1> QED BY <1>1, HeapHolds, FitHolds, PTL

\* heapAllocate refuses a request only when its block would cross the end of the address space:
\* its two tests on sums that wrap decide exactly what the same sums without a width would.
THEOREM RefusedOnlyWhenFull ==
  ASSUME LayoutsFit
  PROVE  Spec => [](\A r \in Layouts : Representable(r) <=> ExactReach(r) < Modulus)
<1>1. HeapInv => \A r \in Layouts : Representable(r) <=> ExactReach(r) < Modulus
  <2> SUFFICES ASSUME HeapInv, NEW r \in Layouts
               PROVE  Representable(r) <=> ExactReach(r) < Modulus
    OBVIOUS
  <2> QED BY CapacityFits, RefusalIs DEF HeapInv, HeadersInv
<1> QED BY <1>1, HeapHolds, PTL

\* Live data never overlaps: the frames lie between the static data and the table of the
\* allocator, one above the other, and the blocks lie above the table, one above the other.  The
\* hypotheses are the one of Served, and that the static data ends below the table: the compiler
\* does not test that, and without it data are overwritten by blocks (run WasmStaticData).
THEOREM Disjoint ==
  ASSUME LayoutsFit, StaticEnd <= TableBase
  PROVE  Spec => []LiveDataIsDisjoint
<1>1. HeapInv /\ StackInv /\ FitInv => LiveDataIsDisjoint
  <2> SUFFICES ASSUME HeapInv, StackInv, FitInv PROVE LiveDataIsDisjoint
    OBVIOUS
  <2>1. TypeOK /\ TableBase \in Nat /\ TableBase < HeapBase /\ HeapBase \in Nat
        /\ StaticEnd \in Nat
    BY HeapBaseIs DEF HeapInv
  <2>2. ASSUME NEW b \in DOMAIN blocks
        PROVE  b \in Nat /\ HeapBase <= b /\ End(b) \in Nat
               /\ BlockExtent(b) = b .. End(b) - 1
    <3>1. /\ b \in Nat /\ HeapBase <= b /\ End(b) \in Nat /\ blocks[b].capacity \in Nat
          /\ Header \in Nat
      BY EndIs, Sizes
    <3>2. b + Header + blocks[b].capacity - 1 = End(b) - 1
      BY <3>1 DEF End
    <3> QED BY <3>1, <3>2 DEF BlockExtent
  <2>3. ASSUME NEW i \in 1 .. Len(frames), NEW b \in DOMAIN blocks,
               NEW x \in FrameExtent(i), x \in BlockExtent(b)
        PROVE  FALSE
    <3>1. frames[i].base \in Nat /\ frames[i].end \in Nat /\ frames[i].end <= TableBase
      BY <2>1, FrameType DEF StackInv
    <3>2. x \in frames[i].base .. frames[i].end - 1 /\ x \in b .. End(b) - 1
      BY <2>2, <2>3 DEF FrameExtent
    <3> QED BY <2>1, <2>2, <3>1, <3>2
  <2>4. ASSUME NEW b \in DOMAIN blocks, NEW c \in DOMAIN blocks, b < c, NEW x \in BlockExtent(b),
               x \in BlockExtent(c)
        PROVE  FALSE
    <3>1. End(b) <= c
      BY <2>4 DEF FitInv
    <3>2. x \in b .. End(b) - 1 /\ x \in c .. End(c) - 1
      BY <2>2, <2>4
    <3> QED BY <2>2, <3>1, <3>2
  <2>5. ASSUME NEW b \in DOMAIN blocks, NEW c \in DOMAIN blocks, b # c
        PROVE  BlockExtent(b) \cap BlockExtent(c) = {}
    <3>1. b < c \/ c < b
      BY <2>2, <2>5
    <3> QED BY <2>4, <3>1
  <2>6. \A b \in DOMAIN blocks : b >= StaticEnd /\ b >= HeapBase
    BY <2>1, <2>2
  <2>7. \A b \in DOMAIN blocks : b + Header + blocks[b].capacity <= heapPointer
    BY DEF FitInv, Fits, End
  <2>8. ASSUME NEW i \in 1 .. Len(frames)
        PROVE  /\ frames[i].base >= StaticEnd /\ frames[i].end <= TableBase
               /\ \A j \in 1 .. Len(frames) : i < j => frames[i].end <= frames[j].base
    BY <2>1, FrameType DEF StackInv
  <2> QED BY <2>3, <2>5, <2>6, <2>7, <2>8 DEF LiveDataIsDisjoint
<1> QED BY <1>1, HeapHolds, StackHolds, FitHolds, PTL
=============================================================================
