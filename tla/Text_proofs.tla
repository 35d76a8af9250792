---------------------------- MODULE Text_proofs ----------------------------
(***************************************************************************)
(* Theorems about the two readers of texts: SseParser, for all streams and *)
(* chunks, and RequestEdits, for all .http files, commands and changes.    *)
(***************************************************************************)
EXTENDS SseParser, RequestEdits, Integers, FiniteSetTheorems, WellFoundedInduction,
        SequenceTheorems, TLAPS

----------------------------------------------------------------------------
(* Numbers in ascending order.                                             *)

UpTo(E, x) == {d \in E : d <= x}
Rank(E, x) == Cardinality(UpTo(E, x))

\* A greater element has a greater rank.
LEMMA RanksGrow ==
  ASSUME NEW E \in SUBSET Int, IsFiniteSet(E), NEW x \in E, NEW y \in E, x < y
  PROVE  Rank(E, x) < Rank(E, y)
<1>1. UpTo(E, x) \subseteq UpTo(E, y) /\ UpTo(E, x) # UpTo(E, y)
  <2>1. \A d \in E : d \in Int /\ (d <= x => d <= y)
    OBVIOUS
  <2>2. y \in UpTo(E, y) /\ y \notin UpTo(E, x)
    BY DEF UpTo
  <2> QED
    BY <2>1, <2>2 DEF UpTo
<1>2. IsFiniteSet(UpTo(E, y))
  BY FS_Subset DEF UpTo
<1>3. /\ Rank(E, x) <= Rank(E, y) /\ Rank(E, x) # Rank(E, y)
  BY <1>1, <1>2, FS_Subset DEF Rank
<1>4. IsFiniteSet(UpTo(E, x)) /\ Rank(E, x) \in Int /\ Rank(E, y) \in Int
  BY <1>1, <1>2, FS_Subset, FS_CardinalityType DEF Rank
<1> QED
  BY <1>3, <1>4

LEMMA RankBounds ==
  ASSUME NEW E \in SUBSET Int, IsFiniteSet(E), NEW x \in E
  PROVE  Rank(E, x) \in 1..Cardinality(E)
<1>1. /\ IsFiniteSet(UpTo(E, x)) /\ UpTo(E, x) # {}
      /\ Cardinality(UpTo(E, x)) <= Cardinality(E)
  BY FS_Subset DEF UpTo
<1>2. Cardinality(UpTo(E, x)) \in Nat /\ Cardinality(UpTo(E, x)) # 0
  BY <1>1, FS_CardinalityType, FS_EmptySet
<1>3. Cardinality(E) \in Nat
  BY FS_CardinalityType
<1> QED
  BY <1>1, <1>2, <1>3 DEF Rank

\* Every rank is that of one element.
LEMMA Ranked ==
  ASSUME NEW E \in SUBSET Int, IsFiniteSet(E), NEW k \in 1..Cardinality(E)
  PROVE  /\ InOrder(E)[k] \in E
         /\ Rank(E, InOrder(E)[k]) = k
         /\ \A e \in E : Rank(E, e) = k => e = InOrder(E)[k]
<1> DEFINE n == Cardinality(E)
           f == [e \in E |-> Rank(E, e)]
<1>1. n \in Nat /\ IsFiniteSet(1..n) /\ Cardinality(1..n) = n
  BY FS_CardinalityType, FS_Interval
<1>2. f \in [E -> 1..n]
  BY RankBounds
<1>3. \A x, y \in E : x # y => f[x] # f[y]
  <2> SUFFICES ASSUME NEW x \in E, NEW y \in E, x < y
               PROVE  f[x] # f[y]
    OBVIOUS
  <2>1. Rank(E, x) \in Int /\ Rank(E, y) \in Int /\ Rank(E, x) < Rank(E, y)
    BY RanksGrow, RankBounds
  <2> QED
    BY <2>1
<1> HIDE DEF f
<1>4. f \in Injection(E, 1..n)
  BY <1>2, <1>3 DEF Injection, IsInjective
<1>5. f \in Surjection(E, 1..n)
  BY <1>1, <1>4, FS_Injection
<1>6. PICK e \in E : f[e] = k
  BY <1>5 DEF Surjection
<1>7. \A d \in E : Rank(E, d) = k <=> d = e
  BY <1>3, <1>6 DEF f
<1>8. InOrder(E)[k] = CHOOSE d \in E : Rank(E, d) = k
  BY DEF InOrder, Rank, UpTo
<1> QED
  BY <1>6, <1>7, <1>8

\* One more number, greater than all, comes last.
LEMMA InOrderThen ==
  ASSUME NEW E \in SUBSET Int, IsFiniteSet(E), NEW x \in Int,
         \A e \in E : e < x
  PROVE  /\ Cardinality(E \cup {x}) = Cardinality(E) + 1
         /\ IsFiniteSet(E \cup {x})
         /\ InOrder(E \cup {x})[Cardinality(E) + 1] = x
         /\ \A k \in 1..Cardinality(E) : InOrder(E \cup {x})[k] = InOrder(E)[k]
<1> DEFINE n == Cardinality(E)
           F == E \cup {x}
<1>1. /\ n \in Nat /\ IsFiniteSet(F) /\ Cardinality(F) = n + 1
      /\ F \in SUBSET Int /\ x \notin E
  BY FS_CardinalityType, FS_AddElement
<1>2. UpTo(F, x) = F /\ Rank(F, x) = n + 1
  <2>1. \A d \in F : d \in Int /\ d <= x
    OBVIOUS
  <2> QED
    BY <1>1, <2>1 DEF UpTo, Rank
<1>3. ASSUME NEW e \in E PROVE Rank(F, e) = Rank(E, e)
  <2>1. UpTo(F, e) = UpTo(E, e)
    BY DEF UpTo
  <2> QED
    BY <2>1 DEF Rank
<1>4. InOrder(F)[n + 1] = x
  BY <1>1, <1>2, Ranked
<1>5. ASSUME NEW k \in 1..n PROVE InOrder(F)[k] = InOrder(E)[k]
  <2>1. InOrder(E)[k] \in E /\ Rank(E, InOrder(E)[k]) = k
    BY Ranked
  <2>2. PICK d : d = InOrder(E)[k]
    OBVIOUS
  <2>3. Rank(F, d) = k /\ d \in F
    BY <1>3, <2>1, <2>2
  <2>5. k \in 1..Cardinality(F)
    <3> HIDE DEF F
    <3> QED
      BY <1>1
  <2>4. d = InOrder(F)[k]
    BY <1>1, <2>3, <2>5, Ranked
  <2> QED
    BY <2>2, <2>4
<1> QED
  BY <1>1, <1>4, <1>5

\* There is a least number in every set of numbers, and a greatest in every
\* bounded one.
LEMMA LeastNumber ==
  ASSUME NEW T, T \subseteq Nat, T # {}
  PROVE  \E x \in T : \A y \in T : x <= y
<1> DEFINE R == OpToRel(<, Nat)
<1>1. PICK x \in T : \A y \in T : ~(<<y, x>> \in R)
  BY WFMin, NatLessThanWellFounded
<1>2. \A y \in T : ~(y < x)
  BY <1>1 DEF OpToRel
<1>3. \A y \in T : y \in Nat /\ x \in Nat
  OBVIOUS
<1> QED
  BY <1>2, <1>3

LEMMA MaxOf ==
  ASSUME NEW n \in Nat, NEW J \in SUBSET (0..n), J # {}
  PROVE  /\ Max(J) \in J /\ Max(J) \in 0..n
         /\ \A j \in J : Max(J) >= j
<1> DEFINE D == {n - j : j \in J}
<1>1. D \subseteq Nat /\ D # {}
  <2>1. \A j \in J : j \in 0..n /\ n - j \in Nat
    OBVIOUS
  <2>2. PICK j \in J : TRUE
    OBVIOUS
  <2>3. n - j \in D
    OBVIOUS
  <2> QED
    BY <2>1, <2>3
<1>2. PICK d \in D : \A y \in D : d <= y
  BY <1>1, LeastNumber
<1>3. PICK m \in J : d = n - m
  OBVIOUS
<1>4. \A j \in J : m >= j
  <2>1. ASSUME NEW j \in J PROVE m >= j
    <3>1. n - j \in D
      OBVIOUS
    <3>2. n - m <= n - j /\ m \in Int /\ j \in Int
      BY <1>2, <1>3, <3>1
    <3> QED
      BY <3>2
  <2> QED
    BY <2>1
<1> HIDE DEF D
<1>5. Max(J) \in J /\ \A j \in J : Max(J) >= j
  BY <1>4 DEF Max
<1> QED
  BY <1>5

\* A greatest element is the only one.
LEMMA MaxIs ==
  ASSUME NEW n \in Nat, NEW J \in SUBSET (0..n), NEW m \in J,
         \A j \in J : j <= m
  PROVE  Max(J) = m
<1>1. Max(J) \in J /\ Max(J) \in 0..n /\ Max(J) >= m
  BY MaxOf
<1>2. Max(J) <= m /\ m \in 0..n
  BY <1>1
<1> QED
  BY <1>1, <1>2

----------------------------------------------------------------------------
(* Lines.                                                                  *)

LEMMA SubSeqSame ==
  ASSUME NEW S, NEW u \in Seq(S), NEW v \in Seq(S), NEW a \in Nat \ {0},
         NEW b \in Int, b <= Len(u), b <= Len(v), \A i \in a..b : u[i] = v[i]
  PROVE  SubSeq(u, a, b) = SubSeq(v, a, b)
<1>1. CASE b < a
  BY <1>1, SubSeqEmpty
<1>2. CASE a <= b
  <2>1. \A i \in a..b : u[i] \in S /\ v[i] \in S
    BY ElementOfSeq
  <2>2. /\ SubSeq(u, a, b) \in Seq(S) /\ SubSeq(v, a, b) \in Seq(S)
        /\ Len(SubSeq(u, a, b)) = b - a + 1 /\ Len(SubSeq(v, a, b)) = b - a + 1
    BY <1>2, <2>1, SubSeqProperties
  <2>3. \A i \in 1..b - a + 1 : /\ SubSeq(u, a, b)[i] = u[a + i - 1]
                                /\ SubSeq(v, a, b)[i] = v[a + i - 1]
    BY <1>2, <2>1, SubSeqProperties
  <2>4. \A i \in 1..b - a + 1 : u[a + i - 1] = v[a + i - 1]
    BY <1>2
  <2> QED
    BY <2>2, <2>3, <2>4, SeqEqual
<1> QED
  BY <1>1, <1>2

\* Where the line starts that ends before a position.
LEMMA StartOf ==
  ASSUME NEW t, NEW e \in Nat \ {0}
  PROVE  /\ LineStart(t, e) \in 1..e
         /\ LineStart(t, e) = 1 \/ Terminates(t, LineStart(t, e) - 1)
         /\ \A j \in LineStart(t, e)..e - 1 : ~Terminates(t, j)
         /\ \A j \in 1..e - 1 : Terminates(t, j) => j < LineStart(t, e)
<1> DEFINE J == {0} \cup {j \in 1..e - 1 : Terminates(t, j)}
<1>1. e - 1 \in Nat /\ J \in SUBSET (0..(e - 1)) /\ J # {}
  OBVIOUS
<1>2. /\ Max(J) \in J /\ Max(J) \in 0..(e - 1)
      /\ \A j \in J : Max(J) >= j
  BY <1>1, MaxOf
<1>3. LineStart(t, e) = 1 + Max(J)
  BY DEF LineStart
<1>4. PICK m : m = Max(J)
  OBVIOUS
<1>5. /\ m \in 0..(e - 1) /\ LineStart(t, e) = m + 1
      /\ m = 0 \/ Terminates(t, m)
      /\ \A j \in 1..e - 1 : Terminates(t, j) => j <= m
  BY <1>2, <1>3, <1>4
<1> HIDE DEF J
<1> QED
  BY <1>5

\* It is the one place of that kind.
LEMMA StartIs ==
  ASSUME NEW t, NEW e \in Nat \ {0}, NEW s \in 1..e,
         s = 1 \/ Terminates(t, s - 1),
         \A j \in s..e - 1 : ~Terminates(t, j)
  PROVE  LineStart(t, e) = s
<1>1. /\ LineStart(t, e) \in 1..e
      /\ LineStart(t, e) = 1 \/ Terminates(t, LineStart(t, e) - 1)
      /\ \A j \in 1..e - 1 : Terminates(t, j) => j < LineStart(t, e)
  BY StartOf
<1>2. ~(LineStart(t, e) < s)
  BY <1>1
<1>3. ~(LineStart(t, e) > s)
  BY <1>1
<1> QED
  BY <1>1, <1>2, <1>3

LEMMA StartSame ==
  ASSUME NEW u, NEW v, NEW e \in Nat \ {0}, \A j \in 1..e - 1 : u[j] = v[j]
  PROVE  LineStart(u, e) = LineStart(v, e)
<1>1. \A j \in 1..e - 1 : Terminates(u, j) <=> Terminates(v, j)
  BY DEF Terminates
<1> QED
  BY <1>1 DEF LineStart

LEMMA EndsOf ==
  ASSUME NEW t \in Texts
  PROVE  /\ LineEnds(t) \in SUBSET (1..Len(t)) /\ LineEnds(t) \in SUBSET Int
         /\ IsFiniteSet(LineEnds(t)) /\ Len(t) \in Nat
         /\ Cardinality(LineEnds(t)) \in Nat
<1>1. Len(t) \in Nat /\ DOMAIN t = 1..Len(t)
  BY DEF Texts
<1>2. LineEnds(t) \in SUBSET (1..Len(t)) /\ LineEnds(t) \in SUBSET Int
  BY <1>1 DEF LineEnds
<1>3. IsFiniteSet(1..Len(t))
  BY <1>1, FS_Interval
<1>4. IsFiniteSet(LineEnds(t))
  BY <1>2, <1>3, FS_Subset
<1> QED
  BY <1>1, <1>2, <1>4, FS_CardinalityType

\* A line and where it is.
LEMMA LineAt ==
  ASSUME NEW t \in Texts, NEW k \in 1..Cardinality(LineEnds(t))
  PROVE  LET e == InOrder(LineEnds(t))[k]
         IN  /\ e \in LineEnds(t) /\ e \in 1..Len(t)
             /\ LinesOf(t)[k] = SubSeq(t, LineStart(t, e), e - 1)
<1>1. InOrder(LineEnds(t))[k] \in LineEnds(t)
  BY EndsOf, Ranked
<1>2. DOMAIN InOrder(LineEnds(t)) = 1..Cardinality(LineEnds(t))
  BY DEF InOrder
<1> QED
  BY <1>1, <1>2, EndsOf DEF LinesOf

LEMMA LinesDomain ==
  ASSUME NEW t
  PROVE  /\ DOMAIN LinesOf(t) = 1..Cardinality(LineEnds(t))
         /\ LinesOf(t) = [k \in DOMAIN LinesOf(t) |-> LinesOf(t)[k]]
<1>1. DOMAIN InOrder(LineEnds(t)) = 1..Cardinality(LineEnds(t))
  BY DEF InOrder
<1> QED
  BY <1>1 DEF LinesOf

LEMMA LineSame ==
  ASSUME NEW u \in Texts, NEW v \in Texts, Len(u) <= Len(v),
         \A i \in 1..Len(u) : u[i] = v[i], NEW e \in 1..Len(u) + 1, e <= Len(v)
  PROVE  /\ SubSeq(v, LineStart(v, e), e - 1) = SubSeq(u, LineStart(u, e), e - 1)
<1>1. Len(u) \in Nat /\ Len(v) \in Nat
  BY DEF Texts
<1>2. LineStart(u, e) = LineStart(v, e)
  BY <1>1, StartSame
<1>3. PICK s : s = LineStart(u, e)
  OBVIOUS
<1>4. s \in 1..e
  BY <1>1, <1>3, StartOf
<1>5. /\ e - 1 \in Int /\ e - 1 <= Len(u) /\ e - 1 <= Len(v) /\ s \in Nat \ {0}
      /\ \A i \in s..e - 1 : u[i] = v[i]
  BY <1>1, <1>4
<1>6. SubSeq(u, s, e - 1) = SubSeq(v, s, e - 1)
  BY <1>5, SubSeqSame DEF Texts
<1> QED
  BY <1>2, <1>3, <1>6

\* What ends no line leaves the lines as they are.
LEMMA SameLines ==
  ASSUME NEW u \in Texts, NEW v \in Texts, Len(u) <= Len(v),
         \A i \in 1..Len(u) : u[i] = v[i], LineEnds(v) = LineEnds(u)
  PROVE  LinesOf(v) = LinesOf(u)
<1>1. ASSUME NEW k \in 1..Cardinality(LineEnds(u))
      PROVE  LinesOf(v)[k] = LinesOf(u)[k]
  <2>1. PICK e : e = InOrder(LineEnds(u))[k]
    OBVIOUS
  <2>2. /\ e \in 1..Len(u) /\ LinesOf(u)[k] = SubSeq(u, LineStart(u, e), e - 1)
    BY <2>1, LineAt
  <2>3. LinesOf(v)[k] = SubSeq(v, LineStart(v, e), e - 1)
    BY <2>1, LineAt
  <2>4. Len(u) \in Nat /\ Len(v) \in Nat
    BY DEF Texts
  <2>5. e \in 1..Len(u) + 1 /\ e <= Len(v)
    BY <2>2, <2>4
  <2> QED
    BY <2>2, <2>3, <2>5, LineSame
<1> QED
  BY <1>1, LinesDomain

\* M is L and one line more.
More(M, L, line) ==
  \E n \in Nat :
    /\ DOMAIN L = 1..n /\ DOMAIN M = 1..n + 1
    /\ M[n + 1] = line /\ \A k \in 1..n : M[k] = L[k]

LEMMA OneLineMore ==
  ASSUME NEW u \in Texts, NEW v \in Texts, Len(v) = Len(u) + 1,
         \A i \in 1..Len(u) : u[i] = v[i],
         LineEnds(v) = LineEnds(u) \cup {Len(v)}
  PROVE  More(LinesOf(v), LinesOf(u),
              SubSeq(v, LineStart(v, Len(v)), Len(v) - 1))
<1> DEFINE n == Cardinality(LineEnds(u))
<1>1. /\ Len(u) \in Nat /\ n \in Nat /\ LineEnds(u) \in SUBSET Int
      /\ IsFiniteSet(LineEnds(u)) /\ LineEnds(u) \in SUBSET (1..Len(u))
  BY EndsOf
<1>2. Len(v) \in Int /\ \A e \in LineEnds(u) : e < Len(v)
  BY <1>1
<1>3. /\ Cardinality(LineEnds(v)) = n + 1
      /\ InOrder(LineEnds(v))[n + 1] = Len(v)
      /\ \A k \in 1..n : InOrder(LineEnds(v))[k] = InOrder(LineEnds(u))[k]
  <2>1. PICK E, x : E = LineEnds(u) /\ x = Len(v)
    OBVIOUS
  <2>2. /\ E \in SUBSET Int /\ IsFiniteSet(E) /\ x \in Int
        /\ \A e \in E : e < x
    BY <1>1, <1>2, <2>1
  <2>3. /\ Cardinality(E \cup {x}) = Cardinality(E) + 1
        /\ InOrder(E \cup {x})[Cardinality(E) + 1] = x
        /\ \A k \in 1..Cardinality(E) : InOrder(E \cup {x})[k] = InOrder(E)[k]
    BY <2>2, InOrderThen
  <2> QED
    BY <2>1, <2>3
<1>4. ASSUME NEW k \in 1..n
      PROVE  LinesOf(v)[k] = LinesOf(u)[k]
  <2>1. PICK e : e = InOrder(LineEnds(u))[k]
    OBVIOUS
  <2>2. /\ e \in 1..Len(u) /\ LinesOf(u)[k] = SubSeq(u, LineStart(u, e), e - 1)
    BY <2>1, LineAt
  <2>5. k \in 1..Cardinality(LineEnds(v))
    BY <1>1, <1>3
  <2>3. LinesOf(v)[k] = SubSeq(v, LineStart(v, e), e - 1)
    BY <1>3, <2>1, <2>5, LineAt
  <2>4. e \in 1..Len(u) + 1 /\ e <= Len(v) /\ Len(u) <= Len(v)
    BY <1>1, <2>2
  <2> QED
    BY <2>2, <2>3, <2>4, LineSame
<1>5. LinesOf(v)[n + 1] = SubSeq(v, LineStart(v, Len(v)), Len(v) - 1)
  <2>1. n + 1 \in 1..Cardinality(LineEnds(v))
    BY <1>1, <1>3
  <2> QED
    BY <1>3, <2>1, LineAt
<1>6. DOMAIN LinesOf(u) = 1..n /\ DOMAIN LinesOf(v) = 1..n + 1
  BY <1>3, LinesDomain
<1> QED
  BY <1>1, <1>4, <1>5, <1>6 DEF More

\* Where a text goes on, one of its atoms decides if there is a line more.
LEMMA NextAtom ==
  ASSUME NEW u \in Texts, NEW v \in Texts, Len(v) = Len(u) + 1,
         \A i \in 1..Len(u) : u[i] = v[i]
  PROVE  LineEnds(v) = IF Terminates(v, Len(v)) /\ ~AfterCR(v, Len(v))
                       THEN LineEnds(u) \cup {Len(v)} ELSE LineEnds(u)
<1>1. /\ Len(u) \in Nat /\ Len(v) \in Nat
      /\ DOMAIN u = 1..Len(u) /\ DOMAIN v = 1..Len(v)
  BY DEF Texts
<1>2. \A i \in 1..Len(u) : /\ Terminates(u, i) <=> Terminates(v, i)
                           /\ AfterCR(u, i) <=> AfterCR(v, i)
  BY <1>1 DEF Terminates, AfterCR
<1>3. 1..Len(v) = (1..Len(u)) \cup {Len(v)} /\ Len(v) \notin 1..Len(u)
  BY <1>1
<1> QED
  BY <1>1, <1>2, <1>3 DEF LineEnds

----------------------------------------------------------------------------
(* Events.                                                                 *)

LEMMA EventStartOf ==
  ASSUME NEW L, NEW k \in Nat \ {0}
  PROVE  EventStart(L, k) \in 1..k
<1> DEFINE J == {0} \cup {j \in 1..k - 1 : L[j] = <<>>}
<1>1. k - 1 \in Nat /\ J \in SUBSET (0..(k - 1)) /\ J # {}
  OBVIOUS
<1>2. Max(J) \in 0..(k - 1) /\ EventStart(L, k) = 1 + Max(J)
  BY <1>1, MaxOf DEF EventStart
<1> HIDE DEF J
<1> QED
  BY <1>2

LEMMA DataLinesIn ==
  ASSUME NEW L, NEW k \in Nat \ {0}
  PROVE  /\ DataLines(L, k) \in SUBSET (1..k - 1)
         /\ DataLines(L, k) \in SUBSET Int /\ IsFiniteSet(DataLines(L, k))
         /\ Cardinality(DataLines(L, k)) \in Nat
         /\ Cardinality(DataLines(L, k)) = 0 <=> DataLines(L, k) = {}
<1>1. EventStart(L, k) \in 1..k
  BY EventStartOf
<1>2. /\ DataLines(L, k) \in SUBSET (1..k - 1)
      /\ DataLines(L, k) \in SUBSET Int
  BY <1>1 DEF DataLines
<1>3. IsFiniteSet(1..k - 1)
  BY FS_Interval
<1>4. IsFiniteSet(DataLines(L, k))
  BY <1>2, <1>3, FS_Subset
<1> QED
  BY <1>2, <1>4, FS_CardinalityType, FS_EmptySet

\* What was read before a line does not depend on it or later ones.
LEMMA DataSame ==
  ASSUME NEW L, NEW M, NEW k \in Nat \ {0}, \A j \in 1..k - 1 : M[j] = L[j]
  PROVE  /\ EventStart(M, k) = EventStart(L, k)
         /\ DataLines(M, k) = DataLines(L, k)
         /\ DataBefore(M, k) = DataBefore(L, k)
<1>1. EventStart(M, k) = EventStart(L, k)
  BY DEF EventStart
<1>2. EventStart(L, k) \in 1..k
  BY EventStartOf
<1>3. DataLines(M, k) = DataLines(L, k)
  <2>1. \A j \in EventStart(L, k)..k - 1 : M[j] = L[j]
    BY <1>2
  <2> QED
    BY <1>1, <2>1 DEF DataLines
<1>4. DataBefore(M, k) = DataBefore(L, k)
  <2> DEFINE D == DataLines(L, k)
  <2>1. \A i \in DOMAIN InOrder(D) : InOrder(D)[i] \in D
    BY DataLinesIn, Ranked DEF InOrder
  <2>2. \A i \in DOMAIN InOrder(D) : M[InOrder(D)[i]] = L[InOrder(D)[i]]
    BY <2>1, DataLinesIn
  <2> HIDE DEF D
  <2> QED
    BY <1>3, <2>2 DEF DataBefore, D
<1> QED
  BY <1>1, <1>3, <1>4

LastIn(I) == IF I # {} THEN Max(I) ELSE 0
ValueAt(L, I, default) ==
  IF LastIn(I) = 0 THEN default ELSE ValueOf(L[LastIn(I)])

Types(L, k) == {j \in EventStart(L, k)..k - 1 : IsType(L[j])}
Ids(L, k) == {j \in 1..k - 1 : IsId(L[j])}
Retries(L, k) == {j \in 1..k - 1 : IsRetry(L[j])}

LEMMA ValuesAt ==
  ASSUME NEW L, NEW k
  PROVE  /\ TypeBefore(L, k) = ValueAt(L, Types(L, k), <<>>)
         /\ IdBefore(L, k) = ValueAt(L, Ids(L, k), Undefined)
         /\ RetryBefore(L, k) = ValueAt(L, Retries(L, k), Undefined)
  BY DEF TypeBefore, IdBefore, RetryBefore, LatestBefore, SelectLastInSubSeq,
         ValueAt, LastIn, Types, Ids, Retries

LEMMA ValuesIn ==
  ASSUME NEW L, NEW k \in Nat \ {0}
  PROVE  /\ Types(L, k) \in SUBSET (1..k - 1)
         /\ Ids(L, k) \in SUBSET (1..k - 1)
         /\ Retries(L, k) \in SUBSET (1..k - 1)
  BY EventStartOf DEF Types, Ids, Retries

Within(I, n) == I \in SUBSET (1..n)
Agree(L, M, n) == \A j \in 1..n : M[j] = L[j]

LEMMA ValueSame ==
  ASSUME NEW L, NEW M, NEW n \in Nat, Agree(L, M, n),
         NEW I, Within(I, n), NEW d
  PROVE  ValueAt(M, I, d) = ValueAt(L, I, d)
<1>1. I \in SUBSET (0..n) /\ I \in SUBSET (1..n)
  BY DEF Within
<1>2. I # {} => LastIn(I) \in 1..n
  BY <1>1, MaxOf DEF LastIn
<1>3. I = {} => LastIn(I) = 0
  BY DEF LastIn
<1> QED
  BY <1>2, <1>3 DEF ValueAt, Agree

LEMMA ValueThen ==
  ASSUME NEW M, NEW n \in Nat, NEW I, Within(I, n), NEW d
  PROVE  ValueAt(M, I \cup {n + 1}, d) = ValueOf(M[n + 1])
<1> DEFINE J == I \cup {n + 1}
<1>1. n + 1 \in Nat /\ J \in SUBSET (0..n + 1) /\ n + 1 \in J /\ J # {}
  BY DEF Within
<1>2. \A j \in J : j <= n + 1
  BY DEF Within
<1> HIDE DEF J
<1>3. Max(J) = n + 1
  BY <1>1, <1>2, MaxIs
<1>4. LastIn(J) = n + 1 /\ LastIn(J) # 0
  BY <1>1, <1>3 DEF LastIn
<1> QED
  BY <1>4 DEF ValueAt, J

\* The event that a line ends is what the lines before it say.
LEMMA EventSame ==
  ASSUME NEW L, NEW M, NEW k \in Nat \ {0}, \A j \in 1..k - 1 : M[j] = L[j]
  PROVE  /\ TypeBefore(M, k) = TypeBefore(L, k)
         /\ DataBefore(M, k) = DataBefore(L, k)
         /\ IdBefore(M, k) = IdBefore(L, k)
         /\ RetryBefore(M, k) = RetryBefore(L, k)
         /\ EventAt(M, k) = EventAt(L, k)
<1>1. PICK n \in Nat : n = k - 1
  OBVIOUS
<1>2. Agree(L, M, n)
  BY <1>1 DEF Agree
<1>3. /\ EventStart(M, k) = EventStart(L, k)
      /\ DataBefore(M, k) = DataBefore(L, k)
  BY DataSame
<1>4. /\ Types(M, k) = Types(L, k)
      /\ Ids(M, k) = Ids(L, k) /\ Retries(M, k) = Retries(L, k)
  <2>1. \A j \in EventStart(L, k)..k - 1 : j \in 1..k - 1
    BY EventStartOf
  <2> QED
    BY <1>3, <2>1 DEF Types, Ids, Retries
<1>5. Within(Types(L, k), n) /\ Within(Ids(L, k), n) /\ Within(Retries(L, k), n)
  BY <1>1, ValuesIn DEF Within
<1>6. ASSUME NEW I, Within(I, n), NEW d
      PROVE  ValueAt(M, I, d) = ValueAt(L, I, d)
  BY <1>2, <1>6, ValueSame
<1>7. /\ TypeBefore(M, k) = TypeBefore(L, k)
      /\ IdBefore(M, k) = IdBefore(L, k)
      /\ RetryBefore(M, k) = RetryBefore(L, k)
  BY <1>4, <1>5, <1>6, ValuesAt
<1> QED
  BY <1>3, <1>7 DEF EventAt

----------------------------------------------------------------------------
(* One line more.                                                          *)

\* A line that is not blank goes on with the event before it.
LEMMA StartThen ==
  ASSUME NEW L, NEW M, NEW n \in Nat, \A j \in 1..n : M[j] = L[j]
  PROVE  EventStart(M, n + 2)
           = IF M[n + 1] = <<>> THEN n + 2 ELSE EventStart(L, n + 1)
<1> DEFINE J == {0} \cup {j \in 1..n : L[j] = <<>>}
           K == {0} \cup {j \in 1..n + 1 : M[j] = <<>>}
<1>1. /\ EventStart(L, n + 1) = 1 + Max(J) /\ EventStart(M, n + 2) = 1 + Max(K)
      /\ K \in SUBSET (0..n + 1)
  <2>1. (n + 1) - 1 = n /\ (n + 2) - 1 = n + 1
    OBVIOUS
  <2> QED
    BY <2>1 DEF EventStart
<1>2. CASE M[n + 1] = <<>>
  <2>1. n + 1 \in K /\ \A j \in K : j <= n + 1
    BY <1>2
  <2> HIDE DEF K
  <2>3. PICK m \in Nat : m = n + 1
    OBVIOUS
  <2>4. K \in SUBSET (0..m) /\ m \in K /\ \A j \in K : j <= m
    BY <1>1, <2>1, <2>3
  <2>2. Max(K) = n + 1
    BY <2>3, <2>4, MaxIs
  <2> QED
    BY <1>1, <1>2, <2>2
<1>3. CASE M[n + 1] # <<>>
  <2>1. K = J
    <3>1. 1..n + 1 = (1..n) \cup {n + 1}
      OBVIOUS
    <3> QED
      BY <1>3, <3>1
  <2> QED
    BY <1>1, <1>3, <2>1
<1> QED
  BY <1>2, <1>3

LEMMA DataThen ==
  ASSUME NEW L, NEW M, NEW n \in Nat, \A j \in 1..n : M[j] = L[j]
  PROVE  DataLines(M, n + 2)
           = IF M[n + 1] = <<>> THEN {}
             ELSE IF FieldOf(M[n + 1]) = <<"data">>
             THEN DataLines(L, n + 1) \cup {n + 1} ELSE DataLines(L, n + 1)
<1>1. /\ EventStart(M, n + 2)
           = IF M[n + 1] = <<>> THEN n + 2 ELSE EventStart(L, n + 1)
      /\ EventStart(L, n + 1) \in 1..n + 1
      /\ (n + 1) - 1 = n /\ (n + 2) - 1 = n + 1
  <2>1. n + 1 \in Nat \ {0}
    OBVIOUS
  <2>2. EventStart(L, n + 1) \in 1..n + 1
    BY <2>1, EventStartOf
  <2>3. EventStart(M, n + 2)
           = IF M[n + 1] = <<>> THEN n + 2 ELSE EventStart(L, n + 1)
    BY StartThen
  <2> QED
    BY <2>2, <2>3
<1>2. CASE M[n + 1] = <<>>
  <2>1. (n + 2)..(n + 1) = {}
    OBVIOUS
  <2> QED
    BY <1>1, <1>2, <2>1 DEF DataLines
<1>3. CASE M[n + 1] # <<>>
  <2>1. PICK s \in 1..n + 1 : s = EventStart(L, n + 1)
    BY <1>1
  <2>2. /\ DataLines(M, n + 2) = {j \in s..n + 1 : FieldOf(M[j]) = <<"data">>}
        /\ DataLines(L, n + 1) = {j \in s..n : FieldOf(L[j]) = <<"data">>}
    BY <1>1, <1>3, <2>1 DEF DataLines
  <2>3. s..n + 1 = (s..n) \cup {n + 1} /\ \A j \in s..n : M[j] = L[j]
    BY <2>1
  <2> QED
    BY <1>3, <2>2, <2>3
<1> QED
  BY <1>2, <1>3

Said(L, E) == [i \in 1..Cardinality(E) |-> ValueOf(L[InOrder(E)[i]])]

LEMMA DataOver ==
  ASSUME NEW L, NEW k
  PROVE  DataBefore(L, k) = Said(L, DataLines(L, k))
<1>1. PICK E : E = DataLines(L, k)
  OBVIOUS
<1>2. DOMAIN InOrder(E) = 1..Cardinality(E)
  BY DEF InOrder
<1> QED
  BY <1>1, <1>2 DEF DataBefore, Said

LEMMA DataBeforeThen ==
  ASSUME NEW L, NEW M, NEW n \in Nat, \A j \in 1..n : M[j] = L[j],
         DataBefore(L, n + 1) \in Seq(Texts), ValueOf(M[n + 1]) \in Texts
  PROVE  DataBefore(M, n + 2)
           = IF M[n + 1] = <<>> THEN <<>>
             ELSE IF FieldOf(M[n + 1]) = <<"data">>
             THEN Append(DataBefore(L, n + 1), ValueOf(M[n + 1]))
             ELSE DataBefore(L, n + 1)
<1> DEFINE D == DataLines(L, n + 1)
           c == Cardinality(D)
<1>1. /\ D \in SUBSET (1..n) /\ D \in SUBSET Int /\ IsFiniteSet(D) /\ c \in Nat
  <2>1. (n + 1) - 1 = n /\ n + 1 \in Nat \ {0}
    OBVIOUS
  <2> QED
    BY <2>1, DataLinesIn
<1>2. \A k \in 1..c : InOrder(D)[k] \in D
  BY <1>1, Ranked
<1>3. \A k \in 1..c : M[InOrder(D)[k]] = L[InOrder(D)[k]]
  BY <1>1, <1>2
<1>4. DataBefore(L, n + 1) = Said(L, D)
  BY DataOver
<1>5. CASE M[n + 1] = <<>>
  <2>1. DataLines(M, n + 2) = {}
    BY <1>5, DataThen
  <2>2. Cardinality({}) = 0 /\ 1..0 = {}
    BY FS_EmptySet
  <2>4. DataBefore(M, n + 2) = Said(M, {})
    BY <2>1, DataOver
  <2>5. Said(M, {}) = <<>>
    BY <2>2 DEF Said
  <2> QED
    BY <1>5, <2>4, <2>5
<1>6. CASE M[n + 1] # <<>> /\ FieldOf(M[n + 1]) = <<"data">>
  <2>1. PICK E : E = D \cup {n + 1}
    OBVIOUS
  <2>2. DataLines(M, n + 2) = E
    BY <1>6, <2>1, DataThen, ZenonT(40)
  <2>3. n + 1 \in Int /\ \A d \in D : d < n + 1
    BY <1>1
  <2> HIDE DEF D
  <2>4. /\ Cardinality(E) = c + 1 /\ InOrder(E)[c + 1] = n + 1
        /\ \A k \in 1..c : InOrder(E)[k] = InOrder(D)[k]
    BY <1>1, <2>1, <2>3, InOrderThen
  <2>5. DataBefore(M, n + 2) = Said(M, E)
    BY <2>2, DataOver
  <2>12. Said(M, E) = [k \in 1..c + 1 |-> ValueOf(M[InOrder(E)[k]])]
    BY <2>4 DEF Said
  <2>6. PICK b \in Seq(Texts) : b = DataBefore(L, n + 1)
    OBVIOUS
  <2>7. Len(b) = c
    BY <1>1, <1>4, <2>6 DEF Said
  <2>8. PICK a : a = Append(b, ValueOf(M[n + 1]))
    OBVIOUS
  <2>9. /\ a \in Seq(Texts) /\ Len(a) = c + 1 /\ a[c + 1] = ValueOf(M[n + 1])
        /\ \A k \in 1..c : a[k] = b[k]
    BY <2>6, <2>7, <2>8, AppendProperties
  <2>10. \A k \in 1..c + 1 : a[k] = ValueOf(M[InOrder(E)[k]])
    <3>1. ASSUME NEW k \in 1..c PROVE a[k] = ValueOf(M[InOrder(E)[k]])
      <4>1. b[k] = ValueOf(L[InOrder(D)[k]])
        BY <1>4, <2>6 DEF Said
      <4> QED
        BY <1>3, <2>4, <2>9, <4>1
    <3>2. a[c + 1] = ValueOf(M[InOrder(E)[c + 1]])
      BY <2>4, <2>9
    <3>3. \A k \in 1..c + 1 : k \in 1..c \/ k = c + 1
      BY <1>1
    <3> QED
      BY <3>1, <3>2, <3>3
  <2>11. a = [k \in 1..c + 1 |-> a[k]]
    BY <2>9
  <2> QED
    BY <1>6, <2>5, <2>6, <2>8, <2>10, <2>11, <2>12
<1>7. CASE M[n + 1] # <<>> /\ FieldOf(M[n + 1]) # <<"data">>
  <2>1. DataLines(M, n + 2) = D
    BY <1>7, DataThen
  <2>2. DataBefore(M, n + 2) = Said(M, D)
    BY <2>1, DataOver
  <2>3. Said(M, D) = Said(L, D)
    BY <1>3 DEF Said
  <2> QED
    BY <1>4, <1>7, <2>2, <2>3
<1> QED
  BY <1>5, <1>6, <1>7

LEMMA ValuesThen ==
  ASSUME NEW L, NEW M, NEW n \in Nat, \A j \in 1..n : M[j] = L[j],
         FieldOf(<<>>) = <<>>
  PROVE  /\ TypeBefore(M, n + 2)
              = IF M[n + 1] = <<>> THEN <<>>
                ELSE IF IsType(M[n + 1]) THEN ValueOf(M[n + 1])
                ELSE TypeBefore(L, n + 1)
         /\ IdBefore(M, n + 2)
              = IF IsId(M[n + 1]) THEN ValueOf(M[n + 1])
                ELSE IdBefore(L, n + 1)
         /\ RetryBefore(M, n + 2)
              = IF IsRetry(M[n + 1]) THEN ValueOf(M[n + 1])
                ELSE RetryBefore(L, n + 1)
<1>0. Agree(L, M, n)
  BY DEF Agree
<1>1. (n + 1) - 1 = n /\ (n + 2) - 1 = n + 1 /\ n + 1 \in Nat \ {0}
  OBVIOUS
<1>2. 1..n + 1 = (1..n) \cup {n + 1} /\ n + 1 \notin 1..n
  OBVIOUS
<1>3. /\ Ids(M, n + 2) = IF IsId(M[n + 1]) THEN Ids(L, n + 1) \cup {n + 1}
                         ELSE Ids(L, n + 1)
      /\ Retries(M, n + 2)
           = IF IsRetry(M[n + 1]) THEN Retries(L, n + 1) \cup {n + 1}
             ELSE Retries(L, n + 1)
  BY <1>1, <1>2 DEF Ids, Retries
<1>4. PICK s \in 1..n + 1 : s = EventStart(L, n + 1)
  BY <1>1, EventStartOf
<1>5. EventStart(M, n + 2) = IF M[n + 1] = <<>> THEN n + 2 ELSE s
  BY <1>4, StartThen
<1>6. Types(M, n + 2) = IF M[n + 1] = <<>> THEN {}
                        ELSE IF IsType(M[n + 1])
                        THEN Types(L, n + 1) \cup {n + 1} ELSE Types(L, n + 1)
  <2>1. s..n + 1 = (s..n) \cup {n + 1} /\ \A j \in s..n : M[j] = L[j]
    BY <1>4
  <2>2. (n + 2)..(n + 1) = {}
    OBVIOUS
  <2>3. Types(L, n + 1) = {j \in s..n : IsType(L[j])}
    BY <1>1, <1>4 DEF Types
  <2>4. CASE M[n + 1] = <<>>
    BY <1>1, <1>5, <2>2, <2>4 DEF Types
  <2>5. CASE M[n + 1] # <<>>
    <3>1. Types(M, n + 2) = {j \in s..n + 1 : IsType(M[j])}
      BY <1>1, <1>5, <2>5 DEF Types
    <3> QED
      BY <2>1, <2>3, <2>5, <3>1
  <2> QED
    BY <2>4, <2>5
<1>7. /\ Within(Types(L, n + 1), n) /\ Within(Ids(L, n + 1), n)
      /\ Within(Retries(L, n + 1), n)
  BY <1>1, ValuesIn DEF Within
<1>8. ASSUME NEW I, Within(I, n), NEW d
      PROVE  /\ ValueAt(M, I, d) = ValueAt(L, I, d)
             /\ ValueAt(M, I \cup {n + 1}, d) = ValueOf(M[n + 1])
  <2>1. ValueAt(M, I, d) = ValueAt(L, I, d)
    BY <1>0, <1>8, ValueSame
  <2>2. ValueAt(M, I \cup {n + 1}, d) = ValueOf(M[n + 1])
    BY <1>8, ValueThen
  <2> QED
    BY <2>1, <2>2
<1>9. LastIn({}) = 0 /\ \A d : ValueAt(M, {}, d) = d
  BY DEF LastIn, ValueAt
<1>10. TypeBefore(M, n + 2)
         = IF M[n + 1] = <<>> THEN <<>>
           ELSE IF IsType(M[n + 1]) THEN ValueOf(M[n + 1])
           ELSE TypeBefore(L, n + 1)
  <2>1. /\ TypeBefore(M, n + 2) = ValueAt(M, Types(M, n + 2), <<>>)
        /\ TypeBefore(L, n + 1) = ValueAt(L, Types(L, n + 1), <<>>)
    BY ValuesAt
  <2>2. PICK I : I = Types(L, n + 1)
    OBVIOUS
  <2>3. /\ ValueAt(M, I, <<>>) = ValueAt(L, I, <<>>)
        /\ ValueAt(M, I \cup {n + 1}, <<>>) = ValueOf(M[n + 1])
    BY <1>7, <1>8, <2>2
  <2> QED
    BY <1>6, <1>9, <2>1, <2>2, <2>3
<1>11. IdBefore(M, n + 2) = IF IsId(M[n + 1]) THEN ValueOf(M[n + 1])
                            ELSE IdBefore(L, n + 1)
  <2>1. /\ IdBefore(M, n + 2) = ValueAt(M, Ids(M, n + 2), Undefined)
        /\ IdBefore(L, n + 1) = ValueAt(L, Ids(L, n + 1), Undefined)
    BY ValuesAt
  <2>2. PICK I : I = Ids(L, n + 1)
    OBVIOUS
  <2>3. /\ ValueAt(M, I, Undefined) = ValueAt(L, I, Undefined)
        /\ ValueAt(M, I \cup {n + 1}, Undefined) = ValueOf(M[n + 1])
    BY <1>7, <1>8, <2>2
  <2> QED
    BY <1>3, <2>1, <2>2, <2>3
<1>12. RetryBefore(M, n + 2)
         = IF IsRetry(M[n + 1]) THEN ValueOf(M[n + 1])
           ELSE RetryBefore(L, n + 1)
  <2>1. /\ RetryBefore(M, n + 2) = ValueAt(M, Retries(M, n + 2), Undefined)
        /\ RetryBefore(L, n + 1) = ValueAt(L, Retries(L, n + 1), Undefined)
    BY ValuesAt
  <2>2. PICK I : I = Retries(L, n + 1)
    OBVIOUS
  <2>3. /\ ValueAt(M, I, Undefined) = ValueAt(L, I, Undefined)
        /\ ValueAt(M, I \cup {n + 1}, Undefined) = ValueOf(M[n + 1])
    BY <1>7, <1>8, <2>2
  <2> QED
    BY <1>3, <2>1, <2>2, <2>3
<1> QED
  BY <1>10, <1>11, <1>12

----------------------------------------------------------------------------
(* What one line does to the parser.                                       *)

\* An event that is dispatched has data.
Told == {e \in Event : e.data # <<>>}

Parsers ==
  [buffer : Texts, data : Seq(Texts), type : Texts, id : Texts \cup {Undefined},
   retry : Texts \cup {Undefined}, begun : BOOLEAN, out : Seq(Told),
   threw : BOOLEAN]

\* The event that is ready to be dispatched.
Ready(p) == [type |-> TypeName(p.type), data |-> p.data, id |-> p.id,
             retry |-> p.retry]

LEMMA ColonOf ==
  ASSUME NEW line \in Texts
  PROVE  Colon(line) \in 0..Len(line) /\ Len(line) \in Nat
<1> DEFINE I == {i \in 1..Len(line) : line[i] = ":"}
<1>1. Len(line) \in Nat
  BY DEF Texts
<1>2. Colon(line) = IF I # {} THEN Min(I) ELSE 0
  BY DEF Colon, SelectInSeq
<1>3. I \subseteq 1..Len(line) /\ I \subseteq Nat
  OBVIOUS
<1> HIDE DEF I
<1>4. I # {} => Min(I) \in 1..Len(line)
  BY <1>3, LeastNumber DEF Min
<1>5. CASE I = {}
  BY <1>1, <1>2, <1>5
<1>6. CASE I # {}
  BY <1>1, <1>2, <1>4, <1>6
<1> QED
  BY <1>5, <1>6

LEMMA ValueType ==
  ASSUME NEW line \in Texts
  PROVE  ValueOf(line) \in Texts
<1> DEFINE value == IF Colon(line) = 0 THEN <<>>
                    ELSE SubSeq(line, Colon(line) + 1, Len(line))
<1>1. SubSeq(line, Colon(line) + 1, Len(line)) \in Texts
  <2>1. \A i \in Colon(line) + 1..Len(line) : line[i] \in Atoms
    BY ColonOf, ElementOfSeq DEF Texts
  <2> QED
    BY <2>1, ColonOf, SubSeqProperties DEF Texts
<1>2. value \in Texts
  BY <1>1 DEF Texts
<1>3. value # <<>> => Tail(value) \in Texts
  BY <1>2, HeadTailProperties DEF Texts
<1>4. ValueOf(line) = IF value # <<>> /\ value[1] = " " THEN Tail(value)
                      ELSE value
  BY DEF ValueOf
<1> HIDE DEF value
<1> QED
  BY <1>2, <1>3, <1>4

LEMMA NoField ==
  FieldOf(<<>>) = <<>> /\ ~IsType(<<>>) /\ ~IsId(<<>>) /\ ~IsRetry(<<>>)
<1>1. <<>> \in Texts /\ Len(<<>>) = 0
  BY DEF Texts
<1>2. Colon(<<>>) = 0
  BY <1>1, ColonOf
<1>3. FieldOf(<<>>) = <<>>
  BY <1>2 DEF FieldOf
<1> QED
  BY <1>3 DEF IsType, IsId, IsRetry

LEMMA FieldLine ==
  ASSUME NEW p \in Parsers, ~p.threw, NEW line \in Texts, line # <<>>
  PROVE  LET q == ProcessLine(p, line)
         IN  /\ q \in Parsers
             /\ q.buffer = p.buffer /\ q.begun = p.begun /\ q.out = p.out
             /\ ~q.threw
             /\ q.type = IF IsType(line) THEN ValueOf(line) ELSE p.type
             /\ q.data = IF FieldOf(line) = <<"data">>
                         THEN Append(p.data, ValueOf(line)) ELSE p.data
             /\ q.id = IF IsId(line) THEN ValueOf(line) ELSE p.id
             /\ q.retry = IF IsRetry(line) THEN ValueOf(line) ELSE p.retry
<1>1. PICK v \in Texts : v = ValueOf(line)
  BY ValueType
<1>2. Append(p.data, v) \in Seq(Texts)
  BY AppendProperties DEF Parsers
<1>3. /\ <<"event">> # <<"data">> /\ <<"event">> # <<"id">>
      /\ <<"event">> # <<"retry">> /\ <<"data">> # <<"id">>
      /\ <<"data">> # <<"retry">> /\ <<"id">> # <<"retry">>
  OBVIOUS
<1>4. CASE FieldOf(line) = <<"event">>
  <2>1. IsType(line) /\ ~IsId(line) /\ ~IsRetry(line)
    BY <1>3, <1>4 DEF IsType, IsId, IsRetry
  <2>2. ProcessLine(p, line) = [p EXCEPT !.type = v]
    BY <1>1, <1>3, <1>4, <2>1 DEF ProcessLine
  <2> QED
    BY <1>1, <1>3, <1>4, <2>1, <2>2 DEF Parsers
<1>5. CASE FieldOf(line) = <<"data">>
  <2>1. ~IsType(line) /\ ~IsId(line) /\ ~IsRetry(line)
    BY <1>3, <1>5 DEF IsType, IsId, IsRetry
  <2>2. ProcessLine(p, line) = [p EXCEPT !.data = Append(@, v)]
    BY <1>1, <1>3, <1>5, <2>1 DEF ProcessLine
  <2> QED
    BY <1>1, <1>2, <1>3, <1>5, <2>1, <2>2 DEF Parsers
<1>6. CASE IsId(line)
  <2>1. ~IsType(line) /\ ~IsRetry(line) /\ FieldOf(line) = <<"id">>
    BY <1>3, <1>6 DEF IsType, IsId, IsRetry
  <2>2. ProcessLine(p, line) = [p EXCEPT !.id = v]
    BY <1>1, <1>3, <1>6, <2>1 DEF ProcessLine
  <2> QED
    BY <1>1, <1>3, <1>6, <2>1, <2>2 DEF Parsers
<1>7. CASE IsRetry(line)
  <2>1. ~IsType(line) /\ ~IsId(line) /\ FieldOf(line) = <<"retry">>
    BY <1>3, <1>7 DEF IsType, IsId, IsRetry
  <2>2. ProcessLine(p, line) = [p EXCEPT !.retry = v]
    BY <1>1, <1>3, <1>7, <2>1 DEF ProcessLine
  <2> QED
    BY <1>1, <1>3, <1>7, <2>1, <2>2 DEF Parsers
<1>8. CASE /\ FieldOf(line) # <<"event">> /\ FieldOf(line) # <<"data">>
           /\ ~IsId(line) /\ ~IsRetry(line)
  <2>1. ProcessLine(p, line) = p /\ ~IsType(line)
    BY <1>8 DEF ProcessLine, IsType
  <2> QED
    BY <1>8, <2>1
<1> QED
  BY <1>4, <1>5, <1>6, <1>7, <1>8

LEMMA BlankLine ==
  ASSUME NEW p \in Parsers
  PROVE  LET q == Dispatch(p)
         IN  /\ q \in Parsers /\ (p.data # <<>> => Ready(p) \in Told)
             /\ q.buffer = p.buffer /\ q.begun = p.begun
             /\ q.id = p.id /\ q.retry = p.retry
             /\ p.data = <<>> =>
                  /\ q.type = <<>> /\ q.data = <<>>
                  /\ q.out = p.out /\ q.threw = p.threw
             /\ p.data # <<>> /\ ~Valid(Ready(p)) => q.threw /\ q.out = p.out
             /\ p.data # <<>> /\ Valid(Ready(p)) =>
                  /\ q.type = <<>> /\ q.data = <<>> /\ q.threw = p.threw
                  /\ q.out = Append(p.out, Ready(p))
<1>1. TypeName(p.type) \in Texts \cup {Message}
  BY DEF TypeName, Parsers
<1>2. p.data # <<>> => Ready(p) \in Told
  BY <1>1 DEF Ready, Event, Told, Parsers
<1>3. p.data # <<>> => Append(p.out, Ready(p)) \in Seq(Told)
  BY <1>2, AppendProperties DEF Parsers
<1>4. Dispatch(p) = IF p.data = <<>> THEN [p EXCEPT !.type = <<>>]
                    ELSE IF ~Valid(Ready(p)) THEN [p EXCEPT !.threw = TRUE]
                    ELSE [p EXCEPT !.out = Append(@, Ready(p)),
                                   !.data = <<>>, !.type = <<>>]
  BY DEF Dispatch, Ready
<1>5. <<>> \in Texts /\ <<>> \in Seq(Texts)
  BY DEF Texts
<1>6. CASE p.data = <<>>
  BY <1>2, <1>4, <1>5, <1>6 DEF Parsers
<1>7. CASE p.data # <<>> /\ ~Valid(Ready(p))
  BY <1>2, <1>4, <1>5, <1>7 DEF Parsers
<1>8. CASE p.data # <<>> /\ Valid(Ready(p))
  BY <1>2, <1>3, <1>4, <1>5, <1>8 DEF Parsers
<1> QED
  BY <1>6, <1>7, <1>8

----------------------------------------------------------------------------
(* What one line does to the events.                                       *)

LEMMA DataNone ==
  ASSUME NEW L, NEW k \in Nat \ {0}
  PROVE  DataBefore(L, k) = <<>> <=> DataLines(L, k) = {}
<1>1. PICK E : E = DataLines(L, k)
  OBVIOUS
<1>2. Cardinality(E) \in Nat /\ (Cardinality(E) = 0 <=> E = {})
  BY <1>1, DataLinesIn
<1>3. DataBefore(L, k) = Said(L, E)
  BY <1>1, DataOver
<1>4. DOMAIN Said(L, E) = 1..Cardinality(E)
  BY DEF Said
<1>5. CASE E = {}
  <2>1. 1..Cardinality(E) = {}
    BY <1>2, <1>5
  <2>2. Said(L, E) = <<>>
    BY <2>1 DEF Said
  <2> QED
    BY <1>1, <1>3, <1>5, <2>2
<1>6. CASE E # {}
  <2>1. 1 \in DOMAIN Said(L, E) /\ DOMAIN <<>> = {}
    BY <1>2, <1>4, <1>6
  <2> QED
    BY <1>1, <1>3, <1>6, <2>1
<1> QED
  BY <1>5, <1>6

LEMMA EventEndsIn ==
  ASSUME NEW L, NEW n \in Nat, DOMAIN L = 1..n
  PROVE  /\ EventEnds(L) \in SUBSET (1..n) /\ EventEnds(L) \in SUBSET Int
         /\ IsFiniteSet(EventEnds(L)) /\ Cardinality(EventEnds(L)) \in Nat
<1>1. EventEnds(L) \in SUBSET (1..n) /\ EventEnds(L) \in SUBSET Int
  BY DEF EventEnds
<1>2. IsFiniteSet(1..n)
  BY FS_Interval
<1>3. IsFiniteSet(EventEnds(L))
  BY <1>1, <1>2, FS_Subset
<1> QED
  BY <1>1, <1>3, FS_CardinalityType

LEMMA EventsAre ==
  ASSUME NEW L
  PROVE  /\ DOMAIN EventsOf(L) = 1..Cardinality(EventEnds(L))
         /\ EventsOf(L) = [k \in DOMAIN EventsOf(L) |-> EventsOf(L)[k]]
         /\ \A k \in 1..Cardinality(EventEnds(L)) :
              EventsOf(L)[k] = EventAt(L, InOrder(EventEnds(L))[k])
<1>1. PICK E : E = EventEnds(L)
  OBVIOUS
<1>2. DOMAIN InOrder(E) = 1..Cardinality(E)
  BY DEF InOrder
<1> QED
  BY <1>1, <1>2 DEF EventsOf

LEMMA EndsThen ==
  ASSUME NEW L, NEW M, NEW n \in Nat, DOMAIN L = 1..n, DOMAIN M = 1..n + 1,
         \A k \in 1..n : M[k] = L[k]
  PROVE  EventEnds(M) = IF M[n + 1] = <<>> /\ DataLines(L, n + 1) # {}
                        THEN EventEnds(L) \cup {n + 1} ELSE EventEnds(L)
<1>1. ASSUME NEW k \in 1..n + 1 PROVE DataLines(M, k) = DataLines(L, k)
  <2>1. k \in Nat \ {0} /\ \A j \in 1..k - 1 : M[j] = L[j]
    OBVIOUS
  <2> QED
    BY <2>1, DataSame
<1>2. 1..n + 1 = (1..n) \cup {n + 1} /\ n + 1 \in 1..n + 1 /\ n + 1 \notin 1..n
  OBVIOUS
<1>3. \A k \in 1..n : k \in EventEnds(M) <=> k \in EventEnds(L)
  BY <1>1, <1>2 DEF EventEnds
<1>4. n + 1 \in EventEnds(M) <=> M[n + 1] = <<>> /\ DataLines(L, n + 1) # {}
  BY <1>1, <1>2 DEF EventEnds
<1>5. EventEnds(M) \subseteq 1..n + 1 /\ EventEnds(L) \subseteq 1..n
  BY DEF EventEnds
<1> QED
  BY <1>2, <1>3, <1>4, <1>5

LEMMA MoreEvents ==
  ASSUME NEW L, NEW M, NEW n \in Nat, DOMAIN L = 1..n, DOMAIN M = 1..n + 1,
         \A k \in 1..n : M[k] = L[k]
  PROVE  IF M[n + 1] = <<>> /\ DataLines(L, n + 1) # {}
         THEN More(EventsOf(M), EventsOf(L), EventAt(L, n + 1))
         ELSE EventsOf(M) = EventsOf(L)
<1>1. PICK E, c : E = EventEnds(L) /\ c = Cardinality(E)
  OBVIOUS
<1>2. /\ E \in SUBSET (1..n) /\ E \in SUBSET Int /\ IsFiniteSet(E) /\ c \in Nat
  BY <1>1, EventEndsIn
<1>3. \A k \in 1..c : InOrder(E)[k] \in E
  BY <1>1, <1>2, Ranked
<1>4. ASSUME NEW k \in 1..n + 1 PROVE EventAt(M, k) = EventAt(L, k)
  <2>1. k \in Nat \ {0} /\ \A j \in 1..k - 1 : M[j] = L[j]
    OBVIOUS
  <2> QED
    BY <2>1, EventSame
<1>5. ASSUME NEW k \in 1..c
      PROVE  EventAt(M, InOrder(E)[k]) = EventsOf(L)[k]
  <2>1. PICK x : x = InOrder(E)[k]
    OBVIOUS
  <2>2. x \in E
    BY <1>3, <2>1
  <2>3. x \in 1..n + 1
    BY <1>2, <2>2
  <2>4. EventsOf(L)[k] = EventAt(L, x)
    BY <1>1, <2>1, EventsAre
  <2> QED
    BY <1>4, <2>1, <2>3, <2>4
<1>6. CASE M[n + 1] = <<>> /\ DataLines(L, n + 1) # {}
  <2>1. PICK F : F = E \cup {n + 1}
    OBVIOUS
  <2>2. EventEnds(M) = F
    BY <1>1, <1>6, <2>1, EndsThen
  <2>3. n + 1 \in Int /\ \A e \in E : e < n + 1
    BY <1>2
  <2>4. /\ Cardinality(F) = c + 1 /\ InOrder(F)[c + 1] = n + 1
        /\ \A k \in 1..c : InOrder(F)[k] = InOrder(E)[k]
    BY <1>1, <1>2, <2>1, <2>3, InOrderThen, ZenonT(40)
  <2>5. /\ DOMAIN EventsOf(L) = 1..c /\ DOMAIN EventsOf(M) = 1..c + 1
        /\ \A k \in 1..c + 1 : EventsOf(M)[k] = EventAt(M, InOrder(F)[k])
    BY <1>1, <2>2, <2>4, EventsAre
  <2>6. EventsOf(M)[c + 1] = EventAt(L, n + 1)
    <3>1. c + 1 \in 1..c + 1 /\ n + 1 \in 1..n + 1
      BY <1>2
    <3> QED
      BY <1>4, <2>4, <2>5, <3>1
  <2>7. ASSUME NEW k \in 1..c PROVE EventsOf(M)[k] = EventsOf(L)[k]
    <3>1. k \in 1..c + 1
      BY <1>2
    <3> QED
      BY <1>5, <2>4, <2>5, <3>1
  <2>8. More(EventsOf(M), EventsOf(L), EventAt(L, n + 1))
    BY <1>2, <2>5, <2>6, <2>7 DEF More
  <2> QED
    BY <1>6, <2>8
<1>7. CASE ~(M[n + 1] = <<>> /\ DataLines(L, n + 1) # {})
  <2>1. EventEnds(M) = E
    BY <1>1, <1>7, EndsThen
  <2>2. /\ DOMAIN EventsOf(L) = 1..c /\ DOMAIN EventsOf(M) = 1..c
        /\ \A k \in 1..c : EventsOf(M)[k] = EventAt(M, InOrder(E)[k])
    BY <1>1, <2>1, EventsAre
  <2>3. \A k \in 1..c : EventsOf(M)[k] = EventsOf(L)[k]
    BY <1>5, <2>2
  <2>4. /\ EventsOf(L) = [k \in 1..c |-> EventsOf(L)[k]]
        /\ EventsOf(M) = [k \in 1..c |-> EventsOf(M)[k]]
    BY <2>2, EventsAre
  <2>5. EventsOf(M) = EventsOf(L)
    BY <2>3, <2>4
  <2> QED
    BY <1>7, <2>5
<1> QED
  BY <1>6, <1>7

\* One event more is one appended.
LEMMA MoreIsAppend ==
  ASSUME NEW S, NEW s \in Seq(S), NEW e \in S, NEW E, More(E, s, e),
         E = [k \in DOMAIN E |-> E[k]]
  PROVE  E = Append(s, e)
<1>1. PICK n \in Nat : /\ DOMAIN s = 1..n /\ DOMAIN E = 1..n + 1
                       /\ E[n + 1] = e /\ \A k \in 1..n : E[k] = s[k]
  BY DEF More
<1>2. Len(s) = n
  BY <1>1
<1>3. PICK a \in Seq(S) : a = Append(s, e)
  BY AppendProperties
<1>4. /\ Len(a) = n + 1 /\ a[n + 1] = e /\ \A k \in 1..n : a[k] = s[k]
  BY <1>2, <1>3, AppendProperties
<1>5. \A k \in 1..n + 1 : a[k] = E[k]
  <2>1. \A k \in 1..n + 1 : k \in 1..n \/ k = n + 1
    BY <1>1
  <2> QED
    BY <1>1, <1>4, <2>1
<1>6. a = [k \in 1..n + 1 |-> a[k]]
  BY <1>4
<1> QED
  BY <1>1, <1>3, <1>5, <1>6

----------------------------------------------------------------------------
(* What the parser has read.                                               *)

\* s is what comes before the first of E that fails validation.
Cut(E, s) ==
  /\ Len(s) + 1 \in DOMAIN E /\ ~Valid(E[Len(s) + 1])
  /\ \A i \in 1..Len(s) : s[i] = E[i] /\ Valid(s[i])

\* The parser, with what was drained, is where the lines L lead.
ReadUpTo(p, d, L, n) ==
  /\ DOMAIN L = 1..n
  /\ p.threw => Cut(EventsOf(L), d \o p.out)
  /\ ~p.threw =>
       /\ p.type = TypeBefore(L, n + 1) /\ p.data = DataBefore(L, n + 1)
       /\ p.id = IdBefore(L, n + 1) /\ p.retry = RetryBefore(L, n + 1)
       /\ d \o p.out = EventsOf(L)
       /\ \A i \in 1..Len(d \o p.out) : Valid((d \o p.out)[i])

Reading(p, d, L) == \E n \in Nat : ReadUpTo(p, d, L, n)

LEMMA OneIsSeq ==
  ASSUME NEW S, NEW x \in S
  PROVE  <<x>> \in Seq(S)
  BY SeqDef

LEMMA CutStays ==
  ASSUME NEW S, NEW s \in Seq(S), NEW E, NEW F, NEW e, Cut(E, s), More(F, E, e)
  PROVE  Cut(F, s)
<1>1. PICK n \in Nat : /\ DOMAIN E = 1..n /\ DOMAIN F = 1..n + 1
                       /\ \A k \in 1..n : F[k] = E[k]
  BY DEF More
<1>2. Len(s) \in Nat /\ Len(s) + 1 \in 1..n
  BY <1>1, LenProperties DEF Cut
<1>3. Len(s) + 1 \in DOMAIN F /\ F[Len(s) + 1] = E[Len(s) + 1]
  BY <1>1, <1>2
<1>4. \A i \in 1..Len(s) : F[i] = E[i]
  BY <1>1, <1>2
<1> QED
  BY <1>3, <1>4 DEF Cut

LEMMA AfterLine ==
  ASSUME NEW p \in Parsers, NEW d \in Seq(Told), NEW L, NEW M,
         NEW line \in Texts, More(M, L, line), Reading(p, d, L)
  PROVE  /\ Reading(ProcessLine(p, line), d, M)
         /\ ProcessLine(p, line) \in Parsers
         /\ ProcessLine(p, line).buffer = p.buffer
         /\ ProcessLine(p, line).begun = p.begun
<1>1. PICK n \in Nat :
        /\ DOMAIN L = 1..n /\ DOMAIN M = 1..n + 1
        /\ M[n + 1] = line /\ \A k \in 1..n : M[k] = L[k]
  BY DEF More
<1>2. ReadUpTo(p, d, L, n)
  <2>1. PICK m \in Nat : ReadUpTo(p, d, L, m)
    BY DEF Reading
  <2>2. 1..m = 1..n
    BY <1>1, <2>1 DEF ReadUpTo
  <2>3. m = n
    <3>1. m \in 1..m <=> m # 0
      OBVIOUS
    <3>2. n \in 1..n <=> n # 0
      OBVIOUS
    <3> QED
      BY <2>2, <3>1, <3>2
  <2> QED
    BY <2>1, <2>3
<1>3. p.out \in Seq(Told) /\ d \o p.out \in Seq(Told)
  BY ConcatProperties DEF Parsers
<1>4. n + 1 \in Nat \ {0} /\ (n + 1) + 1 = n + 2
  OBVIOUS
<1>5. ValueOf(line) \in Texts
  BY ValueType
<1>6. PICK q : q = ProcessLine(p, line)
  OBVIOUS
<1>7. CASE p.threw
  <2>1. q = p
    BY <1>6, <1>7 DEF ProcessLine
  <2>2. Cut(EventsOf(M), d \o p.out)
    <3>1. Cut(EventsOf(L), d \o p.out)
      BY <1>2, <1>7 DEF ReadUpTo
    <3>2. \/ EventsOf(M) = EventsOf(L)
          \/ More(EventsOf(M), EventsOf(L), EventAt(L, n + 1))
      BY <1>1, MoreEvents
    <3> QED
      BY <1>3, <3>1, <3>2, CutStays
  <2>3. ReadUpTo(p, d, M, n + 1)
    BY <1>1, <1>7, <2>2 DEF ReadUpTo
  <2> QED
    BY <1>4, <1>6, <2>1, <2>3 DEF Reading
<1>8. ASSUME ~p.threw
      PROVE  /\ p.type = TypeBefore(L, n + 1) /\ p.data = DataBefore(L, n + 1)
             /\ p.id = IdBefore(L, n + 1) /\ p.retry = RetryBefore(L, n + 1)
             /\ d \o p.out = EventsOf(L)
             /\ \A i \in 1..Len(d \o p.out) : Valid((d \o p.out)[i])
             /\ p.data \in Seq(Texts)
  BY <1>2, <1>8 DEF ReadUpTo, Parsers
<1>9. CASE ~p.threw /\ line # <<>>
  <2>1. /\ q \in Parsers
        /\ q.buffer = p.buffer /\ q.begun = p.begun /\ q.out = p.out
        /\ ~q.threw
        /\ q.type = IF IsType(line) THEN ValueOf(line) ELSE p.type
        /\ q.data = IF FieldOf(line) = <<"data">>
                    THEN Append(p.data, ValueOf(line)) ELSE p.data
        /\ q.id = IF IsId(line) THEN ValueOf(line) ELSE p.id
        /\ q.retry = IF IsRetry(line) THEN ValueOf(line) ELSE p.retry
    BY <1>6, <1>9, FieldLine
  <2>2. EventsOf(M) = EventsOf(L)
    BY <1>1, <1>9, MoreEvents
  <2>3. /\ q.type = TypeBefore(M, n + 2) /\ q.id = IdBefore(M, n + 2)
        /\ q.retry = RetryBefore(M, n + 2)
    BY <1>1, <1>8, <1>9, <2>1, ValuesThen, NoField
  <2>4. q.data = DataBefore(M, n + 2)
    <3>1. DataBefore(L, n + 1) \in Seq(Texts)
      BY <1>8, <1>9
    <3>2. DataBefore(M, n + 2)
            = IF FieldOf(line) = <<"data">>
              THEN Append(DataBefore(L, n + 1), ValueOf(line))
              ELSE DataBefore(L, n + 1)
      BY <1>1, <1>5, <1>9, <3>1, DataBeforeThen
    <3> QED
      BY <1>8, <1>9, <2>1, <3>2
  <2>5. ReadUpTo(q, d, M, n + 1)
    BY <1>1, <1>4, <1>8, <1>9, <2>1, <2>2, <2>3, <2>4 DEF ReadUpTo
  <2> QED
    BY <1>4, <1>6, <2>1, <2>5 DEF Reading
<1>10. CASE ~p.threw /\ line = <<>>
  <2>1. q = Dispatch(p)
    BY <1>6, <1>10 DEF ProcessLine
  <2>2. /\ q \in Parsers /\ (p.data # <<>> => Ready(p) \in Told)
        /\ q.buffer = p.buffer /\ q.begun = p.begun
        /\ q.id = p.id /\ q.retry = p.retry
        /\ p.data = <<>> =>
             /\ q.type = <<>> /\ q.data = <<>>
             /\ q.out = p.out /\ q.threw = p.threw
        /\ p.data # <<>> /\ ~Valid(Ready(p)) => q.threw /\ q.out = p.out
        /\ p.data # <<>> /\ Valid(Ready(p)) =>
             /\ q.type = <<>> /\ q.data = <<>> /\ q.threw = p.threw
             /\ q.out = Append(p.out, Ready(p))
    BY <2>1, BlankLine
  <2>3. /\ TypeBefore(M, n + 2) = <<>> /\ IdBefore(M, n + 2) = p.id
        /\ RetryBefore(M, n + 2) = p.retry
    BY <1>1, <1>8, <1>10, ValuesThen, NoField
  <2>4. DataBefore(M, n + 2) = <<>>
    <3>1. DataBefore(L, n + 1) \in Seq(Texts)
      BY <1>8, <1>10
    <3> QED
      BY <1>1, <1>5, <1>10, <3>1, DataBeforeThen
  <2>5. Ready(p) = EventAt(L, n + 1)
    BY <1>8, <1>10 DEF Ready, EventAt
  <2>6. p.data = <<>> <=> DataLines(L, n + 1) = {}
    BY <1>4, <1>8, <1>10, DataNone
  <2>7. CASE p.data = <<>>
    <3>1. EventsOf(M) = EventsOf(L)
      BY <1>1, <2>6, <2>7, MoreEvents
    <3>2. ReadUpTo(q, d, M, n + 1)
      BY <1>1, <1>4, <1>8, <1>10, <2>2, <2>3, <2>4, <2>7, <3>1 DEF ReadUpTo
    <3> QED
      BY <1>4, <1>6, <2>2, <3>2 DEF Reading
  <2>8. ASSUME p.data # <<>>
        PROVE  More(EventsOf(M), d \o p.out, Ready(p))
    BY <1>1, <1>8, <1>10, <2>5, <2>6, <2>8, MoreEvents
  <2>9. CASE p.data # <<>> /\ ~Valid(Ready(p))
    <3>1. PICK m \in Nat :
            /\ DOMAIN (d \o p.out) = 1..m /\ DOMAIN EventsOf(M) = 1..m + 1
            /\ EventsOf(M)[m + 1] = Ready(p)
            /\ \A k \in 1..m : EventsOf(M)[k] = (d \o p.out)[k]
      BY <2>8, <2>9 DEF More
    <3>2. Len(d \o p.out) = m
      BY <1>3, <3>1
    <3>3. Cut(EventsOf(M), d \o p.out)
      BY <1>8, <1>10, <2>9, <3>1, <3>2 DEF Cut
    <3>4. ReadUpTo(q, d, M, n + 1)
      BY <1>1, <2>2, <2>9, <3>3 DEF ReadUpTo
    <3> QED
      BY <1>4, <1>6, <2>2, <3>4 DEF Reading
  <2>10. CASE p.data # <<>> /\ Valid(Ready(p))
    <3>1. d \o q.out = Append(d \o p.out, Ready(p))
      <4>1. PICK r \in Told : r = Ready(p)
        BY <2>2, <2>10
      <4>2. q.out = p.out \o <<r>>
        BY <1>3, <2>2, <2>10, <4>1, AppendIsConcat
      <4>3. <<r>> \in Seq(Told)
        BY <4>1, OneIsSeq
      <4>4. d \o (p.out \o <<r>>) = (d \o p.out) \o <<r>>
        <5>1. PICK u \in Seq(Told), t \in Seq(Told) : u = p.out /\ t = <<r>>
          BY <1>3, <4>3
        <5>2. d \o (u \o t) = (d \o u) \o t
          BY ConcatAssociative
        <5> QED
          BY <5>1, <5>2
      <4>5. Append(d \o p.out, r) = (d \o p.out) \o <<r>>
        BY <1>3, AppendIsConcat
      <4> QED
        BY <4>1, <4>2, <4>4, <4>5
    <3>2. EventsOf(M) = Append(d \o p.out, Ready(p))
      <4>1. Ready(p) \in Told
        BY <2>2, <2>10
      <4> QED
        BY <1>3, <2>8, <2>10, <4>1, MoreIsAppend, EventsAre
    <3>3. \A i \in 1..Len(d \o q.out) : Valid((d \o q.out)[i])
      <4>1. PICK s \in Seq(Told), r \in Told : s = d \o p.out /\ r = Ready(p)
        BY <1>3, <2>2, <2>10
      <4>2. /\ Len(Append(s, r)) = Len(s) + 1 /\ Len(s) \in Nat
            /\ \A i \in 1..Len(s) : Append(s, r)[i] = s[i]
            /\ Append(s, r)[Len(s) + 1] = r
        BY AppendProperties
      <4>3. \A i \in 1..Len(s) : Valid(s[i])
        BY <1>8, <1>10, <4>1
      <4>4. ASSUME NEW i \in 1..Len(s) + 1 PROVE Valid(Append(s, r)[i])
        <5>1. CASE i \in 1..Len(s)
          BY <4>2, <4>3, <5>1
        <5>2. CASE i = Len(s) + 1
          BY <2>10, <4>1, <4>2, <5>2
        <5> QED
          BY <4>2, <5>1, <5>2
      <4> QED
        BY <3>1, <4>1, <4>2, <4>4
    <3>4. ReadUpTo(q, d, M, n + 1)
      BY <1>1, <1>4, <1>10, <2>2, <2>3, <2>4, <2>10, <3>1, <3>2, <3>3
         DEF ReadUpTo
    <3> QED
      BY <1>4, <1>6, <2>2, <3>4 DEF Reading
  <2> QED
    BY <2>7, <2>9, <2>10
<1> QED
  BY <1>7, <1>9, <1>10

LEMMA LeastIs ==
  ASSUME NEW J \in SUBSET Nat, NEW m \in J, \A j \in J : m <= j
  PROVE  Min(J) = m
<1>1. PICK x : x = Min(J)
  OBVIOUS
<1>2. x \in J /\ \A j \in J : x <= j
  BY <1>1 DEF Min
<1> QED
  BY <1>1, <1>2

\* What was read is the reference's answer.
LEMMA ReadingIs ==
  ASSUME NEW p \in Parsers, NEW d \in Seq(Told), NEW L, Reading(p, d, L)
  PROVE  d \o p.out = ValidPrefix(EventsOf(L))
<1>1. PICK n \in Nat : ReadUpTo(p, d, L, n)
  BY DEF Reading
<1>2. PICK s \in Seq(Told) : s = d \o p.out
  BY ConcatProperties DEF Parsers
<1>3. PICK E, c : E = EventsOf(L) /\ c = Cardinality(EventEnds(L)) /\ c \in Nat
  BY <1>1, EventEndsIn DEF ReadUpTo
<1>4. DOMAIN E = 1..c /\ E = [k \in 1..c |-> E[k]]
  BY <1>3, EventsAre
<1>5. PICK U : U = {E[k] : k \in 1..c}
  OBVIOUS
<1>6. E \in [1..c -> U]
  BY <1>4, <1>5
<1>7. E \in Seq(U) /\ Len(E) = c
  <2>1. E \in Seq(U)
    BY <1>3, <1>6, SeqDef
  <2> QED
    BY <1>3, <1>4, <2>1
<1> DEFINE I == {i \in 1..Len(E) : ~Valid(E[i])}
<1>8. ValidPrefix(E) = LET bad == IF I # {} THEN Min(I) ELSE 0
                       IN  IF bad = 0 THEN E ELSE SubSeq(E, 1, bad - 1)
  BY DEF ValidPrefix, SelectInSeq
<1>9. CASE ~p.threw
  <2>1. s = E /\ \A i \in 1..Len(s) : Valid(s[i])
    BY <1>1, <1>2, <1>3, <1>9 DEF ReadUpTo
  <2>2. I = {}
    BY <2>1
  <2> QED
    BY <1>2, <1>3, <1>8, <2>1, <2>2
<1>10. CASE p.threw
  <2>1. /\ Len(s) + 1 \in DOMAIN E /\ ~Valid(E[Len(s) + 1])
        /\ \A i \in 1..Len(s) : s[i] = E[i] /\ Valid(s[i])
    BY <1>1, <1>2, <1>3, <1>10 DEF ReadUpTo, Cut
  <2>2. PICK m \in Nat : m = Len(s)
    BY <1>2, LenProperties
  <2>3. m + 1 \in 1..c
    BY <1>4, <2>1, <2>2
  <2>4. m + 1 \in I /\ I \in SUBSET Nat
    BY <1>7, <2>1, <2>2, <2>3
  <2>5. ASSUME NEW i \in I PROVE m + 1 <= i
    <3>1. i \in 1..c /\ ~Valid(E[i])
      BY <1>7
    <3>2. i \notin 1..m
      BY <2>1, <2>2, <3>1
    <3> QED
      BY <3>1, <3>2
  <2> HIDE DEF I
  <2>6. Min(I) = m + 1
    BY <2>4, <2>5, LeastIs
  <2>7. ValidPrefix(E) = SubSeq(E, 1, m)
    <3>1. I # {} /\ m + 1 # 0 /\ (m + 1) - 1 = m
      BY <2>4
    <3> QED
      BY <1>8, <2>6, <3>1
  <2>8. /\ SubSeq(E, 1, m) \in Seq(U) /\ Len(SubSeq(E, 1, m)) = m
        /\ \A i \in 1..m : SubSeq(E, 1, m)[i] = E[i]
    <3>1. \A i \in 1..m : E[i] \in U
      <4>1. \A i \in 1..m : i \in 1..c
        BY <1>3, <2>2, <2>3
      <4> QED
        BY <1>5, <4>1
    <3> QED
      BY <2>2, <3>1, SubSeqProperties
  <2>9. s = SubSeq(E, 1, m)
    <3>1. PICK r \in Seq(U) : r = SubSeq(E, 1, m)
      BY <2>8
    <3>2. Len(r) = m /\ \A i \in 1..m : r[i] = s[i]
      BY <2>1, <2>2, <2>8, <3>1
    <3> QED
      BY <2>2, <3>1, <3>2
  <2> QED
    BY <1>2, <1>3, <2>7, <2>9
<1> QED
  BY <1>9, <1>10

----------------------------------------------------------------------------
(* The lines of a text that goes on.                                       *)

Upto(t, e) == SubSeq(t, 1, e)

LEMMA UptoIs ==
  ASSUME NEW t \in Texts, NEW e \in 0..Len(t)
  PROVE  /\ Upto(t, e) \in Texts /\ Len(Upto(t, e)) = e /\ Len(t) \in Nat
         /\ \A i \in 1..e : Upto(t, e)[i] = t[i]
<1>1. Len(t) \in Nat
  BY DEF Texts
<1>2. \A i \in 1..e : t[i] \in Atoms
  BY <1>1, ElementOfSeq DEF Texts
<1>3. e \in Int
  OBVIOUS
<1> QED
  BY <1>1, <1>2, <1>3, SubSeqProperties DEF Upto, Texts

\* Where no line ends, the lines stay the same.
LEMMA NoLineEnded ==
  ASSUME NEW t \in Texts, NEW s \in 1..Len(t) + 1, NEW e \in s - 1..Len(t),
         \A j \in s..e : Terminates(t, j) => AfterCR(t, j)
  PROVE  LinesOf(Upto(t, e)) = LinesOf(Upto(t, s - 1))
<1> DEFINE u == Upto(t, s - 1)
           v == Upto(t, e)
<1>1. Len(t) \in Nat /\ s - 1 \in 0..Len(t) /\ e \in 0..Len(t)
  BY DEF Texts
<1>2. /\ u \in Texts /\ Len(u) = s - 1 /\ v \in Texts /\ Len(v) = e
      /\ DOMAIN u = 1..s - 1 /\ DOMAIN v = 1..e
  <2>1. /\ u \in Texts /\ Len(u) = s - 1 /\ v \in Texts /\ Len(v) = e
    BY <1>1, UptoIs
  <2> HIDE DEF u, v
  <2> QED
    BY <2>1 DEF Texts
<1>3. /\ \A i \in 1..s - 1 : u[i] = t[i]
      /\ \A i \in 1..e : v[i] = t[i]
  BY <1>1, UptoIs
<1> HIDE DEF u, v
<1>4. \A i \in 1..Len(u) : u[i] = v[i]
  BY <1>1, <1>2, <1>3
<1>5. \A j \in 1..e : /\ Terminates(v, j) <=> Terminates(t, j)
                      /\ AfterCR(v, j) <=> AfterCR(t, j)
  BY <1>1, <1>3 DEF Terminates, AfterCR
<1>6. \A j \in 1..s - 1 : /\ Terminates(u, j) <=> Terminates(t, j)
                          /\ AfterCR(u, j) <=> AfterCR(t, j)
  BY <1>1, <1>3 DEF Terminates, AfterCR
<1>7. \A j \in 1..e : j \in 1..s - 1 \/ j \in s..e
  BY <1>1
<1>8. \A j \in 1..s - 1 : j \in 1..e
  BY <1>1
<1>9. LineEnds(v) = LineEnds(u)
  BY <1>2, <1>5, <1>6, <1>7, <1>8 DEF LineEnds
<1>10. LinesOf(v) = LinesOf(u)
  BY <1>1, <1>2, <1>4, <1>9, SameLines
<1> QED
  BY <1>10 DEF u, v

\* Where one ends, it is one more.
LEMMA LineEnded ==
  ASSUME NEW t \in Texts, NEW e \in 1..Len(t), NEW s \in 1..e,
         s = 1 \/ Terminates(t, s - 1),
         \A j \in s..e - 1 : ~Terminates(t, j),
         Terminates(t, e), ~AfterCR(t, e)
  PROVE  /\ More(LinesOf(Upto(t, e)), LinesOf(Upto(t, s - 1)),
                 SubSeq(t, s, e - 1))
         /\ SubSeq(t, s, e - 1) \in Texts
<1> DEFINE u == Upto(t, e - 1)
           v == Upto(t, e)
<1>1. /\ Len(t) \in Nat /\ e - 1 \in 0..Len(t) /\ e \in 0..Len(t)
      /\ e \in Nat \ {0} /\ s \in Nat \ {0} /\ s \in 1..Len(t) + 1
      /\ e - 1 \in s - 1..Len(t) /\ e - 1 \in Int
  BY DEF Texts
<1>2. /\ u \in Texts /\ Len(u) = e - 1 /\ v \in Texts /\ Len(v) = e
      /\ Len(v) = Len(u) + 1
  <2>1. u \in Texts /\ Len(u) = e - 1 /\ v \in Texts /\ Len(v) = e
    BY <1>1, UptoIs
  <2> HIDE DEF u, v
  <2> QED
    BY <1>1, <2>1
<1>3. /\ \A i \in 1..e - 1 : u[i] = t[i]
      /\ \A i \in 1..e : v[i] = t[i]
  BY <1>1, UptoIs
<1>4. LinesOf(u) = LinesOf(Upto(t, s - 1))
  BY <1>1, NoLineEnded
<1> HIDE DEF u, v
<1>5. \A i \in 1..Len(u) : u[i] = v[i]
  BY <1>1, <1>2, <1>3
<1>6. Terminates(v, Len(v)) /\ ~AfterCR(v, Len(v))
  <2>1. v[e] = t[e] /\ (e > 1 => v[e - 1] = t[e - 1])
    BY <1>1, <1>3
  <2> QED
    BY <1>2, <2>1 DEF Terminates, AfterCR
<1>7. More(LinesOf(v), LinesOf(u), SubSeq(v, LineStart(v, e), e - 1))
  <2>1. LineEnds(v) = LineEnds(u) \cup {Len(v)}
    BY <1>2, <1>5, <1>6, NextAtom
  <2> QED
    BY <1>2, <1>5, <2>1, OneLineMore
<1>8. LineStart(v, e) = s
  <2>1. s = 1 \/ Terminates(v, s - 1)
    <3>1. s # 1 => v[s - 1] = t[s - 1]
      BY <1>1, <1>3
    <3> QED
      BY <3>1 DEF Terminates
  <2>2. \A j \in s..e - 1 : ~Terminates(v, j)
    <3>1. \A j \in s..e - 1 : v[j] = t[j]
      BY <1>1, <1>3
    <3> QED
      BY <3>1 DEF Terminates
  <2> QED
    BY <1>1, <2>1, <2>2, StartIs
<1>9. SubSeq(v, s, e - 1) = SubSeq(t, s, e - 1)
  <2>1. \A i \in s..e - 1 : v[i] = t[i]
    BY <1>1, <1>3
  <2>2. e - 1 <= Len(v) /\ e - 1 <= Len(t)
    BY <1>1, <1>2
  <2> QED
    BY <1>1, <1>2, <2>1, <2>2, SubSeqSame DEF Texts
<1>10. SubSeq(t, s, e - 1) \in Texts
  <2>1. \A i \in s..e - 1 : t[i] \in Atoms
    <3>1. \A i \in s..e - 1 : i \in 1..Len(t)
      BY <1>1
    <3> QED
      BY <3>1, ElementOfSeq DEF Texts
  <2> QED
    BY <1>1, <2>1, SubSeqProperties DEF Texts
<1> QED
  BY <1>4, <1>7, <1>8, <1>9, <1>10 DEF v

----------------------------------------------------------------------------
(* What the parser consumes of its buffer.                                 *)

Tail0(t, s) == SubSeq(t, s, Len(t))

LEMMA TailIs ==
  ASSUME NEW t \in Texts, NEW s \in 1..Len(t) + 1
  PROVE  /\ Tail0(t, s) \in Texts /\ Len(Tail0(t, s)) = Len(t) - s + 1
         /\ Len(t) \in Nat
         /\ \A i \in 1..Len(t) - s + 1 : Tail0(t, s)[i] = t[s + i - 1]
<1>1. Len(t) \in Nat
  BY DEF Texts
<1>2. \A i \in s..Len(t) : t[i] \in Atoms
  BY <1>1, ElementOfSeq DEF Texts
<1>3. /\ SubSeq(t, s, Len(t)) \in Seq(Atoms)
      /\ Len(SubSeq(t, s, Len(t))) = IF s <= Len(t) THEN Len(t) - s + 1 ELSE 0
      /\ \A i \in 1..Len(t) - s + 1 : SubSeq(t, s, Len(t))[i] = t[s + i - 1]
  BY <1>1, <1>2, SubSeqProperties
<1> QED
  BY <1>1, <1>3 DEF Tail0, Texts

LEMMA PartOfTail ==
  ASSUME NEW t \in Texts, NEW s \in 1..Len(t) + 1,
         NEW n \in 0..Len(Tail0(t, s)), NEW m \in 1..n + 1
  PROVE  SubSeq(Tail0(t, s), m, n) = SubSeq(t, s + m - 1, s + n - 1)
<1>1. Len(t) \in Nat /\ Len(Tail0(t, s)) = Len(t) - s + 1
  BY TailIs
<1>2. CASE n < m
  <2>1. s + n - 1 < s + m - 1 /\ s + m - 1 \in Int /\ s + n - 1 \in Int
    BY <1>2
  <2>2. SubSeq(Tail0(t, s), m, n) = <<>>
    BY <1>2, SubSeqEmpty
  <2>3. SubSeq(t, s + m - 1, s + n - 1) = <<>>
    BY <2>1, SubSeqEmpty
  <2> QED
    BY <2>2, <2>3
<1>3. CASE m <= n
  <2>1. PICK e : e = Len(t)
    OBVIOUS
  <2>2. /\ s \in 1..Len(t) /\ e \in 1..Len(t) /\ m \in 1..e - s + 1
        /\ n \in 1..e - s + 1
    BY <1>1, <1>3, <2>1
  <2>3. SubSeq(SubSeq(t, s, e), m, n) = SubSeq(t, s + m - 1, s + n - 1)
    BY <2>2, SubSeqOfSubSeq DEF Texts
  <2> QED
    BY <2>1, <2>3 DEF Tail0
<1> QED
  BY <1>2, <1>3

\* The text t is read up to the atom before its s-th, and what comes next up
\* to its a-th is no line yet.
ReadBefore(q, d, t, s, a) ==
  /\ s = 1 \/ Terminates(t, s - 1)
  /\ \A j \in s..a : Terminates(t, j) => j = Len(t) /\ t[j] = "CR"
  /\ s > 1 /\ t[s - 1] = "CR" => s <= Len(t) /\ (s <= a => t[s] # "LF")
  /\ Reading(q, d, LinesOf(Upto(t, s - 1)))

\* consumeLines after k atoms of the buffer, which starts at the s-th of t.
ScannedSome(at, t, s, k, p, d) ==
  /\ at \in [start : Nat, p : Parsers]
  /\ at.p.buffer = p.buffer /\ at.p.begun = p.begun
  /\ at.start \in 1..k + 1
  /\ ReadBefore(at.p, d, t, s + at.start - 1, s + k - 1)

NoSplitCRLF(t, s) == s > 1 /\ t[s - 1] = "CR" => t[s] # "LF"

LEMMA ScannedMore ==
  ASSUME NEW t \in Texts, NEW s \in 1..Len(t) + 1, NoSplitCRLF(t, s),
         NEW d \in Seq(Told), NEW p, NEW at,
         NEW i \in 1..Len(Tail0(t, s)), ScannedSome(at, t, s, i - 1, p, d)
  PROVE  ScannedSome(Scanned(at, Tail0(t, s), i), t, s, i, p, d)
<1> DEFINE b == Tail0(t, s)
           from == s + at.start - 1
           a == s + i - 1
           to == Scanned(at, b, i)
<1>1. /\ b \in Texts /\ Len(b) = Len(t) - s + 1 /\ Len(t) \in Nat
      /\ i \in 1..Len(b) /\ \A k \in 1..Len(b) : b[k] = t[s + k - 1]
  BY TailIs
<1>2. /\ at \in [start : Nat, p : Parsers] /\ at.start \in 1..i
      /\ at.p.buffer = p.buffer /\ at.p.begun = p.begun
      /\ ReadBefore(at.p, d, t, from, a - 1)
  <2>1. (i - 1) + 1 = i /\ s + (i - 1) - 1 = a - 1
    OBVIOUS
  <2> QED
    BY <2>1 DEF ScannedSome
<1>3. /\ a \in 1..Len(t) /\ b[i] = t[a] /\ from \in 1..a /\ (i = Len(b) <=> a = Len(t))
      /\ (i > 1 => b[i - 1] = t[a - 1]) /\ a - 1 \in Int /\ a + 1 = s + (i + 1) - 1
  <2> HIDE DEF b
  <2>1. a \in 1..Len(t) /\ b[i] = t[a] /\ (i = Len(b) <=> a = Len(t))
    BY <1>1
  <2>2. from \in 1..a /\ a - 1 \in Int /\ a + 1 = s + (i + 1) - 1
    BY <1>2
  <2>3. ASSUME i > 1 PROVE b[i - 1] = t[a - 1]
    <3>1. i - 1 \in 1..Len(b) /\ s + (i - 1) - 1 = a - 1
      BY <1>1, <2>3
    <3> QED
      BY <1>1, <3>1
  <2> QED
    BY <2>1, <2>2, <2>3
<1>4. AfterCR(b, i) <=> AfterCR(t, a)
  <2> HIDE DEF b
  <2>1. i = 1 => a = s
    OBVIOUS
  <2>2. i > 1 => a > 1
    OBVIOUS
  <2> QED
    BY <1>3, <2>1, <2>2 DEF AfterCR, NoSplitCRLF
<1>5. Held(b, i) <=> t[a] = "CR" /\ a = Len(t)
  BY <1>3 DEF Held
<1> HIDE DEF b, from
<1>6. /\ from = 1 \/ Terminates(t, from - 1)
      /\ \A j \in from..a - 1 : ~Terminates(t, j)
      /\ from > 1 /\ t[from - 1] = "CR" =>
           from <= Len(t) /\ (from <= a - 1 => t[from] # "LF")
      /\ Reading(at.p, d, LinesOf(Upto(t, from - 1)))
  <2>1. \A j \in from..a - 1 : j # Len(t)
    BY <1>1, <1>3
  <2> QED
    BY <1>2, <2>1 DEF ReadBefore
<1>7. CASE ~Terminates(t, a) \/ Held(b, i)
  <2>1. to = at
    <3>1. b[i] \notin {"CR", "LF"} \/ Held(b, i)
      BY <1>3, <1>7 DEF Terminates
    <3>2. ~AfterCR(b, i)
      BY <3>1 DEF Held, AfterCR
    <3> QED
      BY <3>1, <3>2 DEF Scanned
  <2>2. \A j \in from..a : j \in from..a - 1 \/ j = a
    BY <1>3
  <2>3. t[a] # "LF"
    BY <1>5, <1>7 DEF Terminates
  <2>4. from <= a => from <= a - 1 \/ from = a
    BY <1>3
  <2>5. ReadBefore(at.p, d, t, from, a)
    BY <1>5, <1>6, <1>7, <2>2, <2>3, <2>4 DEF ReadBefore
  <2>6. at.start \in 1..i + 1
    BY <1>2
  <2> QED
    BY <1>2, <2>1, <2>5, <2>6 DEF ScannedSome, from, b
<1>8. CASE Terminates(t, a) /\ ~Held(b, i)
  <2>1. /\ (a + 1) - 1 = a /\ a + 1 > a /\ i + 1 \in Nat /\ i + 1 \in 1..i + 1
        /\ a + 1 # 1 /\ \A j \in a + 1..a : FALSE
    <3>1. i + 1 \in Nat /\ i + 1 \in 1..i + 1
      OBVIOUS
    <3>2. PICK c \in Nat \ {0} : c = a
      BY <1>3
    <3>3. (c + 1) - 1 = c /\ c + 1 > c /\ c + 1 # 1 /\ \A j \in c + 1..c : FALSE
      OBVIOUS
    <3> HIDE DEF a
    <3> QED
      BY <3>1, <3>2, <3>3
  <2>2. CASE AfterCR(t, a)
    <3>1. to = [at EXCEPT !.start = i + 1]
      BY <1>3, <1>4, <1>8, <2>2 DEF Scanned, Terminates
    <3>2. /\ to \in [start : Nat, p : Parsers] /\ to.p = at.p
          /\ to.start = i + 1
      BY <1>2, <2>1, <3>1
    <3>3. LinesOf(Upto(t, a)) = LinesOf(Upto(t, from - 1))
      <4>1. /\ from \in 1..Len(t) + 1 /\ a \in from - 1..Len(t)
            /\ \A j \in from..a : j \in from..a - 1 \/ j = a
        BY <1>1, <1>3
      <4>2. \A j \in from..a : Terminates(t, j) => AfterCR(t, j)
        BY <1>6, <2>2, <4>1
      <4> QED
        BY <4>1, <4>2, NoLineEnded
    <3>4. t[a] # "CR"
      BY <2>2 DEF AfterCR
    <3>5. ReadBefore(at.p, d, t, a + 1, a)
      BY <1>6, <1>8, <2>1, <3>3, <3>4 DEF ReadBefore
    <3> QED
      BY <1>2, <1>3, <2>1, <3>2, <3>5 DEF ScannedSome, b
  <2>3. CASE ~AfterCR(t, a)
    <3>1. to = [start |-> i + 1,
                p |-> ProcessLine(at.p, SubSeq(b, at.start, i - 1))]
      BY <1>3, <1>4, <1>8, <2>3 DEF Scanned, Terminates
    <3>2. SubSeq(b, at.start, i - 1) = SubSeq(t, from, a - 1)
      <4>1. PICK n, m : n = i - 1 /\ m = at.start
        OBVIOUS
      <4>2. n \in 0..Len(Tail0(t, s)) /\ m \in 1..n + 1
        BY <1>2, <4>1
      <4>3. SubSeq(Tail0(t, s), m, n) = SubSeq(t, s + m - 1, s + n - 1)
        BY <4>2, PartOfTail
      <4>4. s + n - 1 = a - 1
        BY <4>1
      <4> QED
        BY <4>1, <4>3, <4>4 DEF from, b
    <3>3. PICK line : line = SubSeq(t, from, a - 1)
      OBVIOUS
    <3>4. /\ More(LinesOf(Upto(t, a)), LinesOf(Upto(t, from - 1)), line)
          /\ line \in Texts
      BY <1>3, <1>6, <1>8, <2>3, <3>3, LineEnded
    <3>5. at.p \in Parsers
      BY <1>2
    <3>6. PICK q : q = ProcessLine(at.p, line)
      OBVIOUS
    <3>7. /\ Reading(q, d, LinesOf(Upto(t, a))) /\ q \in Parsers
          /\ q.buffer = p.buffer /\ q.begun = p.begun
      BY <1>2, <1>6, <3>4, <3>5, <3>6, AfterLine
    <3>8. /\ to \in [start : Nat, p : Parsers] /\ to.p = q
          /\ to.start = i + 1
      <4>1. to = [start |-> i + 1, p |-> q]
        BY <3>1, <3>2, <3>3, <3>6
      <4> HIDE DEF to
      <4> QED
        BY <2>1, <3>7, <4>1
    <3>9. t[a] = "CR" => a + 1 <= Len(t)
      BY <1>1, <1>3, <1>5, <1>8
    <3>10. ReadBefore(q, d, t, a + 1, a)
      BY <1>8, <2>1, <3>7, <3>9 DEF ReadBefore
    <3> QED
      BY <1>3, <2>1, <3>7, <3>8, <3>10 DEF ScannedSome, b
  <2> QED
    BY <2>2, <2>3
<1> QED
  BY <1>7, <1>8

\* The fold of consumeLines: it[1..k] is the scan of the first k atoms.
Fills(it, buf, seq, base, D) ==
  it = [x \in SUBSET D |->
          IF x = {} THEN base
          ELSE Scanned(it[x \ {Max(x)}], buf, seq[Max(x)])]

LEMMA GreatestOf ==
  ASSUME NEW n \in Nat, NEW x \in SUBSET (1..n), n \in x
  PROVE  Max(x) = n
<1>1. x \in SUBSET (0..n) /\ \A j \in x : j <= n
  OBVIOUS
<1> QED
  BY <1>1, MaxIs

LEMMA FillsOn ==
  ASSUME NEW n \in Nat, NEW buf, NEW seq, NEW base, NEW it,
         Fills(it, buf, seq, base, 1..n)
  PROVE  \E new : Fills(new, buf, seq, base, 1..(n + 1))
<1> DEFINE new == [x \in SUBSET (1..(n + 1)) |->
                     IF n + 1 \in x
                     THEN Scanned(it[x \ {n + 1}], buf, seq[n + 1])
                     ELSE it[x]]
<1>1. ASSUME NEW x \in SUBSET (1..(n + 1))
      PROVE  new[x] = IF x = {} THEN base
                      ELSE Scanned(new[x \ {Max(x)}], buf, seq[Max(x)])
  <2>1. CASE n + 1 \in x
    <3>1. Max(x) = n + 1
      BY <2>1, GreatestOf
    <3>2. /\ x \ {n + 1} \in SUBSET (1..(n + 1)) /\ n + 1 \notin x \ {n + 1}
      OBVIOUS
    <3>3. new[x \ {n + 1}] = it[x \ {n + 1}]
      BY <3>2
    <3> QED
      BY <2>1, <3>1, <3>3
  <2>2. CASE n + 1 \notin x
    <3>1. x \in SUBSET (1..n) /\ new[x] = it[x]
      BY <2>2
    <3>2. it[x] = IF x = {} THEN base
                  ELSE Scanned(it[x \ {Max(x)}], buf, seq[Max(x)])
      BY <3>1 DEF Fills
    <3>3. /\ x \ {Max(x)} \in SUBSET (1..(n + 1))
          /\ n + 1 \notin x \ {Max(x)}
      BY <2>2
    <3>4. new[x \ {Max(x)}] = it[x \ {Max(x)}]
      BY <3>3
    <3> QED
      BY <3>1, <3>2, <3>4
  <2> QED
    BY <2>1, <2>2
<1>2. new = [x \in SUBSET (1..(n + 1)) |-> new[x]]
  OBVIOUS
<1> HIDE DEF new
<1>3. Fills(new, buf, seq, base, 1..(n + 1))
  BY <1>1, <1>2 DEF Fills
<1> QED
  BY <1>3

LEMMA FillExists ==
  ASSUME NEW n \in Nat, NEW buf, NEW seq, NEW base
  PROVE  \E it : Fills(it, buf, seq, base, 1..n)
<1> DEFINE T == {k \in Nat : ~\E it : Fills(it, buf, seq, base, 1..k)}
<1>1. SUFFICES ASSUME T # {} PROVE FALSE
  OBVIOUS
<1>2. PICK k \in T : \A y \in T : k <= y
  BY <1>1, LeastNumber
<1>3. CASE k = 0
  <2>1. PICK it : it = [x \in SUBSET (1..0) |-> base]
    OBVIOUS
  <2>2. ASSUME NEW x \in SUBSET (1..0) PROVE x = {}
    BY <2>2
  <2>3. it = [x \in SUBSET (1..0) |->
                IF x = {} THEN base
                ELSE Scanned(it[x \ {Max(x)}], buf, seq[Max(x)])]
    BY <2>1, <2>2
  <2> QED
    BY <1>2, <1>3, <2>3 DEF Fills
<1>4. CASE k # 0
  <2>1. k - 1 \in Nat /\ k - 1 \notin T
    BY <1>2, <1>4
  <2>2. PICK it : Fills(it, buf, seq, base, 1..(k - 1))
    BY <2>1
  <2>3. \E new : Fills(new, buf, seq, base, 1..((k - 1) + 1))
    BY <2>1, <2>2, FillsOn
  <2>4. (k - 1) + 1 = k
    BY <1>2
  <2> QED
    BY <1>2, <2>3, <2>4
<1> QED
  BY <1>3, <1>4

Consumed(p, buf) == FoldLeftDomain(LAMBDA at, i : Scanned(at, buf, i),
                                   [start |-> 1, p |-> p], buf)

LEMMA FoldIs ==
  ASSUME NEW n \in Nat, NEW buf, DOMAIN buf = 1..n, NEW p
  PROVE  \E it, seq :
           /\ Fills(it, buf, seq, [start |-> 1, p |-> p], 1..n)
           /\ Consumed(p, buf) = it[1..n]
           /\ \A i \in 1..n : seq[i] = i
<1> DEFINE seq == [i \in DOMAIN buf |-> i]
           it == CHOOSE g : Fills(g, buf, seq, [start |-> 1, p |-> p], 1..n)
<1>1. DOMAIN seq = 1..n /\ \A i \in 1..n : seq[i] = i
  OBVIOUS
<1>2. Fills(it, buf, seq, [start |-> 1, p |-> p], 1..n)
  BY FillExists
<1>3. Consumed(p, buf) = it[1..n]
  BY <1>1 DEF Consumed, FoldLeftDomain, FoldLeft, MapThenFoldSet, Fills
<1> HIDE DEF it, seq
<1> QED
  BY <1>1, <1>2, <1>3

\* What consumeLines leaves is all read but the beginning of a line.
LEMMA ScannedAll ==
  ASSUME NEW t \in Texts, NEW s \in 1..Len(t) + 1, NoSplitCRLF(t, s),
         NEW d \in Seq(Told), NEW p \in Parsers, ReadBefore(p, d, t, s, s - 1),
         NEW buf, buf = Tail0(t, s)
  PROVE  ScannedSome(Consumed(p, buf), t, s, Len(buf), p, d)
<1>1. PICK base, n : base = [start |-> 1, p |-> p] /\ n = Len(buf)
  OBVIOUS
<1>2. n \in Nat /\ DOMAIN buf = 1..n
  BY <1>1, TailIs DEF Texts
<1>3. PICK it, seq :
        /\ Fills(it, buf, seq, base, 1..n)
        /\ Consumed(p, buf) = it[1..n]
        /\ \A i \in 1..n : seq[i] = i
  BY <1>1, <1>2, FoldIs
<1> DEFINE F(k) == ScannedSome(it[1..k], t, s, k, p, d)
           T == {k \in Nat : k <= n /\ ~F(k)}
<1>6. ASSUME T # {} PROVE FALSE
  <2>1. PICK k \in T : \A y \in T : k <= y
    BY <1>6, LeastNumber
  <2>2. k \in Nat /\ k <= n
    BY <2>1
  <2>0. ~F(k)
    BY <2>1
  <2> HIDE DEF T
  <2>3. it[1..k] = IF 1..k = {} THEN base
                   ELSE Scanned(it[(1..k) \ {Max(1..k)}], buf, seq[Max(1..k)])
    <3>1. 1..k \in SUBSET (1..n)
      BY <1>2, <2>2
    <3> QED
      BY <1>3, <3>1 DEF Fills
  <2>4. CASE k = 0
    <3>1. it[1..k] = base
      BY <2>3, <2>4
    <3>2. /\ base \in [start : Nat, p : Parsers] /\ base.p = p
          /\ base.start = 1
      BY <1>1
    <3>3. s + 1 - 1 = s /\ s + k - 1 = s - 1 /\ base.start \in 1..k + 1
      BY <2>4, <3>2
    <3> QED
      BY <2>0, <3>1, <3>2, <3>3 DEF ScannedSome
  <2>5. CASE k # 0
    <3>1. k \in 1..k /\ k \in 1..n /\ 1..k \in SUBSET (1..k)
      BY <1>2, <2>2, <2>5
    <3>2. Max(1..k) = k
      BY <2>2, <3>1, GreatestOf
    <3>3. (1..k) \ {k} = 1..(k - 1) /\ 1..k # {}
      <4>1. \A i \in Int : i \in (1..k) \ {k} <=> i \in 1..(k - 1)
        BY <2>2
      <4>2. 1..k \subseteq Int /\ 1..(k - 1) \subseteq Int
        BY <2>2
      <4> QED
        BY <3>1, <4>1, <4>2
    <3>4. it[1..k] = Scanned(it[1..(k - 1)], buf, k)
      BY <1>3, <2>3, <3>1, <3>2, <3>3
    <3>5. k - 1 \in Nat /\ k - 1 <= n /\ k - 1 \notin T
      <4>1. k - 1 \in Nat /\ k - 1 <= n /\ ~(k <= k - 1)
        BY <1>2, <2>2, <2>5
      <4> QED
        BY <2>1, <4>1
    <3>6. ScannedSome(it[1..(k - 1)], t, s, k - 1, p, d)
      BY <3>5 DEF T
    <3>7. ScannedSome(Scanned(it[1..(k - 1)], Tail0(t, s), k), t, s, k, p, d)
      BY <1>1, <3>1, <3>6, ScannedMore
    <3> QED
      BY <2>0, <3>4, <3>7
  <2> QED
    BY <2>4, <2>5
<1>7. F(n)
  BY <1>2, <1>6
<1> QED
  BY <1>1, <1>3, <1>7

LEMMA ConsumeIs ==
  ASSUME NEW p, NEW buf, buf = p.buffer, NEW at, at = Consumed(p, buf)
  PROVE  ConsumeLines(p)
           = [at.p EXCEPT !.buffer = SubSeq(buf, at.start, Len(buf))]
  BY DEF ConsumeLines, Consumed, FoldLeftDomain, FoldLeft, MapThenFoldSet

\* The buffer and what is dispatched do not say where the lines led.
LEMMA ReadingSame ==
  ASSUME NEW p, NEW q, NEW d, NEW L, Reading(p, d, L),
         q.type = p.type, q.data = p.data, q.id = p.id, q.retry = p.retry,
         q.out = p.out, q.threw = p.threw
  PROVE  Reading(q, d, L)
  BY DEF Reading, ReadUpTo

LEMMA ConsumeReads ==
  ASSUME NEW t \in Texts, NEW s \in 1..Len(t) + 1, NoSplitCRLF(t, s),
         NEW d \in Seq(Told), NEW p \in Parsers, ReadBefore(p, d, t, s, s - 1),
         p.buffer = Tail0(t, s), NEW q, q = ConsumeLines(p)
  PROVE  /\ q \in Parsers /\ q.begun = p.begun
         /\ \E from \in 1..Len(t) + 1 :
              q.buffer = Tail0(t, from) /\ ReadBefore(q, d, t, from, Len(t))
<1>1. PICK buf : buf = p.buffer
  OBVIOUS
<1>2. buf \in Texts /\ Len(buf) = Len(t) - s + 1 /\ Len(t) \in Nat
  BY <1>1, TailIs
<1>3. PICK at : at = Consumed(p, buf)
  OBVIOUS
<1>4. ScannedSome(at, t, s, Len(buf), p, d)
  BY <1>1, <1>3, ScannedAll
<1>5. q = [at.p EXCEPT !.buffer = SubSeq(buf, at.start, Len(buf))]
  BY <1>1, <1>3, ConsumeIs
<1>6. PICK m \in 1..Len(buf) + 1 : m = at.start
  BY <1>4 DEF ScannedSome
<1>7. PICK from \in 1..Len(t) + 1 : from = s + m - 1
  BY <1>2
<1>8. SubSeq(buf, m, Len(buf)) = Tail0(t, from)
  <2>1. PICK n : n = Len(buf)
    OBVIOUS
  <2>2. n \in 0..Len(Tail0(t, s)) /\ m \in 1..n + 1 /\ s + n - 1 = Len(t)
    BY <1>1, <1>2, <2>1
  <2>3. SubSeq(Tail0(t, s), m, n) = SubSeq(t, s + m - 1, s + n - 1)
    BY <2>2, PartOfTail
  <2> QED
    BY <1>1, <1>7, <2>1, <2>2, <2>3 DEF Tail0
<1>9. Tail0(t, from) \in Texts
  BY TailIs
<1>10. /\ at.p \in Parsers /\ at.p.begun = p.begun
       /\ ReadBefore(at.p, d, t, from, Len(t))
  <2>1. s + Len(buf) - 1 = Len(t)
    BY <1>2
  <2> QED
    BY <1>4, <1>6, <1>7, <2>1 DEF ScannedSome
<1>11. PICK r \in Parsers : r = at.p
  BY <1>10
<1>12. q = [r EXCEPT !.buffer = Tail0(t, from)]
  BY <1>5, <1>6, <1>8, <1>11
<1>13. /\ q \in Parsers /\ q.begun = p.begun /\ q.buffer = Tail0(t, from)
       /\ q.type = r.type /\ q.data = r.data /\ q.id = r.id
       /\ q.retry = r.retry /\ q.out = r.out /\ q.threw = r.threw
  BY <1>9, <1>10, <1>11, <1>12 DEF Parsers
<1>14. ReadBefore(q, d, t, from, Len(t))
  BY <1>10, <1>11, <1>13, ReadingSame DEF ReadBefore
<1> QED
  BY <1>13, <1>14

----------------------------------------------------------------------------
(* What the reference reads.                                               *)

LEMMA UptoAll ==
  ASSUME NEW t \in Texts
  PROVE  Upto(t, Len(t)) = t
  BY SubSeqFull DEF Upto, Texts

\* While more may come.
LEMMA OpenLines ==
  ASSUME NEW t \in Texts, NEW s \in 1..Len(t) + 1, NEW p, NEW d,
         ReadBefore(p, d, t, s, Len(t))
  PROVE  LinesOf(IF t # <<>> /\ Last(t) = "CR" THEN Front(t) ELSE t)
           = LinesOf(Upto(t, s - 1))
<1>1. PICK n \in Nat : n = Len(t)
  BY DEF Texts
<1>2. /\ \A j \in s..n : Terminates(t, j) => j = n /\ t[j] = "CR"
      /\ s > 1 /\ t[s - 1] = "CR" => s <= n
      /\ s \in 1..n + 1
  BY <1>1 DEF ReadBefore
<1>3. CASE t # <<>> /\ Last(t) = "CR"
  <2>1. t[n] = "CR" /\ n >= 1
    BY <1>1, <1>3 DEF Last, Texts
  <2>2. s <= n
    <3>1. s - 1 = n => s > 1 /\ t[s - 1] = "CR"
      BY <2>1
    <3> QED
      BY <1>2, <3>1
  <2>3. n - 1 \in s - 1..n /\ \A j \in s..n - 1 : ~Terminates(t, j)
    <3>1. \A j \in s..n - 1 : j \in s..n /\ j # n
      BY <1>2
    <3> QED
      BY <1>2, <2>2, <3>1
  <2>4. LinesOf(Upto(t, n - 1)) = LinesOf(Upto(t, s - 1))
    BY <1>1, <2>3, NoLineEnded
  <2>5. Front(t) = Upto(t, n - 1)
    BY <1>1 DEF Front, Upto
  <2> QED
    BY <1>3, <2>4, <2>5
<1>4. CASE ~(t # <<>> /\ Last(t) = "CR")
  <2>1. n \in s - 1..n
    BY <1>2
  <2>2. ASSUME NEW j \in s..n PROVE ~Terminates(t, j)
    <3>1. n >= 1
      BY <2>2
    <3>2. t # <<>>
      BY <1>1, <3>1
    <3>3. t[n] # "CR"
      BY <1>1, <1>4, <3>2 DEF Last
    <3> QED
      BY <1>2, <3>3
  <2>3. LinesOf(Upto(t, n)) = LinesOf(Upto(t, s - 1))
    BY <1>1, <2>1, <2>2, NoLineEnded
  <2> QED
    BY <1>1, <1>4, <2>3, UptoAll
<1> QED
  BY <1>3, <1>4

\* A text that is cut off in a line has it all the same.
Completed(t) ==
  IF t # <<>> /\ Last(t) \notin {"CR", "LF"} THEN Append(t, "LF") ELSE t

\* What end makes of the buffer.
Unread(p) == IF p.buffer = <<>> THEN p ELSE ProcessLine(p, TailLine(p.buffer))

LEMMA EndReads ==
  ASSUME NEW t \in Texts, NEW s \in 1..Len(t) + 1, NEW p \in Parsers,
         NEW d \in Seq(Told), ReadBefore(p, d, t, s, Len(t)),
         p.buffer = Tail0(t, s)
  PROVE  /\ Reading(Unread(p), d, LinesOf(Completed(t)))
         /\ Unread(p) \in Parsers /\ Unread(p).begun = p.begun
         /\ Completed(t) \in Texts
<1>1. PICK n \in Nat : n = Len(t)
  BY DEF Texts
<1>2. /\ s = 1 \/ Terminates(t, s - 1)
      /\ \A j \in s..n : Terminates(t, j) => j = n /\ t[j] = "CR"
      /\ Reading(p, d, LinesOf(Upto(t, s - 1)))
      /\ s \in 1..n + 1
  BY <1>1 DEF ReadBefore
<1>3. PICK buf \in Texts : buf = Tail0(t, s)
  BY TailIs
<1>4. /\ Len(buf) = n - s + 1 /\ \A i \in 1..n - s + 1 : buf[i] = t[s + i - 1]
  BY <1>1, <1>3, TailIs
<1>5. CASE buf = <<>>
  <2>1. s = n + 1
    <3>1. Len(buf) = 0
      BY <1>5
    <3> QED
      BY <1>2, <1>4, <3>1
  <2>2. Completed(t) = t
    <3>1. ASSUME t # <<>> PROVE Last(t) \in {"CR", "LF"}
      <4>1. n # 0
        BY <1>1, <3>1 DEF Texts
      <4>2. Terminates(t, n)
        BY <1>2, <2>1, <4>1
      <4> QED
        BY <1>1, <4>2 DEF Terminates, Last
    <3> QED
      BY <3>1 DEF Completed
  <2>3. Upto(t, s - 1) = t
    BY <1>1, <2>1, UptoAll
  <2>4. Unread(p) = p
    BY <1>3, <1>5 DEF Unread
  <2> QED
    BY <1>2, <2>2, <2>3, <2>4
<1>6. CASE buf # <<>>
  <2>1. s <= n
    <3>1. Len(buf) # 0 /\ Len(buf) \in Nat
      BY <1>6 DEF Texts
    <3> QED
      BY <1>2, <1>4, <3>1
  <2>2. Last(buf) = t[n] /\ Last(t) = t[n] /\ t # <<>>
    <3>1. n - s + 1 \in 1..n - s + 1 /\ s + (n - s + 1) - 1 = n
      BY <1>2, <2>1
    <3>2. buf[n - s + 1] = t[n]
      BY <1>4, <3>1
    <3>3. n # 0
      BY <1>2, <2>1
    <3> QED
      BY <1>1, <1>4, <3>2, <3>3 DEF Last
  <2>3. Unread(p) = ProcessLine(p, TailLine(buf))
    BY <1>3, <1>6 DEF Unread
  <2>4. \A j \in s..n - 1 : ~Terminates(t, j)
    <3>1. \A j \in s..n - 1 : j \in s..n /\ j # n
      BY <1>2
    <3> QED
      BY <1>2, <3>1
  <2>5. CASE t[n] = "CR"
    <3>1. Completed(t) = t
      BY <2>2, <2>5 DEF Completed
    <3>2. Terminates(t, n) /\ ~AfterCR(t, n)
      BY <2>5 DEF Terminates, AfterCR
    <3>3. n \in 1..Len(t) /\ s \in 1..n
      BY <1>1, <1>2, <2>1
    <3>4. PICK line : line = SubSeq(t, s, n - 1)
      OBVIOUS
    <3>5. More(LinesOf(t), LinesOf(Upto(t, s - 1)), line) /\ line \in Texts
      BY <1>1, <1>2, <2>4, <3>2, <3>3, <3>4, LineEnded, UptoAll
    <3>6. TailLine(buf) = line
      <4>1. TailLine(buf) = SubSeq(buf, 1, Len(buf) - 1)
        BY <2>2, <2>5 DEF TailLine, Front
      <4>2. PICK m : m = Len(buf) - 1
        OBVIOUS
      <4>3. m \in 0..Len(Tail0(t, s)) /\ 1 \in 1..m + 1 /\ s + m - 1 = n - 1
        BY <1>3, <1>4, <2>1, <4>2
      <4>4. SubSeq(Tail0(t, s), 1, m) = SubSeq(t, s + 1 - 1, s + m - 1)
        BY <4>3, PartOfTail
      <4>5. s + 1 - 1 = s
        OBVIOUS
      <4> QED
        BY <1>3, <3>4, <4>1, <4>2, <4>3, <4>4, <4>5
    <3> QED
      BY <1>2, <2>3, <3>1, <3>5, <3>6, AfterLine
  <2>6. CASE t[n] # "CR"
    <3>1. ~Terminates(t, n) /\ t[n] \notin {"CR", "LF"}
      <4>1. n \in s..n
        BY <1>2, <2>1
      <4> QED
        BY <1>2, <2>6, <4>1 DEF Terminates
    <3>2. PICK v : v = Append(t, "LF")
      OBVIOUS
    <3>3. "LF" \in Atoms
      BY DEF Atoms
    <3>4. /\ v \in Texts /\ Len(v) = n + 1 /\ v[n + 1] = "LF"
          /\ \A i \in 1..n : v[i] = t[i]
      BY <1>1, <3>2, <3>3, AppendProperties DEF Texts
    <3>5. Completed(t) = v
      BY <2>2, <3>1, <3>2 DEF Completed
    <3>6. TailLine(buf) = buf
      BY <2>2, <2>6 DEF TailLine
    <3>7. n \in 1..n /\ (n + 1) - 1 = n /\ s \in 1..n + 1 /\ n + 1 \in 1..Len(v)
      BY <1>2, <2>1, <3>4
    <3>8. Terminates(v, n + 1) /\ ~AfterCR(v, n + 1)
      BY <2>6, <3>4, <3>7 DEF Terminates, AfterCR
    <3>9. s = 1 \/ Terminates(v, s - 1)
      <4>1. s # 1 => v[s - 1] = t[s - 1]
        BY <1>2, <3>4
      <4> QED
        BY <1>2, <4>1 DEF Terminates
    <3>10. \A j \in s..(n + 1) - 1 : ~Terminates(v, j)
      <4>1. \A j \in s..n : j \in s..n - 1 \/ j = n
        BY <1>2
      <4>2. \A j \in s..n : ~Terminates(t, j)
        BY <2>4, <3>1, <4>1
      <4>3. \A j \in s..n : v[j] = t[j]
        BY <1>2, <3>4
      <4> QED
        BY <3>7, <4>2, <4>3 DEF Terminates
    <3>11. /\ More(LinesOf(Upto(v, n + 1)), LinesOf(Upto(v, s - 1)),
                   SubSeq(v, s, (n + 1) - 1))
      BY <3>4, <3>7, <3>8, <3>9, <3>10, LineEnded
    <3>12. SubSeq(v, s, n) = buf
      <4>1. s \in Nat \ {0} /\ n \in Int /\ n <= Len(v) /\ n <= Len(t)
        BY <1>1, <3>4
      <4>2. \A i \in s..n : v[i] = t[i]
        BY <1>2, <3>4
      <4>3. SubSeq(v, s, n) = SubSeq(t, s, n)
        BY <3>4, <4>1, <4>2, SubSeqSame DEF Texts
      <4> QED
        BY <1>1, <1>3, <4>3 DEF Tail0
    <3>13. Upto(v, s - 1) = Upto(t, s - 1)
      <4>1. PICK e \in Int : e = s - 1
        OBVIOUS
      <4>2. /\ e <= Len(v) /\ e <= Len(t) /\ \A i \in 1..e : v[i] = t[i]
        BY <1>1, <1>2, <3>4, <4>1
      <4>3. v \in Seq(Atoms) /\ t \in Seq(Atoms) /\ 1 \in Nat \ {0}
        BY <3>4 DEF Texts
      <4>4. SubSeq(v, 1, e) = SubSeq(t, 1, e)
        BY <4>1, <4>2, <4>3, SubSeqSame
      <4> QED
        BY <4>1, <4>4 DEF Upto
    <3>14. Upto(v, n + 1) = v
      BY <3>4, UptoAll
    <3>15. More(LinesOf(v), LinesOf(Upto(t, s - 1)), buf)
      BY <3>7, <3>11, <3>12, <3>13, <3>14
    <3> QED
      BY <1>2, <2>3, <3>4, <3>5, <3>6, <3>15, AfterLine
  <2> QED
    BY <2>5, <2>6
<1> QED
  BY <1>5, <1>6

LEMMA BlankMore ==
  ASSUME NEW t \in Texts
  PROVE  More(Append(LinesOf(t), <<>>), LinesOf(t), <<>>)
<1>1. PICK L, n : L = LinesOf(t) /\ n = Cardinality(LineEnds(t)) /\ n \in Nat
  BY EndsOf
<1>2. DOMAIN L = 1..n /\ L = [k \in 1..n |-> L[k]]
  BY <1>1, LinesDomain
<1>3. PICK U : U = {L[k] : k \in 1..n} \cup {<<>>}
  OBVIOUS
<1>4. L \in [1..n -> U]
  BY <1>2, <1>3
<1>5. L \in Seq(U) /\ <<>> \in U
  BY <1>1, <1>3, <1>4, SeqDef
<1>6. Len(L) = n
  BY <1>1, <1>2, <1>5
<1>7. PICK M \in Seq(U) : M = Append(L, <<>>)
  BY <1>5, AppendProperties
<1>8. Len(M) = n + 1 /\ M[n + 1] = <<>> /\ \A k \in 1..n : M[k] = L[k]
  BY <1>5, <1>6, <1>7, AppendProperties
<1>9. DOMAIN M = 1..n + 1
  BY <1>8
<1> QED
  BY <1>1, <1>2, <1>7, <1>8, <1>9 DEF More

\* A text with more of it behind.
LEMMA GoesOn ==
  ASSUME NEW t \in Texts, NEW c \in Texts, NEW s \in 1..Len(t) + 1, NEW p, NEW d,
         ReadBefore(p, d, t, s, Len(t))
  PROVE  /\ t \o c \in Texts /\ s \in 1..Len(t \o c) + 1
         /\ NoSplitCRLF(t \o c, s) /\ ReadBefore(p, d, t \o c, s, s - 1)
         /\ Tail0(t, s) \o c = Tail0(t \o c, s)
<1>1. PICK n \in Nat, m \in Nat : n = Len(t) /\ m = Len(c)
  BY DEF Texts
<1>2. PICK v : v = t \o c
  OBVIOUS
<1>3. /\ v \in Texts /\ Len(v) = n + m /\ \A i \in 1..n : v[i] = t[i]
      /\ \A i \in 1..m : v[n + i] = c[i]
  <2>1. /\ v \in Texts /\ Len(v) = n + m
        /\ \A i \in 1..n + m : v[i] = IF i <= n THEN t[i] ELSE c[i - n]
    BY <1>1, <1>2, ConcatProperties DEF Texts
  <2>2. \A i \in 1..n : i \in 1..n + m /\ i <= n
    OBVIOUS
  <2>3. \A i \in 1..m : n + i \in 1..n + m /\ ~(n + i <= n) /\ (n + i) - n = i
    OBVIOUS
  <2>4. ASSUME NEW i \in 1..m PROVE v[n + i] = c[i]
    <3>1. PICK j \in 1..n + m : j = n + i /\ ~(j <= n) /\ j - n = i
      BY <2>3
    <3> QED
      BY <2>1, <3>1
  <2> QED
    BY <2>1, <2>2, <2>4
<1>4. /\ s = 1 \/ Terminates(t, s - 1)
      /\ s > 1 /\ t[s - 1] = "CR" => s <= n /\ (s <= n => t[s] # "LF")
      /\ Reading(p, d, LinesOf(Upto(t, s - 1)))
      /\ s \in 1..n + 1
  BY <1>1 DEF ReadBefore
<1>5. s > 1 => v[s - 1] = t[s - 1]
  BY <1>3, <1>4
<1>6. NoSplitCRLF(v, s)
  <2>1. s <= n => v[s] = t[s]
    BY <1>3, <1>4
  <2> QED
    BY <1>4, <1>5, <2>1 DEF NoSplitCRLF
<1>7. Upto(v, s - 1) = Upto(t, s - 1)
  <2>1. PICK e \in Int : e = s - 1
    OBVIOUS
  <2>2. /\ e <= Len(v) /\ e <= Len(t) /\ \A i \in 1..e : v[i] = t[i]
    BY <1>1, <1>3, <1>4, <2>1
  <2>3. SubSeq(v, 1, e) = SubSeq(t, 1, e)
    BY <1>3, <2>2, SubSeqSame DEF Texts
  <2> QED
    BY <2>1, <2>3 DEF Upto
<1>8. ReadBefore(p, d, v, s, s - 1)
  <2>1. s = 1 \/ Terminates(v, s - 1)
    BY <1>4, <1>5 DEF Terminates
  <2>2. \A j \in s..s - 1 : FALSE
    OBVIOUS
  <2>3. s > 1 /\ v[s - 1] = "CR" => s <= Len(v)
    BY <1>3, <1>4, <1>5
  <2>4. ~(s <= s - 1)
    BY <1>4
  <2> QED
    BY <1>4, <1>7, <2>1, <2>2, <2>3, <2>4 DEF ReadBefore
<1>9. s \in 1..Len(v) + 1
  BY <1>3, <1>4
<1>10. Tail0(t, s) \o c = Tail0(v, s)
  <2>1. PICK b \in Texts : b = Tail0(t, s)
    BY TailIs
  <2>2. Len(b) = n - s + 1 /\ \A i \in 1..n - s + 1 : b[i] = t[s + i - 1]
    BY <1>1, <2>1, TailIs
  <2>3. PICK w \in Texts : w = b \o c
    BY ConcatProperties DEF Texts
  <2>4. /\ Len(w) = (n - s + 1) + m
        /\ \A i \in 1..(n - s + 1) + m :
             w[i] = IF i <= n - s + 1 THEN b[i] ELSE c[i - (n - s + 1)]
    <3>1. /\ Len(b \o c) = Len(b) + Len(c)
          /\ \A i \in 1..Len(b) + Len(c) :
               (b \o c)[i] = IF i <= Len(b) THEN b[i] ELSE c[i - Len(b)]
      BY ConcatProperties DEF Texts
    <3> QED
      BY <1>1, <2>2, <2>3, <3>1
  <2>5. /\ Tail0(v, s) \in Texts /\ Len(Tail0(v, s)) = n + m - s + 1
        /\ \A i \in 1..n + m - s + 1 : Tail0(v, s)[i] = v[s + i - 1]
    <3>1. /\ Tail0(v, s) \in Texts /\ Len(Tail0(v, s)) = Len(v) - s + 1
          /\ \A i \in 1..Len(v) - s + 1 : Tail0(v, s)[i] = v[s + i - 1]
      BY <1>3, <1>9, TailIs
    <3> QED
      BY <1>3, <3>1
  <2>6. ASSUME NEW i \in 1..n + m - s + 1 PROVE w[i] = v[s + i - 1]
    <3>1. w[i] = IF i <= n - s + 1 THEN b[i] ELSE c[i - (n - s + 1)]
      BY <2>4
    <3>2. CASE i <= n - s + 1
      <4>1. i \in 1..n - s + 1 /\ s + i - 1 \in 1..n
        BY <1>4, <3>2
      <4> QED
        BY <1>3, <2>2, <3>1, <3>2, <4>1
    <3>3. CASE ~(i <= n - s + 1)
      <4>1. PICK j \in 1..m : j = i - (n - s + 1)
        BY <1>4, <3>3
      <4>2. v[n + j] = c[j]
        BY <1>3
      <4>3. n + j = s + i - 1
        BY <1>4, <4>1
      <4> QED
        BY <3>1, <3>3, <4>1, <4>2, <4>3
    <3> QED
      BY <3>2, <3>3
  <2>7. PICK u \in Texts : u = Tail0(v, s)
    BY <2>5
  <2>8. Len(w) = Len(u) /\ \A i \in 1..Len(w) : w[i] = u[i]
    <3>1. Len(w) = n + m - s + 1 /\ Len(u) = n + m - s + 1
      BY <1>4, <2>4, <2>5, <2>7
    <3> QED
      BY <2>5, <2>6, <2>7, <3>1
  <2>9. w = u
    BY <2>8, SeqEqual DEF Texts
  <2> QED
    BY <2>1, <2>3, <2>7, <2>9
<1> QED
  BY <1>2, <1>3, <1>6, <1>8, <1>9, <1>10

LEMMA BomOnce ==
  ASSUME NEW text \in Texts, NEW chunk \in Texts, chunk # <<>>, NEW p,
         p.begun = (text # <<>>)
  PROVE  /\ WithoutBom(text) \in Texts /\ StripBom(p, chunk) \in Texts
         /\ text \o chunk \in Texts /\ text \o chunk # <<>>
         /\ WithoutBom(text \o chunk) = WithoutBom(text) \o StripBom(p, chunk)
<1>1. Tail(chunk) \in Texts
  BY HeadTailProperties DEF Texts
<1>2. <<>> \in Texts
  BY DEF Texts
<1>3. CASE text = <<>>
  <2>1. text \o chunk = chunk /\ WithoutBom(text) = <<>>
    BY <1>3 DEF WithoutBom, Texts
  <2>2. WithoutBom(chunk) = StripBom(p, chunk)
    BY <1>3 DEF WithoutBom, StripBom
  <2>3. StripBom(p, chunk) \in Texts
    BY <1>1 DEF StripBom
  <2>4. <<>> \o StripBom(p, chunk) = StripBom(p, chunk)
    <3>1. PICK u \in Texts : u = StripBom(p, chunk)
      BY <2>3
    <3>2. <<>> \o u = u
      BY ConcatEmptySeq DEF Texts
    <3> QED
      BY <3>1, <3>2
  <2> QED
    BY <1>2, <2>1, <2>2, <2>3, <2>4
<1>4. CASE text # <<>>
  <2>1. StripBom(p, chunk) = chunk
    BY <1>4 DEF StripBom
  <2>2. PICK n \in Nat \ {0}, m \in Nat : n = Len(text) /\ m = Len(chunk)
    BY <1>4 DEF Texts
  <2>3. PICK v : v = text \o chunk
    OBVIOUS
  <2>4. /\ v \in Texts /\ Len(v) = n + m
        /\ \A i \in 1..n + m : v[i] = IF i <= n THEN text[i] ELSE chunk[i - n]
    BY <2>2, <2>3, ConcatProperties DEF Texts
  <2>5. v # <<>> /\ v[1] = text[1]
    BY <2>4
  <2>6. PICK u : u = Tail(text)
    OBVIOUS
  <2>7. u \in Texts /\ Len(u) = n - 1 /\ \A i \in 1..n - 1 : u[i] = text[i + 1]
    BY <1>4, <2>2, <2>6, HeadTailProperties DEF Texts
  <2>8. Tail(v) = u \o chunk
    <3>1. PICK w : w = Tail(v)
      OBVIOUS
    <3>2. /\ w \in Texts /\ Len(w) = n + m - 1
          /\ \A i \in 1..n + m - 1 : w[i] = v[i + 1]
      BY <2>4, <2>5, <3>1, HeadTailProperties DEF Texts
    <3>3. PICK x : x = u \o chunk
      OBVIOUS
    <3>4. /\ x \in Texts /\ Len(x) = (n - 1) + m
          /\ \A i \in 1..(n - 1) + m :
               x[i] = IF i <= n - 1 THEN u[i] ELSE chunk[i - (n - 1)]
      <4>1. /\ u \o chunk \in Texts /\ Len(u \o chunk) = Len(u) + Len(chunk)
            /\ \A i \in 1..Len(u) + Len(chunk) :
                 (u \o chunk)[i] = IF i <= Len(u) THEN u[i]
                                   ELSE chunk[i - Len(u)]
        BY <2>7, ConcatProperties DEF Texts
      <4> QED
        BY <2>2, <2>7, <3>3, <4>1
    <3>5. ASSUME NEW i \in 1..n + m - 1 PROVE w[i] = x[i]
      <4>1. PICK j \in 1..n + m : j = i + 1
        OBVIOUS
      <4>2. w[i] = IF j <= n THEN text[j] ELSE chunk[j - n]
        BY <2>4, <3>2, <4>1
      <4>3. i \in 1..(n - 1) + m /\ j - n = i - (n - 1) /\ (j <= n <=> i <= n - 1)
        BY <4>1
      <4>4. i <= n - 1 => u[i] = text[j]
        BY <2>7, <4>1
      <4> QED
        BY <3>4, <4>2, <4>3, <4>4
    <3>6. w = x
      BY <3>2, <3>4, <3>5, SeqEqual DEF Texts
    <3> QED
      BY <3>1, <3>3, <3>6
  <2>9. WithoutBom(text) \in Texts
    BY <2>6, <2>7 DEF WithoutBom
  <2>10. WithoutBom(v) = WithoutBom(text) \o chunk
    BY <1>4, <2>3, <2>5, <2>6, <2>8 DEF WithoutBom
  <2> QED
    BY <2>1, <2>3, <2>4, <2>5, <2>9, <2>10
<1> QED
  BY <1>3, <1>4

----------------------------------------------------------------------------
(* The invariant.                                                          *)

\* While the parser is open, its buffer is the unread end of what was pushed.
OpenAt(p, d, t) ==
  \E s \in 1..Len(t) + 1 :
    p.buffer = Tail0(t, s) /\ ReadBefore(p, d, t, s, Len(t))

ParserInv ==
  /\ state \in {"open", "ended", "failed"}
  /\ sent \in Texts /\ rest \in Texts
  /\ parser \in Parsers /\ drained \in Seq(Told)
  /\ parser.threw = (state = "failed") /\ parser.begun = (sent # <<>>)
  /\ state = "open" => OpenAt(parser, drained, WithoutBom(sent))
  /\ state # "open" => SameEventsForAnySplit

LEMMA WithoutBomType ==
  ASSUME NEW text \in Texts
  PROVE  WithoutBom(text) \in Texts
<1>1. text # <<>> => Tail(text) \in Texts
  BY HeadTailProperties DEF Texts
<1> QED
  BY <1>1 DEF WithoutBom

LEMMA NothingRead ==
  ASSUME NEW p \in Parsers, p.type = <<>>, p.data = <<>>, p.id = Undefined,
         p.retry = Undefined, p.out = <<>>, ~p.threw, p.buffer = <<>>
  PROVE  OpenAt(p, <<>>, <<>>)
<1>1. <<>> \in Texts /\ Len(<<>>) = 0
  BY DEF Texts
<1>2. Upto(<<>>, 0) = <<>>
  BY <1>1, UptoAll
<1>3. PICK L : L = LinesOf(<<>>)
  OBVIOUS
<1>4. DOMAIN L = 1..0
  <2>1. LineEnds(<<>>) = {}
    BY <1>1, EndsOf
  <2>2. DOMAIN L = 1..Cardinality({})
    BY <1>3, <2>1, LinesDomain
  <2> QED
    BY <2>2, FS_EmptySet
<1>5. /\ TypeBefore(L, 1) = <<>> /\ IdBefore(L, 1) = Undefined
      /\ RetryBefore(L, 1) = Undefined
  <2>1. 1 \in Nat \ {0} /\ 1 - 1 = 0 /\ 1..0 = {}
    OBVIOUS
  <2>2. Types(L, 1) = {} /\ Ids(L, 1) = {} /\ Retries(L, 1) = {}
    BY <2>1, ValuesIn
  <2>3. ValueAt(L, {}, <<>>) = <<>> /\ ValueAt(L, {}, Undefined) = Undefined
    BY DEF ValueAt, LastIn
  <2> QED
    BY <2>2, <2>3, ValuesAt
<1>6. DataBefore(L, 1) = <<>>
  <2>1. 1 \in Nat \ {0} /\ 1 - 1 = 0 /\ 1..0 = {}
    OBVIOUS
  <2>2. DataLines(L, 1) = {}
    BY <2>1, DataLinesIn
  <2> QED
    BY <2>1, <2>2, DataNone
<1>7. EventsOf(L) = <<>>
  <2>1. 0 \in Nat /\ 1..0 = {}
    OBVIOUS
  <2>2. EventEnds(L) = {}
    BY <1>4, <2>1, EventEndsIn
  <2>3. Cardinality(EventEnds(L)) = 0
    BY <2>2, FS_EmptySet
  <2>4. DOMAIN EventsOf(L) = {}
    BY <2>1, <2>3, EventsAre
  <2>5. EventsOf(L) = [k \in {} |-> EventsOf(L)[k]]
    BY <2>4, EventsAre
  <2> QED
    BY <2>5
<1>8. <<>> \o p.out = <<>>
  OBVIOUS
<1>9. ReadUpTo(p, <<>>, L, 0)
  <2>1. 0 + 1 = 1 /\ \A i \in 1..Len(<<>>) : FALSE
    OBVIOUS
  <2> QED
    BY <1>4, <1>5, <1>6, <1>7, <1>8, <2>1 DEF ReadUpTo
<1>10. ReadBefore(p, <<>>, <<>>, 1, Len(<<>>))
  <2>1. 1 - 1 = 0 /\ ~(1 > 1) /\ \A j \in 1..0 : FALSE
    OBVIOUS
  <2> QED
    BY <1>1, <1>2, <1>3, <1>9, <2>1 DEF ReadBefore, Reading
<1>11. p.buffer = Tail0(<<>>, 1)
  BY <1>1, SubSeqEmpty DEF Tail0
<1> QED
  BY <1>1, <1>10, <1>11 DEF OpenAt

LEMMA ParserStart ==
  ASSUME Init
  PROVE  ParserInv
<1>1. rest \in Texts /\ sent = <<>> /\ <<>> \in Texts /\ drained = <<>>
  BY ParserAssumption DEF Init, Texts
<1>2. parser \in Parsers /\ drained \in Seq(Told)
  BY <1>1 DEF Init, Parsers, Texts
<1>3. WithoutBom(<<>>) = <<>>
  BY DEF WithoutBom
<1>4. OpenAt(parser, <<>>, <<>>)
  BY <1>2, NothingRead DEF Init
<1> QED
  BY <1>1, <1>2, <1>3, <1>4 DEF Init, ParserInv

\* While it is open, or failed with an unread end, the lines are those read.
LEMMA OpenReads ==
  ASSUME NEW t \in Texts, NEW p \in Parsers, NEW d \in Seq(Told),
         OpenAt(p, d, t)
  PROVE  d \o p.out = ValidPrefix(EventsOf(LinesOf(
           IF t # <<>> /\ Last(t) = "CR" THEN Front(t) ELSE t)))
<1>1. PICK s \in 1..Len(t) + 1 :
        p.buffer = Tail0(t, s) /\ ReadBefore(p, d, t, s, Len(t))
  BY DEF OpenAt
<1>2. PICK L : L = LinesOf(IF t # <<>> /\ Last(t) = "CR" THEN Front(t) ELSE t)
  OBVIOUS
<1>3. L = LinesOf(Upto(t, s - 1))
  BY <1>1, <1>2, OpenLines
<1>4. Reading(p, d, L)
  BY <1>1, <1>3 DEF ReadBefore
<1> QED
  BY <1>2, <1>4, ReadingIs

\* Once it is not, a blank line follows what was left.
LEMMA ClosedReads ==
  ASSUME NEW t \in Texts, NEW p \in Parsers, NEW d \in Seq(Told),
         OpenAt(p, d, t), NEW r,
         r = IF Unread(p).threw THEN Unread(p) ELSE Dispatch(Unread(p))
  PROVE  /\ r \in Parsers /\ r.begun = p.begun
         /\ d \o r.out = ValidPrefix(EventsOf(
              Append(LinesOf(Completed(t)), <<>>)))
<1>1. PICK s \in 1..Len(t) + 1 :
        p.buffer = Tail0(t, s) /\ ReadBefore(p, d, t, s, Len(t))
  BY DEF OpenAt
<1>2. PICK q : q = Unread(p)
  OBVIOUS
<1>3. /\ Reading(q, d, LinesOf(Completed(t))) /\ q \in Parsers
      /\ q.begun = p.begun /\ Completed(t) \in Texts
  BY <1>1, <1>2, EndReads
<1>4. r = ProcessLine(q, <<>>)
  BY <1>2, <1>3 DEF ProcessLine, Parsers
<1>5. <<>> \in Texts
  BY DEF Texts
<1>6. PICK M : M = Append(LinesOf(Completed(t)), <<>>)
  OBVIOUS
<1>7. More(M, LinesOf(Completed(t)), <<>>)
  BY <1>3, <1>6, BlankMore
<1>8. Reading(r, d, M) /\ r \in Parsers /\ r.begun = q.begun
  BY <1>3, <1>4, <1>5, <1>7, AfterLine
<1> QED
  BY <1>3, <1>6, <1>8, ReadingIs

LEMMA PushKeeps ==
  ASSUME ParserInv, NEW n \in 1..MaxChunk, Push(n)
  PROVE  ParserInv'
<1> DEFINE chunk == SubSeq(rest, 1, n)
           t == WithoutBom(sent)
           c == StripBom(parser, chunk)
           p == [parser EXCEPT !.buffer = @ \o c, !.begun = TRUE]
<1>1. /\ state = "open" /\ n <= Len(rest) /\ n \in Nat \ {0}
      /\ sent' = sent \o chunk /\ parser' = ConsumeLines(p)
      /\ rest' = SubSeq(rest, n + 1, Len(rest))
      /\ state' = IF parser'.threw THEN "failed" ELSE "open"
      /\ drained' = drained
  BY DEF Push
<1>2. /\ sent \in Texts /\ rest \in Texts /\ parser \in Parsers
      /\ drained \in Seq(Told) /\ ~parser.threw
      /\ parser.begun = (sent # <<>>) /\ OpenAt(parser, drained, t)
  BY <1>1 DEF ParserInv
<1>3. chunk \in Texts /\ chunk # <<>> /\ rest' \in Texts
  <2>1. Len(rest) \in Nat /\ \A i \in 1..Len(rest) : rest[i] \in Atoms
    BY <1>2, ElementOfSeq DEF Texts
  <2>2. \A i \in 1..n : rest[i] \in Atoms
    BY <1>1, <2>1
  <2>3. \A i \in n + 1..Len(rest) : rest[i] \in Atoms
    BY <1>1, <2>1
  <2>4. chunk \in Texts /\ Len(chunk) = n
    BY <1>1, <2>2, SubSeqProperties DEF Texts
  <2>5. SubSeq(rest, n + 1, Len(rest)) \in Texts
    BY <1>1, <2>1, <2>3, SubSeqProperties DEF Texts
  <2> HIDE DEF chunk
  <2>6. Len(<<>>) = 0
    OBVIOUS
  <2> QED
    BY <1>1, <2>4, <2>5, <2>6
<1> HIDE DEF chunk
<1>4. /\ t \in Texts /\ c \in Texts /\ sent' \in Texts /\ sent' # <<>>
      /\ WithoutBom(sent') = t \o c
  BY <1>1, <1>2, <1>3, BomOnce
<1> HIDE DEF t, c
<1>5. PICK s \in 1..Len(t) + 1 :
        /\ parser.buffer = Tail0(t, s)
        /\ ReadBefore(parser, drained, t, s, Len(t))
  BY <1>2 DEF OpenAt
<1>6. PICK v : v = t \o c
  OBVIOUS
<1>7. /\ v \in Texts /\ s \in 1..Len(v) + 1 /\ NoSplitCRLF(v, s)
      /\ ReadBefore(parser, drained, v, s, s - 1)
      /\ parser.buffer \o c = Tail0(v, s)
  BY <1>4, <1>5, <1>6, GoesOn
<1>8. PICK o : o = p
  OBVIOUS
<1>9. /\ o \in Parsers /\ o.buffer = Tail0(v, s) /\ o.begun
      /\ o.type = parser.type /\ o.data = parser.data /\ o.id = parser.id
      /\ o.retry = parser.retry /\ o.out = parser.out
      /\ o.threw = parser.threw
  <2>1. Tail0(v, s) \in Texts
    BY <1>7, TailIs
  <2>2. o = [parser EXCEPT !.buffer = Tail0(v, s), !.begun = TRUE]
    BY <1>7, <1>8
  <2> QED
    BY <1>2, <2>1, <2>2 DEF Parsers
<1> HIDE DEF p
<1>10. ReadBefore(o, drained, v, s, s - 1)
  BY <1>7, <1>9, ReadingSame DEF ReadBefore
<1>11. PICK q : q = parser'
  OBVIOUS
<1>12. q = ConsumeLines(o)
  BY <1>1, <1>8, <1>11
<1>13. /\ q \in Parsers /\ q.begun = o.begun
       /\ \E from \in 1..Len(v) + 1 :
            q.buffer = Tail0(v, from) /\ ReadBefore(q, drained, v, from, Len(v))
  BY <1>2, <1>7, <1>9, <1>10, <1>12, ConsumeReads
<1>14. OpenAt(q, drained, v)
  BY <1>13 DEF OpenAt
<1>15. ASSUME q.threw PROVE SameEventsForAnySplit'
  <2>1. state' = "failed"
    BY <1>1, <1>11, <1>15
  <2>2. CASE q.buffer = <<>>
    <3>1. LinesRead' = Append(LinesOf(Completed(v)), <<>>)
      BY <1>4, <1>6, <1>11, <2>1, <2>2 DEF LinesRead, Completed
    <3>2. Unread(q) = q
      BY <2>2 DEF Unread
    <3>3. q = IF Unread(q).threw THEN Unread(q) ELSE Dispatch(Unread(q))
      BY <1>15, <3>2
    <3>4. drained \o q.out
            = ValidPrefix(EventsOf(Append(LinesOf(Completed(v)), <<>>)))
      BY <1>2, <1>7, <1>13, <1>14, <3>3, ClosedReads
    <3> QED
      BY <1>1, <1>11, <3>1, <3>4 DEF SameEventsForAnySplit
  <2>3. CASE q.buffer # <<>>
    <3>1. LinesRead' = LinesOf(IF v # <<>> /\ Last(v) = "CR" THEN Front(v)
                               ELSE v)
      BY <1>4, <1>6, <1>11, <2>1, <2>3 DEF LinesRead
    <3>2. drained \o q.out = ValidPrefix(EventsOf(LinesOf(
            IF v # <<>> /\ Last(v) = "CR" THEN Front(v) ELSE v)))
      BY <1>2, <1>7, <1>13, <1>14, OpenReads
    <3> QED
      BY <1>1, <1>11, <3>1, <3>2 DEF SameEventsForAnySplit
  <2> QED
    BY <2>2, <2>3
<1>16. q.threw \in BOOLEAN /\ q.begun
  BY <1>9, <1>13 DEF Parsers
<1>17. state' \in {"open", "failed"} /\ (q.threw <=> state' = "failed")
  BY <1>1, <1>11
<1>18. state' = "open" => OpenAt(parser', drained', WithoutBom(sent'))
  BY <1>1, <1>4, <1>6, <1>11, <1>14
<1>19. state' # "open" => SameEventsForAnySplit'
  BY <1>15, <1>17
<1>20. /\ parser'.threw = (state' = "failed")
       /\ parser'.begun = (sent' # <<>>)
       /\ parser' \in Parsers /\ drained' \in Seq(Told)
  BY <1>1, <1>2, <1>4, <1>11, <1>13, <1>16, <1>17
<1> QED
  BY <1>3, <1>4, <1>17, <1>18, <1>19, <1>20 DEF ParserInv

LEMMA EndKeeps ==
  ASSUME ParserInv, End
  PROVE  ParserInv'
<1>1. PICK t, r :
        /\ t = WithoutBom(sent)
        /\ r = IF Unread(parser).threw THEN Unread(parser)
               ELSE Dispatch(Unread(parser))
  OBVIOUS
<1>2. /\ state = "open" /\ parser' = [r EXCEPT !.buffer = <<>>]
      /\ state' = IF parser'.threw THEN "failed" ELSE "ended"
      /\ rest' = rest /\ sent' = sent /\ drained' = drained
  BY <1>1 DEF End, Unread
<1>3. /\ sent \in Texts /\ rest \in Texts /\ parser \in Parsers
      /\ drained \in Seq(Told) /\ parser.begun = (sent # <<>>)
      /\ OpenAt(parser, drained, t)
  BY <1>1, <1>2 DEF ParserInv
<1>4. t \in Texts
  BY <1>1, <1>3, WithoutBomType
<1>5. /\ r \in Parsers /\ r.begun = parser.begun
      /\ drained \o r.out
           = ValidPrefix(EventsOf(Append(LinesOf(Completed(t)), <<>>)))
  <2>1. PICK p, d : p = parser /\ d = drained
    OBVIOUS
  <2>2. /\ p \in Parsers /\ d \in Seq(Told) /\ OpenAt(p, d, t)
        /\ r = IF Unread(p).threw THEN Unread(p) ELSE Dispatch(Unread(p))
    BY <1>1, <1>3, <2>1
  <2>3. /\ r \in Parsers /\ r.begun = p.begun
        /\ d \o r.out
             = ValidPrefix(EventsOf(Append(LinesOf(Completed(t)), <<>>)))
    BY <1>4, <2>2, ClosedReads
  <2> QED
    BY <2>1, <2>3
<1>6. PICK q : q = parser'
  OBVIOUS
<1>7. /\ q \in Parsers /\ q.buffer = <<>> /\ q.out = r.out
      /\ q.threw = r.threw /\ q.begun = r.begun /\ q.threw \in BOOLEAN
  <2>1. <<>> \in Texts /\ q = [r EXCEPT !.buffer = <<>>]
    BY <1>2, <1>6 DEF Texts
  <2> QED
    BY <1>5, <2>1 DEF Parsers
<1>8. state' \in {"ended", "failed"} /\ (q.threw <=> state' = "failed")
  BY <1>2, <1>6
<1>9. LinesRead' = Append(LinesOf(Completed(t)), <<>>)
  <2>1. \/ state' = "ended" \/ (state' = "failed" /\ q.buffer = <<>>)
    BY <1>7, <1>8
  <2> QED
    BY <1>1, <1>2, <1>6, <2>1 DEF LinesRead, Completed
<1>10. SameEventsForAnySplit'
  BY <1>2, <1>5, <1>6, <1>7, <1>9 DEF SameEventsForAnySplit
<1>11. /\ parser'.threw = (state' = "failed")
       /\ parser'.begun = (sent' # <<>>)
       /\ parser' \in Parsers /\ drained' \in Seq(Told)
  BY <1>2, <1>3, <1>5, <1>6, <1>7, <1>8
<1> QED
  BY <1>2, <1>3, <1>8, <1>10, <1>11 DEF ParserInv

LEMMA DrainKeeps ==
  ASSUME ParserInv, Drain
  PROVE  ParserInv'
<1>1. /\ drained' = drained \o parser.out
      /\ parser' = [parser EXCEPT !.out = <<>>]
      /\ rest' = rest /\ sent' = sent /\ state' = state
  BY DEF Drain
<1>2. /\ state \in {"open", "ended", "failed"} /\ parser \in Parsers
      /\ drained \in Seq(Told) /\ sent \in Texts /\ rest \in Texts
      /\ parser.threw = (state = "failed") /\ parser.begun = (sent # <<>>)
  BY DEF ParserInv
<1>3. PICK q, d : q = parser' /\ d = drained'
  OBVIOUS
<1>4. /\ q \in Parsers /\ q.out = <<>> /\ q.buffer = parser.buffer
      /\ q.type = parser.type /\ q.data = parser.data /\ q.id = parser.id
      /\ q.retry = parser.retry /\ q.threw = parser.threw
      /\ q.begun = parser.begun
  <2>1. <<>> \in Seq(Told)
    OBVIOUS
  <2> QED
    BY <1>1, <1>2, <1>3, <2>1 DEF Parsers
<1>5. d \in Seq(Told) /\ d \o q.out = drained \o parser.out
  <2>1. d \in Seq(Told)
    BY <1>1, <1>2, <1>3, ConcatProperties DEF Parsers
  <2>2. d \o <<>> = d
    BY <2>1, ConcatEmptySeq
  <2> QED
    BY <1>1, <1>3, <1>4, <2>1, <2>2
<1>6. \A L : Reading(parser, drained, L) => Reading(q, d, L)
  BY <1>4, <1>5 DEF Reading, ReadUpTo
<1>7. \A t : OpenAt(parser, drained, t) => OpenAt(q, d, t)
  BY <1>4, <1>6 DEF OpenAt, ReadBefore
<1>8. LinesRead' = LinesRead
  BY <1>1, <1>3, <1>4 DEF LinesRead
<1>9. SameEventsForAnySplit => SameEventsForAnySplit'
  BY <1>3, <1>5, <1>8 DEF SameEventsForAnySplit
<1>10. /\ state' = "open" => OpenAt(parser', drained', WithoutBom(sent'))
       /\ state' # "open" => SameEventsForAnySplit'
  BY <1>1, <1>3, <1>7, <1>9 DEF ParserInv
<1> QED
  BY <1>1, <1>2, <1>3, <1>4, <1>5, <1>10 DEF ParserInv

LEMMA ParserStays ==
  ASSUME ParserInv, [Next]_vars
  PROVE  ParserInv'
<1>1. ASSUME UNCHANGED vars PROVE ParserInv'
  BY <1>1 DEF vars, ParserInv, SameEventsForAnySplit, LinesRead
<1> QED
  BY <1>1, PushKeeps, EndKeeps, DrainKeeps DEF Next, Finished

\* Every variable has its type, and what is dispatched has data (TypeOK).
THEOREM ParserTypes == Spec => []TypeOK
<1>1. ASSUME ParserInv PROVE TypeOK
  <2>1. parser.out \in Seq(Told) /\ parser.buffer \in Texts
    BY <1>1 DEF ParserInv, Parsers
  <2>2. PICK s \in Seq(Told) : s = drained \o parser.out
    BY <1>1, <2>1, ConcatProperties DEF ParserInv
  <2>3. \A e \in Range(s) : e \in Told
    BY <2>2, RangeOfSeq
  <2> QED
    BY <1>1, <2>1, <2>2, <2>3 DEF ParserInv, TypeOK, Told
<1> QED
  BY <1>1, ParserStart, ParserStays, PTL DEF Spec

\* Wherever the stream is cut into chunks and whenever it is drained, the
\* events are those of the text read at once (SameEventsForAnySplit), for all
\* streams and all chunks.
THEOREM SplitsDoNotMatter == Spec => []SameEventsForAnySplit
<1>1. ASSUME ParserInv PROVE SameEventsForAnySplit
  <2>1. CASE state = "open"
    <3>1. PICK t : t = WithoutBom(sent)
      OBVIOUS
    <3>2. /\ t \in Texts /\ parser \in Parsers /\ drained \in Seq(Told)
          /\ OpenAt(parser, drained, t)
      BY <1>1, <2>1, <3>1, WithoutBomType DEF ParserInv
    <3>3. LinesRead = LinesOf(IF t # <<>> /\ Last(t) = "CR" THEN Front(t)
                              ELSE t)
      BY <2>1, <3>1 DEF LinesRead
    <3> QED
      BY <3>2, <3>3, OpenReads DEF SameEventsForAnySplit
  <2>2. CASE state # "open"
    BY <1>1, <2>2 DEF ParserInv
  <2> QED
    BY <2>1, <2>2
<1> QED
  BY <1>1, ParserStart, ParserStays, PTL DEF Spec

----------------------------------------------------------------------------
(* Texts: sequences of lines that are not empty.                           *)

\* What the places of a text hold.
LEMMA TextIs ==
  ASSUME NEW t, IsText(t)
  PROVE  /\ Len(t) \in Nat \ {0} /\ DOMAIN t = 1..Len(t)
         /\ t \in Seq(Range(t)) /\ t # <<>>
         /\ \A i \in 1..Len(t) : t[i] \in Range(t)
<1>1. t \in Seq(Range(t)) /\ t # <<>>
  BY DEF IsText
<1>2. PICK S : S = Range(t)
  OBVIOUS
<1>3. t \in Seq(S) /\ t # <<>>
  BY <1>1, <1>2
<1>4. Len(t) \in Nat /\ DOMAIN t = 1..Len(t) /\ Len(t) # 0
  BY <1>3, LenProperties, EmptySeq
<1> QED
  BY <1>1, <1>4 DEF Range

\* Any sequence that has a member is a text.
LEMMA IsTextIf ==
  ASSUME NEW S, NEW t \in Seq(S), t # <<>>
  PROVE  IsText(t)
<1>1. /\ Len(t) \in Nat /\ DOMAIN t = 1..Len(t)
      /\ \A i \in 1..Len(t) : t[i] \in S
  BY LenProperties, ElementOfSeq
<1>2. t = [i \in 1..Len(t) |-> t[i]]
  BY <1>1
<1>3. \A i \in 1..Len(t) : t[i] \in Range(t)
  BY <1>1 DEF Range
<1>4. PICK n \in Nat : n = Len(t)
  BY <1>1
<1>5. [i \in 1..n |-> t[i]] \in Seq(Range(t))
  BY <1>3, <1>4, IsASeq
<1> QED
  BY <1>2, <1>4, <1>5 DEF IsText

\* Texts that hold the same are the same.
LEMMA TextEqual ==
  ASSUME NEW t, NEW u, IsText(t), IsText(u), Len(t) = Len(u),
         \A i \in 1..Len(t) : t[i] = u[i]
  PROVE  t = u
<1>1. /\ t = [i \in 1..Len(t) |-> t[i]] /\ u = [i \in 1..Len(u) |-> u[i]]
  BY TextIs DEF IsText
<1> QED
  BY <1>1

\* A sequence with a length has members.
LEMMA NotEmpty ==
  ASSUME NEW S, NEW w \in Seq(S), NEW n, n = Len(w), n # 0
  PROVE  w # <<>>
  BY EmptySeq

\* One text after the other.
IsJoin(w, t, u) ==
  /\ Len(w) = Len(t) + Len(u) /\ Len(t) \in Nat /\ Len(u) \in Nat
  /\ \A i \in 1..Len(t) : w[i] = t[i]
  /\ \A i \in 1..Len(u) : w[Len(t) + i] = u[i]

LEMMA TextsJoined ==
  ASSUME NEW S, NEW t \in Seq(S), NEW u \in Seq(S)
  PROVE  t \o u \in Seq(S) /\ IsJoin(t \o u, t, u)
<1>0. PICK w : w = t \o u
  OBVIOUS
<1>1. w \in Seq(S) /\ Len(w) = Len(t) + Len(u)
      /\ Len(t) \in Nat /\ Len(u) \in Nat
      /\ \A i \in 1..Len(t) + Len(u) :
           w[i] = IF i <= Len(t) THEN t[i] ELSE u[i - Len(t)]
  BY <1>0, ConcatProperties, LenProperties
<1>2. ASSUME NEW i \in 1..Len(u) PROVE w[Len(t) + i] = u[i]
  <2>1. PICK j \in Int : j = Len(t) + i
    BY <1>1
  <2>2. j \in 1..Len(t) + Len(u) /\ ~(j <= Len(t)) /\ j - Len(t) = i
    BY <1>1, <2>1
  <2>3. w[j] = u[i]
    BY <1>1, <2>2
  <2> QED
    BY <2>1, <2>3
<1>3. \A i \in 1..Len(t) : w[i] = t[i]
  BY <1>1
<1>4. IsJoin(w, t, u)
  BY <1>1, <1>2, <1>3 DEF IsJoin
<1> QED
  BY <1>0, <1>1, <1>4

\* From the start of one line to the start of another, or to the end.
LEMMA SliceIs ==
  ASSUME NEW t, IsText(t), NEW from \in 1..Len(t) + 1,
         NEW to \in from..Len(t) + 1, from <= Len(t)
  PROVE  /\ Slice(t, from, to) \in Seq(Range(t) \cup {Blank})
         /\ to <= Len(t) => /\ Len(Slice(t, from, to)) = to - from + 1
                            /\ Slice(t, from, to)[to - from + 1] = Blank
         /\ to = Len(t) + 1 => Len(Slice(t, from, to)) = to - from
         /\ \A i \in 1..to - from : Slice(t, from, to)[i] = t[from + i - 1]
<1> DEFINE S == Range(t) \cup {Blank}
           u == SubSeq(t, from, to - 1)
<1>1. /\ Len(t) \in Nat /\ t \in Seq(S)
      /\ \A i \in 1..Len(t) : t[i] \in S
  <2>1. Len(t) \in Nat /\ t \in Seq(Range(t)) /\ \A i \in 1..Len(t) : t[i] \in S
    BY TextIs
  <2>2. PICK n \in Nat : n = Len(t)
    BY <2>1
  <2>3. t = [i \in 1..n |-> t[i]]
    BY <2>2, TextIs
  <2>4. [i \in 1..n |-> t[i]] \in Seq(S)
    BY <2>1, <2>2, IsASeq
  <2> QED
    BY <2>1, <2>3, <2>4
<1> HIDE DEF S
<1>2. /\ u \in Seq(S) /\ Len(u) = to - from
      /\ \A i \in 1..to - from : u[i] = t[from + i - 1]
  <2>1. CASE to = from
    <3>1. u = <<>>
      BY <1>1, <2>1, SubSeqEmpty
    <3>2. <<>> \in Seq(S) /\ Len(<<>>) = 0
      BY EmptySeq
    <3> QED
      BY <2>1, <3>1, <3>2
  <2>2. CASE to > from
    <3>1. \A i \in from..to - 1 : t[i] \in S
      BY <1>1
    <3>2. /\ u \in Seq(S) /\ Len(u) = (to - 1) - from + 1
          /\ \A i \in 1..(to - 1) - from + 1 : u[i] = t[from + i - 1]
      BY <1>1, <2>2, <3>1, SubSeqProperties
    <3> QED
      BY <1>1, <3>2
  <2> QED
    BY <2>1, <2>2
<1> HIDE DEF u
<1>3. CASE to = Len(t) + 1
  <2>3. ~(to <= Len(t))
    BY <1>1, <1>3
  <2>1. Slice(t, from, to) = u \o <<>>
    BY <2>3 DEF Slice, u
  <2>2. u \o <<>> = u
    BY <1>2, ConcatEmptySeq
  <2> QED
    BY <1>1, <1>2, <1>3, <2>1, <2>2 DEF S
<1>4. CASE to <= Len(t)
  <2>1. Slice(t, from, to) = u \o <<Blank>>
    BY <1>4 DEF Slice, u, Empty
  <2>2. <<Blank>> \in Seq(S) /\ Len(<<Blank>>) = 1 /\ <<Blank>>[1] = Blank
    BY DEF S
  <2>4. PICK v : v = <<Blank>>
    OBVIOUS
  <2>5. /\ v \in Seq(S) /\ Len(v) = 1 /\ 1 \in 1..Len(v) /\ v[1] = Blank
    BY <2>2, <2>4
  <2>w. PICK w : w = u \o v
    OBVIOUS
  <2>k. w \in Seq(S) /\ IsJoin(w, u, v)
    BY <1>2, <2>5, <2>w, TextsJoined
  <2>6. /\ w \in Seq(S) /\ Len(w) = Len(u) + Len(v)
        /\ \A i \in 1..Len(u) : w[i] = u[i]
        /\ \A i \in 1..Len(v) : w[Len(u) + i] = v[i]
    BY <2>k DEF IsJoin
  <2>7. w[Len(u) + 1] = Blank
    BY <2>5, <2>6
  <2>3. /\ w \in Seq(S) /\ w = Slice(t, from, to)
        /\ Len(w) = to - from + 1
        /\ \A i \in 1..to - from : w[i] = u[i]
        /\ w[to - from + 1] = Blank
    BY <1>1, <1>2, <2>1, <2>4, <2>w, <2>5, <2>6, <2>7
  <2> QED
    BY <1>1, <1>2, <1>4, <2>3 DEF S
<1> QED
  BY <1>1, <1>3, <1>4

\* Where one text ends the other goes on.
IsConcat(w, s, u) ==
  /\ Len(w) = Len(s) + Len(u) - 1
  /\ \A i \in 1..Len(s) - 1 : w[i] = s[i]
  /\ \A i \in 2..Len(u) : w[Len(s) + i - 1] = u[i]
  /\ w[Len(s)] = IF s[Len(s)] = Blank THEN u[1] ELSE s[Len(s)]

LEMMA ConcatIs ==
  ASSUME NEW S, NEW s \in Seq(S), NEW u \in Seq(S), s # <<>>, u # <<>>,
         NEW w, w = Concat(s, u)
  PROVE  w \in Seq(S) /\ w # <<>> /\ IsConcat(w, s, u)
<1>1. /\ Len(s) \in Nat \ {0} /\ Len(u) \in Nat \ {0}
      /\ \A i \in 1..Len(s) : s[i] \in S
      /\ \A i \in 1..Len(u) : u[i] \in S
  BY EmptySeq, ElementOfSeq
<1>2. PICK m \in Nat \ {0} : m = Len(s)
  BY <1>1
<1>3. PICK n \in Nat \ {0} : n = Len(u)
  BY <1>1
<1>4. CASE s[m] = Blank
  <2>1. PICK f : f = Front(s)
    OBVIOUS
  <2>2. f = SubSeq(s, 1, m - 1)
    BY <1>2, <2>1 DEF Front
  <2>3. /\ f \in Seq(S) /\ Len(f) = m - 1
        /\ \A i \in 1..m - 1 : f[i] = s[i]
    <3>1. \A i \in 1..m - 1 : s[i] \in S
      BY <1>1, <1>2
    <3>2. /\ f \in Seq(S)
          /\ Len(f) = IF 1 <= m - 1 THEN (m - 1) - 1 + 1 ELSE 0
          /\ \A i \in 1..(m - 1) - 1 + 1 : f[i] = s[1 + i - 1]
      BY <2>2, <3>1, SubSeqProperties
    <3> QED
      BY <3>2
  <2>4. w = f \o u
    BY <1>2, <1>4, <2>1 DEF Concat, Last
  <2>k. w \in Seq(S) /\ IsJoin(w, f, u)
    BY <2>3, <2>4, TextsJoined
  <2>j. /\ w \in Seq(S) /\ Len(w) = Len(f) + Len(u)
        /\ \A i \in 1..Len(f) : w[i] = f[i]
        /\ \A i \in 1..Len(u) : w[Len(f) + i] = u[i]
    BY <2>k DEF IsJoin
  <2>5. /\ Len(w) = (m - 1) + n
        /\ \A i \in 1..m - 1 : w[i] = f[i]
        /\ \A i \in 1..n : w[(m - 1) + i] = u[i]
    BY <1>3, <2>3, <2>j
  <2>6. w[m] = u[1]
    <3>1. 1 \in 1..n /\ (m - 1) + 1 = m
      OBVIOUS
    <3>2. w[(m - 1) + 1] = u[1]
      BY <2>5, <3>1
    <3> QED
      BY <3>1, <3>2
  <2>8. \A i \in 2..n : w[m + i - 1] = u[i]
    <3> TAKE i \in 2..n
    <3>1. w[(m - 1) + i] = u[i]
      BY <2>5
    <3>2. (m - 1) + i = m + i - 1
      OBVIOUS
    <3> QED
      BY <3>1, <3>2
  <2>9. Len(w) = m + n - 1 /\ Len(w) # 0
    BY <2>5
  <2> QED
    BY <1>2, <1>3, <1>4, <2>3, <2>j, <2>5, <2>6, <2>8, <2>9, NotEmpty DEF IsConcat
<1>5. CASE s[m] # Blank
  <2>1. PICK f : f = Tail(u)
    OBVIOUS
  <2>2. /\ f \in Seq(S) /\ Len(f) = n - 1
        /\ \A i \in 1..n - 1 : f[i] = u[i + 1]
    BY <1>3, <2>1, HeadTailProperties
  <2>3. w = s \o f
    BY <1>2, <1>5, <2>1 DEF Concat, Last
  <2>k. w \in Seq(S) /\ IsJoin(w, s, f)
    BY <2>2, <2>3, TextsJoined
  <2>j. /\ w \in Seq(S) /\ Len(w) = Len(s) + Len(f)
        /\ \A i \in 1..Len(s) : w[i] = s[i]
        /\ \A i \in 1..Len(f) : w[Len(s) + i] = f[i]
    BY <2>k DEF IsJoin
  <2>4. /\ Len(w) = m + (n - 1)
        /\ \A i \in 1..m : w[i] = s[i]
        /\ \A i \in 1..n - 1 : w[m + i] = f[i]
    BY <1>2, <2>2, <2>j
  <2>5. \A i \in 2..n : w[m + i - 1] = u[i]
    <3> TAKE i \in 2..n
    <3>1. PICK j \in 1..n - 1 : i = j + 1
      OBVIOUS
    <3>2. w[m + j] = u[j + 1]
      BY <2>2, <2>4
    <3>3. m + j = m + i - 1
      BY <3>1
    <3> QED
      BY <3>1, <3>2, <3>3
  <2>6. Len(w) # 0 /\ Len(w) = m + n - 1 /\ m \in 1..m
        /\ \A i \in 1..m - 1 : i \in 1..m
    BY <2>4
  <2> QED
    BY <1>2, <1>3, <1>5, <2>j, <2>4, <2>5, <2>6, NotEmpty DEF IsConcat
<1> QED
  BY <1>4, <1>5

LEMMA EmptyIs == IsText(Empty) /\ Len(Empty) = 1 /\ Empty[1] = Blank
<1>1. Empty \in Seq({Blank}) /\ Empty # <<>> /\ Len(Empty) = 1
      /\ Empty[1] = Blank
  BY DEF Empty
<1> QED
  BY <1>1, IsTextIf

\* What there is from a line on.
LEMMA RestIs ==
  ASSUME NEW t, IsText(t), NEW from \in Nat \ {0}
  PROVE  /\ Rest(t, from) \in Seq(Range(t) \cup {Blank})
         /\ Rest(t, from) # <<>>
         /\ from > Len(t) => Rest(t, from) = Empty
         /\ from <= Len(t) =>
              /\ Len(Rest(t, from)) = Len(t) - from + 1
              /\ \A i \in 1..Len(t) - from + 1 :
                   Rest(t, from)[i] = t[from + i - 1]
<1> DEFINE S == Range(t) \cup {Blank}
<1>1. Len(t) \in Nat \ {0} /\ \A i \in 1..Len(t) : t[i] \in S
  BY TextIs
<1> HIDE DEF S
<1>2. CASE from > Len(t)
  <2>1. Blank \in S
    BY DEF S
  <2>2. Empty \in Seq(S) /\ Empty # <<>>
    BY <2>1 DEF Empty
  <2> QED
    BY <1>1, <1>2, <2>2 DEF Rest, S
<1>3. CASE from <= Len(t)
  <2>1. Rest(t, from) = SubSeq(t, from, Len(t))
    BY <1>1, <1>3 DEF Rest
  <2>2. \A i \in from..Len(t) : t[i] \in S
    BY <1>1
  <2>3. /\ Rest(t, from) \in Seq(S)
        /\ Len(Rest(t, from)) = Len(t) - from + 1
        /\ \A i \in 1..Len(t) - from + 1 : Rest(t, from)[i] = t[from + i - 1]
    BY <1>1, <1>3, <2>1, <2>2, SubSeqProperties
  <2>4. Len(<<>>) = 0 /\ Len(t) - from + 1 # 0
    BY <1>1, <1>3
  <2> QED
    BY <1>1, <1>3, <2>3, <2>4 DEF S
<1> QED
  BY <1>1, <1>2, <1>3

\* An edit of a text makes a text.
LEMMA EditedIsText ==
  ASSUME NEW t, IsText(t), NEW from \in 1..Len(t) + 1, NEW to \in Nat \ {0},
         NEW x, IsText(x)
  PROVE  /\ IsText(Edited(t, Edit(from, to, x)))
         /\ Edited(t, Edit(from, to, x)) \in Seq(Range(t) \cup {Blank} \cup Range(x))
<1> DEFINE S == Range(t) \cup {Blank} \cup Range(x)
           a == Slice(t, 1, from)
           r == Rest(t, to)
<1>1. Len(t) \in Nat \ {0} /\ t \in Seq(Range(t))
  BY TextIs
<1>2. a \in Seq(Range(t) \cup {Blank}) /\ Len(a) # 0
  <2>1. 1 \in 1..Len(t) + 1 /\ from \in 1..Len(t) + 1 /\ 1 <= Len(t)
    BY <1>1
  <2>2. /\ a \in Seq(Range(t) \cup {Blank})
        /\ from <= Len(t) => Len(a) = from - 1 + 1
        /\ from = Len(t) + 1 => Len(a) = from - 1
    BY <2>1, SliceIs
  <2> QED
    BY <1>1, <2>2
<1>3. a \in Seq(S) /\ a # <<>>
  <2>1. a \in Seq(S)
    BY <1>2, SeqMonotonic
  <2> HIDE DEF a
  <2> QED
    BY <1>2, <2>1, NotEmpty
<1>4. r \in Seq(S) /\ r # <<>>
  <2>1. r \in Seq(Range(t) \cup {Blank}) /\ r # <<>>
    BY RestIs
  <2> HIDE DEF r
  <2> QED
    BY <2>1, SeqMonotonic
<1>5. x \in Seq(S) /\ x # <<>>
  BY TextIs, SeqMonotonic
<1>6. Edited(t, Edit(from, to, x)) = Concat(Concat(a, x), r)
  BY DEF Edited, Edit
<1>s. S = Range(t) \cup {Blank} \cup Range(x)
  OBVIOUS
<1> HIDE DEF S, a, r
<1>c. PICK c : c = Concat(a, x)
  OBVIOUS
<1>7. c \in Seq(S) /\ c # <<>>
  BY <1>3, <1>5, <1>c, ConcatIs
<1>d. PICK d : d = Concat(c, r)
  OBVIOUS
<1>8. d \in Seq(S) /\ d # <<>>
  BY <1>4, <1>7, <1>d, ConcatIs
<1> QED
  BY <1>6, <1>8, <1>c, <1>d, <1>s, IsTextIf

\* What an edit between two lines leaves, if its own text ends in a line break.
Replaces(d, t, from, x, m, r) ==
  /\ IsText(d) /\ m \in Nat /\ Len(r) \in Nat
  /\ Len(d) = from - 1 + m + Len(r)
  /\ \A i \in 1..from - 1 : d[i] = t[i]
  /\ \A i \in 1..m : d[from - 1 + i] = x[i]
  /\ \A i \in 1..Len(r) : d[from - 1 + m + i] = r[i]

LEMMA EditedAt ==
  ASSUME NEW t, IsText(t), NEW from \in 1..Len(t), NEW to \in Nat \ {0},
         NEW x, IsText(x), x[Len(x)] = Blank,
         NEW d, d = Edited(t, Edit(from, to, x)), NEW m, m = Len(x) - 1
  PROVE  Replaces(d, t, from, x, m, Rest(t, to))
<1> DEFINE S == Range(t) \cup {Blank} \cup Range(x)
           a == Slice(t, 1, from)
           r == Rest(t, to)
<1>1. Len(t) \in Nat \ {0} /\ Len(x) \in Nat \ {0} /\ from \in Nat \ {0}
      /\ m \in Nat /\ Len(x) = m + 1
  BY TextIs
<1>2. /\ a \in Seq(Range(t) \cup {Blank}) /\ Len(a) = from /\ a[from] = Blank
      /\ \A i \in 1..from - 1 : a[i] = t[i]
  <2>1. /\ a \in Seq(Range(t) \cup {Blank})
        /\ Len(a) = from - 1 + 1 /\ a[from - 1 + 1] = Blank
        /\ \A i \in 1..from - 1 : a[i] = t[1 + i - 1]
    <3>1. 1 \in 1..Len(t) + 1 /\ from \in 1..Len(t) + 1 /\ 1 <= Len(t)
          /\ from <= Len(t)
      BY <1>1
    <3> QED
      BY <3>1, SliceIs
  <2> HIDE DEF a
  <2>2. /\ from - 1 + 1 = from
        /\ \A i \in 1..from - 1 : 1 + i - 1 = i
    BY <1>1
  <2>3. \A i \in 1..from - 1 : a[i] = t[i]
    BY <2>1, <2>2
  <2> QED
    BY <2>1, <2>2, <2>3
<1>3. a \in Seq(S) /\ a # <<>>
  <2>1. a \in Seq(S)
    BY <1>2, SeqMonotonic
  <2>2. Len(a) # 0
    BY <1>1, <1>2
  <2> HIDE DEF a
  <2> QED
    BY <2>1, <2>2, NotEmpty
<1>4. r \in Seq(S) /\ r # <<>>
  <2>1. r \in Seq(Range(t) \cup {Blank}) /\ r # <<>>
    BY RestIs
  <2> HIDE DEF r
  <2> QED
    BY <2>1, SeqMonotonic
<1>5. x \in Seq(S) /\ x # <<>>
  BY TextIs, SeqMonotonic
<1>6. d = Concat(Concat(a, x), r)
  BY DEF Edited, Edit
<1> HIDE DEF S, a, r
<1>0. IsText(d)
  <2>1. from \in 1..Len(t) + 1
    BY <1>1
  <2>2. IsText(Edited(t, Edit(from, to, x)))
    BY <2>1, EditedIsText
  <2> QED
    BY <2>2
<1>9. Len(r) \in Nat \ {0}
  BY <1>4, EmptySeq
<1>7. PICK c : c = Concat(a, x)
  OBVIOUS
<1>8. /\ c \in Seq(S) /\ c # <<>> /\ Len(c) = from + m
      /\ \A i \in 1..from - 1 : c[i] = t[i]
      /\ \A i \in 1..m + 1 : c[from + i - 1] = x[i]
  <2>1. /\ c \in Seq(S) /\ c # <<>> /\ Len(c) = Len(a) + Len(x) - 1
        /\ \A i \in 1..Len(a) - 1 : c[i] = a[i]
        /\ \A i \in 2..Len(x) : c[Len(a) + i - 1] = x[i]
        /\ c[Len(a)] = IF a[Len(a)] = Blank THEN x[1] ELSE a[Len(a)]
    <3>1. c \in Seq(S) /\ c # <<>> /\ IsConcat(c, a, x)
      BY <1>3, <1>5, <1>7, ConcatIs
    <3> QED
      BY <3>1 DEF IsConcat
  <2>2. /\ \A i \in 1..from - 1 : c[i] = t[i]
        /\ \A i \in 2..m + 1 : c[from + i - 1] = x[i]
        /\ c[from] = x[1]
    <3>1. \A i \in 1..from - 1 : c[i] = t[i]
      BY <1>1, <1>2, <2>1
    <3> QED
      BY <1>1, <1>2, <2>1, <3>1
  <2>3. \A i \in 1..m + 1 : c[from + i - 1] = x[i]
    <3> TAKE i \in 1..m + 1
    <3>1. CASE i = 1
      <4>1. from + i - 1 = from
        BY <1>1, <3>1
      <4> QED
        BY <2>2, <3>1, <4>1
    <3>2. CASE i # 1
      BY <1>1, <2>2, <3>2
    <3> QED
      BY <3>1, <3>2
  <2> QED
    BY <1>1, <1>2, <2>1, <2>2, <2>3
<1>10. c[from + m] = Blank
  <2>1. m + 1 \in 1..m + 1 /\ from + (m + 1) - 1 = from + m
    BY <1>1
  <2>2. c[from + (m + 1) - 1] = x[m + 1]
    BY <1>8, <2>1
  <2> QED
    BY <1>1, <2>1, <2>2
<1>11. PICK n : n = from + m
  OBVIOUS
<1>12. /\ Len(d) = n + Len(r) - 1
       /\ \A i \in 1..n - 1 : d[i] = c[i]
       /\ \A i \in 2..Len(r) : d[n + i - 1] = r[i]
       /\ d[n] = r[1]
  <2>1. /\ Len(d) = Len(c) + Len(r) - 1
        /\ \A i \in 1..Len(c) - 1 : d[i] = c[i]
        /\ \A i \in 2..Len(r) : d[Len(c) + i - 1] = r[i]
        /\ d[Len(c)] = IF c[Len(c)] = Blank THEN r[1] ELSE c[Len(c)]
    <3>1. d = Concat(c, r) /\ c \in Seq(S) /\ c # <<>>
      BY <1>6, <1>7, <1>8
    <3>2. IsConcat(d, c, r)
      BY <1>4, <3>1, ConcatIs
    <3> QED
      BY <3>2 DEF IsConcat
  <2>2. Len(c) = n /\ c[n] = Blank
    BY <1>8, <1>10, <1>11
  <2> QED
    BY <2>1, <2>2
<1>13. n \in Nat \ {0} /\ from - 1 + m = n - 1
  BY <1>1, <1>11
<1>14. \A i \in 1..from - 1 : d[i] = t[i]
  <2> TAKE i \in 1..from - 1
  <2>1. i \in 1..n - 1
    BY <1>1, <1>11
  <2> QED
    BY <1>8, <1>12, <2>1
<1>15. \A i \in 1..m : d[from - 1 + i] = x[i]
  <2> TAKE i \in 1..m
  <2>1. from + i - 1 \in 1..n - 1 /\ from - 1 + i = from + i - 1
        /\ i \in 1..m + 1
    BY <1>1, <1>11
  <2> QED
    BY <1>8, <1>12, <2>1
<1>16. \A i \in 1..Len(r) : d[n - 1 + i] = r[i]
  <2> TAKE i \in 1..Len(r)
  <2>1. n - 1 + i = n + i - 1 /\ (i = 1 => n + i - 1 = n)
        /\ (i # 1 => i \in 2..Len(r))
    BY <1>9, <1>13
  <2> QED
    BY <1>12, <2>1
<1>17. Len(d) = from - 1 + m + Len(r)
  BY <1>9, <1>12, <1>13, <1>1, <1>11
<1>18. \A i \in 1..Len(r) : d[from - 1 + m + i] = r[i]
  BY <1>13, <1>16
<1>19. Replaces(d, t, from, x, m, r)
  BY <1>0, <1>1, <1>9, <1>14, <1>15, <1>17, <1>18 DEF Replaces
<1> QED
  BY <1>19 DEF r

----------------------------------------------------------------------------
(* Separators.                                                             *)

\* A sequence of all members of a set of numbers, in ascending order.
Ascends(E, s, n) ==
  /\ n \in Nat /\ s = [k \in 1..n |-> s[k]]
  /\ \A k \in 1..n : s[k] \in E
  /\ \A e \in E : \E k \in 1..n : s[k] = e
  /\ \A i, j \in 1..n : i < j => s[i] < s[j]

LEMMA InOrderAscends ==
  ASSUME NEW E \in SUBSET Int, IsFiniteSet(E)
  PROVE  Ascends(E, InOrder(E), Cardinality(E))
<1>1. PICK n, s : n = Cardinality(E) /\ s = InOrder(E)
  OBVIOUS
<1>2. n \in Nat
  BY <1>1, FS_CardinalityType
<1>3. s = [k \in 1..n |-> s[k]]
  BY <1>1 DEF InOrder
<1>4. \A k \in 1..n : /\ s[k] \in E /\ Rank(E, s[k]) = k
                      /\ \A e \in E : Rank(E, e) = k => e = s[k]
  BY <1>1, Ranked
<1>5. \A e \in E : \E k \in 1..n : s[k] = e
  <2> TAKE e \in E
  <2>1. Rank(E, e) \in 1..n
    BY <1>1, RankBounds
  <2>2. PICK k \in 1..n : k = Rank(E, e)
    BY <2>1
  <2> QED
    BY <1>4, <2>2
<1>6. \A i, j \in 1..n : i < j => s[i] < s[j]
  <2> SUFFICES ASSUME NEW i \in 1..n, NEW j \in 1..n, i < j, ~(s[i] < s[j])
               PROVE  FALSE
    OBVIOUS
  <2>1. /\ s[i] \in E /\ s[j] \in E /\ s[i] \in Int /\ s[j] \in Int
        /\ Rank(E, s[i]) = i /\ Rank(E, s[j]) = j
    BY <1>4
  <2>2. s[i] # s[j] /\ s[j] < s[i]
    BY <2>1
  <2>3. Rank(E, s[j]) < Rank(E, s[i])
    BY <2>1, <2>2, RanksGrow
  <2> QED
    BY <2>1, <2>3
<1> QED
  BY <1>1, <1>2, <1>3, <1>4, <1>5, <1>6 DEF Ascends

\* The first members of a sequence.
Firsts(s, k) == {s[i] : i \in 1..k}

\* There is only one.
LEMMA AscendsOnce ==
  ASSUME NEW E \in SUBSET Int, NEW n, NEW s, Ascends(E, s, n)
  PROVE  IsFiniteSet(E) /\ Cardinality(E) = n /\ InOrder(E) = s
<1>1. /\ n \in Nat /\ s = [k \in 1..n |-> s[k]]
      /\ \A k \in 1..n : s[k] \in E /\ s[k] \in Int
      /\ \A e \in E : \E k \in 1..n : s[k] = e
      /\ \A i, j \in 1..n : i < j => s[i] < s[j]
  BY DEF Ascends
<1>2. \A i, j \in 1..n : i # j => s[i] # s[j]
  BY <1>1
<1>3. ASSUME NEW k \in 0..n
      PROVE  IsFiniteSet(Firsts(s, k)) /\ Cardinality(Firsts(s, k)) = k
  <2> DEFINE f == [i \in 1..k |-> s[i]]
  <2>1. IsFiniteSet(1..k) /\ Cardinality(1..k) = k
    <3>1. k \in Nat /\ 1 \in Int /\ k \in Int
      BY <1>1
    <3>2. IsFiniteSet(1..k) /\ Cardinality(1..k) = IF 1 <= k THEN k - 1 + 1 ELSE 0
      BY <3>1, FS_Interval
    <3> QED
      BY <3>1, <3>2
  <2>2. f \in [1..k -> Firsts(s, k)]
        /\ \A x \in Firsts(s, k) : \E i \in 1..k : f[i] = x
    BY DEF Firsts
  <2>3. \A i, j \in 1..k : i # j => f[i] # f[j]
    BY <1>1, <1>2
  <2> HIDE DEF f
  <2>4. f \in Bijection(1..k, Firsts(s, k))
    BY <2>2, <2>3 DEF Bijection, Injection, Surjection, IsInjective
  <2>5. /\ IsFiniteSet(Firsts(s, k))
        /\ Cardinality(1..k) = Cardinality(Firsts(s, k))
    BY <2>1, <2>4, FS_Bijection DEF ExistsBijection
  <2> QED
    BY <2>1, <2>5
<1>4. E = Firsts(s, n)
  BY <1>1 DEF Firsts
<1>5. IsFiniteSet(E) /\ Cardinality(E) = n
  <2>1. n \in 0..n
    BY <1>1
  <2> QED
    BY <1>3, <1>4, <2>1
<1>6. ASSUME NEW k \in 1..n PROVE InOrder(E)[k] = s[k]
  <2>1. UpTo(E, s[k]) = Firsts(s, k)
    <3>1. \A i \in 1..n : s[i] <= s[k] <=> i <= k
      <4> TAKE i \in 1..n
      <4>1. CASE i < k
        BY <1>1, <4>1
      <4>2. CASE i = k
        BY <1>1, <4>2
      <4>3. CASE i > k
        <5>1. s[k] < s[i] /\ s[k] \in Int /\ s[i] \in Int
          BY <1>1, <4>3
        <5> QED
          BY <4>3, <5>1
      <4> QED
        BY <1>1, <4>1, <4>2, <4>3
    <3>2. \A x \in UpTo(E, s[k]) : \E i \in 1..k : s[i] = x
      <4> TAKE x \in UpTo(E, s[k])
      <4>1. x \in E /\ x <= s[k]
        BY DEF UpTo
      <4>2. PICK i \in 1..n : s[i] = x
        BY <1>1, <4>1
      <4>3. i \in 1..k
        BY <1>1, <3>1, <4>1, <4>2
      <4> QED
        BY <4>2, <4>3
    <3>3. \A i \in 1..k : s[i] \in UpTo(E, s[k])
      <4> TAKE i \in 1..k
      <4>1. i \in 1..n /\ i <= k
        BY <1>1
      <4>2. s[i] \in E /\ s[i] <= s[k]
        BY <1>1, <3>1, <4>1
      <4> QED
        BY <4>2 DEF UpTo
    <3> QED
      BY <3>2, <3>3 DEF Firsts
  <2>2. Rank(E, s[k]) = k
    <3>1. k \in 0..n
      BY <1>1
    <3> QED
      BY <1>3, <2>1, <3>1 DEF Rank
  <2>3. k \in 1..Cardinality(E) /\ s[k] \in E
    BY <1>1, <1>5
  <2>4. \A e \in E : Rank(E, e) = k => e = InOrder(E)[k]
    BY <1>5, <2>3, Ranked
  <2> QED
    BY <2>2, <2>3, <2>4
<1>7. PICK m, q : m = Cardinality(E) /\ q = InOrder(E)
  OBVIOUS
<1>8. q = [k \in 1..m |-> q[k]]
  BY <1>7 DEF InOrder
<1>9. q = s
  <2>1. \A k \in 1..n : q[k] = s[k]
    BY <1>6, <1>7
  <2> QED
    BY <1>1, <1>5, <1>7, <1>8, <2>1
<1> QED
  BY <1>5, <1>7, <1>9

LEMMA MinOf ==
  ASSUME NEW J, J \subseteq Nat, J # {}
  PROVE  Min(J) \in J /\ \A j \in J : Min(J) <= j
<1>1. PICK m \in J : \A j \in J : m <= j
  BY LeastNumber
<1> QED
  BY <1>1 DEF Min

\* The next separator, or the end.
IsNext(t, h, e) ==
  /\ e \in h + 1..Len(t) + 1
  /\ e <= Len(t) => e \in Separators(t)
  /\ \A j \in Separators(t) : j > h => j >= e

LEMMA SeparatorsIn ==
  ASSUME NEW t, IsText(t)
  PROVE  /\ Separators(t) \subseteq 1..Len(t) /\ Separators(t) \in SUBSET Int
         /\ IsFiniteSet(Separators(t)) /\ Len(t) \in Nat \ {0}
<1>1. Len(t) \in Nat \ {0} /\ DOMAIN t = 1..Len(t)
  BY TextIs
<1>2. Separators(t) \subseteq 1..Len(t)
  BY <1>1 DEF Separators
<1>3. IsFiniteSet(1..Len(t))
  BY <1>1, FS_Interval
<1> QED
  BY <1>1, <1>2, <1>3, FS_Subset

LEMMA NextSeparatorIs ==
  ASSUME NEW t, IsText(t), NEW h \in 0..Len(t)
  PROVE  IsNext(t, h, NextSeparator(t, h))
<1> DEFINE J == {Len(t) + 1} \cup {j \in Separators(t) : j > h}
<1>1. /\ Separators(t) \subseteq 1..Len(t) /\ Len(t) \in Nat
  BY SeparatorsIn
<1>2. J \subseteq Nat /\ Len(t) + 1 \in J /\ J # {}
  BY <1>1
<1>3. PICK m : m = Min(J)
  OBVIOUS
<1>4. m \in J /\ \A j \in J : m <= j
  BY <1>2, <1>3, MinOf
<1>5. m = NextSeparator(t, h)
  BY <1>3 DEF NextSeparator
<1>6. m = Len(t) + 1 \/ (m \in Separators(t) /\ m > h)
  BY <1>4
<1>7. m <= Len(t) + 1 /\ \A j \in Separators(t) : j > h => m <= j
  BY <1>2, <1>4
<1> HIDE DEF J
<1>8. m \in h + 1..Len(t) + 1 /\ (m <= Len(t) => m \in Separators(t))
  BY <1>1, <1>6, <1>7
<1>9. \A j \in Separators(t) : j > h => j >= m
  BY <1>1, <1>7, <1>8
<1> QED
  BY <1>5, <1>8, <1>9 DEF IsNext

LEMMA NextOnce ==
  ASSUME NEW t, IsText(t), NEW h \in 0..Len(t), NEW e, IsNext(t, h, e)
  PROVE  NextSeparator(t, h) = e
<1>1. PICK m : m = NextSeparator(t, h)
  OBVIOUS
<1>2. IsNext(t, h, m)
  BY <1>1, NextSeparatorIs
<1>3. /\ m \in h + 1..Len(t) + 1 /\ e \in h + 1..Len(t) + 1
      /\ m <= Len(t) => m >= e
      /\ e <= Len(t) => e >= m
  BY <1>2 DEF IsNext
<1>4. Len(t) \in Nat
  BY TextIs
<1> QED
  BY <1>1, <1>3, <1>4

\* Where the sections of a text are, and what they hold.
HeadsAre(t, hs, n) ==
  /\ Ascends(Separators(t), hs, n)
  /\ \A k \in 1..n : hs[k] \in 1..Len(t)
  /\ \A k \in 1..n :
       NextSeparator(t, hs[k]) = IF k = n THEN Len(t) + 1 ELSE hs[k + 1]
  /\ NextSeparator(t, 0) = IF n = 0 THEN Len(t) + 1 ELSE hs[1]
  /\ SectionTexts(t) = [k \in 1..n |-> SectionText(t, hs[k])]

LEMMA HeadsIf ==
  ASSUME NEW t, IsText(t), NEW hs, NEW n, Ascends(Separators(t), hs, n)
  PROVE  HeadsAre(t, hs, n)
<1>1. /\ n \in Nat /\ hs = [k \in 1..n |-> hs[k]]
      /\ \A k \in 1..n : hs[k] \in Separators(t)
      /\ \A e \in Separators(t) : \E k \in 1..n : hs[k] = e
      /\ \A i, j \in 1..n : i < j => hs[i] < hs[j]
  BY DEF Ascends
<1>2. /\ Separators(t) \subseteq 1..Len(t) /\ Separators(t) \in SUBSET Int
      /\ Len(t) \in Nat \ {0}
  BY SeparatorsIn
<1>3. \A k \in 1..n : hs[k] \in 1..Len(t) /\ hs[k] \in Nat
  BY <1>1, <1>2
<1>4. ASSUME NEW k \in 1..n
      PROVE  NextSeparator(t, hs[k]) = IF k = n THEN Len(t) + 1 ELSE hs[k + 1]
  <2>1. CASE k = n
    <3>1. \A j \in Separators(t) : ~(j > hs[k])
      <4> TAKE j \in Separators(t)
      <4>1. PICK i \in 1..n : hs[i] = j
        BY <1>1
      <4>2. i = k \/ i < k
        BY <1>1, <2>1
      <4>3. hs[i] <= hs[k] /\ hs[i] \in Nat /\ hs[k] \in Nat
        BY <1>1, <1>3, <4>2
      <4> QED
        BY <4>1, <4>3
    <3>2. Len(t) + 1 \in hs[k] + 1..Len(t) + 1 /\ ~(Len(t) + 1 <= Len(t))
      BY <1>2, <1>3
    <3>3. IsNext(t, hs[k], Len(t) + 1)
      BY <3>1, <3>2 DEF IsNext
    <3>4. hs[k] \in 0..Len(t)
      BY <1>2, <1>3
    <3> QED
      BY <2>1, <3>3, <3>4, NextOnce
  <2>2. CASE k # n
    <3>1. k + 1 \in 1..n /\ k < k + 1
      BY <1>1, <2>2
    <3>2. PICK e : e = hs[k + 1]
      OBVIOUS
    <3>3. e \in Separators(t) /\ hs[k] < e /\ e \in 1..Len(t)
      BY <1>1, <1>3, <3>1, <3>2
    <3>4. \A j \in Separators(t) : j > hs[k] => j >= e
      <4> SUFFICES ASSUME NEW j \in Separators(t), j > hs[k] PROVE j >= e
        OBVIOUS
      <4>1. PICK i \in 1..n : hs[i] = j
        BY <1>1
      <4>2. ~(i <= k)
        <5>1. ASSUME i <= k PROVE FALSE
          <6>1. hs[i] <= hs[k]
            <7>1. CASE i = k
              BY <1>3, <7>1
            <7>2. CASE i < k
              BY <1>1, <1>3, <7>2
            <7> QED
              BY <5>1, <7>1, <7>2
          <6> QED
            BY <1>3, <4>1, <6>1
        <5> QED
          BY <5>1
      <4>3. i = k + 1 \/ k + 1 < i
        BY <4>2
      <4>4. hs[k + 1] <= hs[i]
        BY <1>1, <1>3, <3>1, <4>3
      <4> QED
        BY <1>3, <3>2, <3>3, <4>1, <4>4
    <3>5. IsNext(t, hs[k], e)
      BY <1>2, <1>3, <3>3, <3>4 DEF IsNext
    <3>6. hs[k] \in 0..Len(t)
      BY <1>2, <1>3
    <3> QED
      BY <2>2, <3>2, <3>5, <3>6, NextOnce
  <2> QED
    BY <2>1, <2>2
<1>5. NextSeparator(t, 0) = IF n = 0 THEN Len(t) + 1 ELSE hs[1]
  <2>0. 0 \in 0..Len(t)
    BY <1>2
  <2>1. CASE n = 0
    <3>1. \A j \in Separators(t) : FALSE
      BY <1>1, <2>1
    <3>2. IsNext(t, 0, Len(t) + 1)
      BY <1>2, <3>1 DEF IsNext
    <3> QED
      BY <2>0, <2>1, <3>2, NextOnce
  <2>2. CASE n # 0
    <3>1. 1 \in 1..n
      BY <1>1, <2>2
    <3>2. PICK e : e = hs[1]
      OBVIOUS
    <3>3. \A j \in Separators(t) : j >= e
      <4> TAKE j \in Separators(t)
      <4>1. PICK i \in 1..n : hs[i] = j
        BY <1>1
      <4>2. i = 1 \/ 1 < i
        OBVIOUS
      <4>3. hs[1] <= hs[i]
        BY <1>1, <1>3, <3>1, <4>2
      <4> QED
        BY <1>3, <3>1, <3>2, <4>1, <4>3
    <3>4. e \in Separators(t) /\ e \in 1..Len(t)
      BY <1>1, <1>3, <3>1, <3>2
    <3>5. IsNext(t, 0, e)
      BY <1>2, <3>3, <3>4 DEF IsNext
    <3> QED
      BY <2>0, <2>2, <3>2, <3>5, NextOnce
  <2> QED
    BY <2>1, <2>2
<1>6. InOrder(Separators(t)) = hs
  BY <1>2, AscendsOnce
<1>7. SectionTexts(t) = [k \in 1..n |-> SectionText(t, hs[k])]
  <2>1. DOMAIN hs = 1..n
    BY <1>1
  <2> QED
    BY <1>6, <2>1 DEF SectionTexts
<1> QED
  BY <1>3, <1>4, <1>5, <1>7 DEF HeadsAre

LEMMA HeadsExist ==
  ASSUME NEW t, IsText(t)
  PROVE  \E hs, n : HeadsAre(t, hs, n)
<1>1. Separators(t) \in SUBSET Int /\ IsFiniteSet(Separators(t))
  BY SeparatorsIn
<1>2. PICK hs, n : hs = InOrder(Separators(t)) /\ n = Cardinality(Separators(t))
  OBVIOUS
<1>3. Ascends(Separators(t), hs, n)
  BY <1>1, <1>2, InOrderAscends
<1> QED
  BY <1>3, HeadsIf

\* Sequences that hold the same are the same.
LEMMA SameSeqs ==
  ASSUME NEW S, NEW T, NEW u \in Seq(S), NEW v \in Seq(T), NEW n,
         n = Len(u), n = Len(v), \A i \in 1..n : u[i] = v[i]
  PROVE  u = v
<1>1. u \in Seq(S \cup T) /\ v \in Seq(S \cup T)
  BY SeqMonotonic
<1> QED
  BY <1>1, SeqEqual

\* A part of a sequence.
IsPart(w, s, a, n) ==
  Len(w) = n /\ \A i \in 1..n : w[i] = s[a + i]

LEMMA PartIs ==
  ASSUME NEW S, NEW s \in Seq(S), NEW a \in Nat, NEW b \in Nat,
         a <= b, b <= Len(s)
  PROVE  /\ SubSeq(s, a + 1, b) \in Seq(S)
         /\ IsPart(SubSeq(s, a + 1, b), s, a, b - a)
<1>1. \A i \in a + 1..b : s[i] \in S
  BY LenProperties, ElementOfSeq
<1>2. PICK w : w = SubSeq(s, a + 1, b)
  OBVIOUS
<1>3. /\ w \in Seq(S)
      /\ Len(w) = IF a + 1 <= b THEN b - (a + 1) + 1 ELSE 0
      /\ \A i \in 1..b - (a + 1) + 1 : w[i] = s[(a + 1) + i - 1]
  BY <1>1, <1>2, SubSeqProperties
<1>4. Len(w) = b - a
  BY <1>3
<1>5. \A i \in 1..b - a : w[i] = s[a + i]
  <2> TAKE i \in 1..b - a
  <2>1. i \in 1..b - (a + 1) + 1 /\ (a + 1) + i - 1 = a + i
    OBVIOUS
  <2>2. w[i] = s[(a + 1) + i - 1]
    BY <1>3, <2>1
  <2> QED
    BY <2>1, <2>2
<1> QED
  BY <1>2, <1>3, <1>4, <1>5 DEF IsPart

\* A sequence without one of its members.
LEMMA RemoveAtIs ==
  ASSUME NEW S, NEW s \in Seq(S), NEW n \in Nat, n = Len(s), NEW k \in 1..n
  PROVE  RemoveAt(s, k) = [i \in 1..n - 1 |-> IF i < k THEN s[i] ELSE s[i + 1]]
<1>4. PICK a, b, w : /\ a = SubSeq(s, 0 + 1, k - 1) /\ b = SubSeq(s, k + 1, n)
                     /\ w = RemoveAt(s, k)
  OBVIOUS
<1>5. w = a \o b
  BY <1>4 DEF RemoveAt
<1>6. a \in Seq(S) /\ Len(a) = k - 1 /\ \A i \in 1..k - 1 : a[i] = s[i]
  <2>1. 0 \in Nat /\ k - 1 \in Nat /\ 0 <= k - 1 /\ k - 1 <= Len(s)
    OBVIOUS
  <2>2. a \in Seq(S) /\ IsPart(a, s, 0, (k - 1) - 0)
    BY <1>4, <2>1, PartIs
  <2> QED
    BY <2>2 DEF IsPart
<1>7. b \in Seq(S) /\ Len(b) = n - k /\ \A i \in 1..n - k : b[i] = s[k + i]
  <2>1. k \in Nat /\ k <= n /\ n <= Len(s)
    OBVIOUS
  <2>2. b \in Seq(S) /\ IsPart(b, s, k, n - k)
    BY <1>4, <2>1, PartIs
  <2> QED
    BY <2>2 DEF IsPart
<1>8. w \in Seq(S) /\ IsJoin(w, a, b)
  BY <1>5, <1>6, <1>7, TextsJoined
<1>9. /\ Len(w) = n - 1
      /\ \A i \in 1..k - 1 : w[i] = s[i]
      /\ \A i \in 1..n - k : w[(k - 1) + i] = s[k + i]
  <2>1. PICK m, l : m = k - 1 /\ l = n - k
    OBVIOUS
  <2>2. /\ Len(w) = m + l
        /\ \A i \in 1..m : w[i] = a[i]
        /\ \A i \in 1..l : w[m + i] = b[i]
    BY <1>6, <1>7, <1>8, <2>1 DEF IsJoin
  <2>3. Len(w) = n - 1
    BY <2>1, <2>2
  <2> QED
    BY <1>6, <1>7, <2>1, <2>2, <2>3
<1>10. \A i \in 1..n - 1 : w[i] = IF i < k THEN s[i] ELSE s[i + 1]
  <2> TAKE i \in 1..n - 1
  <2>1. CASE i < k
    BY <1>9, <2>1
  <2>2. CASE i >= k
    <3>1. PICK j \in 1..n - k : j = i - k + 1
      BY <2>2
    <3>2. (k - 1) + j = i /\ k + j = i + 1
      BY <2>2, <3>1
    <3>3. w[(k - 1) + j] = s[k + j]
      BY <1>9
    <3>4. w[i] = s[i + 1]
      BY <3>2, <3>3
    <3> QED
      BY <2>2, <3>4
  <2> QED
    BY <2>1, <2>2
<1>11. w = [i \in 1..n - 1 |-> w[i]]
  <2>1. DOMAIN w = 1..Len(w) /\ w \in [1..Len(w) -> S]
    BY <1>8, LenProperties
  <2> QED
    BY <1>9, <2>1
<1> QED
  BY <1>4, <1>10, <1>11

\* Slices of two texts that hold the same lines.
LinesAgree(t, a, d, b, m) == \A i \in 1..m : t[a + i - 1] = d[b + i - 1]

LEMMA SlicesSame ==
  ASSUME NEW t, IsText(t), NEW a \in 1..Len(t), NEW x \in a..Len(t) + 1,
         NEW d, IsText(d), NEW b \in 1..Len(d), NEW y \in b..Len(d) + 1,
         LinesAgree(t, a, d, b, x - a),
         \/ x - a = y - b /\ x <= Len(t) /\ y <= Len(d)
         \/ x - a = y - b /\ x = Len(t) + 1 /\ y = Len(d) + 1
         \/ /\ x <= Len(t) /\ y = Len(d) + 1 /\ y - b = x - a + 1
            /\ d[Len(d)] = Blank
  PROVE  Slice(t, a, x) = Slice(d, b, y)
<1>1. /\ Len(t) \in Nat \ {0} /\ Len(d) \in Nat \ {0}
      /\ a \in 1..Len(t) + 1 /\ a <= Len(t) /\ b \in 1..Len(d) + 1 /\ b <= Len(d)
  BY TextIs
<1>2. PICK u, v : u = Slice(t, a, x) /\ v = Slice(d, b, y)
  OBVIOUS
<1>3. /\ u \in Seq(Range(t) \cup {Blank})
      /\ x <= Len(t) => Len(u) = x - a + 1 /\ u[x - a + 1] = Blank
      /\ x = Len(t) + 1 => Len(u) = x - a
      /\ \A i \in 1..x - a : u[i] = t[a + i - 1]
  BY <1>1, <1>2, SliceIs, ZenonT(40)
<1>4. /\ v \in Seq(Range(d) \cup {Blank})
      /\ y <= Len(d) => Len(v) = y - b + 1 /\ v[y - b + 1] = Blank
      /\ y = Len(d) + 1 => Len(v) = y - b
      /\ \A i \in 1..y - b : v[i] = d[b + i - 1]
  BY <1>1, <1>2, SliceIs, ZenonT(40)
<1>5. PICK m \in Nat : m = x - a
  BY <1>1
<1>6. \A i \in 1..m : t[a + i - 1] = d[b + i - 1]
  BY <1>5 DEF LinesAgree
<1>7. CASE x - a = y - b /\ x <= Len(t) /\ y <= Len(d)
  <2>1. /\ Len(u) = m + 1 /\ Len(v) = m + 1
        /\ u[m + 1] = Blank /\ v[m + 1] = Blank
        /\ \A i \in 1..m : u[i] = v[i]
    BY <1>3, <1>4, <1>5, <1>6, <1>7
  <2>2. \A i \in 1..m + 1 : u[i] = v[i]
    <3>1. \A i \in 1..m + 1 : i \in 1..m \/ i = m + 1
      OBVIOUS
    <3> QED
      BY <2>1, <3>1
  <2> QED
    BY <1>2, <1>3, <1>4, <2>1, <2>2, SameSeqs
<1>8. CASE x - a = y - b /\ x = Len(t) + 1 /\ y = Len(d) + 1
  <2>1. /\ Len(u) = m /\ Len(v) = m
        /\ \A i \in 1..m : u[i] = v[i]
    BY <1>3, <1>4, <1>5, <1>6, <1>8
  <2> QED
    BY <1>2, <1>3, <1>4, <2>1, SameSeqs
<1>9. CASE /\ x <= Len(t) /\ y = Len(d) + 1 /\ y - b = x - a + 1
           /\ d[Len(d)] = Blank
  <2>1. /\ Len(u) = m + 1 /\ Len(v) = m + 1 /\ u[m + 1] = Blank
        /\ \A i \in 1..m + 1 : v[i] = d[b + i - 1]
    BY <1>3, <1>4, <1>5, <1>9
  <2>2. m + 1 \in 1..m + 1 /\ b + (m + 1) - 1 = Len(d)
    BY <1>1, <1>5, <1>9
  <2>3. v[m + 1] = Blank
    BY <1>9, <2>1, <2>2
  <2>4. \A i \in 1..m : u[i] = v[i]
    BY <1>3, <1>5, <1>6, <2>1
  <2>5. \A i \in 1..m + 1 : u[i] = v[i]
    <3>1. \A i \in 1..m + 1 : i \in 1..m \/ i = m + 1
      OBVIOUS
    <3> QED
      BY <2>1, <2>3, <2>4, <3>1
  <2> QED
    BY <1>2, <1>3, <1>4, <2>1, <2>5, SameSeqs
<1> QED
  BY <1>7, <1>8, <1>9

----------------------------------------------------------------------------
(* A section taken away.                                                   *)

LEMMA Ascending ==
  ASSUME NEW t, IsText(t), NEW hs, NEW n, HeadsAre(t, hs, n)
  PROVE  /\ n \in Nat /\ Len(t) \in Nat \ {0}
         /\ \A k \in 1..n : /\ hs[k] \in 1..Len(t) /\ hs[k] \in Nat
                            /\ IsSeparator(t[hs[k]])
         /\ \A i \in 1..Len(t) : IsSeparator(t[i]) => \E k \in 1..n : hs[k] = i
         /\ \A i, j \in 1..n : i < j <=> hs[i] < hs[j]
         /\ \A i, j \in 1..n : i <= j <=> hs[i] <= hs[j]
<1>1. /\ n \in Nat /\ Len(t) \in Nat \ {0} /\ DOMAIN t = 1..Len(t)
      /\ \A k \in 1..n : hs[k] \in Separators(t) /\ hs[k] \in 1..Len(t)
      /\ \A e \in Separators(t) : \E k \in 1..n : hs[k] = e
      /\ \A i, j \in 1..n : i < j => hs[i] < hs[j]
  BY TextIs DEF HeadsAre, Ascends
<1>2. \A i \in 1..Len(t) : i \in Separators(t) <=> IsSeparator(t[i])
  BY <1>1 DEF Separators
<1>3. \A k \in 1..n : hs[k] \in Nat
  BY <1>1
<1>4. \A i, j \in 1..n : i < j <=> hs[i] < hs[j]
  <2> TAKE i, j \in 1..n
  <2>1. hs[i] \in Nat /\ hs[j] \in Nat
    BY <1>3
  <2>2. CASE i < j
    BY <1>1, <2>2
  <2>3. CASE i = j
    BY <2>1, <2>3
  <2>4. CASE j < i
    <3>1. hs[j] < hs[i]
      BY <1>1, <2>4
    <3> QED
      BY <2>1, <2>4, <3>1
  <2> QED
    BY <1>1, <2>2, <2>3, <2>4
<1>5. \A i, j \in 1..n : i <= j <=> hs[i] <= hs[j]
  <2> TAKE i, j \in 1..n
  <2>1. hs[i] \in Nat /\ hs[j] \in Nat /\ (j < i <=> hs[j] < hs[i])
    BY <1>3, <1>4
  <2> QED
    BY <1>1, <2>1
<1> QED
  BY <1>1, <1>2, <1>3, <1>4, <1>5

\* The text without the lines from h to e - 1.
Without(d, t, h, e) ==
  /\ IsText(d)
  /\ \A i \in 1..h - 1 : d[i] = t[i]
  /\ e <= Len(t) => /\ Len(d) = Len(t) - (e - h)
                    /\ \A i \in e..Len(t) : d[i - (e - h)] = t[i]
  /\ e = Len(t) + 1 => Len(d) = h /\ d[h] = Blank

LEMMA WithoutLines ==
  ASSUME NEW t, IsText(t), NEW h \in 1..Len(t), NEW e \in h + 1..Len(t) + 1
  PROVE  Without(Edited(t, Edit(h, e, Empty)), t, h, e)
<1>1. Len(t) \in Nat \ {0} /\ h \in Nat \ {0} /\ e \in Nat \ {0}
  BY TextIs
<1>2. PICK d : d = Edited(t, Edit(h, e, Empty))
  OBVIOUS
<1>3. PICK r : r = Rest(t, e)
  OBVIOUS
<1>4. /\ e > Len(t) => r = Empty
      /\ e <= Len(t) => /\ Len(r) = Len(t) - e + 1
                        /\ \A i \in 1..Len(t) - e + 1 : r[i] = t[e + i - 1]
  BY <1>1, <1>3, RestIs
<1>5. /\ IsText(d) /\ Len(d) = h - 1 + 0 + Len(r)
      /\ \A i \in 1..h - 1 : d[i] = t[i]
      /\ \A i \in 1..Len(r) : d[h - 1 + 0 + i] = r[i]
  <2>1. PICK x, m : x = Empty /\ m = 0
    OBVIOUS
  <2>2. IsText(x) /\ x[Len(x)] = Blank /\ m = Len(x) - 1
    BY <2>1, EmptyIs
  <2>3. d = Edited(t, Edit(h, e, x))
    BY <1>2, <2>1
  <2>4. Replaces(d, t, h, x, m, r)
    BY <1>1, <1>3, <2>2, <2>3, EditedAt
  <2> QED
    BY <2>1, <2>4 DEF Replaces
<1>6. CASE e <= Len(t)
  <2>0. Len(r) = Len(t) - e + 1
    BY <1>4, <1>6
  <2>1. Len(r) = Len(t) - e + 1 /\ Len(d) = Len(t) - (e - h)
    BY <1>1, <1>5, <2>0
  <2>2. \A i \in e..Len(t) : d[i - (e - h)] = t[i]
    <3> TAKE i \in e..Len(t)
    <3>1. PICK j \in 1..Len(t) - e + 1 : j = i - e + 1
      BY <1>1
    <3>2. h - 1 + 0 + j = i - (e - h) /\ e + j - 1 = i
      BY <1>1, <3>1
    <3>3. d[h - 1 + 0 + j] = r[j] /\ r[j] = t[e + j - 1]
      BY <1>4, <1>5, <1>6, <2>1
    <3> QED
      BY <3>2, <3>3
  <2> QED
    BY <1>1, <1>2, <1>5, <1>6, <2>1, <2>2 DEF Without
<1>7. CASE e = Len(t) + 1
  <2>1. r = Empty /\ Len(r) = 1 /\ r[1] = Blank
    BY <1>1, <1>4, <1>7, EmptyIs
  <2>2. 1 \in 1..Len(r) /\ h - 1 + 0 + 1 = h
    BY <1>1, <2>1
  <2>3. d[h - 1 + 0 + 1] = r[1]
    BY <1>5, <2>2
  <2>4. Len(d) = h /\ d[h] = Blank
    BY <1>1, <1>5, <2>1, <2>2, <2>3
  <2> QED
    BY <1>1, <1>2, <1>5, <1>7, <2>4 DEF Without
<1> QED
  BY <1>1, <1>6, <1>7

\* The separators that are left, when those behind the k-th move up by g.
Left(hs, k, n, g) == [j \in 1..n - 1 |-> IF j < k THEN hs[j] ELSE hs[j + 1] - g]

LEMMA WithoutHeads ==
  ASSUME NEW t, IsText(t), NEW hs, NEW n, HeadsAre(t, hs, n), NEW k \in 1..n,
         NEW h, h = hs[k], NEW e, e = NextSeparator(t, h),
         NEW d, Without(d, t, h, e)
  PROVE  HeadsAre(d, Left(hs, k, n, e - h), n - 1)
<1>1. /\ n \in Nat /\ Len(t) \in Nat \ {0}
      /\ \A j \in 1..n : /\ hs[j] \in 1..Len(t) /\ hs[j] \in Nat
                         /\ IsSeparator(t[hs[j]])
      /\ \A i \in 1..Len(t) : IsSeparator(t[i]) => \E j \in 1..n : hs[j] = i
      /\ \A i, j \in 1..n : i < j <=> hs[i] < hs[j]
      /\ \A i, j \in 1..n : i <= j <=> hs[i] <= hs[j]
  BY Ascending
<1>2. h \in 1..Len(t) /\ e = IF k = n THEN Len(t) + 1 ELSE hs[k + 1]
  BY <1>1 DEF HeadsAre
<1>3. e \in h + 1..Len(t) + 1 /\ (k = n <=> e = Len(t) + 1)
      /\ (k # n <=> e <= Len(t))
  <2>1. CASE k = n
    BY <1>1, <1>2, <2>1
  <2>2. CASE k # n
    <3>1. k + 1 \in 1..n /\ k < k + 1
      BY <1>1, <2>2
    <3>2. hs[k] < hs[k + 1] /\ hs[k + 1] \in 1..Len(t)
      BY <1>1, <3>1
    <3> QED
      BY <1>1, <1>2, <2>2, <3>2
  <2> QED
    BY <2>1, <2>2
<1>4. PICK g \in Nat : g = e - h
  BY <1>2, <1>3
<1>14. /\ h \in Nat \ {0} /\ e \in Nat /\ h + g = e /\ h < e
       /\ h <= Len(t) /\ e <= Len(t) + 1
  <2>1. Len(t) \in Nat /\ h \in 1..Len(t) /\ e \in h + 1..Len(t) + 1
    BY <1>1, <1>2, <1>3
  <2>2. h \in Nat \ {0} /\ e \in Nat /\ h < e /\ h <= Len(t)
        /\ e <= Len(t) + 1
    BY <2>1
  <2> QED
    BY <1>4, <2>2
<1>5. PICK gs : gs = Left(hs, k, n, g)
  OBVIOUS
<1>6. /\ gs = [j \in 1..n - 1 |-> gs[j]] /\ n - 1 \in Nat
      /\ \A j \in 1..n - 1 : gs[j] = IF j < k THEN hs[j] ELSE hs[j + 1] - g
  BY <1>1, <1>5 DEF Left
<1>7. /\ IsText(d) /\ Len(d) \in Nat \ {0} /\ DOMAIN d = 1..Len(d)
      /\ \A i \in 1..h - 1 : d[i] = t[i]
      /\ e <= Len(t) => /\ Len(d) = Len(t) - g
                        /\ \A i \in e..Len(t) : d[i - g] = t[i]
      /\ e = Len(t) + 1 => Len(d) = h /\ d[h] = Blank
  BY <1>4, TextIs DEF Without
<1>8. \A i \in 1..Len(d) : i \in Separators(d) <=> IsSeparator(d[i])
  BY <1>7 DEF Separators
<1>9. h - 1 <= Len(d)
  BY <1>2, <1>3, <1>4, <1>7, SMTT(30)
<1>10. ASSUME NEW j \in 1..n - 1 PROVE gs[j] \in Separators(d)
  <2>1. CASE j < k
    <3>1. j \in 1..n /\ gs[j] = hs[j]
      BY <1>1, <1>6, <2>1
    <3>2. hs[j] \in 1..h - 1
      BY <1>1, <1>2, <2>1, <3>1
    <3>3. hs[j] \in 1..Len(d)
      BY <1>2, <1>7, <1>9, <3>2
    <3>4. IsSeparator(d[hs[j]])
      BY <1>1, <1>7, <3>1, <3>2
    <3> QED
      BY <1>8, <3>1, <3>3, <3>4
  <2>2. CASE j >= k
    <3>1. j + 1 \in 1..n /\ gs[j] = hs[j + 1] - g /\ k # n /\ k + 1 \in 1..n
          /\ k + 1 <= j + 1
      BY <1>1, <1>6, <2>2
    <3>2. e <= hs[j + 1] /\ hs[j + 1] \in 1..Len(t) /\ e <= Len(t)
      BY <1>1, <1>2, <1>3, <3>1
    <3>3. hs[j + 1] \in e..Len(t)
      BY <1>2, <1>3, <3>2
    <3>4. d[hs[j + 1] - g] = t[hs[j + 1]] /\ IsSeparator(t[hs[j + 1]])
      BY <1>1, <1>7, <3>1, <3>2, <3>3
    <3>5. hs[j + 1] - g \in 1..Len(d)
      <4>1. PICK x \in e..Len(t) : x = hs[j + 1]
        BY <3>3
      <4>2. x - g \in 1..Len(t) - g
        BY <1>1, <1>14
      <4> QED
        BY <1>7, <3>2, <4>1, <4>2
    <3> QED
      BY <1>8, <3>1, <3>4, <3>5
  <2> QED
    BY <1>1, <2>1, <2>2
<1>11. ASSUME NEW i \in Separators(d) PROVE \E j \in 1..n - 1 : gs[j] = i
  <2>0. i \in 1..Len(d) /\ IsSeparator(d[i])
    BY <1>7 DEF Separators
  <2>1. CASE i < h
    <3>1. i \in 1..h - 1 /\ i \in 1..Len(t) /\ d[i] = t[i]
      BY <1>2, <1>7, <2>0, <2>1
    <3>2. PICK j \in 1..n : hs[j] = i
      BY <1>1, <2>0, <3>1
    <3>3. j < k /\ j \in 1..n - 1
      BY <1>1, <1>2, <2>1, <3>2
    <3> QED
      BY <1>6, <3>2, <3>3
  <2>2. CASE i >= h
    <3>1. e <= Len(t)
      <4>1. ASSUME e = Len(t) + 1 PROVE FALSE
        <5>1. i = h
          BY <1>2, <1>7, <2>0, <2>2, <4>1
        <5>2. IsSeparator(Blank)
          BY <1>7, <2>0, <4>1, <5>1
        <5> QED
          BY <5>2 DEF IsSeparator, Blank
      <4> QED
        BY <1>1, <1>3, <4>1
    <3>2. i + g \in e..Len(t) /\ (i + g) - g = i
      <4>1. Len(d) = Len(t) - g
        BY <1>7, <3>1
      <4>2. i <= Len(t) - g /\ i \in Nat /\ h \in Nat
        BY <1>2, <2>0, <4>1
      <4> QED
        BY <1>1, <1>14, <2>2, <4>2
    <3>3. PICK l \in e..Len(t) : l = i + g
      BY <3>2
    <3>4. d[i] = t[l] /\ l \in 1..Len(t)
      <4>1. d[l - g] = t[l]
        BY <1>7, <3>1, <3>3
      <4>2. l - g = i
        BY <3>2, <3>3
      <4>3. l \in 1..Len(t)
        BY <1>1, <1>14, <3>3
      <4> QED
        BY <4>1, <4>2, <4>3
    <3>5. PICK j \in 1..n : hs[j] = l
      BY <1>1, <2>0, <3>4
    <3>6. k + 1 \in 1..n /\ hs[k + 1] <= hs[j]
      BY <1>1, <1>2, <1>3, <3>1, <3>3, <3>5
    <3>7. k + 1 <= j
      BY <1>1, <3>6
    <3>8. j - 1 \in 1..n - 1 /\ ~(j - 1 < k) /\ (j - 1) + 1 = j
      BY <1>1, <3>7
    <3>9. gs[j - 1] = hs[(j - 1) + 1] - g
      BY <1>6, <3>8
    <3>10. gs[j - 1] = i
      BY <2>0, <3>2, <3>3, <3>5, <3>8, <3>9
    <3> QED
      BY <3>8, <3>10
  <2> QED
    BY <1>2, <2>0, <2>1, <2>2
<1>12. ASSUME NEW i \in 1..n - 1, NEW j \in 1..n - 1, i < j
       PROVE  gs[i] < gs[j]
  <2>1. /\ i \in 1..n /\ j \in 1..n /\ i + 1 \in 1..n /\ j + 1 \in 1..n
        /\ hs[i] \in Nat /\ hs[j] \in Nat /\ hs[i + 1] \in Nat /\ hs[j + 1] \in Nat
    BY <1>1
  <2>2. CASE j < k
    BY <1>1, <1>6, <1>12, <2>1, <2>2
  <2>3. CASE i < k /\ j >= k
    <3>1. gs[i] = hs[i] /\ gs[j] = hs[j + 1] - g
      BY <1>6, <2>3
    <3>2. hs[i] < h /\ k # n /\ k + 1 \in 1..n /\ k + 1 <= j + 1
      BY <1>1, <1>2, <2>1, <2>3
    <3>3. e <= hs[j + 1]
      BY <1>1, <1>2, <2>1, <3>2
    <3>4. PICK x \in Nat : x = hs[i]
      BY <2>1
    <3>5. PICK y \in Nat : y = hs[j + 1]
      BY <2>1
    <3>6. x < y - g
      <4>1. x < h /\ e <= y
        BY <3>2, <3>3, <3>4, <3>5
      <4>2. g \in Nat
        BY <1>4
      <4> QED
        BY <1>14, <4>1, <4>2
    <3> QED
      BY <3>1, <3>4, <3>5, <3>6
  <2>4. CASE i >= k
    <3>1. gs[i] = hs[i + 1] - g /\ gs[j] = hs[j + 1] - g
      BY <1>6, <1>12, <2>4
    <3>2. hs[i + 1] < hs[j + 1]
      BY <1>1, <1>12, <2>1
    <3> QED
      BY <2>1, <3>1, <3>2
  <2> QED
    BY <2>2, <2>3, <2>4
<1>13. Ascends(Separators(d), gs, n - 1)
  BY <1>6, <1>10, <1>11, <1>12 DEF Ascends
<1> QED
  BY <1>4, <1>5, <1>7, <1>13, HeadsIf

\* Texts of sections, as a sequence.
LEMMA SectionTextsIs ==
  ASSUME NEW t, NEW hs, NEW n \in Nat,
         SectionTexts(t) = [k \in 1..n |-> SectionText(t, hs[k])]
  PROVE  /\ \E S : SectionTexts(t) \in Seq(S)
         /\ Len(SectionTexts(t)) = n /\ DOMAIN SectionTexts(t) = 1..n
         /\ \A k \in 1..n : SectionTexts(t)[k] = SectionText(t, hs[k])
<1>1. PICK S, s : S = Range(SectionTexts(t)) /\ s = SectionTexts(t)
  OBVIOUS
<1>2. /\ s = [k \in 1..n |-> SectionText(t, hs[k])] /\ DOMAIN s = 1..n
      /\ \A k \in 1..n : s[k] = SectionText(t, hs[k]) /\ s[k] \in S
  BY <1>1 DEF Range
<1>3. [k \in 1..n |-> SectionText(t, hs[k])] \in Seq(S)
  BY <1>2, IsASeq
<1>4. s \in Seq(S) /\ Len(s) = n
  <2>1. s \in Seq(S)
    BY <1>2, <1>3
  <2>2. Len(s) \in Nat /\ DOMAIN s = 1..Len(s)
    BY <2>1, LenProperties
  <2> QED
    BY <1>2, <2>1, <2>2
<1> QED
  BY <1>1, <1>2, <1>4

\* Lines that move up by g.
LEMMA Shifted ==
  ASSUME NEW m \in Nat, NEW h \in Nat \ {0}, NEW g \in Nat, NEW e \in Nat,
         h + g = e, NEW a \in Nat, NEW x \in Nat, e <= a, a <= x, a <= m,
         x <= m + 1, NEW b, b = a - g, NEW y, y = x - g
  PROVE  /\ b \in 1..m - g /\ y \in b..m - g + 1 /\ x - a = y - b
         /\ (x <= m /\ y <= m - g) \/ (x = m + 1 /\ y = m - g + 1)
  OBVIOUS

\* The same text is before the first section, and in each that is left.
Keeps(d, gs, t, hs, k, n) ==
  /\ Preface(d) = Preface(t)
  /\ \A j \in 1..n - 1 :
       /\ j < k => SectionText(d, gs[j]) = SectionText(t, hs[j])
       /\ ~(j < k) => SectionText(d, gs[j]) = SectionText(t, hs[j + 1])

LEMMA WithoutSections ==
  ASSUME NEW t, IsText(t), NEW hs, NEW n, HeadsAre(t, hs, n), NEW k \in 1..n,
         NEW h, h = hs[k], NEW e, e = NextSeparator(t, h),
         NEW d, Without(d, t, h, e), NEW gs, gs = Left(hs, k, n, e - h)
  PROVE  Keeps(d, gs, t, hs, k, n)
<1>1. /\ n \in Nat /\ Len(t) \in Nat \ {0}
      /\ \A j \in 1..n : hs[j] \in 1..Len(t) /\ hs[j] \in Nat
      /\ \A i, j \in 1..n : i < j <=> hs[i] < hs[j]
      /\ \A i, j \in 1..n : i <= j <=> hs[i] <= hs[j]
  BY Ascending
<1>2. /\ \A j \in 1..n :
           NextSeparator(t, hs[j]) = IF j = n THEN Len(t) + 1 ELSE hs[j + 1]
      /\ NextSeparator(t, 0) = hs[1]
  BY <1>1 DEF HeadsAre
<1>3. HeadsAre(d, gs, n - 1)
  BY WithoutHeads
<1>4. /\ \A j \in 1..n - 1 :
           NextSeparator(d, gs[j]) = IF j = n - 1 THEN Len(d) + 1 ELSE gs[j + 1]
      /\ NextSeparator(d, 0) = IF n - 1 = 0 THEN Len(d) + 1 ELSE gs[1]
      /\ \A j \in 1..n - 1 : gs[j] \in 1..Len(d)
  BY <1>3 DEF HeadsAre
<1>5. /\ h \in 1..Len(t) /\ e \in h + 1..Len(t) + 1
      /\ k = n => e = Len(t) + 1
      /\ k # n => k + 1 \in 1..n /\ e = hs[k + 1] /\ e <= Len(t)
  <2>1. h \in 1..Len(t) /\ e = IF k = n THEN Len(t) + 1 ELSE hs[k + 1]
    BY <1>1, <1>2
  <2>2. CASE k = n
    BY <1>1, <2>1, <2>2
  <2>3. CASE k # n
    <3>1. k + 1 \in 1..n /\ k < k + 1
      BY <1>1, <2>3
    <3>2. hs[k] < hs[k + 1] /\ hs[k + 1] \in 1..Len(t)
      BY <1>1, <3>1
    <3> QED
      BY <1>1, <2>1, <2>3, <3>1, <3>2
  <2> QED
    BY <2>2, <2>3
<1>6. PICK g \in Nat : g = e - h
  BY <1>5
<1>7. /\ h \in Nat \ {0} /\ e \in Nat /\ h + g = e /\ h < e
      /\ h <= Len(t) /\ e <= Len(t) + 1
  <2>1. h \in Nat \ {0} /\ e \in Nat /\ h < e /\ h <= Len(t)
        /\ e <= Len(t) + 1
    BY <1>1, <1>5
  <2> QED
    BY <1>6, <2>1
<1>8. \A j \in 1..n - 1 : gs[j] = IF j < k THEN hs[j] ELSE hs[j + 1] - g
  BY <1>6 DEF Left
<1>9. /\ IsText(d) /\ Len(d) \in Nat \ {0}
      /\ \A i \in 1..h - 1 : d[i] = t[i]
      /\ k # n => /\ Len(d) = Len(t) - g /\ h <= Len(d)
                  /\ \A i \in e..Len(t) : d[i - g] = t[i]
      /\ k = n => Len(d) = h /\ d[h] = Blank
  <2>1. /\ IsText(d) /\ Len(d) \in Nat \ {0}
        /\ \A i \in 1..h - 1 : d[i] = t[i]
        /\ e <= Len(t) => /\ Len(d) = Len(t) - g
                          /\ \A i \in e..Len(t) : d[i - g] = t[i]
        /\ e = Len(t) + 1 => Len(d) = h /\ d[h] = Blank
    BY <1>6, TextIs DEF Without
  <2>2. k # n => h <= Len(t) - g
    <3>1. k # n => e <= Len(t)
      BY <1>5
    <3> QED
      BY <1>1, <1>6, <1>7, <3>1
  <2> QED
    BY <1>5, <2>1, <2>2
\* Text in front of the section, with its end.
<1>10. ASSUME NEW a \in 1..h, NEW x \in a..h, NEW y,
              \/ y = x /\ (x < h \/ k # n)
              \/ x = h /\ k = n /\ y = Len(d) + 1
       PROVE  Slice(d, a, y) = Slice(t, a, x)
  <2>1. LinesAgree(t, a, d, a, x - a)
    <3>1. ASSUME NEW i \in 1..x - a PROVE t[a + i - 1] = d[a + i - 1]
      <4>1. a + i - 1 \in 1..h - 1
        BY <1>7
      <4> QED
        BY <1>9, <4>1
    <3> QED
      BY <3>1 DEF LinesAgree
  <2>2. a \in 1..Len(t) /\ x \in a..Len(t) + 1 /\ x <= Len(t)
        /\ a \in Nat /\ x \in Nat /\ a <= x /\ x <= h /\ 1 <= a
    BY <1>1, <1>7, SMTT(30)
  <2>3. CASE y = x /\ (x < h \/ k # n)
    <3>1. x <= Len(d)
      <4>1. CASE k # n
        BY <1>7, <1>9, <2>2, <4>1
      <4>2. CASE k = n /\ x < h
        BY <1>7, <1>9, <2>2, <4>2
      <4> QED
        BY <2>3, <4>1, <4>2
    <3>2. a \in 1..Len(d) /\ y \in a..Len(d) + 1 /\ x - a = y - a /\ y <= Len(d)
      BY <1>9, <2>2, <2>3, <3>1
    <3> QED
      BY <1>9, <2>1, <2>2, <3>2, SlicesSame
  <2>4. CASE x = h /\ k = n /\ y = Len(d) + 1
    <3>1. Len(d) = h /\ d[Len(d)] = Blank /\ y = h + 1
      BY <1>9, <2>4
    <3>6. h \in Nat /\ y \in Nat /\ y = h + 1 /\ a \in Nat /\ 1 <= a /\ a <= h
      <4>1. h \in Nat /\ h + 1 \in Nat
        BY <1>7, SMTT(30)
      <4>2. a \in Nat /\ 1 <= a /\ a <= h
        BY <4>1
      <4>3. y = h + 1
        BY <3>1
      <4> QED
        BY <4>1, <4>2, <4>3
    <3>2. a \in 1..h /\ y \in a..h + 1 /\ y - a = h - a + 1
      BY <3>6
    <3>3. a \in 1..Len(d) /\ y \in a..Len(d) + 1 /\ y - a = x - a + 1
      BY <2>4, <3>1, <3>2
    <3>4. x <= Len(t) /\ y = Len(d) + 1 /\ y - a = x - a + 1
          /\ d[Len(d)] = Blank
      BY <2>2, <2>4, <3>1, <3>3
    <3>5. IsText(d) /\ a \in 1..Len(t) /\ x \in a..Len(t) + 1
      BY <1>9, <2>2
    <3> QED
      BY <2>1, <3>3, <3>4, <3>5, SlicesSame
  <2> QED
    BY <1>10, <2>3, <2>4
\* Text behind the section, with its end.
<1>11. ASSUME k # n, NEW a \in e..Len(t), NEW x \in a..Len(t) + 1
       PROVE  Slice(d, a - g, x - g) = Slice(t, a, x)
  <2>0. a \in Nat /\ x \in Nat /\ e <= a /\ a <= x /\ a <= Len(t)
        /\ x <= Len(t) + 1 /\ a \in 1..Len(t)
    BY <1>1, <1>7
  <2>1. LinesAgree(t, a, d, a - g, x - a)
    <3>1. ASSUME NEW i \in 1..x - a PROVE t[a + i - 1] = d[(a - g) + i - 1]
      <4>1. PICK l : l = a + i - 1
        OBVIOUS
      <4>2. l \in e..Len(t) /\ (a - g) + i - 1 = l - g
        <5>1. i \in Nat /\ 1 <= i /\ i <= x - a
          BY <2>0
        <5>2. l \in Nat /\ e <= l /\ l <= Len(t)
          BY <1>1, <1>7, <2>0, <4>1, <5>1, SMTT(30)
        <5>3. (a - g) + i - 1 = l - g
          BY <1>6, <2>0, <4>1, <5>1
        <5> QED
          BY <1>1, <1>7, <5>2, <5>3
      <4> QED
        BY <1>9, <1>11, <4>1, <4>2
    <3> QED
      BY <3>1 DEF LinesAgree
  <2>3. Len(d) = Len(t) - g
    BY <1>9, <1>11
  <2>4. PICK b, y : b = a - g /\ y = x - g
    OBVIOUS
  <2>5. /\ b \in 1..Len(d) /\ y \in b..Len(d) + 1 /\ x - a = y - b
        /\ \/ x <= Len(t) /\ y <= Len(d)
           \/ x = Len(t) + 1 /\ y = Len(d) + 1
    <3>1. h \in Nat \ {0} /\ g \in Nat /\ e \in Nat /\ h + g = e /\ Len(t) \in Nat
      BY <1>1, <1>6, <1>7
    <3>2. PICK m \in Nat : m = Len(t)
      BY <3>1
    <3>3. a <= m /\ x <= m + 1
      BY <2>0, <3>2
    <3>4. /\ b \in 1..m - g /\ y \in b..m - g + 1 /\ x - a = y - b
          /\ (x <= m /\ y <= m - g) \/ (x = m + 1 /\ y = m - g + 1)
      BY <2>0, <2>4, <3>1, <3>3, Shifted, SMTT(30)
    <3>5. Len(d) = m - g
      BY <2>3, <3>2
    <3> QED
      BY <3>2, <3>4, <3>5
  <2>6. Slice(t, a, x) = Slice(d, b, y)
    <3>1. x \in a..Len(t) + 1 /\ IsText(d) /\ LinesAgree(t, a, d, b, x - a)
      BY <1>9, <2>1, <2>4
    <3> QED
      BY <2>0, <2>5, <3>1, SlicesSame
  <2> QED
    BY <2>4, <2>6
<1>12. Preface(d) = Preface(t)
  <2>1. PICK x, y : x = NextSeparator(t, 0) /\ y = NextSeparator(d, 0)
    OBVIOUS
  <2>2. x = hs[1] /\ 1 \in 1..n /\ 1 <= k /\ x \in Nat \ {0} /\ x <= h
        /\ (k # 1 => x < h)
    <3>1. 1 \in 1..n /\ k \in 1..n /\ 1 <= k /\ x = hs[1] /\ k \in Nat
      BY <1>1, <1>2, <2>1
    <3>2. x \in Nat \ {0} /\ x <= h
      BY <1>1, <3>1
    <3>3. k # 1 => 1 < k
      BY <3>1
    <3>4. k # 1 => x < h
      BY <1>1, <3>1, <3>3
    <3> QED
      BY <3>1, <3>2, <3>4
  <2>3. 1 \in 1..h /\ x \in 1..h
    <3>1. h \in Nat \ {0} /\ x \in Nat \ {0} /\ x <= h
      BY <1>7, <2>2
    <3> QED
      BY <3>1
  <2>4. \/ y = x /\ (x < h \/ k # n)
        \/ x = h /\ k = n /\ y = Len(d) + 1
    <3>1. CASE k # 1
      <4>1. n - 1 # 0 /\ 1 \in 1..n - 1 /\ 1 < k
        BY <1>1, <3>1
      <4>2. y = gs[1] /\ gs[1] = hs[1]
        BY <1>4, <1>8, <2>1, <4>1
      <4> QED
        BY <2>2, <3>1, <4>2
    <3>2. CASE k = 1 /\ n = 1
      BY <1>4, <2>1, <2>2, <3>2
    <3>3. CASE k = 1 /\ n # 1
      <4>1. n - 1 # 0 /\ 1 \in 1..n - 1 /\ ~(1 < k) /\ k # n
        BY <1>1, <3>3
      <4>2. y = gs[1] /\ gs[1] = hs[1 + 1] - g /\ e = hs[1 + 1]
        BY <1>4, <1>5, <1>8, <2>1, <3>3, <4>1
      <4>3. y = h
        BY <1>6, <1>7, <4>2
      <4> QED
        BY <2>2, <3>3, <4>3
    <3> QED
      BY <3>1, <3>2, <3>3
  <2>5. Slice(d, 1, y) = Slice(t, 1, x)
    BY <1>10, <2>3, <2>4
  <2> QED
    BY <2>1, <2>5 DEF Preface
<1>13. ASSUME NEW j \in 1..n - 1, j < k
       PROVE  SectionText(d, gs[j]) = SectionText(t, hs[j])
  <2>1. PICK a, x, y : /\ a = hs[j] /\ x = NextSeparator(t, hs[j])
                       /\ y = NextSeparator(d, gs[j])
    OBVIOUS
  <2>2. j \in 1..n /\ j + 1 \in 1..n /\ j # n /\ j + 1 <= k /\ j < j + 1
    BY <1>1, <1>13
  <2>3. gs[j] = a /\ x = hs[j + 1]
    BY <1>2, <1>8, <1>13, <2>1, <2>2
  <2>4. a \in Nat \ {0} /\ x \in Nat /\ a < x /\ x <= h
        /\ (j + 1 # k => x < h)
    BY <1>1, <2>1, <2>2, <2>3
  <2>5. a \in 1..h /\ x \in a..h
    BY <1>7, <2>4
  <2>6. \/ y = x /\ (x < h \/ k # n)
        \/ x = h /\ k = n /\ y = Len(d) + 1
    <3>1. CASE j + 1 # k
      <4>1. j # n - 1 /\ j + 1 \in 1..n - 1 /\ j + 1 < k
        BY <1>1, <2>2, <3>1
      <4>2. y = gs[j + 1] /\ gs[j + 1] = hs[j + 1]
        BY <1>4, <1>8, <2>1, <4>1
      <4> QED
        BY <2>3, <2>4, <3>1, <4>2
    <3>2. CASE j + 1 = k /\ k = n
      <4>1. j = n - 1 /\ x = h
        BY <1>1, <2>3, <3>2
      <4> QED
        BY <1>4, <2>1, <3>2, <4>1
    <3>3. CASE j + 1 = k /\ k # n
      <4>1. j # n - 1 /\ j + 1 \in 1..n - 1 /\ ~(j + 1 < k) /\ x = h
            /\ (j + 1) + 1 = k + 1
        BY <1>1, <2>3, <3>3
      <4>2. y = gs[j + 1] /\ gs[j + 1] = hs[(j + 1) + 1] - g
        BY <1>4, <1>8, <2>1, <4>1
      <4>3. y = e - g
        BY <1>5, <3>3, <4>1, <4>2
      <4>4. y = h
        BY <1>6, <1>7, <4>3, SMTT(30)
      <4> QED
        BY <3>3, <4>1, <4>4
    <3> QED
      BY <3>1, <3>2, <3>3
  <2>7. Slice(d, a, y) = Slice(t, a, x)
    BY <1>10, <2>5, <2>6
  <2> QED
    BY <2>1, <2>3, <2>7 DEF SectionText
<1>14. ASSUME NEW j \in 1..n - 1, ~(j < k)
       PROVE  SectionText(d, gs[j]) = SectionText(t, hs[j + 1])
  <2>1. PICK a, x, y : /\ a = hs[j + 1] /\ x = NextSeparator(t, hs[j + 1])
                       /\ y = NextSeparator(d, gs[j])
    OBVIOUS
  <2>2. /\ j + 1 \in 1..n /\ k # n /\ k + 1 \in 1..n /\ k + 1 <= j + 1
        /\ j \in Nat /\ (j + 1 = n <=> j = n - 1)
    BY <1>1, <1>14
  <2>3. gs[j] = a - g /\ a \in 1..Len(t) /\ e <= a
    BY <1>1, <1>5, <1>8, <1>14, <2>1, <2>2, SMTT(30)
  <2>4. a \in e..Len(t)
    BY <1>1, <1>7, <2>3
  <2>5. x \in a..Len(t) + 1 /\ y = x - g
    <3>1. CASE j + 1 = n
      <4>1. x = Len(t) + 1 /\ y = Len(d) + 1
        BY <1>2, <1>4, <2>1, <2>2, <3>1
      <4>2. Len(d) = Len(t) - g
        BY <1>9, <2>2
      <4> QED
        BY <1>1, <1>6, <2>3, <4>1, <4>2, SMTT(30)
    <3>2. CASE j + 1 # n
      <4>1. (j + 1) + 1 \in 1..n /\ j + 1 \in 1..n - 1 /\ ~(j + 1 < k)
            /\ j # n - 1 /\ j + 1 < (j + 1) + 1
        BY <1>1, <1>14, <2>2, <3>2
      <4>2. x = hs[(j + 1) + 1] /\ y = gs[j + 1]
            /\ gs[j + 1] = hs[(j + 1) + 1] - g
        BY <1>2, <1>4, <1>8, <2>1, <2>2, <3>2, <4>1
      <4>3. a < x /\ x \in 1..Len(t)
        BY <1>1, <2>1, <2>2, <4>1, <4>2
      <4> QED
        BY <1>1, <2>3, <4>2, <4>3
    <3> QED
      BY <3>1, <3>2
  <2>6. Slice(d, a - g, y) = Slice(t, a, x)
    BY <1>11, <2>2, <2>4, <2>5
  <2> QED
    BY <2>1, <2>3, <2>6 DEF SectionText
<1> QED
  BY <1>12, <1>13, <1>14 DEF Keeps

LEMMA DeleteIs ==
  ASSUME NEW t, IsText(t), NEW hs, NEW n, HeadsAre(t, hs, n), NEW k \in 1..n,
         NEW d, d = Edited(t, Edit(hs[k], NextSeparator(t, hs[k]), Empty))
  PROVE  /\ Preface(d) = Preface(t)
         /\ SectionTexts(d) = RemoveAt(SectionTexts(t), k)
<1>1. PICK h, e : h = hs[k] /\ e = NextSeparator(t, h)
  OBVIOUS
<1>2. PICK gs : gs = Left(hs, k, n, e - h)
  OBVIOUS
<1>3. /\ n \in Nat /\ n - 1 \in Nat /\ h \in 1..Len(t) /\ h \in 0..Len(t)
      /\ SectionTexts(t) = [j \in 1..n |-> SectionText(t, hs[j])]
  BY <1>1, Ascending DEF HeadsAre
<1>4. e \in h + 1..Len(t) + 1
  BY <1>1, <1>3, NextSeparatorIs DEF IsNext
<1>5. Without(d, t, h, e)
  BY <1>1, <1>3, <1>4, WithoutLines
<1>6. /\ Preface(d) = Preface(t)
      /\ \A j \in 1..n - 1 :
           /\ j < k => SectionText(d, gs[j]) = SectionText(t, hs[j])
           /\ ~(j < k) => SectionText(d, gs[j]) = SectionText(t, hs[j + 1])
  <2>1. Keeps(d, gs, t, hs, k, n)
    BY <1>1, <1>2, <1>5, WithoutSections
  <2> QED
    BY <2>1 DEF Keeps
<1>7. SectionTexts(d) = [j \in 1..n - 1 |-> SectionText(d, gs[j])]
  <2>1. HeadsAre(d, gs, n - 1)
    BY <1>1, <1>2, <1>5, WithoutHeads
  <2> QED
    BY <2>1 DEF HeadsAre
<1>8. PICK s : s = SectionTexts(t)
  OBVIOUS
<1>9. PICK S : s \in Seq(S)
  BY <1>3, <1>8, SectionTextsIs
<1>10. n = Len(s) /\ \A j \in 1..n : s[j] = SectionText(t, hs[j])
  BY <1>3, <1>8, SectionTextsIs
<1>11. RemoveAt(s, k) = [j \in 1..n - 1 |-> IF j < k THEN s[j] ELSE s[j + 1]]
  BY <1>3, <1>9, <1>10, RemoveAtIs
<1>12. ASSUME NEW j \in 1..n - 1
       PROVE  SectionText(d, gs[j]) = IF j < k THEN s[j] ELSE s[j + 1]
  <2>1. j \in 1..n /\ j + 1 \in 1..n
    BY <1>3
  <2> QED
    BY <1>6, <1>10, <2>1
<1> QED
  BY <1>6, <1>7, <1>8, <1>11, <1>12

----------------------------------------------------------------------------
(* Two neighboring sections that change places.                            *)

\* The lines from h to g - 1 and from g to e - 1, the other way around.
Swapped(d, t, h, g, e) ==
  /\ IsText(d) /\ Len(d) = Len(t)
  /\ \A i \in 1..h - 1 : d[i] = t[i]
  /\ \A i \in g..e - 1 : d[i - (g - h)] = t[i]
  /\ \A i \in h..g - 1 : d[i + (e - g)] = t[i]
  /\ \A i \in e..Len(t) : d[i] = t[i]

\* What a slice holds.
IsSlice(s, t, from, to) ==
  /\ to <= Len(t) => Len(s) = to - from + 1 /\ s[to - from + 1] = Blank
  /\ to = Len(t) + 1 => Len(s) = to - from
  /\ \A i \in 1..to - from : s[i] = t[from + i - 1]

LEMMA SliceHas ==
  ASSUME NEW t, IsText(t), NEW from \in 1..Len(t) + 1,
         NEW to \in from..Len(t) + 1, from <= Len(t),
         NEW s, s = Slice(t, from, to)
  PROVE  s \in Seq(Range(t) \cup {Blank}) /\ IsSlice(s, t, from, to)
<1>1. /\ Slice(t, from, to) \in Seq(Range(t) \cup {Blank})
      /\ to <= Len(t) => /\ Len(Slice(t, from, to)) = to - from + 1
                         /\ Slice(t, from, to)[to - from + 1] = Blank
      /\ to = Len(t) + 1 => Len(Slice(t, from, to)) = to - from
      /\ \A i \in 1..to - from : Slice(t, from, to)[i] = t[from + i - 1]
  BY SliceIs, ZenonT(40)
<1> QED
  BY <1>1 DEF IsSlice

\* The start of a section, then its end.
IsLines(s, t, a, p) ==
  /\ Len(s) = p + 1 /\ s[p + 1] = Blank /\ s # <<>>
  /\ \A i \in 1..p : s[i] = t[a + i - 1]

LEMMA SliceLines ==
  ASSUME NEW t, IsText(t), NEW a \in 1..Len(t), NEW x \in a + 1..Len(t) + 1,
         NEW s, s = Slice(t, a, x), s[Len(s)] = Blank,
         NEW e, e = IF x <= Len(t) THEN x ELSE Len(t)
  PROVE  s \in Seq(Range(t) \cup {Blank}) /\ IsLines(s, t, a, e - a)
         /\ e \in a..Len(t)
<1>1. Len(t) \in Nat \ {0} /\ a \in 1..Len(t) + 1 /\ a <= Len(t)
      /\ x \in a..Len(t) + 1 /\ a \in Nat /\ x \in Nat /\ a < x
  <2>1. Len(t) \in Nat \ {0}
    BY TextIs
  <2> QED
    BY <2>1
<1>2. /\ s \in Seq(Range(t) \cup {Blank})
      /\ x <= Len(t) => Len(s) = x - a + 1 /\ s[x - a + 1] = Blank
      /\ x = Len(t) + 1 => Len(s) = x - a
      /\ \A i \in 1..x - a : s[i] = t[a + i - 1]
  <2>1. s \in Seq(Range(t) \cup {Blank}) /\ IsSlice(s, t, a, x)
    BY <1>1, SliceHas
  <2> QED
    BY <2>1 DEF IsSlice
<1>3. e \in a..Len(t)
  BY <1>1
<1>4. Len(s) = e - a + 1 /\ s[e - a + 1] = Blank
      /\ \A i \in 1..e - a : i \in 1..x - a
  <2>1. CASE x <= Len(t)
    BY <1>1, <1>2, <2>1
  <2>2. CASE x = Len(t) + 1
    <3>1. Len(s) = e - a + 1 /\ e = Len(t) /\ x - a = e - a + 1
      BY <1>1, <1>2, <2>2
    <3> QED
      BY <1>1, <3>1
  <2> QED
    BY <1>1, <2>1, <2>2
<1>5. s # <<>>
  <2>1. Len(s) # 0
    BY <1>1, <1>3, <1>4
  <2> QED
    BY <1>2, <2>1, NotEmpty
<1>6. IsLines(s, t, a, e - a)
  BY <1>2, <1>4, <1>5 DEF IsLines
<1> QED
  BY <1>2, <1>3, <1>6

\* The lines from e on.
HoldsRest(r, t, e) ==
  /\ Len(r) = Len(t) - e + 1
  /\ \A i \in 1..Len(t) - e + 1 : r[i] = t[e + i - 1]

LEMMA RestLines ==
  ASSUME NEW t, IsText(t), NEW x \in 1..Len(t) + 1,
         x = Len(t) + 1 => t[Len(t)] = Blank,
         NEW e, e = IF x <= Len(t) THEN x ELSE Len(t), NEW r, r = Rest(t, x)
  PROVE  HoldsRest(r, t, e)
<1>1. Len(t) \in Nat \ {0} /\ x \in Nat \ {0}
  BY TextIs
<1>2. /\ x > Len(t) => r = Empty
      /\ x <= Len(t) => /\ Len(r) = Len(t) - x + 1
                        /\ \A i \in 1..Len(t) - x + 1 : r[i] = t[x + i - 1]
  BY <1>1, RestIs
<1>3. CASE x <= Len(t)
  BY <1>2, <1>3 DEF HoldsRest
<1>4. CASE x > Len(t)
  <2>1. e = Len(t) /\ Len(r) = 1 /\ r[1] = Blank /\ t[Len(t)] = Blank
    BY <1>1, <1>2, <1>4, EmptyIs
  <2>2. Len(t) - e + 1 = 1 /\ e + 1 - 1 = Len(t)
    BY <1>1, <2>1
  <2>3. \A i \in 1..1 : r[i] = t[e + i - 1]
    <3>1. \A i \in 1..1 : i = 1
      OBVIOUS
    <3>2. r[1] = t[e + 1 - 1]
      BY <2>1, <2>2
    <3> QED
      BY <3>1, <3>2
  <2> QED
    BY <2>1, <2>2, <2>3 DEF HoldsRest
<1> QED
  BY <1>1, <1>3, <1>4

\* Both parts, the second one first.
IsBoth(x, t, h, g, p, q) ==
  /\ IsText(x) /\ Len(x) = p + q + 1 /\ x[p + q + 1] = Blank
  /\ \A i \in 1..p : x[i] = t[g + i - 1]
  /\ \A i \in 1..q : x[p + i] = t[h + i - 1]

LEMMA BothLines ==
  ASSUME NEW S, NEW b \in Seq(S), NEW a \in Seq(S), NEW t, NEW h, NEW g,
         NEW p \in Nat, NEW q \in Nat, IsLines(b, t, g, p), IsLines(a, t, h, q),
         NEW x, x = Concat(b, a)
  PROVE  IsBoth(x, t, h, g, p, q)
<1>1. /\ Len(b) = p + 1 /\ b[p + 1] = Blank /\ b # <<>>
      /\ Len(a) = q + 1 /\ a[q + 1] = Blank /\ a # <<>>
      /\ \A i \in 1..p : b[i] = t[g + i - 1]
      /\ \A i \in 1..q : a[i] = t[h + i - 1]
  BY DEF IsLines
<1>2. x \in Seq(S) /\ x # <<>> /\ IsConcat(x, b, a)
  BY <1>1, ConcatIs
<1>3. /\ Len(x) = Len(b) + Len(a) - 1
      /\ \A i \in 1..Len(b) - 1 : x[i] = b[i]
      /\ \A i \in 2..Len(a) : x[Len(b) + i - 1] = a[i]
      /\ x[Len(b)] = IF b[Len(b)] = Blank THEN a[1] ELSE b[Len(b)]
  BY <1>2 DEF IsConcat
<1>4. /\ Len(x) = p + q + 1
      /\ \A i \in 1..p : x[i] = b[i]
      /\ \A i \in 2..q + 1 : x[(p + 1) + i - 1] = a[i]
      /\ x[p + 1] = a[1]
  <2>1. Len(b) - 1 = p /\ Len(b) + Len(a) - 1 = p + q + 1
    BY <1>1
  <2> QED
    BY <1>1, <1>3, <2>1
<1>5. \A i \in 1..q + 1 : x[p + i] = a[i]
  <2> TAKE i \in 1..q + 1
  <2>1. CASE i = 1
    BY <1>4, <2>1
  <2>2. CASE i # 1
    <3>1. i \in 2..q + 1 /\ (p + 1) + i - 1 = p + i
      BY <2>2
    <3> QED
      BY <1>4, <3>1
  <2> QED
    BY <2>1, <2>2
<1>6. x[p + q + 1] = Blank
  <2>1. q + 1 \in 1..q + 1 /\ p + (q + 1) = p + q + 1
    OBVIOUS
  <2>2. x[p + (q + 1)] = a[q + 1]
    BY <1>5, <2>1
  <2> QED
    BY <1>1, <2>1, <2>2
<1>7. IsText(x)
  BY <1>2, IsTextIf
<1>8. \A i \in 1..q : i \in 1..q + 1
  OBVIOUS
<1> QED
  BY <1>1, <1>4, <1>5, <1>6, <1>7, <1>8 DEF IsBoth

LEMMA SwappedLines ==
  ASSUME NEW t, IsText(t), NEW h \in 1..Len(t), NEW g \in h + 1..Len(t),
         NEW x \in g + 1..Len(t) + 1, NEW b, b = Slice(t, g, x),
         b[Len(b)] = Blank, NEW e, e = IF x <= Len(t) THEN x ELSE Len(t),
         NEW d, d = Edited(t, Edit(h, x, Concat(b, Slice(t, h, g))))
  PROVE  Swapped(d, t, h, g, e) /\ e \in g..Len(t)
         /\ (x = Len(t) + 1 => t[Len(t)] = Blank)
<1>1. /\ Len(t) \in Nat \ {0} /\ h \in Nat \ {0} /\ g \in Nat \ {0} /\ x \in Nat \ {0}
      /\ h < g /\ g < x /\ g <= Len(t) /\ x <= Len(t) + 1 /\ h <= Len(t)
  <2>1. Len(t) \in Nat \ {0}
    BY TextIs
  <2> QED
    BY <2>1
<1>2. PICK a : a = Slice(t, h, g)
  OBVIOUS
<1>3. a \in Seq(Range(t) \cup {Blank}) /\ IsLines(a, t, h, g - h)
  <2>1. a[Len(a)] = Blank
    <3>1. h \in 1..Len(t) + 1 /\ g \in h..Len(t) + 1
      BY <1>1
    <3>2. g <= Len(t) => /\ Len(Slice(t, h, g)) = g - h + 1
                         /\ Slice(t, h, g)[g - h + 1] = Blank
      BY <1>1, <3>1, SliceIs, ZenonT(40)
    <3> QED
      BY <1>1, <1>2, <3>2
  <2>2. g \in h + 1..Len(t) + 1 /\ g = IF g <= Len(t) THEN g ELSE Len(t)
    BY <1>1
  <2> QED
    BY <1>1, <1>2, <2>1, <2>2, SliceLines
<1>4. b \in Seq(Range(t) \cup {Blank}) /\ IsLines(b, t, g, e - g)
      /\ e \in g..Len(t)
  <2>1. g \in 1..Len(t)
    BY <1>1
  <2> QED
    BY <2>1, SliceLines
<1>5. x = Len(t) + 1 => t[Len(t)] = Blank
  <2> SUFFICES ASSUME x = Len(t) + 1 PROVE t[Len(t)] = Blank
    OBVIOUS
  <2>0. x = Len(t) + 1
    OBVIOUS
  <2>1. /\ Len(b) = x - g
        /\ \A i \in 1..x - g : b[i] = t[g + i - 1]
    <3>1. g \in 1..Len(t) + 1 /\ x \in g..Len(t) + 1
      BY <1>1
    <3> QED
      <4>1. IsSlice(b, t, g, x)
        BY <1>1, <3>1, SliceHas
      <4> QED
        BY <2>0, <4>1 DEF IsSlice
  <2>2. x - g \in 1..x - g /\ g + (x - g) - 1 = Len(t)
    BY <1>1
  <2> QED
    BY <2>1, <2>2
<1>6. PICK p \in Nat : p = e - g
  BY <1>1, <1>4
<1>7. PICK q \in Nat : q = g - h
  BY <1>1
<1>8. PICK y : y = Concat(b, a)
  OBVIOUS
<1>9. /\ IsText(y) /\ Len(y) = p + q + 1 /\ y[p + q + 1] = Blank
      /\ \A i \in 1..p : y[i] = t[g + i - 1]
      /\ \A i \in 1..q : y[p + i] = t[h + i - 1]
  <2>1. IsLines(b, t, g, p) /\ IsLines(a, t, h, q)
    BY <1>3, <1>4, <1>6, <1>7
  <2>2. PICK S : S = Range(t) \cup {Blank}
    OBVIOUS
  <2>3. a \in Seq(S) /\ b \in Seq(S)
    BY <1>3, <1>4, <2>2
  <2>4. IsBoth(y, t, h, g, p, q)
    BY <1>6, <1>7, <1>8, <2>1, <2>3, BothLines
  <2> QED
    BY <2>4 DEF IsBoth
<1>10. PICK r : r = Rest(t, x)
  OBVIOUS
<1>11. /\ Len(r) = Len(t) - e + 1
       /\ \A i \in 1..Len(t) - e + 1 : r[i] = t[e + i - 1]
  <2>1. x \in 1..Len(t) + 1
    BY <1>1
  <2>2. HoldsRest(r, t, e)
    BY <1>5, <1>10, <2>1, RestLines
  <2> QED
    BY <2>2 DEF HoldsRest
<1>12. PICK m \in Nat : m = p + q
  BY <1>6, <1>7
<1>13. Replaces(d, t, h, y, m, r)
  <2>1. d = Edited(t, Edit(h, x, y)) /\ y[Len(y)] = Blank /\ m = Len(y) - 1
    BY <1>2, <1>6, <1>7, <1>8, <1>9, <1>12
  <2> QED
    BY <1>1, <1>9, <1>10, <2>1, EditedAt
<1>14. /\ IsText(d) /\ Len(d) = h - 1 + m + Len(r)
       /\ \A i \in 1..h - 1 : d[i] = t[i]
       /\ \A i \in 1..m : d[h - 1 + i] = y[i]
       /\ \A i \in 1..Len(r) : d[h - 1 + m + i] = r[i]
  BY <1>13 DEF Replaces
<1>15. e \in Nat /\ g <= e /\ e <= Len(t) /\ h + q = g /\ g + p = e
       /\ h + m = e
  BY <1>1, <1>4, <1>6, <1>7, <1>12
<1>16. Len(d) = Len(t)
  <2>1. Len(d) = h - 1 + m + Len(r) /\ Len(r) = Len(t) - e + 1
    BY <1>11, <1>14
  <2>2. m \in Nat /\ h \in Nat /\ e \in Nat /\ Len(t) \in Nat
    BY <1>1, <1>12, <1>15
  <2> QED
    BY <1>15, <2>1, <2>2
<1>17. \A i \in g..e - 1 : d[i - (g - h)] = t[i]
  <2> TAKE i \in g..e - 1
  <2>1. PICK j : j = i - g + 1
    OBVIOUS
  <2>2. j \in 1..p /\ j \in 1..m /\ h - 1 + j = i - (g - h) /\ g + j - 1 = i
    BY <1>1, <1>6, <1>7, <1>12, <1>15, <2>1
  <2>3. d[h - 1 + j] = y[j] /\ y[j] = t[g + j - 1]
    BY <1>9, <1>14, <2>2
  <2> QED
    BY <2>2, <2>3
<1>18. \A i \in h..g - 1 : d[i + (e - g)] = t[i]
  <2> TAKE i \in h..g - 1
  <2>1. PICK j : j = i - h + 1
    OBVIOUS
  <2>4. i \in Nat /\ h <= i /\ i < g
    BY <1>1
  <2>5. j \in Nat \ {0} /\ j <= q /\ h + j - 1 = i
    BY <1>1, <1>7, <1>15, <2>1, <2>4
  <2>6. h - 1 + (p + j) = i + (e - g)
    BY <1>1, <1>6, <1>15, <2>4, <2>5
  <2>2. j \in 1..q /\ p + j \in 1..m /\ h - 1 + (p + j) = i + (e - g)
        /\ h + j - 1 = i
    BY <1>6, <1>7, <1>12, <2>5, <2>6
  <2>3. d[h - 1 + (p + j)] = y[p + j] /\ y[p + j] = t[h + j - 1]
    BY <1>9, <1>14, <2>2
  <2> QED
    BY <2>2, <2>3
<1>19. \A i \in e..Len(t) : d[i] = t[i]
  <2> TAKE i \in e..Len(t)
  <2>1. PICK j : j = i - e + 1
    OBVIOUS
  <2>2. j \in 1..Len(t) - e + 1 /\ h - 1 + m + j = i /\ e + j - 1 = i
    BY <1>1, <1>12, <1>15, <2>1
  <2>3. d[h - 1 + m + j] = r[j] /\ r[j] = t[e + j - 1]
    BY <1>11, <1>14, <2>2
  <2> QED
    BY <2>2, <2>3
<1>20. Swapped(d, t, h, g, e)
  BY <1>14, <1>16, <1>17, <1>18, <1>19 DEF Swapped
<1> QED
  BY <1>4, <1>5, <1>20

\* Where two sections that change places start and end.
Places(t, hs, n, k, h, g, e) ==
  /\ n \in Nat /\ k \in Nat \ {0} /\ k + 1 <= n /\ Len(t) \in Nat
  /\ h = hs[k] /\ g = hs[k + 1]
  /\ h \in Nat \ {0} /\ g \in Nat /\ e \in Nat
  /\ h < g /\ g < e /\ e <= Len(t)
  /\ NextSeparator(t, h) = g
  /\ k + 1 # n => k + 2 \in 1..n /\ hs[k + 2] = e /\ NextSeparator(t, g) = e
  /\ k + 1 = n =>
       e = Len(t) /\ t[e] = Blank /\ NextSeparator(t, g) = Len(t) + 1

LEMMA PlacesAre ==
  ASSUME NEW t, IsText(t), NEW hs, NEW n, HeadsAre(t, hs, n),
         NEW k \in 1..n - 1, NEW h, h = hs[k], NEW g, g = hs[k + 1],
         NEW x, x = NextSeparator(t, g),
         NEW e, e = IF x <= Len(t) THEN x ELSE Len(t),
         x = Len(t) + 1 => t[Len(t)] = Blank
  PROVE  Places(t, hs, n, k, h, g, e)
<1>1. /\ n \in Nat /\ Len(t) \in Nat \ {0}
      /\ \A j \in 1..n : /\ hs[j] \in 1..Len(t) /\ hs[j] \in Nat
                         /\ IsSeparator(t[hs[j]])
      /\ \A i, j \in 1..n : i < j <=> hs[i] < hs[j]
  BY Ascending
<1>2. \A j \in 1..n :
        NextSeparator(t, hs[j]) = IF j = n THEN Len(t) + 1 ELSE hs[j + 1]
  BY DEF HeadsAre
<1>3. k \in 1..n /\ k + 1 \in 1..n /\ k # n /\ k < k + 1 /\ k \in Nat \ {0}
      /\ k + 1 <= n
  BY <1>1
<1>4. /\ h \in Nat \ {0} /\ g \in Nat /\ h < g /\ g <= Len(t)
      /\ NextSeparator(t, h) = g /\ IsSeparator(t[g])
  <2>1. hs[k] \in 1..Len(t) /\ hs[k + 1] \in 1..Len(t) /\ hs[k] < hs[k + 1]
    BY <1>1, <1>3
  <2>2. NextSeparator(t, hs[k]) = hs[k + 1] /\ IsSeparator(t[hs[k + 1]])
    BY <1>1, <1>2, <1>3
  <2> QED
    BY <1>1, <2>1, <2>2
<1>5. CASE k + 1 # n
  <2>1. k + 2 \in 1..n /\ (k + 1) + 1 = k + 2 /\ k + 1 < k + 2
    BY <1>1, <1>3, <1>5
  <2>2. x = hs[k + 2]
    BY <1>2, <1>3, <1>5, <2>1
  <2>3. hs[k + 2] \in 1..Len(t) /\ hs[k + 1] < hs[k + 2]
    BY <1>1, <1>3, <2>1
  <2>4. e = x /\ e \in Nat /\ g < e /\ e <= Len(t)
    BY <1>1, <2>2, <2>3
  <2> QED
    BY <1>1, <1>3, <1>4, <1>5, <2>1, <2>2, <2>4 DEF Places
<1>6. CASE k + 1 = n
  <2>1. x = Len(t) + 1
    BY <1>2, <1>3, <1>6
  <2>2. e = Len(t) /\ t[e] = Blank
    BY <1>1, <2>1
  <2>3. g # Len(t)
    <3>1. ~IsSeparator(Blank)
      BY DEF IsSeparator, Blank
    <3> QED
      BY <1>4, <2>2, <3>1
  <2>4. e \in Nat /\ g < e /\ e <= Len(t)
    BY <1>1, <1>4, <2>2, <2>3
  <2> QED
    BY <1>1, <1>3, <1>4, <1>6, <2>1, <2>2, <2>4 DEF Places
<1> QED
  BY <1>5, <1>6

\* The separators, of which one moves.
Moved(hs, k, n, x) == [j \in 1..n |-> IF j = k + 1 THEN x ELSE hs[j]]

LEMMA SwappedHeads ==
  ASSUME NEW t, IsText(t), NEW hs, NEW n, HeadsAre(t, hs, n), NEW k, NEW h,
         NEW g, NEW e, Places(t, hs, n, k, h, g, e),
         NEW d, Swapped(d, t, h, g, e), NEW x, x = h + (e - g)
  PROVE  HeadsAre(d, Moved(hs, k, n, x), n)
<1>1. /\ Len(t) \in Nat \ {0}
      /\ \A j \in 1..n : /\ hs[j] \in 1..Len(t) /\ hs[j] \in Nat
                         /\ IsSeparator(t[hs[j]])
      /\ \A i \in 1..Len(t) : IsSeparator(t[i]) => \E j \in 1..n : hs[j] = i
      /\ \A i, j \in 1..n : i < j <=> hs[i] < hs[j]
      /\ \A i, j \in 1..n : i <= j <=> hs[i] <= hs[j]
  BY Ascending
<1>2. /\ n \in Nat /\ k \in Nat \ {0} /\ k + 1 <= n
      /\ h = hs[k] /\ g = hs[k + 1]
      /\ h \in Nat \ {0} /\ g \in Nat /\ e \in Nat
      /\ h < g /\ g < e /\ e <= Len(t)
      /\ k + 1 # n => k + 2 \in 1..n /\ hs[k + 2] = e
      /\ k + 1 = n => e = Len(t) /\ t[e] = Blank
  BY DEF Places
<1>15. PICK N \in Nat : N = Len(t)
  BY <1>1
<1>16. h \in Nat \ {0} /\ g \in Nat /\ e \in Nat /\ h < g /\ g < e /\ e <= N
  BY <1>2, <1>15
<1>17. PICK p \in Nat \ {0} : p = e - g
  BY <1>16
<1>18. PICK q \in Nat \ {0} : q = g - h
  BY <1>16
<1>19. /\ h \in Nat \ {0} /\ p \in Nat \ {0} /\ q \in Nat \ {0} /\ N \in Nat
       /\ g = h + q /\ e = h + q + p /\ h + q + p <= N
  BY <1>15, <1>16, <1>17, <1>18
<1>3. /\ IsText(d) /\ Len(d) = N /\ DOMAIN d = 1..N
      /\ \A i \in 1..h - 1 : d[i] = t[i]
      /\ \A i \in g..e - 1 : d[i - q] = t[i]
      /\ \A i \in h..g - 1 : d[i + p] = t[i]
      /\ \A i \in e..N : d[i] = t[i]
  BY <1>15, <1>17, <1>18, TextIs DEF Swapped
<1>4. \A i \in 1..N : i \in Separators(d) <=> IsSeparator(d[i])
  BY <1>3 DEF Separators
<1>5. x = h + p /\ x \in Nat /\ h < x /\ x < e
  <2>1. x = h + p
    BY <1>17
  <2> QED
    BY <1>19, <2>1
<1>6. k \in 1..n /\ k + 1 \in 1..n
  BY <1>2
<1>7. PICK gs : gs = Moved(hs, k, n, x)
  OBVIOUS
<1>8. /\ gs = [j \in 1..n |-> gs[j]]
      /\ \A j \in 1..n : gs[j] = IF j = k + 1 THEN x ELSE hs[j]
  BY <1>7 DEF Moved
\* Separators of t at and between the two, and behind.
<1>9. ASSUME NEW j \in 1..n, j > k + 1 PROVE k + 1 # n /\ e <= hs[j]
  <2>1. k + 1 # n /\ k + 2 <= j
    BY <1>2, <1>9
  <2>2. hs[k + 2] <= hs[j]
    BY <1>1, <1>2, <2>1
  <2> QED
    BY <1>2, <2>1, <2>2
<1>10. ASSUME NEW j \in 1..n, j < k PROVE hs[j] < h
  BY <1>1, <1>2, <1>6, <1>10
<1>11. ASSUME NEW j \in 1..n PROVE gs[j] \in Separators(d)
  <2>1. CASE j = k + 1
    <3>1. h \in h..g - 1 /\ x \in 1..N
      BY <1>5, <1>19
    <3>2. d[x] = t[h]
      BY <1>3, <1>5, <3>1
    <3>3. IsSeparator(d[x])
      BY <1>1, <1>2, <1>6, <3>2
    <3> QED
      BY <1>4, <1>8, <2>1, <3>1, <3>3
  <2>2. CASE j = k
    <3>1. g \in g..e - 1 /\ g - q = h /\ h \in 1..N
      BY <1>19
    <3>2. d[g - q] = t[g]
      BY <1>3, <3>1
    <3>3. IsSeparator(d[h])
      BY <1>1, <1>2, <1>6, <3>1, <3>2
    <3>4. gs[j] = h
      BY <1>2, <1>6, <1>8, <2>2
    <3> QED
      BY <1>4, <3>1, <3>3, <3>4
  <2>3. CASE j < k
    <3>3. gs[j] = hs[j]
      BY <1>2, <1>8, <2>3
    <3>4. hs[j] \in 1..Len(t) /\ hs[j] < h
      BY <1>1, <1>10, <2>3
    <3>1. hs[j] \in 1..h - 1 /\ gs[j] = hs[j]
      BY <1>1, <1>16, <3>3, <3>4
    <3>2. d[hs[j]] = t[hs[j]]
      BY <1>3, <3>1
    <3> QED
      BY <1>1, <1>4, <1>15, <3>1, <3>2
  <2>4. CASE j > k + 1
    <3>4. gs[j] = hs[j]
      BY <1>2, <1>8, <2>4
    <3>1. e <= hs[j] /\ gs[j] = hs[j] /\ hs[j] \in 1..Len(t)
      BY <1>1, <1>9, <2>4, <3>4
    <3>2. hs[j] \in e..N /\ hs[j] \in 1..N
      BY <1>15, <1>16, <3>1
    <3>3. d[hs[j]] = t[hs[j]]
      BY <1>3, <3>2
    <3> QED
      BY <1>1, <1>4, <3>1, <3>2, <3>3
  <2> QED
    BY <1>2, <2>1, <2>2, <2>3, <2>4
<1>12. ASSUME NEW i \in Separators(d) PROVE \E j \in 1..n : gs[j] = i
  <2>00. i \in 1..N /\ IsSeparator(d[i])
    BY <1>3 DEF Separators
  <2>0. i \in 1..Len(t) /\ i \in Nat \ {0} /\ i <= N /\ IsSeparator(d[i])
    BY <1>15, <2>00
  <2>1. CASE i < h
    <3>0. i \in 1..h - 1
      BY <1>16, <2>0, <2>1
    <3>1. d[i] = t[i]
      BY <1>3, <3>0
    <3>2. PICK j \in 1..n : hs[j] = i
      BY <1>1, <2>0, <3>1
    <3>3. j < k /\ j # k + 1
      BY <1>1, <1>2, <1>6, <2>1, <3>2
    <3> QED
      BY <1>8, <3>2, <3>3
  <2>2. CASE h <= i /\ i < x
    <3>1. PICK l \in Nat : l = i + q
      BY <1>19, <2>0
    <3>2. l \in g..e - 1 /\ l - q = i /\ l \in 1..N /\ g <= l /\ l < e
      BY <1>5, <1>19, <2>0, <2>2, <3>1
    <3>3. d[i] = t[l]
      BY <1>3, <3>2
    <3>4. PICK j \in 1..n : hs[j] = l
      BY <1>1, <1>15, <2>0, <3>2, <3>3
    <3>5. k + 1 <= j
      BY <1>1, <1>2, <1>6, <3>2, <3>4
    <3>6. ~(j > k + 1)
      <4>1. ASSUME j > k + 1 PROVE FALSE
        <5>1. e <= l
          BY <1>9, <3>4, <4>1
        <5> QED
          BY <1>2, <3>2, <5>1
      <4> QED
        BY <4>1
    <3>7. j = k + 1
      BY <1>2, <3>5, <3>6
    <3>10. l = g
      BY <1>2, <3>4, <3>7
    <3>8. i = h
      BY <1>19, <2>0, <3>1, <3>10
    <3>9. gs[k] = h
      BY <1>2, <1>6, <1>8
    <3> QED
      BY <1>6, <3>8, <3>9
  <2>3. CASE x <= i /\ i < e
    <3>1. PICK l \in Nat : l = i - p
      BY <1>5, <1>19, <2>0, <2>3
    <3>2. l \in h..g - 1 /\ l + p = i /\ l \in 1..N /\ h <= l /\ l < g
      BY <1>5, <1>19, <2>0, <2>3, <3>1
    <3>3. d[i] = t[l]
      BY <1>3, <3>2
    <3>4. PICK j \in 1..n : hs[j] = l
      BY <1>1, <1>15, <2>0, <3>2, <3>3
    <3>5. k <= j /\ j < k + 1
      BY <1>1, <1>2, <1>6, <3>2, <3>4
    <3>6. j = k
      BY <1>2, <3>5
    <3>9. l = h
      BY <1>2, <3>4, <3>6
    <3>7. i = x
      BY <1>5, <1>19, <2>0, <3>1, <3>9
    <3>8. gs[k + 1] = x
      BY <1>6, <1>8
    <3> QED
      BY <1>6, <3>7, <3>8
  <2>4. CASE e <= i
    <3>0. i \in e..N
      BY <1>16, <2>0, <2>4
    <3>1. d[i] = t[i]
      BY <1>3, <3>0
    <3>2. PICK j \in 1..n : hs[j] = i
      BY <1>1, <2>0, <3>1
    <3>3. g < i
      BY <1>16, <2>0, <2>4
    <3>4. k + 1 < j
      BY <1>1, <1>2, <1>6, <3>2, <3>3
    <3>5. j # k + 1
      BY <1>2, <3>4
    <3> QED
      BY <1>8, <3>2, <3>5
  <2> QED
    BY <1>2, <1>5, <2>0, <2>1, <2>2, <2>3, <2>4
<1>13. ASSUME NEW i \in 1..n, NEW j \in 1..n, i < j PROVE gs[i] < gs[j]
  <2>0. hs[i] \in Nat /\ hs[j] \in Nat /\ hs[i] < hs[j]
    BY <1>1, <1>13
  <2>1. CASE i # k + 1 /\ j # k + 1
    BY <1>8, <2>0, <2>1
  <2>2. CASE i = k + 1
    <3>1. gs[i] = x /\ gs[j] = hs[j] /\ e <= hs[j]
      BY <1>2, <1>8, <1>9, <1>13, <2>2, SMTT(30)
    <3> QED
      BY <1>2, <1>5, <2>0, <3>1, SMTT(30)
  <2>3. CASE j = k + 1
    <3>1. gs[j] = x /\ gs[i] = hs[i] /\ i <= k
      BY <1>2, <1>8, <1>13, <2>3, SMTT(30)
    <3>2. hs[i] <= h
      BY <1>1, <1>2, <1>6, <3>1
    <3>3. hs[i] < x
      BY <1>5, <1>16, <2>0, <3>2
    <3> QED
      BY <3>1, <3>3
  <2> QED
    BY <2>1, <2>2, <2>3
<1>14. Ascends(Separators(d), gs, n)
  BY <1>2, <1>8, <1>11, <1>12, <1>13 DEF Ascends
<1> QED
  BY <1>3, <1>7, <1>14, HeadsIf

\* The same text is before the first section, and in each in its new place.
Swaps(d, gs, t, hs, k, n) ==
  /\ Preface(d) = Preface(t)
  /\ \A j \in 1..n :
       j # k /\ j # k + 1 => SectionText(d, gs[j]) = SectionText(t, hs[j])
  /\ SectionText(d, gs[k]) = SectionText(t, hs[k + 1])
  /\ SectionText(d, gs[k + 1]) = SectionText(t, hs[k])

LEMMA SwappedSections ==
  ASSUME NEW t, IsText(t), NEW hs, NEW n, HeadsAre(t, hs, n), NEW k, NEW h,
         NEW g, NEW e, Places(t, hs, n, k, h, g, e),
         NEW d, Swapped(d, t, h, g, e), NEW x, x = h + (e - g),
         NEW gs, gs = Moved(hs, k, n, x)
  PROVE  Swaps(d, gs, t, hs, k, n)
<1>1. /\ Len(t) \in Nat \ {0}
      /\ \A j \in 1..n : hs[j] \in 1..Len(t) /\ hs[j] \in Nat
      /\ \A i, j \in 1..n : i < j <=> hs[i] < hs[j]
      /\ \A i, j \in 1..n : i <= j <=> hs[i] <= hs[j]
  BY Ascending
<1>2. /\ n \in Nat /\ k \in Nat \ {0} /\ k + 1 <= n
      /\ h = hs[k] /\ g = hs[k + 1]
      /\ h \in Nat \ {0} /\ g \in Nat /\ e \in Nat
      /\ h < g /\ g < e /\ e <= Len(t)
      /\ NextSeparator(t, h) = g
      /\ k + 1 # n => k + 2 \in 1..n /\ hs[k + 2] = e /\ NextSeparator(t, g) = e
      /\ k + 1 = n =>
           e = Len(t) /\ t[e] = Blank /\ NextSeparator(t, g) = Len(t) + 1
  BY DEF Places
<1>3. /\ \A j \in 1..n :
           NextSeparator(t, hs[j]) = IF j = n THEN Len(t) + 1 ELSE hs[j + 1]
      /\ NextSeparator(t, 0) = IF n = 0 THEN Len(t) + 1 ELSE hs[1]
  BY DEF HeadsAre
<1>15. PICK N \in Nat : N = Len(t)
  BY <1>1
<1>16. h \in Nat \ {0} /\ g \in Nat /\ e \in Nat /\ h < g /\ g < e /\ e <= N
  BY <1>2, <1>15
<1>17. PICK p \in Nat \ {0} : p = e - g
  BY <1>16
<1>18. PICK q \in Nat \ {0} : q = g - h
  BY <1>16
<1>19. /\ h \in Nat \ {0} /\ p \in Nat \ {0} /\ q \in Nat \ {0} /\ N \in Nat
       /\ g = h + q /\ e = h + q + p /\ h + q + p <= N
  BY <1>15, <1>16, <1>17, <1>18
<1>4. /\ IsText(d) /\ Len(d) = N
      /\ \A i \in 1..h - 1 : d[i] = t[i]
      /\ \A i \in g..e - 1 : d[i - q] = t[i]
      /\ \A i \in h..g - 1 : d[i + p] = t[i]
      /\ \A i \in e..N : d[i] = t[i]
  BY <1>15, <1>17, <1>18 DEF Swapped
<1>5. x = h + p
  BY <1>17
<1>6. HeadsAre(d, gs, n)
  BY SwappedHeads
<1>7. /\ \A j \in 1..n :
           NextSeparator(d, gs[j]) = IF j = n THEN Len(d) + 1 ELSE gs[j + 1]
      /\ NextSeparator(d, 0) = IF n = 0 THEN Len(d) + 1 ELSE gs[1]
  BY <1>6 DEF HeadsAre
<1>8. \A j \in 1..n : gs[j] = IF j = k + 1 THEN x ELSE hs[j]
  BY DEF Moved
<1>9. k \in 1..n /\ k + 1 \in 1..n /\ gs[k] = h /\ gs[k + 1] = x
  BY <1>2, <1>8
<1>10. ASSUME NEW a \in 1..h, NEW y \in a..h PROVE Slice(d, a, y) = Slice(t, a, y)
  <2>1. a \in Nat \ {0} /\ y \in Nat /\ a <= y /\ y <= h
    BY <1>16
  <2>2. LinesAgree(t, a, d, a, y - a)
    <3>1. ASSUME NEW i \in 1..y - a PROVE t[a + i - 1] = d[a + i - 1]
      <4>1. a + i - 1 \in 1..h - 1
        BY <1>16, <2>1
      <4> QED
        BY <1>4, <4>1
    <3> QED
      BY <3>1 DEF LinesAgree
  <2>3. /\ a \in 1..N /\ y \in a..N + 1 /\ y <= N /\ y - a = y - a
    BY <1>16, <2>1
  <2> QED
    BY <1>4, <1>15, <2>2, <2>3, SlicesSame
<1>11. ASSUME NEW a \in e..N, NEW y \in a..N + 1
       PROVE  Slice(d, a, y) = Slice(t, a, y)
  <2>1. a \in Nat \ {0} /\ y \in Nat /\ a <= y /\ y <= N + 1 /\ e <= a /\ a <= N
    BY <1>16
  <2>2. LinesAgree(t, a, d, a, y - a)
    <3>1. ASSUME NEW i \in 1..y - a PROVE t[a + i - 1] = d[a + i - 1]
      <4>1. a + i - 1 \in e..N
        BY <1>16, <2>1
      <4> QED
        BY <1>4, <4>1
    <3> QED
      BY <3>1 DEF LinesAgree
  <2>3. /\ a \in 1..N /\ y \in a..N + 1 /\ y - a = y - a
        /\ y <= N \/ y = N + 1
    BY <1>16, <2>1
  <2>4. a \in 1..Len(t) /\ y \in a..Len(t) + 1 /\ a \in 1..Len(d)
        /\ y \in a..Len(d) + 1 /\ IsText(d)
    BY <1>4, <1>15, <2>3
  <2>5. CASE y <= N
    <3>1. y - a = y - a /\ y <= Len(t) /\ y <= Len(d)
      BY <1>4, <1>15, <2>5
    <3> QED
      BY <2>2, <2>4, <3>1, SlicesSame
  <2>6. CASE y = N + 1
    <3>1. y - a = y - a /\ y = Len(t) + 1 /\ y = Len(d) + 1
      BY <1>4, <1>15, <2>6
    <3> QED
      BY <2>2, <2>4, <3>1, SlicesSame
  <2> QED
    BY <2>3, <2>5, <2>6
<1>12. Preface(d) = Preface(t)
  <2>1. n # 0 /\ 1 \in 1..n /\ 1 # k + 1 /\ 1 <= k
    BY <1>2
  <2>2. NextSeparator(d, 0) = hs[1] /\ NextSeparator(t, 0) = hs[1]
    BY <1>3, <1>7, <1>8, <2>1
  <2>3. PICK y \in Nat : y = hs[1]
    BY <1>1, <2>1
  <2>4. 1 <= y /\ y <= h
    <3>1. hs[1] <= hs[k] /\ hs[1] \in 1..Len(t)
      BY <1>1, <1>9, <2>1
    <3> QED
      BY <1>1, <1>2, <2>3, <3>1
  <2>5. 1 \in 1..h /\ y \in 1..h
    BY <1>16, <2>4
  <2>6. Slice(d, 1, y) = Slice(t, 1, y)
    BY <1>10, <2>5
  <2> QED
    BY <2>2, <2>3, <2>6 DEF Preface
<1>13. ASSUME NEW j \in 1..n, j < k
       PROVE  SectionText(d, gs[j]) = SectionText(t, hs[j])
  <2>1. /\ j # n /\ j # k + 1 /\ j + 1 # k + 1 /\ j + 1 \in 1..n /\ j + 1 <= k
        /\ j < j + 1
    BY <1>2, <1>13
  <2>2. /\ gs[j] = hs[j] /\ NextSeparator(d, gs[j]) = hs[j + 1]
        /\ NextSeparator(t, hs[j]) = hs[j + 1]
    BY <1>3, <1>7, <1>8, <2>1
  <2>3. PICK a \in Nat \ {0} : a = hs[j]
    BY <1>1
  <2>4. PICK y \in Nat : y = hs[j + 1]
    BY <1>1, <2>1
  <2>5. a < y /\ y <= h
    <3>1. hs[j] < hs[j + 1] /\ hs[j + 1] <= hs[k]
      BY <1>1, <1>9, <2>1
    <3> QED
      BY <1>2, <2>3, <2>4, <3>1
  <2>6. a \in 1..h /\ y \in a..h
    BY <1>16, <2>5
  <2>7. Slice(d, a, y) = Slice(t, a, y)
    BY <1>10, <2>6
  <2> QED
    BY <2>2, <2>3, <2>4, <2>7 DEF SectionText
<1>14. ASSUME NEW j \in 1..n, j > k + 1
       PROVE  SectionText(d, gs[j]) = SectionText(t, hs[j])
  <2>1. k + 1 # n /\ k + 2 <= j /\ j # k + 1 /\ j + 1 # k + 1
    BY <1>2, <1>14
  <2>2. PICK a \in Nat \ {0} : a = hs[j]
    BY <1>1
  <2>3. e <= a /\ a <= N
    <3>1. hs[k + 2] <= hs[j] /\ hs[j] <= Len(t)
      BY <1>1, <1>2, <2>1, SMTT(30)
    <3> QED
      BY <1>2, <1>15, <2>1, <2>2, <3>1
  <2>4. PICK y : y = NextSeparator(t, hs[j])
    OBVIOUS
  <2>5. y = NextSeparator(d, gs[j]) /\ gs[j] = hs[j]
    <3>1. CASE j = n
      BY <1>3, <1>4, <1>7, <1>8, <1>15, <2>1, <2>4, <3>1
    <3>2. CASE j # n
      <4>1. j + 1 \in 1..n
        BY <1>2, <3>2
      <4> QED
        BY <1>3, <1>7, <1>8, <2>1, <2>4, <3>2, <4>1
    <3> QED
      BY <3>1, <3>2
  <2>6. y \in a + 1..N + 1
    <3>1. a \in 0..Len(t)
      BY <1>15, <2>2, <2>3
    <3>2. IsNext(t, a, y)
      BY <2>2, <2>4, <3>1, NextSeparatorIs
    <3> QED
      BY <1>15, <3>2 DEF IsNext
  <2>7. a \in e..N /\ y \in a..N + 1
    BY <1>16, <2>3, <2>6
  <2>8. Slice(d, a, y) = Slice(t, a, y)
    BY <1>11, <2>7
  <2> QED
    BY <2>2, <2>4, <2>5, <2>8 DEF SectionText
<1>20. SectionText(d, gs[k]) = SectionText(t, hs[k + 1])
  <2>1. NextSeparator(d, gs[k]) = x
    <3>1. k # n
      BY <1>2
    <3> QED
      BY <1>7, <1>9, <3>1
  <2>2. LinesAgree(t, g, d, h, p) /\ LinesAgree(d, h, t, g, p)
    <3>1. ASSUME NEW i \in 1..p PROVE t[g + i - 1] = d[h + i - 1]
      <4>1. PICK l : l = g + i - 1
        OBVIOUS
      <4>2. l \in g..e - 1 /\ l - q = h + i - 1
        BY <1>19, <4>1
      <4> QED
        BY <1>4, <4>1, <4>2
    <3> QED
      BY <3>1 DEF LinesAgree
  <2>3. /\ h \in 1..N /\ x \in h..N + 1 /\ x <= N /\ x - h = p
        /\ g \in 1..N /\ e \in g..N + 1 /\ e <= N /\ e - g = p
    BY <1>5, <1>19
  <2>4. CASE k + 1 # n
    <3>1. Slice(t, g, e) = Slice(d, h, x)
      <4>1. x <= Len(d)
        BY <1>4, <2>3
      <4> QED
        BY <1>4, <1>15, <2>2, <2>3, <4>1, SlicesSame
    <3> QED
      BY <1>2, <1>9, <2>1, <2>4, <3>1 DEF SectionText
  <2>5. CASE k + 1 = n
    <3>1. e = N /\ t[N] = Blank /\ NextSeparator(t, g) = N + 1
      BY <1>2, <1>15, <2>5
    <3>2. PICK y : y = N + 1
      OBVIOUS
    <3>3. y \in g..N + 1 /\ y - g = (x - h) + 1
      BY <1>5, <1>19, <3>1, <3>2
    <3>4. LinesAgree(d, h, t, g, x - h)
      BY <2>2, <2>3
    <3>5. /\ x <= Len(d) /\ y = Len(t) + 1 /\ t[Len(t)] = Blank
          /\ h \in 1..Len(d) /\ x \in h..Len(d) + 1 /\ g \in 1..Len(t)
          /\ y \in g..Len(t) + 1
      BY <1>4, <1>15, <2>3, <3>1, <3>2, <3>3
    <3>7. /\ x <= Len(d) /\ y = Len(t) + 1 /\ y - g = x - h + 1
          /\ t[Len(t)] = Blank
      BY <3>3, <3>5
    <3>8. IsText(d) /\ h \in 1..Len(d) /\ x \in h..Len(d) + 1
          /\ g \in 1..Len(t) /\ y \in g..Len(t) + 1
      BY <1>4, <3>5
    <3>6. Slice(d, h, x) = Slice(t, g, y)
      BY <3>4, <3>7, <3>8, SlicesSame
    <3> QED
      BY <1>2, <1>9, <2>1, <3>1, <3>2, <3>6 DEF SectionText
  <2> QED
    BY <2>4, <2>5
<1>21. SectionText(d, gs[k + 1]) = SectionText(t, hs[k])
  <2>1. NextSeparator(t, hs[k]) = g
    BY <1>2
  <2>2. LinesAgree(t, h, d, x, q)
    <3>1. ASSUME NEW i \in 1..q PROVE t[h + i - 1] = d[x + i - 1]
      <4>1. PICK l : l = h + i - 1
        OBVIOUS
      <4>2. l \in h..g - 1 /\ l + p = x + i - 1
        BY <1>5, <1>19, <4>1
      <4> QED
        BY <1>4, <4>1, <4>2
    <3> QED
      BY <3>1 DEF LinesAgree
  <2>3. /\ h \in 1..N /\ g \in h..N + 1 /\ g <= N /\ g - h = q
        /\ x \in 1..N /\ e \in x..N + 1 /\ e <= N /\ e - x = q
    BY <1>5, <1>19
  <2>4. CASE k + 1 # n
    <3>1. NextSeparator(d, gs[k + 1]) = e
      <4>1. k + 2 \in 1..n /\ (k + 1) + 1 = k + 2 /\ k + 2 # k + 1
        BY <1>2, <2>4
      <4> QED
        BY <1>2, <1>7, <1>8, <1>9, <2>4, <4>1, SMTT(30)
    <3>2. Slice(t, h, g) = Slice(d, x, e)
      <4>1. e <= Len(d)
        BY <1>4, <2>3
      <4> QED
        BY <1>4, <1>15, <2>2, <2>3, <4>1, SlicesSame, SMTT(30)
    <3> QED
      BY <1>2, <1>9, <2>1, <3>1, <3>2 DEF SectionText
  <2>5. CASE k + 1 = n
    <3>1. e = N /\ d[N] = Blank /\ NextSeparator(d, gs[k + 1]) = N + 1
      <4>1. e = N /\ t[N] = Blank
        BY <1>2, <1>15, <2>5
      <4>2. N \in e..N
        BY <1>16, <4>1
      <4> QED
        BY <1>4, <1>7, <1>9, <2>5, <4>1, <4>2
    <3>2. PICK y : y = N + 1
      OBVIOUS
    <3>3. y \in x..N + 1 /\ y - x = (g - h) + 1
      BY <1>5, <1>19, <3>1, <3>2
    <3>4. LinesAgree(t, h, d, x, g - h)
      BY <2>2, <2>3
    <3>5. /\ g <= Len(t) /\ y = Len(d) + 1 /\ d[Len(d)] = Blank
          /\ h \in 1..Len(t) /\ g \in h..Len(t) + 1 /\ x \in 1..Len(d)
          /\ y \in x..Len(d) + 1
      BY <1>4, <1>15, <2>3, <3>1, <3>2, <3>3
    <3>7. /\ g <= Len(t) /\ y = Len(d) + 1 /\ y - x = g - h + 1
          /\ d[Len(d)] = Blank
      BY <3>3, <3>5
    <3>8. IsText(d) /\ h \in 1..Len(t) /\ g \in h..Len(t) + 1
          /\ x \in 1..Len(d) /\ y \in x..Len(d) + 1
      BY <1>4, <3>5
    <3>6. Slice(t, h, g) = Slice(d, x, y)
      BY <3>4, <3>7, <3>8, SlicesSame
    <3> QED
      BY <1>2, <1>9, <2>1, <3>1, <3>2, <3>6 DEF SectionText
  <2> QED
    BY <2>4, <2>5
<1>22. ASSUME NEW j \in 1..n, j # k, j # k + 1
       PROVE  SectionText(d, gs[j]) = SectionText(t, hs[j])
  <2>1. j < k \/ j > k + 1
    BY <1>2, <1>22
  <2> QED
    BY <1>13, <1>14, <2>1
<1> QED
  BY <1>12, <1>20, <1>21, <1>22 DEF Swaps

\* Two neighboring sections, in the one order before and in the other after.
Swapping(t, d, first, second) ==
  /\ Preface(d) = Preface(t)
  /\ \E k \in 1..Len(SectionTexts(t)) - 1 :
       /\ SectionTexts(t)[k] = first /\ SectionTexts(t)[k + 1] = second
       /\ SectionTexts(d) =
            [SectionTexts(t) EXCEPT ![k] = second, ![k + 1] = first]

LEMMA MoveIs ==
  ASSUME NEW t, IsText(t), NEW hs, NEW n, HeadsAre(t, hs, n),
         NEW k \in 1..n - 1, NEW h, h = hs[k], NEW g, g = hs[k + 1],
         NEW a, a = SectionText(t, h), NEW b, b = SectionText(t, g),
         Last(b) = Blank,
         NEW d, d = Edited(t, Edit(h, NextSeparator(t, g), Concat(b, a)))
  PROVE  Swapping(t, d, a, b)
<1>1. /\ n \in Nat /\ Len(t) \in Nat \ {0}
      /\ \A j \in 1..n : hs[j] \in 1..Len(t) /\ hs[j] \in Nat
      /\ \A i, j \in 1..n : i < j <=> hs[i] < hs[j]
  BY Ascending
<1>2. /\ \A j \in 1..n :
           NextSeparator(t, hs[j]) = IF j = n THEN Len(t) + 1 ELSE hs[j + 1]
      /\ SectionTexts(t) = [j \in 1..n |-> SectionText(t, hs[j])]
  BY DEF HeadsAre
<1>3. k \in 1..n /\ k + 1 \in 1..n /\ k # n /\ k < k + 1
  BY <1>1
<1>4. h \in 1..Len(t) /\ g \in 1..Len(t) /\ h < g /\ NextSeparator(t, h) = g
  BY <1>1, <1>2, <1>3
<1>5. h \in 1..Len(t) /\ g \in h + 1..Len(t)
  BY <1>1, <1>4
<1>6. PICK x : x = NextSeparator(t, g)
  OBVIOUS
<1>7. x \in g + 1..Len(t) + 1
  <2>1. g \in 0..Len(t)
    BY <1>1, <1>4
  <2> QED
    BY <1>6, <2>1, NextSeparatorIs DEF IsNext
<1>8. b = Slice(t, g, x) /\ a = Slice(t, h, g) /\ b[Len(b)] = Blank
  BY <1>4, <1>6 DEF SectionText, Last
<1>9. PICK e : e = IF x <= Len(t) THEN x ELSE Len(t)
  OBVIOUS
<1>10. Swapped(d, t, h, g, e) /\ (x = Len(t) + 1 => t[Len(t)] = Blank)
  <2>1. d = Edited(t, Edit(h, x, Concat(b, Slice(t, h, g))))
    BY <1>6, <1>8
  <2> QED
    BY <1>5, <1>7, <1>8, <1>9, <2>1, SwappedLines, SMTT(30)
<1>11. Places(t, hs, n, k, h, g, e)
  BY <1>6, <1>9, <1>10, PlacesAre
<1>12. PICK y, gs : y = h + (e - g) /\ gs = Moved(hs, k, n, y)
  OBVIOUS
<1>13. Swaps(d, gs, t, hs, k, n)
  BY <1>10, <1>11, <1>12, SwappedSections
<1>14. HeadsAre(d, gs, n)
  BY <1>10, <1>11, <1>12, SwappedHeads
<1>15. SectionTexts(d) = [j \in 1..n |-> SectionText(d, gs[j])]
  BY <1>14 DEF HeadsAre
<1>16. /\ Len(SectionTexts(t)) = n /\ DOMAIN SectionTexts(t) = 1..n
       /\ \A j \in 1..n : SectionTexts(t)[j] = SectionText(t, hs[j])
  BY <1>1, <1>2, SectionTextsIs
<1>17. PICK s : s = SectionTexts(t)
  OBVIOUS
<1>18. SectionTexts(d) = [s EXCEPT ![k] = b, ![k + 1] = a]
  <2>1. \A j \in 1..n :
          SectionText(d, gs[j]) = IF j = k + 1 THEN a
                                  ELSE IF j = k THEN b ELSE s[j]
    BY <1>13, <1>16, <1>17 DEF Swaps
  <2>2. SectionTexts(d) = [j \in 1..n |-> IF j = k + 1 THEN a
                                          ELSE IF j = k THEN b ELSE s[j]]
    BY <1>15, <2>1
  <2>3. s = [j \in 1..n |-> SectionText(t, hs[j])]
    BY <1>2, <1>17
  <2>4. \A j \in 1..n : s[j] = SectionText(t, hs[j])
    BY <1>16, <1>17
  <2>5. [s EXCEPT ![k] = b, ![k + 1] = a]
          = [j \in 1..n |-> IF j = k + 1 THEN a
                            ELSE IF j = k THEN b ELSE s[j]]
    BY <1>3, <2>3, <2>4
  <2> QED
    BY <2>2, <2>5
<1>19. Preface(d) = Preface(t)
  BY <1>13 DEF Swaps
<1>20. s[k] = a /\ s[k + 1] = b /\ k \in 1..Len(s) - 1
  BY <1>3, <1>16, <1>17
<1> QED
  BY <1>17, <1>18, <1>19, <1>20 DEF Swapping

----------------------------------------------------------------------------
(* Requests and rows.                                                      *)

\* The requests of a text are those of its heads.
LEMMA RequestsAre ==
  ASSUME NEW t, IsText(t)
  PROVE  /\ \A r \in ToSet(Requests(t)) :
              \E head \in Heads(t) : HasRequest(t, head) /\ r = RequestOf(t, head)
         /\ Heads(t) \in SUBSET (0..Len(t)) /\ Len(t) \in Nat
<1>1. /\ Separators(t) \subseteq 1..Len(t) /\ IsFiniteSet(Separators(t))
      /\ Len(t) \in Nat
  BY SeparatorsIn
<1>2. Heads(t) \subseteq 0..Len(t)
  BY <1>1 DEF Heads
<1>3. IsFiniteSet(0..Len(t))
  BY <1>1, FS_Interval
<1>4. PICK E : E = {head \in Heads(t) : HasRequest(t, head)}
  OBVIOUS
<1>5. E \subseteq Heads(t) /\ E \in SUBSET Int /\ IsFiniteSet(E)
  <2>1. E \subseteq 0..Len(t) /\ E \subseteq Heads(t)
    BY <1>2, <1>4
  <2>2. IsFiniteSet(E)
    BY <1>3, <2>1, FS_Subset
  <2>3. 0..Len(t) \subseteq Int
    BY <1>1
  <2> QED
    BY <2>1, <2>2, <2>3
<1>6. PICK hs, n : hs = InOrder(E) /\ n = Cardinality(E)
  OBVIOUS
<1>7. Ascends(E, hs, n)
  BY <1>5, <1>6, InOrderAscends
<1>8. DOMAIN hs = 1..n /\ \A k \in 1..n : hs[k] \in E
  BY <1>7 DEF Ascends
<1>9. Requests(t) = [k \in 1..n |-> RequestOf(t, hs[k])]
  BY <1>4, <1>6, <1>8 DEF Requests
<1>10. ASSUME NEW r \in ToSet(Requests(t))
       PROVE  \E head \in E : r = RequestOf(t, head)
  <2>1. PICK s : s = Requests(t)
    OBVIOUS
  <2>2. PICK k \in DOMAIN s : r = s[k]
    BY <2>1 DEF ToSet
  <2>3. k \in 1..n /\ r = RequestOf(t, hs[k])
    BY <1>9, <2>1, <2>2
  <2> QED
    BY <1>8, <2>3
<1>11. \A head \in E : head \in Heads(t) /\ HasRequest(t, head)
  BY <1>4
<1> QED
  BY <1>1, <1>2, <1>10, <1>11

\* A named request is that of the section that starts where it says.
LEMMA NamedRequest ==
  ASSUME NEW t, IsText(t), NEW r \in ToSet(Requests(t)), r.name # Unnamed
  PROVE  r.start - 1 \in Separators(t)
<1>1. PICK head \in Heads(t) : r = RequestOf(t, head)
  BY RequestsAre
<1>2. head \in Nat
  BY RequestsAre
<1>3. r.name = (IF head = 0 THEN Unnamed ELSE t[head][2]) /\ r.start = head + 1
  BY <1>1 DEF RequestOf
<1>4. head \in Separators(t)
  BY <1>3 DEF Heads
<1> QED
  BY <1>2, <1>3, <1>4

\* The separator next to one is the one before or behind it.
LEMMA BesideIs ==
  ASSUME NEW t, IsText(t), NEW hs, NEW n, HeadsAre(t, hs, n),
         NEW h \in Separators(t), NEW o, NEW direction \in {"up", "down"},
         o \in Beside(t, h, direction)
  PROVE  \E k \in 1..n - 1 :
           IF direction = "up" THEN o = hs[k] /\ h = hs[k + 1]
                               ELSE h = hs[k] /\ o = hs[k + 1]
<1>1. /\ n \in Nat
      /\ \A j \in 1..n : hs[j] \in 1..Len(t) /\ hs[j] \in Nat
      /\ \A i, j \in 1..n : i < j <=> hs[i] < hs[j]
      /\ \A i, j \in 1..n : i <= j <=> hs[i] <= hs[j]
  BY Ascending
<1>2. /\ \A k \in 1..n : hs[k] \in Separators(t)
      /\ \A e \in Separators(t) : \E k \in 1..n : hs[k] = e
  BY DEF HeadsAre, Ascends
<1>3. PICK j \in 1..n : hs[j] = h
  BY <1>2
<1>4. PICK B : B = {i \in Separators(t) :
                      IF direction = "up" THEN i < h ELSE i > h}
  OBVIOUS
<1>5. B # {} /\ o = IF direction = "up" THEN Max(B) ELSE Min(B)
  BY <1>4 DEF Beside
<1>6. B \in SUBSET Int /\ IsFiniteSet(B) /\ B \subseteq Separators(t)
      /\ B \subseteq Nat
  <2>1. B \subseteq Separators(t)
    BY <1>4
  <2>2. /\ Separators(t) \in SUBSET Int /\ IsFiniteSet(Separators(t))
        /\ Separators(t) \subseteq 1..Len(t) /\ Len(t) \in Nat
    BY SeparatorsIn
  <2> QED
    BY <2>1, <2>2, FS_Subset
<1>7. CASE direction = "up"
  <2>1. o \in B /\ \A i \in B : i <= o
    <3>1. Len(t) \in Nat /\ B \in SUBSET (0..Len(t))
      BY <1>6, SeparatorsIn
    <3>2. o = Max(B) /\ B # {}
      BY <1>5, <1>7
    <3>3. PICK m : m = Max(B)
      OBVIOUS
    <3>4. m \in B /\ m \in 0..Len(t) /\ \A i \in B : m >= i
      BY <3>1, <3>2, <3>3, MaxOf
    <3>5. \A i \in B : i \in Int
      BY <1>6
    <3> QED
      BY <3>1, <3>2, <3>3, <3>4, <3>5
  <2>2. PICK k \in 1..n : hs[k] = o
    BY <1>2, <1>6, <2>1
  <2>3. k < j
    BY <1>1, <1>3, <1>4, <1>7, <2>1, <2>2
  <2>4. j = k + 1
    <3>1. ASSUME j # k + 1 PROVE FALSE
      <4>1. k + 1 \in 1..n /\ k + 1 < j /\ k < k + 1
        BY <1>1, <2>3, <3>1
      <4>2. hs[k + 1] \in B
        BY <1>1, <1>2, <1>3, <1>4, <1>7, <4>1
      <4>3. hs[k + 1] <= hs[k] /\ hs[k] < hs[k + 1]
        BY <1>1, <2>1, <2>2, <4>1, <4>2
      <4> QED
        BY <1>1, <4>1, <4>3
    <3> QED
      BY <3>1
  <2> QED
    BY <1>1, <1>3, <1>7, <2>2, <2>3, <2>4
<1>8. CASE direction = "down"
  <2>0. direction # "up"
    BY <1>8
  <2>1. o \in B /\ \A i \in B : o <= i
    BY <1>5, <1>6, <2>0, MinOf
  <2>2. PICK k \in 1..n : hs[k] = o
    BY <1>2, <1>6, <2>1
  <2>3. j < k
    <3>1. hs[k] > hs[j] /\ hs[k] \in Nat /\ hs[j] \in Nat
      BY <1>1, <1>3, <1>4, <2>0, <2>1, <2>2
    <3> QED
      BY <1>1, <3>1
  <2>4. k = j + 1
    <3>1. ASSUME k # j + 1 PROVE FALSE
      <4>1. j + 1 \in 1..n /\ j + 1 < k /\ j < j + 1
        BY <1>1, <2>3, <3>1
      <4>2. hs[j + 1] \in B
        <5>1. hs[j] < hs[j + 1] /\ hs[j] \in Nat /\ hs[j + 1] \in Nat
          BY <1>1, <4>1
        <5>2. hs[j + 1] > h
          BY <1>3, <5>1
        <5> QED
          BY <1>2, <1>4, <2>0, <4>1, <5>2
      <4>3. hs[k] <= hs[j + 1] /\ hs[j + 1] < hs[k]
        BY <1>1, <2>1, <2>2, <4>1, <4>2
      <4> QED
        BY <1>1, <4>1, <4>3
    <3> QED
      BY <3>1
  <2> QED
    BY <1>1, <1>3, <2>0, <2>2, <2>3, <2>4
<1> QED
  BY <1>7, <1>8

----------------------------------------------------------------------------
(* What the planners plan.                                                 *)

\* Deleting takes the section of the row away.
LEMMA PlanDeleteExact ==
  ASSUME NEW t, IsText(t), NEW row, NEW edit \in PlanDelete(t, row),
         NEW d, d = Edited(t, edit)
  PROVE  /\ Preface(d) = Preface(t)
         /\ \E k \in DOMAIN SectionTexts(t) :
              /\ SectionTexts(t)[k] = row.hash
              /\ SectionTexts(d) = RemoveAt(SectionTexts(t), k)
<1>1. PICK r \in ToSet(Requests(t)) :
        /\ r.name # Unnamed /\ row.hash = SectionText(t, r.start - 1)
        /\ edit = Edit(r.start - 1, NextSeparator(t, r.start - 1), Empty)
  BY DEF PlanDelete, Unchanged, RequestsOn
<1>2. PICK h : h = r.start - 1
  OBVIOUS
<1>3. h \in Separators(t)
  BY <1>1, <1>2, NamedRequest
<1>4. PICK hs, n : HeadsAre(t, hs, n)
  BY HeadsExist
<1>5. PICK k \in 1..n : hs[k] = h
  BY <1>3, <1>4 DEF HeadsAre, Ascends
<1>6. n \in Nat /\ SectionTexts(t) = [j \in 1..n |-> SectionText(t, hs[j])]
  BY <1>4 DEF HeadsAre, Ascends
<1>7. /\ DOMAIN SectionTexts(t) = 1..n
      /\ SectionTexts(t)[k] = SectionText(t, hs[k])
  BY <1>6
<1>8. d = Edited(t, Edit(hs[k], NextSeparator(t, hs[k]), Empty))
  BY <1>1, <1>2, <1>5
<1>9. Preface(d) = Preface(t) /\ SectionTexts(d) = RemoveAt(SectionTexts(t), k)
  BY <1>4, <1>8, DeleteIs
<1> QED
  BY <1>1, <1>2, <1>5, <1>7, <1>9

\* The lesser and the greater of two numbers.
LEMMA TwoNumbers ==
  ASSUME NEW a \in Nat, NEW b \in Nat, a < b
  PROVE  /\ Min({a, b}) = a /\ Max({a, b}) = b
         /\ Min({b, a}) = a /\ Max({b, a}) = b
<1>1. PICK J : J = {a, b}
  OBVIOUS
<1>2. J \subseteq Nat /\ J # {} /\ J \in SUBSET (0..b) /\ b \in Nat
  BY <1>1
<1>3. Min(J) = a
  <2>1. Min(J) \in J /\ \A j \in J : Min(J) <= j
    BY <1>2, MinOf
  <2>2. PICK m : m = Min(J)
    OBVIOUS
  <2> QED
    BY <1>1, <2>1, <2>2
<1>4. Max(J) = b
  <2>1. b \in J /\ \A j \in J : j <= b
    BY <1>1
  <2> QED
    BY <1>2, <2>1, MaxIs
<1>5. {b, a} = J
  BY <1>1
<1> QED
  BY <1>1, <1>3, <1>4, <1>5

\* Moving swaps the section of the row with the one shown next to it.
LEMMA PlanMoveExact ==
  ASSUME NEW t, IsText(t), NEW row, NEW direction \in {"up", "down"},
         NEW edit \in PlanMove(t, row, direction), NEW d, d = Edited(t, edit)
  PROVE  IF direction = "up" THEN Swapping(t, d, row.up, row.hash)
                             ELSE Swapping(t, d, row.hash, row.down)
<1>1. PICK r \in ToSet(Requests(t)), o \in ToSet(Requests(t)) :
        /\ r.name # Unnamed /\ row.hash = SectionText(t, r.start - 1)
        /\ Last(row.hash) = Blank
        /\ o.name # Unnamed /\ row[direction] = SectionText(t, o.start - 1)
        /\ Last(row[direction]) = Blank
        /\ o.start - 1 \in Beside(t, r.start - 1, direction)
        /\ edit = Swap(t, r.start - 1, o.start - 1)
  BY DEF PlanMove, Unchanged, RequestsOn
<1>2. PICK u, v : u = r.start - 1 /\ v = o.start - 1
  OBVIOUS
<1>3. u \in Separators(t) /\ v \in Separators(t)
  BY <1>1, <1>2, NamedRequest
<1>4. u \in Nat /\ v \in Nat
  BY <1>3, SeparatorsIn
<1>5. PICK hs, n : HeadsAre(t, hs, n)
  BY HeadsExist
<1>6. PICK k \in 1..n - 1 :
        IF direction = "up" THEN v = hs[k] /\ u = hs[k + 1]
                            ELSE u = hs[k] /\ v = hs[k + 1]
  <2>1. v \in Beside(t, u, direction)
    BY <1>1, <1>2
  <2> QED
    BY <1>3, <1>5, <2>1, BesideIs
<1>7. k \in 1..n /\ k + 1 \in 1..n /\ hs[k] < hs[k + 1]
  <2>1. /\ n \in Nat
        /\ \A i, j \in 1..n : i < j <=> hs[i] < hs[j]
    BY <1>5, Ascending
  <2>2. k \in 1..n /\ k + 1 \in 1..n /\ k < k + 1
    BY <2>1
  <2> QED
    BY <2>1, <2>2
<1>8. CASE direction = "up"
  <2>1. PICK a, b : a = SectionText(t, v) /\ b = SectionText(t, u)
    OBVIOUS
  <2>2. v = hs[k] /\ u = hs[k + 1] /\ v < u
    BY <1>6, <1>7, <1>8
  <2>3. edit = Edit(v, NextSeparator(t, u), Concat(b, a))
    <3>1. Min({u, v}) = v /\ Max({u, v}) = u
      BY <1>4, <2>2, TwoNumbers
    <3> QED
      BY <1>1, <1>2, <2>1, <3>1 DEF Swap
  <2>4. row.up = a /\ row.hash = b /\ Last(b) = Blank
    BY <1>1, <1>2, <1>8, <2>1
  <2>5. Swapping(t, d, a, b)
    BY <1>5, <2>1, <2>2, <2>3, <2>4, MoveIs
  <2> QED
    BY <1>8, <2>4, <2>5
<1>9. CASE direction = "down"
  <2>1. PICK a, b : a = SectionText(t, u) /\ b = SectionText(t, v)
    OBVIOUS
  <2>2. u = hs[k] /\ v = hs[k + 1] /\ u < v
    BY <1>6, <1>7, <1>9
  <2>3. edit = Edit(u, NextSeparator(t, v), Concat(b, a))
    <3>1. Min({u, v}) = u /\ Max({u, v}) = v
      BY <1>4, <2>2, TwoNumbers
    <3> QED
      BY <1>1, <1>2, <2>1, <3>1 DEF Swap
  <2>4. row.down = b /\ row.hash = a /\ Last(b) = Blank
    BY <1>1, <1>2, <1>9, <2>1
  <2>5. Swapping(t, d, a, b)
    BY <1>5, <2>1, <2>2, <2>3, <2>4, MoveIs
  <2> QED
    BY <1>9, <2>4, <2>5
<1> QED
  BY <1>8, <1>9

\* What every planned edit has.
Fits(edit, t) ==
  /\ edit.from \in 1..edit.to /\ edit.to \in 1..Len(t) + 1
  /\ IsText(edit.text)

LEMMA FitsIf ==
  ASSUME NEW t, IsText(t), NEW from \in Nat \ {0}, NEW to \in Nat, from <= to,
         to <= Len(t) + 1, NEW x, IsText(x)
  PROVE  Fits(Edit(from, to, x), t)
<1>1. Len(t) \in Nat
  BY TextIs
<1>2. from \in 1..to /\ to \in 1..Len(t) + 1
  BY <1>1
<1> QED
  BY <1>2 DEF Fits, Edit

LEMMA EditedFits ==
  ASSUME NEW t, IsText(t), NEW from, NEW to, NEW x, Fits(Edit(from, to, x), t)
  PROVE  IsText(Edited(t, Edit(from, to, x)))
<1>1. Len(t) \in Nat
  BY TextIs
<1>2. from \in 1..to /\ to \in 1..Len(t) + 1 /\ IsText(x)
  BY DEF Fits, Edit
<1>3. from \in 1..Len(t) + 1 /\ to \in Nat \ {0}
  BY <1>1, <1>2
<1> QED
  BY <1>2, <1>3, EditedIsText

\* Where a separator is, and the next.
LEMMA SectionPlaces ==
  ASSUME NEW t, IsText(t), NEW h \in 0..Len(t), NEW e, e = NextSeparator(t, h)
  PROVE  /\ Len(t) \in Nat \ {0} /\ h \in Nat /\ e \in Nat \ {0} /\ h < e
         /\ h <= Len(t) /\ e <= Len(t) + 1
         /\ h # 0 => /\ h \in 1..Len(t)
                     /\ SectionText(t, h) \in Seq(Range(t) \cup {Blank})
                     /\ SectionText(t, h) # <<>>
<1>1. Len(t) \in Nat \ {0}
  BY TextIs
<1>2. e \in h + 1..Len(t) + 1
  BY NextSeparatorIs DEF IsNext
<1>3. h \in Nat /\ e \in Nat \ {0} /\ h < e /\ h <= Len(t) /\ e <= Len(t) + 1
  BY <1>1, <1>2
<1>4. ASSUME h # 0
      PROVE  /\ h \in 1..Len(t)
             /\ SectionText(t, h) \in Seq(Range(t) \cup {Blank})
             /\ SectionText(t, h) # <<>>
  <2>1. h \in 1..Len(t) + 1 /\ e \in h..Len(t) + 1 /\ h <= Len(t)
        /\ h \in 1..Len(t)
    BY <1>1, <1>3, <1>4
  <2>2. PICK s : s = Slice(t, h, e)
    OBVIOUS
  <2>3. s \in Seq(Range(t) \cup {Blank}) /\ IsSlice(s, t, h, e)
    BY <2>1, <2>2, SliceHas
  <2>4. Len(s) # 0
    BY <1>1, <1>3, <2>3 DEF IsSlice
  <2>5. s # <<>>
    BY <2>3, <2>4, NotEmpty
  <2> QED
    BY <2>1, <2>2, <2>3, <2>5 DEF SectionText
<1> QED
  BY <1>1, <1>3, <1>4

LEMMA DeleteFits ==
  ASSUME NEW t, IsText(t), NEW row, NEW edit \in PlanDelete(t, row)
  PROVE  /\ Fits(edit, t) /\ IsText(Edited(t, edit))
         /\ edit.text \in Seq(Range(t) \cup {Blank})
<1>1. PICK r \in ToSet(Requests(t)) :
        /\ r.name # Unnamed
        /\ edit = Edit(r.start - 1, NextSeparator(t, r.start - 1), Empty)
  BY DEF PlanDelete, Unchanged, RequestsOn
<1>2. PICK h, e : h = r.start - 1 /\ e = NextSeparator(t, h)
  OBVIOUS
<1>3. h \in Separators(t)
  BY <1>1, <1>2, NamedRequest
<1>4. h \in 0..Len(t) /\ h # 0
  BY <1>3, SeparatorsIn
<1>5. h \in Nat \ {0} /\ e \in Nat /\ h <= e /\ e <= Len(t) + 1
  <2>1. h \in Nat /\ e \in Nat \ {0} /\ h < e /\ e <= Len(t) + 1
    BY <1>2, <1>4, SectionPlaces
  <2> QED
    BY <1>4, <2>1
<1>6. Fits(Edit(h, e, Empty), t)
  BY <1>5, EmptyIs, FitsIf
<1>7. edit.text \in Seq(Range(t) \cup {Blank})
  <2>1. Blank \in Range(t) \cup {Blank}
    OBVIOUS
  <2>2. <<Blank>> \in Seq(Range(t) \cup {Blank})
    BY <2>1
  <2>3. edit.text = Empty
    BY <1>1 DEF Edit
  <2> QED
    BY <2>2, <2>3 DEF Empty
<1> QED
  BY <1>1, <1>2, <1>6, <1>7, EditedFits

LEMMA MoveFits ==
  ASSUME NEW t, IsText(t), NEW row, NEW direction \in {"up", "down"},
         NEW edit \in PlanMove(t, row, direction)
  PROVE  /\ Fits(edit, t) /\ IsText(Edited(t, edit))
         /\ edit.text \in Seq(Range(t) \cup {Blank})
<1>1. PICK r \in ToSet(Requests(t)), o \in ToSet(Requests(t)) :
        /\ r.name # Unnamed /\ o.name # Unnamed
        /\ o.start - 1 \in Beside(t, r.start - 1, direction)
        /\ edit = Swap(t, r.start - 1, o.start - 1)
  BY DEF PlanMove, Unchanged, RequestsOn
<1>2. PICK u, v : u = r.start - 1 /\ v = o.start - 1
  OBVIOUS
<1>3. u \in Separators(t) /\ v \in Separators(t)
  BY <1>1, <1>2, NamedRequest
<1>4. u \in Nat \ {0} /\ v \in Nat \ {0} /\ u \in 0..Len(t) /\ v \in 0..Len(t)
      /\ Len(t) \in Nat
  BY <1>3, SeparatorsIn
<1>5. PICK hs, n : HeadsAre(t, hs, n)
  BY HeadsExist
<1>6. u # v
  <2>1. PICK k \in 1..n - 1 :
          IF direction = "up" THEN v = hs[k] /\ u = hs[k + 1]
                              ELSE u = hs[k] /\ v = hs[k + 1]
    <3>1. v \in Beside(t, u, direction)
      BY <1>1, <1>2
    <3> QED
      BY <1>3, <1>5, <3>1, BesideIs
  <2>2. /\ n \in Nat
        /\ \A i, j \in 1..n : i < j <=> hs[i] < hs[j]
    BY <1>5, Ascending
  <2>3. k \in 1..n /\ k + 1 \in 1..n /\ k < k + 1
    BY <2>2
  <2>4. hs[k] < hs[k + 1]
    BY <2>2, <2>3
  <2> QED
    BY <1>4, <2>1, <2>4
<1>7. PICK f, g : f = Min({u, v}) /\ g = Max({u, v})
  OBVIOUS
<1>8. /\ f \in Nat \ {0} /\ g \in Nat \ {0} /\ f < g
      /\ f \in 0..Len(t) /\ g \in 0..Len(t)
  <2>1. CASE u < v
    BY <1>4, <1>7, <2>1, TwoNumbers
  <2>2. CASE v < u
    BY <1>4, <1>7, <2>2, TwoNumbers
  <2> QED
    BY <1>4, <1>6, <2>1, <2>2
<1>9. PICK e : e = NextSeparator(t, g)
  OBVIOUS
<1>10. e \in Nat /\ g < e /\ e <= Len(t) + 1
  BY <1>8, <1>9, SectionPlaces
<1>11. PICK a, b, S : /\ a = SectionText(t, f) /\ b = SectionText(t, g)
                      /\ S = Range(t) \cup {Blank}
  OBVIOUS
<1>12. a \in Seq(S) /\ a # <<>> /\ b \in Seq(S) /\ b # <<>>
  BY <1>8, <1>11, SectionPlaces
<1>13. PICK x : x = Concat(b, a)
  OBVIOUS
<1>14. x \in Seq(S) /\ x # <<>>
  BY <1>12, <1>13, ConcatIs
<1>15. IsText(x)
  BY <1>14, IsTextIf
<1>16. edit = Edit(f, e, x)
  BY <1>1, <1>2, <1>7, <1>9, <1>11, <1>13 DEF Swap
<1>17. f <= e
  BY <1>8, <1>10
<1>18. Fits(Edit(f, e, x), t)
  BY <1>8, <1>10, <1>15, <1>17, FitsIf
<1>19. edit.text \in Seq(Range(t) \cup {Blank})
  <2>1. edit.text = x
    BY <1>16 DEF Edit
  <2> QED
    BY <1>11, <1>14, <2>1
<1> QED
  BY <1>16, <1>18, <1>19, EditedFits

----------------------------------------------------------------------------
(* Names.                                                                  *)

\* Numerals differ, and have no capitals.
NumeralsDiffer ==
  /\ \A k \in Nat : ToString(k) \notin DOMAIN Lower
  /\ \A j, k \in Nat : j # k => ToString(j) # ToString(k)

\* What a number adds to a name.
LEMMA NumberedIs ==
  ASSUME NumeralsDiffer, NEW name, IsName(name), NEW k \in Nat \ {0},
         NEW v, v = Numbered(name, k)
  PROVE  /\ IsName(v) /\ DOMAIN Fold(v) = DOMAIN v /\ Len(name) \in Nat
         /\ k = 1 => DOMAIN v = 1..Len(name)
         /\ k # 1 => /\ DOMAIN v = 1..Len(name) + 1
                     /\ Fold(v)[Len(name) + 1] = ToString(k)
<1>1. PICK S, s : S = Range(name) \cup {s} /\ s = ToString(k)
  OBVIOUS
<1>2. PICK n : n = Len(name)
  OBVIOUS
<1>3. name \in Seq(Range(name)) /\ Range(name) \subseteq S
  BY <1>1 DEF IsName
<1>4. name \in Seq(S) /\ n \in Nat /\ DOMAIN name = 1..n
  BY <1>2, <1>3, SeqMonotonic, LenProperties
<1>5. DOMAIN Fold(v) = DOMAIN v
  BY DEF Fold
<1>6. CASE k = 1
  <2>1. v = name
    BY <1>6 DEF Numbered
  <2> QED
    BY <1>2, <1>4, <1>5, <1>6, <2>1
<1>7. CASE k # 1
  <2>1. PICK u : u = <<s>>
    OBVIOUS
  <2>2. u \in Seq(S) /\ Len(u) = 1 /\ u[1] = s
    BY <1>1, <2>1
  <2>3. v = name \o u
    BY <1>1, <1>7, <2>1 DEF Numbered
  <2>4. v \in Seq(S) /\ IsJoin(v, name, u)
    BY <1>4, <2>2, <2>3, TextsJoined
  <2>5. Len(v) = n + 1 /\ v[n + 1] = s
    <3>1. 1 \in 1..Len(u)
      BY <2>2
    <3> QED
      BY <1>2, <2>2, <2>4, <3>1 DEF IsJoin
  <2>6. DOMAIN v = 1..n + 1 /\ n + 1 \in 1..n + 1
    BY <1>4, <2>4, <2>5, LenProperties
  <2>7. s \notin DOMAIN Lower
    BY <1>1 DEF NumeralsDiffer
  <2>8. Fold(v)[n + 1] = s
    BY <2>5, <2>6, <2>7 DEF Fold
  <2>9. IsName(v)
    <3>1. v # <<>>
      BY <1>4, <2>4, <2>5, NotEmpty
    <3> QED
      BY <2>4, <3>1, IsTextIf DEF IsText, IsName
  <2> QED
    BY <1>1, <1>2, <1>4, <1>5, <1>7, <2>6, <2>8, <2>9
<1> QED
  BY <1>6, <1>7

\* Names with different numbers differ in any case.
LEMMA NumberedDiffer ==
  ASSUME NumeralsDiffer, NEW name, IsName(name), NEW j \in Nat \ {0},
         NEW k \in Nat \ {0}, j # k
  PROVE  Fold(Numbered(name, j)) # Fold(Numbered(name, k))
<1>1. PICK u, v, n : /\ u = Numbered(name, j) /\ v = Numbered(name, k)
                     /\ n = Len(name)
  OBVIOUS
<1>2. /\ DOMAIN Fold(u) = DOMAIN u /\ n \in Nat
      /\ j = 1 => DOMAIN u = 1..n
      /\ j # 1 => DOMAIN u = 1..n + 1 /\ Fold(u)[n + 1] = ToString(j)
  BY <1>1, NumberedIs
<1>3. /\ DOMAIN Fold(v) = DOMAIN v
      /\ k = 1 => DOMAIN v = 1..n
      /\ k # 1 => DOMAIN v = 1..n + 1 /\ Fold(v)[n + 1] = ToString(k)
  BY <1>1, NumberedIs
<1>4. 1..n # 1..n + 1
  <2>1. n + 1 \in 1..n + 1 /\ n + 1 \notin 1..n
    BY <1>2
  <2> QED
    BY <2>1
<1>5. ToString(j) # ToString(k)
  BY DEF NumeralsDiffer
<1> QED
  BY <1>1, <1>2, <1>3, <1>4, <1>5

\* Of more candidates than there are keys, one is no key.
AllDiffer(cand, n) == \A j, k \in 1..n : j # k => cand[j] # cand[k]
OneFree(cand, n, key, E) == \E k \in 1..n : \A e \in E : key[e] # cand[k]

LEMMA OneIsFree ==
  ASSUME NEW L \in Nat, NEW E, IsFiniteSet(E), Cardinality(E) <= L,
         NEW key, NEW cand, AllDiffer(cand, L + 1)
  PROVE  OneFree(cand, L + 1, key, E)
<1> SUFFICES ASSUME \A k \in 1..L + 1 : \E e \in E : key[e] = cand[k]
             PROVE  FALSE
  BY DEF OneFree
<1>1. PICK f : f = [k \in 1..L + 1 |-> CHOOSE e \in E : key[e] = cand[k]]
  OBVIOUS
<1>2. \A k \in 1..L + 1 : f[k] \in E /\ key[f[k]] = cand[k]
  BY <1>1
<1>3. f \in [1..L + 1 -> E]
  BY <1>1, <1>2
<1>4. IsFiniteSet(1..L + 1) /\ Cardinality(1..L + 1) = L + 1
  <2>1. PICK n \in Nat \ {0} : n = L + 1
    OBVIOUS
  <2>2. IsFiniteSet(1..n) /\ Cardinality(1..n) = n
    BY FS_Interval
  <2> QED
    BY <2>1, <2>2
<1>5. Cardinality(E) \in Nat
  BY FS_CardinalityType
<1>6. Cardinality(E) < Cardinality(1..L + 1)
  BY <1>4, <1>5
<1>7. PICK j, k \in 1..L + 1 : j # k /\ f[j] = f[k]
  BY <1>3, <1>4, <1>6, FS_PigeonHole
<1> QED
  BY <1>2, <1>7 DEF AllDiffer

LEMMA SeparatorsCount ==
  ASSUME NEW t, IsText(t)
  PROVE  /\ Len(t) \in Nat /\ IsFiniteSet(Separators(t))
         /\ Cardinality(Separators(t)) <= Len(t)
<1>1. Separators(t) \subseteq 1..Len(t) /\ Len(t) \in Nat \ {0}
      /\ IsFiniteSet(Separators(t))
  BY SeparatorsIn
<1>2. IsFiniteSet(1..Len(t)) /\ Cardinality(1..Len(t)) = Len(t)
  <2>1. PICK n \in Nat \ {0} : n = Len(t)
    BY <1>1
  <2>2. IsFiniteSet(1..n) /\ Cardinality(1..n) = n
    BY FS_Interval
  <2> QED
    BY <2>1, <2>2
<1>3. Cardinality(Separators(t)) <= Cardinality(1..Len(t))
  BY <1>1, <1>2, FS_Subset
<1> QED
  BY <1>1, <1>2, <1>3

LEMMA OneWord ==
  ASSUME NEW word
  PROVE  IsName(<<word>>)
<1>1. PICK n : n = <<word>>
  OBVIOUS
<1>2. n \in Seq({word}) /\ n # <<>>
  BY <1>1
<1>3. IsText(n)
  BY <1>2, IsTextIf
<1> QED
  BY <1>1, <1>3 DEF IsText, IsName

LEMMA WordAdded ==
  ASSUME NEW name, IsName(name), NEW word
  PROVE  IsName(name \o <<word>>)
<1>1. PICK S, u, v : /\ S = Range(name) \cup {word} /\ u = <<word>>
                     /\ v = name \o u
  OBVIOUS
<1>2. name \in Seq(S) /\ Len(name) \in Nat
  <2>1. name \in Seq(Range(name)) /\ Range(name) \subseteq S
    BY <1>1 DEF IsName
  <2> QED
    BY <2>1, SeqMonotonic, LenProperties
<1>3. u \in Seq(S) /\ Len(u) = 1
  BY <1>1
<1>4. v \in Seq(S) /\ IsJoin(v, name, u)
  BY <1>1, <1>2, <1>3, TextsJoined
<1>5. Len(v) # 0
  BY <1>2, <1>3, <1>4 DEF IsJoin
<1>6. IsText(v)
  BY <1>4, <1>5, NotEmpty, IsTextIf
<1> QED
  BY <1>1, <1>6 DEF IsText, IsName

\* A copy takes a name that no section has, in any case.
LEMMA CopyNameFree ==
  ASSUME NumeralsDiffer, NEW t, IsText(t), NEW name, IsName(name),
         NEW c, c = CopyName(t, name)
  PROVE  IsName(c) /\ \A i \in Separators(t) : Fold(t[i][2]) # Fold(c)
<1>1. PICK b, N, E, L : /\ b = name \o <<"Copy">> /\ E = Separators(t)
                        /\ N = {Fold(t[i][2]) : i \in E} /\ L = Len(t)
  OBVIOUS
<1>2. IsName(b)
  BY <1>1, WordAdded
<1>3. L \in Nat /\ IsFiniteSet(E) /\ Cardinality(E) <= L
  BY <1>1, SeparatorsCount
<1>4. PICK J : J = {k \in 1..L + 1 : ~(Fold(Numbered(b, k)) \in N)}
  OBVIOUS
<1>5. c = Numbered(b, Min(J))
  BY <1>1, <1>4 DEF CopyName, FreeName
<1>6. PICK key, cand : /\ key = [i \in E |-> Fold(t[i][2])]
                       /\ cand = [k \in 1..L + 1 |-> Fold(Numbered(b, k))]
  OBVIOUS
<1>7. \A j, k \in 1..L + 1 : j # k => cand[j] # cand[k]
  <2>1. \A k \in 1..L + 1 : k \in Nat \ {0}
    BY <1>3
  <2> QED
    BY <1>2, <1>6, <2>1, NumberedDiffer, SMTT(30)
<1>8. OneFree(cand, L + 1, key, E)
  <2>1. AllDiffer(cand, L + 1)
    BY <1>7 DEF AllDiffer
  <2> QED
    BY <1>3, <2>1, OneIsFree
<1>9. PICK k \in 1..L + 1 : \A e \in E : key[e] # cand[k]
  BY <1>8 DEF OneFree
<1>10. k \in J
  BY <1>1, <1>4, <1>6, <1>9
<1>11. J \subseteq Nat
  BY <1>3, <1>4
<1>12. PICK m : m = Min(J)
  OBVIOUS
<1>13. m \in J
  BY <1>10, <1>11, <1>12, MinOf
<1>14. m \in Nat \ {0} /\ c = Numbered(b, m) /\ ~(Fold(c) \in N)
  BY <1>3, <1>4, <1>5, <1>12, <1>13
<1>15. IsName(c)
  BY <1>2, <1>14, NumberedIs
<1> QED
  BY <1>1, <1>14, <1>15

\* A new request takes a name that no section has.
NewName(c, t) ==
  \E b, N :
    /\ IsName(b) /\ N = {t[i][2] : i \in Separators(t)}
    /\ c = Numbered(b, Min({k \in 1..Len(t) + 1 : ~(Numbered(b, k) \in N)}))

LEMMA NewNameFree ==
  ASSUME NumeralsDiffer, NEW t, IsText(t), NEW c, NewName(c, t)
  PROVE  IsName(c) /\ \A i \in Separators(t) : t[i][2] # c
<1>1. PICK b, N :
        /\ IsName(b) /\ N = {t[i][2] : i \in Separators(t)}
        /\ c = Numbered(b, Min({k \in 1..Len(t) + 1 : ~(Numbered(b, k) \in N)}))
  BY DEF NewName
<1>2. PICK E, L : E = Separators(t) /\ L = Len(t)
  OBVIOUS
<1>3. L \in Nat /\ IsFiniteSet(E) /\ Cardinality(E) <= L
  BY <1>2, SeparatorsCount
<1>4. PICK J : J = {k \in 1..L + 1 : ~(Numbered(b, k) \in N)}
  OBVIOUS
<1>5. c = Numbered(b, Min(J))
  BY <1>1, <1>2, <1>4
<1>6. PICK key, cand : /\ key = [i \in E |-> t[i][2]]
                       /\ cand = [k \in 1..L + 1 |-> Numbered(b, k)]
  OBVIOUS
<1>7. \A j, k \in 1..L + 1 : j # k => cand[j] # cand[k]
  <2>1. \A k \in 1..L + 1 : k \in Nat \ {0} /\ cand[k] = Numbered(b, k)
    BY <1>3, <1>6
  <2> QED
    BY <1>1, <2>1, NumberedDiffer
<1>8. OneFree(cand, L + 1, key, E)
  <2>1. AllDiffer(cand, L + 1)
    BY <1>7 DEF AllDiffer
  <2> QED
    BY <1>3, <2>1, OneIsFree
<1>9. PICK k \in 1..L + 1 : \A e \in E : key[e] # cand[k]
  BY <1>8 DEF OneFree
<1>10. k \in J
  BY <1>1, <1>2, <1>4, <1>6, <1>9
<1>11. J \subseteq Nat
  BY <1>3, <1>4
<1>12. PICK m : m = Min(J)
  OBVIOUS
<1>13. m \in J
  BY <1>10, <1>11, <1>12, MinOf
<1>14. m \in Nat \ {0} /\ c = Numbered(b, m) /\ ~(c \in N)
  <2>1. m \in 1..L + 1 /\ ~(Numbered(b, m) \in N)
    BY <1>4, <1>13
  <2>2. c = Numbered(b, m)
    BY <1>5, <1>12
  <2>3. m \in Nat \ {0}
    BY <1>3, <2>1
  <2> QED
    BY <2>1, <2>2, <2>3
<1>15. IsName(c)
  BY <1>1, <1>14, NumberedIs
<1> QED
  BY <1>1, <1>14, <1>15

----------------------------------------------------------------------------
(* Edits that bring a section.                                             *)

\* A text whose only separator is on one line.
OneSeparator(x, q, name) ==
  /\ IsText(x) /\ q \in 1..Len(x) /\ x[q] = Separator(name)
  /\ \A i \in 1..Len(x) : i # q => ~IsSeparator(x[i])

\* All sections of a text but one are sections of another, under their names.
Gains(d, t, gone, name) ==
  \E p, f :
    /\ p \in Separators(d) /\ d[p] = Separator(name)
    /\ \A i \in Separators(d) \ {p} :
         f[i] \in Separators(t) \ gone /\ d[i] = t[f[i]]
    /\ \A i, j \in Separators(d) \ {p} : i # j => f[i] # f[j]

\* Names that differ, in any case or as they are written.
ApartFolded(t) == Distinct(t, Fold)
Apart(t) == Distinct(t, LAMBDA n : n)

LEMMA GainsFolded ==
  ASSUME NEW d, NEW t, NEW gone, NEW name, Gains(d, t, gone, name),
         ApartFolded(t),
         \A i \in Separators(t) \ gone : Fold(t[i][2]) # Fold(name)
  PROVE  ApartFolded(d)
<1>1. PICK p, f :
        /\ p \in Separators(d) /\ d[p] = Separator(name)
        /\ \A i \in Separators(d) \ {p} :
             f[i] \in Separators(t) \ gone /\ d[i] = t[f[i]]
        /\ \A i, j \in Separators(d) \ {p} : i # j => f[i] # f[j]
  BY DEF Gains
<1>2. d[p][2] = name
  BY <1>1 DEF Separator
<1>3. \A i, j \in Separators(t) :
        i # j /\ t[i][2] # Unnamed => Fold(t[i][2]) # Fold(t[j][2])
  BY DEF ApartFolded, Distinct
<1>4. ASSUME NEW i \in Separators(d), NEW j \in Separators(d), i # j,
             d[i][2] # Unnamed
      PROVE  Fold(d[i][2]) # Fold(d[j][2])
  <2>1. CASE i = p
    BY <1>1, <1>2, <1>4, <2>1
  <2>2. CASE j = p
    BY <1>1, <1>2, <1>4, <2>2
  <2>3. CASE i # p /\ j # p
    BY <1>1, <1>3, <1>4, <2>3
  <2> QED
    BY <2>1, <2>2, <2>3
<1> QED
  BY <1>4 DEF ApartFolded, Distinct

LEMMA GainsApart ==
  ASSUME NEW d, NEW t, NEW gone, NEW name, Gains(d, t, gone, name), Apart(t),
         \A i \in Separators(t) \ gone : t[i][2] # name
  PROVE  Apart(d)
<1>1. PICK p, f :
        /\ p \in Separators(d) /\ d[p] = Separator(name)
        /\ \A i \in Separators(d) \ {p} :
             f[i] \in Separators(t) \ gone /\ d[i] = t[f[i]]
        /\ \A i, j \in Separators(d) \ {p} : i # j => f[i] # f[j]
  BY DEF Gains
<1>2. d[p][2] = name
  BY <1>1 DEF Separator
<1>3. \A i, j \in Separators(t) :
        i # j /\ t[i][2] # Unnamed => t[i][2] # t[j][2]
  BY DEF Apart, Distinct
<1>4. ASSUME NEW i \in Separators(d), NEW j \in Separators(d), i # j,
             d[i][2] # Unnamed
      PROVE  d[i][2] # d[j][2]
  <2>1. CASE i = p
    BY <1>1, <1>2, <1>4, <2>1
  <2>2. CASE j = p
    BY <1>1, <1>2, <1>4, <2>2
  <2>3. CASE i # p /\ j # p
    BY <1>1, <1>3, <1>4, <2>3
  <2> QED
    BY <2>1, <2>2, <2>3
<1> QED
  BY <1>4 DEF Apart, Distinct

\* A renamed section.
LEMMA RenameGains ==
  ASSUME NEW t, IsText(t), NEW h \in Separators(t), NEW name,
         NEW d, d = Edited(t, Edit(h, h + 1, <<Separator(name), Blank>>))
  PROVE  Gains(d, t, {h}, name)
<1>1. h \in 1..Len(t) /\ Len(t) \in Nat \ {0} /\ h \in Nat \ {0}
      /\ h + 1 \in Nat \ {0}
  BY SeparatorsIn
<1>2. PICK x, r : x = <<Separator(name), Blank>> /\ r = Rest(t, h + 1)
  OBVIOUS
<1>3. /\ IsText(x) /\ Len(x) = 2 /\ Len(x) - 1 = 1
      /\ x[1] = Separator(name) /\ x[Len(x)] = Blank
  <2>1. x \in Seq({Separator(name), Blank}) /\ x # <<>> /\ Len(x) = 2
        /\ x[1] = Separator(name) /\ x[2] = Blank
    BY <1>2
  <2>2. IsText(x)
    BY <2>1, IsTextIf
  <2> QED
    BY <2>1, <2>2
<1>4. Replaces(d, t, h, x, 1, r)
  BY <1>1, <1>2, <1>3, EditedAt
<1>5. /\ IsText(d) /\ Len(r) \in Nat /\ Len(d) = h - 1 + 1 + Len(r)
      /\ \A i \in 1..h - 1 : d[i] = t[i]
      /\ \A i \in 1..1 : d[h - 1 + i] = x[i]
      /\ \A i \in 1..Len(r) : d[h - 1 + 1 + i] = r[i]
  BY <1>4 DEF Replaces
<1>6. d[h] = Separator(name)
  <2>1. 1 \in 1..1 /\ h - 1 + 1 = h
    BY <1>1
  <2>2. d[h - 1 + 1] = x[1]
    BY <1>5, <2>1
  <2> QED
    BY <1>3, <2>1, <2>2
<1>7. Len(d) \in Nat \ {0} /\ DOMAIN d = 1..Len(d)
  BY <1>5, TextIs
<1>8. h \in Separators(d)
  <2>1. IsSeparator(d[h])
    BY <1>6 DEF IsSeparator, Separator
  <2>2. h \in 1..Len(d)
    BY <1>1, <1>5, <1>7
  <2> QED
    BY <1>7, <2>1, <2>2 DEF Separators
<1>9. ASSUME NEW i \in Separators(d) \ {h}
      PROVE  i \in Separators(t) \ {h} /\ d[i] = t[i]
  <2>1. i \in 1..Len(d) /\ IsSeparator(d[i]) /\ i # h
    BY <1>7 DEF Separators
  <2>2. i \in 1..Len(t) /\ d[i] = t[i]
    <3>1. CASE i < h
      <4>1. i \in 1..h - 1 /\ i \in 1..Len(t)
        BY <1>1, <1>7, <2>1, <3>1
      <4> QED
        BY <1>5, <4>1
    <3>2. CASE i > h
      <4>1. PICK j \in Nat \ {0} : j = i - h
        BY <1>1, <2>1, <3>2
      <4>2. j \in 1..Len(r) /\ h - 1 + 1 + j = i /\ h + 1 + j - 1 = i
        BY <1>1, <1>5, <1>7, <2>1, <4>1
      <4>3. d[i] = r[j]
        BY <1>5, <4>2
      <4>4. CASE h + 1 <= Len(t)
        <5>1. /\ Len(r) = Len(t) - (h + 1) + 1
              /\ \A k \in 1..Len(t) - (h + 1) + 1 : r[k] = t[h + 1 + k - 1]
          BY <1>1, <1>2, <4>4, RestIs
        <5>2. r[j] = t[h + 1 + j - 1]
          BY <4>2, <5>1
        <5>3. i <= Len(t)
          BY <1>1, <4>2, <5>1
        <5> QED
          BY <1>1, <2>1, <4>2, <4>3, <5>2, <5>3
      <4>5. CASE h + 1 > Len(t)
        <5>1. r = Empty
          BY <1>1, <1>2, <4>5, RestIs
        <5>2. Len(r) = 1 /\ r[1] = Blank
          BY <5>1, EmptyIs
        <5>3. j = 1
          BY <4>2, <5>2
        <5>4. IsSeparator(Blank)
          BY <2>1, <4>3, <5>2, <5>3
        <5> QED
          BY <5>4 DEF IsSeparator, Blank
      <4> QED
        BY <1>1, <4>4, <4>5
    <3> QED
      BY <1>1, <2>1, <3>1, <3>2
  <2>3. i \in Separators(t)
    BY <2>1, <2>2, TextIs DEF Separators
  <2> QED
    BY <2>1, <2>2, <2>3
<1>10. PICK f : f = [i \in Separators(d) |-> i]
  OBVIOUS
<1>11. \A i \in Separators(d) : f[i] = i
  BY <1>10
<1>12. \A i \in Separators(d) \ {h} : f[i] \in Separators(t) \ {h} /\ d[i] = t[f[i]]
  BY <1>9, <1>11
<1>13. \A i, j \in Separators(d) \ {h} : i # j => f[i] # f[j]
  BY <1>11
<1> QED
  BY <1>6, <1>8, <1>12, <1>13 DEF Gains

\* A section brought in above a line.
LEMMA InsertedGains ==
  ASSUME NEW t, IsText(t), NEW e \in 1..Len(t), NEW x, NEW q, NEW name,
         OneSeparator(x, q, name), x[Len(x)] = Blank,
         NEW d, d = Edited(t, Edit(e, e, x))
  PROVE  Gains(d, t, {}, name)
<1>1. /\ Len(t) \in Nat \ {0} /\ e \in Nat \ {0} /\ e <= Len(t)
  BY TextIs
<1>2. IsText(x) /\ q \in 1..Len(x) /\ x[q] = Separator(name)
      /\ \A i \in 1..Len(x) : i # q => ~IsSeparator(x[i])
  BY DEF OneSeparator
<1>3. PICK m, r : m = Len(x) - 1 /\ r = Rest(t, e)
  OBVIOUS
<1>4. Len(x) \in Nat \ {0} /\ m \in Nat /\ Len(x) = m + 1
  BY <1>2, <1>3, TextIs
<1>5. ~IsSeparator(Blank) /\ IsSeparator(Separator(name))
  BY DEF IsSeparator, Blank, Separator
<1>6. q \in 1..m
  <2>1. q # Len(x)
    BY <1>2, <1>5
  <2> QED
    BY <1>2, <1>4, <2>1
<1>7. Replaces(d, t, e, x, m, r)
  BY <1>1, <1>2, <1>3, EditedAt
<1>8. /\ Len(r) = Len(t) - e + 1
      /\ \A i \in 1..Len(t) - e + 1 : r[i] = t[e + i - 1]
  BY <1>1, <1>3, RestIs
<1>9. /\ IsText(d) /\ Len(d) = e - 1 + m + Len(r)
      /\ \A i \in 1..e - 1 : d[i] = t[i]
      /\ \A i \in 1..m : d[e - 1 + i] = x[i]
      /\ \A i \in 1..Len(r) : d[e - 1 + m + i] = r[i]
  BY <1>7 DEF Replaces
<1>10. DOMAIN d = 1..Len(d) /\ Len(d) = Len(t) + m
  BY <1>1, <1>4, <1>8, <1>9, TextIs
<1>11. PICK p \in Nat : p = e - 1 + q
  BY <1>1, <1>4, <1>6
<1>12. p \in Separators(d) /\ d[p] = Separator(name)
  <2>1. d[p] = x[q]
    BY <1>6, <1>9, <1>11
  <2>2. p \in 1..Len(d)
    BY <1>1, <1>4, <1>6, <1>10, <1>11
  <2>3. IsSeparator(d[p])
    BY <1>2, <1>5, <2>1
  <2> QED
    BY <1>2, <1>10, <2>1, <2>2, <2>3 DEF Separators
<1>13. PICK f : f = [i \in Separators(d) |-> IF i < e THEN i ELSE i - m]
  OBVIOUS
<1>14. ASSUME NEW i \in Separators(d) \ {p}
       PROVE  /\ i \in Nat /\ (i < e \/ i - m >= e)
              /\ f[i] = IF i < e THEN i ELSE i - m
              /\ f[i] \in Separators(t) /\ d[i] = t[f[i]]
  <2>1. i \in 1..Len(d) /\ IsSeparator(d[i]) /\ i # p /\ i \in Nat
        /\ f[i] = IF i < e THEN i ELSE i - m
    BY <1>10, <1>13 DEF Separators
  <2>2. (i < e \/ i - m >= e) /\ f[i] \in 1..Len(t) /\ d[i] = t[f[i]]
    <3>1. CASE i < e
      BY <1>1, <1>9, <2>1, <3>1
    <3>2. CASE i >= e /\ i - m < e
      <4>1. PICK j \in Nat : j = i - e + 1
        BY <1>1, <2>1, <3>2
      <4>2. j \in 1..m /\ e - 1 + j = i /\ j # q
        BY <1>1, <1>4, <1>11, <2>1, <3>2, <4>1
      <4>3. d[i] = x[j]
        BY <1>9, <4>2
      <4>4. j \in 1..Len(x)
        BY <1>4, <4>2
      <4> QED
        BY <1>2, <2>1, <4>2, <4>3, <4>4
    <3>3. CASE i >= e /\ i - m >= e
      <4>1. PICK l \in Nat : l = i - m
        BY <1>1, <1>4, <2>1, <3>3
      <4>2. PICK j \in Nat : j = l - e + 1
        BY <1>1, <3>3, <4>1
      <4>3. /\ j \in 1..Len(t) - e + 1 /\ e - 1 + m + j = i /\ e + j - 1 = l
            /\ l \in 1..Len(t)
        BY <1>1, <1>4, <1>10, <2>1, <3>3, <4>1, <4>2
      <4>4. d[i] = r[j] /\ r[j] = t[l]
        BY <1>8, <1>9, <4>3
      <4>5. f[i] = l
        BY <1>1, <2>1, <3>3, <4>1
      <4> QED
        BY <3>3, <4>3, <4>4, <4>5
    <3> QED
      BY <1>1, <1>4, <2>1, <3>1, <3>2, <3>3
  <2>3. f[i] \in Separators(t)
    BY <2>1, <2>2, TextIs DEF Separators
  <2> QED
    BY <2>1, <2>2, <2>3
<1>15. ASSUME NEW i \in Separators(d) \ {p}, NEW j \in Separators(d) \ {p},
              i # j
       PROVE  f[i] # f[j]
  <2>1. /\ i \in Nat /\ (i < e \/ i - m >= e)
        /\ f[i] = IF i < e THEN i ELSE i - m
    BY <1>14
  <2>2. /\ j \in Nat /\ (j < e \/ j - m >= e)
        /\ f[j] = IF j < e THEN j ELSE j - m
    BY <1>14
  <2> QED
    BY <1>1, <1>4, <1>15, <2>1, <2>2
<1>16. \A i \in Separators(d) \ {p} :
         f[i] \in Separators(t) \ {} /\ d[i] = t[f[i]]
  BY <1>14
<1> QED
  BY <1>12, <1>15, <1>16 DEF Gains

\* What is left when a text is put behind another.
Appends(d, t, x, L) ==
  /\ IsText(d) /\ Len(d) = L + Len(x) - 1
  /\ \A i \in 1..L - 1 : d[i] = t[i]
  /\ \A i \in 2..Len(x) : d[L + i - 1] = x[i]
  /\ d[L] = IF t[L] = Blank THEN x[1] ELSE t[L]

LEMMA AppendedAt ==
  ASSUME NEW t, IsText(t), NEW L, L = Len(t), NEW x, IsText(x),
         NEW d, d = Edited(t, Edit(L + 1, L + 1, x))
  PROVE  Appends(d, t, x, L)
<1>1. L \in Nat \ {0} /\ L + 1 \in Nat \ {0} /\ Len(x) \in Nat \ {0}
  BY TextIs
<1>2. PICK s, c, S : /\ s = Slice(t, 1, L + 1) /\ c = Concat(s, x)
                     /\ S = Range(t) \cup {Blank} \cup Range(x)
  OBVIOUS
<1>3. s \in Seq(Range(t) \cup {Blank}) /\ IsSlice(s, t, 1, L + 1)
  <2>1. 1 \in 1..Len(t) + 1 /\ L + 1 \in 1..Len(t) + 1 /\ 1 <= Len(t)
    BY <1>1
  <2> QED
    BY <1>2, <2>1, SliceHas
<1>4. Len(s) = L /\ \A i \in 1..L : s[i] = t[i]
  <2>1. L + 1 = Len(t) + 1 /\ (L + 1) - 1 = L
    BY <1>1
  <2>2. Len(s) = (L + 1) - 1 /\ \A i \in 1..(L + 1) - 1 : s[i] = t[1 + i - 1]
    BY <1>3, <2>1 DEF IsSlice
  <2>3. \A i \in 1..L : 1 + i - 1 = i
    BY <1>1
  <2> QED
    BY <2>1, <2>2, <2>3
<1>5. s \in Seq(S) /\ s # <<>> /\ x \in Seq(S) /\ x # <<>> /\ Empty \in Seq(S)
      /\ Empty # <<>>
  <2>1. /\ Range(t) \cup {Blank} \subseteq S /\ Range(x) \subseteq S
        /\ Blank \in S
    BY <1>2
  <2>2. s \in Seq(S)
    BY <1>3, <2>1, SeqMonotonic
  <2>3. s # <<>>
    BY <1>1, <1>4, <2>2, NotEmpty
  <2>4. x \in Seq(S) /\ x # <<>>
    <3>1. x \in Seq(Range(x)) /\ x # <<>>
      BY TextIs
    <3> QED
      BY <2>1, <3>1, SeqMonotonic
  <2>5. <<Blank>> \in Seq(S) /\ <<Blank>> # <<>>
    BY <2>1
  <2> QED
    BY <2>2, <2>3, <2>4, <2>5 DEF Empty
<1>6. c \in Seq(S) /\ c # <<>> /\ IsConcat(c, s, x)
  BY <1>2, <1>5, ConcatIs
<1>7. d = Concat(c, Empty)
  <2>1. Rest(t, L + 1) = Empty
    <3>1. L + 1 > Len(t)
      BY <1>1
    <3> QED
      BY <1>1, <3>1, RestIs
  <2> QED
    BY <1>2, <2>1 DEF Edited, Edit
<1>8. d \in Seq(S) /\ d # <<>> /\ IsConcat(d, c, Empty)
  BY <1>5, <1>6, <1>7, ConcatIs
<1>9. IsText(d)
  BY <1>8, IsTextIf
<1>10. PICK N \in Nat \ {0} : N = Len(c)
  <2>1. Len(c) = L + Len(x) - 1
    BY <1>4, <1>6 DEF IsConcat
  <2> QED
    BY <1>1, <2>1
<1>11. Len(Empty) = 1 /\ Empty[1] = Blank
  BY EmptyIs
<1>12. Len(d) = N /\ \A i \in 1..N : d[i] = c[i]
  <2>1. /\ Len(d) = N + 1 - 1 /\ \A i \in 1..N - 1 : d[i] = c[i]
        /\ d[N] = IF c[N] = Blank THEN Blank ELSE c[N]
    BY <1>8, <1>10, <1>11 DEF IsConcat
  <2>2. \A i \in 1..N : i \in 1..N - 1 \/ i = N
    OBVIOUS
  <2> QED
    BY <2>1, <2>2
<1>13. /\ N = L + Len(x) - 1
       /\ \A i \in 1..L - 1 : c[i] = s[i]
       /\ \A i \in 2..Len(x) : c[L + i - 1] = x[i]
       /\ c[L] = IF s[L] = Blank THEN x[1] ELSE s[L]
  BY <1>4, <1>6, <1>10 DEF IsConcat
<1>14. \A i \in 1..L - 1 : d[i] = t[i]
  <2>1. \A i \in 1..L - 1 : i \in 1..L /\ i \in 1..N
    BY <1>1, <1>13
  <2> QED
    BY <1>4, <1>12, <1>13, <2>1
<1>15. \A i \in 2..Len(x) : d[L + i - 1] = x[i]
  <2>1. \A i \in 2..Len(x) : L + i - 1 \in 1..N
    BY <1>1, <1>13
  <2> QED
    BY <1>12, <1>13, <2>1
<1>16. d[L] = IF t[L] = Blank THEN x[1] ELSE t[L]
  <2>1. L \in 1..N /\ L \in 1..L
    BY <1>1, <1>13
  <2> QED
    BY <1>4, <1>12, <1>13, <2>1
<1> QED
  BY <1>9, <1>12, <1>13, <1>14, <1>15, <1>16 DEF Appends

\* A section brought in at the end.
LEMMA AppendedGains ==
  ASSUME NEW t, IsText(t), NEW L, L = Len(t), NEW x, NEW q, NEW name,
         OneSeparator(x, q, name), t[L] = Blank \/ q # 1,
         NEW d, d = Edited(t, Edit(L + 1, L + 1, x))
  PROVE  Gains(d, t, {}, name)
<1>1. L \in Nat \ {0}
  BY TextIs
<1>2. IsText(x) /\ q \in 1..Len(x) /\ x[q] = Separator(name)
      /\ \A i \in 1..Len(x) : i # q => ~IsSeparator(x[i])
  BY DEF OneSeparator
<1>3. Len(x) \in Nat \ {0} /\ 1 \in 1..Len(x)
  BY <1>2, TextIs
<1>4. IsSeparator(Separator(name)) /\ ~IsSeparator(Blank)
  BY DEF IsSeparator, Separator, Blank
<1>5. /\ IsText(d) /\ Len(d) = L + Len(x) - 1
      /\ \A i \in 1..L - 1 : d[i] = t[i]
      /\ \A i \in 2..Len(x) : d[L + i - 1] = x[i]
      /\ d[L] = IF t[L] = Blank THEN x[1] ELSE t[L]
  <2>1. Appends(d, t, x, L)
    BY <1>2, AppendedAt
  <2> QED
    BY <2>1 DEF Appends
<1>6. DOMAIN d = 1..Len(d) /\ Len(d) \in Nat \ {0}
  BY <1>5, TextIs
<1>7. PICK p \in Nat : p = L + q - 1
  BY <1>1, <1>2, <1>3
<1>8. d[p] = x[q]
  <2>1. CASE q = 1
    BY <1>1, <1>5, <1>7, <2>1
  <2>2. CASE q # 1
    <3>1. q \in 2..Len(x)
      BY <1>2, <1>3, <2>2
    <3> QED
      BY <1>5, <1>7, <3>1
  <2> QED
    BY <2>1, <2>2
<1>9. p \in Separators(d) /\ d[p] = Separator(name)
  <2>1. p \in 1..Len(d)
    BY <1>1, <1>2, <1>3, <1>5, <1>7
  <2> QED
    BY <1>2, <1>4, <1>6, <1>8, <2>1 DEF Separators
<1>10. ASSUME NEW i \in Separators(d) \ {p}
       PROVE  i \in Separators(t) /\ d[i] = t[i]
  <2>1. i \in 1..Len(d) /\ IsSeparator(d[i]) /\ i # p /\ i \in Nat
    BY <1>6 DEF Separators
  <2>2. i \in 1..L /\ d[i] = t[i]
    <3>1. CASE i < L
      <4>1. i \in 1..L - 1
        BY <1>1, <2>1, <3>1
      <4> QED
        BY <1>1, <1>5, <3>1, <4>1
    <3>2. CASE i = L
      <4>1. CASE t[L] = Blank
        <5>1. IsSeparator(x[1])
          BY <1>5, <2>1, <3>2, <4>1
        <5>2. q = 1
          BY <1>2, <1>3, <5>1
        <5> QED
          BY <1>1, <1>7, <2>1, <3>2, <5>2
      <4>2. CASE t[L] # Blank
        BY <1>1, <1>5, <3>2, <4>2
      <4> QED
        BY <4>1, <4>2
    <3>3. CASE i > L
      <4>1. PICK j \in Nat : j = i - L + 1
        BY <1>1, <2>1, <3>3
      <4>2. j \in 2..Len(x) /\ j \in 1..Len(x) /\ L + j - 1 = i /\ j # q
        BY <1>1, <1>2, <1>3, <1>5, <1>7, <2>1, <3>3, <4>1
      <4>3. d[i] = x[j] /\ ~IsSeparator(x[j])
        BY <1>2, <1>5, <4>2
      <4> QED
        BY <2>1, <4>3
    <3> QED
      BY <1>1, <2>1, <3>1, <3>2, <3>3
  <2>3. i \in Separators(t)
    BY <2>1, <2>2, TextIs DEF Separators
  <2> QED
    BY <2>2, <2>3
<1>11. PICK f : f = [i \in Separators(d) |-> i]
  OBVIOUS
<1>12. \A i \in Separators(d) : f[i] = i
  BY <1>11
<1>13. \A i \in Separators(d) \ {p} : f[i] \in Separators(t) \ {} /\ d[i] = t[f[i]]
  BY <1>10, <1>12
<1>14. \A i, j \in Separators(d) \ {p} : i # j => f[i] # f[j]
  BY <1>12
<1> QED
  BY <1>9, <1>13, <1>14 DEF Gains

\* Blank lines above a section.
LEMMA BlanksBefore ==
  ASSUME NEW S, Blank \in S, NEW u \in Seq({Blank}), NEW y \in Seq(S), NEW q,
         NEW name, OneSeparator(y, q, name), NEW x, x = u \o y
  PROVE  /\ OneSeparator(x, Len(u) + q, name) /\ x \in Seq(S)
         /\ Len(u) + q \in Nat /\ x[Len(x)] = y[Len(y)]
<1>1. IsText(y) /\ q \in 1..Len(y) /\ y[q] = Separator(name)
      /\ \A i \in 1..Len(y) : i # q => ~IsSeparator(y[i])
  BY DEF OneSeparator
<1>2. u \in Seq(S) /\ \A i \in 1..Len(u) : u[i] = Blank
  <2>1. {Blank} \subseteq S
    OBVIOUS
  <2>2. u \in Seq(S)
    BY <2>1, SeqMonotonic
  <2>3. \A i \in 1..Len(u) : u[i] \in {Blank}
    BY ElementOfSeq
  <2> QED
    BY <2>2, <2>3
<1>3. x \in Seq(S) /\ IsJoin(x, u, y)
  BY <1>2, TextsJoined
<1>4. PICK m, n : m = Len(u) /\ n = Len(y)
  OBVIOUS
<1>5. /\ m \in Nat /\ n \in Nat \ {0} /\ q \in 1..n /\ Len(x) = m + n
      /\ \A i \in 1..m : x[i] = u[i]
      /\ \A i \in 1..n : x[m + i] = y[i]
  <2>1. n \in Nat \ {0}
    BY <1>1, <1>4, TextIs
  <2> QED
    BY <1>1, <1>3, <1>4, <2>1 DEF IsJoin
<1>6. IsText(x)
  <2>1. Len(x) # 0
    BY <1>5
  <2> QED
    BY <1>3, <2>1, NotEmpty, IsTextIf
<1>7. m + q \in 1..Len(x) /\ x[m + q] = Separator(name) /\ m + q \in Nat
  BY <1>1, <1>5
<1>8. x[Len(x)] = y[n]
  <2>1. n \in 1..n /\ Len(x) = m + n
    BY <1>5
  <2>2. x[m + n] = y[n]
    BY <1>5, <2>1
  <2> QED
    BY <2>1, <2>2
<1>9. ~IsSeparator(Blank)
  BY DEF IsSeparator, Blank
<1>10. ASSUME NEW i \in 1..Len(x), i # m + q
       PROVE  ~IsSeparator(x[i])
  <2>1. CASE i <= m
    <3>1. i \in 1..m
      BY <1>5, <2>1
    <3> QED
      BY <1>2, <1>4, <1>5, <1>9, <3>1
  <2>2. CASE i > m
    <3>1. PICK j \in 1..n : i = m + j
      <4>1. i - m \in 1..n /\ i = m + (i - m)
        BY <1>5, <2>2
      <4> QED
        BY <4>1
    <3>2. x[i] = y[j] /\ j # q
      BY <1>5, <1>10, <3>1
    <3> QED
      BY <1>1, <1>4, <3>2
  <2> QED
    BY <1>5, <2>1, <2>2
<1> QED
  BY <1>3, <1>4, <1>6, <1>7, <1>8, <1>10 DEF OneSeparator

\* A blank line at its end.
LEMMA BlankBehind ==
  ASSUME NEW S, Blank \in S, NEW b \in Seq(S), NEW q, NEW name,
         OneSeparator(b, q, name),
         NEW x, x = IF Last(b) = Blank THEN b ELSE Append(b, Blank)
  PROVE  OneSeparator(x, q, name) /\ x \in Seq(S) /\ x[Len(x)] = Blank
<1>1. IsText(b) /\ q \in 1..Len(b) /\ b[q] = Separator(name)
      /\ \A i \in 1..Len(b) : i # q => ~IsSeparator(b[i])
  BY DEF OneSeparator
<1>2. CASE Last(b) = Blank
  BY <1>2 DEF Last
<1>3. CASE Last(b) # Blank
  <2>1. x = Append(b, Blank)
    BY <1>3
  <2>2. PICK n \in Nat : n = Len(b)
    OBVIOUS
  <2>3. /\ x \in Seq(S) /\ Len(x) = n + 1 /\ x[n + 1] = Blank
        /\ \A i \in 1..n : x[i] = b[i]
    BY <2>1, <2>2, AppendProperties
  <2>4. IsText(x)
    <3>1. Len(x) # 0
      BY <2>2, <2>3
    <3> QED
      BY <2>3, <3>1, NotEmpty, IsTextIf
  <2>5. ~IsSeparator(Blank)
    BY DEF IsSeparator, Blank
  <2>6. q \in 1..Len(x) /\ x[q] = Separator(name)
    BY <1>1, <2>2, <2>3
  <2>7. \A i \in 1..Len(x) : i \in 1..n \/ i = n + 1
    BY <2>2, <2>3
  <2>8. \A i \in 1..Len(x) : i # q => ~IsSeparator(x[i])
    BY <1>1, <2>2, <2>3, <2>5, <2>7
  <2> QED
    BY <2>3, <2>4, <2>6, <2>8 DEF OneSeparator
<1> QED
  BY <1>2, <1>3

\* A section under another name.
LEMMA SectionNamed ==
  ASSUME NEW S, NEW s \in Seq(S), s # <<>>, NEW name, Separator(name) \in S,
         \A j \in 2..Len(s) : ~IsSeparator(s[j]),
         NEW c, c = <<Separator(name)>> \o Tail(s)
  PROVE  OneSeparator(c, 1, name) /\ c \in Seq(S)
<1>1. PICK a, b, l : a = <<l>> /\ b = Tail(s) /\ l = Separator(name)
  OBVIOUS
<1>2. PICK n \in Nat \ {0} : n = Len(s)
  BY EmptySeq
<1>3. a \in Seq(S) /\ Len(a) = 1 /\ a[1] = l
  BY <1>1
<1>4. b \in Seq(S) /\ Len(b) = n - 1 /\ \A i \in 1..n - 1 : b[i] = s[i + 1]
  BY <1>1, <1>2, HeadTailProperties
<1>5. c \in Seq(S) /\ IsJoin(c, a, b)
  BY <1>1, <1>3, <1>4, TextsJoined
<1>6. /\ Len(c) = n /\ \A i \in 1..1 : c[i] = a[i]
      /\ \A i \in 1..n - 1 : c[1 + i] = b[i]
  <2>1. 1 + (n - 1) = n
    BY <1>2
  <2> QED
    BY <1>3, <1>4, <1>5, <2>1 DEF IsJoin
<1>7. IsText(c)
  <2>1. Len(c) # 0
    BY <1>2, <1>6
  <2> QED
    BY <1>5, <2>1, NotEmpty, IsTextIf
<1>8. 1 \in 1..Len(c) /\ c[1] = l
  <2>1. 1 \in 1..1
    OBVIOUS
  <2> QED
    BY <1>2, <1>3, <1>6, <2>1
<1>9. ASSUME NEW i \in 1..Len(c), i # 1
      PROVE  ~IsSeparator(c[i])
  <2>1. PICK j \in Nat : j = i - 1
    BY <1>2, <1>6
  <2>2. j \in 1..n - 1 /\ 1 + j = i /\ j + 1 = i /\ i \in 2..Len(s)
    BY <1>2, <1>6, <1>9, <2>1
  <2>3. c[i] = s[i]
    BY <1>4, <1>6, <2>2
  <2> QED
    BY <2>2, <2>3
<1> QED
  BY <1>1, <1>5, <1>7, <1>8, <1>9 DEF OneSeparator

\* A section holds no separator but its own.
LEMMA SectionOpen ==
  ASSUME NEW t, IsText(t), NEW h \in Separators(t), NEW e,
         e = NextSeparator(t, h), NEW s, s = SectionText(t, h)
  PROVE  \A j \in 2..Len(s) : ~IsSeparator(s[j])
<1>1. h \in 1..Len(t) /\ h \in 0..Len(t) /\ h \in Nat /\ Len(t) \in Nat \ {0}
      /\ Separators(t) \subseteq 1..Len(t)
  BY SeparatorsIn
<1>2. e \in h + 1..Len(t) + 1 /\ \A j \in Separators(t) : j > h => j >= e
  BY <1>1, NextSeparatorIs DEF IsNext
<1>3. h \in 1..Len(t) + 1 /\ e \in h..Len(t) + 1 /\ h <= Len(t) /\ e \in Nat
  BY <1>1, <1>2
<1>4. s \in Seq(Range(t) \cup {Blank}) /\ IsSlice(s, t, h, e)
  BY <1>3, SliceHas DEF SectionText
<1>5. /\ e <= Len(t) => Len(s) = e - h + 1 /\ s[e - h + 1] = Blank
      /\ e = Len(t) + 1 => Len(s) = e - h
      /\ \A i \in 1..e - h : s[i] = t[h + i - 1]
  BY <1>4 DEF IsSlice
<1>6. ~IsSeparator(Blank) /\ DOMAIN t = 1..Len(t)
  BY TextIs DEF IsSeparator, Blank
<1>7. ASSUME NEW j \in 2..Len(s)
      PROVE  ~IsSeparator(s[j])
  <2>1. CASE j \in 1..e - h
    <3>1. PICK i \in Nat : i = h + j - 1
      BY <1>1, <2>1
    <3>2. i > h /\ i < e /\ i \in 1..Len(t)
      BY <1>1, <1>2, <1>3, <1>7, <2>1, <3>1
    <3>3. i \notin Separators(t)
      BY <1>1, <1>2, <1>3, <3>2
    <3>4. ~IsSeparator(t[i])
      BY <1>6, <3>2, <3>3 DEF Separators
    <3>5. s[j] = t[i]
      BY <1>5, <2>1, <3>1
    <3> QED
      BY <3>4, <3>5
  <2>2. CASE j \notin 1..e - h
    <3>1. PICK k, n : k = e - h /\ n = Len(s)
      OBVIOUS
    <3>2. k \in Nat /\ j \in 2..n /\ j \notin 1..k
          /\ (e <= Len(t) => n = k + 1) /\ (e = Len(t) + 1 => n = k)
      BY <1>1, <1>2, <1>5, <1>7, <2>2, <3>1
    <3>3. e # Len(t) + 1
      BY <3>2
    <3>4. e <= Len(t)
      BY <1>1, <1>2, <3>3
    <3>5. j = e - h + 1
      BY <3>1, <3>2, <3>4
    <3> QED
      BY <1>5, <1>6, <3>4, <3>5
  <2> QED
    BY <2>1, <2>2
<1> QED
  BY <1>7

\* What a copy of a section is, and where it goes.
Copies(edit, t, h) ==
  \E e, x, q, c :
    /\ e \in 1..Len(t) + 1 /\ edit = Edit(e, e, x) /\ c = CopyName(t, t[h][2])
    /\ x \in Seq(Range(t) \cup {Blank, Separator(c)})
    /\ OneSeparator(x, q, c) /\ x[Len(x)] = Blank
    /\ e = Len(t) + 1 => t[Len(t)] = Blank \/ q # 1

LEMMA DuplicateParts ==
  ASSUME NEW t, IsText(t), NEW row, NEW edit \in PlanDuplicate(t, row)
  PROVE  \E h \in Separators(t) : Copies(edit, t, h)
<1>1. PICK r \in ToSet(Requests(t)) :
        /\ r.name # Unnamed
        /\ edit = LET head == r.start - 1
                      end == NextSeparator(t, head)
                      copy == <<Separator(CopyName(t, r.name))>>
                                \o Tail(SectionText(t, head))
                      broken == IF end > Len(t) /\ Last(t) # Blank
                                THEN <<Blank>> \o copy ELSE copy
                  IN  Edit(end, end, IF Last(broken) = Blank THEN broken
                                     ELSE Append(broken, Blank))
  BY DEF PlanDuplicate, Unchanged, RequestsOn
<1>2. PICK h, e : h = r.start - 1 /\ e = NextSeparator(t, h)
  OBVIOUS
<1>3. h \in Separators(t) /\ r.name = t[h][2]
  <2>1. h \in Separators(t)
    BY <1>1, <1>2, NamedRequest
  <2>2. PICK head \in Heads(t) : r = RequestOf(t, head)
    BY RequestsAre
  <2>3. head \in Nat
    BY RequestsAre
  <2>4. r.name = (IF head = 0 THEN Unnamed ELSE t[head][2]) /\ r.start = head + 1
    BY <2>2 DEF RequestOf
  <2>5. h = head
    BY <1>2, <2>3, <2>4
  <2> QED
    BY <1>1, <2>1, <2>4, <2>5
<1>4. h \in 0..Len(t) /\ h # 0
  BY <1>3, SeparatorsIn
<1>5. e \in Nat \ {0} /\ e <= Len(t) + 1 /\ SectionText(t, h) # <<>>
      /\ SectionText(t, h) \in Seq(Range(t) \cup {Blank})
  BY <1>2, <1>4, SectionPlaces
<1>6. PICK n, l : n = CopyName(t, t[h][2]) /\ l = Separator(n)
  OBVIOUS
<1>7. PICK S : S = Range(t) \cup {Blank, l}
  OBVIOUS
<1>8. PICK s : s = SectionText(t, h)
  OBVIOUS
<1>9. s \in Seq(S) /\ s # <<>> /\ l \in S /\ Blank \in S
  <2>1. Range(t) \cup {Blank} \subseteq S
    BY <1>7
  <2>2. s \in Seq(S)
    BY <1>5, <1>8, <2>1, SeqMonotonic
  <2> QED
    BY <1>5, <1>7, <1>8, <2>2
<1>10. \A j \in 2..Len(s) : ~IsSeparator(s[j])
  BY <1>2, <1>3, <1>8, SectionOpen
<1>11. PICK c : c = <<l>> \o Tail(s)
  OBVIOUS
<1>12. OneSeparator(c, 1, n) /\ c \in Seq(S)
  BY <1>6, <1>9, <1>10, <1>11, SectionNamed
<1>13. PICK b, q : /\ b = IF e > Len(t) /\ Last(t) # Blank THEN <<Blank>> \o c ELSE c
                   /\ q = IF e > Len(t) /\ Last(t) # Blank THEN 2 ELSE 1
  OBVIOUS
<1>14. OneSeparator(b, q, n) /\ b \in Seq(S)
  <2>1. CASE e > Len(t) /\ Last(t) # Blank
    <3>1. PICK u : u = <<Blank>>
      OBVIOUS
    <3>2. u \in Seq({Blank}) /\ Len(u) = 1
      BY <3>1
    <3>3. b = u \o c /\ q = 2
      BY <1>13, <2>1, <3>1
    <3>4. OneSeparator(b, Len(u) + 1, n) /\ b \in Seq(S)
      BY <1>9, <1>12, <3>2, <3>3, BlanksBefore
    <3>5. Len(u) + 1 = q
      BY <3>2, <3>3
    <3> QED
      BY <3>4, <3>5
  <2>2. CASE ~(e > Len(t) /\ Last(t) # Blank)
    BY <1>12, <1>13, <2>2
  <2> QED
    BY <2>1, <2>2
<1>15. PICK x : x = IF Last(b) = Blank THEN b ELSE Append(b, Blank)
  OBVIOUS
<1>16. OneSeparator(x, q, n) /\ x \in Seq(S) /\ x[Len(x)] = Blank
  BY <1>9, <1>14, <1>15, BlankBehind
<1>17. edit = Edit(e, e, x)
  BY <1>1, <1>2, <1>3, <1>6, <1>8, <1>11, <1>13, <1>15
<1>18. e \in 1..Len(t) + 1 /\ (e = Len(t) + 1 => t[Len(t)] = Blank \/ q # 1)
  <2>1. Len(t) \in Nat
    BY TextIs
  <2>2. e \in 1..Len(t) + 1
    BY <1>5, <2>1
  <2>3. e = Len(t) + 1 => e > Len(t)
    BY <2>1
  <2> QED
    BY <1>13, <2>2, <2>3 DEF Last
<1> QED
  BY <1>3, <1>6, <1>7, <1>16, <1>17, <1>18 DEF Copies

\* What a new section is.
Adds(edit, t) ==
  \E x, q, c :
    /\ edit = Edit(Len(t) + 1, Len(t) + 1, x) /\ NewName(c, t)
    /\ x \in Seq({Blank, Separator(c), Target("GET", "baseUrl")})
    /\ OneSeparator(x, q, c)
    /\ t[Len(t)] = Blank \/ q # 1

LEMMA AppendParts ==
  ASSUME NEW t, IsText(t), NEW edit \in PlanAppend(t)
  PROVE  Adds(edit, t)
<1>1. PICK n : n = <<"New Request">> /\ IsName(n)
  BY OneWord
<1>2. PICK N : N = {t[i][2] : i \in Separators(t)}
  OBVIOUS
<1>3. PICK c : c = Numbered(n, Min({k \in 1..Len(t) + 1 : ~(Numbered(n, k) \in N)}))
  OBVIOUS
<1>4. PICK u : u = CASE t = Empty -> <<>>
                     [] t # Empty /\ Last(t) = Blank -> <<Blank>>
                     [] Last(t) # Blank -> <<Blank, Blank>>
  OBVIOUS
<1>5. PICK l, m : l = Separator(c) /\ m = Target("GET", "baseUrl")
  OBVIOUS
<1>6. PICK y, x : y = <<l, m, Blank>> /\ x = u \o y
  OBVIOUS
<1>7. edit = Edit(Len(t) + 1, Len(t) + 1, x) /\ NewName(c, t)
  <2>1. edit = Edit(Len(t) + 1, Len(t) + 1, x)
    BY <1>1, <1>2, <1>3, <1>4, <1>5, <1>6 DEF PlanAppend, FreeName
  <2>2. NewName(c, t)
    BY <1>1, <1>2, <1>3 DEF NewName
  <2> QED
    BY <2>1, <2>2
<1>8. u \in Seq({Blank}) /\ Len(u) \in Nat /\ (Last(t) # Blank => Len(u) # 0)
  <2>1. Empty = <<Blank>> /\ Last(Empty) = Blank
    BY DEF Empty, Last
  <2>2. \/ u = <<>> /\ Last(t) = Blank
        \/ u = <<Blank>>
        \/ u = <<Blank, Blank>>
    BY <1>4, <2>1
  <2>3. /\ <<>> \in Seq({Blank}) /\ Len(<<>>) = 0
        /\ <<Blank>> \in Seq({Blank}) /\ Len(<<Blank>>) = 1
        /\ <<Blank, Blank>> \in Seq({Blank}) /\ Len(<<Blank, Blank>>) = 2
    OBVIOUS
  <2>4. CASE u = <<>> /\ Last(t) = Blank
    BY <2>3, <2>4
  <2>5. CASE u = <<Blank>>
    BY <2>3, <2>5
  <2>6. CASE u = <<Blank, Blank>>
    BY <2>3, <2>6
  <2> QED
    BY <2>2, <2>4, <2>5, <2>6
<1>9. PICK S : S = {Blank, l, m}
  OBVIOUS
<1>10. y \in Seq(S) /\ Len(y) = 3 /\ y[1] = l /\ y[2] = m /\ y[3] = Blank
  BY <1>6, <1>9
<1>11. OneSeparator(y, 1, c)
  <2>1. IsText(y)
    <3>1. Len(y) # 0
      BY <1>10
    <3> QED
      BY <1>10, <3>1, NotEmpty, IsTextIf
  <2>2. ~IsSeparator(m) /\ ~IsSeparator(Blank)
    BY <1>5 DEF IsSeparator, Target, Blank
  <2>3. 1 \in 1..Len(y) /\ \A i \in 1..Len(y) : i = 1 \/ i = 2 \/ i = 3
    BY <1>10
  <2>4. \A i \in 1..Len(y) : i # 1 => ~IsSeparator(y[i])
    BY <1>10, <2>2, <2>3
  <2> QED
    BY <1>5, <1>10, <2>1, <2>3, <2>4 DEF OneSeparator
<1>12. PICK q : q = Len(u) + 1
  OBVIOUS
<1>13. OneSeparator(x, q, c) /\ x \in Seq(S)
  <2>1. Blank \in S
    BY <1>9
  <2> QED
    BY <1>6, <1>8, <1>10, <1>11, <1>12, <2>1, BlanksBefore
<1>14. t[Len(t)] = Blank \/ q # 1
  BY <1>8, <1>12 DEF Last
<1> QED
  BY <1>5, <1>7, <1>9, <1>13, <1>14 DEF Adds

----------------------------------------------------------------------------
(* The plans of the other commands.                                        *)

LEMMA DuplicateFits ==
  ASSUME NEW t, IsText(t), NEW row, NEW edit \in PlanDuplicate(t, row)
  PROVE  Fits(edit, t) /\ IsText(Edited(t, edit))
<1>1. PICK h \in Separators(t) : Copies(edit, t, h)
  BY DuplicateParts
<1>2. PICK e, x, q, c :
        /\ e \in 1..Len(t) + 1
        /\ edit = Edit(e, e, x) /\ OneSeparator(x, q, c)
  BY <1>1 DEF Copies
<1>3. IsText(x)
  BY <1>2 DEF OneSeparator
<1>4. e \in Nat \ {0} /\ e <= e /\ e <= Len(t) + 1
  BY <1>2, TextIs
<1>5. Fits(Edit(e, e, x), t)
  BY <1>3, <1>4, FitsIf
<1> QED
  BY <1>2, <1>5, EditedFits

\* What a new name is, and where it goes.
Renames(edit, t, name) ==
  /\ edit.text \in Seq({Separator(name), Blank})
  /\ \E h \in Separators(t) :
       /\ edit = Edit(h, h + 1, <<Separator(name), Blank>>)
       /\ \A i \in Separators(t) \ {h} : Fold(t[i][2]) # Fold(name)

LEMMA RenameFits ==
  ASSUME NEW t, IsText(t), NEW row, NEW name, NEW edit \in PlanRename(t, row, name)
  PROVE  /\ Fits(edit, t) /\ IsText(Edited(t, edit)) /\ Renames(edit, t, name)
<1>1. PICK r \in ToSet(Requests(t)) :
        /\ r.name # Unnamed
        /\ edit = Edit(r.start - 1, r.start, <<Separator(name), Blank>>)
        /\ \A i \in Separators(t) \ {r.start - 1} : Fold(t[i][2]) # Fold(name)
  BY DEF PlanRename, RequestsOn
<1>2. PICK head \in Heads(t) : r = RequestOf(t, head)
  BY RequestsAre
<1>3. head \in 0..Len(t) /\ head \in Nat /\ Len(t) \in Nat
  BY RequestsAre
<1>4. r.start = head + 1
  BY <1>2 DEF RequestOf
<1>5. head \in Separators(t)
  <2>1. r.start - 1 \in Separators(t)
    BY <1>1, NamedRequest
  <2> QED
    BY <1>3, <1>4, <2>1
<1>6. head \in Nat \ {0} /\ head + 1 \in Nat /\ head <= head + 1
      /\ head + 1 <= Len(t) + 1 /\ r.start - 1 = head
  BY <1>3, <1>4, <1>5, SeparatorsIn
<1>7. PICK x : x = <<Separator(name), Blank>>
  OBVIOUS
<1>8. IsText(x)
  <2>1. x \in Seq({Separator(name), Blank}) /\ x # <<>>
    BY <1>7
  <2> QED
    BY <2>1, IsTextIf
<1>9. Fits(Edit(head, head + 1, x), t)
  BY <1>6, <1>8, FitsIf
<1>10. edit = Edit(head, head + 1, x)
  BY <1>1, <1>4, <1>6, <1>7
<1>11. Renames(edit, t, name)
  <2>1. x \in Seq({Separator(name), Blank}) /\ edit.text = x
    BY <1>7, <1>10 DEF Edit
  <2>2. \A i \in Separators(t) \ {head} : Fold(t[i][2]) # Fold(name)
    BY <1>1, <1>6
  <2> QED
    BY <1>5, <1>7, <1>10, <2>1, <2>2 DEF Renames
<1> QED
  BY <1>9, <1>10, <1>11, EditedFits

LEMMA AppendFits ==
  ASSUME NEW t, IsText(t), NEW edit \in PlanAppend(t)
  PROVE  Fits(edit, t) /\ IsText(Edited(t, edit))
<1>1. PICK x, q, c :
        edit = Edit(Len(t) + 1, Len(t) + 1, x) /\ OneSeparator(x, q, c)
  BY AppendParts DEF Adds
<1>2. IsText(x)
  BY <1>1 DEF OneSeparator
<1>3. PICK e : e = Len(t) + 1
  OBVIOUS
<1>4. e \in Nat \ {0} /\ e <= e /\ e <= Len(t) + 1
  BY <1>3, TextIs
<1>5. Fits(Edit(e, e, x), t)
  BY <1>2, <1>4, FitsIf
<1> QED
  BY <1>1, <1>3, <1>5, EditedFits

\* The line of a request is within its section.
LEMMA RequestLineIs ==
  ASSUME NEW t, IsText(t), NEW head \in Heads(t), HasRequest(t, head),
         NEW l, l = RequestLine(t, head)
  PROVE  l \in head + 1..Len(t) /\ head \in 0..Len(t) /\ Len(t) \in Nat
<1>1. head \in 0..Len(t) /\ Len(t) \in Nat
  BY RequestsAre
<1>2. PICK e : e = NextSeparator(t, head)
  OBVIOUS
<1>3. head \in Nat /\ e \in Nat \ {0} /\ head < e /\ e <= Len(t) + 1
  BY <1>1, <1>2, SectionPlaces
<1>4. l < e
  BY <1>2 DEF HasRequest
<1>5. PICK J : J = {e} \cup {i \in head + 1..e - 1 :
                              t[i] # Blank /\ ~IsComment(t[i])}
  OBVIOUS
<1>6. l = Min(J)
  BY <1>2, <1>5 DEF RequestLine, FirstFrom
<1>7. J \subseteq Nat /\ J # {}
  BY <1>3, <1>5
<1>8. l \in J
  BY <1>6, <1>7, MinOf
<1>9. l \in head + 1..e - 1
  BY <1>3, <1>4, <1>5, <1>8
<1> QED
  BY <1>1, <1>3, <1>9

\* Lines that are picked are lines of the text.
LEMMA PickedIs ==
  ASSUME NEW t, IsText(t), NEW E \in SUBSET (1..Len(t))
  PROVE  Picked(t, E) \in Seq(Range(t))
<1>1. Len(t) \in Nat /\ \A i \in 1..Len(t) : t[i] \in Range(t)
  BY TextIs
<1>2. E \in SUBSET Int /\ IsFiniteSet(E)
  <2>1. IsFiniteSet(1..Len(t))
    BY <1>1, FS_Interval
  <2>2. IsFiniteSet(E)
    BY <2>1, FS_Subset
  <2>3. 1..Len(t) \subseteq Int
    BY <1>1
  <2> QED
    BY <2>2, <2>3
<1>3. PICK at, n : at = InOrder(E) /\ n = Cardinality(E)
  OBVIOUS
<1>4. Ascends(E, at, n)
  BY <1>2, <1>3, InOrderAscends
<1>5. n \in Nat /\ DOMAIN at = 1..n /\ \A k \in 1..n : at[k] \in E
  BY <1>4 DEF Ascends
<1>6. Picked(t, E) = [k \in 1..n |-> t[at[k]]]
  BY <1>3, <1>5 DEF Picked
<1>7. \A k \in 1..n : t[at[k]] \in Range(t)
  BY <1>1, <1>5
<1>8. [k \in 1..n |-> t[at[k]]] \in Seq(Range(t))
  BY <1>5, <1>7, IsASeq
<1> QED
  BY <1>6, <1>8

LEMMA FavoriteFits ==
  ASSUME NEW t, IsText(t), NEW row, NEW edit \in PlanFavorite(t, row)
  PROVE  /\ Fits(edit, t) /\ IsText(Edited(t, edit))
         /\ edit.text \in Seq(Range(t) \cup {Blank, Favorite("true")})
<1>0. PICK r \in ToSet(Requests(t)) :
        edit = LET P == {i \in r.start..r.line - 1 : IsFavorite(t[i])}
                   from == IF P = {} THEN r.line ELSE Min(P)
                   to == IF P = {} THEN r.line ELSE Max(P) + 1
                   kept == Picked(t, {i \in from..to - 1 : ~IsFavorite(t[i])})
               IN  Edit(from, to, kept \o (IF r.favorite = "true" THEN <<>>
                                           ELSE <<Favorite("true")>>) \o Empty)
  BY DEF PlanFavorite, RequestsOn, FirstFrom
<1>1. PICK P, from, to, x :
        /\ P = {i \in r.start..r.line - 1 : IsFavorite(t[i])}
        /\ from = IF P = {} THEN r.line ELSE Min(P)
        /\ to = IF P = {} THEN r.line ELSE Max(P) + 1
        /\ x \in {<<>>, <<Favorite("true")>>}
        /\ edit = Edit(from, to,
                    Picked(t, {i \in from..to - 1 : ~IsFavorite(t[i])})
                      \o x \o Empty)
  <2>1. PICK P : P = {i \in r.start..r.line - 1 : IsFavorite(t[i])}
    OBVIOUS
  <2>2. PICK from, to : /\ from = IF P = {} THEN r.line ELSE Min(P)
                        /\ to = IF P = {} THEN r.line ELSE Max(P) + 1
    OBVIOUS
  <2>3. PICK x : x = IF r.favorite = "true" THEN <<>> ELSE <<Favorite("true")>>
    OBVIOUS
  <2>4. edit = Edit(from, to,
                 Picked(t, {i \in from..to - 1 : ~IsFavorite(t[i])})
                   \o x \o Empty)
    BY <1>0, <2>1, <2>2, <2>3
  <2>5. x \in {<<>>, <<Favorite("true")>>}
    BY <2>3
  <2> QED
    BY <2>1, <2>2, <2>4, <2>5
<1>2. PICK head \in Heads(t) : HasRequest(t, head) /\ r = RequestOf(t, head)
  BY RequestsAre
<1>3. PICK l : l = RequestLine(t, head)
  OBVIOUS
<1>4. r.line = l /\ r.start = head + 1
  BY <1>2, <1>3 DEF RequestOf
<1>5. l \in head + 1..Len(t) /\ head \in 0..Len(t) /\ Len(t) \in Nat
  BY <1>2, <1>3, RequestLineIs
<1>6. l \in Nat \ {0} /\ head \in Nat /\ head + 1 <= l /\ l <= Len(t)
  BY <1>5
<1>7. P \subseteq head + 1..l - 1
  BY <1>1, <1>4
<1>8. /\ from \in Nat \ {0} /\ to \in Nat /\ from <= to /\ to <= l
  <2>1. CASE P = {}
    BY <1>1, <1>4, <1>6, <2>1
  <2>2. CASE P # {}
    <3>1. P \subseteq Nat /\ P \in SUBSET (0..l)
      BY <1>6, <1>7
    <3>2. PICK a, b : a = Min(P) /\ b = Max(P)
      OBVIOUS
    <3>3. a \in P /\ \A j \in P : a <= j
      BY <2>2, <3>1, <3>2, MinOf
    <3>4. b \in P
      BY <1>6, <2>2, <3>1, <3>2, MaxOf
    <3>5. a \in head + 1..l - 1 /\ b \in head + 1..l - 1 /\ a <= b
      BY <1>7, <3>3, <3>4
    <3>6. from = a /\ to = b + 1
      BY <1>1, <2>2, <3>2
    <3> QED
      BY <1>6, <3>5, <3>6
  <2> QED
    BY <2>1, <2>2
<1>9. PICK E : E = {i \in from..to - 1 : ~IsFavorite(t[i])}
  OBVIOUS
<1>10. E \in SUBSET (1..Len(t))
  <2>1. from..to - 1 \subseteq 1..Len(t)
    BY <1>5, <1>6, <1>8
  <2> QED
    BY <1>9, <2>1
<1>11. PICK k, S : /\ k = Picked(t, E)
                   /\ S = Range(t) \cup {Blank, Favorite("true")}
  OBVIOUS
<1>12. k \in Seq(S)
  <2>1. Range(t) \subseteq S
    BY <1>11
  <2>2. k \in Seq(Range(t))
    BY <1>10, <1>11, PickedIs
  <2> QED
    BY <2>1, <2>2, SeqMonotonic
<1>13. x \in Seq(S) /\ Empty \in Seq(S) /\ Len(Empty) = 1
  <2>1. Blank \in S /\ Favorite("true") \in S
    BY <1>11
  <2>2. <<>> \in Seq(S) /\ <<Favorite("true")>> \in Seq(S)
        /\ <<Blank>> \in Seq(S) /\ Len(<<Blank>>) = 1
    BY <2>1
  <2> QED
    BY <1>1, <2>2 DEF Empty
<1>14. PICK y, z, w : y = k \o x /\ w = Empty /\ z = y \o w
  OBVIOUS
<1>15. y \in Seq(S) /\ IsJoin(y, k, x)
  BY <1>12, <1>13, <1>14, TextsJoined
<1>16. z \in Seq(S) /\ IsJoin(z, y, w)
  BY <1>13, <1>14, <1>15, TextsJoined
<1>17. Len(z) # 0
  BY <1>13, <1>14, <1>16 DEF IsJoin
<1>18. IsText(z)
  BY <1>16, <1>17, NotEmpty, IsTextIf
<1>19. edit = Edit(from, to, z)
  BY <1>1, <1>9, <1>11, <1>14
<1>20. to <= Len(t) + 1
  BY <1>5, <1>6, <1>8
<1>21. Fits(Edit(from, to, z), t)
  BY <1>8, <1>18, <1>20, FitsIf
<1>22. edit.text \in Seq(S)
  <2>1. edit.text = z
    BY <1>19 DEF Edit
  <2> QED
    BY <1>16, <2>1
<1> QED
  BY <1>11, <1>19, <1>21, <1>22, EditedFits

----------------------------------------------------------------------------
(* The invariant.                                                          *)

Kinds == {"up", "down", "duplicate", "delete", "rename", "favorite", "add"}
Fields == {"state", "kind", "row", "name", "edit", "current"}

\* A command that has planned nothing yet.
Waits(command) ==
  \/ command = Idle
  \/ command.state = "asked" /\ command.kind \in Kinds

\* One that has: an edit that is not outdated would be planned now, too.
Pending(command) ==
  /\ DOMAIN command = Fields /\ command.state = "applying"
  /\ command.kind \in Kinds /\ command.current \in BOOLEAN
  /\ command.current => command.edit \in Plan(command)

EditsInv ==
  /\ IsText(doc) /\ IsText(shown)
  /\ DOMAIN commands = Commands
  /\ \A c \in Commands : Waits(commands[c]) \/ Pending(commands[c])
  /\ starts \in 0..MaxStarts /\ changes \in 0..MaxChanges

\* Every plan is one edit within the document, that leaves a text.
LEMMA PlanFits ==
  ASSUME IsText(doc), NEW command, command.kind \in Kinds,
         NEW edit \in Plan(command)
  PROVE  Fits(edit, doc) /\ IsText(Edited(doc, edit))
<1>1. PICK kind, row, name : /\ kind = command.kind /\ row = command.row
                             /\ name = command.name
  OBVIOUS
<1>4. CASE kind \in {"up", "down"}
  <2>1. edit \in PlanMove(doc, row, kind)
    BY <1>1, <1>4 DEF Plan
  <2> QED
    BY <1>4, <2>1, MoveFits
<1>5. CASE kind = "duplicate"
  <2>1. edit \in PlanDuplicate(doc, row)
    BY <1>1, <1>5 DEF Plan
  <2> QED
    BY <2>1, DuplicateFits
<1>6. CASE kind = "delete"
  <2>1. edit \in PlanDelete(doc, row)
    BY <1>1, <1>6 DEF Plan
  <2> QED
    BY <2>1, DeleteFits
<1>7. CASE kind = "rename"
  <2>1. edit \in PlanRename(doc, row, name)
    BY <1>1, <1>7 DEF Plan
  <2> QED
    BY <2>1, RenameFits
<1>8. CASE kind = "favorite"
  <2>1. edit \in PlanFavorite(doc, row)
    BY <1>1, <1>8 DEF Plan
  <2> QED
    BY <2>1, FavoriteFits
<1>9. CASE kind = "add"
  <2>1. edit \in PlanAppend(doc)
    BY <1>1, <1>9 DEF Plan
  <2> QED
    BY <2>1, AppendFits
<1> QED
  BY <1>1, <1>4, <1>5, <1>6, <1>7, <1>8, <1>9 DEF Kinds

\* A command is in one state only.
LEMMA OneState ==
  ASSUME NEW command
  PROVE  /\ Waits(command) => command.state \in {"idle", "asked"}
         /\ Pending(command) => command.state = "applying"
  BY DEF Waits, Pending, Idle

\* A command whose edit is outdated by a change.
LEMMA OutdatedFits ==
  ASSUME EditsInv, NEW but, NEW c \in Commands, NEW x, x = Outdated(but)[c]
  PROVE  /\ Waits(x) \/ (Pending(x) /\ ~x.current)
         /\ commands[c].state = "applying" /\ c \notin but =>
              x.state = "applying"
<1>1. PICK y : y = commands[c]
  OBVIOUS
<1>2. Waits(y) \/ Pending(y)
  BY <1>1 DEF EditsInv
<1>3. x = IF c \in but THEN Idle
          ELSE IF y.state = "applying" THEN [y EXCEPT !.current = FALSE] ELSE y
  BY <1>1 DEF Outdated
<1>4. CASE c \in but
  BY <1>1, <1>3, <1>4 DEF Waits
<1>5. CASE c \notin but /\ y.state # "applying"
  BY <1>1, <1>2, <1>3, <1>5, OneState
<1>6. CASE c \notin but /\ y.state = "applying"
  <2>1. Pending(y)
    BY <1>2, <1>6, OneState
  <2>2. x = [y EXCEPT !.current = FALSE] /\ DOMAIN y = Fields
        /\ y.kind \in Kinds
    BY <1>3, <1>6, <2>1 DEF Pending
  <2>3. DOMAIN x = Fields /\ x.state = "applying" /\ x.kind \in Kinds
        /\ x.current = FALSE
    BY <1>6, <2>2 DEF Fields
  <2>4. Pending(x) /\ ~x.current
    BY <2>3 DEF Pending
  <2> QED
    BY <2>3, <2>4
<1> QED
  BY <1>4, <1>5, <1>6

LEMMA OutdatedKeeps ==
  ASSUME EditsInv, NEW but, commands' = Outdated(but)
  PROVE  /\ DOMAIN commands' = Commands
         /\ \A c \in Commands : Waits(commands[c])' \/ Pending(commands[c])'
<1>1. DOMAIN commands' = Commands
  BY DEF Outdated
<1>2. ASSUME NEW c \in Commands
      PROVE  Waits(commands[c])' \/ Pending(commands[c])'
  <2>1. PICK x : x = Outdated(but)[c]
    OBVIOUS
  <2>2. x = commands'[c]
    BY <2>1
  <2>3. Waits(x) \/ (Pending(x) /\ ~x.current)
    BY <2>1, OutdatedFits
  <2>4. CASE Waits(x)
    BY <2>2, <2>4 DEF Waits
  <2>5. CASE Pending(x) /\ ~x.current
    BY <2>2, <2>5 DEF Pending
  <2> QED
    BY <2>3, <2>4, <2>5
<1> QED
  BY <1>1, <1>2

\* One command takes a step, and the document stays as it is.
LEMMA OthersKeep ==
  ASSUME EditsInv, NEW c \in Commands, NEW x,
         commands' = [commands EXCEPT ![c] = x], doc' = doc,
         Waits(x) \/ Pending(x)
  PROVE  /\ DOMAIN commands' = Commands
         /\ \A o \in Commands : Waits(commands[o])' \/ Pending(commands[o])'
<1>1. DOMAIN commands = Commands
  BY DEF EditsInv
<1>2. DOMAIN commands' = Commands
  BY <1>1
<1>3. ASSUME NEW o \in Commands
      PROVE  Waits(commands[o])' \/ Pending(commands[o])'
  <2>1. PICK y : y = commands'[o]
    OBVIOUS
  <2>2. Waits(y) \/ Pending(y)
    <3>1. CASE o = c
      BY <1>1, <2>1, <3>1
    <3>2. CASE o # c
      <4>1. y = commands[o]
        BY <1>1, <2>1, <3>2
      <4> QED
        BY <4>1 DEF EditsInv
    <3> QED
      BY <3>1, <3>2
  <2>3. CASE Waits(y)
    BY <2>1, <2>3 DEF Waits
  <2>4. CASE Pending(y)
    BY <2>1, <2>4 DEF Pending, Plan
  <2> QED
    BY <2>2, <2>3, <2>4
<1> QED
  BY <1>2, <1>3

\* Whatever a command is started for, it waits first.
LEMMA StartersWait ==
  ASSUME NEW x \in Starters
  PROVE  Waits(x)
<1>1. \A kind \in Kinds : \A row, name : Waits(Asked(kind, row, name))
  BY DEF Asked, Waits
<1>2. CASE x \in {Asked(kind, row, Unnamed) :
                    kind \in {"up", "down", "duplicate", "delete"}, row \in NamedRows}
  <2>1. PICK kind \in {"up", "down", "duplicate", "delete"}, row \in NamedRows :
          x = Asked(kind, row, Unnamed)
    BY <1>2
  <2>2. kind \in Kinds
    BY <2>1 DEF Kinds
  <2> QED
    BY <1>1, <2>1, <2>2
<1>3. CASE x \in {Asked("rename", choice[1], choice[2]) :
                    choice \in {choice \in NamedRows \X Names :
                                  choice[2] # choice[1].request.name}}
  <2>1. PICK choice : x = Asked("rename", choice[1], choice[2])
    BY <1>3
  <2>2. "rename" \in Kinds
    BY DEF Kinds
  <2> QED
    BY <1>1, <2>1, <2>2
<1>4. CASE x \in {Asked("favorite", row, Unnamed) : row \in Rows(shown)}
  <2>1. PICK row : x = Asked("favorite", row, Unnamed)
    BY <1>4
  <2>2. "favorite" \in Kinds
    BY DEF Kinds
  <2> QED
    BY <1>1, <2>1, <2>2
<1>5. CASE x = Asked("add", [of |-> "file"], Unnamed)
  <2>1. "add" \in Kinds
    BY DEF Kinds
  <2> QED
    BY <1>1, <1>5, <2>1
<1> QED
  BY <1>2, <1>3, <1>4, <1>5 DEF Starters

LEMMA EditsInitiates ==
  ASSUME EditsAssumption, EditsInit
  PROVE  EditsInv
<1>1. IsText(doc) /\ IsText(shown)
  BY DEF EditsAssumption, EditsInit
<1>2. DOMAIN commands = Commands /\ \A c \in Commands : commands[c] = Idle
  BY DEF EditsInit
<1>3. starts \in 0..MaxStarts /\ changes \in 0..MaxChanges
  BY DEF EditsAssumption, EditsInit
<1> QED
  BY <1>1, <1>2, <1>3 DEF EditsInv, Waits

LEMMA EditsStep ==
  ASSUME EditsAssumption, EditsInv, [EditsNext]_editsVars
  PROVE  EditsInv'
<1>1. /\ IsText(doc) /\ IsText(shown) /\ DOMAIN commands = Commands
      /\ \A c \in Commands : Waits(commands[c]) \/ Pending(commands[c])
      /\ starts \in 0..MaxStarts /\ changes \in 0..MaxChanges
      /\ MaxStarts \in Nat /\ MaxChanges \in Nat
  BY DEF EditsInv, EditsAssumption
<1>2. CASE FileChanges
  <2>1. commands' = Outdated({}) /\ doc' \in Contents /\ shown' = shown
        /\ starts' = starts /\ changes' = changes + 1 /\ changes < MaxChanges
    BY <1>2 DEF FileChanges
  <2>2. IsText(doc') /\ IsText(shown')
    BY <1>1, <2>1 DEF EditsAssumption
  <2>3. starts' \in 0..MaxStarts /\ changes' \in 0..MaxChanges
    BY <1>1, <2>1
  <2> QED
    BY <2>1, <2>2, <2>3, OutdatedKeeps DEF EditsInv
<1>3. CASE Lists
  BY <1>1, <1>3 DEF Lists, EditsInv, Waits, Pending, Plan
<1>4. CASE NothingLeft \/ UNCHANGED editsVars
  BY <1>1, <1>4 DEF NothingLeft, editsVars, EditsInv, Waits, Pending, Plan
<1>5. ASSUME NEW c \in Commands, Starts(c) PROVE EditsInv'
  <2>1. PICK x : commands' = [commands EXCEPT ![c] = x] /\ Waits(x)
    <3>1. PICK x \in Starters : commands' = [commands EXCEPT ![c] = x]
      BY <1>5 DEF Starts
    <3>2. Waits(x)
      BY <3>1, StartersWait
    <3> QED
      BY <3>1, <3>2
  <2>2. doc' = doc /\ shown' = shown /\ changes' = changes
        /\ starts' = starts + 1 /\ starts < MaxStarts
    BY <1>5 DEF Starts
  <2>3. starts' \in 0..MaxStarts /\ changes' \in 0..MaxChanges
    BY <1>1, <2>2
  <2> QED
    BY <1>1, <2>1, <2>2, <2>3, OthersKeep DEF EditsInv
<1>6. ASSUME NEW c \in Commands, Abandons(c) \/ Refuses(c) PROVE EditsInv'
  <2>1. /\ commands' = [commands EXCEPT ![c] = Idle] /\ doc' = doc
        /\ shown' = shown /\ starts' = starts /\ changes' = changes
    BY <1>6 DEF Abandons, Refuses
  <2>2. Waits(Idle)
    BY DEF Waits
  <2> QED
    BY <1>1, <2>1, <2>2, OthersKeep DEF EditsInv
<1>7. ASSUME NEW c \in Commands, Plans(c) PROVE EditsInv'
  <2>1. /\ commands[c].state = "asked" /\ doc' = doc
        /\ shown' = shown /\ starts' = starts /\ changes' = changes
    BY <1>7 DEF Plans
  <2>2. PICK x : /\ commands' = [commands EXCEPT ![c] = x]
                 /\ \/ x = Idle
                    \/ \E edit \in Plan(commands[c]) :
                         x = Applying(commands[c], edit)
    BY <1>7 DEF Plans
  <2>3. Waits(x) \/ Pending(x)
    <3>1. CASE x = Idle
      BY <3>1 DEF Waits
    <3>2. CASE \E edit \in Plan(commands[c]) : x = Applying(commands[c], edit)
      <4>1. PICK edit \in Plan(commands[c]) : x = Applying(commands[c], edit)
        BY <3>2
      <4>2. /\ DOMAIN x = Fields /\ x.state = "applying" /\ x.current = TRUE
            /\ x.kind = commands[c].kind /\ x.row = commands[c].row
            /\ x.name = commands[c].name /\ x.edit = edit
        BY <4>1 DEF Applying, Fields
      <4>3. commands[c].kind \in Kinds
        <5>1. Waits(commands[c])
          BY <1>1, <2>1, OneState
        <5>2. commands[c] # Idle
          BY <2>1 DEF Idle
        <5> QED
          BY <5>1, <5>2 DEF Waits
      <4>4. Plan(x) = Plan(commands[c])
        BY <4>2 DEF Plan
      <4> QED
        BY <4>1, <4>2, <4>3, <4>4 DEF Pending
    <3> QED
      BY <2>2, <3>1, <3>2
  <2> QED
    BY <1>1, <2>1, <2>2, <2>3, OthersKeep DEF EditsInv
<1>8. ASSUME NEW c \in Commands, Applies(c) PROVE EditsInv'
  <2>1. /\ commands[c].state = "applying" /\ commands[c].current
        /\ doc' = Edited(doc, commands[c].edit) /\ commands' = Outdated({c})
        /\ shown' = shown /\ starts' = starts /\ changes' = changes
    BY <1>8 DEF Applies
  <2>2. Pending(commands[c])
    BY <1>1, <2>1, OneState
  <2>3. commands[c].kind \in Kinds /\ commands[c].edit \in Plan(commands[c])
    BY <2>1, <2>2 DEF Pending
  <2>4. IsText(doc')
    BY <1>1, <2>1, <2>3, PlanFits
  <2>5. IsText(shown')
    BY <1>1, <2>1
  <2> QED
    BY <1>1, <2>1, <2>4, <2>5, OutdatedKeeps DEF EditsInv
<1> QED
  BY <1>2, <1>3, <1>4, <1>5, <1>6, <1>7, <1>8 DEF EditsNext

\* Every edit that a command hands over lies within the document it was
\* planned against (planMoveRequest and its kind), and no command leaves a
\* document without a line, whatever happens while it is pending.
THEOREM EditsTyped ==
  ASSUME EditsAssumption
  PROVE  EditsSpec => []EditsTypeOK
<1>1. EditsInit => EditsInv
  BY EditsInitiates
<1>2. EditsInv /\ [EditsNext]_editsVars => EditsInv'
  BY EditsStep
<1>3. EditsInv => EditsTypeOK
  <2> SUFFICES ASSUME EditsInv PROVE EditsTypeOK
    OBVIOUS
  <2>1. /\ IsText(doc) /\ IsText(shown)
        /\ \A c \in Commands : Waits(commands[c]) \/ Pending(commands[c])
        /\ starts \in 0..MaxStarts /\ changes \in 0..MaxChanges
    BY DEF EditsInv
  <2>2. ASSUME NEW c \in Commands
        PROVE  commands[c].state \in {"idle", "asked", "applying"}
    <3>1. CASE Waits(commands[c])
      BY <3>1 DEF Waits, Idle
    <3>2. CASE Pending(commands[c])
      BY <3>2 DEF Pending
    <3> QED
      BY <2>1, <3>1, <3>2
  <2>3. ASSUME NEW c \in Commands, commands[c].state = "applying", commands[c].current
        PROVE  Fits(commands[c].edit, doc)
    <3>1. Pending(commands[c])
      BY <2>1, <2>3, OneState
    <3>2. commands[c].kind \in Kinds /\ commands[c].edit \in Plan(commands[c])
      BY <2>3, <3>1 DEF Pending
    <3> QED
      BY <2>1, <3>2, PlanFits
  <2>4. ASSUME NEW c \in Commands, commands[c].state = "applying", commands[c].current
        PROVE  /\ commands[c].edit.from \in 1..commands[c].edit.to
               /\ commands[c].edit.to \in 1..Len(doc) + 1
               /\ IsText(commands[c].edit.text)
    BY <2>3, <2>4 DEF Fits
  <2> QED
    BY <2>1, <2>2, <2>4 DEF EditsTypeOK
<1> QED
  BY <1>1, <1>2, <1>3, PTL DEF EditsSpec

\* When a command ends with the document changed, its own edit did that: a
\* change by anyone else leaves it pending.
LEMMA OnlyItsOwn ==
  ASSUME EditsInv, [EditsNext]_editsVars, NEW c \in Commands,
         commands[c].state = "applying", commands'[c] = Idle, doc' # doc
  PROVE  Applies(c)
<1>1. Idle.state # "applying"
  BY DEF Idle
<1>2. ASSUME NEW but, commands' = Outdated(but), c \notin but
      PROVE  FALSE
  <2>1. PICK x : x = Outdated(but)[c]
    OBVIOUS
  <2>2. x.state = "applying"
    BY <1>2, <2>1, OutdatedFits
  <2> QED
    BY <1>1, <1>2, <2>1, <2>2
<1>3. ~FileChanges
  BY <1>2 DEF FileChanges
<1>4. ~Lists /\ ~NothingLeft /\ ~UNCHANGED editsVars
  BY DEF Lists, NothingLeft, editsVars
<1>5. \A o \in Commands : ~Starts(o) /\ ~Abandons(o) /\ ~Plans(o) /\ ~Refuses(o)
  BY DEF Starts, Abandons, Plans, Refuses
<1>6. \A o \in Commands : Applies(o) => o = c
  BY <1>2 DEF Applies
<1> QED
  BY <1>3, <1>4, <1>5, <1>6 DEF EditsNext

LEMMA ExactStep ==
  ASSUME EditsInv, [EditsNext]_editsVars, NEW c \in Commands
  PROVE  ChangesOnly(c)
<1> SUFFICES ASSUME Done(c, {"up", "down", "delete"})
             PROVE  ChangesOnly(c)
  BY DEF ChangesOnly, Done
<1>1. PICK y : y = commands[c]
  OBVIOUS
<1>2. Applies(c) /\ y.kind \in {"up", "down", "delete"}
  BY <1>1, OnlyItsOwn DEF Done
<1>3. PICK d : d = doc'
  OBVIOUS
<1>4. y.state = "applying" /\ y.current /\ d = Edited(doc, y.edit)
  BY <1>1, <1>2, <1>3 DEF Applies
<1>5. Pending(y)
  BY <1>1, <1>4, OneState DEF EditsInv
<1>6. y.edit \in Plan(y) /\ IsText(doc)
  BY <1>4, <1>5 DEF Pending, EditsInv
<1>7. CASE y.kind = "delete"
  <2>1. y.edit \in PlanDelete(doc, y.row)
    BY <1>6, <1>7 DEF Plan
  <2>2. /\ Preface(d) = Preface(doc)
        /\ \E k \in DOMAIN SectionTexts(doc) :
             /\ SectionTexts(doc)[k] = y.row.hash
             /\ SectionTexts(d) = RemoveAt(SectionTexts(doc), k)
    BY <1>4, <1>6, <2>1, PlanDeleteExact
  <2> QED
    BY <1>1, <1>3, <1>7, <2>2 DEF ChangesOnly, Done
<1>8. CASE y.kind \in {"up", "down"}
  <2>1. y.edit \in PlanMove(doc, y.row, y.kind)
    BY <1>6, <1>8 DEF Plan
  <2>2. IF y.kind = "up" THEN Swapping(doc, d, y.row.up, y.row.hash)
                         ELSE Swapping(doc, d, y.row.hash, y.row.down)
    BY <1>4, <1>6, <1>8, <2>1, PlanMoveExact
  <2>3. CASE y.kind = "up"
    <3>1. Swapping(doc, d, y.row.up, y.row.hash)
      BY <2>2, <2>3
    <3> QED
      BY <1>1, <1>3, <2>3, <3>1 DEF ChangesOnly, Done, Swapping
  <2>4. CASE y.kind = "down"
    <3>1. Swapping(doc, d, y.row.hash, y.row.down)
      BY <2>2, <2>4
    <3> QED
      BY <1>1, <1>3, <2>4, <3>1 DEF ChangesOnly, Done, Swapping
  <2> QED
    BY <1>8, <2>3, <2>4
<1> QED
  BY <1>2, <1>7, <1>8

\* Deleting takes away exactly the section that the row was made from, and
\* moving swaps exactly two neighbors, byte for byte as they were shown
\* (planDeleteRequest, planMoveRequest), whatever was typed, saved or done by
\* other commands since.
THEOREM EditsExact ==
  ASSUME EditsAssumption
  PROVE  EditsSpec => DestructiveEditsAreExact
<1>1. EditsInit => EditsInv
  BY EditsInitiates
<1>2. EditsInv /\ [EditsNext]_editsVars => EditsInv'
  BY EditsStep
<1>3. EditsInv /\ [EditsNext]_editsVars => \A c \in Commands : ChangesOnly(c)
  BY ExactStep
<1> QED
  BY <1>1, <1>2, <1>3, PTL DEF EditsSpec, DestructiveEditsAreExact

----------------------------------------------------------------------------
(* Names stay names, and distinct.                                         *)

LEMMA RangeIn ==
  ASSUME NEW S, NEW w \in Seq(S)
  PROVE  Range(w) \subseteq S
<1>1. DOMAIN w = 1..Len(w) /\ \A i \in 1..Len(w) : w[i] \in S
  BY LenProperties, ElementOfSeq
<1> QED
  BY <1>1 DEF Range

\* An edit brings no other names than its own.
LEMMA EditNamed ==
  ASSUME NEW t, IsText(t), HasNames(Range(t)), NEW edit, Fits(edit, t),
         NEW S, HasNames(S), edit.text \in Seq(S)
  PROVE  HasNames(Range(Edited(t, edit)))
<1>1. PICK from, to, x : from = edit.from /\ to = edit.to /\ x = edit.text
  OBVIOUS
<1>2. from \in 1..Len(t) + 1 /\ to \in Nat \ {0} /\ IsText(x)
  <2>1. Len(t) \in Nat
    BY TextIs
  <2>2. from \in 1..to /\ to \in 1..Len(t) + 1 /\ IsText(x)
    BY <1>1 DEF Fits
  <2> QED
    BY <2>1, <2>2
<1>3. PICK d : d = Edited(t, Edit(from, to, x))
  OBVIOUS
<1>4. d = Edited(t, edit)
  BY <1>1, <1>3 DEF Edited, Edit
<1>5. d \in Seq(Range(t) \cup {Blank} \cup Range(x))
  BY <1>2, <1>3, EditedIsText
<1>6. Range(d) \subseteq Range(t) \cup {Blank} \cup Range(x)
  BY <1>5, RangeIn
<1>7. Range(x) \subseteq S
  BY <1>1, RangeIn
<1>8. ~IsSeparator(Blank)
  BY DEF IsSeparator, Blank
<1> QED
  BY <1>4, <1>6, <1>7, <1>8 DEF HasNames

\* So does every plan.
LEMMA PlanNamed ==
  ASSUME NumeralsDiffer, IsText(doc), HasNames(Range(doc)),
         NEW command, command.kind \in Kinds,
         command.kind = "rename" => IsName(command.name),
         NEW edit \in Plan(command)
  PROVE  HasNames(Range(Edited(doc, edit)))
<1>1. PICK kind, row, name : /\ kind = command.kind /\ row = command.row
                             /\ name = command.name
  OBVIOUS
<1>2. PICK B : B = Range(doc) \cup {Blank}
  OBVIOUS
<1>3. HasNames(B) /\ ~IsSeparator(Blank)
  <2>1. ~IsSeparator(Blank)
    BY DEF IsSeparator, Blank
  <2> QED
    BY <1>2, <2>1 DEF HasNames
<1>4. ASSUME NEW n, IsName(n)
      PROVE  \A line : line = Separator(n) => IsName(line[2])
  BY <1>4 DEF Separator
<1>5. Fits(edit, doc)
  BY PlanFits
<1>6. SUFFICES \E S : HasNames(S) /\ edit.text \in Seq(S)
  BY <1>5, EditNamed
<1>7. CASE kind \in {"up", "down"}
  <2>1. edit \in PlanMove(doc, row, kind)
    BY <1>1, <1>7 DEF Plan
  <2> QED
    BY <1>2, <1>3, <1>7, <2>1, MoveFits
<1>8. CASE kind = "duplicate"
  <2>1. edit \in PlanDuplicate(doc, row)
    BY <1>1, <1>8 DEF Plan
  <2>2. PICK h \in Separators(doc) : Copies(edit, doc, h)
    BY <2>1, DuplicateParts
  <2>3. PICK e, x, c : /\ edit = Edit(e, e, x) /\ c = CopyName(doc, doc[h][2])
                       /\ x \in Seq(Range(doc) \cup {Blank, Separator(c)})
    BY <2>2 DEF Copies
  <2>4. IsName(doc[h][2])
    <3>1. h \in 1..Len(doc) /\ IsSeparator(doc[h])
      BY SeparatorsIn DEF Separators
    <3>2. doc[h] \in Range(doc)
      BY <3>1, TextIs
    <3> QED
      BY <3>1, <3>2 DEF HasNames
  <2>5. IsName(c)
    BY <2>3, <2>4, CopyNameFree
  <2>6. HasNames(Range(doc) \cup {Blank, Separator(c)})
    BY <1>2, <1>3, <1>4, <2>5 DEF HasNames
  <2>7. edit.text = x
    BY <2>3 DEF Edit
  <2> QED
    BY <2>3, <2>6, <2>7
<1>9. CASE kind = "delete"
  <2>1. edit \in PlanDelete(doc, row)
    BY <1>1, <1>9 DEF Plan
  <2> QED
    BY <1>2, <1>3, <2>1, DeleteFits
<1>10. CASE kind = "rename"
  <2>1. edit \in PlanRename(doc, row, name) /\ IsName(name)
    BY <1>1, <1>10 DEF Plan
  <2>2. edit.text \in Seq({Separator(name), Blank})
    BY <2>1, RenameFits DEF Renames
  <2>3. HasNames({Separator(name), Blank})
    BY <1>3, <1>4, <2>1 DEF HasNames
  <2> QED
    BY <2>2, <2>3
<1>11. CASE kind = "favorite"
  <2>1. edit \in PlanFavorite(doc, row)
    BY <1>1, <1>11 DEF Plan
  <2>2. edit.text \in Seq(Range(doc) \cup {Blank, Favorite("true")})
    BY <2>1, FavoriteFits
  <2>3. HasNames(Range(doc) \cup {Blank, Favorite("true")})
    BY <1>2, <1>3 DEF HasNames, IsSeparator, Favorite
  <2> QED
    BY <2>2, <2>3
<1>12. CASE kind = "add"
  <2>1. edit \in PlanAppend(doc)
    BY <1>1, <1>12 DEF Plan
  <2>2. PICK x, c :
          /\ edit = Edit(Len(doc) + 1, Len(doc) + 1, x) /\ NewName(c, doc)
          /\ x \in Seq({Blank, Separator(c), Target("GET", "baseUrl")})
    BY <2>1, AppendParts DEF Adds
  <2>3. IsName(c)
    BY <2>2, NewNameFree
  <2>4. HasNames({Blank, Separator(c), Target("GET", "baseUrl")})
    <3>1. ~IsSeparator(Target("GET", "baseUrl"))
      BY DEF IsSeparator, Target
    <3> QED
      BY <1>3, <1>4, <2>3, <3>1 DEF HasNames
  <2>5. edit.text = x
    BY <2>2 DEF Edit
  <2> QED
    BY <2>2, <2>4, <2>5
<1> QED
  BY <1>1, <1>7, <1>8, <1>9, <1>10, <1>11, <1>12 DEF Kinds

\* The names that the document and the pending commands hold.
Naming(command) ==
  command.state # "idle" /\ command.kind = "rename" => IsName(command.name)
NamesInv ==
  /\ EditsInv /\ HasNames(Range(doc))
  /\ \A c \in Commands : Naming(commands[c])

LEMMA NamesInitiate ==
  ASSUME EditsAssumption, EditsInit
  PROVE  NamesInv
<1>1. EditsInv
  BY EditsInitiates
<1>2. HasNames(Range(doc))
  BY DEF EditsAssumption, EditsInit
<1>3. \A c \in Commands : Naming(commands[c])
  BY DEF EditsInit, Naming, Idle
<1> QED
  BY <1>1, <1>2, <1>3 DEF NamesInv

LEMMA OutdatedNaming ==
  ASSUME NamesInv, NEW but, commands' = Outdated(but), NEW c \in Commands
  PROVE  Naming(commands[c])'
<1>1. PICK x, y : x = Outdated(but)[c] /\ y = commands[c]
  OBVIOUS
<1>2. x = IF c \in but THEN Idle
          ELSE IF y.state = "applying" THEN [y EXCEPT !.current = FALSE] ELSE y
  BY <1>1 DEF Outdated
<1>3. Naming(y) /\ (Waits(y) \/ Pending(y))
  BY <1>1 DEF NamesInv, EditsInv
<1>4. Naming(x)
  <2>1. CASE x = Idle
    BY <2>1 DEF Naming, Idle
  <2>2. CASE x = y
    BY <1>3, <2>2
  <2>3. CASE y.state = "applying" /\ x = [y EXCEPT !.current = FALSE]
    <3>1. DOMAIN y = Fields
      BY <1>3, <2>3, OneState DEF Pending
    <3>2. x.state = y.state /\ x.kind = y.kind /\ x.name = y.name
      BY <2>3, <3>1 DEF Fields
    <3> QED
      BY <1>3, <3>2 DEF Naming
  <2> QED
    BY <1>2, <2>1, <2>2, <2>3
<1>5. x = commands'[c]
  BY <1>1
<1> QED
  BY <1>4, <1>5 DEF Naming

\* Only a rename is asked for with a name, one of Names.
LEMMA StartersNaming ==
  ASSUME EditsAssumption, NEW x \in Starters
  PROVE  Naming(x)
<1>1. \A kind, row, name : kind # "rename" => Naming(Asked(kind, row, name))
  BY DEF Asked, Naming
<1>2. CASE x \in {Asked(kind, row, Unnamed) :
                    kind \in {"up", "down", "duplicate", "delete"}, row \in NamedRows}
  BY <1>1, <1>2
<1>3. CASE x \in {Asked("rename", choice[1], choice[2]) :
                    choice \in {choice \in NamedRows \X Names :
                                  choice[2] # choice[1].request.name}}
  <2>1. PICK choice \in NamedRows \X Names :
          x = Asked("rename", choice[1], choice[2])
    BY <1>3
  <2>2. x.name = choice[2] /\ choice[2] \in Names
    BY <2>1 DEF Asked
  <2>3. IsName(x.name)
    BY <2>2 DEF EditsAssumption
  <2> QED
    BY <2>3 DEF Naming
<1>4. CASE x \in {Asked("favorite", row, Unnamed) : row \in Rows(shown)}
  BY <1>1, <1>4
<1>5. CASE x = Asked("add", [of |-> "file"], Unnamed)
  BY <1>1, <1>5
<1> QED
  BY <1>2, <1>3, <1>4, <1>5 DEF Starters

\* One command takes a step.
LEMMA OthersNaming ==
  ASSUME NamesInv, NEW c \in Commands, NEW x,
         commands' = [commands EXCEPT ![c] = x], Naming(x),
         NEW o \in Commands
  PROVE  Naming(commands[o])'
<1>1. DOMAIN commands = Commands /\ Naming(commands[o])
  BY DEF NamesInv, EditsInv
<1>2. commands'[o] = IF o = c THEN x ELSE commands[o]
  BY <1>1
<1> QED
  BY <1>1, <1>2 DEF Naming

\* What an edit that reaches the document was planned as.
LEMMA AppliedPlan ==
  ASSUME EditsInv, NEW c \in Commands, Applies(c)
  PROVE  /\ doc' = Edited(doc, commands[c].edit) /\ IsText(doc)
         /\ commands[c].kind \in Kinds /\ commands[c].edit \in Plan(commands[c])
<1>1. commands[c].state = "applying" /\ commands[c].current
      /\ doc' = Edited(doc, commands[c].edit)
  BY DEF Applies
<1>2. Pending(commands[c]) /\ IsText(doc)
  BY <1>1, OneState DEF EditsInv
<1> QED
  BY <1>1, <1>2 DEF Pending

LEMMA NamesStep ==
  ASSUME EditsAssumption, NumeralsDiffer, NamesInv, [EditsNext]_editsVars
  PROVE  NamesInv'
<1>1. EditsInv /\ HasNames(Range(doc)) /\ \A c \in Commands : Naming(commands[c])
  BY DEF NamesInv
<1>2. EditsInv'
  BY <1>1, EditsStep
<1> SUFFICES HasNames(Range(doc')) /\ \A o \in Commands : Naming(commands[o])'
  BY <1>2 DEF NamesInv
<1>3. CASE FileChanges
  <2>1. commands' = Outdated({}) /\ doc' \in Contents
    BY <1>3 DEF FileChanges
  <2>2. HasNames(Range(doc'))
    BY <2>1 DEF EditsAssumption
  <2> QED
    BY <2>1, <2>2, OutdatedNaming
<1>4. CASE Lists \/ NothingLeft \/ UNCHANGED editsVars
  <2>1. doc' = doc /\ commands' = commands
    BY <1>4 DEF Lists, NothingLeft, editsVars
  <2> QED
    BY <1>1, <2>1 DEF Naming
<1>5. ASSUME NEW c \in Commands, Starts(c)
      PROVE  HasNames(Range(doc')) /\ \A o \in Commands : Naming(commands[o])'
  <2>1. PICK x \in Starters : commands' = [commands EXCEPT ![c] = x]
    BY <1>5 DEF Starts
  <2>2. Naming(x) /\ doc' = doc
    BY <1>5, StartersNaming DEF Starts
  <2> QED
    BY <1>1, <2>1, <2>2, OthersNaming
<1>6. ASSUME NEW c \in Commands, Abandons(c) \/ Refuses(c)
      PROVE  HasNames(Range(doc')) /\ \A o \in Commands : Naming(commands[o])'
  <2>1. commands' = [commands EXCEPT ![c] = Idle] /\ doc' = doc
    BY <1>6 DEF Abandons, Refuses
  <2>2. Naming(Idle)
    BY DEF Naming, Idle
  <2> QED
    BY <1>1, <2>1, <2>2, OthersNaming
<1>7. ASSUME NEW c \in Commands, Plans(c)
      PROVE  HasNames(Range(doc')) /\ \A o \in Commands : Naming(commands[o])'
  <2>1. PICK x : /\ commands' = [commands EXCEPT ![c] = x]
                 /\ x = Idle \/ \E edit : x = Applying(commands[c], edit)
    BY <1>7 DEF Plans
  <2>2. commands[c].state = "asked" /\ doc' = doc
    BY <1>7 DEF Plans
  <2>3. Naming(x)
    <3>1. CASE x = Idle
      BY <3>1 DEF Naming, Idle
    <3>2. CASE \E edit : x = Applying(commands[c], edit)
      <4>1. x.kind = commands[c].kind /\ x.name = commands[c].name
        BY <3>2 DEF Applying
      <4> QED
        BY <1>1, <2>2, <4>1 DEF Naming
    <3> QED
      BY <2>1, <3>1, <3>2
  <2> QED
    BY <1>1, <2>1, <2>2, <2>3, OthersNaming
<1>8. ASSUME NEW c \in Commands, Applies(c)
      PROVE  HasNames(Range(doc')) /\ \A o \in Commands : Naming(commands[o])'
  <2>1. /\ doc' = Edited(doc, commands[c].edit) /\ IsText(doc)
        /\ commands[c].kind \in Kinds /\ commands[c].edit \in Plan(commands[c])
    BY <1>1, <1>8, AppliedPlan
  <2>2. commands[c].kind = "rename" => IsName(commands[c].name)
    BY <1>1, <1>8 DEF Applies, Naming
  <2>3. HasNames(Range(doc'))
    BY <1>1, <2>1, <2>2, PlanNamed
  <2>4. commands' = Outdated({c})
    BY <1>8 DEF Applies
  <2> QED
    BY <2>3, <2>4, OutdatedNaming
<1> QED
  BY <1>3, <1>4, <1>5, <1>6, <1>7, <1>8 DEF EditsNext

\* The edits that bring a name keep names distinct.
LEMMA NamedApart ==
  ASSUME NumeralsDiffer, IsText(doc), HasNames(Range(doc)), NEW command,
         NEW edit \in Plan(command), NEW d, d = Edited(doc, edit)
  PROVE  /\ command.kind \in {"duplicate", "rename"} /\ ApartFolded(doc) =>
              ApartFolded(d)
         /\ command.kind = "add" /\ Apart(doc) =>
              Apart(d)
<1>1. PICK row, name : row = command.row /\ name = command.name
  OBVIOUS
<1>2. ASSUME command.kind = "duplicate"
      PROVE  ApartFolded(doc) => ApartFolded(d)
  <2>1. edit \in PlanDuplicate(doc, row)
    BY <1>1, <1>2 DEF Plan
  <2>2. PICK h \in Separators(doc) : Copies(edit, doc, h)
    BY <2>1, DuplicateParts
  <2>3. PICK e, x, q, c :
          /\ e \in 1..Len(doc) + 1 /\ edit = Edit(e, e, x)
          /\ c = CopyName(doc, doc[h][2])
          /\ OneSeparator(x, q, c) /\ x[Len(x)] = Blank
          /\ e = Len(doc) + 1 => doc[Len(doc)] = Blank \/ q # 1
    BY <2>2 DEF Copies
  <2>4. IsName(doc[h][2])
    <3>1. h \in 1..Len(doc) /\ IsSeparator(doc[h])
      BY SeparatorsIn DEF Separators
    <3>2. doc[h] \in Range(doc)
      BY <3>1, TextIs
    <3> QED
      BY <3>1, <3>2 DEF HasNames
  <2>5. \A i \in Separators(doc) : Fold(doc[i][2]) # Fold(c)
    BY <2>3, <2>4, CopyNameFree
  <2>6. PICK L : L = Len(doc) /\ L \in Nat
    BY TextIs
  <2>7. Gains(d, doc, {}, c)
    <3>1. CASE e = L + 1
      BY <2>3, <2>6, <3>1, AppendedGains
    <3>2. CASE e # L + 1
      <4>1. e \in 1..Len(doc)
        BY <2>3, <2>6, <3>2
      <4> QED
        BY <2>3, <4>1, InsertedGains
    <3> QED
      BY <3>1, <3>2
  <2> QED
    BY <2>5, <2>7, GainsFolded
<1>3. ASSUME command.kind = "rename"
      PROVE  ApartFolded(doc) => ApartFolded(d)
  <2>1. edit \in PlanRename(doc, row, name)
    BY <1>1, <1>3 DEF Plan
  <2>2. PICK h \in Separators(doc) :
          /\ edit = Edit(h, h + 1, <<Separator(name), Blank>>)
          /\ \A i \in Separators(doc) \ {h} : Fold(doc[i][2]) # Fold(name)
    BY <2>1, RenameFits DEF Renames
  <2>3. Gains(d, doc, {h}, name)
    BY <2>2, RenameGains
  <2> QED
    BY <2>2, <2>3, GainsFolded
<1>4. ASSUME command.kind = "add"
      PROVE  Apart(doc) => Apart(d)
  <2>1. edit \in PlanAppend(doc)
    BY <1>4 DEF Plan
  <2>2. Adds(edit, doc)
    BY <2>1, AppendParts
  <2>3. PICK x, q, c :
          /\ edit = Edit(Len(doc) + 1, Len(doc) + 1, x) /\ NewName(c, doc)
          /\ OneSeparator(x, q, c)
          /\ doc[Len(doc)] = Blank \/ q # 1
    BY <2>2 DEF Adds
  <2>4. \A i \in Separators(doc) : doc[i][2] # c
    BY <2>3, NewNameFree
  <2>5. Gains(d, doc, {}, c)
    <3>1. PICK L : L = Len(doc)
      OBVIOUS
    <3> QED
      BY <2>3, <3>1, AppendedGains
  <2> QED
    BY <2>4, <2>5, GainsApart
<1> QED
  BY <1>2, <1>3, <1>4

\* What one command's edit keeps.
KeepsNames(c) ==
  /\ Done(c, {"duplicate", "rename"}) /\ ApartFolded(doc) => ApartFolded(doc')
  /\ Done(c, {"add"}) /\ Apart(doc) => Apart(doc')

LEMMA NamesKept ==
  ASSUME NumeralsDiffer, NamesInv, [EditsNext]_editsVars, NEW c \in Commands
  PROVE  KeepsNames(c)
<1> SUFFICES ASSUME Done(c, {"duplicate", "rename", "add"})
             PROVE  KeepsNames(c)
  BY DEF KeepsNames, Done
<1>1. EditsInv /\ HasNames(Range(doc))
  BY DEF NamesInv
<1>2. Applies(c)
  BY <1>1, OnlyItsOwn DEF Done
<1>3. PICK y, d : y = commands[c] /\ d = doc'
  OBVIOUS
<1>4. d = Edited(doc, y.edit) /\ IsText(doc) /\ y.edit \in Plan(y)
  BY <1>1, <1>2, <1>3, AppliedPlan
<1>5. /\ y.kind \in {"duplicate", "rename"} /\ ApartFolded(doc) => ApartFolded(d)
      /\ y.kind = "add" /\ Apart(doc) => Apart(d)
  BY <1>1, <1>4, NamedApart
<1> QED
  BY <1>3, <1>5 DEF KeepsNames, Done

\* A copy and a rename never take a name that another section has in any case,
\* and a new request never takes one that is there (planDuplicateRequest,
\* planRenameRequest, planAppendRequest): names that were distinct stay so,
\* whatever was typed, saved or done by other commands since.
THEOREM EditsKeepNames ==
  ASSUME EditsAssumption, NumeralsDiffer
  PROVE  EditsSpec => NamesStayDistinct
<1>1. EditsInit => NamesInv
  BY NamesInitiate
<1>2. NamesInv /\ [EditsNext]_editsVars => NamesInv'
  BY NamesStep
<1>3. NamesInv /\ [EditsNext]_editsVars =>
        \A c \in Commands :
          /\ Done(c, {"duplicate", "rename"}) /\ Distinct(doc, Fold) =>
               Distinct(doc', Fold)
          /\ Done(c, {"add"}) /\ Distinct(doc, LAMBDA n : n) =>
               Distinct(doc', LAMBDA n : n)
  <2> SUFFICES ASSUME NamesInv, [EditsNext]_editsVars, NEW c \in Commands
               PROVE  /\ Done(c, {"duplicate", "rename"}) /\ Distinct(doc, Fold) =>
                           Distinct(doc', Fold)
                      /\ Done(c, {"add"}) /\ Distinct(doc, LAMBDA n : n) =>
                           Distinct(doc', LAMBDA n : n)
    OBVIOUS
  <2>1. KeepsNames(c)
    BY NamesKept
  <2> QED
    BY <2>1 DEF KeepsNames, ApartFolded, Apart
<1> QED
  BY <1>1, <1>2, <1>3, PTL DEF EditsSpec, NamesStayDistinct
=============================================================================
