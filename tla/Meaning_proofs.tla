-------------------------- MODULE Meaning_proofs ---------------------------
(***************************************************************************)
(* Proofs about what the requests of a text mean before and after an edit: *)
(* one that adds, renames or marks a request leaves every other request of *)
(* the file with the meaning it had, for any text and any name.            *)
(***************************************************************************)
EXTENDS Text_proofs

----------------------------------------------------------------------------
(* What a section means.                                                   *)

\* The least of some numbers and a bound behind them.
LEMMA FirstHas ==
  ASSUME NEW a \in Nat, NEW e \in Nat, a <= e, NEW J \in SUBSET (a..e - 1),
         NEW m, m = Min({e} \cup J)
  PROVE  m \in a..e /\ (m < e => m \in J) /\ \A i \in a..m - 1 : i \notin J
<1>1. PICK K : K = {e} \cup J
  OBVIOUS
<1>2. K \subseteq Nat /\ K # {} /\ \A i \in K : i >= a /\ i <= e
  BY <1>1
<1>3. m \in K /\ \A i \in K : m <= i
  BY <1>1, <1>2, MinOf
<1>4. m \in Nat /\ a <= m /\ m <= e
  BY <1>2, <1>3
<1>5. ASSUME NEW i \in a..m - 1 PROVE i \notin J
  <2>1. i < m /\ i \in Int
    BY <1>4
  <2>2. i \in K => m <= i
    BY <1>3
  <2> QED
    BY <1>1, <1>4, <2>1, <2>2
<1>6. m < e => m \in J
  BY <1>1, <1>3, <1>4
<1>7. m \in a..e
  BY <1>4
<1> QED
  BY <1>5, <1>6, <1>7

LEMMA FirstOf ==
  ASSUME NEW a \in Nat, NEW e \in Nat, a <= e, NEW J \in SUBSET (a..e - 1),
         NEW m \in a..e, m < e => m \in J, \A i \in a..m - 1 : i \notin J
  PROVE  Min({e} \cup J) = m
<1>1. PICK K, k : K = {e} \cup J /\ k = Min(K)
  OBVIOUS
<1>2. K \subseteq Nat /\ K # {} /\ m \in K
  BY <1>1
<1>3. k \in K /\ k <= m
  BY <1>1, <1>2, MinOf
<1>4. k \in Nat /\ m \in Nat /\ m <= e /\ (k = e \/ k \in J)
  BY <1>1, <1>2, <1>3
<1>5. ASSUME k < m PROVE FALSE
  <2>1. k \in J /\ k >= a
    BY <1>4, <1>5
  <2>2. k \in a..m - 1
    BY <1>4, <1>5, <2>1
  <2> QED
    BY <2>1, <2>2
<1> QED
  BY <1>1, <1>3, <1>4, <1>5

\* The request line of the section between two lines.
IsLine(t, h, e, l) ==
  /\ l \in h + 1..e - 1 /\ t[l][1] = "request"
  /\ \A i \in h + 1..l - 1 : t[i] = Blank \/ IsComment(t[i])

LEMMA LineKind ==
  ASSUME NEW line, line[1] = "request"
  PROVE  line # Blank /\ ~IsComment(line) /\ ~IsSeparator(line)
<1>1. Blank[1] = ""
  BY DEF Blank
<1>2. line # Blank
  BY <1>1
<1>3. ~IsComment(line)
  BY DEF IsComment
<1>4. ~IsSeparator(line)
  BY DEF IsSeparator
<1> QED
  BY <1>2, <1>3, <1>4

LEMMA LineHas ==
  ASSUME NEW t, IsText(t), NEW h \in 0..Len(t), NEW e, e = NextSeparator(t, h),
         NEW l, l = RequestLine(t, h), HasRequest(t, h)
  PROVE  IsLine(t, h, e, l)
<1>1. PICK a, J : a = h + 1 /\ J = {i \in h + 1..e - 1 : t[i] # Blank /\ ~IsComment(t[i])}
  OBVIOUS
<1>2. h \in Nat /\ e \in Nat /\ h < e
  BY SectionPlaces
<1>3. a \in Nat /\ a <= e /\ J \in SUBSET (a..e - 1)
  BY <1>1, <1>2
<1>4. l = Min({e} \cup J)
  BY <1>1 DEF RequestLine, FirstFrom
<1>5. l \in a..e /\ (l < e => l \in J) /\ \A i \in a..l - 1 : i \notin J
  BY <1>2, <1>3, <1>4, FirstHas, ZenonT(40)
<1>6. l < e /\ t[l][1] = "request"
  BY DEF HasRequest
<1>7. l \in h + 1..e - 1
  BY <1>1, <1>2, <1>5, <1>6
<1>8. \A i \in h + 1..l - 1 : t[i] = Blank \/ IsComment(t[i])
  BY <1>1, <1>2, <1>5, <1>7
<1> QED
  BY <1>6, <1>7, <1>8 DEF IsLine

LEMMA LineOf ==
  ASSUME NEW t, IsText(t), NEW h \in 0..Len(t), NEW e, e = NextSeparator(t, h),
         NEW l, IsLine(t, h, e, l)
  PROVE  RequestLine(t, h) = l /\ HasRequest(t, h)
<1>1. PICK a, J : a = h + 1 /\ J = {i \in h + 1..e - 1 : t[i] # Blank /\ ~IsComment(t[i])}
  OBVIOUS
<1>2. h \in Nat /\ e \in Nat /\ h < e
  BY SectionPlaces
<1>3. a \in Nat /\ a <= e /\ J \in SUBSET (a..e - 1)
  BY <1>1, <1>2
<1>4. l \in h + 1..e - 1 /\ t[l][1] = "request"
      /\ \A i \in h + 1..l - 1 : t[i] = Blank \/ IsComment(t[i])
  BY DEF IsLine
<1>5. t[l] # Blank /\ ~IsComment(t[l])
  BY <1>4, LineKind
<1>6. l \in J /\ l \in a..e /\ l < e
  BY <1>1, <1>2, <1>4, <1>5
<1>7. \A i \in a..l - 1 : i \notin J
  BY <1>1, <1>4
<1>8. Min({e} \cup J) = l
  BY <1>2, <1>3, <1>6, <1>7, FirstOf
<1>9. RequestLine(t, h) = l
  BY <1>1, <1>8 DEF RequestLine, FirstFrom
<1> QED
  BY <1>4, <1>6, <1>9 DEF HasRequest

\* The blank line under the headers, or the end.
BodyLine(t, l, e) == Min({e} \cup {i \in l + 1..e - 1 : t[i] = Blank})
IsBody(t, l, e, b) ==
  /\ b \in l + 1..e /\ (b < e => t[b] = Blank)
  /\ \A i \in l + 1..b - 1 : t[i] # Blank

LEMMA BodyHas ==
  ASSUME NEW t, NEW l \in Nat, NEW e \in Nat, l < e, NEW b, b = BodyLine(t, l, e)
  PROVE  IsBody(t, l, e, b)
<1>1. PICK a, J : a = l + 1 /\ J = {i \in l + 1..e - 1 : t[i] = Blank}
  OBVIOUS
<1>2. a \in Nat /\ a <= e /\ J \in SUBSET (a..e - 1) /\ b = Min({e} \cup J)
  BY <1>1 DEF BodyLine
<1>3. b \in a..e /\ (b < e => b \in J) /\ \A i \in a..b - 1 : i \notin J
  BY <1>2, FirstHas
<1>4. \A i \in l + 1..b - 1 : t[i] # Blank
  BY <1>1, <1>2, <1>3
<1> QED
  BY <1>1, <1>3, <1>4 DEF IsBody

LEMMA BodyOf ==
  ASSUME NEW t, NEW l \in Nat, NEW e \in Nat, l < e, NEW b, IsBody(t, l, e, b)
  PROVE  BodyLine(t, l, e) = b
<1>1. PICK a, J : a = l + 1 /\ J = {i \in l + 1..e - 1 : t[i] = Blank}
  OBVIOUS
<1>2. a \in Nat /\ a <= e /\ J \in SUBSET (a..e - 1)
      /\ BodyLine(t, l, e) = Min({e} \cup J)
  BY <1>1 DEF BodyLine
<1>3. b \in l + 1..e /\ (b < e => t[b] = Blank)
      /\ \A i \in l + 1..b - 1 : t[i] # Blank
  BY DEF IsBody
<1>4. b \in a..e /\ (b < e => b \in J) /\ \A i \in a..b - 1 : i \notin J
  BY <1>1, <1>3
<1> QED
  BY <1>2, <1>4, FirstOf

\* What the lines of a section say, and what a request means.
HeaderLines(t, l, b) == {i \in l + 1..b - 1 : t[i][1] = "x"}
Says(t, h, e, l, b) ==
  [target |-> t[l], headers |-> Picked(t, HeaderLines(t, l, b)),
   favorite |-> FavoriteIn(SubSeq(t, h + 1, b - 1)),
   body |-> Trimmed(SubSeq(t, b + 1, e - 1))]
SaidOf(t, h) ==
  Says(t, h, NextSeparator(t, h), RequestLine(t, h),
       BodyLine(t, RequestLine(t, h), NextSeparator(t, h)))
NameAt(t, h) == IF h = 0 THEN Unnamed ELSE t[h][2]
Means(t, h) ==
  [name |-> NameAt(t, h), target |-> SaidOf(t, h).target,
   headers |-> SaidOf(t, h).headers, favorite |-> SaidOf(t, h).favorite,
   body |-> SaidOf(t, h).body]

LEMMA MeansIs ==
  ASSUME NEW t, NEW h, NEW r, r = RequestOf(t, h)
  PROVE  /\ Means(t, h) = [name |-> r.name, target |-> r.target,
                           headers |-> r.headers, favorite |-> r.favorite,
                           body |-> r.body]
         /\ r.line = RequestLine(t, h) /\ r.start = h + 1
         /\ r.end = NextSeparator(t, h)
<1>1. PICK e, l, b : /\ e = NextSeparator(t, h) /\ l = RequestLine(t, h)
                     /\ b = BodyLine(t, l, e)
  OBVIOUS
<1>2. r = [name |-> NameAt(t, h), target |-> t[l],
           headers |-> Picked(t, HeaderLines(t, l, b)),
           favorite |-> FavoriteIn(SubSeq(t, h + 1, b - 1)),
           body |-> Trimmed(SubSeq(t, b + 1, e - 1)),
           line |-> l, start |-> h + 1, end |-> e]
  BY <1>1 DEF RequestOf, FirstFrom, BodyLine, NameAt, HeaderLines
<1>3. SaidOf(t, h) = Says(t, h, e, l, b)
  BY <1>1 DEF SaidOf
<1> QED
  BY <1>1, <1>2, <1>3 DEF Means, Says

\* A part of a text, and of its part.
LEMMA PartHas ==
  ASSUME NEW t, NEW a \in Int, NEW z \in Int, NEW w, w = SubSeq(t, a, z),
         NEW n, n = IF a <= z THEN z - a + 1 ELSE 0
  PROVE  /\ n \in Nat /\ Len(w) = n /\ DOMAIN w = 1..n /\ \E S : w \in Seq(S)
         /\ \A i \in 1..n : w[i] = t[a + i - 1]
<1>1. PICK S : S = {t[i] : i \in a..z}
  OBVIOUS
<1>2. \A i \in a..z : t[i] \in S
  BY <1>1
<1>3. /\ w \in Seq(S) /\ Len(w) = n
      /\ \A i \in 1..z - a + 1 : w[i] = t[a + i - 1]
  BY <1>2, SubSeqProperties
<1>4. n \in Nat /\ \A i \in 1..n : i \in 1..z - a + 1
  OBVIOUS
<1>5. DOMAIN w = 1..n
  BY <1>3, LenProperties
<1> QED
  BY <1>3, <1>4, <1>5

\* The lines of t from a to z are those of d, s lines further down.
LiesFurther(d, t, a, z, s) == \A i \in a..z : d[i + s] = t[i]

LEMMA PartMoved ==
  ASSUME NEW t, NEW d, NEW a \in Int, NEW z \in Int, NEW s \in Int,
         NEW c, c = a + s, NEW y, y = z + s, LiesFurther(d, t, a, z, s)
  PROVE  SubSeq(d, c, y) = SubSeq(t, a, z)
<1>1. PICK v, w, n : /\ w = SubSeq(t, a, z) /\ v = SubSeq(d, c, y)
                     /\ n = IF a <= z THEN z - a + 1 ELSE 0
  OBVIOUS
<1>2. c \in Int /\ y \in Int /\ n = IF c <= y THEN y - c + 1 ELSE 0
  BY <1>1
<1>3. /\ Len(w) = n /\ n \in Nat
      /\ \A i \in 1..n : w[i] = t[a + i - 1]
  BY <1>1, PartHas
<1>4. /\ Len(v) = n
      /\ \A i \in 1..n : v[i] = d[c + i - 1]
  BY <1>1, <1>2, PartHas
<1>5. ASSUME NEW i \in 1..n PROVE v[i] = w[i]
  <2>1. PICK k \in Int : k = a + i - 1
    BY <1>3
  <2>2. k \in a..z /\ c + i - 1 = k + s
    BY <1>1, <1>3, <2>1
  <2>3. d[k + s] = t[k]
    BY <2>2 DEF LiesFurther
  <2> QED
    BY <1>3, <1>4, <2>1, <2>2, <2>3
<1>6. PICK S, T : w \in Seq(S) /\ v \in Seq(T)
  <2>1. \E S : w \in Seq(S)
    BY <1>1, PartHas, Zenon
  <2>2. \E T : v \in Seq(T)
    BY <1>1, <1>2, PartHas, Zenon
  <2> QED
    BY <2>1, <2>2
<1>7. v = w
  BY <1>3, <1>4, <1>5, <1>6, SameSeqs
<1> QED
  BY <1>1, <1>7

\* Such lines are the same part of either text.
PartKept(d, t, a, z, s) ==
  LiesFurther(d, t, a, z, s) => SubSeq(d, a + s, z + s) = SubSeq(t, a, z)

LEMMA PartsKept == \A t, d : \A a, z, s \in Int : PartKept(d, t, a, z, s)
<1> SUFFICES ASSUME NEW t, NEW d, NEW a \in Int, NEW z \in Int, NEW s \in Int,
                    LiesFurther(d, t, a, z, s)
             PROVE  SubSeq(d, a + s, z + s) = SubSeq(t, a, z)
  BY DEF PartKept
<1>1. PICK c, y : c = a + s /\ y = z + s
  OBVIOUS
<1>2. SubSeq(d, c, y) = SubSeq(t, a, z)
  BY <1>1, PartMoved
<1> QED
  BY <1>1, <1>2

LEMMA PartOfPart ==
  ASSUME NEW t, NEW a \in Int, NEW z \in Int, NEW m \in a..z, NEW n \in m..z,
         NEW i, i = m - a + 1, NEW j, j = n - a + 1
  PROVE  SubSeq(SubSeq(t, a, z), i, j) = SubSeq(t, m, n)
<1>1. PICK w, s, k : w = SubSeq(t, a, z) /\ s = 1 - a /\ k = z - a + 1
  OBVIOUS
<1>2. k \in Nat /\ k = (IF a <= z THEN z - a + 1 ELSE 0) /\ s \in Int
      /\ i = m + s /\ j = n + s /\ m \in Int /\ n \in Int
  BY <1>1
<1>3. \A x \in 1..k : w[x] = t[a + x - 1]
  BY <1>1, <1>2, PartHas
<1>4. ASSUME NEW x \in m..n PROVE w[x + s] = t[x]
  <2>1. x + s \in 1..k /\ a + (x + s) - 1 = x
    BY <1>1, <1>2
  <2> QED
    BY <1>3, <2>1
<1>5. LiesFurther(w, t, m, n, s)
  BY <1>4 DEF LiesFurther
<1> QED
  BY <1>1, <1>2, <1>5, PartMoved

\* Lines that moved are still picked.
PlacedAt(D, d, E, t, s) ==
  /\ \A i \in E : i + s \in D /\ d[i + s] = t[i]
  /\ \A i \in D : \E j \in E : i = j + s

LEMMA PickedMoved ==
  ASSUME NEW t, NEW d, NEW E \in SUBSET Int, IsFiniteSet(E), NEW s \in Int,
         NEW D, PlacedAt(D, d, E, t, s)
  PROVE  Picked(d, D) = Picked(t, E)
<1>0. /\ \A i \in E : i + s \in D /\ d[i + s] = t[i]
      /\ \A i \in D : \E j \in E : i = j + s
  BY DEF PlacedAt
<1>1. PICK at, n, ot : /\ at = InOrder(E) /\ n = Cardinality(E)
                       /\ ot = [k \in 1..n |-> at[k] + s]
  OBVIOUS
<1>2. Ascends(E, at, n)
  BY <1>1, InOrderAscends
<1>3. /\ n \in Nat /\ at = [k \in 1..n |-> at[k]]
      /\ \A k \in 1..n : at[k] \in E /\ at[k] \in Int
      /\ \A e \in E : \E k \in 1..n : at[k] = e
      /\ \A i, j \in 1..n : i < j => at[i] < at[j]
  BY <1>2 DEF Ascends
<1>4. Ascends(D, ot, n)
  <2>1. ot = [k \in 1..n |-> ot[k]] /\ \A k \in 1..n : ot[k] = at[k] + s
    BY <1>1
  <2>2. \A k \in 1..n : ot[k] \in D
    BY <1>0, <1>3, <2>1
  <2>3. ASSUME NEW e \in D PROVE \E k \in 1..n : ot[k] = e
    <3>1. PICK i \in E : e = i + s
      BY <1>0
    <3>2. PICK k \in 1..n : at[k] = i
      BY <1>3
    <3> QED
      BY <2>1, <3>1, <3>2
  <2>4. \A i, j \in 1..n : i < j => ot[i] < ot[j]
    BY <1>3, <2>1
  <2> QED
    BY <1>3, <2>1, <2>2, <2>3, <2>4 DEF Ascends
<1>5. D \in SUBSET Int
  BY <1>0
<1>6. InOrder(D) = ot
  BY <1>4, <1>5, AscendsOnce
<1>7. DOMAIN at = 1..n /\ DOMAIN ot = 1..n
  BY <1>1, <1>3
<1>8. Picked(t, E) = [k \in 1..n |-> t[at[k]]]
  BY <1>1, <1>7 DEF Picked
<1>9. Picked(d, D) = [k \in 1..n |-> d[ot[k]]]
  BY <1>6, <1>7 DEF Picked
<1>10. \A k \in 1..n : d[ot[k]] = t[at[k]]
  BY <1>0, <1>1, <1>3
<1> QED
  BY <1>8, <1>9, <1>10

\* The directive that counts.
LastCounts(t, a, z, f) ==
  /\ (\A i \in a..z : ~IsFavorite(t[i])) => f = ""
  /\ \A m \in a..z :
       /\ IsFavorite(t[m])
       /\ \A i \in m + 1..z : ~IsFavorite(t[i])
       => f = t[m][2]

LEMMA FavoriteIs ==
  ASSUME NEW t, NEW a \in Nat \ {0}, NEW z \in Int, NEW f, f = FavoriteIn(SubSeq(t, a, z))
  PROVE  LastCounts(t, a, z, f)
<1>1. PICK w, n, F : /\ w = SubSeq(t, a, z) /\ n = IF a <= z THEN z - a + 1 ELSE 0
                     /\ F = {i \in DOMAIN w : IsFavorite(w[i])}
  OBVIOUS
<1>2. n \in Nat /\ DOMAIN w = 1..n /\ \A i \in 1..n : w[i] = t[a + i - 1]
  BY <1>1, PartHas
<1>3. \A i \in 1..n : a + i - 1 \in a..z
  BY <1>1
<1>4. f = IF F = {} THEN "" ELSE w[Max(F)][2]
  BY <1>1 DEF FavoriteIn
<1>5. ASSUME \A i \in a..z : ~IsFavorite(t[i]) PROVE f = ""
  <2>1. \A i \in 1..n : ~IsFavorite(w[i])
    BY <1>2, <1>3, <1>5
  <2>2. F = {}
    BY <1>1, <1>2, <2>1
  <2> QED
    BY <1>4, <2>2
<1>6. ASSUME NEW m \in a..z, IsFavorite(t[m]),
             \A i \in m + 1..z : ~IsFavorite(t[i])
      PROVE  f = t[m][2]
  <2>1. PICK k \in Int : k = m - a + 1
    OBVIOUS
  <2>2. k \in 1..n /\ a + k - 1 = m
    BY <1>1, <2>1
  <2>3. w[k] = t[m] /\ k \in F
    BY <1>1, <1>2, <1>6, <2>2
  <2>4. ASSUME NEW j \in F PROVE j <= k
    <3>1. j \in 1..n /\ IsFavorite(w[j])
      BY <1>1, <1>2
    <3>2. PICK i \in Int : i = a + j - 1
      BY <1>2, <3>1
    <3>3. i \in a..z /\ IsFavorite(t[i])
      BY <1>2, <1>3, <3>1, <3>2
    <3>4. ~(i > m)
      BY <1>6, <3>3
    <3> QED
      BY <2>2, <3>1, <3>2, <3>4
  <2>5. F \in SUBSET (0..n) /\ n \in Nat
    BY <1>1, <1>2
  <2>6. Max(F) = k
    BY <2>3, <2>4, <2>5, MaxIs
  <2> QED
    BY <1>4, <2>3, <2>6
<1> QED
  BY <1>5, <1>6 DEF LastCounts

\* The lines without the blank ones around them.
LEMMA TrimmedNone ==
  ASSUME NEW t, NEW a \in Nat \ {0}, NEW z \in Int, \A i \in a..z : t[i] = Blank
  PROVE  Trimmed(SubSeq(t, a, z)) = <<>>
<1>1. PICK w, c, F : /\ w = SubSeq(t, a, z) /\ c = IF a <= z THEN z - a + 1 ELSE 0
                     /\ F = {i \in DOMAIN w : w[i] # Blank}
  OBVIOUS
<1>2. c \in Nat /\ DOMAIN w = 1..c /\ \A i \in 1..c : w[i] = t[a + i - 1]
  BY <1>1, PartHas
<1>3. \A i \in 1..c : a + i - 1 \in a..z
  BY <1>1
<1>4. \A i \in 1..c : w[i] = Blank
  BY <1>2, <1>3
<1>5. F = {}
  BY <1>1, <1>2, <1>4
<1> QED
  BY <1>1, <1>5 DEF Trimmed

LEMMA TrimmedTo ==
  ASSUME NEW t, NEW a \in Nat \ {0}, NEW z \in Int, NEW m \in a..z, NEW n \in a..z,
         m <= n, t[m] # Blank, t[n] # Blank,
         \A i \in a..m - 1 : t[i] = Blank, \A i \in n + 1..z : t[i] = Blank
  PROVE  Trimmed(SubSeq(t, a, z)) = SubSeq(t, m, n)
<1>1. PICK w, c, F : /\ w = SubSeq(t, a, z) /\ c = IF a <= z THEN z - a + 1 ELSE 0
                     /\ F = {i \in DOMAIN w : w[i] # Blank}
  OBVIOUS
<1>2. c \in Nat /\ DOMAIN w = 1..c /\ \A i \in 1..c : w[i] = t[a + i - 1]
  BY <1>1, PartHas
<1>3. \A i \in 1..c : a + i - 1 \in a..z
  BY <1>1
<1>4. PICK f : f = Trimmed(w) /\ f = IF F = {} THEN <<>> ELSE SubSeq(w, Min(F), Max(F))
  BY <1>1 DEF Trimmed
<1>5. PICK j, k \in Int : j = m - a + 1 /\ k = n - a + 1
  OBVIOUS
<1>6. j \in 1..c /\ k \in 1..c /\ a + j - 1 = m /\ a + k - 1 = n
  BY <1>1, <1>5
<1>7. j \in F /\ k \in F
  BY <1>1, <1>2, <1>6
<1>8. ASSUME NEW x \in F PROVE j <= x /\ x <= k
  <2>1. x \in 1..c /\ w[x] # Blank
    BY <1>1, <1>2
  <2>2. PICK i \in Int : i = a + x - 1
    BY <1>2, <2>1
  <2>3. i \in a..z /\ t[i] # Blank
    BY <1>2, <1>3, <2>1, <2>2
  <2>4. ~(i < m) /\ ~(i > n)
    BY <2>3
  <2> QED
    BY <1>5, <2>1, <2>2, <2>4
<1>9. F \in SUBSET (0..c) /\ c \in Nat /\ F \subseteq Nat
  BY <1>1, <1>2
<1>10. Max(F) = k
  BY <1>7, <1>8, <1>9, MaxIs
<1>11. Min(F) = j
  <2>1. PICK y : y = Min(F)
    OBVIOUS
  <2>2. y \in F /\ y <= j
    BY <1>7, <1>9, <2>1, MinOf
  <2>3. j <= y /\ y \in Nat
    BY <1>8, <1>9, <2>2
  <2> QED
    BY <1>5, <2>1, <2>2, <2>3
<1>12. f = SubSeq(w, j, k)
  BY <1>4, <1>7, <1>10, <1>11
<1>13. n \in m..z
  OBVIOUS
<1>14. SubSeq(w, j, k) = SubSeq(t, m, n)
  BY <1>1, <1>5, <1>13, PartOfPart
<1> QED
  BY <1>1, <1>4, <1>12, <1>14

\* The lines of t below a and above e are those of d, s lines further down,
\* with nothing but blank lines after them, up to f.
MovedBy(d, t, a, e, f, s) ==
  /\ f >= e + s
  /\ \A i \in a + 1..e - 1 : d[i + s] = t[i]
  /\ \A i \in e + s..f - 1 : d[i] = Blank

LEMMA TrimmedMoved ==
  ASSUME NEW t, NEW d, NEW s \in Int, NEW b \in Nat, NEW e \in Nat, b <= e,
         NEW c \in Nat, c = b + s, NEW f \in Nat, MovedBy(d, t, b, e, f, s)
  PROVE  Trimmed(SubSeq(d, c + 1, f - 1)) = Trimmed(SubSeq(t, b + 1, e - 1))
<1>1. f >= e + s
  BY DEF MovedBy
<1>2. PICK a, z, p, y : a = b + 1 /\ z = e - 1 /\ p = c + 1 /\ y = f - 1
  OBVIOUS
<1> SUFFICES Trimmed(SubSeq(d, p, y)) = Trimmed(SubSeq(t, a, z))
  BY <1>2
<1>3. /\ a \in Nat \ {0} /\ p \in Nat \ {0} /\ z \in Int /\ y \in Int
      /\ p = a + s /\ y >= z + s /\ a <= z + 2
  BY <1>1, <1>2
<1>4. /\ \A i \in a..z : d[i + s] = t[i]
      /\ \A i \in Int : i > z + s /\ i <= y => d[i] = Blank
  BY <1>2 DEF MovedBy
<1>5. CASE \A i \in a..z : t[i] = Blank
  <2>1. ASSUME NEW i \in p..y PROVE d[i] = Blank
    <3>1. CASE i <= z + s
      <4>1. PICK j \in Int : j = i - s
        BY <1>3
      <4>2. j \in a..z /\ j + s = i
        BY <1>3, <3>1, <4>1
      <4>3. d[j + s] = t[j] /\ t[j] = Blank
        BY <1>4, <1>5, <4>2
      <4> QED
        BY <4>2, <4>3
    <3>2. CASE i > z + s
      BY <1>3, <1>4, <3>2
    <3> QED
      BY <1>3, <3>1, <3>2
  <2>2. Trimmed(SubSeq(t, a, z)) = <<>>
    BY <1>3, <1>5, TrimmedNone
  <2>3. Trimmed(SubSeq(d, p, y)) = <<>>
    BY <1>3, <2>1, TrimmedNone
  <2> QED
    BY <2>2, <2>3
<1>6. CASE \E i \in a..z : t[i] # Blank
  <2>1. PICK F, m, n : /\ F = {i \in a..z : t[i] # Blank}
                       /\ m = Min(F) /\ n = Max(F)
    OBVIOUS
  <2>2. F # {} /\ F \subseteq Nat /\ F \in SUBSET (0..e)
    BY <1>2, <1>3, <1>6, <2>1
  <2>3. m \in F /\ \A i \in F : m <= i
    BY <2>1, <2>2, MinOf
  <2>4. n \in F /\ \A i \in F : n >= i
    BY <2>1, <2>2, MaxOf
  <2>5. m \in a..z /\ n \in a..z /\ m <= n /\ t[m] # Blank /\ t[n] # Blank
        /\ m \in Int /\ n \in Int
    BY <2>1, <2>3, <2>4
  <2>6. \A i \in a..m - 1 : t[i] = Blank
    <3> SUFFICES ASSUME NEW i \in a..m - 1, i \in F PROVE FALSE
      BY <1>3, <2>1, <2>5
    <3> QED
      BY <2>3, <2>5
  <2>7. \A i \in n + 1..z : t[i] = Blank
    <3> SUFFICES ASSUME NEW i \in n + 1..z, i \in F PROVE FALSE
      BY <1>3, <2>1, <2>5
    <3> QED
      BY <2>4, <2>5
  <2>8. Trimmed(SubSeq(t, a, z)) = SubSeq(t, m, n)
    BY <1>3, <2>5, <2>6, <2>7, TrimmedTo, ZenonT(40)
  <2>9. PICK j, k \in Int : j = m + s /\ k = n + s
    BY <2>5
  <2>10. j \in p..y /\ k \in p..y /\ j <= k /\ d[j] = t[m] /\ d[k] = t[n]
    BY <1>3, <1>4, <2>5, <2>9
  <2>11. ASSUME NEW i \in p..j - 1 PROVE d[i] = Blank
    <3>1. PICK x \in Int : x = i - s
      BY <1>3
    <3>2. x \in a..m - 1 /\ x \in a..z /\ x + s = i
      BY <1>3, <2>5, <2>9, <3>1
    <3> QED
      BY <1>4, <2>6, <3>2
  <2>12. ASSUME NEW i \in k + 1..y PROVE d[i] = Blank
    <3>1. PICK x \in Int : x = i - s
      BY <1>3
    <3>2. CASE i <= z + s
      <4>1. x \in n + 1..z /\ x \in a..z /\ x + s = i
        BY <1>3, <2>5, <2>9, <3>1, <3>2
      <4> QED
        BY <1>4, <2>7, <4>1
    <3>3. CASE i > z + s
      BY <1>3, <1>4, <3>3
    <3> QED
      BY <1>3, <3>2, <3>3
  <2>13. Trimmed(SubSeq(d, p, y)) = SubSeq(d, j, k)
    <3>1. d[j] # Blank /\ d[k] # Blank
      BY <2>5, <2>10
    <3>2. \A i \in p..j - 1 : d[i] = Blank
      BY <2>11
    <3>3. \A i \in k + 1..y : d[i] = Blank
      BY <2>12
    <3>4. p \in Nat \ {0} /\ y \in Int /\ j \in p..y /\ k \in p..y /\ j <= k
      BY <1>3, <2>10
    <3> QED
      BY <3>1, <3>2, <3>3, <3>4, TrimmedTo
  <2>14. SubSeq(d, j, k) = SubSeq(t, m, n)
    <3>1. LiesFurther(d, t, m, n, s)
      BY <1>3, <1>4, <2>5 DEF LiesFurther
    <3>2. m \in Int /\ n \in Int
      BY <2>5
    <3>3. PartKept(d, t, m, n, s)
      BY <3>2, PartsKept, Zenon
    <3>4. SubSeq(d, m + s, n + s) = SubSeq(t, m, n)
      BY <3>1, <3>3, Zenon DEF PartKept
    <3>5. j = m + s /\ k = n + s
      BY <2>9, Zenon
    <3> QED
      BY <3>4, <3>5, Zenon
  <2> QED
    BY <2>8, <2>13, <2>14
<1> QED
  BY <1>5, <1>6

\* The lines from a request line on say the same wherever they are.
LEMMA TailMoved ==
  ASSUME NEW t, NEW d, NEW s \in Int, NEW l \in Nat \ {0}, NEW e \in Nat, l < e,
         NEW k \in Nat \ {0}, k = l + s, NEW f \in Nat, MovedBy(d, t, l, e, f, s),
         NEW b, b = BodyLine(t, l, e), NEW c, c = b + s
  PROVE  /\ BodyLine(d, k, f) = c /\ b \in l + 1..e /\ b \in Nat /\ c \in Nat
         /\ Picked(d, HeaderLines(d, k, c)) = Picked(t, HeaderLines(t, l, b))
         /\ Trimmed(SubSeq(d, c + 1, f - 1)) = Trimmed(SubSeq(t, b + 1, e - 1))
<1>1. b \in l + 1..e /\ (b < e => t[b] = Blank) /\ \A i \in l + 1..b - 1 : t[i] # Blank
  <2>1. l \in Nat
    OBVIOUS
  <2>2. IsBody(t, l, e, b)
    BY <2>1, BodyHas
  <2> QED
    BY <2>2 DEF IsBody
<1>2. c = b + s
  OBVIOUS
<1>3. /\ f >= e + s /\ \A i \in l + 1..e - 1 : d[i + s] = t[i]
      /\ \A i \in e + s..f - 1 : d[i] = Blank
  BY DEF MovedBy
<1>4. b \in Nat /\ c \in Nat /\ k < f /\ c \in k + 1..f /\ b <= e
  BY <1>1, <1>2, <1>3
<1>5. BodyLine(d, k, f) = c
  <2>1. ASSUME c < f PROVE d[c] = Blank
    <3>1. CASE b < e
      <4>1. b \in l + 1..e - 1
        BY <1>1, <3>1
      <4> QED
        BY <1>1, <1>2, <1>3, <3>1, <4>1
    <3>2. CASE b = e
      <4>1. c \in e + s..f - 1
        BY <1>2, <1>4, <2>1, <3>2
      <4> QED
        BY <1>3, <4>1
    <3> QED
      BY <1>1, <3>1, <3>2
  <2>2. ASSUME NEW i \in k + 1..c - 1 PROVE d[i] # Blank
    <3>1. PICK j \in Int : j = i - s
      BY <1>4
    <3>2. j \in l + 1..b - 1 /\ j \in l + 1..e - 1 /\ j + s = i
      BY <1>1, <1>2, <1>4, <3>1
    <3> QED
      BY <1>1, <1>3, <3>2
  <2>3. IsBody(d, k, f, c)
    BY <1>4, <2>1, <2>2 DEF IsBody
  <2> QED
    BY <1>4, <2>3, BodyOf
<1>6. Picked(d, HeaderLines(d, k, c)) = Picked(t, HeaderLines(t, l, b))
  <2>1. PICK E, D : E = HeaderLines(t, l, b) /\ D = HeaderLines(d, k, c)
    OBVIOUS
  <2>2. E \in SUBSET Int /\ IsFiniteSet(E) /\ \A i \in E : d[i + s] = t[i]
    <3>1. E \subseteq l + 1..b - 1
      BY <2>1 DEF HeaderLines
    <3>2. l + 1 \in Int /\ b - 1 \in Int
      BY <1>4
    <3>3. IsFiniteSet(l + 1..b - 1)
      BY <3>2, FS_Interval
    <3>4. IsFiniteSet(E)
      BY <3>1, <3>3, FS_Subset
    <3>5. \A i \in l + 1..b - 1 : i \in l + 1..e - 1 /\ i \in Int
      BY <1>1
    <3> QED
      BY <1>3, <3>1, <3>4, <3>5
  <2>3. (\A i \in E : i + s \in D) /\ \A i \in D : \E j \in E : i = j + s
    <3>1. ASSUME NEW i \in D PROVE \E j \in E : i = j + s
      <4>1. i \in k + 1..c - 1 /\ d[i][1] = "x"
        BY <2>1 DEF HeaderLines
      <4>2. PICK j \in Int : j = i - s
        BY <1>4, <4>1
      <4>3. j \in l + 1..b - 1 /\ j \in l + 1..e - 1 /\ i = j + s
        BY <1>1, <1>2, <1>4, <4>1, <4>2
      <4>4. d[j + s] = t[j]
        BY <1>3, <4>3
      <4>5. j \in E
        BY <2>1, <4>1, <4>3, <4>4 DEF HeaderLines
      <4> QED
        BY <4>3, <4>5
    <3>2. ASSUME NEW j \in E PROVE j + s \in D
      <4>1. j \in l + 1..b - 1 /\ t[j][1] = "x"
        BY <2>1 DEF HeaderLines
      <4>2. j + s \in k + 1..c - 1 /\ d[j + s] = t[j]
        BY <1>1, <1>2, <1>3, <1>4, <4>1
      <4> QED
        BY <2>1, <4>1, <4>2 DEF HeaderLines
    <3> QED
      BY <3>1, <3>2
  <2> QED
    <3>1. Picked(d, D) = Picked(t, E)
      <4>1. PlacedAt(D, d, E, t, s)
        BY <2>2, <2>3 DEF PlacedAt
      <4> QED
        BY <2>2, <4>1, PickedMoved
    <3> QED
      BY <2>1, <3>1
<1>7. Trimmed(SubSeq(d, c + 1, f - 1)) = Trimmed(SubSeq(t, b + 1, e - 1))
  <2>1. MovedBy(d, t, b, e, f, s)
    <3>1. \A i \in b + 1..e - 1 : i \in l + 1..e - 1
      BY <1>1
    <3> QED
      BY <1>3, <3>1 DEF MovedBy
  <2> QED
    BY <1>2, <1>4, <2>1, TrimmedMoved
<1> QED
  BY <1>1, <1>4, <1>5, <1>6, <1>7

\* A section that moved means the same.
LEMMA SectionMoved ==
  ASSUME NEW t, IsText(t), NEW h \in 0..Len(t), NEW e, e = NextSeparator(t, h),
         NEW d, IsText(d), NEW g \in 0..Len(d), NEW f, f = NextSeparator(d, g),
         NEW s \in Int, g = h + s, MovedBy(d, t, h, e, f, s)
  PROVE  /\ HasRequest(d, g) <=> HasRequest(t, h)
         /\ HasRequest(t, h) => SaidOf(d, g) = SaidOf(t, h)
<1>1. h \in Nat /\ e \in Nat /\ h < e /\ g \in Nat /\ f \in Nat /\ g < f
  BY SectionPlaces
<1>2. /\ f >= e + s /\ \A i \in h + 1..e - 1 : d[i + s] = t[i]
      /\ \A i \in e + s..f - 1 : d[i] = Blank
  BY DEF MovedBy
<1>3. ASSUME HasRequest(t, h)
      PROVE  HasRequest(d, g) /\ SaidOf(d, g) = SaidOf(t, h)
  <2>1. PICK l, b : l = RequestLine(t, h) /\ b = BodyLine(t, l, e)
    OBVIOUS
  <2>2. l \in h + 1..e - 1 /\ t[l][1] = "request"
        /\ \A i \in h + 1..l - 1 : t[i] = Blank \/ IsComment(t[i])
    BY <1>3, <2>1, LineHas DEF IsLine
  <2>3. PICK k \in Int : k = l + s
    BY <2>2
  <2>4. l \in Nat \ {0} /\ l < e /\ k \in Nat \ {0} /\ k \in g + 1..f - 1
        /\ d[k] = t[l]
    BY <1>1, <1>2, <2>2, <2>3, SMTT(40)
  <2>5. ASSUME NEW i \in g + 1..k - 1 PROVE d[i] = Blank \/ IsComment(d[i])
    <3>1. PICK j \in Int : j = i - s
      BY <2>4
    <3>2. j \in h + 1..l - 1 /\ j \in h + 1..e - 1 /\ j + s = i
      BY <1>1, <2>2, <2>3, <2>4, <3>1
    <3>3. d[i] = t[j]
      BY <1>2, <3>2
    <3> QED
      BY <2>2, <3>2, <3>3
  <2>6. IsLine(d, g, f, k)
    BY <2>2, <2>4, <2>5 DEF IsLine
  <2>7. RequestLine(d, g) = k /\ HasRequest(d, g)
    BY <2>6, LineOf
  <2>8. MovedBy(d, t, l, e, f, s)
    <3>1. \A i \in l + 1..e - 1 : i \in h + 1..e - 1
      BY <1>1, <2>2
    <3> QED
      BY <1>2, <3>1 DEF MovedBy
  <2>9. PICK c : c = b + s
    OBVIOUS
  <2>10. /\ BodyLine(d, k, f) = c /\ b \in l + 1..e /\ b \in Nat /\ c \in Nat
         /\ Picked(d, HeaderLines(d, k, c)) = Picked(t, HeaderLines(t, l, b))
         /\ Trimmed(SubSeq(d, c + 1, f - 1)) = Trimmed(SubSeq(t, b + 1, e - 1))
    <3>1. l \in Nat \ {0} /\ e \in Nat /\ l < e /\ k \in Nat \ {0} /\ k = l + s
          /\ f \in Nat /\ d[k] = t[l] /\ b = BodyLine(t, l, e) /\ c = b + s
      BY <1>1, <2>1, <2>3, <2>4, <2>9
    <3> QED
      BY <2>8, <3>1, TailMoved
  <2>11. SubSeq(d, g + 1, c - 1) = SubSeq(t, h + 1, b - 1)
    <3>1. h + 1 \in Int /\ b - 1 \in Int /\ g + 1 = (h + 1) + s
          /\ c - 1 = (b - 1) + s
      BY <1>1, <2>9, <2>10
    <3>2. LiesFurther(d, t, h + 1, b - 1, s)
      <4> SUFFICES ASSUME NEW i \in h + 1..b - 1 PROVE d[i + s] = t[i]
        BY Zenon DEF LiesFurther
      <4>0. h \in Int /\ e \in Int /\ b \in Int /\ b <= e
        BY <1>1, <2>10
      <4>1. i \in h + 1..e - 1
        BY <4>0
      <4> QED
        BY <1>2, <4>1, Zenon
    <3>3. PartKept(d, t, h + 1, b - 1, s)
      BY <3>1, PartsKept, Zenon
    <3>4. SubSeq(d, (h + 1) + s, (b - 1) + s) = SubSeq(t, h + 1, b - 1)
      BY <3>2, <3>3, Zenon DEF PartKept
    <3> QED
      BY <3>1, <3>4, Zenon
  <2>12. Says(d, g, f, k, c) = Says(t, h, e, l, b)
    BY <2>4, <2>10, <2>11 DEF Says
  <2>13. SaidOf(t, h) = Says(t, h, e, l, b)
    BY <2>1 DEF SaidOf
  <2>14. SaidOf(d, g) = Says(d, g, f, k, c)
    BY <2>7, <2>10 DEF SaidOf
  <2> QED
    BY <2>7, <2>12, <2>13, <2>14
<1>4. ASSUME HasRequest(d, g) PROVE HasRequest(t, h)
  <2>1. PICK k : k = RequestLine(d, g)
    OBVIOUS
  <2>2. k \in g + 1..f - 1 /\ d[k][1] = "request"
        /\ \A i \in g + 1..k - 1 : d[i] = Blank \/ IsComment(d[i])
    BY <1>4, <2>1, LineHas DEF IsLine
  <2>3. k \in Int /\ k < e + s
    <3>1. d[k] # Blank
      BY <2>2, LineKind
    <3>2. k \notin e + s..f - 1
      BY <1>2, <3>1
    <3> QED
      BY <1>1, <2>2, <3>2
  <2>4. PICK l \in Int : l = k - s
    BY <2>3
  <2>5. l \in h + 1..e - 1 /\ l + s = k
    BY <1>1, <2>2, <2>3, <2>4
  <2>6. t[l][1] = "request"
    BY <1>2, <2>2, <2>5
  <2>7. ASSUME NEW i \in h + 1..l - 1 PROVE t[i] = Blank \/ IsComment(t[i])
    <3>1. i + s \in g + 1..k - 1 /\ i \in h + 1..e - 1
      BY <1>1, <2>2, <2>5, SMTT(40)
    <3>2. d[i + s] = t[i]
      BY <1>2, <3>1
    <3> QED
      BY <2>2, <3>1, <3>2
  <2>8. IsLine(t, h, e, l)
    BY <2>5, <2>6, <2>7 DEF IsLine
  <2> QED
    BY <2>8, LineOf
<1> QED
  BY <1>3, <1>4

----------------------------------------------------------------------------
(* What a text means.                                                      *)

RequestHeads(t) == {h \in Heads(t) : HasRequest(t, h)}

\* A list of meanings, one for each head.
MeaningHas(t, hs, n) ==
  /\ Ascends(RequestHeads(t), hs, n) /\ RequestHeads(t) \in SUBSET Int
  /\ RequestHeads(t) \subseteq 0..Len(t) /\ DOMAIN hs = 1..n /\ n \in Nat
  /\ Requests(t) = [k \in 1..n |-> RequestOf(t, hs[k])]
  /\ Meaning(t) = [k \in 1..n |-> Means(t, hs[k])]

LEMMA MeaningIs ==
  ASSUME NEW t, IsText(t), NEW hs, NEW n,
         Ascends(RequestHeads(t), hs, n)
  PROVE  MeaningHas(t, hs, n)
<1>1. PICK E : E = RequestHeads(t)
  OBVIOUS
<1>2. E \subseteq 0..Len(t) /\ Len(t) \in Nat
  BY <1>1, RequestsAre DEF RequestHeads
<1>3. E \in SUBSET Int
  BY <1>2
<1>4. InOrder(E) = hs
  BY <1>1, <1>3, AscendsOnce
<1>5. n \in Nat /\ DOMAIN hs = 1..n
  BY DEF Ascends
<1>6. Requests(t) = [k \in 1..n |-> RequestOf(t, hs[k])]
  BY <1>1, <1>4, <1>5 DEF Requests, RequestHeads
<1>7. PICK rs : rs = Requests(t)
  OBVIOUS
<1>8. DOMAIN rs = 1..n /\ \A k \in 1..n : rs[k] = RequestOf(t, hs[k])
  BY <1>6, <1>7
<1>9. Meaning(t) = [k \in 1..n |->
          [name |-> rs[k].name, target |-> rs[k].target,
           headers |-> rs[k].headers, favorite |-> rs[k].favorite,
           body |-> rs[k].body]]
  BY <1>7, <1>8 DEF Meaning
<1>10. \A k \in 1..n :
         [name |-> rs[k].name, target |-> rs[k].target,
          headers |-> rs[k].headers, favorite |-> rs[k].favorite,
          body |-> rs[k].body] = Means(t, hs[k])
  BY <1>8, MeansIs
<1>11. Meaning(t) = [k \in 1..n |-> Means(t, hs[k])]
  BY <1>9, <1>10
<1> QED
  BY <1>1, <1>2, <1>3, <1>5, <1>6, <1>11 DEF MeaningHas

LEMMA MeaningExists ==
  ASSUME NEW t, IsText(t)
  PROVE  \E hs, n : MeaningHas(t, hs, n)
<1>1. PICK E : E = RequestHeads(t)
  OBVIOUS
<1>2. E \subseteq 0..Len(t) /\ Len(t) \in Nat
  BY <1>1, RequestsAre DEF RequestHeads
<1>3. E \in SUBSET Int
  BY <1>2
<1>4. IsFiniteSet(0..Len(t))
  BY <1>2, FS_Interval
<1>5. IsFiniteSet(E)
  BY <1>2, <1>4, FS_Subset
<1>6. PICK hs, n : hs = InOrder(E) /\ n = Cardinality(E)
  OBVIOUS
<1>7. Ascends(E, hs, n)
  BY <1>3, <1>5, <1>6, InOrderAscends
<1> QED
  BY <1>1, <1>7, MeaningIs

\* A map between heads that keeps their order.
Maps(E, f, D) ==
  /\ \A h \in E : f[h] \in D
  /\ \A g \in D : \E h \in E : f[h] = g
  /\ \A h, i \in E : h < i => f[h] < f[i]

\* One request changes.
LEMMA MeaningChanged ==
  ASSUME NEW t, IsText(t), NEW d, IsText(d), NEW f,
         Maps(RequestHeads(t), f, RequestHeads(d)),
         NEW x \in RequestHeads(t),
         \A h \in RequestHeads(t) \ {x} : Means(d, f[h]) = Means(t, h)
  PROVE  \E k \in DOMAIN Meaning(t) :
           /\ Meaning(t)[k] = Means(t, x)
           /\ Meaning(d) = [Meaning(t) EXCEPT ![k] = Means(d, f[x])]
<1>1. PICK hs, n : MeaningHas(t, hs, n)
  BY MeaningExists
<1>2. PICK E, D : E = RequestHeads(t) /\ D = RequestHeads(d)
  OBVIOUS
<1>3. /\ n \in Nat /\ Meaning(t) = [k \in 1..n |-> Means(t, hs[k])]
      /\ \A k \in 1..n : hs[k] \in E
      /\ \A e \in E : \E k \in 1..n : hs[k] = e
      /\ \A i, j \in 1..n : i < j => hs[i] < hs[j]
  BY <1>1, <1>2 DEF MeaningHas, Ascends
<1>4. /\ \A h \in E : f[h] \in D
      /\ \A g \in D : \E h \in E : f[h] = g
      /\ \A h, i \in E : h < i => f[h] < f[i]
  BY <1>2 DEF Maps
<1>5. PICK gs : gs = [k \in 1..n |-> f[hs[k]]]
  OBVIOUS
<1>6. Ascends(D, gs, n)
  <2>1. gs = [k \in 1..n |-> gs[k]]
    BY <1>5
  <2>2. \A k \in 1..n : gs[k] \in D
    BY <1>3, <1>4, <1>5
  <2>3. ASSUME NEW e \in D PROVE \E k \in 1..n : gs[k] = e
    <3>1. PICK h \in E : f[h] = e
      BY <1>4
    <3>2. PICK k \in 1..n : hs[k] = h
      BY <1>3
    <3> QED
      BY <1>5, <3>1, <3>2
  <2>4. \A i, j \in 1..n : i < j => gs[i] < gs[j]
    BY <1>3, <1>4, <1>5
  <2> QED
    BY <1>3, <2>1, <2>2, <2>3, <2>4 DEF Ascends
<1>7. MeaningHas(d, gs, n)
  BY <1>2, <1>6, MeaningIs
<1>8. Meaning(d) = [k \in 1..n |-> Means(d, gs[k])]
  BY <1>7 DEF MeaningHas
<1>9. PICK k \in 1..n : hs[k] = x
  BY <1>2, <1>3
<1>10. ASSUME NEW j \in 1..n
       PROVE  Means(d, gs[j]) = IF j = k THEN Means(d, f[x]) ELSE Means(t, hs[j])
  <2>1. CASE j = k
    BY <1>5, <1>9, <2>1
  <2>2. CASE j # k
    <3>1. hs[j] # x
      <4>1. j < k \/ k < j
        BY <2>2
      <4>2. hs[j] \in Int /\ hs[k] \in Int
        BY <1>1, <1>2, <1>3 DEF MeaningHas
      <4> QED
        BY <1>3, <1>9, <4>1, <4>2
    <3>2. Means(d, f[hs[j]]) = Means(t, hs[j])
      BY <1>2, <1>3, <3>1
    <3> QED
      BY <1>5, <2>2, <3>2
  <2> QED
    BY <2>1, <2>2
<1>11. k \in DOMAIN Meaning(t) /\ Meaning(t)[k] = Means(t, x)
  BY <1>3, <1>9
<1>12. Meaning(d) = [Meaning(t) EXCEPT ![k] = Means(d, f[x])]
  BY <1>3, <1>8, <1>10, SMTT(40)
<1> QED
  BY <1>11, <1>12

\* One request more.
LEMMA MeaningMore ==
  ASSUME NEW t, IsText(t), NEW d, IsText(d), NEW f, NEW y \in RequestHeads(d),
         Maps(RequestHeads(t), f, RequestHeads(d) \ {y}),
         NEW hs, NEW n, MeaningHas(t, hs, n), NEW j \in 0..n,
         \A k \in 1..j : f[hs[k]] < y, \A k \in j + 1..n : y < f[hs[k]],
         \A h \in RequestHeads(t) : Means(d, f[h]) = Means(t, h)
  PROVE  Meaning(d) = [k \in 1..n + 1 |->
                         IF k <= j THEN Meaning(t)[k]
                         ELSE IF k = j + 1 THEN Means(d, y)
                         ELSE Meaning(t)[k - 1]]
<1>1. PICK E, D : E = RequestHeads(t) /\ D = RequestHeads(d)
  OBVIOUS
<1>2. /\ n \in Nat /\ Meaning(t) = [k \in 1..n |-> Means(t, hs[k])]
      /\ \A k \in 1..n : hs[k] \in E
      /\ \A e \in E : \E k \in 1..n : hs[k] = e
      /\ \A i, l \in 1..n : i < l => hs[i] < hs[l]
  BY <1>1 DEF MeaningHas, Ascends
<1>3. /\ \A h \in E : f[h] \in D \ {y}
      /\ \A g \in D \ {y} : \E h \in E : f[h] = g
      /\ \A h, i \in E : h < i => f[h] < f[i]
  BY <1>1 DEF Maps
<1>4. D \in SUBSET Int
  <2>1. PICK a, m : MeaningHas(d, a, m)
    BY MeaningExists
  <2> QED
    BY <1>1, <2>1 DEF MeaningHas
<1>5. PICK gs : gs = [k \in 1..n + 1 |-> IF k <= j THEN f[hs[k]]
                                         ELSE IF k = j + 1 THEN y
                                         ELSE f[hs[k - 1]]]
  OBVIOUS
<1>6. j \in Nat /\ j <= n
  BY <1>2
<1>7. /\ \A k \in 1..n + 1 : k <= j => gs[k] = f[hs[k]] /\ k \in 1..n
      /\ gs[j + 1] = y /\ j + 1 \in 1..n + 1
      /\ \A k \in 1..n + 1 : k > j + 1 => gs[k] = f[hs[k - 1]] /\ k - 1 \in j + 1..n
  <2>1. \A k \in 1..n + 1 : k <= j => gs[k] = f[hs[k]] /\ k \in 1..n
    BY <1>2, <1>5, <1>6
  <2>2. gs[j + 1] = y /\ j + 1 \in 1..n + 1
    BY <1>2, <1>5, <1>6
  <2>3. \A k \in 1..n + 1 : k > j + 1 => gs[k] = f[hs[k - 1]] /\ k - 1 \in j + 1..n
    BY <1>2, <1>5, <1>6
  <2> QED
    BY <2>1, <2>2, <2>3
<1>8. \A k \in 1..n + 1 : k <= j \/ k = j + 1 \/ k > j + 1
  BY <1>6
<1>9. Ascends(D, gs, n + 1)
  <2>1. gs = [k \in 1..n + 1 |-> gs[k]]
    BY <1>5
  <2>2. ASSUME NEW k \in 1..n + 1 PROVE gs[k] \in D
    <3>1. CASE k <= j
      BY <1>2, <1>3, <1>7, <3>1
    <3>2. CASE k = j + 1
      BY <1>1, <1>7, <3>2
    <3>3. CASE k > j + 1
      <4>1. gs[k] = f[hs[k - 1]] /\ k - 1 \in 1..n
        BY <1>6, <1>7, <3>3
      <4> QED
        BY <1>2, <1>3, <4>1
    <3> QED
      BY <1>8, <3>1, <3>2, <3>3
  <2>3. ASSUME NEW e \in D PROVE \E k \in 1..n + 1 : gs[k] = e
    <3>1. CASE e = y
      BY <1>7, <3>1
    <3>2. CASE e # y
      <4>1. PICK h \in E : f[h] = e
        BY <1>3, <3>2
      <4>2. PICK k \in 1..n : hs[k] = h
        BY <1>2
      <4>3. CASE k <= j
        <5>1. k \in 1..n + 1
          BY <1>2
        <5> QED
          BY <1>7, <4>1, <4>2, <4>3, <5>1
      <4>4. CASE k > j
        <5>1. k + 1 \in 1..n + 1 /\ k + 1 > j + 1 /\ k + 1 - 1 = k
          BY <1>2, <1>6, <4>4
        <5>2. gs[k + 1] = f[hs[k]]
          BY <1>7, <5>1
        <5> QED
          BY <4>1, <4>2, <5>1, <5>2
      <4> QED
        BY <1>6, <4>3, <4>4
    <3> QED
      BY <3>1, <3>2
  <2>4. ASSUME NEW i \in 1..n + 1, NEW l \in 1..n + 1, i < l PROVE gs[i] < gs[l]
    <3>0. gs[i] \in Int /\ gs[l] \in Int /\ y \in Int
      BY <1>1, <1>4, <2>2
    <3>1. CASE l <= j
      <4>1. i <= j /\ i \in 1..n /\ l \in 1..n
        BY <1>2, <1>6, <2>4, <3>1
      <4>2. f[hs[i]] < f[hs[l]]
        BY <1>2, <1>3, <2>4, <4>1
      <4> QED
        BY <1>7, <3>1, <4>1, <4>2
    <3>2. CASE i > j + 1
      <4>1. l > j + 1
        BY <1>6, <2>4, <3>2
      <4>2. PICK p, q \in Int : p = i - 1 /\ q = l - 1
        OBVIOUS
      <4>3. p \in 1..n /\ q \in 1..n /\ p < q
        BY <1>2, <1>6, <2>4, <3>2, <4>1, <4>2
      <4>4. hs[p] \in E /\ hs[q] \in E /\ hs[p] < hs[q]
        BY <1>2, <4>3
      <4>5. f[hs[p]] < f[hs[q]]
        BY <1>3, <4>4
      <4> QED
        BY <1>7, <3>2, <4>1, <4>2, <4>5
    <3>3. CASE i <= j + 1 /\ l > j
      <4>1. i # j + 1 => gs[i] < y
        BY <1>6, <1>7, <3>3
      <4>2. l # j + 1 => y < gs[l]
        BY <1>6, <1>7, <3>3
      <4>3. (i = j + 1 => gs[i] = y) /\ (l = j + 1 => gs[l] = y)
        BY <1>7
      <4> QED
        BY <2>4, <3>0, <4>1, <4>2, <4>3
    <3> QED
      BY <1>6, <3>1, <3>2, <3>3
  <2> QED
    BY <1>2, <2>1, <2>2, <2>3, <2>4 DEF Ascends
<1>10. MeaningHas(d, gs, n + 1)
  BY <1>1, <1>9, MeaningIs
<1>11. Meaning(d) = [k \in 1..n + 1 |-> Means(d, gs[k])]
  BY <1>10 DEF MeaningHas
<1>12. ASSUME NEW k \in 1..n + 1
       PROVE  Means(d, gs[k]) = IF k <= j THEN Meaning(t)[k]
                                ELSE IF k = j + 1 THEN Means(d, y)
                                ELSE Meaning(t)[k - 1]
  <2>1. CASE k <= j
    <3>1. k \in 1..n /\ gs[k] = f[hs[k]] /\ hs[k] \in E
      BY <1>2, <1>7, <2>1
    <3> QED
      BY <1>1, <1>2, <2>1, <3>1
  <2>2. CASE k = j + 1
    BY <1>6, <1>7, <2>2
  <2>3. CASE k > j + 1
    <3>1. gs[k] = f[hs[k - 1]] /\ k - 1 \in 1..n
      BY <1>6, <1>7, <2>3
    <3>2. Means(d, gs[k]) = Meaning(t)[k - 1]
      BY <1>1, <1>2, <3>1
    <3> QED
      BY <1>6, <2>3, <3>2
  <2> QED
    BY <1>8, <2>1, <2>2, <2>3
<1> QED
  BY <1>11, <1>12

\* Behind one of the requests.
IsInserted(u, s, n, k, v) ==
  /\ u = [i \in 1..n + 1 |-> u[i]]
  /\ \A i \in 1..n + 1 : u[i] = IF i <= k THEN s[i]
                               ELSE IF i = k + 1 THEN v ELSE s[i - 1]

LEMMA InsertAtIs ==
  ASSUME NEW S, NEW s \in Seq(S), NEW n \in Nat, n = Len(s), NEW k \in 1..n, NEW v,
         NEW m, m = k + 1, NEW u, u = InsertAt(s, m, v)
  PROVE  IsInserted(u, s, n, k, v)
<1>1. PICK a, b, w, c : /\ a = SubSeq(s, 1, k) /\ b = SubSeq(s, k + 1, n)
                        /\ w = a \o <<v>> /\ c = w \o b
  OBVIOUS
<1>2. u = c
  <2>2. InsertAt(s, m, v) = SubSeq(s, 1, m - 1) \o <<v>> \o SubSeq(s, m, Len(s))
    BY DEF InsertAt
  <2>3. m - 1 = k /\ Len(s) = n /\ m = k + 1
    OBVIOUS
  <2> QED
    BY <1>1, <2>2, <2>3
<1>3. \A i \in 1..n : s[i] \in S
  BY ElementOfSeq
<1>4. a \in Seq(S) /\ Len(a) = k /\ \A i \in 1..k : a[i] = s[i]
  <2>1. \A i \in 1..k : s[i] \in S
    BY <1>3
  <2>2. a \in Seq(S) /\ Len(a) = (IF 1 <= k THEN k - 1 + 1 ELSE 0)
        /\ \A i \in 1..k - 1 + 1 : a[i] = s[1 + i - 1]
    BY <1>1, <2>1, SubSeqProperties
  <2>3. \A i \in 1..k : 1 + i - 1 = i /\ i \in 1..k - 1 + 1
    OBVIOUS
  <2> QED
    BY <2>2, <2>3
<1>5. b \in Seq(S) /\ Len(b) = n - k /\ \A i \in 1..n - k : b[i] = s[k + i]
  <2>1. k \in Nat /\ k <= n /\ n <= Len(s)
    OBVIOUS
  <2>2. b \in Seq(S) /\ IsPart(b, s, k, n - k)
    BY <1>1, <2>1, PartIs
  <2> QED
    BY <2>2 DEF IsPart
<1>6. PICK T : T = S \cup {v}
  OBVIOUS
<1>7. a \in Seq(T) /\ b \in Seq(T) /\ <<v>> \in Seq(T) /\ Len(<<v>>) = 1
  <2>1. S \subseteq T /\ v \in T
    BY <1>6
  <2>2. <<v>> \in Seq(T) /\ Len(<<v>>) = 1
    BY <2>1
  <2> QED
    BY <1>4, <1>5, <2>1, <2>2, SeqMonotonic
<1>8. PICK o : o = <<v>>
  OBVIOUS
<1>9. w \in Seq(T) /\ IsJoin(w, a, o)
  BY <1>1, <1>7, <1>8, TextsJoined
<1>10. c \in Seq(T) /\ IsJoin(c, w, b)
  BY <1>1, <1>7, <1>9, TextsJoined
<1>11. Len(o) = 1 /\ o[1] = v
  BY <1>8
<1>12. Len(w) = k + 1 /\ (\A i \in 1..k : w[i] = s[i]) /\ w[k + 1] = v
  BY <1>4, <1>9, <1>11 DEF IsJoin
<1>13. Len(c) = n + 1 /\ (\A i \in 1..k + 1 : c[i] = w[i])
       /\ \A i \in 1..n - k : c[k + 1 + i] = b[i]
  BY <1>5, <1>10, <1>12 DEF IsJoin
<1>14. ASSUME NEW i \in 1..n + 1
       PROVE  c[i] = IF i <= k THEN s[i] ELSE IF i = k + 1 THEN v ELSE s[i - 1]
  <2>1. CASE i <= k
    BY <1>12, <1>13, <2>1
  <2>2. CASE i = k + 1
    BY <1>12, <1>13, <2>2
  <2>3. CASE i > k + 1
    <3>1. PICK j \in Int : j = i - (k + 1)
      OBVIOUS
    <3>2. j \in 1..n - k /\ k + 1 + j = i /\ k + j = i - 1
      BY <2>3, <3>1
    <3>3. c[i] = s[i - 1]
      BY <1>5, <1>13, <3>2
    <3> QED
      BY <2>3, <3>3
  <2> QED
    BY <2>1, <2>2, <2>3
<1>15. c = [i \in 1..n + 1 |-> c[i]]
  BY <1>10, <1>13, LenProperties
<1> QED
  BY <1>2, <1>14, <1>15 DEF IsInserted

\* Requests keep their meaning, and go above or below a new one.
Around(d, t, f, x, y) ==
  \A h \in RequestHeads(t) : /\ Means(d, f[h]) = Means(t, h)
                             /\ h <= x => f[h] < y
                             /\ h > x => f[h] > y
Behind(d, t, x, v) ==
  \E k \in DOMAIN Meaning(t) :
    /\ Meaning(t)[k] = Means(t, x)
    /\ Meaning(d) = InsertAt(Meaning(t), k + 1, v) /\ Meaning(d)[k + 1] = v

LEMMA MeaningInserted ==
  ASSUME NEW t, IsText(t), NEW d, IsText(d), NEW f, NEW y \in RequestHeads(d),
         Maps(RequestHeads(t), f, RequestHeads(d) \ {y}),
         NEW x \in RequestHeads(t), Around(d, t, f, x, y)
  PROVE  Behind(d, t, x, Means(d, y))
<1>0. \A h \in RequestHeads(t) : /\ Means(d, f[h]) = Means(t, h)
                                 /\ h <= x => f[h] < y
                                 /\ h > x => f[h] > y
  BY DEF Around
<1>1. PICK hs, n : MeaningHas(t, hs, n)
  BY MeaningExists
<1>2. PICK E : E = RequestHeads(t)
  OBVIOUS
<1>3. /\ n \in Nat /\ Meaning(t) = [k \in 1..n |-> Means(t, hs[k])]
      /\ \A k \in 1..n : hs[k] \in E
      /\ \A e \in E : \E k \in 1..n : hs[k] = e
      /\ \A i, l \in 1..n : i < l => hs[i] < hs[l]
      /\ E \in SUBSET Int
  BY <1>1, <1>2 DEF MeaningHas, Ascends
<1>4. RequestHeads(d) \in SUBSET Int
  <2>1. PICK a, m : MeaningHas(d, a, m)
    BY MeaningExists
  <2> QED
    BY <2>1 DEF MeaningHas
<1>5. \A h \in E : f[h] \in Int /\ y \in Int
  BY <1>2, <1>4 DEF Maps
<1>6. PICK k \in 1..n : hs[k] = x
  BY <1>2, <1>3
<1>7. ASSUME NEW i \in 1..k PROVE f[hs[i]] < y
  <2>1. i \in 1..n /\ (i < k \/ i = k)
    BY <1>3
  <2>2. hs[i] \in E /\ hs[i] \in Int /\ x \in Int
    BY <1>2, <1>3, <2>1
  <2>3. hs[i] <= x
    BY <1>3, <1>6, <2>1, <2>2
  <2> QED
    BY <1>0, <1>2, <2>2, <2>3
<1>8. ASSUME NEW i \in k + 1..n PROVE y < f[hs[i]]
  <2>1. i \in 1..n /\ k < i
    BY <1>3
  <2>2. hs[i] \in E /\ hs[i] > x
    BY <1>3, <1>6, <2>1
  <2> QED
    BY <1>0, <1>2, <1>5, <2>2
<1>9. k \in 0..n /\ \A h \in RequestHeads(t) : Means(d, f[h]) = Means(t, h)
  BY <1>0, <1>3
<1>10. PICK s, v : s = Meaning(t) /\ v = Means(d, y)
  OBVIOUS
<1>11. Meaning(d) = [i \in 1..n + 1 |-> IF i <= k THEN s[i]
                                        ELSE IF i = k + 1 THEN v ELSE s[i - 1]]
  BY <1>1, <1>7, <1>8, <1>9, <1>10, MeaningMore
<1>12. s[k] = Means(t, x) /\ k \in DOMAIN s
  BY <1>3, <1>6, <1>10
<1>13. PICK S : S = {s[i] : i \in 1..n}
  OBVIOUS
<1>14. s \in Seq(S) /\ n = Len(s)
  <2>1. s = [i \in 1..n |-> s[i]]
    BY <1>3, <1>10
  <2>2. \A i \in 1..n : s[i] \in S
    BY <1>13
  <2>3. [i \in 1..n |-> s[i]] \in Seq(S)
    BY <1>3, <2>2, IsASeq
  <2>4. DOMAIN s = 1..n /\ s \in Seq(S)
    BY <2>1, <2>3
  <2>5. n = Len(s)
    BY <1>3, <2>4, LenProperties
  <2> QED
    BY <2>4, <2>5
<1>15. Meaning(d) = InsertAt(s, k + 1, v)
  <2>1. PICK m, u : m = k + 1 /\ u = InsertAt(s, m, v)
    OBVIOUS
  <2>2. n \in Nat /\ k \in 1..n /\ n = Len(s)
    BY <1>3, <1>14
  <2>3. IsInserted(u, s, n, k, v)
    BY <1>14, <2>1, <2>2, InsertAtIs
  <2>4. Meaning(d) = u
    BY <1>11, <2>3 DEF IsInserted
  <2> QED
    BY <2>1, <2>4
<1>16. Meaning(d)[k + 1] = v
  BY <1>3, <1>11
<1> QED
  BY <1>10, <1>12, <1>15, <1>16 DEF Behind

\* At the end.
LEMMA MeaningAppended ==
  ASSUME NEW t, IsText(t), NEW d, IsText(d), NEW f, NEW y \in RequestHeads(d),
         Maps(RequestHeads(t), f, RequestHeads(d) \ {y}),
         \A h \in RequestHeads(t) : Means(d, f[h]) = Means(t, h) /\ f[h] < y
  PROVE  /\ Meaning(d) # <<>> /\ Front(Meaning(d)) = Meaning(t)
         /\ Last(Meaning(d)) = Means(d, y)
<1>1. PICK hs, n : MeaningHas(t, hs, n)
  BY MeaningExists
<1>3. /\ n \in Nat /\ Meaning(t) = [k \in 1..n |-> Means(t, hs[k])]
      /\ \A k \in 1..n : hs[k] \in RequestHeads(t)
  BY <1>1 DEF MeaningHas, Ascends
<1>4. \A k \in 1..n : f[hs[k]] < y
  BY <1>3
<1>5. n \in 0..n /\ \A k \in n + 1..n : y < f[hs[k]]
  BY <1>3
<1>6. PICK s, v, w : s = Meaning(t) /\ v = Means(d, y) /\ w = Meaning(d)
  OBVIOUS
<1>7. w = [i \in 1..n + 1 |-> IF i <= n THEN s[i]
                              ELSE IF i = n + 1 THEN v ELSE s[i - 1]]
  BY <1>1, <1>4, <1>5, <1>6, MeaningMore
<1>8. w = [i \in 1..n + 1 |-> w[i]] /\ w[n + 1] = v /\ \A i \in 1..n : w[i] = s[i]
  BY <1>3, <1>7
<1>9. PICK S : S = {w[i] : i \in 1..n + 1}
  OBVIOUS
<1>10. w \in Seq(S)
  <2>1. \A i \in 1..n + 1 : w[i] \in S
    BY <1>9
  <2>2. n + 1 \in Nat
    BY <1>3
  <2> QED
    BY <1>8, <2>1, <2>2, IsASeq
<1>11. Len(w) = n + 1
  <2>1. DOMAIN w = 1..n + 1 /\ n + 1 \in Nat
    BY <1>3, <1>8
  <2> QED
    BY <1>10, <2>1, LenProperties
<1>12. w # <<>>
  <2>1. Len(w) # 0
    BY <1>3, <1>11
  <2> QED
    BY <1>10, <2>1, NotEmpty
<1>13. Last(w) = v
  BY <1>8, <1>11 DEF Last
<1>14. Front(w) = s
  <2>1. Front(w) = SubSeq(w, 1, n)
    BY <1>3, <1>11 DEF Front
  <2>2. PICK u : u = SubSeq(w, 1, n)
    OBVIOUS
  <2>3. n = (IF 1 <= n THEN n - 1 + 1 ELSE 0) /\ n \in Int /\ 1 \in Int
    BY <1>3
  <2>4. DOMAIN u = 1..n /\ \A i \in 1..n : u[i] = w[1 + i - 1]
    BY <2>2, <2>3, PartHas
  <2>5. u = [i \in 1..n |-> u[i]]
    <3>1. PICK T : u \in Seq(T)
      BY <2>2, <2>3, PartHas, Zenon
    <3> QED
      BY <2>4, <3>1, LenProperties
  <2>6. \A i \in 1..n : u[i] = s[i]
    BY <1>8, <2>4
  <2>7. s = [i \in 1..n |-> s[i]]
    BY <1>3, <1>6
  <2> QED
    BY <2>1, <2>2, <2>5, <2>6, <2>7
<1> QED
  BY <1>6, <1>12, <1>13, <1>14

----------------------------------------------------------------------------
(* Sections of an edited text.                                             *)

\* The lines of a section hold no separator, and it ends at one.
Between(t, h, e) ==
  /\ e \in h + 1..Len(t) + 1
  /\ e <= Len(t) => IsSeparator(t[e])
  /\ \A i \in h + 1..e - 1 : ~IsSeparator(t[i])

LEMMA NextHas ==
  ASSUME NEW t, IsText(t), NEW h \in 0..Len(t), NEW e, e = NextSeparator(t, h)
  PROVE  Between(t, h, e)
<1>1. Len(t) \in Nat \ {0} /\ DOMAIN t = 1..Len(t)
  BY TextIs
<1>2. /\ e \in h + 1..Len(t) + 1
      /\ e <= Len(t) => e \in Separators(t)
      /\ \A j \in Separators(t) : j > h => j >= e
  BY NextSeparatorIs DEF IsNext
<1>3. e <= Len(t) => IsSeparator(t[e])
  BY <1>2 DEF Separators
<1>4. ASSUME NEW i \in h + 1..e - 1 PROVE ~IsSeparator(t[i])
  <2>1. i \in 1..Len(t) /\ i > h /\ ~(i >= e)
    BY <1>1, <1>2
  <2>2. i \notin Separators(t)
    BY <1>2, <2>1
  <2> QED
    BY <1>1, <2>1, <2>2 DEF Separators
<1> QED
  BY <1>2, <1>3, <1>4 DEF Between

LEMMA NextIs ==
  ASSUME NEW t, IsText(t), NEW h \in 0..Len(t), NEW e, Between(t, h, e)
  PROVE  NextSeparator(t, h) = e
<1>1. Len(t) \in Nat \ {0} /\ DOMAIN t = 1..Len(t)
  BY TextIs
<1>2. /\ e \in h + 1..Len(t) + 1
      /\ e <= Len(t) => IsSeparator(t[e])
      /\ \A i \in h + 1..e - 1 : ~IsSeparator(t[i])
  BY DEF Between
<1>3. e <= Len(t) => e \in Separators(t)
  BY <1>1, <1>2 DEF Separators
<1>4. ASSUME NEW j \in Separators(t), j > h PROVE j >= e
  <2>1. j \in 1..Len(t) /\ IsSeparator(t[j])
    BY <1>1 DEF Separators
  <2>2. j \notin h + 1..e - 1
    BY <1>2, <2>1
  <2> QED
    BY <1>1, <1>2, <1>4, <2>1, <2>2
<1>5. IsNext(t, h, e)
  BY <1>2, <1>3, <1>4 DEF IsNext
<1> QED
  BY <1>5, NextOnce

\* Two sections that are no different to a request.
Alike(d, g, t, h) ==
  /\ HasRequest(d, g) <=> HasRequest(t, h)
  /\ HasRequest(t, h) => Means(d, g) = Means(t, h)

LEMMA SectionKept ==
  ASSUME NEW t, IsText(t), NEW h \in 0..Len(t), NEW e, e = NextSeparator(t, h),
         NEW d, IsText(d), NEW g \in 0..Len(d), NEW f, f = NextSeparator(d, g),
         NEW s \in Int, g = h + s, MovedBy(d, t, h, e, f, s),
         h = 0 <=> g = 0, h # 0 => d[g] = t[h]
  PROVE  Alike(d, g, t, h)
<1>1. /\ HasRequest(d, g) <=> HasRequest(t, h)
      /\ HasRequest(t, h) => SaidOf(d, g) = SaidOf(t, h)
  BY SectionMoved
<1>2. NameAt(d, g) = NameAt(t, h)
  BY DEF NameAt
<1> QED
  BY <1>1, <1>2 DEF Alike, Means

\* The heads of a text.
LEMMA HeadIs ==
  ASSUME NEW t, IsText(t), NEW h
  PROVE  h \in Heads(t) <=> \/ h \in 1..Len(t) /\ IsSeparator(t[h])
                            \/ h = 0 /\ ~IsSeparator(t[1])
<1>1. Len(t) \in Nat \ {0} /\ DOMAIN t = 1..Len(t)
  BY TextIs
<1> QED
  BY <1>1 DEF Heads, Separators

\* Lines from one to another are replaced, and those behind them move.
Amid(d, t, from, to, s) ==
  /\ IsText(t) /\ IsText(d) /\ from \in 1..to /\ to \in 1..Len(t)
  /\ s \in Int /\ to + s >= from /\ Len(d) = Len(t) + s
  /\ \A i \in 1..from - 1 : d[i] = t[i]
  /\ \A i \in to..Len(t) : d[i + s] = t[i]

LEMMA AmidLow ==
  ASSUME NEW t, NEW d, NEW from, NEW to, NEW s, Amid(d, t, from, to, s),
         NEW h \in Heads(t), NextSeparator(t, h) < from
  PROVE  h \in Heads(d) /\ Alike(d, h, t, h)
<1>1. /\ IsText(t) /\ IsText(d) /\ from \in 1..to /\ to \in 1..Len(t)
      /\ s \in Int /\ to + s >= from /\ Len(d) = Len(t) + s
      /\ \A i \in 1..from - 1 : d[i] = t[i]
  BY DEF Amid
<1>2. PICK e : e = NextSeparator(t, h)
  OBVIOUS
<1>3. h \in 0..Len(t)
  BY <1>1, RequestsAre
<1>4. Len(t) \in Nat \ {0} /\ h \in Nat /\ e \in Nat \ {0} /\ h < e /\ e < from
  BY <1>1, <1>2, <1>3, SectionPlaces
<1>5. e <= Len(t) /\ e <= Len(d) /\ h \in 0..Len(d) /\ e \in 1..from - 1
  BY <1>1, <1>4
<1>6. /\ IsSeparator(t[e]) /\ \A i \in h + 1..e - 1 : ~IsSeparator(t[i])
  BY <1>1, <1>2, <1>3, <1>5, NextHas DEF Between
<1>7. h \in Heads(d)
  <2>1. CASE h = 0
    <3>1. ~IsSeparator(t[1])
      BY <1>1, <2>1, HeadIs
    <3>2. 1 \in 1..from - 1
      BY <1>1, <1>4
    <3>3. d[1] = t[1]
      BY <1>1, <3>2
    <3> QED
      BY <1>1, <2>1, <3>1, <3>3, HeadIs
  <2>2. CASE h # 0
    <3>1. IsSeparator(t[h])
      BY <1>1, <2>2, HeadIs
    <3>2. h \in 1..from - 1 /\ h \in 1..Len(d)
      BY <1>1, <1>4, <1>5, <2>2
    <3> QED
      BY <1>1, <3>1, <3>2, HeadIs
  <2> QED
    BY <2>1, <2>2
<1>8. h # 0 => d[h] = t[h]
  BY <1>1, <1>4
<1>9. ASSUME NEW i \in h + 1..e - 1 PROVE d[i] = t[i]
  BY <1>1, <1>4
<1>10. NextSeparator(d, h) = e
  <2>1. e \in h + 1..Len(d) + 1
    BY <1>1, <1>4, <1>5
  <2>2. d[e] = t[e]
    BY <1>1, <1>5
  <2>3. Between(d, h, e)
    BY <1>6, <1>9, <2>1, <2>2 DEF Between
  <2> QED
    BY <1>1, <1>5, <2>3, NextIs
<1>11. MovedBy(d, t, h, e, e, 0)
  <2>1. \A i \in h + 1..e - 1 : d[i + 0] = t[i]
    BY <1>4, <1>9
  <2>2. e >= e + 0 /\ \A i \in e + 0..e - 1 : d[i] = Blank
    BY <1>4
  <2> QED
    BY <2>1, <2>2 DEF MovedBy
<1>12. h = h + 0 /\ 0 \in Int
  BY <1>4
<1>13. Alike(d, h, t, h)
  BY <1>1, <1>2, <1>3, <1>5, <1>8, <1>10, <1>11, <1>12, SectionKept
<1> QED
  BY <1>7, <1>13

LEMMA AmidHigh ==
  ASSUME NEW t, NEW d, NEW from, NEW to, NEW s, Amid(d, t, from, to, s),
         NEW h \in Heads(t), h >= to, NEW g, g = h + s
  PROVE  g \in Heads(d) /\ Alike(d, g, t, h)
<1>1. /\ IsText(t) /\ IsText(d) /\ from \in 1..to /\ to \in 1..Len(t)
      /\ s \in Int /\ to + s >= from /\ Len(d) = Len(t) + s
      /\ \A i \in to..Len(t) : d[i + s] = t[i]
  BY DEF Amid
<1>2. PICK e, f : e = NextSeparator(t, h) /\ f = e + s
  OBVIOUS
<1>3. h \in 0..Len(t)
  BY <1>1, RequestsAre
<1>4. /\ Len(t) \in Nat \ {0} /\ h \in Nat /\ e \in Nat \ {0} /\ h < e
      /\ e <= Len(t) + 1
  BY <1>1, <1>2, <1>3, SectionPlaces
<1>5. h \in to..Len(t) /\ h # 0 /\ g \in 1..Len(d) /\ g # 0 /\ g \in 0..Len(d)
  BY <1>1, <1>3, <1>4
<1>6. /\ e <= Len(t) => IsSeparator(t[e])
      /\ \A i \in h + 1..e - 1 : ~IsSeparator(t[i])
  BY <1>1, <1>2, <1>3, NextHas DEF Between
<1>7. d[g] = t[h]
  BY <1>1, <1>5
<1>8. g \in Heads(d)
  <2>1. IsSeparator(t[h])
    BY <1>1, <1>5, HeadIs
  <2> QED
    BY <1>1, <1>5, <1>7, <2>1, HeadIs
<1>9. ASSUME NEW i \in h + 1..e - 1 PROVE d[i + s] = t[i]
  BY <1>1, <1>4, <1>5
<1>10. NextSeparator(d, g) = f
  <2>1. f \in g + 1..Len(d) + 1
    BY <1>1, <1>2, <1>4, <1>5
  <2>2. f <= Len(d) => IsSeparator(d[f])
    <3>1. f <= Len(d) => e \in to..Len(t)
      BY <1>1, <1>2, <1>4, <1>5
    <3> QED
      BY <1>1, <1>2, <1>6, <3>1
  <2>3. ASSUME NEW j \in g + 1..f - 1 PROVE ~IsSeparator(d[j])
    <3>1. PICK i \in Int : i = j - s
      BY <1>1, <1>5
    <3>2. i \in h + 1..e - 1 /\ j = i + s
      BY <1>1, <1>2, <1>4, <1>5, <3>1, SMTT(40)
    <3> QED
      BY <1>6, <1>9, <3>2
  <2>4. Between(d, g, f)
    BY <2>1, <2>2, <2>3 DEF Between
  <2> QED
    BY <1>1, <1>5, <2>4, NextIs
<1>11. MovedBy(d, t, h, e, f, s)
  <2>1. f >= e + s /\ \A i \in e + s..f - 1 : d[i] = Blank
    BY <1>1, <1>2, <1>4
  <2> QED
    BY <1>9, <2>1 DEF MovedBy
<1>12. Alike(d, g, t, h)
  BY <1>1, <1>2, <1>3, <1>5, <1>7, <1>10, <1>11, SectionKept
<1> QED
  BY <1>8, <1>12

\* Where the heads of the edited text come from.
LEMMA AmidHeads ==
  ASSUME NEW t, NEW d, NEW from, NEW to, NEW s, Amid(d, t, from, to, s),
         NEW g \in Heads(d)
  PROVE  /\ g < from /\ (g # 0 \/ from > 1) => g \in Heads(t)
         /\ g >= to + s /\ g # 0 => g - s \in Heads(t) /\ g - s >= to
<1>1. /\ IsText(t) /\ IsText(d) /\ from \in 1..to /\ to \in 1..Len(t)
      /\ s \in Int /\ to + s >= from /\ Len(d) = Len(t) + s
      /\ \A i \in 1..from - 1 : d[i] = t[i]
      /\ \A i \in to..Len(t) : d[i + s] = t[i]
  BY DEF Amid
<1>2. g \in 0..Len(d) /\ Len(d) \in Nat
  BY <1>1, RequestsAre
<1>3. \/ g \in 1..Len(d) /\ IsSeparator(d[g])
      \/ g = 0 /\ ~IsSeparator(d[1])
  BY <1>1, HeadIs
<1>4. ASSUME g < from, g # 0 \/ from > 1 PROVE g \in Heads(t)
  <2>1. CASE g # 0
    <3>1. g \in 1..from - 1 /\ g \in 1..Len(t) /\ IsSeparator(d[g])
      BY <1>1, <1>2, <1>3, <1>4, <2>1
    <3> QED
      BY <1>1, <3>1, HeadIs
  <2>2. CASE g = 0
    <3>1. 1 \in 1..from - 1
      BY <1>1, <1>4, <2>2
    <3> QED
      BY <1>1, <1>3, <2>2, <3>1, HeadIs
  <2> QED
    BY <2>1, <2>2
<1>5. ASSUME g >= to + s, g # 0 PROVE g - s \in Heads(t) /\ g - s >= to
  <2>1. PICK i \in Int : i = g - s
    BY <1>1, <1>2
  <2>2. i \in to..Len(t) /\ g = i + s /\ i \in 1..Len(t)
    BY <1>1, <1>2, <1>5, <2>1
  <2>3. IsSeparator(t[i])
    BY <1>1, <1>3, <1>5, <2>2
  <2>4. i \in Heads(t)
    BY <1>1, <2>2, <2>3, HeadIs
  <2> QED
    BY <2>1, <2>2, <2>4
<1> QED
  BY <1>4, <1>5

\* One separator is replaced by another.
Relabels(d, t, x) ==
  /\ IsText(t) /\ IsText(d) /\ Len(d) = Len(t) /\ x \in 1..Len(t)
  /\ IsSeparator(t[x]) /\ IsSeparator(d[x])
  /\ \A i \in 1..Len(t) : i # x => d[i] = t[i]

LEMMA RelabelsKeeps ==
  ASSUME NEW t, NEW d, NEW x, Relabels(d, t, x), NEW h \in Heads(t)
  PROVE  /\ HasRequest(d, h) <=> HasRequest(t, h)
         /\ HasRequest(t, h) => SaidOf(d, h) = SaidOf(t, h)
         /\ h # x => NameAt(d, h) = NameAt(t, h)
<1>1. /\ IsText(t) /\ IsText(d) /\ Len(d) = Len(t) /\ x \in 1..Len(t)
      /\ IsSeparator(t[x]) /\ IsSeparator(d[x])
      /\ \A i \in 1..Len(t) : i # x => d[i] = t[i]
  BY DEF Relabels
<1>2. PICK e : e = NextSeparator(t, h)
  OBVIOUS
<1>3. h \in 0..Len(t) /\ h \in 0..Len(d)
  BY <1>1, RequestsAre
<1>4. /\ Len(t) \in Nat \ {0} /\ h \in Nat /\ e \in Nat \ {0} /\ h < e
      /\ e <= Len(t) + 1
  BY <1>1, <1>2, <1>3, SectionPlaces
<1>5. /\ e <= Len(t) => IsSeparator(t[e])
      /\ \A i \in h + 1..e - 1 : ~IsSeparator(t[i])
  BY <1>1, <1>2, <1>3, NextHas DEF Between
<1>6. ASSUME NEW i \in h + 1..e - 1 PROVE d[i] = t[i]
  <2>1. i # x /\ i \in 1..Len(t)
    BY <1>1, <1>4, <1>5
  <2> QED
    BY <1>1, <2>1
<1>7. e <= Len(d) => IsSeparator(d[e])
  <2>1. e <= Len(d) => e \in 1..Len(t)
    BY <1>1, <1>4
  <2> QED
    BY <1>1, <1>5, <2>1
<1>8. e \in h + 1..Len(d) + 1
  BY <1>1, <1>4
<1>9. Between(d, h, e)
  BY <1>5, <1>6, <1>7, <1>8 DEF Between
<1>10. NextSeparator(d, h) = e
  BY <1>1, <1>3, <1>9, NextIs
<1>11. MovedBy(d, t, h, e, e, 0)
  <2>1. \A i \in h + 1..e - 1 : d[i + 0] = t[i]
    BY <1>4, <1>6
  <2>2. e >= e + 0 /\ \A i \in e + 0..e - 1 : d[i] = Blank
    BY <1>4
  <2> QED
    BY <2>1, <2>2 DEF MovedBy
<1>12. h = h + 0 /\ 0 \in Int
  BY <1>4
<1>13. /\ HasRequest(d, h) <=> HasRequest(t, h)
       /\ HasRequest(t, h) => SaidOf(d, h) = SaidOf(t, h)
  BY <1>1, <1>2, <1>3, <1>10, <1>11, <1>12, SectionMoved
<1>14. h # x => NameAt(d, h) = NameAt(t, h)
  BY <1>1, <1>3, <1>4 DEF NameAt
<1> QED
  BY <1>13, <1>14

LEMMA RelabelsHeads ==
  ASSUME NEW t, NEW d, NEW x, Relabels(d, t, x)
  PROVE  Heads(d) = Heads(t) /\ RequestHeads(d) = RequestHeads(t)
<1>1. /\ IsText(t) /\ IsText(d) /\ Len(d) = Len(t) /\ x \in 1..Len(t)
      /\ IsSeparator(t[x]) /\ IsSeparator(d[x])
      /\ \A i \in 1..Len(t) : i # x => d[i] = t[i]
  BY DEF Relabels
<1>2. Len(t) \in Nat \ {0}
  BY <1>1, TextIs
<1>3. \A i \in 1..Len(t) : IsSeparator(d[i]) <=> IsSeparator(t[i])
  BY <1>1
<1>4. 1 \in 1..Len(t)
  BY <1>2
<1>5. ASSUME NEW h PROVE h \in Heads(d) <=> h \in Heads(t)
  <2>1. h \in Heads(t) <=> \/ h \in 1..Len(t) /\ IsSeparator(t[h])
                           \/ h = 0 /\ ~IsSeparator(t[1])
    BY <1>1, HeadIs
  <2>2. h \in Heads(d) <=> \/ h \in 1..Len(d) /\ IsSeparator(d[h])
                           \/ h = 0 /\ ~IsSeparator(d[1])
    BY <1>1, HeadIs
  <2> QED
    BY <1>1, <1>3, <1>4, <2>1, <2>2
<1>6. Heads(d) = Heads(t)
  BY <1>5
<1>7. \A h \in Heads(t) : HasRequest(d, h) <=> HasRequest(t, h)
  BY RelabelsKeeps
<1> QED
  BY <1>6, <1>7 DEF RequestHeads

\* One request under another name, and nothing else.
Renamed(d, t, x, name) ==
  \E k \in DOMAIN Meaning(t) :
    /\ Meaning(t)[k] = Means(t, x)
    /\ Meaning(d) = [Meaning(t) EXCEPT ![k] = [Means(t, x) EXCEPT !.name = name]]

LEMMA RelabelsMeaning ==
  ASSUME NEW t, NEW d, NEW x \in RequestHeads(t), Relabels(d, t, x)
  PROVE  Renamed(d, t, x, d[x][2])
<1>1. IsText(t) /\ IsText(d) /\ x \in 1..Len(t) /\ Len(t) \in Nat
  BY TextIs DEF Relabels
<1>2. RequestHeads(d) = RequestHeads(t)
  BY RelabelsHeads
<1>3. PICK f : f = [h \in RequestHeads(t) |-> h]
  OBVIOUS
<1>4. Maps(RequestHeads(t), f, RequestHeads(d))
  BY <1>2, <1>3 DEF Maps
<1>5. ASSUME NEW h \in RequestHeads(t) PROVE SaidOf(d, h) = SaidOf(t, h)
  <2>1. h \in Heads(t) /\ HasRequest(t, h)
    BY DEF RequestHeads
  <2> QED
    BY <2>1, RelabelsKeeps
<1>6. ASSUME NEW h \in RequestHeads(t) \ {x} PROVE Means(d, f[h]) = Means(t, h)
  <2>1. h \in Heads(t)
    BY DEF RequestHeads
  <2>2. NameAt(d, h) = NameAt(t, h)
    BY <1>6, <2>1, RelabelsKeeps
  <2> QED
    BY <1>3, <1>5, <2>2 DEF Means
<1>7. PICK k \in DOMAIN Meaning(t) :
        /\ Meaning(t)[k] = Means(t, x)
        /\ Meaning(d) = [Meaning(t) EXCEPT ![k] = Means(d, f[x])]
  BY <1>1, <1>4, <1>6, MeaningChanged
<1>8. NameAt(d, x) = d[x][2]
  BY <1>1 DEF NameAt
<1>9. Means(d, f[x]) = [Means(t, x) EXCEPT !.name = d[x][2]]
  BY <1>3, <1>5, <1>8 DEF Means
<1> QED
  BY <1>7, <1>9 DEF Renamed

\* A rename does that.
LEMMA RenameMeans ==
  ASSUME NEW t, IsText(t), NEW x \in RequestHeads(t), x # 0, NEW name,
         NEW d, d = Edited(t, Edit(x, x + 1, <<Separator(name), Blank>>))
  PROVE  Renamed(d, t, x, name)
<1>1. x \in Heads(t) /\ HasRequest(t, x)
  BY DEF RequestHeads
<1>2. x \in 1..Len(t) /\ IsSeparator(t[x]) /\ Len(t) \in Nat \ {0}
  BY <1>1, HeadIs, TextIs
<1>3. PICK l : l = RequestLine(t, x)
  OBVIOUS
<1>4. l \in x + 1..Len(t)
  BY <1>1, <1>3, RequestLineIs
<1>5. x + 1 <= Len(t) /\ x \in Nat \ {0} /\ x + 1 \in Nat \ {0}
  BY <1>2, <1>4
<1>6. PICK y, r, to : y = <<Separator(name), Blank>> /\ r = Rest(t, to) /\ to = x + 1
  OBVIOUS
<1>7. /\ IsText(y) /\ Len(y) = 2 /\ Len(y) - 1 = 1
      /\ y[1] = Separator(name) /\ y[Len(y)] = Blank
  <2>1. y \in Seq({Separator(name), Blank}) /\ y # <<>> /\ Len(y) = 2
        /\ y[1] = Separator(name) /\ y[2] = Blank
    BY <1>6
  <2>2. IsText(y)
    BY <2>1, IsTextIf
  <2> QED
    BY <2>1, <2>2
<1>8. Replaces(d, t, x, y, 1, r)
  BY <1>2, <1>5, <1>6, <1>7, EditedAt
<1>9. /\ IsText(d) /\ Len(r) \in Nat /\ Len(d) = x - 1 + 1 + Len(r)
      /\ \A i \in 1..x - 1 : d[i] = t[i]
      /\ \A i \in 1..1 : d[x - 1 + i] = y[i]
      /\ \A i \in 1..Len(r) : d[x - 1 + 1 + i] = r[i]
  BY <1>8 DEF Replaces
<1>10. /\ Len(r) = Len(t) - to + 1
       /\ \A i \in 1..Len(t) - to + 1 : r[i] = t[to + i - 1]
  BY <1>5, <1>6, RestIs
<1>11. d[x] = Separator(name)
  <2>1. 1 \in 1..1 /\ x - 1 + 1 = x
    BY <1>5
  <2>2. d[x - 1 + 1] = y[1]
    BY <1>9, <2>1
  <2> QED
    BY <1>7, <2>1, <2>2
<1>12. Len(d) = Len(t)
  BY <1>2, <1>5, <1>6, <1>9, <1>10
<1>13. ASSUME NEW i \in 1..Len(t), i # x PROVE d[i] = t[i]
  <2>1. CASE i < x
    <3>1. i \in 1..x - 1
      BY <1>5, <2>1
    <3> QED
      BY <1>9, <3>1
  <2>2. CASE i > x
    <3>1. PICK j \in Int : j = i - x
      BY <1>5
    <3>2. j \in 1..Len(r) /\ x - 1 + 1 + j = i /\ to + j - 1 = i
      BY <1>2, <1>5, <1>6, <1>10, <2>2, <3>1
    <3> QED
      BY <1>9, <1>10, <3>2, ZenonT(40)
  <2> QED
    BY <1>5, <1>13, <2>1, <2>2
<1>14. IsSeparator(d[x]) /\ d[x][2] = name
  BY <1>11 DEF IsSeparator, Separator
<1>15. Relabels(d, t, x)
  BY <1>2, <1>9, <1>12, <1>13, <1>14 DEF Relabels
<1> QED
  BY <1>14, <1>15, RelabelsMeaning

\* One request more, the same as one but for its name, and behind it.
Doubled(d, t, h, name) == Behind(d, t, h, [Means(t, h) EXCEPT !.name = name])

\* A copy of a section, under its own separator.
Repeats(d, y, t, h, e, f) ==
  /\ y \in 1..Len(d) /\ IsSeparator(d[y])
  /\ f = NextSeparator(d, y) /\ f >= e + (y - h)
  /\ \A i \in h + 1..e - 1 : d[i + (y - h)] = t[i]
  /\ \A i \in e + (y - h)..f - 1 : d[i] = Blank

LEMMA RepeatsMeans ==
  ASSUME NEW t, IsText(t), NEW d, IsText(d), NEW h \in RequestHeads(t),
         NEW e, e = NextSeparator(t, h), NEW y, NEW f, Repeats(d, y, t, h, e, f)
  PROVE  /\ y \in RequestHeads(d)
         /\ Means(d, y) = [Means(t, h) EXCEPT !.name = d[y][2]]
<1>1. h \in Heads(t) /\ HasRequest(t, h)
  BY DEF RequestHeads
<1>2. h \in 0..Len(t) /\ Len(t) \in Nat
  BY <1>1, RequestsAre
<1>3. PICK s : s = y - h
  OBVIOUS
<1>4. /\ y \in 1..Len(d) /\ IsSeparator(d[y]) /\ f = NextSeparator(d, y)
      /\ MovedBy(d, t, h, e, f, s)
  BY <1>3 DEF Repeats, MovedBy
<1>5. Len(d) \in Nat
  BY TextIs
<1>6. s \in Int /\ y = h + s /\ y \in 0..Len(d) /\ y # 0
  BY <1>2, <1>3, <1>4, <1>5
<1>7. /\ HasRequest(d, y) <=> HasRequest(t, h)
      /\ HasRequest(t, h) => SaidOf(d, y) = SaidOf(t, h)
  BY <1>2, <1>4, <1>6, SectionMoved
<1>8. y \in Heads(d)
  BY <1>4, HeadIs
<1>9. NameAt(d, y) = d[y][2]
  BY <1>6 DEF NameAt
<1> QED
  BY <1>1, <1>7, <1>8, <1>9 DEF RequestHeads, Means

\* A copy in the middle: above the next separator.
LEMMA MiddleMeans ==
  ASSUME NEW t, NEW d, NEW e, NEW m, m \in Nat \ {0}, Amid(d, t, e, e, m),
         NEW h \in RequestHeads(t), e = NextSeparator(t, h), IsSeparator(t[e]),
         NEW f, Repeats(d, e, t, h, e, f), f >= e + m
  PROVE  Doubled(d, t, h, d[e][2])
<1>1. /\ IsText(t) /\ IsText(d) /\ e \in 1..Len(t) /\ Len(d) = Len(t) + m
      /\ Len(t) \in Nat /\ Len(d) \in Nat
      /\ \A i \in 1..e - 1 : d[i] = t[i]
  BY TextIs DEF Amid
<1>2. h \in Heads(t) /\ HasRequest(t, h) /\ h \in 0..Len(t)
  <2>1. h \in Heads(t) /\ HasRequest(t, h)
    BY DEF RequestHeads
  <2> QED
    BY <1>1, <2>1, RequestsAre
<1>3. h \in Nat /\ e \in Nat \ {0} /\ h < e
  BY <1>1, <1>2, SectionPlaces
<1>4. \A i \in h + 1..e - 1 : ~IsSeparator(t[i])
  BY <1>1, <1>2, NextHas DEF Between
<1>5. /\ e \in 1..Len(d) /\ IsSeparator(d[e]) /\ f = NextSeparator(d, e)
  BY DEF Repeats
<1>6. e > 1
  <2>1. CASE h = 0
    <3>1. ~IsSeparator(t[1])
      BY <1>1, <1>2, <2>1, HeadIs
    <3> QED
      BY <1>3, <3>1
  <2>2. CASE h # 0
    BY <1>3, <2>2
  <2> QED
    BY <2>1, <2>2
<1>7. /\ f \in e + 1..Len(d) + 1 /\ \A i \in e + 1..f - 1 : ~IsSeparator(d[i])
  <2>1. e \in 0..Len(d)
    BY <1>1, <1>5
  <2> QED
    BY <1>1, <1>5, <2>1, NextHas DEF Between
<1>8. ASSUME NEW g \in Heads(t), g < e, g # h
      PROVE  g < h /\ g \in Heads(d) /\ Alike(d, g, t, g)
  <2>1. g \in 0..Len(t)
    BY <1>1, RequestsAre
  <2>2. g < h
    <3>1. g # 0 => IsSeparator(t[g])
      BY <1>1, <1>8, HeadIs
    <3>2. CASE g = 0
      BY <1>3, <1>8, <3>2
    <3>3. CASE g # 0
      <4>1. g \notin h + 1..e - 1
        BY <1>4, <3>1, <3>3
      <4> QED
        BY <1>1, <1>3, <1>8, <2>1, <4>1
    <3> QED
      BY <3>2, <3>3
  <2>3. PICK z : z = NextSeparator(t, g)
    OBVIOUS
  <2>4. z \in g + 1..Len(t) + 1 /\ \A i \in g + 1..z - 1 : ~IsSeparator(t[i])
    BY <1>1, <2>1, <2>3, NextHas DEF Between
  <2>5. IsSeparator(t[h])
    <3>1. h # 0
      BY <1>1, <2>1, <2>2
    <3> QED
      BY <1>1, <1>2, <3>1, HeadIs
  <2>6. h \notin g + 1..z - 1
    BY <2>4, <2>5
  <2>7. z < e
    BY <1>1, <1>3, <2>1, <2>2, <2>4, <2>6
  <2>8. g \in Heads(d) /\ Alike(d, g, t, g)
    BY <2>3, <2>7, AmidLow
  <2> QED
    BY <2>2, <2>8
<1>9. h \in Heads(d) /\ Alike(d, h, t, h)
  <2>1. h # 0 => d[h] = t[h] /\ IsSeparator(t[h])
    <3>1. h # 0 => h \in 1..e - 1
      BY <1>3
    <3> QED
      BY <1>1, <1>2, <3>1, HeadIs
  <2>2. h = 0 => ~IsSeparator(d[1])
    <3>1. 1 \in 1..e - 1
      BY <1>3, <1>6
    <3> QED
      BY <1>1, <1>2, <3>1, HeadIs
  <2>3. h \in 0..Len(d) /\ (h # 0 => h \in 1..Len(d))
    BY <1>1, <1>3, <1>5
  <2>4. h \in Heads(d)
    BY <1>1, <2>1, <2>2, <2>3, HeadIs
  <2>5. ASSUME NEW i \in h + 1..e - 1 PROVE d[i] = t[i]
    BY <1>1, <1>3
  <2>6. NextSeparator(d, h) = e
    <3>1. e \in h + 1..Len(d) + 1
      BY <1>1, <1>3, <1>5
    <3>2. Between(d, h, e)
      BY <1>4, <1>5, <2>5, <3>1 DEF Between
    <3> QED
      BY <1>1, <2>3, <3>2, NextIs
  <2>7. MovedBy(d, t, h, e, e, 0)
    <3>1. \A i \in h + 1..e - 1 : d[i + 0] = t[i]
      BY <1>3, <2>5
    <3>2. e >= e + 0 /\ \A i \in e + 0..e - 1 : d[i] = Blank
      BY <1>3
    <3> QED
      BY <3>1, <3>2 DEF MovedBy
  <2>8. h = h + 0 /\ 0 \in Int
    BY <1>3
  <2>9. Alike(d, h, t, h)
    BY <1>1, <1>2, <2>1, <2>3, <2>6, <2>7, <2>8, SectionKept
  <2> QED
    BY <2>4, <2>9
<1>10. PICK F : F = [g \in RequestHeads(t) |-> IF g < e THEN g ELSE g + m]
  OBVIOUS
<1>11. ASSUME NEW g \in RequestHeads(t)
       PROVE  /\ F[g] \in RequestHeads(d) /\ Means(d, F[g]) = Means(t, g)
              /\ g \in Nat /\ F[g] = (IF g < e THEN g ELSE g + m)
              /\ g <= h => F[g] < e
              /\ g > h => F[g] > e /\ g >= e
  <2>1. g \in Heads(t) /\ HasRequest(t, g)
    BY DEF RequestHeads
  <2>2. g \in Nat
    BY <1>1, <2>1, RequestsAre
  <2>3. F[g] = IF g < e THEN g ELSE g + m
    BY <1>10
  <2>4. CASE g < e
    <3>1. g \in Heads(d) /\ Alike(d, g, t, g) /\ g <= h
      BY <1>3, <1>8, <1>9, <2>1, <2>4
    <3>2. g \in RequestHeads(d) /\ Means(d, g) = Means(t, g)
      BY <2>1, <3>1 DEF Alike, RequestHeads
    <3> QED
      BY <1>3, <2>2, <2>3, <2>4, <3>1, <3>2
  <2>5. CASE g >= e
    <3>1. PICK k : k = g + m
      OBVIOUS
    <3>2. k \in Heads(d) /\ Alike(d, k, t, g)
      BY <2>1, <2>5, <3>1, AmidHigh
    <3>3. k \in RequestHeads(d) /\ Means(d, k) = Means(t, g)
      BY <2>1, <3>2 DEF Alike, RequestHeads
    <3> QED
      BY <1>3, <2>2, <2>3, <2>5, <3>1, <3>3
  <2> QED
    BY <1>3, <2>2, <2>4, <2>5
<1>12. ASSUME NEW g \in RequestHeads(d) \ {e}
       PROVE  \E k \in RequestHeads(t) : F[k] = g
  <2>1. g \in Heads(d) /\ HasRequest(d, g) /\ g # e
    BY DEF RequestHeads
  <2>2. g \in 0..Len(d) /\ (g # 0 => IsSeparator(d[g]))
    BY <1>1, <2>1, RequestsAre, HeadIs
  <2>3. CASE g < e
    <3>1. g \in Heads(t)
      BY <1>6, <2>1, <2>3, AmidHeads
    <3>2. Alike(d, g, t, g)
      BY <1>8, <1>9, <2>3, <3>1
    <3>3. g \in RequestHeads(t)
      BY <2>1, <3>1, <3>2 DEF Alike, RequestHeads
    <3> QED
      BY <1>10, <2>3, <3>3
  <2>4. CASE g > e
    <3>1. g \notin e + 1..f - 1
      BY <1>3, <1>7, <2>2, <2>4
    <3>2. g >= e + m /\ g # 0
      BY <1>1, <1>3, <1>7, <2>2, <2>4, <3>1
    <3>3. PICK k : k = g - m
      OBVIOUS
    <3>4. k \in Heads(t) /\ k >= e
      BY <2>1, <3>2, <3>3, AmidHeads
    <3>5. g = k + m /\ k \in Nat
      BY <1>1, <1>3, <2>2, <3>2, <3>3
    <3>6. Alike(d, g, t, k)
      BY <3>4, <3>5, AmidHigh
    <3>7. k \in RequestHeads(t)
      BY <2>1, <3>4, <3>6 DEF Alike, RequestHeads
    <3>8. F[k] = g
      BY <1>3, <1>10, <3>4, <3>5, <3>7
    <3> QED
      BY <3>7, <3>8
  <2> QED
    BY <1>1, <1>3, <2>1, <2>2, <2>3, <2>4
<1>13. Maps(RequestHeads(t), F, RequestHeads(d) \ {e})
  <2>1. \A g \in RequestHeads(t) : F[g] \in RequestHeads(d) \ {e}
    <3> SUFFICES ASSUME NEW g \in RequestHeads(t)
                 PROVE  F[g] \in RequestHeads(d) \ {e}
      OBVIOUS
    <3>1. F[g] # e
      BY <1>3, <1>11
    <3> QED
      BY <1>11, <3>1
  <2>2. \A g, i \in RequestHeads(t) : g < i => F[g] < F[i]
    BY <1>3, <1>11
  <2> QED
    BY <1>12, <2>1, <2>2 DEF Maps
<1>14. e \in RequestHeads(d) /\ Means(d, e) = [Means(t, h) EXCEPT !.name = d[e][2]]
  BY <1>1, RepeatsMeans
<1>15. Around(d, t, F, h, e)
  BY <1>11 DEF Around
<1>16. Behind(d, t, h, Means(d, e))
  BY <1>1, <1>13, <1>14, <1>15, MeaningInserted
<1> QED
  BY <1>14, <1>16 DEF Doubled

\* A section behind all others, blank lines before it aside.
Ends(d, t, y) ==
  /\ IsText(t) /\ IsText(d) /\ y \in 1..Len(d) /\ y >= Len(t) /\ IsSeparator(d[y])
  /\ \A i \in 1..y - 1 : d[i] = IF i <= Len(t) THEN t[i] ELSE Blank
  /\ \A i \in y..Len(t) : t[i] = Blank
  /\ \A i \in y + 1..Len(d) : ~IsSeparator(d[i])

LEMMA EndsAlike ==
  ASSUME NEW t, NEW d, NEW y, Ends(d, t, y), NEW h \in Heads(t), h = 0 => y > 1
  PROVE  h \in Heads(d) /\ h < y /\ Alike(d, h, t, h)
<1>1. /\ IsText(t) /\ IsText(d) /\ y \in 1..Len(d) /\ y >= Len(t)
      /\ IsSeparator(d[y])
      /\ \A i \in 1..y - 1 : d[i] = IF i <= Len(t) THEN t[i] ELSE Blank
      /\ \A i \in y..Len(t) : t[i] = Blank
  BY DEF Ends
<1>2. Len(t) \in Nat \ {0} /\ Len(d) \in Nat \ {0} /\ y \in Nat \ {0}
  BY <1>1, TextIs
<1>3. h \in 0..Len(t) /\ h \in Nat
  BY <1>1, RequestsAre
<1>4. ~IsSeparator(Blank)
  BY DEF IsSeparator, Blank
<1>5. h < y
  <2>1. CASE h = 0
    BY <1>2, <2>1
  <2>2. CASE h # 0
    <3>1. IsSeparator(t[h])
      BY <1>1, <2>2, HeadIs
    <3>2. h \notin y..Len(t)
      BY <1>1, <1>4, <3>1
    <3> QED
      BY <1>1, <1>2, <1>3, <3>2
  <2> QED
    BY <2>1, <2>2
<1>6. h # 0 => d[h] = t[h] /\ IsSeparator(t[h]) /\ h \in 1..Len(d)
  BY <1>1, <1>2, <1>3, <1>5, HeadIs
<1>7. h = 0 => ~IsSeparator(d[1])
  <2>1. ASSUME h = 0 PROVE ~IsSeparator(d[1])
    <3>1. 1 \in 1..y - 1 /\ 1 <= Len(t)
      BY <1>2, <2>1
    <3>2. d[1] = t[1]
      BY <1>1, <3>1
    <3> QED
      BY <1>1, <2>1, <3>2, HeadIs
  <2> QED
    BY <2>1
<1>8. h \in Heads(d)
  BY <1>1, <1>6, <1>7, HeadIs
<1>9. h \in 0..Len(d)
  BY <1>1, <1>2, <1>3, <1>5
<1>10. PICK e : e = NextSeparator(t, h)
  OBVIOUS
<1>11. /\ e \in h + 1..Len(t) + 1 /\ (e <= Len(t) => IsSeparator(t[e]))
       /\ \A i \in h + 1..e - 1 : ~IsSeparator(t[i])
  BY <1>1, <1>3, <1>10, NextHas DEF Between
<1>12. ASSUME NEW i \in h + 1..y - 1
       PROVE  /\ i <= Len(t) => d[i] = t[i]
              /\ i > Len(t) => d[i] = Blank
  BY <1>1, <1>2, <1>3
<1>13. h = h + 0 /\ 0 \in Int
  BY <1>3
<1>14. ASSUME e < y /\ e <= Len(t) PROVE Alike(d, h, t, h)
  <2>1. ASSUME NEW i \in h + 1..e - 1 PROVE d[i] = t[i]
    BY <1>2, <1>3, <1>11, <1>12, <1>14
  <2>2. e \in h + 1..Len(d) + 1 /\ e \in h + 1..y - 1
    BY <1>1, <1>2, <1>3, <1>11, <1>14
  <2>3. IsSeparator(d[e])
    BY <1>11, <1>12, <1>14, <2>2
  <2>4. Between(d, h, e)
    BY <1>11, <2>1, <2>2, <2>3 DEF Between
  <2>5. NextSeparator(d, h) = e
    BY <1>1, <1>9, <2>4, NextIs
  <2>6. MovedBy(d, t, h, e, e, 0)
    <3>1. \A i \in h + 1..e - 1 : d[i + 0] = t[i]
      BY <1>3, <1>11, <2>1
    <3>2. e >= e + 0 /\ \A i \in e + 0..e - 1 : d[i] = Blank
      BY <1>3, <1>11
    <3> QED
      BY <3>1, <3>2 DEF MovedBy
  <2> QED
    BY <1>1, <1>3, <1>6, <1>9, <1>10, <1>13, <2>5, <2>6, SectionKept
<1>15. ASSUME e = Len(t) + 1 PROVE Alike(d, h, t, h)
  <2>1. ASSUME NEW i \in h + 1..y - 1 PROVE ~IsSeparator(d[i])
    <3>1. CASE i <= Len(t)
      <4>1. i \in h + 1..e - 1
        BY <1>2, <1>3, <1>15, <3>1
      <4> QED
        BY <1>11, <1>12, <3>1, <4>1
    <3>2. CASE i > Len(t)
      BY <1>4, <1>12, <3>2
    <3> QED
      BY <1>2, <1>3, <3>1, <3>2
  <2>2. y \in h + 1..Len(d) + 1
    BY <1>1, <1>2, <1>3, <1>5
  <2>3. Between(d, h, y)
    BY <1>1, <2>1, <2>2 DEF Between
  <2>4. NextSeparator(d, h) = y
    BY <1>1, <1>9, <2>3, NextIs
  <2>5. CASE y > Len(t)
    <3>1. ASSUME NEW i \in h + 1..e - 1 PROVE d[i + 0] = t[i]
      <4>1. i + 0 = i /\ i \in h + 1..y - 1 /\ i <= Len(t)
        BY <1>2, <1>3, <1>15, <2>5
      <4> QED
        BY <1>12, <4>1
    <3>2. ASSUME NEW i \in e + 0..y - 1 PROVE d[i] = Blank
      <4>1. i \in h + 1..y - 1 /\ i > Len(t)
        BY <1>2, <1>3, <1>15
      <4> QED
        BY <1>12, <4>1
    <3>3. y >= e + 0
      BY <1>2, <1>15, <2>5
    <3>4. MovedBy(d, t, h, e, y, 0)
      BY <3>1, <3>2, <3>3 DEF MovedBy
    <3> QED
      BY <1>1, <1>3, <1>6, <1>9, <1>10, <1>13, <2>4, <3>4, SectionKept
  <2>6. CASE y = Len(t)
    <3>1. ASSUME NEW i \in h + 1..y - 1 PROVE t[i + 0] = d[i]
      <4>1. i + 0 = i /\ i <= Len(t)
        BY <1>2, <1>3, <2>6
      <4> QED
        BY <1>12, <4>1
    <3>2. ASSUME NEW i \in y + 0..e - 1 PROVE t[i] = Blank
      <4>1. i \in y..Len(t)
        BY <1>2, <1>15
      <4> QED
        BY <1>1, <4>1
    <3>3. e >= y + 0
      BY <1>2, <1>15, <2>6
    <3>4. MovedBy(t, d, h, y, e, 0)
      BY <3>1, <3>2, <3>3 DEF MovedBy
    <3>5. h # 0 => t[h] = d[h]
      BY <1>6
    <3>6. Alike(t, h, d, h)
      BY <1>1, <1>3, <1>9, <1>10, <1>13, <2>4, <3>4, <3>5, SectionKept
    <3> QED
      BY <3>6 DEF Alike
  <2> QED
    BY <1>1, <1>2, <2>5, <2>6
<1>16. e = Len(t) + 1 \/ (e < y /\ e <= Len(t))
  <2>1. CASE e <= Len(t)
    <3>1. e \notin y..Len(t)
      BY <1>1, <1>4, <1>11, <2>1
    <3> QED
      BY <1>2, <1>3, <1>11, <2>1, <3>1
  <2> QED
    BY <1>2, <1>3, <1>11, <2>1
<1> QED
  BY <1>5, <1>8, <1>14, <1>15, <1>16

LEMMA EndsHeads ==
  ASSUME NEW t, NEW d, NEW y, Ends(d, t, y), NEW g \in Heads(d), g # y
  PROVE  g \in Heads(t) /\ (g = 0 => y > 1)
<1>1. /\ IsText(t) /\ IsText(d) /\ y \in 1..Len(d) /\ y >= Len(t)
      /\ IsSeparator(d[y])
      /\ \A i \in 1..y - 1 : d[i] = IF i <= Len(t) THEN t[i] ELSE Blank
      /\ \A i \in y + 1..Len(d) : ~IsSeparator(d[i])
  BY DEF Ends
<1>2. Len(t) \in Nat \ {0} /\ Len(d) \in Nat \ {0} /\ y \in Nat \ {0}
  BY <1>1, TextIs
<1>3. ~IsSeparator(Blank)
  BY DEF IsSeparator, Blank
<1>4. CASE g = 0
  <2>1. ~IsSeparator(d[1])
    BY <1>1, <1>4, HeadIs
  <2>2. y > 1
    BY <1>1, <1>2, <2>1
  <2>3. 1 \in 1..y - 1 /\ 1 <= Len(t)
    BY <1>2, <2>2
  <2>4. d[1] = t[1]
    BY <1>1, <2>3
  <2> QED
    BY <1>1, <1>4, <2>1, <2>2, <2>4, HeadIs
<1>5. CASE g # 0
  <2>1. g \in 1..Len(d) /\ IsSeparator(d[g])
    BY <1>1, <1>5, HeadIs
  <2>2. g \notin y + 1..Len(d)
    BY <1>1, <2>1
  <2>3. g \in 1..y - 1
    BY <1>2, <2>1, <2>2
  <2>4. g <= Len(t) /\ IsSeparator(t[g])
    BY <1>1, <1>2, <1>3, <2>1, <2>3
  <2>5. g \in 1..Len(t)
    BY <1>2, <2>1, <2>4
  <2> QED
    BY <1>1, <1>5, <2>4, <2>5, HeadIs
<1> QED
  BY <1>4, <1>5

\* There is a request only where there are lines for it.
LEMMA EndsRequests ==
  ASSUME NEW t, NEW d, NEW y, Ends(d, t, y), NEW h \in RequestHeads(t)
  PROVE  h = 0 => y > 1
<1>0. SUFFICES ASSUME h = 0, ~(y > 1) PROVE FALSE
  OBVIOUS
<1>1. /\ IsText(t) /\ IsText(d) /\ y \in 1..Len(d) /\ y >= Len(t)
      /\ \A i \in y..Len(t) : t[i] = Blank
  BY DEF Ends
<1>2. Len(t) \in Nat \ {0} /\ Len(d) \in Nat \ {0} /\ y \in Nat \ {0}
  BY <1>1, TextIs
<1>3. y = 1 /\ Len(t) = 1
  <2>1. y >= Len(t) /\ ~(y > 1)
    BY <1>0, <1>1
  <2> QED
    BY <1>2, <2>1
<1>4. t[1] = Blank
  BY <1>1, <1>3
<1>5. h \in Heads(t) /\ HasRequest(t, h)
  BY DEF RequestHeads
<1>6. PICK e, l : e = NextSeparator(t, h) /\ l = RequestLine(t, h)
  OBVIOUS
<1>7. h \in 0..Len(t)
  BY <1>0, <1>2
<1>8. e <= Len(t) + 1 /\ e \in Nat
  BY <1>1, <1>6, <1>7, SectionPlaces
<1>9. l \in h + 1..e - 1 /\ t[l][1] = "request"
  BY <1>1, <1>5, <1>6, <1>7, LineHas DEF IsLine
<1>10. l = 1
  BY <1>0, <1>3, <1>8, <1>9
<1> QED
  BY <1>4, <1>9, <1>10, LineKind

Below(d, t, f, y) ==
  \A h \in RequestHeads(t) :
    h \in Nat /\ f[h] = h /\ Means(d, f[h]) = Means(t, h) /\ f[h] < y

LEMMA EndsMeans ==
  ASSUME NEW t, NEW d, NEW y, Ends(d, t, y), y \in RequestHeads(d),
         NEW f, f = [h \in RequestHeads(t) |-> h]
  PROVE  Maps(RequestHeads(t), f, RequestHeads(d) \ {y}) /\ Below(d, t, f, y)
<1>1. IsText(t) /\ IsText(d) /\ y \in 1..Len(d)
  BY DEF Ends
<1>2. Len(t) \in Nat \ {0} /\ y \in Nat
  BY <1>1, TextIs
<1>3. ASSUME NEW h \in RequestHeads(t)
      PROVE  /\ f[h] = h /\ h \in Nat /\ h \in RequestHeads(d) /\ h < y
             /\ Means(d, h) = Means(t, h)
  <2>1. h \in Heads(t) /\ HasRequest(t, h)
    BY DEF RequestHeads
  <2>2. h \in Nat
    BY <1>1, <2>1, RequestsAre
  <2>3. h \in Heads(d) /\ h < y /\ Alike(d, h, t, h)
    BY <2>1, EndsAlike, EndsRequests
  <2> QED
    BY <2>1, <2>2, <2>3 DEF Alike, RequestHeads
<1>4. ASSUME NEW g \in RequestHeads(d) \ {y} PROVE \E h \in RequestHeads(t) : f[h] = g
  <2>1. g \in Heads(d) /\ HasRequest(d, g) /\ g # y
    BY DEF RequestHeads
  <2>2. g \in Heads(t) /\ (g = 0 => y > 1)
    BY <2>1, EndsHeads
  <2>3. Alike(d, g, t, g)
    BY <2>2, EndsAlike
  <2>4. g \in RequestHeads(t)
    BY <2>1, <2>2, <2>3 DEF Alike, RequestHeads
  <2> QED
    BY <1>3, <2>4
<1>5. \A h \in RequestHeads(t) : f[h] \in RequestHeads(d) \ {y}
  <2> SUFFICES ASSUME NEW h \in RequestHeads(t) PROVE f[h] \in RequestHeads(d) \ {y}
    OBVIOUS
  <2>1. f[h] # y
    BY <1>2, <1>3
  <2> QED
    BY <1>3, <2>1
<1>6. Maps(RequestHeads(t), f, RequestHeads(d) \ {y})
  BY <1>3, <1>4, <1>5 DEF Maps
<1> QED
  BY <1>3, <1>6 DEF Below

\* A copy at the end.
LEMMA EndDoubled ==
  ASSUME NEW t, NEW d, NEW y, Ends(d, t, y), NEW h \in RequestHeads(t),
         NEW e, e = NextSeparator(t, h), e > Len(t),
         NEW f, Repeats(d, y, t, h, e, f)
  PROVE  Doubled(d, t, h, d[y][2])
<1>1. IsText(t) /\ IsText(d) /\ y \in 1..Len(d)
  BY DEF Ends
<1>2. Len(t) \in Nat \ {0} /\ y \in Nat
  BY <1>1, TextIs
<1>3. y \in RequestHeads(d) /\ Means(d, y) = [Means(t, h) EXCEPT !.name = d[y][2]]
  BY <1>1, RepeatsMeans
<1>4. PICK F : F = [g \in RequestHeads(t) |-> g]
  OBVIOUS
<1>5. Maps(RequestHeads(t), F, RequestHeads(d) \ {y}) /\ Below(d, t, F, y)
  BY <1>3, <1>4, EndsMeans
<1>6. h \in Heads(t) /\ h \in 0..Len(t)
  <2>1. h \in Heads(t)
    BY DEF RequestHeads
  <2> QED
    BY <1>1, <2>1, RequestsAre
<1>7. e \in Nat /\ \A i \in h + 1..e - 1 : ~IsSeparator(t[i])
  BY <1>1, <1>6, NextHas, SectionPlaces DEF Between
<1>8. ASSUME NEW g \in RequestHeads(t) PROVE g <= h
  <2>1. g \in Heads(t)
    BY DEF RequestHeads
  <2>2. g \in Nat /\ g \in 0..Len(t) /\ (g # 0 => IsSeparator(t[g]))
    BY <1>1, <2>1, RequestsAre, HeadIs
  <2>3. CASE g = 0
    BY <1>6, <2>3
  <2>4. CASE g # 0
    <3>1. g \notin h + 1..e - 1
      BY <1>7, <2>2, <2>4
    <3>2. g < e
      BY <1>2, <1>7, <2>2
    <3>3. h \in Nat /\ e \in Nat /\ g \in Nat
      BY <1>6, <1>7, <2>2
    <3>4. g > h => g \in h + 1..e - 1
      BY <3>2, <3>3
    <3> QED
      BY <3>1, <3>3, <3>4
  <2> QED
    BY <2>3, <2>4
<1>9. Around(d, t, F, h, y)
  <2> SUFFICES ASSUME NEW g \in RequestHeads(t)
               PROVE  /\ Means(d, F[g]) = Means(t, g)
                      /\ g <= h => F[g] < y
                      /\ g > h => F[g] > y
    BY DEF Around
  <2>1. g <= h /\ g \in Nat /\ h \in Nat
    BY <1>5, <1>6, <1>8 DEF Below
  <2> QED
    BY <1>5, <2>1 DEF Below
<1>10. Behind(d, t, h, Means(d, y))
  BY <1>1, <1>3, <1>5, <1>9, MeaningInserted
<1> QED
  BY <1>3, <1>10 DEF Doubled

\* One request more at the end.
Extended(d, t, v) ==
  Meaning(d) # <<>> /\ Front(Meaning(d)) = Meaning(t) /\ Last(Meaning(d)) = v

LEMMA EndExtended ==
  ASSUME NEW t, NEW d, NEW y, Ends(d, t, y), y \in RequestHeads(d)
  PROVE  Extended(d, t, Means(d, y))
<1>1. IsText(t) /\ IsText(d)
  BY DEF Ends
<1>2. PICK F : F = [g \in RequestHeads(t) |-> g]
  OBVIOUS
<1>3. Maps(RequestHeads(t), F, RequestHeads(d) \ {y}) /\ Below(d, t, F, y)
  BY <1>2, EndsMeans
<1>4. \A g \in RequestHeads(t) : Means(d, F[g]) = Means(t, g) /\ F[g] < y
  BY <1>3 DEF Below
<1>5. /\ Meaning(d) # <<>> /\ Front(Meaning(d)) = Meaning(t)
      /\ Last(Meaning(d)) = Means(d, y)
  BY <1>1, <1>3, <1>4, MeaningAppended
<1> QED
  BY <1>5 DEF Extended

----------------------------------------------------------------------------
(* What the plans of the other commands mean.                              *)

\* A request is that of a head.
Shows(t, x, r) ==
  /\ x \in Nat /\ r.start = x + 1 /\ r.start - 1 = x
  /\ r.line = RequestLine(t, x) /\ r.end = NextSeparator(t, x)
  /\ Means(t, x) = [name |-> r.name, target |-> r.target, headers |-> r.headers,
                    favorite |-> r.favorite, body |-> r.body]
  /\ r.name # Unnamed => x # 0

LEMMA RequestShown ==
  ASSUME NEW t, IsText(t), NEW r \in ToSet(Requests(t))
  PROVE  \E x \in RequestHeads(t) : Shows(t, x, r)
<1>1. PICK x \in Heads(t) : HasRequest(t, x) /\ r = RequestOf(t, x)
  BY RequestsAre
<1>2. x \in Nat
  BY RequestsAre
<1>3. x \in RequestHeads(t)
  BY <1>1 DEF RequestHeads
<1>4. /\ Means(t, x) = [name |-> r.name, target |-> r.target,
                        headers |-> r.headers, favorite |-> r.favorite,
                        body |-> r.body]
      /\ r.line = RequestLine(t, x) /\ r.start = x + 1
      /\ r.end = NextSeparator(t, x)
  BY <1>1, MeansIs
<1>5. r.name # Unnamed => x # 0
  BY <1>4 DEF Means, NameAt
<1>6. r.start - 1 = x
  BY <1>2, <1>4
<1> QED
  BY <1>2, <1>3, <1>4, <1>5, <1>6 DEF Shows

\* A request of the row's name and target.
Own(t, x, row) ==
  /\ x \in RequestHeads(t)
  /\ Means(t, x).name = row.request.name
  /\ Means(t, x).target = row.request.target

LEMMA PlanRenameMeans ==
  ASSUME NEW t, IsText(t), NEW row, NEW name, NEW edit \in PlanRename(t, row, name),
         NEW d, d = Edited(t, edit)
  PROVE  \E x : Own(t, x, row) /\ Renamed(d, t, x, name)
<1>1. PICK r \in ToSet(Requests(t)) :
        /\ r.name # Unnamed /\ r.name = row.request.name
        /\ r.target = row.request.target
        /\ edit = Edit(r.start - 1, r.start, <<Separator(name), Blank>>)
  BY DEF PlanRename, RequestsOn
<1>2. PICK x \in RequestHeads(t) : Shows(t, x, r)
  BY RequestShown
<1>3. /\ x # 0 /\ r.start = x + 1 /\ r.start - 1 = x
      /\ Means(t, x).name = r.name /\ Means(t, x).target = r.target
  BY <1>1, <1>2 DEF Shows
<1>4. d = Edited(t, Edit(x, x + 1, <<Separator(name), Blank>>))
  BY <1>1, <1>3
<1>5. Renamed(d, t, x, name)
  BY <1>3, <1>4, RenameMeans
<1> QED
  BY <1>1, <1>3, <1>5 DEF Own

LEMMA RepeatsIf ==
  ASSUME NEW t, IsText(t), NEW d, IsText(d), NEW h \in Nat, NEW e \in Nat, h < e,
         Between(t, h, e),
         NEW y \in 1..Len(d), IsSeparator(d[y]), NEW s \in Int, s = y - h,
         NEW f \in Nat, f >= e + s, f <= Len(d) + 1,
         \A i \in h + 1..e - 1 : d[i + s] = t[i],
         \A i \in e + s..f - 1 : d[i] = Blank,
         f <= Len(d) => IsSeparator(d[f])
  PROVE  Repeats(d, y, t, h, e, f)
<1>1. \A i \in h + 1..e - 1 : ~IsSeparator(t[i])
  BY DEF Between
<1>2. Len(d) \in Nat /\ y \in Nat /\ y + 1 <= e + s
  BY TextIs
<1>3. ~IsSeparator(Blank)
  BY DEF IsSeparator, Blank
<1>4. ASSUME NEW j \in y + 1..f - 1 PROVE ~IsSeparator(d[j])
  <2>1. CASE j < e + s
    <3>1. PICK i \in Int : i = j - s
      OBVIOUS
    <3>2. i \in h + 1..e - 1 /\ j = i + s
      BY <1>2, <2>1, <3>1
    <3> QED
      BY <1>1, <3>2
  <2>2. CASE j >= e + s
    BY <1>2, <1>3, <2>2
  <2> QED
    BY <1>2, <2>1, <2>2
<1>5. f \in y + 1..Len(d) + 1
  BY <1>2
<1>6. Between(d, y, f)
  BY <1>4, <1>5 DEF Between
<1>7. f = NextSeparator(d, y)
  <2>1. y \in 0..Len(d)
    BY <1>2
  <2> QED
    BY <1>6, <2>1, NextIs
<1> QED
  BY <1>7 DEF Repeats

\* The lines of a section under another name.
IsCopy(c, t, h, e, l) ==
  /\ Len(c) = e - h + (IF e <= Len(t) THEN 1 ELSE 0) /\ c[1] = l
  /\ \A i \in 2..e - h : c[i] = t[h + i - 1]
  /\ e <= Len(t) => c[e - h + 1] = Blank
  /\ c \in Seq(Range(t) \cup {Blank, l}) /\ c # <<>>

LEMMA CopyIs ==
  ASSUME NEW t, IsText(t), NEW h \in 1..Len(t), NEW e, e = NextSeparator(t, h),
         NEW l, NEW c, c = <<l>> \o Tail(SectionText(t, h))
  PROVE  IsCopy(c, t, h, e, l)
<1>1. h \in 0..Len(t) /\ h # 0 /\ Len(t) \in Nat
  BY TextIs
<1>2. h \in Nat /\ e \in Nat \ {0} /\ h < e /\ e <= Len(t) + 1
  BY <1>1, SectionPlaces
<1>3. PICK s, S : s = SectionText(t, h) /\ S = Range(t) \cup {Blank, l}
  OBVIOUS
<1>4. s \in Seq(Range(t) \cup {Blank}) /\ IsSlice(s, t, h, e) /\ s # <<>>
  <2>1. h \in 1..Len(t) + 1 /\ e \in h..Len(t) + 1 /\ h <= Len(t)
    BY <1>1, <1>2
  <2>2. s = Slice(t, h, e)
    BY <1>3 DEF SectionText
  <2>3. s \in Seq(Range(t) \cup {Blank}) /\ IsSlice(s, t, h, e)
    BY <2>1, <2>2, SliceHas
  <2>4. s # <<>>
    BY <1>1, <1>3, SectionPlaces
  <2> QED
    BY <2>3, <2>4
<1>5. /\ e <= Len(t) => Len(s) = e - h + 1 /\ s[e - h + 1] = Blank
      /\ e = Len(t) + 1 => Len(s) = e - h
      /\ \A i \in 1..e - h : s[i] = t[h + i - 1]
  BY <1>4 DEF IsSlice
<1>6. s \in Seq(S)
  <2>1. Range(t) \cup {Blank} \subseteq S
    BY <1>3
  <2> QED
    BY <1>4, <2>1, SeqMonotonic
<1>7. PICK a, b : a = <<l>> /\ b = Tail(s)
  OBVIOUS
<1>8. PICK n \in Nat \ {0} : n = Len(s)
  BY <1>4, <1>6, EmptySeq
<1>9. a \in Seq(S) /\ Len(a) = 1 /\ a[1] = l
  <2>1. l \in S
    BY <1>3
  <2> QED
    BY <1>7, <2>1
<1>10. b \in Seq(S) /\ Len(b) = n - 1 /\ \A i \in 1..n - 1 : b[i] = s[i + 1]
  BY <1>4, <1>6, <1>7, <1>8, HeadTailProperties
<1>11. c \in Seq(S) /\ IsJoin(c, a, b)
  BY <1>3, <1>7, <1>9, <1>10, TextsJoined
<1>12. /\ Len(c) = n /\ c[1] = l
       /\ \A i \in 1..n - 1 : c[1 + i] = b[i]
  <2>1. 1 + (n - 1) = n /\ 1 \in 1..1
    BY <1>8
  <2>2. Len(c) = 1 + (n - 1) /\ (\A i \in 1..1 : c[i] = a[i])
        /\ \A i \in 1..n - 1 : c[1 + i] = b[i]
    BY <1>9, <1>10, <1>11 DEF IsJoin
  <2> QED
    BY <1>9, <2>1, <2>2
<1>13. ASSUME NEW i \in 2..n PROVE c[i] = s[i]
  <2>1. PICK j \in Int : j = i - 1
    BY <1>8
  <2>2. j \in 1..n - 1 /\ 1 + j = i /\ j + 1 = i
    BY <1>8, <2>1
  <2> QED
    BY <1>10, <1>12, <2>2
<1>14. n = e - h + (IF e <= Len(t) THEN 1 ELSE 0) /\ e - h >= 1 /\ n >= e - h
  <2>1. (e <= Len(t) => n = e - h + 1) /\ (e = Len(t) + 1 => n = e - h)
    BY <1>5, <1>8
  <2>2. CASE e <= Len(t)
    BY <1>2, <2>1, <2>2
  <2>3. CASE ~(e <= Len(t))
    <3>1. e = Len(t) + 1
      BY <1>1, <1>2, <2>3
    <3>2. n = e - h
      BY <2>1, <3>1
    <3>3. e - h >= 1 /\ e - h \in Nat
      BY <1>2
    <3> QED
      BY <2>3, <3>2, <3>3
  <2> QED
    BY <2>2, <2>3
<1>15. \A i \in 2..e - h : c[i] = t[h + i - 1]
  <2> SUFFICES ASSUME NEW i \in 2..e - h PROVE c[i] = t[h + i - 1]
    OBVIOUS
  <2>1. i \in 2..n /\ i \in 1..e - h
    BY <1>2, <1>14
  <2> QED
    BY <1>5, <1>13, <2>1
<1>16. e <= Len(t) => c[e - h + 1] = Blank
  <2>1. e <= Len(t) => e - h + 1 \in 2..n
    BY <1>2, <1>14
  <2> QED
    BY <1>5, <1>13, <2>1
<1>17. c # <<>>
  <2>1. Len(c) # 0
    BY <1>8, <1>12
  <2> QED
    BY <1>11, <2>1, NotEmpty
<1> QED
  BY <1>3, <1>11, <1>12, <1>14, <1>15, <1>16, <1>17 DEF IsCopy

\* A copy above the next separator.
LEMMA CopyInMiddle ==
  ASSUME NEW t, IsText(t), NEW h \in RequestHeads(t), h # 0,
         NEW e, e = NextSeparator(t, h), e <= Len(t),
         NEW l, IsSeparator(l), NEW c, IsCopy(c, t, h, e, l),
         NEW d, d = Edited(t, Edit(e, e, c))
  PROVE  Doubled(d, t, h, l[2])
<1>1. h \in Heads(t) /\ HasRequest(t, h)
  BY DEF RequestHeads
<1>2. h \in 0..Len(t) /\ Len(t) \in Nat
  BY <1>1, RequestsAre
<1>3. h \in Nat \ {0} /\ e \in Nat \ {0} /\ h < e /\ e \in 1..Len(t)
  <2>1. h \in Nat /\ e \in Nat \ {0} /\ h < e
    BY <1>2, SectionPlaces
  <2> QED
    BY <1>2, <2>1
<1>4. Between(t, h, e) /\ IsSeparator(t[e])
  BY <1>2, NextHas DEF Between
<1>5. PICK s \in Nat \ {0} : s = e - h
  BY <1>3
<1>6. /\ Len(c) = s + 1 /\ c[1] = l /\ c[s + 1] = Blank /\ c # <<>>
      /\ \A i \in 2..s : c[i] = t[h + i - 1]
      /\ c \in Seq(Range(t) \cup {Blank, l})
  <2>1. /\ Len(c) = e - h + 1 /\ c[1] = l /\ c[e - h + 1] = Blank /\ c # <<>>
        /\ \A i \in 2..e - h : c[i] = t[h + i - 1]
        /\ c \in Seq(Range(t) \cup {Blank, l})
    BY DEF IsCopy
  <2> QED
    BY <1>5, <2>1
<1>7. IsText(c) /\ c[Len(c)] = Blank /\ s = Len(c) - 1
  <2>1. IsText(c)
    BY <1>6, IsTextIf
  <2> QED
    BY <1>5, <1>6, <2>1
<1>8. PICK r : r = Rest(t, e)
  OBVIOUS
<1>9. Replaces(d, t, e, c, s, r)
  BY <1>3, <1>7, <1>8, EditedAt
<1>10. /\ Len(r) = Len(t) - e + 1
       /\ \A i \in 1..Len(t) - e + 1 : r[i] = t[e + i - 1]
  BY <1>3, <1>8, RestIs
<1>11. /\ IsText(d) /\ Len(d) = e - 1 + s + Len(r)
       /\ \A i \in 1..e - 1 : d[i] = t[i]
       /\ \A i \in 1..s : d[e - 1 + i] = c[i]
       /\ \A i \in 1..Len(r) : d[e - 1 + s + i] = r[i]
  BY <1>9 DEF Replaces
<1>12. Len(d) = Len(t) + s
  BY <1>2, <1>3, <1>5, <1>10, <1>11
<1>13. ASSUME NEW i \in e..Len(t) PROVE d[i + s] = t[i]
  <2>1. PICK j \in Int : j = i - e + 1
    BY <1>3
  <2>2. j \in 1..Len(r) /\ e - 1 + s + j = i + s /\ e + j - 1 = i
    <3>1. Len(r) = Len(t) - e + 1 /\ i \in Int /\ e <= i /\ i <= Len(t) /\ e \in Nat
      BY <1>2, <1>3, <1>10
    <3>2. j \in 1..Len(r)
      BY <1>2, <2>1, <3>1, SMTT(40)
    <3>3. e - 1 + s + j = i + s /\ e + j - 1 = i
      BY <2>1, <3>1, SMTT(40)
    <3> QED
      BY <3>2, <3>3
  <2> QED
    BY <1>10, <1>11, <2>2
<1>14. Amid(d, t, e, e, s)
  <2>1. e \in 1..e /\ s \in Int /\ e + s >= e
    BY <1>3, <1>5
  <2> QED
    BY <1>3, <1>11, <1>12, <1>13, <2>1 DEF Amid
<1>15. d[e] = l
  <2>1. 1 \in 1..s /\ e - 1 + 1 = e
    BY <1>3, <1>5
  <2>2. d[e - 1 + 1] = c[1]
    BY <1>11, <2>1
  <2> QED
    BY <1>6, <2>1, <2>2
<1>16. ASSUME NEW i \in h + 1..e - 1 PROVE d[i + s] = t[i]
  <2>1. PICK j \in Int : j = i - h + 1
    BY <1>3
  <2>2. j \in 2..s /\ j \in 1..s /\ e - 1 + j = i + s /\ h + j - 1 = i
    BY <1>3, <1>5, <2>1
  <2> QED
    BY <1>6, <1>11, <2>2
<1>17. PICK f \in Nat : f = e + s
  BY <1>3, <1>5
<1>18. Repeats(d, e, t, h, e, f)
  <2>1. e \in 1..Len(d) /\ IsSeparator(d[e]) /\ s \in Int /\ h \in Nat /\ e \in Nat
    <3>1. e \in 1..Len(t) + s
      BY <1>2, <1>3, <1>5
    <3> QED
      BY <1>3, <1>5, <1>12, <1>15, <3>1
  <2>2. f >= e + s
    BY <1>3, <1>5, <1>17
  <2>4. f <= Len(d) + 1
    BY <1>2, <1>3, <1>5, <1>12, <1>17
  <2>5. \A i \in e + s..f - 1 : d[i] = Blank
    BY <1>3, <1>5, <1>17
  <2>3. IsSeparator(d[f])
    <3>1. e \in e..Len(t)
      BY <1>3
    <3>2. d[e + s] = t[e]
      BY <1>13, <3>1
    <3> QED
      BY <1>4, <1>17, <3>2
  <2> QED
    BY <1>3, <1>4, <1>5, <1>11, <1>16, <2>1, <2>2, <2>3, <2>4, <2>5, RepeatsIf
<1>19. f >= e + s
  BY <1>3, <1>5, <1>17
<1>20. Doubled(d, t, h, d[e][2])
  BY <1>4, <1>5, <1>14, <1>18, <1>19, MiddleMeans
<1> QED
  BY <1>15, <1>20

\* A copy behind the last line.
LEMMA CopyAtEnd ==
  ASSUME NEW t, IsText(t), NEW h \in RequestHeads(t), h # 0,
         NEW e, e = NextSeparator(t, h), NEW L, L = Len(t), e > L,
         NEW l, IsSeparator(l), NEW c, IsCopy(c, t, h, e, l), t[L] = Blank,
         NEW d, d = Edited(t, Edit(L + 1, L + 1, c))
  PROVE  Doubled(d, t, h, l[2])
<1>1. h \in Heads(t) /\ HasRequest(t, h)
  BY DEF RequestHeads
<1>2. h \in 0..L /\ L \in Nat \ {0}
  BY <1>1, RequestsAre, TextIs
<1>3. h \in Nat \ {0} /\ h <= L /\ e = L + 1
  <2>1. e \in Nat /\ e <= L + 1
    BY <1>2, SectionPlaces
  <2> QED
    BY <1>2, <2>1
<1>4. Between(t, h, e)
  BY <1>2, NextHas
<1>5. h < L
  <2>1. IsSeparator(t[h])
    BY <1>1, HeadIs
  <2>2. ~IsSeparator(Blank)
    BY DEF IsSeparator, Blank
  <2>3. h # L
    BY <2>1, <2>2
  <2> QED
    BY <1>2, <1>3, <2>3
<1>6. PICK n \in Nat : n = e - h
  BY <1>3
<1>7. n = L + 1 - h /\ n >= 2
  BY <1>2, <1>3, <1>5, <1>6
<1>8. /\ Len(c) = n /\ c[1] = l /\ c # <<>>
      /\ \A i \in 2..n : c[i] = t[h + i - 1]
      /\ c \in Seq(Range(t) \cup {Blank, l})
  <2>1. /\ Len(c) = e - h + (IF e <= Len(t) THEN 1 ELSE 0) /\ c[1] = l /\ c # <<>>
        /\ \A i \in 2..e - h : c[i] = t[h + i - 1]
        /\ c \in Seq(Range(t) \cup {Blank, l})
    BY DEF IsCopy
  <2>2. ~(e <= Len(t)) /\ e - h + 0 = n
    BY <1>2, <1>3, <1>6
  <2> QED
    BY <1>6, <2>1, <2>2
<1>9. Appends(d, t, c, L)
  <2>1. IsText(c)
    BY <1>8, IsTextIf
  <2> QED
    BY <2>1, AppendedAt
<1>10. /\ IsText(d) /\ Len(d) = L + n - 1
       /\ \A i \in 1..L - 1 : d[i] = t[i]
       /\ \A i \in 2..n : d[L + i - 1] = t[h + i - 1]
       /\ d[L] = l
  <2>1. /\ IsText(d) /\ Len(d) = L + Len(c) - 1
        /\ \A i \in 1..L - 1 : d[i] = t[i]
        /\ \A i \in 2..Len(c) : d[L + i - 1] = c[i]
        /\ d[L] = IF t[L] = Blank THEN c[1] ELSE t[L]
    BY <1>9 DEF Appends
  <2> QED
    BY <1>8, <2>1
<1>0. PICK s : s = L - h
  OBVIOUS
<1>11. s \in Int /\ s = L - h
  BY <1>0, <1>2, <1>3
<1>12. ASSUME NEW i \in h + 1..e - 1 PROVE d[i + s] = t[i]
  <2>1. PICK j \in Int : j = i - h + 1
    BY <1>3
  <2>2. j \in 2..n /\ L + j - 1 = i + s /\ h + j - 1 = i
    BY <1>2, <1>3, <1>7, <1>11, <2>1
  <2> QED
    BY <1>10, <2>2
<1>13. PICK f \in Nat : f = e + s
  BY <1>2, <1>3, <1>11
<1>14. L \in 1..Len(d) /\ f = Len(d) + 1 /\ Len(d) \in Nat
  BY <1>2, <1>3, <1>7, <1>10, <1>11, <1>13
<1>15. Repeats(d, L, t, h, e, f)
  <2>1. IsSeparator(d[L]) /\ h \in Nat /\ e \in Nat /\ h < e
    BY <1>2, <1>3, <1>10
  <2>2. f >= e + s /\ f <= Len(d) + 1 /\ \A i \in e + s..f - 1 : d[i] = Blank
    BY <1>3, <1>11, <1>13, <1>14
  <2>3. ~(f <= Len(d))
    BY <1>14
  <2> QED
    BY <1>4, <1>10, <1>11, <1>12, <1>14, <2>1, <2>2, <2>3, RepeatsIf
<1>16. Ends(d, t, L)
  <2>1. L >= Len(t) /\ IsSeparator(d[L])
    BY <1>2, <1>10
  <2>2. \A i \in 1..L - 1 : d[i] = IF i <= Len(t) THEN t[i] ELSE Blank
    BY <1>2, <1>10
  <2>3. \A i \in L..Len(t) : t[i] = Blank
    BY <1>2
  <2>4. \A i \in L + 1..Len(d) : ~IsSeparator(d[i])
    <3>1. f = NextSeparator(d, L)
      BY <1>15 DEF Repeats
    <3>2. L \in 0..Len(d)
      BY <1>14
    <3>3. \A i \in L + 1..f - 1 : ~IsSeparator(d[i])
      BY <1>10, <3>1, <3>2, NextHas, SMTT(40) DEF Between
    <3>4. f - 1 = Len(d)
      BY <1>14
    <3> QED
      BY <3>3, <3>4
  <2> QED
    BY <1>10, <1>14, <2>1, <2>2, <2>3, <2>4 DEF Ends
<1>17. Doubled(d, t, h, d[L][2])
  BY <1>15, <1>16, EndDoubled
<1> QED
  BY <1>10, <1>17

\* A copy behind a last line that is not ended.
IsBroken(x, c, n) ==
  /\ IsText(x) /\ n = Len(c) /\ Len(x) = n + 2 /\ x[1] = Blank /\ x[n + 2] = Blank
  /\ \A i \in 1..n : x[1 + i] = c[i]

LEMMA CopyBroken ==
  ASSUME NEW t, IsText(t), NEW h \in RequestHeads(t), h # 0,
         NEW e, e = NextSeparator(t, h), NEW L, L = Len(t), e > L,
         NEW l, IsSeparator(l), NEW c, IsCopy(c, t, h, e, l), t[L] # Blank,
         NEW n, NEW x, IsBroken(x, c, n),
         NEW d, d = Edited(t, Edit(L + 1, L + 1, x))
  PROVE  Doubled(d, t, h, l[2])
<1>0. /\ IsText(x) /\ n = Len(c) /\ Len(x) = n + 2 /\ x[1] = Blank
      /\ x[n + 2] = Blank /\ \A i \in 1..n : x[1 + i] = c[i]
  BY DEF IsBroken
<1>1. h \in Heads(t) /\ HasRequest(t, h)
  BY DEF RequestHeads
<1>2. h \in 0..L /\ L \in Nat \ {0}
  BY <1>1, RequestsAre, TextIs
<1>3. h \in Nat \ {0} /\ h <= L /\ e = L + 1
  <2>1. e \in Nat /\ e <= L + 1
    BY <1>2, SectionPlaces
  <2> QED
    BY <1>2, <2>1
<1>4. Between(t, h, e)
  BY <1>2, NextHas
<1>5. n = L + 1 - h /\ n \in Nat \ {0} /\ c[1] = l
      /\ \A i \in 2..n : c[i] = t[h + i - 1]
  <2>1. /\ Len(c) = e - h + (IF e <= Len(t) THEN 1 ELSE 0) /\ c[1] = l
        /\ \A i \in 2..e - h : c[i] = t[h + i - 1]
    BY DEF IsCopy
  <2>2. ~(e <= Len(t)) /\ e - h + 0 = L + 1 - h /\ e - h = L + 1 - h
    BY <1>2, <1>3
  <2>3. n = L + 1 - h
    BY <1>0, <1>2, <1>3, <2>1, <2>2
  <2> QED
    BY <1>2, <1>3, <2>1, <2>2, <2>3
<1>6. Appends(d, t, x, L)
  BY <1>0, AppendedAt
<1>7. /\ IsText(d) /\ Len(d) = L + n + 1
      /\ \A i \in 1..L : d[i] = t[i]
      /\ \A i \in 2..n + 2 : d[L + i - 1] = x[i]
  <2>1. /\ IsText(d) /\ Len(d) = L + Len(x) - 1
        /\ \A i \in 1..L - 1 : d[i] = t[i]
        /\ \A i \in 2..Len(x) : d[L + i - 1] = x[i]
        /\ d[L] = IF t[L] = Blank THEN x[1] ELSE t[L]
    BY <1>6 DEF Appends
  <2>2. d[L] = t[L]
    BY <2>1
  <2>3. \A i \in 1..L : i \in 1..L - 1 \/ i = L
    BY <1>2
  <2>4. \A i \in 1..L : d[i] = t[i]
    BY <2>1, <2>2, <2>3
  <2>5. Len(d) = L + n + 1
    <3>1. Len(d) = L + (n + 2) - 1
      BY <1>0, <2>1
    <3>2. L + (n + 2) - 1 = L + n + 1
      BY <1>2, <1>5
    <3> QED
      BY <3>1, <3>2
  <2>6. \A i \in 2..n + 2 : d[L + i - 1] = x[i]
    BY <1>0, <2>1
  <2> QED
    BY <2>1, <2>4, <2>5, <2>6
<1>8. PICK y, s : y = L + 1 /\ s = L + 1 - h
  OBVIOUS
<1>9. y \in Nat \ {0} /\ s \in Int /\ s = y - h /\ y \in 1..Len(d) /\ Len(d) \in Nat
  BY <1>2, <1>3, <1>5, <1>7, <1>8
<1>10. ASSUME NEW i \in 1..n PROVE d[L + i] = c[i]
  <2>1. PICK j \in Int : j = i + 1
    OBVIOUS
  <2>2. j \in 2..n + 2 /\ L + j - 1 = L + i /\ 1 + i = j
    BY <1>2, <1>5, <2>1
  <2> QED
    BY <1>0, <1>7, <2>2, SMTT(40)
<1>11. d[y] = l
  <2>1. 1 \in 1..n
    BY <1>5
  <2> QED
    BY <1>5, <1>8, <1>10, <2>1
<1>12. d[Len(d)] = Blank
  <2>1. n + 2 \in 2..n + 2 /\ L + (n + 2) - 1 = L + n + 1
    BY <1>2, <1>5
  <2>2. d[L + (n + 2) - 1] = x[n + 2]
    BY <1>7, <2>1
  <2>3. d[L + n + 1] = Blank
    BY <1>0, <2>1, <2>2
  <2> QED
    BY <1>7, <2>3
<1>13. ASSUME NEW i \in h + 1..e - 1 PROVE d[i + s] = t[i]
  <2>1. PICK j : j = i - h + 1
    OBVIOUS
  <2>2. j \in 2..n /\ L + j = i + s /\ h + j - 1 = i
    BY <1>2, <1>3, <1>5, <1>8, <2>1
  <2>3. j \in 1..n
    BY <2>2
  <2> QED
    BY <1>5, <1>10, <2>2, <2>3
<1>14. PICK f : f = Len(d) + 1
  OBVIOUS
<1>15. f \in Nat /\ f <= Len(d) + 1 /\ ~(f <= Len(d))
  BY <1>9, <1>14
<1>16. f = e + s + 1
  BY <1>2, <1>3, <1>5, <1>7, <1>8, <1>14
<1>17. Repeats(d, y, t, h, e, f)
  <2>1. IsSeparator(d[y]) /\ h \in Nat /\ e \in Nat /\ h < e
    BY <1>2, <1>3, <1>11
  <2>2. f >= e + s
    BY <1>9, <1>16, <2>1
  <2>3. ASSUME NEW i \in e + s..f - 1 PROVE d[i] = Blank
    <3>0. i \in Int /\ i >= e + s /\ i <= f - 1 /\ f = e + s + 1 /\ e + s \in Int
      BY <1>9, <1>16, <2>1
    <3>1. i = e + s
      BY <3>0
    <3>2. i = Len(d)
      BY <1>9, <1>14, <1>16, <2>1, <3>1, SMTT(40)
    <3> QED
      BY <1>12, <3>2
  <2>4. IsText(d) /\ y \in 1..Len(d) /\ s \in Int /\ s = y - h
    BY <1>7, <1>9
  <2> QED
    BY <1>4, <1>13, <1>15, <2>1, <2>2, <2>3, <2>4, RepeatsIf
<1>18. Ends(d, t, y)
  <2>1. y >= Len(t) /\ IsSeparator(d[y])
    BY <1>2, <1>8, <1>11
  <2>2. \A i \in 1..y - 1 : d[i] = IF i <= Len(t) THEN t[i] ELSE Blank
    BY <1>2, <1>7, <1>8
  <2>3. \A i \in y..Len(t) : t[i] = Blank
    BY <1>2, <1>8
  <2>4. \A i \in y + 1..Len(d) : ~IsSeparator(d[i])
    <3>1. f = NextSeparator(d, y)
      BY <1>17 DEF Repeats
    <3>2. y \in 0..Len(d) /\ IsText(d)
      BY <1>7, <1>9
    <3>3. \A i \in y + 1..f - 1 : ~IsSeparator(d[i])
      BY <3>1, <3>2, NextHas DEF Between
    <3>4. f - 1 = Len(d)
      BY <1>9, <1>14
    <3> QED
      BY <3>3, <3>4
  <2> QED
    BY <1>7, <1>9, <2>1, <2>2, <2>3, <2>4 DEF Ends
<1>19. Doubled(d, t, h, d[y][2])
  BY <1>17, <1>18, EndDoubled
<1> QED
  BY <1>11, <1>19

LEMMA PlanDuplicateMeans ==
  ASSUME NEW t, IsText(t), NEW row, NEW edit \in PlanDuplicate(t, row),
         NEW d, d = Edited(t, edit)
  PROVE  \E x, name : Own(t, x, row) /\ Doubled(d, t, x, name)
<1>1. PICK r \in ToSet(Requests(t)) :
        /\ r.name # Unnamed /\ r = row.request
        /\ edit = LET head == r.start - 1
                      end == NextSeparator(t, head)
                      copy == <<Separator(CopyName(t, r.name))>>
                                \o Tail(SectionText(t, head))
                      broken == IF end > Len(t) /\ Last(t) # Blank
                                THEN <<Blank>> \o copy ELSE copy
                  IN  Edit(end, end, IF Last(broken) = Blank THEN broken
                                     ELSE Append(broken, Blank))
  BY DEF PlanDuplicate, Unchanged, RequestsOn
<1>2. PICK h \in RequestHeads(t) : Shows(t, h, r)
  BY RequestShown
<1>3. /\ h \in Nat /\ h # 0 /\ r.start - 1 = h
      /\ Means(t, h).name = r.name /\ Means(t, h).target = r.target
  BY <1>1, <1>2 DEF Shows
<1>4. Own(t, h, row)
  BY <1>1, <1>3 DEF Own
<1>5. h \in Heads(t) /\ HasRequest(t, h)
  BY DEF RequestHeads
<1>6. PICK L, e : L = Len(t) /\ e = NextSeparator(t, h)
  OBVIOUS
<1>7. h \in 1..Len(t) /\ h \in 0..Len(t) /\ L \in Nat
  <2>1. h \in 0..Len(t) /\ Len(t) \in Nat
    BY <1>5, RequestsAre
  <2> QED
    BY <1>3, <1>6, <2>1
<1>8. e \in Nat /\ h < e /\ e <= L + 1
  BY <1>6, <1>7, SectionPlaces
<1>9. PICK name, l : name = CopyName(t, r.name) /\ l = Separator(name)
  OBVIOUS
<1>10. PICK c : c = <<l>> \o Tail(SectionText(t, h))
  OBVIOUS
<1>11. PICK b : b = IF e > L /\ Last(t) # Blank THEN <<Blank>> \o c ELSE c
  OBVIOUS
<1>12. PICK x : x = IF Last(b) = Blank THEN b ELSE Append(b, Blank)
  OBVIOUS
<1>13. edit = Edit(e, e, x)
  BY <1>1, <1>3, <1>6, <1>9, <1>10, <1>11, <1>12
<1>14. IsSeparator(l) /\ l[2] = name
  BY <1>9 DEF IsSeparator, Separator
<1>15. IsCopy(c, t, h, e, l)
  BY <1>6, <1>7, <1>10, CopyIs
<1>16. /\ Len(c) = e - h + (IF e <= L THEN 1 ELSE 0) /\ c[1] = l
       /\ \A i \in 2..e - h : c[i] = t[h + i - 1]
       /\ e <= L => c[e - h + 1] = Blank
       /\ c \in Seq(Range(t) \cup {Blank, l})
  BY <1>6, <1>15 DEF IsCopy
<1>17. CASE e <= L
  <2>1. b = c
    BY <1>7, <1>8, <1>11, <1>17
  <2>2. Len(c) = e - h + 1
    BY <1>16, <1>17
  <2>3. Last(b) = Blank
    BY <1>16, <1>17, <2>1, <2>2 DEF Last
  <2>4. x = c
    BY <1>12, <2>1, <2>3
  <2>5. d = Edited(t, Edit(e, e, c))
    BY <1>13, <2>4
  <2>6. Doubled(d, t, h, l[2])
    BY <1>3, <1>6, <1>14, <1>15, <1>17, <2>5, CopyInMiddle
  <2> QED
    BY <1>4, <2>6
<1>18. CASE e > L
  <2>1. e = L + 1
    BY <1>7, <1>8, <1>18
  <2>2. Len(c) = e - h
    <3>1. ~(e <= L)
      BY <1>7, <1>8, <1>18
    <3>2. Len(c) = e - h + 0
      BY <1>16, <3>1
    <3> QED
      BY <1>3, <1>8, <3>2
  <2>3. h < L
    <3>1. PICK k : k = RequestLine(t, h)
      OBVIOUS
    <3>2. k \in h + 1..Len(t)
      BY <1>5, <3>1, RequestLineIs
    <3> QED
      BY <1>3, <1>6, <1>7, <3>2
  <2>4. PICK n : n = Len(c)
    OBVIOUS
  <2>5. n \in Nat /\ n >= 2 /\ n = L + 1 - h
    BY <1>3, <1>7, <2>1, <2>2, <2>3, <2>4
  <2>6. c[n] = t[L]
    <3>1. n \in 2..e - h /\ h + n - 1 = L
      BY <1>3, <1>7, <2>1, <2>2, <2>4, <2>5
    <3> QED
      BY <1>16, <3>1
  <2>7. Last(t) = t[L]
    BY <1>6 DEF Last
  <2>8. CASE t[L] = Blank
    <3>1. b = c
      BY <1>11, <2>7, <2>8
    <3>2. Last(b) = Blank
      BY <2>4, <2>6, <2>8, <3>1 DEF Last
    <3>3. x = c
      BY <1>12, <3>1, <3>2
    <3>4. d = Edited(t, Edit(L + 1, L + 1, c))
      BY <1>13, <2>1, <3>3
    <3>5. Doubled(d, t, h, l[2])
      BY <1>3, <1>6, <1>14, <1>15, <1>18, <2>8, <3>4, CopyAtEnd
    <3> QED
      BY <1>4, <3>5
  <2>9. CASE t[L] # Blank
    <3>1. PICK u, S : u = <<Blank>> /\ S = Range(t) \cup {Blank, l}
      OBVIOUS
    <3>2. u \in Seq(S) /\ Len(u) = 1 /\ u[1] = Blank /\ Blank \in S
      BY <3>1
    <3>3. b = u \o c /\ c \in Seq(S)
      BY <1>11, <1>16, <1>18, <2>7, <2>9, <3>1
    <3>4. b \in Seq(S) /\ IsJoin(b, u, c)
      BY <3>2, <3>3, TextsJoined
    <3>5. /\ Len(b) = n + 1 /\ b[1] = Blank
          /\ \A i \in 1..n : b[1 + i] = c[i]
      <4>1. /\ Len(b) = Len(u) + Len(c)
            /\ \A i \in 1..Len(u) : b[i] = u[i]
            /\ \A i \in 1..Len(c) : b[Len(u) + i] = c[i]
        BY <3>4 DEF IsJoin
      <4>2. 1 \in 1..Len(u) /\ 1 + n = n + 1
        BY <2>5, <3>2
      <4> QED
        BY <2>4, <3>2, <4>1, <4>2
    <3>6. Last(b) # Blank
      <4>1. n \in 1..n /\ 1 + n = n + 1
        BY <2>5
      <4>2. b[n + 1] = c[n]
        BY <3>5, <4>1
      <4> QED
        BY <2>6, <2>9, <3>5, <4>2 DEF Last
    <3>7. x = Append(b, Blank)
      BY <1>12, <3>6
    <3>8. /\ x \in Seq(S) /\ Len(x) = n + 2 /\ x[n + 2] = Blank
          /\ \A i \in 1..n + 1 : x[i] = b[i]
      <4>1. /\ x \in Seq(S) /\ Len(x) = Len(b) + 1 /\ x[Len(b) + 1] = Blank
            /\ \A i \in 1..Len(b) : x[i] = b[i]
        BY <3>2, <3>4, <3>7, AppendProperties
      <4>2. n + 1 + 1 = n + 2
        BY <2>5
      <4> QED
        BY <3>5, <4>1, <4>2
    <3>9. IsText(x)
      <4>1. Len(x) # 0
        BY <2>5, <3>8
      <4> QED
        BY <3>8, <4>1, NotEmpty, IsTextIf
    <3>10. x[1] = Blank
      <4>1. 1 \in 1..n + 1
        BY <2>5
      <4> QED
        BY <3>5, <3>8, <4>1
    <3>11. ASSUME NEW i \in 1..n PROVE x[1 + i] = c[i]
      <4>1. 1 + i \in 1..n + 1
        BY <2>5
      <4> QED
        BY <3>5, <3>8, <4>1
    <3>12. d = Edited(t, Edit(L + 1, L + 1, x))
      BY <1>13, <2>1
    <3>13. Doubled(d, t, h, l[2])
      <4>1. IsBroken(x, c, n)
        BY <2>4, <3>8, <3>9, <3>10, <3>11 DEF IsBroken
      <4> QED
        BY <1>3, <1>6, <1>14, <1>15, <1>18, <2>9, <3>12, <4>1, CopyBroken
    <3> QED
      BY <1>4, <3>13
  <2> QED
    BY <2>8, <2>9
<1> QED
  BY <1>7, <1>8, <1>17, <1>18

\* A new section behind all others.
LEMMA NewSection ==
  ASSUME NEW t, IsText(t), NEW d, IsText(d), NEW y \in Nat \ {0}, y >= Len(t),
         Len(d) = y + 2, NEW name, d[y] = Separator(name), NEW m, m[1] = "request",
         d[y + 1] = m, d[y + 2] = Blank,
         \A i \in 1..y - 1 : d[i] = IF i <= Len(t) THEN t[i] ELSE Blank,
         \A i \in y..Len(t) : t[i] = Blank
  PROVE  \E v : v.target = m /\ Extended(d, t, v)
<1>1. IsSeparator(d[y]) /\ ~IsSeparator(Blank)
  <2>1. d[y][1] = "###"
    BY DEF Separator
  <2>2. Blank[1] = ""
    BY DEF Blank
  <2> QED
    BY <2>1, <2>2 DEF IsSeparator
<1>2. m # Blank /\ ~IsComment(m) /\ ~IsSeparator(m)
  BY LineKind
<1>3. PICK l, e : l = y + 1 /\ e = y + 3
  OBVIOUS
<1>4. l \in Nat /\ e \in Nat /\ e = Len(d) + 1 /\ y \in 1..Len(d) /\ y \in 0..Len(d)
  BY <1>3
<1>5. \A i \in y + 1..e - 1 : ~IsSeparator(d[i])
  <2>1. \A i \in y + 1..e - 1 : i = y + 1 \/ i = y + 2
    BY <1>3
  <2> QED
    BY <1>1, <1>2, <2>1
<1>6. NextSeparator(d, y) = e
  <2>1. e \in y + 1..Len(d) + 1 /\ ~(e <= Len(d))
    BY <1>3, <1>4
  <2>2. Between(d, y, e)
    BY <1>5, <2>1 DEF Between
  <2> QED
    BY <1>4, <2>2, NextIs
<1>7. IsLine(d, y, e, l)
  <2>1. l \in y + 1..e - 1 /\ d[l][1] = "request"
    BY <1>3
  <2>2. \A i \in y + 1..l - 1 : d[i] = Blank \/ IsComment(d[i])
    BY <1>3
  <2> QED
    BY <2>1, <2>2 DEF IsLine
<1>8. RequestLine(d, y) = l /\ HasRequest(d, y)
  BY <1>4, <1>6, <1>7, LineOf
<1>9. y \in Heads(d)
  BY <1>1, <1>4, HeadIs
<1>10. y \in RequestHeads(d)
  BY <1>8, <1>9 DEF RequestHeads
<1>11. \A i \in y + 1..Len(d) : ~IsSeparator(d[i])
  <2>1. e - 1 = Len(d)
    BY <1>4
  <2> QED
    BY <1>5, <2>1
<1>12. Ends(d, t, y)
  BY <1>1, <1>4, <1>11 DEF Ends
<1>13. Extended(d, t, Means(d, y))
  BY <1>10, <1>12, EndExtended
<1>14. Means(d, y).target = m
  <2>1. SaidOf(d, y).target = d[l]
    BY <1>8 DEF SaidOf, Says
  <2> QED
    BY <1>3, <2>1 DEF Means
<1> QED
  BY <1>13, <1>14

LEMMA PlanAppendMeans ==
  ASSUME NEW t, IsText(t), NEW edit \in PlanAppend(t), NEW d, d = Edited(t, edit)
  PROVE  \E v : v.target = Target("GET", "baseUrl") /\ Extended(d, t, v)
<1>1. PICK c : c = FreeName(<<"New Request">>, t,
                            LAMBDA n : n \in {t[i][2] : i \in Separators(t)})
  OBVIOUS
<1>2. PICK u : u = CASE t = Empty -> <<>>
                     [] t # Empty /\ Last(t) = Blank -> <<Blank>>
                     [] Last(t) # Blank -> <<Blank, Blank>>
  OBVIOUS
<1>3. PICK l, m, S : /\ l = Separator(c) /\ m = Target("GET", "baseUrl")
                     /\ S = {Blank, l, m}
  OBVIOUS
<1>4. PICK w, x : w = <<l, m, Blank>> /\ x = u \o w
  OBVIOUS
<1>5. PICK L : L = Len(t)
  OBVIOUS
<1>6. edit = Edit(L + 1, L + 1, x)
  BY <1>1, <1>2, <1>3, <1>4, <1>5 DEF PlanAppend
<1>7. L \in Nat \ {0} /\ Last(t) = t[L]
  BY <1>5, TextIs DEF Last
<1>8. \/ u = <<>> /\ L = 1 /\ t[L] = Blank
      \/ u = <<Blank>> /\ t[L] = Blank
      \/ u = <<Blank, Blank>> /\ t[L] # Blank
  <2>1. CASE t = Empty
    <3>1. u = <<>>
      <4>1. Last(t) = Blank
        BY <2>1 DEF Empty, Last
      <4> QED
        BY <1>2, <2>1, <4>1
    <3>2. L = 1 /\ t[L] = Blank
      BY <1>5, <2>1, EmptyIs
    <3> QED
      BY <3>1, <3>2
  <2>2. CASE t # Empty /\ Last(t) = Blank
    BY <1>2, <1>7, <2>2
  <2>3. CASE t # Empty /\ Last(t) # Blank
    <3>1. u = <<Blank, Blank>>
      BY <1>2, <2>3
    <3> QED
      BY <1>7, <2>3, <3>1
  <2> QED
    BY <2>1, <2>2, <2>3
<1>9. PICK k : k = Len(u)
  OBVIOUS
<1>10. /\ u \in Seq(S) /\ k \in 0..2
       /\ \A i \in 1..k : u[i] = Blank
       /\ k = 0 => L = 1 /\ t[L] = Blank
       /\ k = 1 => t[L] = Blank
       /\ k = 2 => t[L] # Blank
  <2>1. Blank \in S
    BY <1>3
  <2>2. CASE u = <<>> /\ L = 1 /\ t[L] = Blank
    BY <1>9, <2>1, <2>2
  <2>3. CASE u = <<Blank>> /\ t[L] = Blank
    BY <1>9, <2>1, <2>3
  <2>4. CASE u = <<Blank, Blank>> /\ t[L] # Blank
    BY <1>9, <2>1, <2>4
  <2> QED
    BY <1>8, <2>2, <2>3, <2>4
<1>11. w \in Seq(S) /\ Len(w) = 3 /\ w[1] = l /\ w[2] = m /\ w[3] = Blank
  BY <1>3, <1>4
<1>12. x \in Seq(S) /\ IsJoin(x, u, w)
  BY <1>4, <1>10, <1>11, TextsJoined
<1>13. /\ Len(x) = k + 3 /\ \A i \in 1..k : x[i] = Blank
       /\ x[k + 1] = l /\ x[k + 2] = m /\ x[k + 3] = Blank
  <2>1. /\ Len(x) = Len(u) + Len(w) /\ \A i \in 1..Len(u) : x[i] = u[i]
        /\ \A i \in 1..Len(w) : x[Len(u) + i] = w[i]
    BY <1>12 DEF IsJoin
  <2>2. 1 \in 1..Len(w) /\ 2 \in 1..Len(w) /\ 3 \in 1..Len(w)
    BY <1>11
  <2> QED
    BY <1>9, <1>10, <1>11, <2>1, <2>2
<1>14. IsText(x)
  <2>1. Len(x) # 0
    BY <1>10, <1>13
  <2> QED
    BY <1>12, <2>1, NotEmpty, IsTextIf
<1>15. Appends(d, t, x, L)
  BY <1>5, <1>6, <1>14, AppendedAt
<1>16. /\ IsText(d) /\ Len(d) = L + Len(x) - 1
       /\ \A i \in 1..L - 1 : d[i] = t[i]
       /\ \A i \in 2..Len(x) : d[L + i - 1] = x[i]
       /\ d[L] = IF t[L] = Blank THEN x[1] ELSE t[L]
  BY <1>15 DEF Appends
<1>17. PICK y \in Nat \ {0} : y = L + k
  BY <1>7, <1>10
<1>18. k \in Nat /\ y >= L /\ Len(d) = y + 2
  BY <1>7, <1>10, <1>13, <1>16, <1>17, SMTT(40)
<1>19. d[y + 1] = m /\ d[y + 2] = Blank
  <2>1. PICK i, j : i = k + 2 /\ j = k + 3
    OBVIOUS
  <2>2. /\ i \in 2..Len(x) /\ j \in 2..Len(x)
        /\ L + i - 1 = y + 1 /\ L + j - 1 = y + 2
    BY <1>7, <1>13, <1>17, <1>18, <2>1
  <2> QED
    BY <1>13, <1>16, <2>1, <2>2
<1>20. d[y] = l
  <2>1. CASE k = 0
    BY <1>7, <1>10, <1>13, <1>16, <1>17, <2>1
  <2>2. CASE k # 0
    <3>1. PICK i : i = k + 1
      OBVIOUS
    <3>2. i \in 2..Len(x) /\ L + i - 1 = y
      BY <1>7, <1>13, <1>17, <1>18, <2>2, <3>1
    <3> QED
      BY <1>13, <1>16, <3>1, <3>2
  <2> QED
    BY <2>1, <2>2
<1>21. k # 0 => d[L] = t[L]
  <2>1. k # 0 => x[1] = Blank
    BY <1>10, <1>13
  <2> QED
    BY <1>16, <2>1
<1>22. ASSUME NEW i \in 1..y - 1 PROVE d[i] = IF i <= L THEN t[i] ELSE Blank
  <2>1. CASE i < L
    <3>1. i \in 1..L - 1 /\ i <= L
      BY <1>7, <2>1
    <3> QED
      BY <1>16, <3>1
  <2>2. CASE i = L
    <3>1. k # 0 /\ i <= L
      BY <1>7, <1>17, <1>18, <2>2
    <3> QED
      BY <1>21, <2>2, <3>1
  <2>3. CASE i > L
    <3>1. PICK j : j = i - L + 1
      OBVIOUS
    <3>2. j \in 2..Len(x) /\ j \in 1..k /\ L + j - 1 = i /\ ~(i <= L)
      BY <1>7, <1>13, <1>17, <1>18, <2>3, <3>1
    <3> QED
      BY <1>13, <1>16, <3>2
  <2> QED
    BY <1>7, <2>1, <2>2, <2>3
<1>23. ASSUME NEW i \in y..L PROVE t[i] = Blank
  <2>1. k = 0 /\ i = L
    BY <1>7, <1>17, <1>18
  <2> QED
    BY <1>10, <2>1
<1>24. m[1] = "request"
  BY <1>3 DEF Target
<1>25. PICK v : v.target = m /\ Extended(d, t, v)
  BY <1>3, <1>5, <1>16, <1>18, <1>19, <1>20, <1>22, <1>23, <1>24, NewSection, SMTT(40)
<1> QED
  BY <1>3, <1>25

----------------------------------------------------------------------------
(* Toggling a favorite.                                                    *)

\* Lines above a request's line, from one to another, are replaced by comments.
Comments(d, t, h, e, l, from, to, s) ==
  /\ Amid(d, t, from, to, s) /\ h \in RequestHeads(t) /\ h < from /\ to <= l
  /\ e = NextSeparator(t, h) /\ l = RequestLine(t, h)
  /\ \A i \in from..to + s - 1 : d[i] = Blank \/ IsComment(d[i])

\* Where it all is.
LEMMA CommentsAt ==
  ASSUME NEW d, NEW t, NEW h, NEW e, NEW l, NEW from, NEW to, NEW s,
         Comments(d, t, h, e, l, from, to, s)
  PROVE  /\ IsText(t) /\ IsText(d) /\ Len(t) \in Nat /\ Len(d) = Len(t) + s
         /\ h \in Nat /\ h <= Len(t) /\ e \in Nat /\ l \in Nat /\ from \in Nat
         /\ to \in Nat /\ s \in Int /\ h < from /\ from <= to /\ to <= l /\ l < e
         /\ e <= Len(t) + 1 /\ from <= to + s
         /\ Between(t, h, e) /\ IsLine(t, h, e, l)
         /\ h \in Heads(t) /\ HasRequest(t, h) /\ h \in 0..Len(t)
<1>1. /\ IsText(t) /\ IsText(d) /\ from \in 1..to /\ to \in 1..Len(t)
      /\ s \in Int /\ to + s >= from /\ Len(d) = Len(t) + s
  BY DEF Comments, Amid
<1>2. /\ h \in RequestHeads(t) /\ h < from /\ to <= l
      /\ e = NextSeparator(t, h) /\ l = RequestLine(t, h)
  BY DEF Comments
<1>3. h \in Heads(t) /\ HasRequest(t, h)
  BY <1>2 DEF RequestHeads
<1>4. h \in 0..Len(t) /\ Len(t) \in Nat
  BY <1>1, <1>3, RequestsAre
<1>5. h \in Nat /\ e \in Nat /\ h < e /\ h <= Len(t) /\ e <= Len(t) + 1
  BY <1>1, <1>2, <1>4, SectionPlaces
<1>6. Between(t, h, e)
  BY <1>1, <1>2, <1>4, NextHas
<1>7. IsLine(t, h, e, l)
  BY <1>1, <1>2, <1>3, <1>4, LineHas
<1>8. l \in h + 1..e - 1
  BY <1>7 DEF IsLine
<1>9. l \in Nat /\ l < e
  BY <1>5, <1>8
<1>10. from \in Nat /\ to \in Nat /\ from <= to /\ from <= to + s
  BY <1>1, <1>4
<1> QED
  BY <1>1, <1>2, <1>3, <1>4, <1>5, <1>6, <1>7, <1>9, <1>10

\* The section keeps its request, further down or up.
LEMMA CommentsLine ==
  ASSUME NEW d, NEW t, NEW h, NEW e, NEW l, NEW from, NEW to, NEW s,
         Comments(d, t, h, e, l, from, to, s), NEW f, f = e + s, NEW k, k = l + s
  PROVE  /\ f \in Nat /\ k \in Nat /\ h < k /\ k < f /\ h \in Heads(d)
         /\ h \in 0..Len(d) /\ h \in RequestHeads(d)
         /\ NextSeparator(d, h) = f /\ RequestLine(d, h) = k
         /\ \A i \in l..e - 1 : d[i + s] = t[i]
<1>1. /\ IsText(t) /\ IsText(d) /\ Len(t) \in Nat /\ Len(d) = Len(t) + s
      /\ h \in Nat /\ h <= Len(t) /\ e \in Nat /\ l \in Nat /\ from \in Nat
      /\ to \in Nat /\ s \in Int /\ h < from /\ from <= to /\ to <= l /\ l < e
      /\ e <= Len(t) + 1 /\ from <= to + s
  BY CommentsAt
<1>2. Between(t, h, e) /\ IsLine(t, h, e, l) /\ h \in Heads(t)
  BY CommentsAt
<1>3. /\ \A i \in 1..from - 1 : d[i] = t[i]
      /\ \A i \in to..Len(t) : d[i + s] = t[i]
      /\ \A i \in from..to + s - 1 : d[i] = Blank \/ IsComment(d[i])
  BY DEF Comments, Amid
<1>4. /\ l \in h + 1..e - 1 /\ t[l][1] = "request"
      /\ \A i \in h + 1..l - 1 : t[i] = Blank \/ IsComment(t[i])
  BY <1>2 DEF IsLine
<1>5. f \in Nat /\ k \in Nat /\ h < k /\ k < f /\ f <= Len(d) + 1 /\ to + s <= k
  BY <1>1
<1>6. ASSUME NEW i \in l..e - 1 PROVE d[i + s] = t[i]
  <2>1. i \in to..Len(t)
    BY <1>1
  <2> QED
    BY <1>3, <2>1
<1>7. d[k][1] = "request"
  <2>1. l \in l..e - 1
    BY <1>1
  <2> QED
    BY <1>4, <1>6, <2>1
<1>8. ASSUME NEW j \in h + 1..k - 1 PROVE d[j] = Blank \/ IsComment(d[j])
  <2>1. CASE j < from
    <3>1. j \in 1..from - 1 /\ j \in h + 1..l - 1
      BY <1>1, <2>1
    <3> QED
      BY <1>3, <1>4, <3>1
  <2>2. CASE from <= j /\ j < to + s
    <3>1. j \in from..to + s - 1
      BY <1>1, <1>5, <2>2
    <3> QED
      BY <1>3, <3>1
  <2>3. CASE j >= to + s
    <3>1. PICK i \in Int : i = j - s
      BY <1>1
    <3>2. j = i + s /\ i \in to..Len(t) /\ i \in h + 1..l - 1
      BY <1>1, <2>3, <3>1
    <3> QED
      BY <1>3, <1>4, <3>2
  <2> QED
    BY <1>1, <1>5, <2>1, <2>2, <2>3
<1>9. IsLine(d, h, f, k)
  <2>1. k \in h + 1..f - 1
    BY <1>1, <1>5
  <2> QED
    BY <1>7, <1>8, <2>1 DEF IsLine
<1>10. ASSUME NEW j \in h + 1..f - 1 PROVE ~IsSeparator(d[j])
  <2>1. CASE j < k
    <3>1. d[j] = Blank \/ IsComment(d[j])
      BY <1>1, <1>5, <1>8, <2>1
    <3>2. Blank[1] = ""
      BY DEF Blank
    <3>3. d[j][1] \in {"", "#", "@favorite"}
      BY <3>1, <3>2 DEF IsComment
    <3> QED
      BY <3>3 DEF IsSeparator
  <2>2. CASE j >= k
    <3>1. PICK i \in Int : i = j - s
      BY <1>1
    <3>2. j = i + s /\ i \in l..e - 1 /\ i \in h + 1..e - 1
      BY <1>1, <2>2, <3>1
    <3>3. ~IsSeparator(t[i])
      BY <1>2, <3>2 DEF Between
    <3> QED
      BY <1>6, <3>2, <3>3
  <2> QED
    BY <1>1, <1>5, <2>1, <2>2
<1>11. f <= Len(d) => IsSeparator(d[f])
  <2>1. f <= Len(d) => e \in to..Len(t) /\ e <= Len(t)
    BY <1>1
  <2> QED
    BY <1>2, <1>3, <2>1 DEF Between
<1>12. h \in 0..Len(d) /\ f \in h + 1..Len(d) + 1 /\ Len(d) \in Nat
  BY <1>1, <1>5
<1>13. Between(d, h, f)
  BY <1>10, <1>11, <1>12 DEF Between
<1>14. NextSeparator(d, h) = f
  BY <1>1, <1>12, <1>13, NextIs
<1>15. RequestLine(d, h) = k /\ HasRequest(d, h)
  BY <1>1, <1>9, <1>12, <1>14, LineOf
<1>16. h \in Heads(d)
  <2>1. CASE h = 0
    <3>1. 1 \in h + 1..f - 1
      BY <1>5, <2>1
    <3>2. ~IsSeparator(d[1])
      BY <1>10, <3>1
    <3> QED
      BY <1>1, <2>1, <3>2, HeadIs
  <2>2. CASE h # 0
    <3>1. IsSeparator(t[h])
      BY <1>1, <1>2, <2>2, HeadIs
    <3>2. h \in 1..from - 1 /\ h \in 1..Len(d)
      BY <1>1, <1>12, <2>2
    <3> QED
      BY <1>1, <1>3, <3>1, <3>2, HeadIs
  <2> QED
    BY <2>1, <2>2
<1>17. h \in RequestHeads(d)
  BY <1>15, <1>16 DEF RequestHeads
<1> QED
  BY <1>5, <1>6, <1>12, <1>14, <1>15, <1>16, <1>17

\* It means the same as before, but for the favorite.
Toggled(d, t, h, v) == Means(d, h) = [Means(t, h) EXCEPT !.favorite = v]

LEMMA CommentsMean ==
  ASSUME NEW d, NEW t, NEW h, NEW e, NEW l, NEW from, NEW to, NEW s,
         Comments(d, t, h, e, l, from, to, s),
         NEW b, b = BodyLine(t, l, e), NEW v, NEW z, z = b + s - 1,
         v = FavoriteIn(SubSeq(d, h + 1, z))
  PROVE  Toggled(d, t, h, v)
<1>1. PICK f, k : f = e + s /\ k = l + s
  OBVIOUS
<1>2. /\ f \in Nat /\ k \in Nat /\ h < k /\ k < f
      /\ NextSeparator(d, h) = f /\ RequestLine(d, h) = k
      /\ \A i \in l..e - 1 : d[i + s] = t[i]
  BY <1>1, CommentsLine
<1>3. /\ h \in Nat /\ l \in Nat \ {0} /\ e \in Nat /\ s \in Int /\ l < e /\ h < l
      /\ h < from /\ from <= to /\ to <= l /\ from \in Nat /\ to \in Nat
  BY CommentsAt
<1>4. e = NextSeparator(t, h) /\ l = RequestLine(t, h)
      /\ \A i \in 1..from - 1 : d[i] = t[i]
  BY DEF Comments, Amid
<1>5. MovedBy(d, t, l, e, f, s)
  <2>1. \A i \in l + 1..e - 1 : d[i + s] = t[i]
    BY <1>2, <1>3
  <2>2. f >= e + s /\ \A i \in e + s..f - 1 : d[i] = Blank
    BY <1>1, <1>3
  <2> QED
    BY <2>1, <2>2 DEF MovedBy
<1>6. PICK c : c = b + s
  OBVIOUS
<1>7. k \in Nat \ {0}
  BY <1>2, <1>3
<1>8. /\ BodyLine(d, k, f) = c /\ c \in Nat
      /\ Picked(d, HeaderLines(d, k, c)) = Picked(t, HeaderLines(t, l, b))
      /\ Trimmed(SubSeq(d, c + 1, f - 1)) = Trimmed(SubSeq(t, b + 1, e - 1))
  BY <1>1, <1>2, <1>3, <1>5, <1>6, <1>7, TailMoved
<1>9. d[k] = t[l]
  <2>1. l \in l..e - 1
    BY <1>3
  <2> QED
    BY <1>1, <1>2, <2>1
<1>10. SaidOf(d, h) = Says(d, h, f, k, c) /\ SaidOf(t, h) = Says(t, h, e, l, b)
  BY <1>2, <1>4, <1>8 DEF SaidOf
<1>11. z = c - 1
  <2>1. b \in Nat
    BY <1>1, <1>2, <1>3, <1>5, <1>6, <1>7, TailMoved
  <2> QED
    BY <1>3, <1>6, <2>1
<1>12. /\ SaidOf(d, h).target = SaidOf(t, h).target
       /\ SaidOf(d, h).headers = SaidOf(t, h).headers
       /\ SaidOf(d, h).body = SaidOf(t, h).body
       /\ SaidOf(d, h).favorite = v
  BY <1>8, <1>9, <1>10, <1>11 DEF Says
<1>13. NameAt(d, h) = NameAt(t, h)
  <2>1. CASE h = 0
    BY <2>1 DEF NameAt
  <2>2. CASE h # 0
    <3>1. h \in 1..from - 1
      BY <1>3, <2>2
    <3> QED
      BY <1>4, <2>2, <3>1 DEF NameAt
  <2> QED
    BY <2>1, <2>2
<1> QED
  BY <1>12, <1>13 DEF Means, Toggled

\* No other section changes.
LEMMA CommentsOthers ==
  ASSUME NEW d, NEW t, NEW h, NEW e, NEW l, NEW from, NEW to, NEW s,
         Comments(d, t, h, e, l, from, to, s),
         NEW i \in RequestHeads(t), i # h, NEW j, j = IF i < h THEN i ELSE i + s
  PROVE  /\ j \in RequestHeads(d) /\ Means(d, j) = Means(t, i) /\ i \in Nat
         /\ i < h \/ i >= e
<1>1. /\ IsText(t) /\ IsText(d) /\ Len(t) \in Nat
      /\ h \in Nat /\ h <= Len(t) /\ e \in Nat /\ l \in Nat /\ from \in Nat
      /\ to \in Nat /\ s \in Int /\ h < from /\ from <= to /\ to <= l /\ l < e
  BY CommentsAt
<1>2. Between(t, h, e) /\ h \in Heads(t) /\ Amid(d, t, from, to, s)
  BY CommentsAt DEF Comments
<1>3. i \in Heads(t) /\ HasRequest(t, i)
  BY DEF RequestHeads
<1>4. i \in 0..Len(t) /\ i \in Nat
  BY <1>1, <1>3, RequestsAre
<1>5. CASE i < h
  <2>1. PICK y : y = NextSeparator(t, i)
    OBVIOUS
  <2>2. Between(t, i, y)
    BY <1>1, <1>4, <2>1, NextHas
  <2>3. \A x \in i + 1..y - 1 : ~IsSeparator(t[x])
    BY <2>2 DEF Between
  <2>4. y \in i + 1..Len(t) + 1
    BY <2>2 DEF Between
  <2>5. IsSeparator(t[h])
    <3>1. h # 0
      BY <1>4, <1>5
    <3> QED
      BY <1>1, <1>2, <3>1, HeadIs
  <2>6. h \notin i + 1..y - 1
    BY <2>3, <2>5
  <2>7. y < from
    BY <1>1, <1>4, <1>5, <2>4, <2>6
  <2>8. i \in Heads(d) /\ Alike(d, i, t, i)
    BY <1>2, <1>3, <2>1, <2>7, AmidLow
  <2>9. j = i
    BY <1>5
  <2> QED
    BY <1>3, <1>4, <1>5, <2>8, <2>9 DEF Alike, RequestHeads
<1>6. CASE i > h
  <2>1. i \in 1..Len(t)
    BY <1>1, <1>4, <1>6
  <2>2. IsSeparator(t[i])
    BY <1>1, <1>3, <1>6, HeadIs
  <2>3. i \notin h + 1..e - 1
    BY <1>2, <2>2 DEF Between
  <2>4. i >= e /\ i >= to
    BY <1>1, <1>4, <1>6, <2>3
  <2>5. j = i + s
    BY <1>1, <1>4, <1>6
  <2>6. j \in Heads(d) /\ Alike(d, j, t, i)
    BY <1>2, <1>3, <2>4, <2>5, AmidHigh
  <2> QED
    BY <1>3, <1>4, <2>4, <2>6 DEF Alike, RequestHeads
<1> QED
  BY <1>1, <1>4, <1>5, <1>6

\* There are no new ones.
LEMMA CommentsNoOther ==
  ASSUME NEW d, NEW t, NEW h, NEW e, NEW l, NEW from, NEW to, NEW s,
         Comments(d, t, h, e, l, from, to, s), NEW g \in RequestHeads(d), g # h
  PROVE  \E i \in RequestHeads(t) \ {h} : g = IF i < h THEN i ELSE i + s
<1>1. /\ IsText(t) /\ IsText(d) /\ Len(t) \in Nat
      /\ h \in Nat /\ h <= Len(t) /\ e \in Nat /\ l \in Nat /\ from \in Nat
      /\ to \in Nat /\ s \in Int /\ h < from /\ from <= to /\ to <= l /\ l < e
      /\ from <= to + s
  BY CommentsAt
<1>2. Between(t, h, e) /\ h \in Heads(t) /\ Amid(d, t, from, to, s)
  BY CommentsAt DEF Comments
<1>3. g \in Heads(d) /\ HasRequest(d, g)
  BY DEF RequestHeads
<1>4. g \in Nat
  BY <1>1, <1>3, RequestsAre
<1>5. CASE g < h
  <2>1. g < from /\ from > 1
    BY <1>1, <1>4, <1>5
  <2>2. g \in Heads(t)
    BY <1>2, <1>3, <2>1, AmidHeads
  <2>3. PICK y : y = NextSeparator(t, g)
    OBVIOUS
  <2>4. g \in 0..Len(t)
    BY <1>1, <1>4, <1>5
  <2>5. Between(t, g, y)
    BY <1>1, <2>3, <2>4, NextHas
  <2>6. (\A x \in g + 1..y - 1 : ~IsSeparator(t[x])) /\ y \in g + 1..Len(t) + 1
    BY <2>5 DEF Between
  <2>7. IsSeparator(t[h])
    <3>1. h # 0
      BY <1>4, <1>5
    <3> QED
      BY <1>1, <1>2, <3>1, HeadIs
  <2>8. h \notin g + 1..y - 1
    BY <2>6, <2>7
  <2>9. y < from
    BY <1>1, <1>4, <1>5, <2>6, <2>8
  <2>10. Alike(d, g, t, g)
    BY <1>2, <2>2, <2>3, <2>9, AmidLow
  <2>11. g \in RequestHeads(t) \ {h}
    BY <1>3, <2>2, <2>10 DEF Alike, RequestHeads
  <2> QED
    BY <1>5, <2>11
<1>6. CASE g > h
  <2>1. PICK f, k : f = e + s /\ k = l + s
    OBVIOUS
  <2>2. f = NextSeparator(d, h) /\ h \in 0..Len(d) /\ f \in Nat
    BY <2>1, CommentsLine
  <2>3. Between(d, h, f)
    BY <1>1, <2>2, NextHas
  <2>4. IsSeparator(d[g])
    BY <1>1, <1>3, <1>6, HeadIs
  <2>5. g \notin h + 1..f - 1
    BY <2>3, <2>4 DEF Between
  <2>6. g >= f /\ g >= to + s /\ g # 0
    BY <1>1, <1>4, <1>6, <2>1, <2>2, <2>5
  <2>7. PICK i \in Int : i = g - s
    BY <1>1, <1>4
  <2>8. i \in Heads(t) /\ i >= to
    BY <1>2, <1>3, <2>6, <2>7, AmidHeads
  <2>9. g = i + s /\ i >= e /\ i > h
    BY <1>1, <1>4, <2>1, <2>6, <2>7
  <2>10. Alike(d, g, t, i)
    BY <1>2, <2>8, <2>9, AmidHigh
  <2>11. i \in RequestHeads(t) \ {h}
    BY <1>1, <1>3, <2>8, <2>9, <2>10 DEF Alike, RequestHeads
  <2>12. ~(i < h)
    BY <1>1, <2>9
  <2> QED
    BY <2>9, <2>11, <2>12
<1> QED
  BY <1>1, <1>4, <1>5, <1>6

\* One request with another favorite, and nothing else.
Marked(d, t, x, v) ==
  \E k \in DOMAIN Meaning(t) :
    /\ Meaning(t)[k] = Means(t, x)
    /\ Meaning(d) = [Meaning(t) EXCEPT ![k] = [Means(t, x) EXCEPT !.favorite = v]]

LEMMA CommentsMark ==
  ASSUME NEW d, NEW t, NEW h, NEW e, NEW l, NEW from, NEW to, NEW s,
         Comments(d, t, h, e, l, from, to, s), NEW v, Toggled(d, t, h, v)
  PROVE  Marked(d, t, h, v)
<1>1. /\ IsText(t) /\ IsText(d) /\ h \in Nat /\ e \in Nat /\ s \in Int
      /\ l \in Nat /\ l < e
  BY CommentsAt
<1>2. PICK f, k : f = e + s /\ k = l + s
  OBVIOUS
<1>3. k \in Nat /\ h < k /\ h \in RequestHeads(d) /\ f > h
  <2>1. k \in Nat /\ h < k /\ h \in RequestHeads(d) /\ k < f /\ f \in Nat
    BY <1>2, CommentsLine
  <2> QED
    BY <1>1, <2>1
<1>4. h \in RequestHeads(t)
  BY DEF Comments
<1>5. PICK g : g = [i \in RequestHeads(t) |->
                      IF i = h THEN h ELSE IF i < h THEN i ELSE i + s]
  OBVIOUS
<1>6. g[h] = h
  BY <1>4, <1>5
<1>7. ASSUME NEW i \in RequestHeads(t), i # h
      PROVE  /\ g[i] \in RequestHeads(d) /\ Means(d, g[i]) = Means(t, i)
             /\ i \in Nat /\ (i < h \/ i >= e)
             /\ g[i] = IF i < h THEN i ELSE i + s
  <2>1. PICK j : j = IF i < h THEN i ELSE i + s
    OBVIOUS
  <2>2. g[i] = j
    BY <1>5, <1>7, <2>1
  <2>3. /\ j \in RequestHeads(d) /\ Means(d, j) = Means(t, i) /\ i \in Nat
        /\ i < h \/ i >= e
    BY <1>7, <2>1, CommentsOthers
  <2> QED
    BY <2>1, <2>2, <2>3
<1>8. \A i \in RequestHeads(t) : g[i] \in RequestHeads(d)
  BY <1>3, <1>6, <1>7
<1>9. ASSUME NEW j \in RequestHeads(d) PROVE \E i \in RequestHeads(t) : g[i] = j
  <2>1. CASE j = h
    BY <1>4, <1>6, <2>1
  <2>2. CASE j # h
    <3>1. PICK i \in RequestHeads(t) \ {h} : j = IF i < h THEN i ELSE i + s
      BY <2>2, CommentsNoOther
    <3>2. g[i] = j
      BY <1>7, <3>1
    <3> QED
      BY <3>1, <3>2
  <2> QED
    BY <2>1, <2>2
<1>10. ASSUME NEW i \in RequestHeads(t), NEW j \in RequestHeads(t), i < j
       PROVE  g[i] < g[j]
  <2>1. CASE i = h
    <3>1. j # h /\ ~(j < h)
      BY <1>1, <1>10, <2>1
    <3>2. g[j] = j + s /\ j >= e /\ j \in Nat
      BY <1>7, <3>1
    <3>3. j + s >= f
      BY <1>1, <1>2, <3>2
    <3> QED
      BY <1>1, <1>2, <1>3, <1>6, <2>1, <3>2, <3>3
  <2>2. CASE j = h
    <3>1. i # h /\ i < h
      BY <1>1, <1>10, <2>2
    <3> QED
      BY <1>6, <1>7, <2>2, <3>1
  <2>3. CASE i # h /\ j # h
    <3>1. /\ i \in Nat /\ j \in Nat /\ (i < h \/ i >= e) /\ (j < h \/ j >= e)
          /\ g[i] = (IF i < h THEN i ELSE i + s)
          /\ g[j] = (IF j < h THEN j ELSE j + s)
      BY <1>7, <2>3
    <3>2. CASE j < h
      <4>1. i < h
        BY <1>1, <1>10, <3>1, <3>2
      <4> QED
        BY <1>10, <3>1, <3>2, <4>1
    <3>3. CASE i < h /\ ~(j < h)
      <4>1. g[i] = i /\ g[j] = j + s /\ j >= e
        BY <3>1, <3>3
      <4>2. j + s >= f
        BY <1>1, <1>2, <3>1, <4>1
      <4>3. i < j + s
        BY <1>1, <1>2, <1>3, <3>1, <3>3, <4>2
      <4> QED
        BY <4>1, <4>3
    <3>4. CASE ~(i < h) /\ ~(j < h)
      <4>1. g[i] = i + s /\ g[j] = j + s
        BY <3>1, <3>4
      <4> QED
        BY <1>1, <1>10, <3>1, <4>1
    <3> QED
      BY <3>2, <3>3, <3>4
  <2> QED
    BY <2>1, <2>2, <2>3
<1>11. Maps(RequestHeads(t), g, RequestHeads(d))
  BY <1>8, <1>9, <1>10 DEF Maps
<1>12. \A i \in RequestHeads(t) \ {h} : Means(d, g[i]) = Means(t, i)
  BY <1>7
<1>13. PICK j \in DOMAIN Meaning(t) :
         /\ Meaning(t)[j] = Means(t, h)
         /\ Meaning(d) = [Meaning(t) EXCEPT ![j] = Means(d, g[h])]
  BY <1>1, <1>4, <1>11, <1>12, MeaningChanged
<1>14. Means(d, g[h]) = [Means(t, h) EXCEPT !.favorite = v]
  BY <1>6 DEF Toggled
<1> QED
  BY <1>13, <1>14 DEF Marked

\* The other lines of a header block and above it hold no directive.
NoOther(t, h, from, to, b) ==
  /\ \A i \in h + 1..from - 1 : ~IsFavorite(t[i])
  /\ \A i \in to..b - 1 : ~IsFavorite(t[i])

\* The new lines say what the favorite is.
LEMMA CommentsFavorite ==
  ASSUME NEW d, NEW t, NEW h, NEW e, NEW l, NEW from, NEW to, NEW s,
         Comments(d, t, h, e, l, from, to, s),
         NEW b, b = BodyLine(t, l, e), NoOther(t, h, from, to, b),
         NEW y, y = to + s, NEW z, z = b + s - 1,
         NEW v, v = FavoriteIn(SubSeq(d, h + 1, z))
  PROVE  /\ (\A i \in from..y - 1 : ~IsFavorite(d[i])) => v = ""
         /\ from < y /\ d[y - 1] = Favorite("true") => v = "true"
<1>1. /\ h \in Nat /\ e \in Nat /\ l \in Nat /\ from \in Nat
      /\ to \in Nat /\ s \in Int /\ h < from /\ from <= to /\ to <= l /\ l < e
      /\ e <= Len(t) + 1 /\ from <= to + s /\ Len(t) \in Nat
  BY CommentsAt
<1>2. /\ \A i \in 1..from - 1 : d[i] = t[i]
      /\ \A i \in to..Len(t) : d[i + s] = t[i]
  BY DEF Comments, Amid
<1>3. b \in l + 1..e
  <2>1. IsBody(t, l, e, b)
    BY <1>1, BodyHas
  <2> QED
    BY <2>1 DEF IsBody
<1>4. b \in Nat /\ l < b /\ b <= e /\ y \in Nat /\ z \in Int /\ y <= z /\ h + 1 \in Nat \ {0}
  BY <1>1, <1>3, SMTT(40)
<1>5. PICK a \in Nat \ {0} : a = h + 1
  BY <1>4
<1>6. v = FavoriteIn(SubSeq(d, a, z))
  BY <1>5
<1>7. /\ (\A i \in a..z : ~IsFavorite(d[i])) => v = ""
      /\ \A m \in a..z :
           /\ IsFavorite(d[m])
           /\ \A i \in m + 1..z : ~IsFavorite(d[i])
           => v = d[m][2]
  <2>1. LastCounts(d, a, z, v)
    BY <1>4, <1>5, <1>6, FavoriteIs
  <2> QED
    BY <2>1 DEF LastCounts
<1>8. ASSUME NEW i \in h + 1..from - 1 PROVE ~IsFavorite(d[i])
  <2>1. i \in 1..from - 1
    BY <1>1
  <2> QED
    BY <1>2, <2>1 DEF NoOther
<1>9. ASSUME NEW j \in y..z PROVE ~IsFavorite(d[j])
  <2>1. PICK i \in Int : i = j - s
    BY <1>1
  <2>2. j = i + s /\ i \in to..Len(t) /\ i \in to..b - 1
    BY <1>1, <1>4, <2>1, SMTT(40)
  <2> QED
    BY <1>2, <2>2 DEF NoOther
<1>10. ASSUME \A i \in from..y - 1 : ~IsFavorite(d[i]) PROVE v = ""
  <2>1. ASSUME NEW i \in h + 1..z PROVE ~IsFavorite(d[i])
    <3>1. i \in h + 1..from - 1 \/ i \in from..y - 1 \/ i \in y..z
      BY <1>1, <1>4
    <3> QED
      BY <1>8, <1>9, <1>10, <3>1
  <2> QED
    BY <1>5, <1>7, <2>1
<1>11. ASSUME from < y, d[y - 1] = Favorite("true") PROVE v = "true"
  <2>1. PICK m : m = y - 1
    OBVIOUS
  <2>2. m \in h + 1..z /\ m + 1 = y
    BY <1>1, <1>4, <1>11, <2>1
  <2>3. IsFavorite(d[m]) /\ d[m][2] = "true"
    BY <1>11, <2>1 DEF IsFavorite, Favorite
  <2>4. \A i \in m + 1..z : ~IsFavorite(d[i])
    BY <1>9, <2>2
  <2>5. v = d[m][2]
    BY <1>5, <1>7, <2>2, <2>3, <2>4
  <2> QED
    BY <2>3, <2>5
<1> QED
  BY <1>10, <1>11

\* An edit that replaces lines.
EditPuts(d, t, from, to, x, m, s) ==
  /\ Amid(d, t, from, to, s) /\ m \in Nat /\ s \in Int /\ to + s = from + m
  /\ \A i \in 1..m : d[from - 1 + i] = x[i]

LEMMA EditAmid ==
  ASSUME NEW t, IsText(t), NEW from \in Nat \ {0}, NEW to \in Nat, from <= to,
         to <= Len(t), NEW x, IsText(x), x[Len(x)] = Blank,
         NEW m, m = Len(x) - 1, NEW s, s = from + m - to,
         NEW d, d = Edited(t, Edit(from, to, x))
  PROVE  EditPuts(d, t, from, to, x, m, s)
<1>1. Len(t) \in Nat /\ Len(x) \in Nat \ {0}
  BY TextIs
<1>2. m \in Nat /\ s \in Int /\ to + s = from + m /\ to \in Nat \ {0}
      /\ from \in 1..Len(t)
  BY <1>1
<1>3. PICK r : r = Rest(t, to)
  OBVIOUS
<1>4. Replaces(d, t, from, x, m, r)
  BY <1>2, <1>3, EditedAt
<1>5. /\ Len(r) = Len(t) - to + 1
      /\ \A i \in 1..Len(t) - to + 1 : r[i] = t[to + i - 1]
  BY <1>2, <1>3, RestIs
<1>6. /\ IsText(d) /\ Len(d) = from - 1 + m + Len(r)
      /\ \A i \in 1..from - 1 : d[i] = t[i]
      /\ \A i \in 1..m : d[from - 1 + i] = x[i]
      /\ \A i \in 1..Len(r) : d[from - 1 + m + i] = r[i]
  BY <1>4 DEF Replaces
<1>7. Len(d) = Len(t) + s
  BY <1>1, <1>2, <1>5, <1>6
<1>8. ASSUME NEW i \in to..Len(t) PROVE d[i + s] = t[i]
  <2>1. PICK j \in Int : j = i - to + 1
    OBVIOUS
  <2>2. Len(r) = Len(t) - to + 1 /\ i \in Int /\ to <= i /\ i <= Len(t)
    BY <1>1, <1>5
  <2>3. j \in 1..Len(r)
    BY <1>1, <2>1, <2>2
  <2>4. from - 1 + m + j = i + s /\ to + j - 1 = i
    BY <1>2, <2>1, <2>2
  <2>5. d[from - 1 + m + j] = r[j] /\ r[j] = t[to + j - 1]
    BY <1>5, <1>6, <2>2, <2>3
  <2> QED
    BY <2>4, <2>5
<1>9. from \in 1..to /\ to \in 1..Len(t) /\ to + s >= from
  BY <1>1, <1>2
<1>10. Amid(d, t, from, to, s)
  BY <1>2, <1>6, <1>7, <1>8, <1>9 DEF Amid
<1> QED
  BY <1>2, <1>6, <1>10 DEF EditPuts

\* The lines that are kept.
LEMMA PickedFrom ==
  ASSUME NEW t, IsText(t), NEW E \in SUBSET (1..Len(t)), NEW k, k = Picked(t, E)
  PROVE  /\ k \in Seq(Range(t)) /\ Len(k) \in Nat
         /\ \A i \in 1..Len(k) : \E j \in E : k[i] = t[j]
<1>1. k \in Seq(Range(t))
  BY PickedIs
<1>2. E \in SUBSET Int /\ IsFiniteSet(E)
  <2>1. Len(t) \in Nat
    BY TextIs
  <2>2. IsFiniteSet(1..Len(t))
    BY <2>1, FS_Interval
  <2>3. IsFiniteSet(E)
    BY <2>2, FS_Subset
  <2>4. 1..Len(t) \subseteq Int
    BY <2>1
  <2> QED
    BY <2>3, <2>4
<1>3. PICK at, n : at = InOrder(E) /\ n = Cardinality(E)
  OBVIOUS
<1>4. Ascends(E, at, n)
  BY <1>2, <1>3, InOrderAscends
<1>5. n \in Nat /\ DOMAIN at = 1..n /\ \A i \in 1..n : at[i] \in E
  BY <1>4 DEF Ascends
<1>6. k = [i \in 1..n |-> t[at[i]]]
  BY <1>3, <1>5 DEF Picked
<1>7. Len(k) = n
  <2>1. DOMAIN k = 1..n
    BY <1>6
  <2>2. DOMAIN k = 1..Len(k) /\ Len(k) \in Nat
    BY <1>1
  <2> QED
    BY <1>5, <2>1, <2>2
<1> QED
  BY <1>1, <1>5, <1>6, <1>7

\* What replaces the directives of a request, all of them above its line.
IsMark(edit, t, h, e, l, from, to, E, x, v) ==
  /\ h \in RequestHeads(t) /\ e = NextSeparator(t, h) /\ l = RequestLine(t, h)
  /\ h < from /\ from <= to /\ to <= l /\ from \in Nat /\ to \in Nat
  /\ NoOther(t, h, from, to, BodyLine(t, l, e))
  /\ E = {i \in from..to - 1 : ~IsFavorite(t[i])}
  /\ \/ x = <<>> /\ v = ""
     \/ x = <<Favorite("true")>> /\ v = "true"
  /\ edit = Edit(from, to, Picked(t, E) \o x \o Empty)

LEMMA MarkMeans ==
  ASSUME NEW t, IsText(t), NEW edit, NEW h, NEW e, NEW l, NEW from, NEW to, NEW E,
         NEW x, NEW v, IsMark(edit, t, h, e, l, from, to, E, x, v),
         NEW d, d = Edited(t, edit)
  PROVE  Marked(d, t, h, v)
<1>1. /\ h \in RequestHeads(t) /\ e = NextSeparator(t, h) /\ l = RequestLine(t, h)
      /\ h < from /\ from <= to /\ to <= l /\ from \in Nat /\ to \in Nat
      /\ E = {i \in from..to - 1 : ~IsFavorite(t[i])}
      /\ \/ x = <<>> /\ v = ""
         \/ x = <<Favorite("true")>> /\ v = "true"
      /\ edit = Edit(from, to, Picked(t, E) \o x \o Empty)
  BY DEF IsMark
<1>2. h \in Heads(t) /\ HasRequest(t, h)
  BY <1>1 DEF RequestHeads
<1>3. h \in 0..Len(t) /\ Len(t) \in Nat
  BY <1>2, RequestsAre
<1>4. IsLine(t, h, e, l)
  BY <1>1, <1>2, <1>3, LineHas
<1>5. e \in Nat /\ e <= Len(t) + 1
  BY <1>1, <1>3, SectionPlaces
<1>6. /\ l \in h + 1..e - 1
      /\ \A i \in h + 1..l - 1 : t[i] = Blank \/ IsComment(t[i])
  BY <1>4 DEF IsLine
<1>7. /\ to <= Len(t) /\ from \in Nat \ {0} /\ h \in Nat /\ to \in Nat /\ l \in Nat
      /\ h < from /\ from <= to /\ to <= l /\ l <= Len(t)
  <2>1. h \in Nat
    BY <1>3
  <2>2. l \in Nat /\ l <= Len(t)
    BY <1>3, <1>5, <1>6, <2>1
  <2>3. h < from /\ from <= to /\ to <= l /\ from \in Nat /\ to \in Nat
    BY DEF IsMark
  <2> QED
    BY <1>3, <2>1, <2>2, <2>3
<1>8. E \in SUBSET (1..Len(t)) /\ E \subseteq h + 1..l - 1
  <2>1. from..to - 1 \subseteq 1..Len(t) /\ from..to - 1 \subseteq h + 1..l - 1
    BY <1>3, <1>7
  <2> QED
    BY <1>1, <2>1
<1>9. PICK k, p, q, w, S : /\ k = Picked(t, E) /\ p = k \o x /\ q = Empty
                           /\ w = p \o q
                           /\ S = Range(t) \cup {Blank, Favorite("true")}
  OBVIOUS
<1>10. /\ k \in Seq(Range(t)) /\ Len(k) \in Nat
       /\ \A i \in 1..Len(k) : \E j \in E : k[i] = t[j]
  BY <1>8, <1>9, PickedFrom
<1>11. k \in Seq(S)
  <2>1. Range(t) \subseteq S
    BY <1>9
  <2> QED
    BY <1>10, <2>1, SeqMonotonic
<1>12. x \in Seq(S) /\ q \in Seq(S) /\ Len(q) = 1 /\ q[1] = Blank
  <2>1. Blank \in S /\ Favorite("true") \in S
    BY <1>9
  <2>2. <<>> \in Seq(S) /\ <<Favorite("true")>> \in Seq(S) /\ <<Blank>> \in Seq(S)
        /\ Len(<<Blank>>) = 1 /\ <<Blank>>[1] = Blank
    BY <2>1
  <2> QED
    BY <1>1, <1>9, <2>2 DEF Empty
<1>13. p \in Seq(S) /\ IsJoin(p, k, x)
  BY <1>9, <1>11, <1>12, TextsJoined
<1>14. w \in Seq(S) /\ IsJoin(w, p, q)
  BY <1>9, <1>12, <1>13, TextsJoined
<1>15. PICK m : m = Len(p)
  OBVIOUS
<1>16. /\ m = Len(k) + Len(x) /\ m \in Nat /\ Len(w) = m + 1 /\ w[m + 1] = Blank
       /\ \A i \in 1..Len(k) : w[i] = k[i]
       /\ \A i \in 1..Len(x) : w[Len(k) + i] = x[i]
  <2>1. /\ Len(p) = Len(k) + Len(x) /\ Len(x) \in Nat
        /\ \A i \in 1..Len(k) : p[i] = k[i]
        /\ \A i \in 1..Len(x) : p[Len(k) + i] = x[i]
    BY <1>13 DEF IsJoin
  <2>2. /\ Len(w) = Len(p) + Len(q) /\ Len(p) \in Nat
        /\ \A i \in 1..Len(p) : w[i] = p[i]
        /\ \A i \in 1..Len(q) : w[Len(p) + i] = q[i]
    BY <1>14 DEF IsJoin
  <2>3. Len(w) = m + 1 /\ w[m + 1] = Blank
    <3>1. 1 \in 1..1
      OBVIOUS
    <3> QED
      BY <1>12, <1>15, <2>2, <3>1
  <2>4. ASSUME NEW i \in 1..Len(k) PROVE w[i] = k[i]
    <3>1. i \in 1..Len(p)
      BY <1>10, <2>1
    <3> QED
      BY <2>1, <2>2, <3>1
  <2>5. ASSUME NEW i \in 1..Len(x) PROVE w[Len(k) + i] = x[i]
    <3>1. Len(k) + i \in 1..Len(p)
      BY <1>10, <2>1
    <3> QED
      BY <2>1, <2>2, <3>1
  <2> QED
    BY <1>15, <2>1, <2>2, <2>3, <2>4, <2>5
<1>17. IsText(w) /\ w[Len(w)] = Blank /\ m = Len(w) - 1
  <2>1. Len(w) # 0
    BY <1>16
  <2>2. IsText(w)
    BY <1>14, <2>1, NotEmpty, IsTextIf
  <2> QED
    BY <1>16, <2>2
<1>18. PICK s : s = from + m - to
  OBVIOUS
<1>19. d = Edited(t, Edit(from, to, w))
  BY <1>1, <1>9
<1>20. /\ Amid(d, t, from, to, s) /\ s \in Int /\ to + s = from + m
       /\ \A i \in 1..m : d[from - 1 + i] = w[i]
  <2>1. from \in Nat \ {0} /\ to \in Nat /\ from <= to /\ to <= Len(t)
    BY <1>7
  <2>2. EditPuts(d, t, from, to, w, m, s)
    BY <1>17, <1>18, <1>19, <2>1, EditAmid
  <2> QED
    BY <2>2 DEF EditPuts
<1>21. \A i \in 1..Len(k) : (w[i] = Blank \/ IsComment(w[i])) /\ ~IsFavorite(w[i])
  <2> SUFFICES ASSUME NEW i \in 1..Len(k)
               PROVE  (w[i] = Blank \/ IsComment(w[i])) /\ ~IsFavorite(w[i])
    OBVIOUS
  <2>1. PICK j \in E : k[i] = t[j]
    BY <1>10
  <2>2. (t[j] = Blank \/ IsComment(t[j])) /\ ~IsFavorite(t[j])
    BY <1>1, <1>6, <1>8, <2>1
  <2> QED
    BY <1>16, <2>1, <2>2
<1>22. \/ Len(x) = 0 /\ v = ""
       \/ Len(x) = 1 /\ x[1] = Favorite("true") /\ v = "true"
  <2>1. CASE x = <<>> /\ v = ""
    <3>1. Len(x) = 0
      BY <2>1
    <3> QED
      BY <2>1, <3>1
  <2>2. CASE x = <<Favorite("true")>> /\ v = "true"
    <3>1. PICK a : a = Favorite("true")
      OBVIOUS
    <3>2. Len(x) = 1 /\ x[1] = a
      BY <2>2, <3>1
    <3> QED
      BY <2>2, <3>1, <3>2
  <2> QED
    BY <1>1, <2>1, <2>2
<1>23. IsComment(Favorite("true"))
  BY DEF IsComment, Favorite
<1>24. ASSUME Len(x) = 1 PROVE w[m] = Favorite("true")
  <2>1. 1 \in 1..Len(x) /\ Len(k) + 1 = m
    BY <1>16, <1>24
  <2>2. w[Len(k) + 1] = x[1]
    BY <1>16, <2>1
  <2> QED
    BY <1>22, <1>24, <2>1, <2>2
<1>25. ASSUME NEW j \in from..to + s - 1 PROVE d[j] = Blank \/ IsComment(d[j])
  <2>1. PICK i \in Int : i = j - from + 1
    BY <1>7
  <2>2. i \in 1..m /\ from - 1 + i = j
    <3>1. /\ m \in Nat /\ to + s = from + m /\ from \in Nat
          /\ to \in Nat /\ s \in Int
      BY <1>7, <1>16, <1>20
    <3>2. from..to + s - 1 = from..from + m - 1
      <4>1. to + s - 1 = from + m - 1
        BY <3>1
      <4> QED
        BY <4>1
    <3>3. j \in from..from + m - 1
      BY <3>2
    <3> QED
      BY <2>1, <3>1, <3>3
  <2>3. i \in 1..Len(k) \/ (Len(x) = 1 /\ i = m)
    <3>1. m = Len(k) + Len(x) /\ Len(k) \in Nat /\ Len(x) \in {0, 1}
      BY <1>10, <1>16, <1>22
    <3>2. CASE Len(x) = 0
      BY <2>2, <3>1, <3>2
    <3>3. CASE Len(x) = 1
      <4>1. m = Len(k) + 1 /\ i \in 1..m
        BY <2>2, <3>1, <3>3
      <4> QED
        BY <3>1, <3>3, <4>1
    <3> QED
      BY <3>1, <3>2, <3>3
  <2>4. w[i] = Blank \/ IsComment(w[i])
    BY <1>21, <1>23, <1>24, <2>3
  <2> QED
    BY <1>20, <2>2, <2>4
<1>26. Comments(d, t, h, e, l, from, to, s)
  BY <1>1, <1>20, <1>25 DEF Comments
<1>27. PICK b, y, z, f : /\ b = BodyLine(t, l, e) /\ y = to + s /\ z = b + s - 1
                         /\ f = FavoriteIn(SubSeq(d, h + 1, z))
  OBVIOUS
<1>28. NoOther(t, h, from, to, b)
  BY <1>27 DEF IsMark
<1>29. /\ (\A i \in from..y - 1 : ~IsFavorite(d[i])) => f = ""
       /\ from < y /\ d[y - 1] = Favorite("true") => f = "true"
  BY <1>26, <1>27, <1>28, CommentsFavorite
<1>30. f = v
  <2>1. CASE Len(x) = 0 /\ v = ""
    <3>1. ASSUME NEW j \in from..y - 1 PROVE ~IsFavorite(d[j])
      <4>1. PICK i \in Int : i = j - from + 1
        BY <1>7
      <4>2. i \in 1..m /\ from - 1 + i = j /\ i \in 1..Len(k)
        <5>1. m = Len(k) /\ Len(k) \in Nat /\ from \in Nat
          <6>1. m = Len(k) + Len(x) /\ Len(x) = 0 /\ Len(k) \in Nat
            BY <1>10, <1>16, <2>1
          <6> QED
            BY <1>7, <6>1
        <5>2. y = from + m
          BY <1>20, <1>27
        <5> QED
          BY <4>1, <5>1, <5>2
      <4> QED
        BY <1>20, <1>21, <4>2
    <3> QED
      BY <1>29, <2>1, <3>1
  <2>2. CASE Len(x) = 1 /\ v = "true"
    <3>1. m \in 1..m /\ from - 1 + m = y - 1 /\ from < y
      <4>1. m = Len(k) + 1 /\ y = from + m /\ Len(k) \in Nat /\ from \in Nat
        BY <1>7, <1>10, <1>16, <1>20, <1>27, <2>2
      <4> QED
        BY <4>1
    <3>2. d[from - 1 + m] = w[m]
      BY <1>20, <3>1
    <3> QED
      BY <1>24, <1>29, <2>2, <3>1, <3>2
  <2> QED
    BY <1>22, <2>1, <2>2
<1>31. Toggled(d, t, h, f)
  BY <1>26, <1>27, CommentsMean
<1> QED
  BY <1>26, <1>30, <1>31, CommentsMark

\* A favorite is toggled, and nothing else.
LEMMA PlanFavoriteMeans ==
  ASSUME NEW t, IsText(t), NEW row, NEW edit \in PlanFavorite(t, row),
         NEW d, d = Edited(t, edit)
  PROVE  \E x : /\ Own(t, x, row)
                /\ Marked(d, t, x, IF Means(t, x).favorite = "true" THEN "" ELSE "true")
<1>1. PICK r \in ToSet(Requests(t)) :
        /\ r.target = row.request.target /\ r.name = row.request.name
        /\ \A i \in r.line + 1..FirstFrom(t, r.line + 1, r.end, LAMBDA l : l = Blank) - 1 :
             ~IsFavorite(t[i])
        /\ edit = LET P == {i \in r.start..r.line - 1 : IsFavorite(t[i])}
                      from == IF P = {} THEN r.line ELSE Min(P)
                      to == IF P = {} THEN r.line ELSE Max(P) + 1
                      kept == Picked(t, {i \in from..to - 1 : ~IsFavorite(t[i])})
                  IN  Edit(from, to, kept \o (IF r.favorite = "true" THEN <<>>
                                              ELSE <<Favorite("true")>>) \o Empty)
  BY DEF PlanFavorite, RequestsOn
<1>2. PICK h \in RequestHeads(t) : Shows(t, h, r)
  BY RequestShown
<1>3. PICK e, l, b : e = NextSeparator(t, h) /\ l = RequestLine(t, h) /\ b = BodyLine(t, l, e)
  OBVIOUS
<1>4. /\ h \in Nat /\ r.start = h + 1 /\ r.line = l /\ r.end = e
      /\ Means(t, h).name = r.name /\ Means(t, h).target = r.target
      /\ Means(t, h).favorite = r.favorite
  BY <1>2, <1>3 DEF Shows
<1>5. PICK P : P = {i \in h + 1..l - 1 : IsFavorite(t[i])}
  OBVIOUS
<1>6. PICK from, to, x, v :
        /\ from = (IF P = {} THEN l ELSE Min(P))
        /\ to = (IF P = {} THEN l ELSE Max(P) + 1)
        /\ x = (IF r.favorite = "true" THEN <<>> ELSE <<Favorite("true")>>)
        /\ v = (IF r.favorite = "true" THEN "" ELSE "true")
  OBVIOUS
<1>7. PICK E : E = {i \in from..to - 1 : ~IsFavorite(t[i])}
  OBVIOUS
<1>8. edit = Edit(from, to, Picked(t, E) \o x \o Empty)
  BY <1>1, <1>4, <1>5, <1>6, <1>7
<1>9. FirstFrom(t, l + 1, e, LAMBDA y : y = Blank) = b
  BY <1>3 DEF FirstFrom, BodyLine
<1>10. \A i \in l + 1..b - 1 : ~IsFavorite(t[i])
  BY <1>1, <1>4, <1>9
<1>11. h \in Heads(t) /\ HasRequest(t, h)
  BY DEF RequestHeads
<1>12. h \in 0..Len(t) /\ Len(t) \in Nat
  BY <1>11, RequestsAre
<1>13. IsLine(t, h, e, l) /\ e \in Nat
  BY <1>3, <1>11, <1>12, LineHas, SectionPlaces
<1>14. l \in h + 1..e - 1 /\ ~IsComment(t[l])
  BY <1>13, LineKind DEF IsLine
<1>15. l \in Nat /\ h < l /\ ~IsFavorite(t[l])
  <2>1. ~IsFavorite(t[l])
    BY <1>14 DEF IsComment, IsFavorite
  <2> QED
    BY <1>4, <1>14, <2>1
<1>16. /\ from \in Nat /\ to \in Nat /\ h < from /\ from <= to /\ to <= l
       /\ \A i \in h + 1..from - 1 : ~IsFavorite(t[i])
       /\ \A i \in to..l - 1 : ~IsFavorite(t[i])
  <2>1. CASE P = {}
    <3>1. from = l /\ to = l
      BY <1>6, <2>1
    <3>2. \A i \in h + 1..l - 1 : ~IsFavorite(t[i])
      BY <1>5, <2>1
    <3> QED
      BY <1>4, <1>15, <3>1, <3>2
  <2>2. CASE P # {}
    <3>1. P \subseteq Nat /\ P \in SUBSET (0..l)
      BY <1>4, <1>5, <1>15
    <3>2. PICK a, c : a = Min(P) /\ c = Max(P)
      OBVIOUS
    <3>3. a \in P /\ \A j \in P : a <= j
      BY <2>2, <3>1, <3>2, MinOf
    <3>4. c \in P /\ \A j \in P : j <= c
      BY <1>15, <2>2, <3>1, <3>2, MaxOf
    <3>5. a \in h + 1..l - 1 /\ c \in h + 1..l - 1 /\ a <= c
      BY <1>5, <3>3, <3>4
    <3>6. from = a /\ to = c + 1
      BY <1>6, <2>2, <3>2
    <3>7. ASSUME NEW i \in h + 1..from - 1 PROVE ~IsFavorite(t[i])
      <4>1. i \in h + 1..l - 1 /\ ~(a <= i)
        BY <1>4, <1>15, <3>5, <3>6
      <4> QED
        BY <1>5, <3>3, <4>1
    <3>8. ASSUME NEW i \in to..l - 1 PROVE ~IsFavorite(t[i])
      <4>1. i \in h + 1..l - 1 /\ ~(i <= c)
        BY <1>4, <1>15, <3>5, <3>6
      <4> QED
        BY <1>5, <3>4, <4>1
    <3> QED
      BY <1>4, <1>15, <3>5, <3>6, <3>7, <3>8
  <2> QED
    BY <2>1, <2>2
<1>17. b \in l + 1..e
  <2>1. l < e
    BY <1>13, <1>14
  <2>2. IsBody(t, l, e, b)
    BY <1>3, <1>13, <1>15, <2>1, BodyHas
  <2> QED
    BY <2>2 DEF IsBody
<1>18. NoOther(t, h, from, to, b)
  <2>1. ASSUME NEW i \in to..b - 1 PROVE ~IsFavorite(t[i])
    <3>1. i \in to..l - 1 \/ i = l \/ i \in l + 1..b - 1
      BY <1>13, <1>15, <1>16, <1>17
    <3> QED
      BY <1>10, <1>15, <1>16, <3>1
  <2> QED
    BY <1>16, <2>1 DEF NoOther
<1>19. IsMark(edit, t, h, e, l, from, to, E, x, v)
  BY <1>2, <1>3, <1>6, <1>7, <1>8, <1>16, <1>18 DEF IsMark
<1>20. Marked(d, t, h, v)
  BY <1>19, MarkMeans
<1>21. v = IF Means(t, h).favorite = "true" THEN "" ELSE "true"
  BY <1>4, <1>6
<1> QED
  BY <1>1, <1>2, <1>4, <1>20, <1>21 DEF Own

\* What each kind of plan does, in the words of the property.
LEMMA DuplicateOwn ==
  ASSUME NEW t, NEW d, NEW row, NEW x, NEW name, Own(t, x, row), Doubled(d, t, x, name)
  PROVE  \E k \in DOMAIN Meaning(t) :
           /\ Meaning(t)[k].name = row.request.name
           /\ Meaning(t)[k].target = row.request.target
           /\ Meaning(d) = InsertAt(Meaning(t), k + 1,
                             [Meaning(t)[k] EXCEPT !.name = Meaning(d)[k + 1].name])
<1>1. PICK v, w : v = [Means(t, x) EXCEPT !.name = name] /\ w = Means(t, x)
  OBVIOUS
<1>2. Behind(d, t, x, v)
  BY <1>1 DEF Doubled
<1>3. PICK k \in DOMAIN Meaning(t) :
        /\ Meaning(t)[k] = Means(t, x)
        /\ Meaning(d) = InsertAt(Meaning(t), k + 1, v) /\ Meaning(d)[k + 1] = v
  BY <1>2 DEF Behind
<1>4. v.name = name
  BY <1>1 DEF Means
<1>5. PICK u : u = Meaning(d)[k + 1]
  OBVIOUS
<1>6. [Meaning(t)[k] EXCEPT !.name = u.name] = v
  <2>1. u = v /\ Meaning(t)[k] = w
    BY <1>1, <1>3, <1>5
  <2>2. [w EXCEPT !.name = v.name] = v
    BY <1>1, <1>4
  <2> QED
    BY <2>1, <2>2
<1>7. Meaning(t)[k].name = row.request.name /\ Meaning(t)[k].target = row.request.target
  BY <1>3 DEF Own
<1> QED
  BY <1>3, <1>5, <1>6, <1>7

RenamesOwn(d, t, row, name) ==
  \E k \in DOMAIN Meaning(t) :
    /\ Meaning(t)[k].name = row.request.name
    /\ Meaning(t)[k].target = row.request.target
    /\ Meaning(d) = [Meaning(t) EXCEPT ![k].name = name]

LEMMA RenameOwn ==
  ASSUME NEW t, IsText(t), NEW d, NEW row, NEW x, NEW name, Own(t, x, row),
         Renamed(d, t, x, name)
  PROVE  RenamesOwn(d, t, row, name)
<1>1. PICK k \in DOMAIN Meaning(t) :
        /\ Meaning(t)[k] = Means(t, x)
        /\ Meaning(d) = [Meaning(t) EXCEPT ![k] = [Means(t, x) EXCEPT !.name = name]]
  BY DEF Renamed
<1>2. Meaning(d) = [Meaning(t) EXCEPT ![k].name = name]
  BY <1>1
<1>3. Meaning(t)[k].name = row.request.name /\ Meaning(t)[k].target = row.request.target
  BY <1>1 DEF Own
<1> QED
  BY <1>2, <1>3 DEF RenamesOwn

MarksOwn(d, t, row) ==
  \E k \in DOMAIN Meaning(t) :
    /\ Meaning(t)[k].name = row.request.name
    /\ Meaning(t)[k].target = row.request.target
    /\ Meaning(d) = [Meaning(t) EXCEPT ![k].favorite =
                       IF @ = "true" THEN "" ELSE "true"]

LEMMA FavoriteOwn ==
  ASSUME NEW t, IsText(t), NEW d, NEW row, NEW x, Own(t, x, row),
         Marked(d, t, x, IF Means(t, x).favorite = "true" THEN "" ELSE "true")
  PROVE  MarksOwn(d, t, row)
<1>1. PICK v : v = IF Means(t, x).favorite = "true" THEN "" ELSE "true"
  OBVIOUS
<1>2. PICK k \in DOMAIN Meaning(t) :
        /\ Meaning(t)[k] = Means(t, x)
        /\ Meaning(d) = [Meaning(t) EXCEPT ![k] = [Means(t, x) EXCEPT !.favorite = v]]
  BY <1>1 DEF Marked
<1>3. Meaning(d) = [Meaning(t) EXCEPT ![k].favorite =
                      IF @ = "true" THEN "" ELSE "true"]
  BY <1>1, <1>2
<1>4. Meaning(t)[k].name = row.request.name /\ Meaning(t)[k].target = row.request.target
  BY <1>2 DEF Own
<1> QED
  BY <1>3, <1>4 DEF MarksOwn

\* A command that ends with the document changed did what its kind says.
LEMMA AddedOnly ==
  ASSUME EditsInv, [EditsNext]_editsVars, NEW c \in Commands
  PROVE  AddsOnly(c)
<1> SUFFICES ASSUME Done(c, {"duplicate", "add", "rename", "favorite"})
             PROVE  AddsOnly(c)
  BY DEF AddsOnly, Done
<1>1. Applies(c)
  BY OnlyItsOwn DEF Done
<1>2. PICK y, t, d : y = commands[c] /\ t = doc /\ d = doc'
  OBVIOUS
<1>3. d = Edited(t, y.edit) /\ IsText(t) /\ y.edit \in Plan(y)
  BY <1>1, <1>2, AppliedPlan
<1>4. y.kind \in {"duplicate", "add", "rename", "favorite"}
  BY <1>2 DEF Done
<1>5. CASE y.kind = "duplicate"
  <2>1. y.edit \in PlanDuplicate(t, y.row)
    BY <1>2, <1>3, <1>5 DEF Plan
  <2>2. PICK x, name : Own(t, x, y.row) /\ Doubled(d, t, x, name)
    BY <1>3, <2>1, PlanDuplicateMeans
  <2>3. \E k \in DOMAIN Meaning(t) :
          /\ Meaning(t)[k].name = y.row.request.name
          /\ Meaning(t)[k].target = y.row.request.target
          /\ Meaning(d) = InsertAt(Meaning(t), k + 1,
                            [Meaning(t)[k] EXCEPT !.name = Meaning(d)[k + 1].name])
    BY <2>2, DuplicateOwn
  <2> QED
    BY <1>2, <1>5, <2>3 DEF AddsOnly, Done
<1>6. CASE y.kind = "add"
  <2>1. y.edit \in PlanAppend(t)
    BY <1>2, <1>3, <1>6 DEF Plan
  <2>2. PICK v : v.target = Target("GET", "baseUrl") /\ Extended(d, t, v)
    BY <1>3, <2>1, PlanAppendMeans
  <2>3. /\ Meaning(d) # <<>> /\ Front(Meaning(d)) = Meaning(t)
        /\ Last(Meaning(d)).target = Target("GET", "baseUrl")
    BY <2>2 DEF Extended
  <2> QED
    BY <1>2, <1>6, <2>3 DEF AddsOnly, Done
<1>7. CASE y.kind = "rename"
  <2>1. y.edit \in PlanRename(t, y.row, y.name)
    BY <1>2, <1>3, <1>7 DEF Plan
  <2>2. PICK x : Own(t, x, y.row) /\ Renamed(d, t, x, y.name)
    BY <1>3, <2>1, PlanRenameMeans
  <2>3. RenamesOwn(d, t, y.row, y.name)
    BY <1>3, <2>2, RenameOwn
  <2> QED
    BY <1>2, <1>7, <2>3 DEF AddsOnly, Done, RenamesOwn
<1>8. CASE y.kind = "favorite"
  <2>1. y.edit \in PlanFavorite(t, y.row)
    BY <1>2, <1>3, <1>8 DEF Plan
  <2>2. PICK x : /\ Own(t, x, y.row)
                 /\ Marked(d, t, x, IF Means(t, x).favorite = "true" THEN "" ELSE "true")
    BY <1>3, <2>1, PlanFavoriteMeans
  <2>3. MarksOwn(d, t, y.row)
    BY <1>3, <2>2, FavoriteOwn
  <2> QED
    BY <1>2, <1>8, <2>3 DEF AddsOnly, Done, MarksOwn
<1> QED
  BY <1>4, <1>5, <1>6, <1>7, <1>8

\* A copy, a new request, another name and another favorite change one request,
\* or bring one, where they say so, and leave all others as they were, with
\* their headers and bodies (planDuplicateRequest, planAppendRequest,
\* planRenameRequest, planFavoriteToggle), for all texts and whatever was
\* typed, saved or done by other commands since.
THEOREM EditsAddOnly ==
  ASSUME EditsAssumption
  PROVE  EditsSpec => AdditiveEditsAreExact
<1>1. EditsInit => EditsInv
  BY EditsInitiates
<1>2. EditsInv /\ [EditsNext]_editsVars => EditsInv'
  BY EditsStep
<1>3. EditsInv /\ [EditsNext]_editsVars => \A c \in Commands : AddsOnly(c)
  BY AddedOnly
<1> QED
  BY <1>1, <1>2, <1>3, PTL DEF EditsSpec, AdditiveEditsAreExact
=============================================================================
