------------------------- MODULE RequestsTree_proofs -------------------------
(* Theorems about RequestsTree, for all folders, directories, files, texts,  *)
(* queries and bounds.                                                       *)
EXTENDS RequestsTree, TLAPS, FiniteSetTheorems, SequenceTheorems,
        WellFoundedInduction

FilterKinds == Kinds \cup {"favorites", "recent"}
Bytes == (UNION {Texts[f] : f \in Files}) \cup {None}
Steps == {"stat", "list", "read", "bytes"}
Listing == [node : Nodes, place : Places \cup Files, step : Steps,
            bytes : Bytes, late : BOOLEAN]

\* What a listing awaits, and what for.
Shape(x) ==
  /\ x.node = Root => x.place \in Workspaces
  /\ x.node # Root => x.place = x.node
  /\ x.node \in Workspaces \cup {Root} => x.step \in {"stat", "list"}
  /\ x.node \in Dirs => x.step = "list"
  /\ x.node \in Files => x.step \in {"read", "bytes"}

TreeTyped ==
  /\ open \subseteq Workspaces
  /\ disk \in [Files -> Bytes] /\ editor \in [Files -> Bytes]
  /\ filters = [k \in FilterKinds |-> filters[k]]
  /\ described = Active(filters)
  /\ owed \subseteq Nodes
  /\ listings \in Seq(Listing)
  /\ \A i \in DOMAIN listings : Shape(listings[i])
  /\ tree = [n \in Nodes |-> tree[n]]
  /\ \A n \in Nodes : tree[n].nodes \subseteq Nodes

PromptInv ==
  /\ generation \in [Kinds -> Nat] /\ setBy \in [Kinds -> Nat]
  /\ \A k \in Kinds : setBy[k] <= generation[k]
  /\ \A p \in prompts :
       p.kind \in Kinds /\ p.number \in Nat /\ p.number <= generation[p.kind]

\* ------------------------------------------------------------------------
\* The tree, while refreshes and listings are under way.

\* The text of a file: what the editor has open, and else what the disk holds.
Text(f) == IF editor[f] # None THEN editor[f] ELSE disk[f]

\* A listing that, if it went on now, would paint what is current, unless
\* a change of a folder went unnoticed.
Good(x) ==
  IF x.node = Root
  THEN /\ Cardinality(open) = 1 /\ x.place = Single
       /\ x.step = "list" => Exists(Single) \/ Root \in missed
  ELSE IF x.node \in Workspaces
  THEN /\ x.node \in open
       /\ x.step = "list" => Exists(x.node) \/ x.node \in missed
  ELSE /\ Contained(x.node)
       /\ x.step = "bytes" =>
            TextRead(x.node, x.bytes) = Text(x.node) \/ x.node \in missed

\* What is below a node will be asked for, or is being listed: the listings
\* from one on that was not overtaken are good.
Promised(n) ==
  \E j \in DOMAIN listings :
    /\ listings[j].node = n /\ ~listings[j].late
    /\ \A k \in DOMAIN listings :
         k >= j /\ listings[k].node = n => Good(listings[k])
Settling(n) == n \in owed \/ Promised(n)

\* No listing of the node would spoil it unnoticed.
Unspoilt(n) ==
  \A i \in DOMAIN listings :
    listings[i].node = n => listings[i].late \/ Good(listings[i])

Faithful(n) == tree[n].late \/ n \in missed \/ tree[n] = Current(n)
RowsOK(f) ==
  LET rows == Painted(f, tree[f].source) IN
  tree[f].rows = rows.rows /\ tree[f].message = rows.message

\* The nodes C are painted as they are to be, and from the root on what is
\* not in C is about to be painted.
Clean(C) ==
  /\ Root \in C \/ Settling(Root)
  /\ \A n \in C :
       /\ Faithful(n) /\ (n \in Files => RowsOK(n))
       /\ Settling(n) \/ Unspoilt(n)
       /\ \A m \in tree[n].nodes : m \in C \/ Settling(m)

\* Unless the watcher has something to report, which will refresh the tree.
TreeInv == unseen \/ \E C \in SUBSET Nodes : Clean(C)

IInv == TreeTyped /\ PromptInv /\ TreeInv

----------------------------------------------------------------------------
(* Places.                                                                 *)

\* What lies in a directory lies in all that the directory lies in.
LEMMA AboveParent ==
  ASSUME NEW p \in Dirs \cup Files
  PROVE  /\ Parent[p] \in Above(p)
         /\ \A d \in Dirs : d \in Above(p) => Above(d) \subseteq Above(p)
<1>1. Parent[p] \in Places
  BY TreeAssumption DEF Places
<1>2. Parent[p] \in Above(p)
  BY <1>1 DEF Above
<1>3. ASSUME NEW d \in Dirs, d \in Above(p), NEW q \in Above(d)
      PROVE  q \in Above(p)
  <2>1. q \in Places
    BY DEF Above
  <2>2. ASSUME NEW ps \in SUBSET Places, Parent[p] \in ps, Upwards(ps)
        PROVE  q \in ps
    <3>1. d \in ps
      BY <1>3, <2>2 DEF Above
    <3>2. Parent[d] \in ps
      BY <2>2, <3>1 DEF Upwards
    <3> QED
      BY <2>2, <3>2 DEF Above
  <2> QED
    BY <2>1, <2>2 DEF Above
<1> QED
  BY <1>2, <1>3

LEMMA OneFolder ==
  ASSUME open \subseteq Workspaces
  PROVE  /\ Cardinality(open) = 1 => open # {} /\ Single \in open
         /\ Cardinality(open) > 1 => open # {}
<1>1. Cardinality({}) = 0
  BY FS_EmptySet
<1>2. open # {} => Single \in open
  BY DEF Single
<1> QED
  BY <1>1, <1>2

LEMMA EntriesTyped ==
  ASSUME NEW p
  PROVE  Entries(p) \subseteq Nodes
BY DEF Entries, Nodes

----------------------------------------------------------------------------
(* What is painted.                                                        *)

LEMMA PaintedShape ==
  ASSUME NEW f, NEW t, NEW r, r = Painted(f, t)
  PROVE  /\ r.nodes = {} /\ r.source = t
         /\ [r EXCEPT !.late = TRUE].nodes = {}
         /\ [r EXCEPT !.late = TRUE].source = t
         /\ [r EXCEPT !.late = TRUE].late = TRUE
         /\ [r EXCEPT !.late = TRUE].rows = r.rows
         /\ [r EXCEPT !.late = TRUE].message = r.message
<1>1. CASE t = None
  BY <1>1 DEF Painted, Nothing
<1>2. CASE t # None
  <2> DEFINE rows == {i \in DOMAIN t.requests : Matches(f, t.requests[i])}
  <2>1. FileRows(f, t) \in {Says("too large"), Says("no match"),
                            [Nothing EXCEPT !.rows = rows]}
    BY DEF FileRows
  <2>2. Painted(f, t) = [FileRows(f, t) EXCEPT !.source = t]
    BY <1>2 DEF Painted
  <2> HIDE DEF rows
  <2> QED
    BY <2>1, <2>2 DEF Says, Nothing
<1> QED
  BY <1>1, <1>2

----------------------------------------------------------------------------
(* Steps that change nothing that the tree shows.                          *)

\* A place is open, or lies in a folder that is.
Within(p) == p \in open \/ (p \in Dirs \cup Files /\ Contained(p))

Undisturbed ==
  /\ open' = open /\ filters' = filters /\ missed' = missed
  /\ \A p \in Places : Within(p) => (p \in dirs' <=> p \in dirs)
  /\ filters["recent"] => recent' = recent
  /\ \A f \in Files : Contained(f) =>
       /\ disk'[f] = disk[f] /\ Text(f)' = Text(f)
       /\ editor[f] # None => editor'[f] # None

LEMMA SamePainted ==
  ASSUME filters' = filters, filters["recent"] => recent' = recent,
         NEW f, NEW t
  PROVE  Painted(f, t)' = Painted(f, t)
<1>1. ASSUME NEW r PROVE Matches(f, r)' <=> Matches(f, r)
  BY DEF Matches, IsRecent
<1>2. {i \in DOMAIN t.requests : Matches(f, t.requests[i])}'
        = {i \in DOMAIN t.requests : Matches(f, t.requests[i])}
  BY <1>1
<1>3. FileRows(f, t)' = FileRows(f, t)
  BY <1>2 DEF FileRows
<1> QED
  BY <1>3 DEF Painted

LEMMA SameContained ==
  ASSUME open' = open, NEW p
  PROVE  Contained(p)' <=> Contained(p)
BY DEF Contained

LEMMA SameExists ==
  ASSUME Undisturbed, NEW p, Within(p), open \subseteq Workspaces
  PROVE  Exists(p)' <=> Exists(p)
<1>1. CASE p \in Files
  BY <1>1, TreeAssumption DEF Exists, Within, Undisturbed
<1>2. CASE p \notin Files
  BY <1>2 DEF Exists, Within, Undisturbed, Places
<1> QED
  BY <1>1, <1>2

LEMMA SameEntries ==
  ASSUME Undisturbed, NEW p, p \in open \/ (p \in Dirs /\ Contained(p)),
         open \subseteq Workspaces
  PROVE  Entries(p)' = Entries(p)
<1>1. ASSUME NEW q \in Dirs \cup Files, Parent[q] = p
      PROVE  Exists(q)' <=> Exists(q)
  <2>1. p \in Above(q) /\ (p \in Dirs => Above(p) \subseteq Above(q))
    BY <1>1, AboveParent
  <2>2. Contained(q)
    BY <2>1 DEF Contained
  <2>3. Within(q)
    BY <2>2 DEF Within
  <2> QED
    BY <2>3, SameExists
<1> QED
  BY <1>1 DEF Entries

LEMMA SameCurrent ==
  ASSUME Undisturbed, open \subseteq Workspaces, NEW n \in Nodes
  PROVE  Current(n)' = Current(n)
<1>1. open' = open /\ Single' = Single
  BY DEF Undisturbed, Single
<1>2. open # {} => Single \in open
  BY DEF Single
<1>3. ASSUME NEW w \in open
      PROVE  (Exists(w)' <=> Exists(w)) /\ Entries(w)' = Entries(w)
  BY SameExists, SameEntries DEF Within
<1>4. CASE n = Root
  <2>1. /\ Holds(open)' = Holds(open) /\ Says("init")' = Says("init")
        /\ Says("open folder")' = Says("open folder")
    BY <1>1 DEF Holds, Says, Nothing
  <2>2. open # {} =>
          /\ Exists(Single)' <=> Exists(Single)
          /\ Holds(Entries(Single))' = Holds(Entries(Single))
    <3>1. ASSUME NEW w \in open, w = Single
          PROVE  /\ Exists(Single)' <=> Exists(Single)
                 /\ Holds(Entries(Single))' = Holds(Entries(Single))
      BY <1>1, <1>3, <3>1
    <3> QED
      BY <1>2, <3>1
  <2> QED
    BY <1>1, <1>4, <2>1, <2>2 DEF Current
<1>5. CASE n \in Workspaces
  <2>1. n # Root
    BY <1>5, TreeAssumption
  <2>2. n \in open => /\ Exists(n)' <=> Exists(n)
                      /\ Holds(Entries(n))' = Holds(Entries(n))
    BY <1>3 DEF Holds
  <2> QED
    BY <1>1, <1>5, <2>1, <2>2 DEF Current, Says, Nothing
<1>6. CASE n \in Dirs
  <2>1. n # Root /\ n \notin Workspaces
    BY <1>6, TreeAssumption
  <2>2. Contained(n)' <=> Contained(n)
    BY <1>1, SameContained
  <2>3. Contained(n) => Holds(Entries(n))' = Holds(Entries(n))
    BY <1>6, SameEntries DEF Holds
  <2> QED
    BY <1>6, <2>1, <2>2, <2>3 DEF Current, Nothing
<1>7. CASE n \in Files
  <2>1. n # Root /\ n \notin Workspaces /\ n \notin Dirs
    BY <1>7, TreeAssumption
  <2>2. Contained(n)' <=> Contained(n)
    BY <1>1, SameContained
  <2>3. ASSUME Contained(n), NEW t, t = Text(n)
        PROVE  Painted(n, Text(n))' = Painted(n, Text(n))
    <3>1. t = Text(n)'
      BY <1>7, <2>3 DEF Undisturbed
    <3>2. Painted(n, t)' = Painted(n, t)
      BY SamePainted DEF Undisturbed
    <3> QED
      BY <2>3, <3>1, <3>2
  <2>4. Current(n) = IF ~Contained(n) THEN Nothing ELSE Painted(n, Text(n))
    BY <2>1 DEF Current, Text
  <2>5. Current(n)' = IF ~Contained(n)' THEN Nothing ELSE Painted(n, Text(n))'
    BY <2>1 DEF Current, Text
  <2> QED
    BY <2>2, <2>3, <2>4, <2>5
<1> QED
  BY <1>4, <1>5, <1>6, <1>7 DEF Nodes

\* A listing stays good.
LEMMA StaysGood ==
  ASSUME Undisturbed, open \subseteq Workspaces, NEW x \in Listing, Shape(x),
         Good(x)
  PROVE  Good(x)'
<1>1. open' = open /\ Single' = Single /\ missed' = missed
  BY DEF Undisturbed, Single
<1>2. ASSUME NEW w \in open PROVE Exists(w)' <=> Exists(w)
  BY SameExists DEF Within
<1>3. CASE x.node = Root
  <2>1. Cardinality(open) = 1 /\ x.place = Single /\ Single \in open
    BY <1>3, OneFolder DEF Good
  <2>2. ASSUME NEW w \in open, w = Single PROVE Exists(w)' <=> Exists(Single)
    BY <1>2, <2>2
  <2>3. ASSUME NEW w \in open, w = Single
        PROVE  Exists(Single)' <=> Exists(Single)
    BY <1>1, <1>2, <2>3
  <2>4. Exists(Single)' <=> Exists(Single)
    BY <2>1, <2>3
  <2> QED
    BY <1>1, <1>3, <2>1, <2>4 DEF Good
<1>4. CASE x.node # Root /\ x.node \in Workspaces
  BY <1>1, <1>2, <1>4 DEF Good
<1>5. CASE x.node # Root /\ x.node \notin Workspaces
  <2>1. Contained(x.node) /\ Contained(x.node)'
    BY <1>1, <1>5, SameContained DEF Good
  <2>2. ASSUME x.step = "bytes", x.node \in Files
        PROVE  (TextRead(x.node, x.bytes) = Text(x.node))' \/ x.node \in missed'
    <3>1. TextRead(x.node, x.bytes) = Text(x.node) \/ x.node \in missed
      BY <1>5, <2>2 DEF Good
    <3> QED
      BY <1>1, <2>1, <2>2, <3>1 DEF Undisturbed, TextRead, Text
  <2>3. x.step = "bytes" => x.node \in Files
    BY <1>5 DEF Shape, Listing, Nodes
  <2> QED
    BY <1>5, <2>1, <2>2, <2>3 DEF Good
<1> QED
  BY <1>3, <1>4, <1>5

----------------------------------------------------------------------------
(* What a step leaves of the painted nodes.                                *)

\* A step that paints nothing.
LEMMA CleanKept ==
  ASSUME TreeTyped, Undisturbed, NEW C \in SUBSET Nodes, Clean(C),
         tree' = tree,
         \A m \in Nodes : Settling(m) => Settling(m)',
         \A m \in Nodes : Unspoilt(m) => Unspoilt(m)' \/ Settling(m)'
  PROVE  Clean(C)'
<1>1. Root \in Nodes
  BY DEF Nodes
<1>2. ASSUME NEW n \in C
      PROVE  /\ Faithful(n)' /\ (n \in Files => RowsOK(n)')
             /\ Settling(n)' \/ Unspoilt(n)'
             /\ \A m \in tree'[n].nodes : m \in C \/ Settling(m)'
  <2>1. n \in Nodes /\ open \subseteq Workspaces
    BY DEF TreeTyped
  <2>2. Faithful(n)'
    BY <2>1, SameCurrent DEF Clean, Faithful, Undisturbed
  <2>3. n \in Files => RowsOK(n)'
    <3>1. ASSUME NEW t, t = tree[n].source
          PROVE  Painted(n, tree[n].source)' = Painted(n, tree[n].source)
      <4>1. Painted(n, t)' = Painted(n, t)
        BY SamePainted DEF Undisturbed
      <4> QED
        BY <3>1, <4>1
    <3> QED
      BY <3>1 DEF Clean, RowsOK
  <2>4. Settling(n)' \/ Unspoilt(n)'
    BY <2>1 DEF Clean
  <2>5. \A m \in tree'[n].nodes : m \in C \/ Settling(m)'
    BY <2>1 DEF Clean, TreeTyped
  <2> QED
    BY <2>2, <2>3, <2>4, <2>5
<1>3. Root \in C \/ Settling(Root)'
  BY <1>1 DEF Clean
<1> QED
  BY <1>2, <1>3 DEF Clean

\* A step that paints n; of the others nothing is lost.
Repaints(n) ==
  /\ Undisturbed
  /\ DOMAIN tree' = Nodes /\ \A m \in Nodes \ {n} : tree'[m] = tree[m]
  /\ \A m \in Nodes \ {n} :
       /\ Settling(m) => Settling(m)'
       /\ Unspoilt(m) => Unspoilt(m)'

LEMMA OthersClean ==
  ASSUME TreeTyped, NEW n \in Nodes, Repaints(n),
         NEW C \in SUBSET Nodes, Clean(C), NEW m \in C, m # n
  PROVE  /\ Faithful(m)' /\ (m \in Files => RowsOK(m)')
         /\ Settling(m)' \/ Unspoilt(m)'
         /\ \A p \in tree'[m].nodes : (p \in C \/ Settling(p)) /\ p \in Nodes
<1>1. m \in Nodes /\ open \subseteq Workspaces /\ tree'[m] = tree[m]
  BY DEF TreeTyped, Repaints
<1>2. Faithful(m)'
  BY <1>1, SameCurrent DEF Clean, Faithful, Repaints, Undisturbed
<1>3. m \in Files => RowsOK(m)'
  <2>1. ASSUME NEW t, t = tree'[m].source
        PROVE  Painted(m, tree[m].source)' = Painted(m, tree[m].source)
    <3>1. Painted(m, t)' = Painted(m, t)
      BY SamePainted DEF Undisturbed, Repaints
    <3> QED
      BY <1>1, <2>1, <3>1
  <2> QED
    BY <1>1, <2>1 DEF Clean, RowsOK
<1>4. Settling(m)' \/ Unspoilt(m)'
  BY <1>1 DEF Clean, Repaints
<1>5. \A p \in tree'[m].nodes : (p \in C \/ Settling(p)) /\ p \in Nodes
  BY <1>1 DEF Clean, TreeTyped
<1> QED
  BY <1>2, <1>3, <1>4, <1>5

\* The paint is what it is to be.
LEMMA CleanAfterPaint ==
  ASSUME TreeTyped, NEW n \in Nodes, Repaints(n),
         NEW C \in SUBSET Nodes, Clean(C), tree'[n].nodes \subseteq owed',
         Faithful(n)', n \in Files => RowsOK(n)',
         Settling(n) \/ Unspoilt(n) => Settling(n)' \/ Unspoilt(n)'
  PROVE  \E D \in SUBSET Nodes : Clean(D)'
<1>1. \A p \in Nodes \ {n} : Settling(p) => Settling(p)'
  BY DEF Repaints
<1>2. Root \in Nodes
  BY DEF Nodes
<1>3. CASE n \in C \/ Settling(n)
  <2>1. Settling(n)' \/ Unspoilt(n)'
    BY <1>3 DEF Clean
  <2>2. \A p \in tree'[n].nodes : Settling(p)'
    BY DEF Settling
  <2>3. ASSUME NEW m \in C, m # n
        PROVE  \A p \in tree'[m].nodes : p \in C \cup {n} \/ Settling(p)'
    BY <1>1, <2>3, OthersClean
  <2>4. Root \in C \cup {n} \/ Settling(Root)'
    BY <1>1, <1>2 DEF Clean
  <2>5. ASSUME NEW m \in C \cup {n}
        PROVE  /\ Faithful(m)' /\ (m \in Files => RowsOK(m)')
               /\ Settling(m)' \/ Unspoilt(m)'
               /\ \A p \in tree'[m].nodes : p \in C \cup {n} \/ Settling(p)'
    BY <2>1, <2>2, <2>3, OthersClean
  <2>6. Clean(C \cup {n})'
    BY <2>4, <2>5 DEF Clean
  <2> QED
    BY <2>6
<1>4. CASE n \notin C /\ ~Settling(n)
  <2>1. Root \in C \/ Settling(Root)'
    BY <1>1, <1>2, <1>4 DEF Clean
  <2>2. ASSUME NEW m \in C
        PROVE  /\ Faithful(m)' /\ (m \in Files => RowsOK(m)')
               /\ Settling(m)' \/ Unspoilt(m)'
               /\ \A p \in tree'[m].nodes : p \in C \/ Settling(p)'
    BY <1>1, <1>4, OthersClean
  <2>3. Clean(C)'
    BY <2>1, <2>2 DEF Clean
  <2> QED
    BY <2>3
<1> QED
  BY <1>3, <1>4

\* The paint is stale, and another is due.
LEMMA CleanAfterStale ==
  ASSUME TreeTyped, NEW n \in Nodes, Repaints(n),
         NEW C \in SUBSET Nodes, Clean(C),
         n \in C => Settling(n), Settling(n) => Settling(n)'
  PROVE  \E D \in SUBSET Nodes : Clean(D)'
<1>1. \A p \in Nodes : Settling(p) => Settling(p)'
  BY DEF Repaints
<1>2. \A p \in C : p \in C \ {n} \/ Settling(p)'
  BY <1>1
<1>3. Root \in C \ {n} \/ Settling(Root)'
  BY <1>1, <1>2 DEF Clean, Nodes
<1>4. ASSUME NEW m \in C \ {n}
      PROVE  /\ Faithful(m)' /\ (m \in Files => RowsOK(m)')
             /\ Settling(m)' \/ Unspoilt(m)'
             /\ \A p \in tree'[m].nodes : p \in C \ {n} \/ Settling(p)'
  BY <1>1, <1>2, OthersClean
<1>5. Clean(C \ {n})'
  BY <1>3, <1>4 DEF Clean
<1> QED
  BY <1>5

----------------------------------------------------------------------------
(* Listings.                                                               *)

LEMMA Removed ==
  ASSUME NEW S, NEW s \in Seq(S), NEW i \in DOMAIN s
  PROVE  /\ RemoveAt(s, i) \in Seq(S) /\ Len(RemoveAt(s, i)) = Len(s) - 1
         /\ \A k \in 1..Len(s) - 1 :
              RemoveAt(s, i)[k] = IF k < i THEN s[k] ELSE s[k + 1]
<1> DEFINE a == SubSeq(s, 1, i - 1)
           b == SubSeq(s, i + 1, Len(s))
<1>1. Len(s) \in Nat /\ i \in 1..Len(s)
  OBVIOUS
<1>2. /\ a \in Seq(S) /\ Len(a) = i - 1
      /\ \A k \in 1..i - 1 : a[k] = s[k]
  <2>1. CASE i = 1
    BY <1>1, <2>1, SubSeqEmpty
  <2>2. CASE i # 1
    <3>1. /\ SubSeq(s, 1, i - 1) \in Seq(S)
          /\ Len(SubSeq(s, 1, i - 1)) = i - 1
          /\ \A k \in 1..i - 1 : SubSeq(s, 1, i - 1)[k] = s[1 + k - 1]
      BY <1>1, <2>2, SubSeqProperties
    <3> QED
      BY <1>1, <3>1
  <2> QED
    BY <2>1, <2>2
<1>3. /\ b \in Seq(S) /\ Len(b) = Len(s) - i
      /\ \A k \in 1..Len(s) - i : b[k] = s[i + k]
  <2>1. CASE i = Len(s)
    BY <1>1, <2>1, SubSeqEmpty
  <2>2. CASE i # Len(s)
    <3>1. /\ SubSeq(s, i + 1, Len(s)) \in Seq(S)
          /\ Len(SubSeq(s, i + 1, Len(s))) = Len(s) - (i + 1) + 1
          /\ \A k \in 1..Len(s) - (i + 1) + 1 :
               SubSeq(s, i + 1, Len(s))[k] = s[(i + 1) + k - 1]
      BY <1>1, <2>2, SubSeqProperties
    <3> QED
      BY <1>1, <3>1
  <2> QED
    BY <2>1, <2>2
<1> HIDE DEF a, b
<1>4. RemoveAt(s, i) = a \o b
  BY DEF RemoveAt, a, b
<1>5. /\ a \o b \in Seq(S) /\ Len(a \o b) = Len(s) - 1
      /\ \A k \in 1..Len(s) - 1 :
           (a \o b)[k] = IF k <= i - 1 THEN a[k] ELSE b[k - (i - 1)]
  BY <1>1, <1>2, <1>3, ConcatProperties
<1>6. ASSUME NEW k \in 1..Len(s) - 1
      PROVE  (a \o b)[k] = IF k < i THEN s[k] ELSE s[k + 1]
  <2>1. CASE k < i
    <3>1. k \in 1..i - 1
      BY <1>1, <2>1
    <3> QED
      BY <1>1, <1>2, <1>5, <2>1, <3>1
  <2>2. CASE ~(k < i)
    <3>1. /\ k - (i - 1) \in 1..Len(s) - i /\ i + (k - (i - 1)) = k + 1
          /\ ~(k <= i - 1)
      BY <1>1, <2>2
    <3> QED
      BY <1>3, <1>5, <2>2, <3>1
  <2> QED
    BY <2>1, <2>2
<1> QED
  BY <1>4, <1>5, <1>6

\* A listing that does not change stays what it is while a node is painted.
LEMMA ViewUndisturbed ==
  ASSUME UNCHANGED <<worldVars, filters, recent, missed>>
  PROVE  Undisturbed
BY DEF worldVars, Undisturbed, Text

\* Listing i is over: what became of the others.
Others(i, n) ==
  /\ Len(listings') = Len(listings) - 1
  /\ \A k \in 1..Len(listings) - 1 :
       LET o == listings[IF k < i THEN k ELSE k + 1] IN
       /\ o.node # n \/ k >= i => listings'[k] = o
       /\ o.node = n /\ k < i => listings'[k].node = n /\ listings'[k].late

LEMMA CompletesListings ==
  ASSUME TreeTyped, NEW i \in DOMAIN listings, NEW n, n = listings[i].node,
         NEW rows, Paint(n, rows, RemoveAt(listings, i), i)
  PROVE  /\ Others(i, n) /\ listings' \in Seq(Listing)
         /\ \A k \in DOMAIN listings' : Shape(listings'[k])
<1> DEFINE rest == RemoveAt(listings, i)
<1>1. /\ listings \in Seq(Listing) /\ i \in 1..Len(listings)
      /\ Len(listings) \in Nat
      /\ \A k \in 1..Len(listings) : Shape(listings[k])
  BY DEF TreeTyped
<1>2. /\ rest \in Seq(Listing) /\ Len(rest) = Len(listings) - 1
      /\ \A k \in 1..Len(listings) - 1 :
           rest[k] = listings[IF k < i THEN k ELSE k + 1]
  BY <1>1, Removed
<1>3. listings' = [k \in DOMAIN rest |->
                     IF rest[k].node = n /\ k < i
                     THEN [rest[k] EXCEPT !.late = TRUE] ELSE rest[k]]
  BY DEF Paint
<1> HIDE DEF rest
<1>4. DOMAIN rest = 1..Len(listings) - 1
  BY <1>2
<1>5. ASSUME NEW k \in 1..Len(listings) - 1
      PROVE  /\ rest[k] \in Listing /\ Shape(rest[k])
             /\ [rest[k] EXCEPT !.late = TRUE] \in Listing
             /\ Shape([rest[k] EXCEPT !.late = TRUE])
             /\ [rest[k] EXCEPT !.late = TRUE].node = rest[k].node
             /\ [rest[k] EXCEPT !.late = TRUE].late
  <2>1. rest[k] \in Listing /\ Shape(rest[k])
    BY <1>1, <1>2
  <2> QED
    BY <2>1 DEF Listing, Shape
<1>6. listings' \in [1..Len(listings) - 1 -> Listing]
  BY <1>3, <1>4, <1>5
<1>7. listings' \in Seq(Listing) /\ Len(listings') = Len(listings) - 1
  BY <1>1, <1>6
<1>8. DOMAIN listings' = 1..Len(listings) - 1
  BY <1>3, <1>4
<1>9. \A k \in DOMAIN listings' : Shape(listings'[k])
  BY <1>3, <1>4, <1>5, <1>8
<1>10. Others(i, n)
  BY <1>1, <1>2, <1>3, <1>4, <1>5, <1>7 DEF Others
<1> QED
  BY <1>7, <1>9, <1>10

LEMMA GoodPrime ==
  ASSUME NEW k, NEW x, listings'[k] = x
  PROVE  Good(listings[k])' <=> Good(x)'
BY DEF Good, Contained, Exists, TextRead, Text, Single

\* Of the other nodes nothing is lost when listing i is over.
LEMMA OthersPromised ==
  ASSUME TreeTyped, Undisturbed, NEW i \in DOMAIN listings,
         NEW n, n = listings[i].node, Others(i, n), listings' \in Seq(Listing),
         NEW m, m # n
  PROVE  /\ Promised(m) => Promised(m)'
         /\ Unspoilt(m) => Unspoilt(m)'
<1>1. /\ Len(listings) \in Nat /\ i \in 1..Len(listings)
      /\ DOMAIN listings = 1..Len(listings) /\ open \subseteq Workspaces
      /\ \A k \in 1..Len(listings) : listings[k] \in Listing /\ Shape(listings[k])
  BY DEF TreeTyped
<1>2. DOMAIN listings' = 1..Len(listings) - 1
  BY <1>1 DEF Others
<1>3. ASSUME NEW k \in DOMAIN listings', listings'[k].node = m,
             NEW o, o = IF k < i THEN k ELSE k + 1
      PROVE  /\ o \in DOMAIN listings /\ listings'[k] = listings[o]
             /\ Good(listings[o]) => Good(listings[k])'
  <2>1. o \in 1..Len(listings) /\ k \in 1..Len(listings) - 1
    BY <1>1, <1>2, <1>3
  <2>2. listings'[k] = listings[o]
    BY <1>3, <2>1 DEF Others
  <2>3. ASSUME NEW x, x = listings[o], Good(x) PROVE Good(x)'
    <3>1. x \in Listing /\ Shape(x)
      BY <1>1, <2>1, <2>3
    <3> QED
      BY <1>1, <2>3, <3>1, StaysGood
  <2>4. ASSUME NEW x, x = listings[o], Good(listings[o])
        PROVE  Good(listings[k])'
    <3>1. Good(x)'
      BY <2>3, <2>4
    <3>2. listings'[k] = x
      BY <2>2, <2>4
    <3> QED
      BY <3>1, <3>2, GoodPrime
  <2> QED
    BY <1>1, <2>1, <2>2, <2>4
<1>4. ASSUME Promised(m) PROVE Promised(m)'
  <2>1. PICK j \in DOMAIN listings :
          /\ listings[j].node = m /\ ~listings[j].late
          /\ \A k \in DOMAIN listings :
               k >= j /\ listings[k].node = m => Good(listings[k])
    BY <1>4 DEF Promised
  <2>2. PICK l \in 1..Len(listings) - 1 : j = IF l < i THEN l ELSE l + 1
    <3>1. j # i
      BY <2>1
    <3>2. CASE j < i
      BY <1>1, <3>2
    <3>3. CASE j > i
      <4>1. j - 1 \in 1..Len(listings) - 1 /\ ~(j - 1 < i) /\ j = (j - 1) + 1
        BY <1>1, <3>3
      <4> QED
        BY <4>1
    <3> QED
      BY <1>1, <3>1, <3>2, <3>3
  <2>3. listings'[l] = listings[j]
    BY <2>1, <2>2 DEF Others
  <2>4. ASSUME NEW k \in DOMAIN listings', k >= l, listings'[k].node = m
        PROVE  Good(listings[k])'
    <3> DEFINE o == IF k < i THEN k ELSE k + 1
    <3>1. o \in DOMAIN listings /\ listings'[k] = listings[o]
      BY <1>3, <2>4
    <3>2. o >= j
      BY <1>1, <1>2, <2>2, <2>4
    <3>3. Good(listings[o])
      BY <2>1, <2>4, <3>1, <3>2
    <3> QED
      BY <1>3, <2>4, <3>3
  <2>5. l \in DOMAIN listings' /\ listings'[l].node = m /\ ~listings'[l].late
    BY <1>2, <2>1, <2>3
  <2> QED
    BY <2>4, <2>5 DEF Promised
<1>5. ASSUME Unspoilt(m), NEW k \in DOMAIN listings', listings'[k].node = m
      PROVE  listings'[k].late \/ Good(listings[k])'
  <2> DEFINE o == IF k < i THEN k ELSE k + 1
  <2>1. /\ o \in DOMAIN listings /\ listings'[k] = listings[o]
        /\ Good(listings[o]) => Good(listings[k])'
    BY <1>3, <1>5
  <2>2. listings[o].late \/ Good(listings[o])
    BY <1>5, <2>1 DEF Unspoilt
  <2> QED
    BY <2>1, <2>2
<1>6. Unspoilt(m) => Unspoilt(m)'
  BY <1>5 DEF Unspoilt
<1> QED
  BY <1>4, <1>6

\* Of the node itself nothing is lost, unless the listing was its promise.
LEMMA OwnPromised ==
  ASSUME TreeTyped, Undisturbed, NEW i \in DOMAIN listings,
         NEW n, n = listings[i].node, Others(i, n), listings' \in Seq(Listing),
         owed \subseteq owed'
  PROVE  /\ Settling(n) \/ Unspoilt(n) => Settling(n)' \/ Unspoilt(n)'
         /\ ~listings[i].late /\ ~Good(listings[i]) =>
              ~Unspoilt(n) /\ (Settling(n) => Settling(n)')
<1>1. /\ Len(listings) \in Nat /\ i \in 1..Len(listings)
      /\ DOMAIN listings = 1..Len(listings) /\ open \subseteq Workspaces
      /\ \A k \in 1..Len(listings) : listings[k] \in Listing /\ Shape(listings[k])
  BY DEF TreeTyped
<1>2. DOMAIN listings' = 1..Len(listings) - 1
  BY <1>1 DEF Others
<1>3. ASSUME NEW k \in DOMAIN listings', k >= i
      PROVE  /\ k + 1 \in DOMAIN listings /\ listings'[k] = listings[k + 1]
             /\ Good(listings[k + 1]) => Good(listings[k])'
  <2>1. /\ k + 1 \in 1..Len(listings) /\ k \in 1..Len(listings) - 1
        /\ ~(k < i)
    BY <1>1, <1>2, <1>3
  <2>2. listings'[k] = listings[k + 1]
    BY <1>3, <2>1 DEF Others
  <2>3. ASSUME NEW x, x = listings[k + 1], Good(x) PROVE Good(x)'
    <3>1. x \in Listing /\ Shape(x)
      BY <1>1, <2>1, <2>3
    <3> QED
      BY <1>1, <2>3, <3>1, StaysGood
  <2>4. ASSUME NEW x, x = listings[k + 1], Good(listings[k + 1])
        PROVE  Good(listings[k])'
    <3>1. Good(x)'
      BY <2>3, <2>4
    <3>2. listings'[k] = x
      BY <2>2, <2>4
    <3> QED
      BY <3>1, <3>2, GoodPrime
  <2> QED
    BY <1>1, <2>1, <2>2, <2>4
<1>4. ASSUME NEW k \in DOMAIN listings', k < i, listings'[k].node = n
      PROVE  listings'[k].late
  BY <1>1, <1>2, <1>4 DEF Others
<1>5. ASSUME NEW j \in DOMAIN listings, j > i,
             listings[j].node = n, ~listings[j].late,
             \A k \in DOMAIN listings :
               k >= j /\ listings[k].node = n => Good(listings[k])
      PROVE  Promised(n)'
  <2> DEFINE l == j - 1
  <2>1. l \in DOMAIN listings' /\ l >= i /\ l + 1 = j
    BY <1>1, <1>2, <1>5
  <2> HIDE DEF l
  <2>2. listings'[l].node = n /\ ~listings'[l].late
    BY <1>3, <1>5, <2>1
  <2>3. ASSUME NEW k \in DOMAIN listings', k >= l, listings'[k].node = n
        PROVE  Good(listings[k])'
    <3>1. k >= i /\ k + 1 >= j
      BY <1>1, <1>2, <2>1, <2>3
    <3> QED
      BY <1>3, <1>5, <2>3, <3>1
  <2> QED
    BY <2>1, <2>2, <2>3 DEF Promised
<1>6. ASSUME NEW j \in DOMAIN listings, j <= i,
             \A k \in DOMAIN listings :
               k >= j /\ listings[k].node = n => Good(listings[k])
      PROVE  Unspoilt(n)' /\ Good(listings[i])
  <2>1. ASSUME NEW k \in DOMAIN listings', listings'[k].node = n
        PROVE  listings'[k].late \/ Good(listings[k])'
    <3>1. CASE k < i
      BY <1>4, <2>1, <3>1
    <3>2. CASE k >= i
      <4>1. k + 1 >= j
        BY <1>1, <1>2, <1>6, <3>2
      <4> QED
        BY <1>3, <1>6, <2>1, <3>2, <4>1
    <3> QED
      BY <1>1, <1>2, <3>1, <3>2
  <2>2. i >= j
    BY <1>1, <1>6
  <2> QED
    BY <1>6, <2>1, <2>2 DEF Unspoilt
<1>7. Unspoilt(n) => Unspoilt(n)'
  <2>1. ASSUME Unspoilt(n), NEW k \in DOMAIN listings', listings'[k].node = n
        PROVE  listings'[k].late \/ Good(listings[k])'
    <3>1. CASE k < i
      BY <1>4, <2>1, <3>1
    <3>2. CASE k >= i
      BY <1>3, <2>1, <3>2 DEF Unspoilt
    <3> QED
      BY <1>1, <1>2, <3>1, <3>2
  <2> QED
    BY <2>1 DEF Unspoilt
<1>8. Promised(n) => Promised(n)' \/ (Unspoilt(n)' /\ Good(listings[i]))
  <2>1. ASSUME NEW j \in DOMAIN listings PROVE j > i \/ j <= i
    BY <1>1
  <2> QED
    BY <1>5, <1>6, <2>1 DEF Promised
<1>9. n \in owed => Settling(n)'
  BY DEF Settling
<1>10. Settling(n) \/ Unspoilt(n) => Settling(n)' \/ Unspoilt(n)'
  BY <1>7, <1>8, <1>9 DEF Settling
<1>11. ~listings[i].late /\ ~Good(listings[i]) =>
         ~Unspoilt(n) /\ (Settling(n) => Settling(n)')
  BY <1>8, <1>9 DEF Settling, Unspoilt
<1> QED
  BY <1>10, <1>11

\* A listing paints its node and is over.
LEMMA CompletesStep ==
  ASSUME TreeTyped, UNCHANGED <<worldVars, filters, recent, described, missed>>,
         NEW i \in DOMAIN listings, NEW n, n = listings[i].node, NEW rows,
         Completes(i, rows), rows.nodes \subseteq Nodes,
         [rows EXCEPT !.late = TRUE].nodes = rows.nodes,
         [rows EXCEPT !.late = TRUE].late,
         n \in Files => \E t : rows = Painted(n, t),
         Good(listings[i]) => rows = Current(n) \/ n \in missed,
         n \in Files /\ Contained(n) /\ editor[n] # None => rows = Current(n)
  PROVE  /\ TreeTyped'
         /\ \A C \in SUBSET Nodes : Clean(C) => \E D \in SUBSET Nodes : Clean(D)'
<1> DEFINE edited == n \in Files /\ Contained(n) /\ editor[n] # None
           late == listings[i].late /\ ~edited
           paint == IF late THEN [rows EXCEPT !.late = TRUE] ELSE rows
<1>1. Undisturbed
  BY ViewUndisturbed
<1>2. n \in Nodes /\ open \subseteq Workspaces
  <2>1. listings[i] \in Listing
    BY DEF TreeTyped
  <2> QED
    BY <2>1 DEF TreeTyped, Listing
<1>3. Paint(n, paint, RemoveAt(listings, i), i) /\ owed' = owed \cup rows.nodes
  BY DEF Completes
<1>4. /\ Others(i, n) /\ listings' \in Seq(Listing)
      /\ \A k \in DOMAIN listings' : Shape(listings'[k])
  BY <1>3, CompletesListings
<1>5. tree' = [tree EXCEPT ![n] = paint] /\ paint.nodes = rows.nodes
  BY <1>3 DEF Paint
<1> HIDE DEF paint
<1>6. /\ DOMAIN tree' = Nodes /\ tree'[n] = paint
      /\ \A m \in Nodes \ {n} : tree'[m] = tree[m]
      /\ tree' = [m \in Nodes |-> tree'[m]]
  BY <1>2, <1>5 DEF TreeTyped
<1>7. TreeTyped'
  BY <1>2, <1>3, <1>4, <1>5, <1>6 DEF TreeTyped, worldVars, Active
<1>8. Repaints(n)
  BY <1>1, <1>3, <1>4, <1>6, OthersPromised DEF Repaints, Settling
<1>9. /\ Settling(n) \/ Unspoilt(n) => Settling(n)' \/ Unspoilt(n)'
      /\ ~listings[i].late /\ ~Good(listings[i]) =>
           ~Unspoilt(n) /\ (Settling(n) => Settling(n)')
  BY <1>1, <1>3, <1>4, OwnPromised
<1>10. ASSUME late \/ edited \/ Good(listings[i]) PROVE Faithful(n)'
  <2>1. CASE late
    <3>1. tree'[n].late
      BY <1>6, <2>1 DEF paint
    <3> QED
      BY <3>1 DEF Faithful
  <2>2. CASE ~late
    <3>1. tree'[n] = Current(n) \/ n \in missed'
      BY <1>1, <1>6, <1>10, <2>2 DEF paint, Undisturbed
    <3>2. Current(n)' = Current(n)
      BY <1>1, <1>2, SameCurrent
    <3> QED
      BY <3>1, <3>2 DEF Faithful
  <2> QED
    BY <2>1, <2>2
<1>11. ASSUME n \in Files PROVE RowsOK(n)'
  <2>1. PICK t : rows = Painted(n, t)
    BY <1>11
  <2>2. /\ tree'[n].source = t /\ tree'[n].rows = rows.rows
        /\ tree'[n].message = rows.message
    <3>1. /\ rows.source = t /\ [rows EXCEPT !.late = TRUE].source = t
          /\ [rows EXCEPT !.late = TRUE].rows = rows.rows
          /\ [rows EXCEPT !.late = TRUE].message = rows.message
      BY <2>1, PaintedShape
    <3> QED
      BY <1>6, <3>1 DEF paint
  <2>3. Painted(n, t)' = Painted(n, t)
    BY <1>1, SamePainted DEF Undisturbed
  <2>4. ASSUME NEW x, x = tree'[n].source
        PROVE  Painted(n, tree[n].source)' = rows
    BY <2>1, <2>2, <2>3, <2>4
  <2> QED
    BY <2>2, <2>4 DEF RowsOK
<1>12. ASSUME NEW C \in SUBSET Nodes, Clean(C)
       PROVE  \E D \in SUBSET Nodes : Clean(D)'
  <2>1. CASE late \/ edited \/ Good(listings[i])
    <3>1. tree'[n].nodes \subseteq owed'
      BY <1>3, <1>5, <1>6
    <3> QED
      BY <1>2, <1>8, <1>9, <1>10, <1>11, <1>12, <2>1, <3>1, CleanAfterPaint
  <2>2. CASE ~late /\ ~edited /\ ~Good(listings[i])
    <3>1. ~listings[i].late
      BY <2>2
    <3>2. ~Unspoilt(n) /\ (Settling(n) => Settling(n)')
      BY <1>9, <2>2, <3>1
    <3>3. n \in C => Settling(n)
      BY <1>12, <3>2 DEF Clean
    <3> HIDE DEF late, edited
    <3> QED
      BY <1>2, <1>8, <1>12, <3>2, <3>3, CleanAfterStale
  <2> QED
    BY <2>1, <2>2
<1> QED
  BY <1>7, <1>12

\* A listing goes on to its next await.
LEMMA GoesOnStep ==
  ASSUME TreeTyped, UNCHANGED <<worldVars, filters, recent, described, missed>>,
         NEW i \in DOMAIN listings, NEW y \in Listing, Shape(y),
         y.node = listings[i].node, y.late = listings[i].late,
         Good(listings[i]) => Good(y),
         listings' \in [DOMAIN listings -> Listing],
         \A k \in DOMAIN listings :
           listings'[k] = IF k = i THEN y ELSE listings[k],
         UNCHANGED <<owed, tree>>
  PROVE  /\ TreeTyped'
         /\ \A C \in SUBSET Nodes : Clean(C) => Clean(C)'
<1>1. Undisturbed
  BY ViewUndisturbed
<1>2. /\ Len(listings) \in Nat /\ DOMAIN listings = 1..Len(listings)
      /\ open \subseteq Workspaces
      /\ \A k \in DOMAIN listings : listings[k] \in Listing /\ Shape(listings[k])
  BY DEF TreeTyped
<1>3. listings' \in Seq(Listing) /\ DOMAIN listings' = DOMAIN listings
  BY <1>2
<1>4. \A k \in DOMAIN listings' : Shape(listings'[k])
  BY <1>2, <1>3
<1>5. TreeTyped'
  BY <1>3, <1>4 DEF TreeTyped, worldVars, Active
<1>6. ASSUME NEW k \in DOMAIN listings
      PROVE  /\ listings'[k].node = listings[k].node
             /\ listings'[k].late = listings[k].late
             /\ Good(listings[k]) => Good(listings[k])'
  <2>1. ASSUME NEW x, x = listings'[k], Good(listings[k])
        PROVE  Good(listings[k])'
    <3>1. x \in Listing /\ Shape(x) /\ Good(x)
      BY <1>2, <2>1
    <3>2. Good(x)'
      BY <1>1, <1>2, <3>1, StaysGood
    <3> QED
      BY <2>1, <3>2, GoodPrime
  <2> QED
    BY <2>1
<1>7. ASSUME NEW m \in Nodes
      PROVE  (Settling(m) => Settling(m)') /\ (Unspoilt(m) => Unspoilt(m)')
  BY <1>3, <1>6 DEF Settling, Promised, Unspoilt
<1> QED
  BY <1>1, <1>5, <1>7, CleanKept

----------------------------------------------------------------------------
(* The steps of a listing.                                                 *)

LEMMA StatFinds ==
  ASSUME TreeTyped, NEW x \in Listing, Shape(x), x.step = "stat"
  PROVE  /\ x.node \notin Files /\ x.node \notin Dirs
         /\ Good(x) /\ ~Exists(x.place) => Current(x.node) = Says("init")
<1>1. x.node = Root \/ x.node \in Workspaces
  BY DEF Shape, Listing, Nodes
<1>2. x.node \notin Files /\ x.node \notin Dirs
  BY <1>1, TreeAssumption
<1>3. CASE x.node = Root
  <2>1. Good(x) => Cardinality(open) = 1 /\ x.place = Single /\ open # {}
    BY <1>3, OneFolder DEF TreeTyped, Good
  <2>2. Cardinality(open) = 1 => ~(Cardinality(open) > 1)
    OBVIOUS
  <2>3. open # {} /\ ~(Cardinality(open) > 1) =>
          Current(Root) = IF Exists(Single) THEN Holds(Entries(Single))
                          ELSE Says("init")
    BY DEF Current
  <2> QED
    BY <1>2, <1>3, <2>1, <2>2, <2>3
<1>4. CASE x.node # Root
  <2>1. x.node \in Workspaces /\ x.place = x.node
    BY <1>1, <1>4 DEF Shape
  <2> QED
    BY <1>2, <1>4, <2>1 DEF Good, Current
<1> QED
  BY <1>3, <1>4

LEMMA ListFinds ==
  ASSUME TreeTyped, NEW x \in Listing, Shape(x), x.step = "list"
  PROVE  /\ x.node \notin Files
         /\ Good(x) =>
              Current(x.node) = Holds(Entries(x.place)) \/ x.node \in missed
<1>1. x.node = Root \/ x.node \in Workspaces \/ x.node \in Dirs
  BY DEF Shape, Listing, Nodes
<1>2. x.node \notin Files
  BY <1>1, TreeAssumption
<1>3. CASE x.node = Root
  <2>1. Good(x) =>
          /\ Cardinality(open) = 1 /\ x.place = Single /\ open # {}
          /\ Exists(Single) \/ Root \in missed
    BY <1>3, OneFolder DEF TreeTyped, Good
  <2>2. Cardinality(open) = 1 => ~(Cardinality(open) > 1)
    OBVIOUS
  <2>3. open # {} /\ ~(Cardinality(open) > 1) =>
          Current(Root) = IF Exists(Single) THEN Holds(Entries(Single))
                          ELSE Says("init")
    BY DEF Current
  <2> QED
    BY <1>2, <1>3, <2>1, <2>2, <2>3
<1>4. CASE x.node # Root /\ x.node \in Workspaces
  BY <1>2, <1>4 DEF Good, Current, Shape
<1>5. CASE x.node # Root /\ x.node \in Dirs
  <2>1. x.node \notin Workspaces
    BY <1>5, TreeAssumption
  <2> QED
    BY <1>2, <1>5, <2>1 DEF Good, Current, Shape
<1> QED
  BY <1>1, <1>3, <1>4, <1>5

LEMMA ReadFinds ==
  ASSUME TreeTyped, NEW x \in Listing, Shape(x), x.step \in {"read", "bytes"}
  PROVE  /\ x.node \in Files /\ x.place = x.node
         /\ Good(x) => Contained(x.node)
         /\ x.step = "bytes" =>
              /\ Good(x) =>
                   \/ Current(x.node) = Painted(x.node, TextRead(x.node, x.bytes))
                   \/ x.node \in missed
              /\ Contained(x.node) /\ editor[x.node] # None =>
                   Current(x.node) = Painted(x.node, TextRead(x.node, x.bytes))
<1>1. x.node \in Files /\ x.place = x.node
  BY DEF Shape, Listing, Nodes
<1>2. x.node # Root /\ x.node \notin Workspaces /\ x.node \notin Dirs
  BY <1>1, TreeAssumption
<1>3. Current(x.node) = IF ~Contained(x.node) THEN Nothing
                        ELSE Painted(x.node, Text(x.node))
  BY <1>2 DEF Current, Text
<1>4. Good(x) => Contained(x.node)
  BY <1>2 DEF Good
<1>5. ASSUME x.step = "bytes", Good(x)
      PROVE  \/ Current(x.node) = Painted(x.node, TextRead(x.node, x.bytes))
             \/ x.node \in missed
  BY <1>2, <1>3, <1>4, <1>5 DEF Good
<1>6. ASSUME Contained(x.node), editor[x.node] # None
      PROVE  Current(x.node) = Painted(x.node, TextRead(x.node, x.bytes))
  <2>1. TextRead(x.node, x.bytes) = Text(x.node)
    BY <1>6 DEF TextRead, Text
  <2> QED
    BY <1>3, <1>6, <2>1
<1> QED
  BY <1>1, <1>4, <1>5, <1>6

LEMMA ListStep ==
  ASSUME TreeTyped, List
  PROVE  /\ TreeTyped'
         /\ \A C \in SUBSET Nodes : Clean(C) => \E D \in SUBSET Nodes : Clean(D)'
<1>1. UNCHANGED <<worldVars, filters, recent, described, missed>>
  BY DEF List
<1>2. PICK i \in DOMAIN listings :
        StatReturns(i) \/ ListReturns(i) \/ ReadReturns(i) \/ ReadContinues(i)
  BY DEF List
<1>3. PICK x : x = listings[i]
  OBVIOUS
<1>4. PICK n : n = x.node
  OBVIOUS
<1>5. x \in Listing /\ Shape(x) /\ n = listings[i].node
  BY <1>3, <1>4 DEF TreeTyped
<1>6. \A k \in DOMAIN listings : listings[k] \in Listing
  BY DEF TreeTyped
<1>7. CASE StatReturns(i) /\ Exists(x.place)
  <2> DEFINE y == [x EXCEPT !.step = "list"]
  <2>1. x.step = "stat" /\ UNCHANGED <<owed, tree>>
    BY <1>3, <1>7 DEF StatReturns
  <2>2. y \in Listing /\ y.node = x.node /\ y.late = x.late
        /\ y.place = x.place /\ y.step = "list"
    BY <1>5 DEF Listing, Steps
  <2>3. \A k \in DOMAIN listings :
          listings'[k] = IF k = i THEN y ELSE listings[k]
    BY <1>3, <1>7 DEF StatReturns
  <2>4. DOMAIN listings' = DOMAIN listings
        /\ listings' = [k \in DOMAIN listings |-> listings'[k]]
    BY <1>3, <1>7 DEF StatReturns
  <2> HIDE DEF y
  <2>5. listings' \in [DOMAIN listings -> Listing]
    BY <1>6, <2>2, <2>3, <2>4
  <2>6. x.node \notin Files /\ x.node \notin Dirs
    BY <1>5, <2>1, StatFinds
  <2>7. Shape(y)
    BY <1>5, <2>2, <2>6 DEF Shape
  <2>8. Good(x) => Good(y)
    <3>1. x.node = Root \/ x.node \in Workspaces
      BY <1>5, <2>6 DEF Listing, Nodes
    <3> QED
      BY <1>5, <1>7, <2>2, <3>1 DEF Good, Shape
  <2> QED
    BY <1>1, <1>3, <2>1, <2>2, <2>3, <2>5, <2>7, <2>8, GoesOnStep
<1>8. CASE StatReturns(i) /\ ~Exists(x.place)
  <2>1. x.step = "stat" /\ Completes(i, Says("init"))
    BY <1>3, <1>8 DEF StatReturns
  <2>2. n \notin Files /\ (Good(x) => Says("init") = Current(n))
    BY <1>4, <1>5, <1>8, <2>1, StatFinds
  <2>3. PICK rows : rows = Says("init")
    OBVIOUS
  <2>4. /\ rows.nodes \subseteq Nodes /\ [rows EXCEPT !.late = TRUE].nodes = rows.nodes
        /\ [rows EXCEPT !.late = TRUE].late
    BY <2>3 DEF Says, Nothing
  <2> QED
    BY <1>1, <1>3, <1>5, <2>1, <2>2, <2>3, <2>4, CompletesStep
<1>9. CASE ListReturns(i)
  <2>1. PICK rows : rows = Holds(Entries(x.place))
    OBVIOUS
  <2>2. x.step = "list" /\ Completes(i, rows)
    BY <1>3, <1>9, <2>1 DEF ListReturns
  <2>3. n \notin Files /\ (Good(x) => rows = Current(n) \/ n \in missed)
    BY <1>4, <1>5, <2>1, <2>2, ListFinds
  <2>4. PICK ns : ns = Entries(x.place)
    OBVIOUS
  <2>5. rows = Holds(ns) /\ ns \subseteq Nodes
    BY <2>1, <2>4, EntriesTyped
  <2>6. /\ rows.nodes \subseteq Nodes /\ [rows EXCEPT !.late = TRUE].nodes = rows.nodes
        /\ [rows EXCEPT !.late = TRUE].late
    BY <2>5 DEF Holds, Nothing
  <2> QED
    BY <1>1, <1>3, <1>5, <2>2, <2>3, <2>6, CompletesStep
<1>10. CASE ReadReturns(i)
  <2> DEFINE y == [x EXCEPT !.step = "bytes", !.bytes = disk[x.place]]
  <2>1. x.step = "read" /\ UNCHANGED <<owed, tree>>
    BY <1>3, <1>10 DEF ReadReturns
  <2>2. x.node \in Files /\ x.place = x.node /\ (Good(x) => Contained(x.node))
    BY <1>5, <2>1, ReadFinds
  <2>3. disk[x.place] \in Bytes
    BY <2>2 DEF TreeTyped
  <2>4. y \in Listing /\ y.node = x.node /\ y.late = x.late
        /\ y.place = x.place /\ y.step = "bytes" /\ y.bytes = disk[x.node]
    BY <1>5, <2>2, <2>3 DEF Listing, Steps
  <2>5. \A k \in DOMAIN listings :
          listings'[k] = IF k = i THEN y ELSE listings[k]
    BY <1>3, <1>10 DEF ReadReturns
  <2>6. DOMAIN listings' = DOMAIN listings
        /\ listings' = [k \in DOMAIN listings |-> listings'[k]]
    BY <1>3, <1>10 DEF ReadReturns
  <2> HIDE DEF y
  <2>7. listings' \in [DOMAIN listings -> Listing]
    BY <1>6, <2>4, <2>5, <2>6
  <2>8. x.node # Root /\ x.node \notin Workspaces /\ x.node \notin Dirs
    BY <2>2, TreeAssumption
  <2>9. Shape(y)
    BY <2>2, <2>4, <2>8 DEF Shape
  <2>10. Good(x) => Good(y)
    BY <2>2, <2>4, <2>8 DEF Good, TextRead, Text
  <2>11. PICK z : z = y
    OBVIOUS
  <2> QED
    BY <1>1, <1>3, <2>1, <2>4, <2>5, <2>7, <2>9, <2>10, <2>11, GoesOnStep
<1>11. CASE ReadContinues(i)
  <2>1. PICK t : t = TextRead(x.place, x.bytes)
    OBVIOUS
  <2>2. PICK rows : rows = Painted(n, t)
    OBVIOUS
  <2>3. x.step = "bytes"
    BY <1>3, <1>11 DEF ReadContinues
  <2>4. /\ n \in Files /\ x.place = n
        /\ Good(x) => rows = Current(n) \/ n \in missed
        /\ Contained(n) /\ editor[n] # None => rows = Current(n)
    BY <1>4, <1>5, <2>1, <2>2, <2>3, ReadFinds
  <2>5. Completes(i, rows)
    BY <1>3, <1>11, <2>1, <2>2, <2>4 DEF ReadContinues
  <2>6. /\ rows.nodes \subseteq Nodes /\ [rows EXCEPT !.late = TRUE].nodes = rows.nodes
        /\ [rows EXCEPT !.late = TRUE].late
    BY <2>2, PaintedShape
  <2> QED
    BY <1>1, <1>3, <1>5, <2>2, <2>4, <2>5, <2>6, CompletesStep
<1> QED
  BY <1>2, <1>7, <1>8, <1>9, <1>10, <1>11

----------------------------------------------------------------------------
(* What the editor asks for.                                               *)

\* An answer at once overtakes what is being listed.
LEMMA AnswersStep ==
  ASSUME TreeTyped, UNCHANGED <<worldVars, filters, recent, described, missed>>,
         NEW n \in Nodes, NEW rows, Answers(n, rows), rows = Current(n),
         rows.nodes \subseteq Nodes, n \in Files => \E t : rows = Painted(n, t)
  PROVE  /\ TreeTyped'
         /\ \A C \in SUBSET Nodes : Clean(C) => \E D \in SUBSET Nodes : Clean(D)'
<1>1. Undisturbed
  BY ViewUndisturbed
<1>2. /\ Len(listings) \in Nat /\ DOMAIN listings = 1..Len(listings)
      /\ open \subseteq Workspaces
      /\ \A k \in DOMAIN listings : listings[k] \in Listing /\ Shape(listings[k])
  BY DEF TreeTyped
<1>3. /\ tree' = [tree EXCEPT ![n] = rows]
      /\ owed' = (owed \ {n}) \cup rows.nodes
      /\ listings' = [i \in DOMAIN listings |->
                        IF listings[i].node = n /\ i < Len(listings) + 1
                        THEN [listings[i] EXCEPT !.late = TRUE]
                        ELSE listings[i]]
  BY DEF Answers, Paint
<1>4. ASSUME NEW x \in Listing, Shape(x)
      PROVE  /\ [x EXCEPT !.late = TRUE] \in Listing
             /\ Shape([x EXCEPT !.late = TRUE])
             /\ [x EXCEPT !.late = TRUE].node = x.node
             /\ [x EXCEPT !.late = TRUE].late = TRUE
  BY <1>4 DEF Listing, Shape
<1>5. DOMAIN listings' = DOMAIN listings
  BY <1>3
<1>6. ASSUME NEW k \in DOMAIN listings
      PROVE  /\ listings'[k] \in Listing /\ Shape(listings'[k])
             /\ listings'[k].node = listings[k].node
             /\ listings[k].node = n => listings'[k].late = TRUE
             /\ listings[k].node # n => listings'[k] = listings[k]
  <2>1. k < Len(listings) + 1
    BY <1>2
  <2>2. listings'[k] = IF listings[k].node = n
                       THEN [listings[k] EXCEPT !.late = TRUE] ELSE listings[k]
    BY <1>3, <2>1
  <2>3. PICK x : x = listings[k]
    OBVIOUS
  <2>4. x \in Listing /\ Shape(x)
    BY <1>2, <2>3
  <2>5. PICK y : y = [x EXCEPT !.late = TRUE]
    OBVIOUS
  <2>6. y \in Listing /\ Shape(y) /\ y.node = x.node /\ y.late = TRUE
    BY <1>4, <2>4, <2>5
  <2>7. listings'[k] = IF x.node = n THEN y ELSE x
    BY <2>2, <2>3, <2>5
  <2>8. CASE x.node = n
    <3>1. listings'[k] = y
      BY <2>7, <2>8
    <3>2. y.node = n
      BY <2>6, <2>8
    <3> QED
      BY <2>3, <2>6, <2>8, <3>1, <3>2
  <2>9. CASE x.node # n
    <3>1. listings'[k] = x
      BY <2>7, <2>9
    <3> QED
      BY <2>3, <2>4, <2>9, <3>1
  <2> QED
    BY <2>8, <2>9
<1>7. listings' \in Seq(Listing)
  <2>1. listings' = [k \in DOMAIN listings |-> listings'[k]]
    BY <1>3
  <2>2. listings' \in [1..Len(listings) -> Listing]
    BY <1>2, <1>6, <2>1
  <2> QED
    BY <1>2, <2>2
<1>8. /\ DOMAIN tree' = Nodes /\ tree'[n] = rows
      /\ \A m \in Nodes \ {n} : tree'[m] = tree[m]
      /\ tree' = [m \in Nodes |-> tree'[m]]
  BY <1>3 DEF TreeTyped
<1>9. TreeTyped'
  BY <1>3, <1>5, <1>6, <1>7, <1>8 DEF TreeTyped, worldVars, Active
<1>10. ASSUME NEW k \in DOMAIN listings, listings[k].node # n, Good(listings[k])
       PROVE  Good(listings[k])'
  <2>1. ASSUME NEW x, x = listings'[k] PROVE Good(listings[k])'
    <3>1. x \in Listing /\ Shape(x) /\ Good(x)
      BY <1>2, <1>6, <1>10, <2>1
    <3>2. Good(x)'
      BY <1>1, <1>2, <3>1, StaysGood
    <3> QED
      BY <2>1, <3>2, GoodPrime
  <2> QED
    BY <2>1
<1>11. ASSUME NEW m \in Nodes \ {n}
       PROVE  (Settling(m) => Settling(m)') /\ (Unspoilt(m) => Unspoilt(m)')
  <2>1. ASSUME Promised(m) PROVE Promised(m)'
    <3>1. PICK j \in DOMAIN listings :
            /\ listings[j].node = m /\ ~listings[j].late
            /\ \A k \in DOMAIN listings :
                 k >= j /\ listings[k].node = m => Good(listings[k])
      BY <2>1 DEF Promised
    <3>2. ASSUME NEW k \in DOMAIN listings', k >= j, listings'[k].node = m
          PROVE  Good(listings[k])'
      BY <1>5, <1>6, <1>10, <3>1, <3>2
    <3>3. j \in DOMAIN listings' /\ listings'[j].node = m /\ ~listings'[j].late
      BY <1>5, <1>6, <3>1
    <3> QED
      BY <3>2, <3>3 DEF Promised
  <2>2. Unspoilt(m) => Unspoilt(m)'
    BY <1>5, <1>6, <1>10 DEF Unspoilt
  <2> QED
    BY <1>3, <2>1, <2>2 DEF Settling
<1>12. Repaints(n)
  BY <1>1, <1>8, <1>11 DEF Repaints
<1>13. Unspoilt(n)'
  BY <1>5, <1>6 DEF Unspoilt
<1>14. Faithful(n)'
  BY <1>1, <1>2, <1>8, SameCurrent DEF Faithful
<1>15. ASSUME n \in Files PROVE RowsOK(n)'
  <2>1. PICK t : rows = Painted(n, t)
    BY <1>15
  <2>2. tree'[n].source = t
    BY <1>8, <2>1, PaintedShape
  <2>3. Painted(n, t)' = Painted(n, t)
    BY <1>1, SamePainted DEF Undisturbed
  <2>4. ASSUME NEW x, x = tree'[n].source
        PROVE  Painted(n, tree[n].source)' = rows
    BY <2>1, <2>2, <2>3, <2>4
  <2> QED
    BY <1>8, <2>4 DEF RowsOK
<1>16. tree'[n].nodes \subseteq owed'
  BY <1>3, <1>8
<1>17. ASSUME NEW C \in SUBSET Nodes, Clean(C)
       PROVE  \E D \in SUBSET Nodes : Clean(D)'
  BY <1>12, <1>13, <1>14, <1>15, <1>16, <1>17, CleanAfterPaint
<1> QED
  BY <1>9, <1>17

\* A call that awaits promises its node.
LEMMA AwaitsStep ==
  ASSUME TreeTyped, UNCHANGED <<worldVars, filters, recent, described, missed,
                     tree>>,
         NEW n \in Nodes, NEW y \in Listing, Shape(y), y.node = n, ~y.late,
         Good(y), listings' = Append(listings, y), owed' = owed \ {n}
  PROVE  /\ TreeTyped'
         /\ \A C \in SUBSET Nodes : Clean(C) => Clean(C)'
<1>1. Undisturbed
  BY ViewUndisturbed
<1> DEFINE last == Len(listings) + 1
<1>2. /\ Len(listings) \in Nat /\ DOMAIN listings = 1..Len(listings)
      /\ open \subseteq Workspaces
      /\ \A k \in DOMAIN listings : listings[k] \in Listing /\ Shape(listings[k])
  BY DEF TreeTyped
<1>3. /\ listings' \in Seq(Listing) /\ Len(listings') = last
      /\ \A k \in 1..Len(listings) : listings'[k] = listings[k]
      /\ listings'[last] = y
  BY AppendProperties DEF TreeTyped
<1>4. DOMAIN listings' = 1..Len(listings) \cup {last}
  BY <1>2, <1>3
<1>5. \A k \in DOMAIN listings' : Shape(listings'[k])
  BY <1>2, <1>3, <1>4
<1>6. TreeTyped'
  BY <1>3, <1>5 DEF TreeTyped, worldVars, Active
<1>7. ASSUME NEW k \in DOMAIN listings, Good(listings[k])
      PROVE  Good(listings[k])'
  <2>1. ASSUME NEW x, x = listings'[k] PROVE Good(listings[k])'
    <3>1. x \in Listing /\ Shape(x) /\ Good(x)
      BY <1>2, <1>3, <1>7, <2>1
    <3>2. Good(x)'
      BY <1>1, <1>2, <3>1, StaysGood
    <3> QED
      BY <2>1, <3>2, GoodPrime
  <2> QED
    BY <2>1
<1>8. ASSUME NEW k, k = last PROVE Good(listings[k])'
  <2>1. Good(y)'
    BY <1>1, <1>2, StaysGood
  <2> QED
    BY <1>3, <1>8, <2>1, GoodPrime
<1> HIDE DEF last
<1>9. Promised(n)'
  <2>1. PICK l : l = last
    OBVIOUS
  <2>2. l \in DOMAIN listings' /\ listings'[l].node = n /\ ~listings'[l].late
    BY <1>3, <1>4, <2>1
  <2>3. ASSUME NEW k \in DOMAIN listings', k >= l PROVE Good(listings[k])'
    BY <1>2, <1>4, <1>8, <2>1, <2>3 DEF last
  <2> QED
    BY <2>2, <2>3 DEF Promised
<1>10. ASSUME NEW m \in Nodes \ {n}, Promised(m) PROVE Promised(m)'
  <2>1. PICK j \in DOMAIN listings :
          /\ listings[j].node = m /\ ~listings[j].late
          /\ \A k \in DOMAIN listings :
               k >= j /\ listings[k].node = m => Good(listings[k])
    BY <1>10 DEF Promised
  <2>2. ASSUME NEW k \in DOMAIN listings', k >= j, listings'[k].node = m
        PROVE  Good(listings[k])'
    <3>1. k \in DOMAIN listings
      BY <1>2, <1>3, <1>4, <2>2
    <3> QED
      BY <1>2, <1>3, <1>7, <2>1, <2>2, <3>1
  <2>3. /\ j \in DOMAIN listings' /\ listings'[j].node = m
        /\ ~listings'[j].late
    BY <1>2, <1>3, <1>4, <2>1
  <2> QED
    BY <2>2, <2>3 DEF Promised
<1>11. ASSUME NEW m \in Nodes, Unspoilt(m) PROVE Unspoilt(m)'
  <2>1. ASSUME NEW k \in DOMAIN listings', listings'[k].node = m
        PROVE  listings'[k].late \/ Good(listings[k])'
    <3>1. CASE k \in DOMAIN listings
      BY <1>2, <1>3, <1>7, <1>11, <2>1, <3>1 DEF Unspoilt
    <3>2. CASE k = last
      BY <1>8, <3>2
    <3> QED
      BY <1>2, <1>4, <3>1, <3>2
  <2> QED
    BY <2>1 DEF Unspoilt
<1>12. \A m \in Nodes : Settling(m) => Settling(m)'
  BY <1>9, <1>10 DEF Settling
<1> QED
  BY <1>1, <1>6, <1>11, <1>12, CleanKept

LEMMA AskStep ==
  ASSUME TreeTyped, Ask
  PROVE  /\ TreeTyped'
         /\ \A C \in SUBSET Nodes : Clean(C) => \E D \in SUBSET Nodes : Clean(D)'
<1>1. UNCHANGED <<worldVars, filters, recent, described, missed>>
  BY DEF Ask
<1>2. ASSUME NEW n \in Nodes, NEW rows, Answers(n, rows), rows = Current(n),
             rows.nodes \subseteq Nodes, n \in Files => \E t : rows = Painted(n, t)
      PROVE  /\ TreeTyped'
             /\ \A C \in SUBSET Nodes : Clean(C) => \E D \in SUBSET Nodes : Clean(D)'
  BY <1>1, <1>2, AnswersStep
<1>3. ASSUME NEW n \in Nodes, NEW place, NEW step, Awaits(n, place, step),
             NEW y, y = [node |-> n, place |-> place, step |-> step,
                         bytes |-> None, late |-> FALSE],
             y \in Listing, Shape(y), Good(y)
      PROVE  /\ TreeTyped'
             /\ \A C \in SUBSET Nodes : Clean(C) => \E D \in SUBSET Nodes : Clean(D)'
  <2>1. /\ listings' = Append(listings, y) /\ owed' = owed \ {n}
        /\ UNCHANGED <<worldVars, filters, recent, described, missed,
                     tree>>
        /\ y.node = n /\ ~y.late
    BY <1>1, <1>3 DEF Awaits
  <2>2. TreeTyped' /\ \A C \in SUBSET Nodes : Clean(C) => Clean(C)'
    BY <1>3, <2>1, AwaitsStep
  <2>3. ASSUME NEW C \in SUBSET Nodes, Clean(C)
        PROVE  \E D \in SUBSET Nodes : Clean(D)'
    <3>1. Clean(C)'
      BY <2>2, <2>3
    <3> QED
      BY <3>1
  <2> QED
    BY <2>2, <2>3
<1>4. None \in Bytes /\ Root \in Nodes /\ open \subseteq Workspaces
  BY DEF Bytes, Nodes, TreeTyped
<1>5. CASE AskRoot
  <2>1. Root \notin Files /\ Root \notin Workspaces /\ Root \notin Dirs
    BY TreeAssumption
  <2>2. CASE open = {} /\ Answers(Root, Says("open folder"))
    <3>1. Says("open folder") = Current(Root)
      BY <2>2 DEF Current
    <3>2. Says("open folder").nodes = {}
      BY DEF Says, Nothing
    <3> QED
      BY <1>2, <1>4, <2>1, <2>2, <3>1, <3>2
  <2>3. CASE Cardinality(open) > 1 /\ Answers(Root, Holds(open))
    <3>1. Holds(open) = Current(Root)
      BY <1>4, <2>3, OneFolder DEF Current
    <3>2. Holds(open).nodes = open
      BY DEF Holds, Nothing
    <3>3. open \subseteq Nodes
      BY <1>4 DEF Nodes
    <3> QED
      BY <1>2, <1>4, <2>1, <2>3, <3>1, <3>2, <3>3
  <2>4. CASE Cardinality(open) = 1 /\ Awaits(Root, Single, "stat")
    <3>1. PICK y : y = [node |-> Root, place |-> Single, step |-> "stat",
                        bytes |-> None, late |-> FALSE]
      OBVIOUS
    <3>2. Single \in Workspaces
      BY <1>4, <2>4, OneFolder
    <3>3. y \in Listing
      BY <1>4, <3>1, <3>2 DEF Listing, Places, Steps
    <3>4. Shape(y) /\ Good(y)
      BY <2>1, <2>4, <3>1, <3>2 DEF Shape, Good
    <3> QED
      BY <1>3, <1>4, <2>4, <3>1, <3>3, <3>4
  <2> QED
    BY <1>5, <2>2, <2>3, <2>4 DEF AskRoot
<1>6. ASSUME NEW w \in Workspaces, AskWorkspace(w)
      PROVE  /\ TreeTyped'
             /\ \A C \in SUBSET Nodes : Clean(C) => \E D \in SUBSET Nodes : Clean(D)'
  <2>1. /\ w \in Nodes /\ w # Root /\ w \notin Files /\ w \notin Dirs
    BY TreeAssumption DEF Nodes
  <2>2. CASE w \notin open /\ Answers(w, Nothing)
    <3>1. Nothing = Current(w) /\ Nothing.nodes = {}
      BY <2>1, <2>2 DEF Current, Nothing
    <3> QED
      BY <1>2, <2>1, <2>2, <3>1
  <2>3. CASE w \in open /\ Awaits(w, w, "stat")
    <3>1. PICK y : y = [node |-> w, place |-> w, step |-> "stat",
                        bytes |-> None, late |-> FALSE]
      OBVIOUS
    <3>2. y \in Listing
      BY <1>4, <2>1, <3>1 DEF Listing, Places, Steps
    <3>3. Shape(y) /\ Good(y)
      BY <2>1, <2>3, <3>1 DEF Shape, Good
    <3> QED
      BY <1>3, <2>1, <2>3, <3>1, <3>2, <3>3
  <2> QED
    BY <1>6, <2>2, <2>3 DEF AskWorkspace
<1>7. ASSUME NEW d \in Dirs, AskDir(d)
      PROVE  /\ TreeTyped'
             /\ \A C \in SUBSET Nodes : Clean(C) => \E D \in SUBSET Nodes : Clean(D)'
  <2>1. /\ d \in Nodes /\ d # Root /\ d \notin Files /\ d \notin Workspaces
    BY TreeAssumption DEF Nodes
  <2>2. CASE ~Contained(d) /\ Answers(d, Nothing)
    <3>1. Nothing = Current(d) /\ Nothing.nodes = {}
      BY <2>1, <2>2 DEF Current, Nothing
    <3> QED
      BY <1>2, <2>1, <2>2, <3>1
  <2>3. CASE Contained(d) /\ Awaits(d, d, "list")
    <3>1. PICK y : y = [node |-> d, place |-> d, step |-> "list",
                        bytes |-> None, late |-> FALSE]
      OBVIOUS
    <3>2. y \in Listing
      BY <1>4, <2>1, <3>1 DEF Listing, Places, Steps
    <3>3. Shape(y) /\ Good(y)
      BY <2>1, <2>3, <3>1 DEF Shape, Good
    <3> QED
      BY <1>3, <2>1, <2>3, <3>1, <3>2, <3>3
  <2> QED
    BY <1>7, <2>2, <2>3 DEF AskDir
<1>8. ASSUME NEW f \in Files, AskFile(f)
      PROVE  /\ TreeTyped'
             /\ \A C \in SUBSET Nodes : Clean(C) => \E D \in SUBSET Nodes : Clean(D)'
  <2>1. /\ f \in Nodes /\ f # Root /\ f \notin Dirs /\ f \notin Workspaces
    BY TreeAssumption DEF Nodes
  <2>2. CASE ~Contained(f) /\ Answers(f, Nothing)
    <3>1. Nothing = Current(f) /\ Nothing.nodes = {}
      BY <2>1, <2>2 DEF Current, Nothing
    <3>2. Nothing = Painted(f, None)
      BY DEF Painted
    <3> QED
      BY <1>2, <2>1, <2>2, <3>1, <3>2
  <2>3. CASE Contained(f) /\ editor[f] # None /\ Answers(f, Painted(f, editor[f]))
    <3>1. PICK rows : rows = Painted(f, editor[f])
      OBVIOUS
    <3>2. rows = Current(f)
      BY <2>1, <2>3, <3>1 DEF Current
    <3>3. rows.nodes = {}
      BY <3>1, PaintedShape
    <3> QED
      BY <1>2, <2>1, <2>3, <3>1, <3>2, <3>3
  <2>4. CASE Contained(f) /\ editor[f] = None /\ Awaits(f, f, "read")
    <3>1. PICK y : y = [node |-> f, place |-> f, step |-> "read",
                        bytes |-> None, late |-> FALSE]
      OBVIOUS
    <3>2. y \in Listing
      BY <1>4, <2>1, <3>1 DEF Listing, Steps
    <3>3. Shape(y) /\ Good(y)
      BY <2>1, <2>4, <3>1 DEF Shape, Good
    <3> QED
      BY <1>3, <2>1, <2>4, <3>1, <3>2, <3>3
  <2> QED
    BY <1>8, <2>2, <2>3, <2>4 DEF AskFile
<1> QED
  BY <1>5, <1>6, <1>7, <1>8 DEF Ask

----------------------------------------------------------------------------
(* The user, the editor and the disk.                                      *)

\* A refresh: everything will be painted anew.
LEMMA RefreshStep ==
  ASSUME Root \in owed'
  PROVE  TreeInv'
<1>1. Settling(Root)'
  BY DEF Settling
<1>2. Clean({})'
  BY <1>1 DEF Clean
<1> QED
  BY <1>2 DEF TreeInv

\* A step that leaves the view alone.
LEMMA QuietStep ==
  ASSUME TreeTyped, TreeInv, Undisturbed, unseen => unseen',
         UNCHANGED viewVars
  PROVE  TreeInv'
<1>1. UNCHANGED <<owed, listings, tree, missed>>
  BY DEF viewVars
<1>2. /\ open \subseteq Workspaces
      /\ \A k \in DOMAIN listings : listings[k] \in Listing /\ Shape(listings[k])
  BY DEF TreeTyped
<1>3. ASSUME NEW k \in DOMAIN listings, Good(listings[k])
      PROVE  Good(listings[k])'
  <2>1. ASSUME NEW x, x = listings'[k] PROVE Good(listings[k])'
    <3>1. x \in Listing /\ Shape(x) /\ Good(x)
      BY <1>1, <1>2, <1>3, <2>1
    <3>2. Good(x)'
      BY <1>2, <3>1, StaysGood
    <3> QED
      BY <2>1, <3>2, GoodPrime
  <2> QED
    BY <2>1
<1>4. ASSUME NEW m \in Nodes, Promised(m) PROVE Promised(m)'
  BY <1>1, <1>3, <1>4 DEF Promised
<1>5. ASSUME NEW m \in Nodes
      PROVE  (Settling(m) => Settling(m)') /\ (Unspoilt(m) => Unspoilt(m)')
  BY <1>1, <1>3, <1>4 DEF Settling, Unspoilt
<1>6. ASSUME NEW C \in SUBSET Nodes, Clean(C) PROVE Clean(C)'
  BY <1>1, <1>5, <1>6, CleanKept
<1> QED
  BY <1>1, <1>6 DEF TreeInv

\* Set changes one filter, and refreshes the tree if that is a change.
LEMMA SetStep ==
  ASSUME TreeTyped, TreeInv, NEW k \in FilterKinds, NEW v, Set(k, v),
         UNCHANGED <<worldVars, recent, listings, tree>>
  PROVE  /\ filters' = [j \in FilterKinds |-> filters'[j]]
         /\ owed' \subseteq Nodes /\ TreeInv'
         /\ v = filters[k] => filters' = filters
<1>1. filters' = [filters EXCEPT ![k] = v]
  BY DEF Set
<1>2. filters' = [j \in FilterKinds |-> filters'[j]]
  BY <1>1 DEF TreeTyped
<1>3. v = filters[k] => filters' = filters
  BY <1>1 DEF TreeTyped
<1>4. owed' \subseteq Nodes
  BY DEF Set, Refreshing, Owing, Nodes, TreeTyped
<1>5. CASE v = filters[k]
  <2>1. Undisturbed
    BY <1>3, <1>5 DEF Set, worldVars, Undisturbed, Text
  <2>2. UNCHANGED <<unseen, viewVars>>
    BY <1>5 DEF Set, viewVars, worldVars
  <2> QED
    BY <1>2, <1>3, <1>4, <2>1, <2>2, QuietStep
<1>6. CASE v # filters[k]
  <2>1. Root \in owed'
    BY <1>6 DEF Set, Refreshing, Owing
  <2> QED
    BY <1>2, <1>3, <1>4, <2>1, RefreshStep
<1> QED
  BY <1>5, <1>6

LEMMA ToggleStep ==
  ASSUME IInv, NEW k \in {"favorites", "recent"}, Toggle(k)
  PROVE  IInv'
<1>1. /\ Set(k, ~filters[k]) /\ k \in FilterKinds
      /\ UNCHANGED <<worldVars, recent, listings, tree, promptVars>>
      /\ described' = Active(filters')
  BY DEF Toggle, FilterKinds
<1>2. /\ filters' = [j \in FilterKinds |-> filters'[j]]
      /\ owed' \subseteq Nodes /\ TreeInv'
  BY <1>1, SetStep DEF IInv
<1>3. TreeTyped'
  BY <1>1, <1>2 DEF IInv, TreeTyped, worldVars, Active
<1>4. PromptInv'
  BY <1>1 DEF IInv, PromptInv, promptVars
<1> QED
  BY <1>2, <1>3, <1>4 DEF IInv

LEMMA OpenPromptStep ==
  ASSUME IInv, NEW k \in DOMAIN Queries, OpenPrompt(k)
  PROVE  IInv'
<1>1. /\ UNCHANGED <<worldVars, filters, recent, described, setBy, viewVars>>
      /\ generation' = [generation EXCEPT ![k] = @ + 1]
      /\ prompts' = prompts \cup {[kind |-> k, number |-> generation'[k]]}
  BY DEF OpenPrompt
<1>2. TreeTyped'
  BY <1>1 DEF IInv, TreeTyped, worldVars, viewVars, Active
<1>3. k \in Kinds /\ generation \in [Kinds -> Nat]
  BY TreeAssumption DEF IInv, PromptInv
<1>4. /\ generation' \in [Kinds -> Nat]
      /\ \A j \in Kinds : generation[j] <= generation'[j]
  BY <1>1, <1>3
<1>5. setBy' \in [Kinds -> Nat] /\ \A j \in Kinds : setBy'[j] <= generation'[j]
  BY <1>1, <1>3, <1>4 DEF IInv, PromptInv
<1>6. ASSUME NEW p \in prompts'
      PROVE  p.kind \in Kinds /\ p.number \in Nat /\ p.number <= generation'[p.kind]
  <2>1. CASE p \in prompts
    <3>1. p.kind \in Kinds /\ p.number \in Nat /\ p.number <= generation[p.kind]
      BY <2>1 DEF IInv, PromptInv
    <3> QED
      BY <1>3, <1>4, <3>1
  <2>2. CASE p = [kind |-> k, number |-> generation'[k]]
    BY <1>3, <1>4, <2>2
  <2> QED
    BY <1>1, <2>1, <2>2
<1>7. PromptInv'
  BY <1>4, <1>5, <1>6 DEF PromptInv
<1>8. TreeInv'
  <2>1. Undisturbed /\ UNCHANGED <<unseen, viewVars>>
    BY <1>1 DEF Undisturbed, Text, worldVars, viewVars
  <2> QED
    BY <2>1, QuietStep DEF IInv
<1> QED
  BY <1>2, <1>7, <1>8 DEF IInv

LEMMA AnswerStep ==
  ASSUME IInv, NEW p \in prompts, NEW v, Answer(p, v)
  PROVE  IInv'
<1>1. /\ p.kind \in Kinds /\ p.kind \in FilterKinds /\ p.number \in Nat
      /\ p.number <= generation[p.kind]
      /\ UNCHANGED <<worldVars, recent, generation, listings, tree>>
      /\ prompts' \subseteq prompts
  BY DEF IInv, PromptInv, FilterKinds, Answer
<1>2. CASE TakesAnswer(p)
  <2>1. /\ Set(p.kind, v) /\ setBy' = [setBy EXCEPT ![p.kind] = p.number]
        /\ described' = IF p.kind \in {"tag", "text"} /\ v = filters[p.kind]
                        THEN described ELSE Active(filters')
    BY <1>2 DEF Answer
  <2>2. /\ filters' = [j \in FilterKinds |-> filters'[j]]
        /\ owed' \subseteq Nodes /\ TreeInv'
        /\ v = filters[p.kind] => filters' = filters
    BY <1>1, <2>1, SetStep DEF IInv
  <2>3. described' = Active(filters')
    BY <2>1, <2>2 DEF IInv, TreeTyped
  <2>4. TreeTyped'
    BY <1>1, <2>2, <2>3 DEF IInv, TreeTyped, worldVars, Active
  <2>5. PromptInv'
    BY <1>1, <2>1 DEF IInv, PromptInv
  <2> QED
    BY <2>2, <2>4, <2>5 DEF IInv
<1>3. CASE ~TakesAnswer(p)
  <2>1. UNCHANGED <<filters, owed, missed, described, setBy>>
    BY <1>3 DEF Answer
  <2>2. TreeTyped'
    BY <1>1, <2>1 DEF IInv, TreeTyped, worldVars, Active
  <2>3. PromptInv'
    BY <1>1, <2>1 DEF IInv, PromptInv
  <2>4. Undisturbed /\ UNCHANGED <<unseen, viewVars>>
    BY <1>1, <2>1 DEF Undisturbed, Text, worldVars, viewVars
  <2>5. TreeInv'
    BY <2>4, QuietStep DEF IInv
  <2> QED
    BY <2>2, <2>3, <2>5 DEF IInv
<1> QED
  BY <1>2, <1>3

LEMMA EscapeStep ==
  ASSUME IInv, NEW p \in prompts, Escape(p)
  PROVE  IInv'
<1>1. /\ UNCHANGED <<worldVars, filters, recent, generation, setBy, viewVars>>
      /\ prompts' \subseteq prompts /\ described' = Active(filters)
  BY DEF Escape, IInv, TreeTyped
<1>2. TreeTyped'
  BY <1>1 DEF IInv, TreeTyped, worldVars, viewVars, Active
<1>3. PromptInv'
  BY <1>1 DEF IInv, PromptInv
<1>4. Undisturbed /\ UNCHANGED <<unseen, viewVars>>
  BY <1>1 DEF Undisturbed, Text, worldVars, viewVars
<1>5. TreeInv'
  BY <1>4, QuietStep DEF IInv
<1> QED
  BY <1>2, <1>3, <1>5 DEF IInv

\* What a step of the world, the editor or the disk has to show.
LEMMA WorldStep ==
  ASSUME IInv, UNCHANGED <<filters, described, promptVars, listings, tree>>,
         open' \subseteq Workspaces, disk' \in [Files -> Bytes],
         editor' \in [Files -> Bytes], owed' \subseteq Nodes, TreeInv'
  PROVE  IInv'
<1>1. TreeTyped'
  BY DEF IInv, TreeTyped, Active
<1>2. PromptInv'
  BY DEF IInv, PromptInv, promptVars
<1> QED
  BY <1>1, <1>2 DEF IInv

LEMMA SendStep ==
  ASSUME IInv, NEW f \in Files, NEW r, Send(f, r)
  PROVE  IInv'
<1>1. /\ UNCHANGED <<open, disk, dirs, unseen, filters, described, promptVars,
                     listings, tree>>
      /\ editor' = [editor EXCEPT ![f] = Text(f)]
      /\ Contained(f) /\ filters["recent"] => owed' = Owing
      /\ ~(Contained(f) /\ filters["recent"]) => UNCHANGED <<owed, missed>>
      /\ ~Contained(f) => recent' = recent
  BY DEF Send, Text, Refreshing
<1>2. /\ open \subseteq Workspaces /\ owed \subseteq Nodes
      /\ disk \in [Files -> Bytes] /\ editor \in [Files -> Bytes]
  BY DEF IInv, TreeTyped
<1>3. Text(f) \in Bytes
  BY <1>2 DEF Text
<1>4. editor' \in [Files -> Bytes]
  BY <1>1, <1>2, <1>3
<1>5. owed' \subseteq Nodes
  BY <1>1, <1>2 DEF Owing, Nodes
<1>6. TreeInv'
  <2>1. CASE Contained(f) /\ filters["recent"]
    BY <1>1, <2>1, RefreshStep DEF Owing
  <2>2. CASE ~(Contained(f) /\ filters["recent"])
    <3>1. UNCHANGED <<owed, missed>> /\ (filters["recent"] => recent' = recent)
      BY <1>1, <2>2
    <3>2. ASSUME NEW g \in Files
          PROVE  /\ Text(g)' = Text(g)
                 /\ editor[g] # None => editor'[g] # None
      BY <1>1, <1>2 DEF Text
    <3>3. Undisturbed
      BY <1>1, <3>1, <3>2 DEF Undisturbed
    <3>4. UNCHANGED <<unseen, viewVars>>
      BY <1>1, <3>1 DEF viewVars
    <3> QED
      BY <3>3, <3>4, QuietStep DEF IInv
  <2> QED
    BY <2>1, <2>2
<1> QED
  BY <1>1, <1>2, <1>4, <1>5, <1>6, WorldStep

LEMMA DiskChangesStep ==
  ASSUME IInv, NEW f \in Files, NEW t \in Texts[f] \cup {None},
         DiskChanges(f, t)
  PROVE  IInv'
<1>1. /\ UNCHANGED <<open, editor, filters, recent, described, promptVars,
                     viewVars>>
      /\ disk' = [disk EXCEPT ![f] = t]
      /\ dirs' \in {dirs, dirs \cup Above(f)}
      /\ unseen' = (unseen \/ Contained(f))
  BY DEF DiskChanges, Contained
<1>2. /\ open \subseteq Workspaces /\ owed \subseteq Nodes
      /\ disk \in [Files -> Bytes] /\ editor \in [Files -> Bytes]
  BY DEF IInv, TreeTyped
<1> t \in Bytes
  BY DEF Bytes
<1>3. TreeInv'
  <2>1. CASE unseen \/ Contained(f)
    BY <1>1, <2>1 DEF TreeInv
  <2>2. CASE ~unseen /\ ~Contained(f)
    <3>1. ASSUME NEW g \in Files, Contained(g)
          PROVE  /\ disk'[g] = disk[g] /\ Text(g)' = Text(g)
                 /\ editor[g] # None => editor'[g] # None
      BY <1>1, <1>2, <2>2, <3>1 DEF Text
    <3>2. ASSUME NEW p \in Places, Within(p), p \in Above(f) PROVE FALSE
      <4>1. CASE p \in open
        BY <2>2, <3>2, <4>1 DEF Contained
      <4>2. CASE p \notin open
        <5>1. p \in Dirs /\ Contained(p)
          BY <3>2, <4>2, <1>2, TreeAssumption DEF Within, Places
        <5>2. Above(p) \subseteq Above(f)
          BY <3>2, <5>1, AboveParent
        <5> QED
          BY <2>2, <5>1, <5>2 DEF Contained
      <4> QED
        BY <4>1, <4>2
    <3>3. Undisturbed
      BY <1>1, <3>1, <3>2 DEF Undisturbed, viewVars
    <3> QED
      BY <1>1, <2>2, <3>3, QuietStep DEF IInv
  <2> QED
    BY <2>1, <2>2
<1> QED
  BY <1>1, <1>2, <1>3, WorldStep DEF viewVars

\* A directory comes or goes: what it alters is counted as missed.
LEMMA FolderStep ==
  ASSUME IInv, disk' \in [Files -> Bytes], FolderChanges
  PROVE  IInv'
<1>1. /\ UNCHANGED <<open, editor, filters, recent, described, promptVars,
                     owed, listings, tree>>
      /\ unseen => unseen'
      /\ missed' = missed \cup {n \in Nodes : Current(n)' # Current(n)}
  BY DEF FolderChanges
<1>2. /\ open \subseteq Workspaces /\ owed \subseteq Nodes
      /\ disk \in [Files -> Bytes] /\ editor \in [Files -> Bytes]
      /\ \A k \in DOMAIN listings : listings[k] \in Listing /\ Shape(listings[k])
  BY DEF IInv, TreeTyped
<1>3. \A n \in Nodes : n \in missed' \/ (n \notin missed /\ Current(n)' = Current(n))
  BY <1>1
<1>4. missed \subseteq missed'
  BY <1>1
<1>5. ASSUME NEW S PROVE Says("init") # Holds(S)
  <2>1. Says("init").message = "init" /\ Holds(S).message = "none"
    BY DEF Says, Holds, Nothing
  <2> QED
    BY <2>1
<1>6. Single' = Single /\ \A p : Contained(p)' <=> Contained(p)
  BY <1>1 DEF Single, Contained
<1>7. ASSUME NEW x \in Listing, Shape(x), Good(x) PROVE Good(x)'
  <2>1. CASE x.node = Root
    <3>1. /\ Cardinality(open) = 1 /\ x.place = Single
          /\ open # {} /\ Single \in open
          /\ x.step = "list" => Exists(Single) \/ Root \in missed
      BY <1>2, <1>7, <2>1, OneFolder DEF Good
    <3>2. ~(Cardinality(open) > 1)
      BY <3>1
    <3>3. /\ Exists(Single) => Current(Root) = Holds(Entries(Single))
          /\ ~Exists(Single)' => Current(Root)' = Says("init")'
      BY <1>1, <3>1, <3>2 DEF Current
    <3>4. Exists(Single) => Exists(Single)' \/ Root \in missed'
      BY <1>3, <1>5, <3>3 DEF Nodes, Says, Nothing
    <3> QED
      BY <1>1, <1>4, <1>6, <2>1, <3>1, <3>4 DEF Good
  <2>2. CASE x.node # Root /\ x.node \in Workspaces
    <3>1. /\ x.node \in open
          /\ x.step = "list" => Exists(x.node) \/ x.node \in missed
      BY <1>7, <2>2 DEF Good
    <3>2. /\ Exists(x.node) => Current(x.node) = Holds(Entries(x.node))
          /\ ~Exists(x.node)' => Current(x.node)' = Says("init")'
      BY <1>1, <2>2, <3>1 DEF Current
    <3>3. Exists(x.node) => Exists(x.node)' \/ x.node \in missed'
      BY <1>3, <1>5, <2>2, <3>2 DEF Nodes, Says, Nothing
    <3> QED
      BY <1>1, <1>4, <2>2, <3>1, <3>3 DEF Good
  <2>3. CASE x.node # Root /\ x.node \notin Workspaces
    <3>1. /\ Contained(x.node) /\ Contained(x.node)'
          /\ x.step = "bytes" =>
               TextRead(x.node, x.bytes) = Text(x.node) \/ x.node \in missed
      BY <1>6, <1>7, <2>3 DEF Good
    <3>2. ASSUME x.step = "bytes", TextRead(x.node, x.bytes) = Text(x.node)
          PROVE  (TextRead(x.node, x.bytes) = Text(x.node))' \/ x.node \in missed'
      <4>1. x.node \in Files /\ x.node \notin Dirs
        BY <2>3, <3>2, <1>7, TreeAssumption DEF Shape, Listing, Nodes
      <4>2. CASE editor[x.node] # None
        BY <1>1, <3>2, <4>2 DEF TextRead, Text
      <4>3. CASE editor[x.node] = None
        <5>1. PICK t, u : t = disk[x.node] /\ u = disk'[x.node]
          OBVIOUS
        <5>2. /\ Current(x.node) = Painted(x.node, t)
              /\ Current(x.node)' = Painted(x.node, u)'
          BY <1>1, <2>3, <3>1, <4>1, <4>3, <5>1 DEF Current
        <5>3. Painted(x.node, u)' = Painted(x.node, u)
          BY <1>1, SamePainted
        <5>4. Painted(x.node, t).source = t /\ Painted(x.node, u).source = u
          BY PaintedShape
        <5>5. x.node \in missed' \/ t = u
          BY <1>3, <4>1, <5>2, <5>3, <5>4 DEF Nodes
        <5>6. t = u => (TextRead(x.node, x.bytes) = Text(x.node))'
          BY <1>1, <3>2, <4>3, <5>1 DEF TextRead, Text
        <5> QED
          BY <5>5, <5>6
      <4> QED
        BY <4>2, <4>3
    <3> QED
      BY <1>4, <2>3, <3>1, <3>2 DEF Good
  <2> QED
    BY <2>1, <2>2, <2>3
<1>8. ASSUME NEW k \in DOMAIN listings, Good(listings[k])
      PROVE  Good(listings[k])'
  <2>1. ASSUME NEW x, x = listings'[k] PROVE Good(listings[k])'
    <3>1. x \in Listing /\ Shape(x) /\ Good(x)
      BY <1>1, <1>2, <1>8, <2>1
    <3>2. Good(x)'
      BY <1>7, <3>1
    <3> QED
      BY <2>1, <3>2, GoodPrime
  <2> QED
    BY <2>1
<1>9. ASSUME NEW m \in Nodes, Promised(m) PROVE Promised(m)'
  BY <1>1, <1>8, <1>9 DEF Promised
<1>10. ASSUME NEW m \in Nodes
       PROVE  (Settling(m) => Settling(m)') /\ (Unspoilt(m) => Unspoilt(m)')
  BY <1>1, <1>8, <1>9 DEF Settling, Unspoilt
<1>11. ASSUME NEW C \in SUBSET Nodes, Clean(C) PROVE Clean(C)'
  <2>1. Root \in C \/ Settling(Root)'
    BY <1>10, <1>11 DEF Clean, Nodes
  <2>2. ASSUME NEW n \in C
        PROVE  /\ Faithful(n)' /\ (n \in Files => RowsOK(n)')
               /\ Settling(n)' \/ Unspoilt(n)'
               /\ \A m \in tree'[n].nodes : m \in C \/ Settling(m)'
    <3>1. Faithful(n)'
      BY <1>1, <1>3, <1>11 DEF Clean, Faithful
    <3>2. n \in Files => RowsOK(n)'
      <4>1. ASSUME NEW t, t = tree[n].source
            PROVE  Painted(n, tree[n].source)' = Painted(n, tree[n].source)
        <5>1. Painted(n, t)' = Painted(n, t)
          BY <1>1, SamePainted
        <5> QED
          BY <1>1, <4>1, <5>1
      <4> QED
        BY <1>1, <1>11, <4>1 DEF Clean, RowsOK
    <3>3. Settling(n)' \/ Unspoilt(n)'
      BY <1>10, <1>11 DEF Clean
    <3>4. \A m \in tree'[n].nodes : m \in C \/ Settling(m)'
      BY <1>1, <1>10, <1>11 DEF Clean, IInv, TreeTyped
    <3> QED
      BY <3>1, <3>2, <3>3, <3>4
  <2> QED
    BY <2>1, <2>2 DEF Clean
<1>12. TreeInv'
  BY <1>1, <1>11 DEF IInv, TreeInv
<1> QED
  BY <1>1, <1>2, <1>12, WorldStep

LEMMA FolderGoesStep ==
  ASSUME IInv, NEW p \in Places, FolderGoes(p)
  PROVE  IInv'
<1>1. disk' \in [Files -> Bytes]
  BY DEF IInv, TreeTyped, FolderGoes, Bytes
<1> QED
  BY <1>1, FolderStep DEF FolderGoes

LEMMA FolderComesStep ==
  ASSUME IInv, NEW p \in Places, NEW ds, NEW ts \in Contents(p),
         FolderComes(p, ds, ts)
  PROVE  IInv'
<1>1. \A f \in DOMAIN ts : ts[f] \in Bytes
  BY DEF Contents, Bytes
<1>2. disk' \in [Files -> Bytes]
  BY <1>1 DEF IInv, TreeTyped, FolderComes
<1> QED
  BY <1>2, FolderStep DEF FolderComes

\* The command, which the commands that create something end in.
LEMMA RefreshCommandStep ==
  ASSUME IInv, Refresh
  PROVE  IInv'
<1>1. /\ UNCHANGED <<open, disk, editor, filters, described, promptVars,
                     listings, tree>>
      /\ owed' = Owing
  BY DEF Refresh, Refreshing, worldVars
<1>2. TreeInv'
  BY <1>1, RefreshStep DEF Owing
<1> QED
  BY <1>1, <1>2, WorldStep DEF IInv, TreeTyped, Owing, Nodes

LEMMA WatcherReportsStep ==
  ASSUME IInv, WatcherReports
  PROVE  IInv'
<1>1. /\ UNCHANGED <<open, disk, editor, filters, described, promptVars,
                     listings, tree>>
      /\ owed' = Owing
  BY DEF WatcherReports, Refreshing
<1>2. TreeInv'
  BY <1>1, RefreshStep DEF Owing
<1> QED
  BY <1>1, <1>2, WorldStep DEF IInv, TreeTyped, Owing, Nodes

LEMMA OpenDocumentStep ==
  ASSUME IInv, NEW f \in Files, OpenDocument(f)
  PROVE  IInv'
<1>1. /\ UNCHANGED <<open, disk, dirs, unseen, filters, recent, described,
                     promptVars, viewVars>>
      /\ editor[f] = None /\ editor' = [editor EXCEPT ![f] = disk[f]]
  BY DEF OpenDocument
<1>2. /\ open \subseteq Workspaces /\ owed \subseteq Nodes
      /\ disk \in [Files -> Bytes] /\ editor \in [Files -> Bytes]
  BY DEF IInv, TreeTyped
<1>3. ASSUME NEW g \in Files
      PROVE  /\ Text(g)' = Text(g)
             /\ editor[g] # None => editor'[g] # None
  BY <1>1, <1>2 DEF Text
<1>4. Undisturbed
  BY <1>1, <1>3 DEF Undisturbed, viewVars
<1>5. TreeInv'
  BY <1>1, <1>4, QuietStep DEF IInv
<1> QED
  BY <1>1, <1>2, <1>5, WorldStep DEF viewVars

\* An edit of an open document, and its end.
LEMMA EditorStep ==
  ASSUME IInv, NEW f \in Files, NEW t \in Bytes,
         editor' = [editor EXCEPT ![f] = t], Refreshed(f),
         UNCHANGED <<open, disk, dirs, unseen, filters, recent, described,
                     promptVars, listings, tree>>
  PROVE  IInv'
<1>1. /\ open \subseteq Workspaces /\ owed \subseteq Nodes
      /\ disk \in [Files -> Bytes] /\ editor \in [Files -> Bytes]
  BY DEF IInv, TreeTyped
<1>2. editor' \in [Files -> Bytes] /\ owed' \subseteq Nodes
  BY <1>1 DEF Refreshed, Refreshing, Owing, Nodes
<1>3. CASE Contained(f)
  <2>1. TreeInv'
    BY <1>3, RefreshStep DEF Refreshed, Refreshing, Owing
  <2> QED
    BY <1>1, <1>2, <2>1, WorldStep
<1>4. CASE ~Contained(f)
  <2>1. ASSUME NEW g \in Files, Contained(g)
        PROVE  /\ Text(g)' = Text(g)
               /\ editor[g] # None => editor'[g] # None
    BY <1>1, <1>4, <2>1 DEF Text
  <2>2. Undisturbed /\ UNCHANGED <<unseen, viewVars>>
    BY <1>4, <2>1 DEF Undisturbed, Refreshed, viewVars
  <2>3. TreeInv'
    BY <2>2, QuietStep DEF IInv
  <2> QED
    BY <1>1, <1>2, <2>3, WorldStep
<1> QED
  BY <1>3, <1>4

LEMMA FoldersChangeStep ==
  ASSUME IInv, NEW ws \in SUBSET Workspaces, FoldersChange(ws)
  PROVE  IInv'
<1>1. /\ UNCHANGED <<disk, editor, filters, described, promptVars,
                     listings, tree>>
      /\ open' = ws /\ owed' = Owing
  BY DEF FoldersChange, Refreshing
<1>2. TreeInv'
  BY <1>1, RefreshStep DEF Owing
<1> QED
  BY <1>1, <1>2, WorldStep DEF IInv, TreeTyped, Owing, Nodes

----------------------------------------------------------------------------
(* The invariant.                                                          *)

\* A rendering step.
LEMMA ViewStep ==
  ASSUME IInv, Ask \/ List
  PROVE  IInv'
<1>1. UNCHANGED <<unseen, promptVars>>
  BY DEF Ask, List, worldVars
<1>2. PromptInv'
  BY <1>1 DEF IInv, PromptInv, promptVars
<1>3. /\ TreeTyped'
      /\ \A C \in SUBSET Nodes : Clean(C) => \E D \in SUBSET Nodes : Clean(D)'
  BY AskStep, ListStep DEF IInv
<1>4. TreeInv'
  BY <1>1, <1>3 DEF IInv, TreeInv
<1> QED
  BY <1>2, <1>3, <1>4 DEF IInv

LEMMA Stutters ==
  ASSUME IInv, UNCHANGED vars
  PROVE  IInv'
<1>1. /\ UNCHANGED <<open, disk, dirs, unseen, editor, filters, recent,
                     described, generation, prompts, setBy, viewVars>>
  BY DEF vars, worldVars, promptVars
<1>2. Undisturbed
  BY <1>1 DEF Undisturbed, Text, viewVars
<1>3. TreeInv'
  BY <1>1, <1>2, QuietStep DEF IInv
<1> QED
  BY <1>1, <1>3, WorldStep DEF IInv, TreeTyped, viewVars, promptVars

LEMMA Step ==
  ASSUME IInv, [Next]_vars
  PROVE  IInv'
<1>1. CASE Ask \/ List
  BY <1>1, ViewStep
<1>2. CASE WatcherReports
  BY <1>2, WatcherReportsStep
<1>3. CASE Settled \/ UNCHANGED vars
  BY <1>3, Stutters DEF Settled
<1>4. ASSUME NEW k \in {"favorites", "recent"}, Toggle(k) PROVE IInv'
  BY <1>4, ToggleStep
<1>5. ASSUME NEW k \in DOMAIN Queries, OpenPrompt(k) PROVE IInv'
  BY <1>5, OpenPromptStep
<1>6. ASSUME NEW p \in prompts, Escape(p) PROVE IInv'
  BY <1>6, EscapeStep
<1>7. ASSUME NEW p \in prompts, NEW v \in Queries[p.kind], Answer(p, v)
      PROVE  IInv'
  BY <1>7, AnswerStep
<1>8. ASSUME NEW f \in Files, OpenDocument(f) PROVE IInv'
  BY <1>8, OpenDocumentStep
<1>9. ASSUME NEW f \in Files, CloseDocument(f) PROVE IInv'
  <2>1. None \in Bytes
    BY DEF Bytes
  <2> QED
    BY <1>9, <2>1, EditorStep DEF CloseDocument
<1>10. ASSUME NEW f \in Files, NEW t \in Texts[f], Edit(f, t) PROVE IInv'
  <2>1. t \in Bytes
    BY DEF Bytes
  <2> QED
    BY <1>10, <2>1, EditorStep DEF Edit
<1>11. ASSUME NEW f \in Files, NEW r, Send(f, r) PROVE IInv'
  BY <1>11, SendStep
<1>12. ASSUME NEW f \in Files, NEW t \in Texts[f] \cup {None},
              DiskChanges(f, t)
       PROVE  IInv'
  BY <1>12, DiskChangesStep
<1>13. ASSUME NEW ws \in SUBSET Workspaces, FoldersChange(ws) PROVE IInv'
  BY <1>13, FoldersChangeStep
<1>14. CASE Refresh
  BY <1>14, RefreshCommandStep
<1>15. ASSUME NEW p \in Places, FolderGoes(p) PROVE IInv'
  BY <1>15, FolderGoesStep
<1>16. ASSUME NEW p \in Places, NEW ds, NEW ts \in Contents(p),
              FolderComes(p, ds, ts)
       PROVE  IInv'
  BY <1>16, FolderComesStep
<1> QED
  BY <1>1, <1>2, <1>3, <1>4, <1>5, <1>6, <1>7, <1>8, <1>9, <1>10, <1>11,
     <1>12, <1>13, <1>14, <1>15, <1>16 DEF Next

LEMMA Starts ==
  ASSUME Init
  PROVE  IInv
<1>1. /\ open \subseteq Workspaces /\ disk \in [Files -> Bytes]
      /\ editor = [f \in Files |-> None] /\ described = {}
      /\ filters = [k \in FilterKinds |-> IF k \in Kinds THEN None ELSE FALSE]
      /\ owed = {Root} /\ listings = <<>> /\ tree = [n \in Nodes |-> Nothing]
  BY DEF Init, FilterKinds, Bytes
<1>2. described = Active(filters)
  BY <1>1 DEF Active, FilterKinds, Kinds
<1>3. TreeTyped
  <2>1. editor \in [Files -> Bytes]
    BY <1>1 DEF Bytes
  <2>2. filters = [k \in FilterKinds |-> filters[k]]
    BY <1>1
  <2>3. owed \subseteq Nodes
    BY <1>1 DEF Nodes
  <2>4. /\ tree = [n \in Nodes |-> tree[n]]
        /\ \A n \in Nodes : tree[n].nodes \subseteq Nodes
    BY <1>1 DEF Nothing
  <2>5. listings \in Seq(Listing) /\ \A i \in DOMAIN listings : Shape(listings[i])
    BY <1>1
  <2> QED
    BY <1>1, <1>2, <2>1, <2>2, <2>3, <2>4, <2>5 DEF TreeTyped
<1>4. PromptInv
  BY DEF Init, PromptInv
<1>5. Clean({})
  BY <1>1 DEF Clean, Settling
<1>6. TreeInv
  BY <1>5 DEF TreeInv
<1> QED
  BY <1>3, <1>4, <1>6 DEF IInv

\* The tree is, wherever nothing is under way below the root, as it is to be,
\* but for the nodes that a directory which came or went has altered since the
\* last refresh; the view names the active filters, and no prompt is newer
\* than the last.
THEOREM TreeSound == Spec => []IInv
<1> QED
  BY Starts, Step, PTL DEF Spec

\* Once nothing is under way, all that is shown is clean.
LEMMA ShownIsClean ==
  ASSUME IInv, Quiet, NEW n \in Shown
  PROVE  Faithful(n) /\ (n \in Files => RowsOK(n))
<1>1. PICK C \in SUBSET Nodes : Clean(C)
  BY DEF Quiet, IInv, TreeInv
<1>2. ASSUME NEW m PROVE ~Settling(m)
  <2>1. DOMAIN listings = {}
    BY DEF Quiet
  <2> QED
    BY <2>1 DEF Quiet, Settling, Promised
<1>3. Downwards(C)
  BY <1>1, <1>2 DEF Clean, Downwards
<1>4. n \in C
  BY <1>1, <1>3 DEF Shown
<1> QED
  BY <1>1, <1>4 DEF Clean

\* However late its reads came back, a settled tree shows the rows that pass
\* the filters of now, and the view names them (RowsObeyFilters).
THEOREM RowsFollowFilters == Spec => []RowsObeyFilters
<1>1. ASSUME IInv PROVE RowsObeyFilters
  <2>1. ASSUME Quiet PROVE described = Active(filters)
    BY <1>1 DEF IInv, TreeTyped
  <2>2. ASSUME Quiet, NEW f \in Files \cap Shown PROVE RowsOK(f)
    BY <1>1, <2>2, ShownIsClean
  <2> QED
    BY <2>1, <2>2 DEF RowsObeyFilters, RowsOK
<1> QED
  BY <1>1, TreeSound, PTL

\* A settled tree shows the folders, entries and texts of now, but where a
\* read was overtaken and where a directory that came or went altered what is
\* there, which nothing reports (TreeIsCurrent).  Files that come, change or
\* go by themselves are always shown.
THEOREM TreeSettlesCurrent == Spec => []TreeIsCurrent
<1>1. ASSUME IInv PROVE TreeIsCurrent
  BY <1>1, ShownIsClean DEF TreeIsCurrent, Faithful
<1> QED
  BY <1>1, TreeSound, PTL

\* Of the prompts of one kind, the filter is never taken back to an older
\* one's answer (OlderPromptNeverWins).
THEOREM PromptsKeepOrder == Spec => OlderPromptNeverWins
<1> DEFINE Rises == \A k \in Kinds : setBy'[k] >= setBy[k]
<1>1. ASSUME IInv, [Next]_vars PROVE [Rises]_vars
  <2>1. CASE setBy' = setBy
    <3>1. setBy \in [Kinds -> Nat]
      BY <1>1 DEF IInv, PromptInv
    <3> QED
      BY <2>1, <3>1
  <2>2. ASSUME NEW p \in prompts, NEW v, Answer(p, v), TakesAnswer(p)
        PROVE  Rises
    <3>1. /\ setBy \in [Kinds -> Nat] /\ generation \in [Kinds -> Nat]
          /\ p.kind \in Kinds /\ setBy[p.kind] <= generation[p.kind]
      BY <1>1 DEF IInv, PromptInv
    <3>2. setBy' = [setBy EXCEPT ![p.kind] = generation[p.kind]]
      BY <2>2 DEF Answer, TakesAnswer
    <3> QED
      BY <3>1, <3>2
  <2>3. ASSUME NEW p \in prompts, NEW v, Answer(p, v), ~TakesAnswer(p)
        PROVE  setBy' = setBy
    BY <2>3 DEF Answer
  <2>4. (\E p \in prompts : \E v \in Queries[p.kind] : Answer(p, v))
        \/ setBy' = setBy
    BY <1>1 DEF Next, Ask, List, WatcherReports, Settled, Toggle, OpenPrompt,
         Escape, OpenDocument, CloseDocument, Edit, Send, DiskChanges,
         FoldersChange, FolderGoes, FolderComes, FolderChanges, Refresh, vars,
         promptVars
  <2> QED
    BY <2>1, <2>2, <2>3, <2>4
<1> QED
  BY <1>1, TreeSound, PTL DEF Spec, OlderPromptNeverWins

----------------------------------------------------------------------------
(* Recent requests.                                                        *)

\* Numbered keys that are all different are as many as the numbers.
LEMMA KeyCount ==
  ASSUME NEW s, NEW a \in Nat, NEW b \in Nat, a <= b + 1,
         \A i, j \in a..b : i # j => s[i].key # s[j].key
  PROVE  /\ IsFiniteSet({s[j].key : j \in a..b})
         /\ Cardinality({s[j].key : j \in a..b}) = b - a + 1
<1> DEFINE K == {s[j].key : j \in a..b}
           f == [j \in a..b |-> s[j].key]
<1>1. IsFiniteSet(a..b) /\ Cardinality(a..b) = b - a + 1
  BY FS_Interval
<1>2. f \in Surjection(a..b, K) /\ f \in Injection(a..b, K)
  BY DEF Surjection, Injection, IsInjective
<1> HIDE DEF K, f
<1>3. IsFiniteSet(K) /\ Cardinality(K) = Cardinality(a..b)
  BY <1>1, <1>2, FS_Surjection
<1> QED
  BY <1>1, <1>3 DEF K

LEMMA LaterFinite ==
  ASSUME NEW s, Len(s) \in Nat, NEW n \in Nat
  PROVE  IsFiniteSet(Later(s, n))
<1> DEFINE f == [m \in (n + 1)..Len(s) |-> s[m].key]
<1>1. IsFiniteSet((n + 1)..Len(s))
  BY FS_Interval
<1>2. f \in Surjection((n + 1)..Len(s), Later(s, n))
  BY DEF Surjection, Later
<1> HIDE DEF f
<1> QED
  BY <1>1, <1>2, FS_Surjection

\* What is sent later becomes part of what is later.
LEMMA LaterGrows ==
  ASSUME NEW S, NEW s \in Seq(S), NEW e \in S, NEW n \in 1..Len(s)
  PROVE  Later(Append(s, e), n) = Later(s, n) \cup {e.key}
<1>1. /\ Len(Append(s, e)) = Len(s) + 1 /\ Append(s, e)[Len(s) + 1] = e
      /\ \A m \in 1..Len(s) : Append(s, e)[m] = s[m]
      /\ Len(s) \in Nat /\ n \in Nat /\ n >= 1 /\ n <= Len(s)
  BY AppendProperties, LenProperties
<1>2. PICK r : r = Append(s, e)
  OBVIOUS
<1>3. (n + 1)..(Len(s) + 1) = ((n + 1)..Len(s)) \cup {Len(s) + 1}
  BY <1>1
<1>4. \A m \in (n + 1)..Len(s) : r[m].key = s[m].key
  BY <1>1, <1>2
<1>5. {r[m].key : m \in (n + 1)..(Len(s) + 1)}
        = {s[m].key : m \in (n + 1)..Len(s)} \cup {e.key}
  BY <1>1, <1>2, <1>3, <1>4
<1> QED
  BY <1>1, <1>2, <1>5 DEF Later

\* Entry i of the recent requests rec is the send at[i] of snd, the last one
\* of its key: what was sent after it are the entries after it, and what is
\* not recent is too long ago or was sent again.
Follows(S, rec, snd, at) ==
  /\ rec \in Seq(S) /\ snd \in Seq(S) /\ Len(rec) <= Capacity
  /\ at \in [1..Len(rec) -> 1..Len(snd)]
  /\ \A i, j \in 1..Len(rec) : i < j => at[i] < at[j]
  /\ \A i \in 1..Len(rec) : rec[i] = snd[at[i]]
  /\ \A i, j \in 1..Len(rec) : i # j => rec[i].key # rec[j].key
  /\ \A i \in 1..Len(rec) : Later(snd, at[i]) = Later(rec, i)
  /\ \A n \in 1..Len(snd) :
       \/ \E i \in 1..Len(rec) : at[i] = n
       \/ snd[n].key \in Later(snd, n)
       \/ ~(Cardinality(Later(snd, n)) < Capacity)

\* After a send of e new is recent: entry i of it was entry of[i], if not e.
\* What is no longer recent was of the same key, or was before all others
\* with as many keys later as can be recent.
Renews(S, rec, e, m, of, new) ==
  /\ m \in Nat /\ m < Capacity
  /\ of \in [1..m -> 1..Len(rec)]
  /\ \A i, j \in 1..m : i < j => of[i] < of[j]
  /\ new \in Seq(S) /\ Len(new) = m + 1 /\ new[m + 1] = e
  /\ \A i \in 1..m : new[i] = rec[of[i]] /\ new[i].key # e.key
  /\ \A p \in 1..Len(rec) :
       \/ \E i \in 1..m : of[i] = p
       \/ rec[p].key = e.key
       \/ /\ \A i \in 1..m : p < of[i]
          /\ ~(Cardinality(Later(rec, p) \cup {e.key}) < Capacity)

LEMMA SendFollows ==
  ASSUME NEW S, NEW rec, NEW snd, NEW at, Follows(S, rec, snd, at),
         NEW e \in S, NEW m, NEW of, NEW new, Renews(S, rec, e, m, of, new)
  PROVE  \E to : Follows(S, new, Append(snd, e), to)
<1> DEFINE to == [i \in 1..(m + 1) |->
                    IF i = m + 1 THEN Len(snd) + 1 ELSE at[of[i]]]
           all == Append(snd, e)
<1>1. /\ Len(all) = Len(snd) + 1 /\ all[Len(snd) + 1] = e
      /\ \A n \in 1..Len(snd) : all[n] = snd[n]
      /\ all \in Seq(S) /\ Len(snd) \in Nat /\ Len(rec) \in Nat
  BY AppendProperties, LenProperties DEF Follows
<1>2. /\ Capacity \in Nat /\ m \in Nat /\ m < Capacity
      /\ new \in Seq(S) /\ Len(new) = m + 1 /\ new[m + 1] = e
  BY TreeAssumption DEF Renews
<1>3. ASSUME NEW i \in 1..m
      PROVE  /\ of[i] \in 1..Len(rec) /\ at[of[i]] \in 1..Len(snd)
             /\ to[i] = at[of[i]]
             /\ new[i] = rec[of[i]] /\ new[i].key # e.key
  <2>1. of[i] \in 1..Len(rec)
    BY DEF Renews
  <2>2. at[of[i]] \in 1..Len(snd)
    BY <2>1 DEF Follows
  <2>3. i \in 1..(m + 1) /\ i # m + 1
    BY <1>2
  <2>4. new[i] = rec[of[i]] /\ new[i].key # e.key
    BY DEF Renews
  <2> QED
    BY <2>1, <2>2, <2>3, <2>4
<1>4. to[m + 1] = Len(snd) + 1
  BY <1>2
<1>5. to \in [1..Len(new) -> 1..Len(all)]
  <2>1. ASSUME NEW i \in 1..(m + 1) PROVE to[i] \in 1..(Len(snd) + 1)
    <3>1. CASE i = m + 1
      BY <1>1, <1>4, <3>1
    <3>2. CASE i # m + 1
      <4>1. i \in 1..m
        BY <1>2, <3>2
      <4>2. to[i] \in 1..Len(snd)
        BY <1>3, <4>1
      <4> HIDE DEF to
      <4> QED
        BY <1>1, <4>2
    <3> QED
      BY <3>1, <3>2
  <2>2. to = [i \in 1..(m + 1) |-> to[i]]
    OBVIOUS
  <2> HIDE DEF to, all
  <2> QED
    BY <1>1, <1>2, <2>1, <2>2
<1> HIDE DEF to, all
<1>6. ASSUME NEW i \in 1..Len(new), NEW j \in 1..Len(new), i < j
      PROVE  to[i] < to[j]
  <2>1. i \in 1..m
    BY <1>2, <1>6
  <2>2. CASE j = m + 1
    <3>1. to[i] \in 1..Len(snd)
      BY <1>3, <2>1
    <3> QED
      BY <1>1, <1>4, <2>2, <3>1
  <2>3. CASE j # m + 1
    <3>1. j \in 1..m
      BY <1>2, <2>3
    <3>2. of[i] < of[j]
      BY <1>6, <2>1, <3>1 DEF Renews
    <3>3. at[of[i]] < at[of[j]]
      BY <1>3, <2>1, <3>1, <3>2 DEF Follows
    <3> QED
      BY <1>3, <2>1, <3>1, <3>3
  <2> QED
    BY <2>2, <2>3
<1>7. ASSUME NEW i \in 1..Len(new) PROVE new[i] = all[to[i]]
  <2>1. CASE i = m + 1
    BY <1>1, <1>2, <1>4, <2>1
  <2>2. CASE i # m + 1
    <3>1. i \in 1..m
      BY <1>2, <2>2
    <3>2. rec[of[i]] = snd[at[of[i]]]
      BY <1>3, <3>1 DEF Follows
    <3> QED
      BY <1>1, <1>3, <3>1, <3>2
  <2> QED
    BY <2>1, <2>2
<1>8. ASSUME NEW i \in 1..Len(new), NEW j \in 1..Len(new), i # j
      PROVE  new[i].key # new[j].key
  <2>1. CASE i = m + 1 \/ j = m + 1
    <3>1. \A k \in 1..m : new[k].key # e.key
      BY <1>3
    <3>2. (i \in 1..m /\ j = m + 1) \/ (j \in 1..m /\ i = m + 1)
      BY <1>2, <1>8, <2>1
    <3> QED
      BY <1>2, <3>1, <3>2
  <2>2. CASE i # m + 1 /\ j # m + 1
    <3>1. i \in 1..m /\ j \in 1..m
      BY <1>2, <2>2
    <3>2. of[i] # of[j]
      <4>1. i < j \/ j < i
        BY <1>8, <3>1
      <4>2. of[i] < of[j] \/ of[j] < of[i]
        BY <3>1, <4>1 DEF Renews
      <4> QED
        BY <1>3, <3>1, <4>2
    <3>3. rec[of[i]].key # rec[of[j]].key
      BY <1>3, <3>1, <3>2 DEF Follows
    <3> QED
      BY <1>3, <3>1, <3>3
  <2> QED
    BY <2>1, <2>2
<1>9. ASSUME NEW i \in 1..Len(new) PROVE Later(all, to[i]) = Later(new, i)
  <2>1. CASE i = m + 1
    <3>1. (to[i] + 1)..Len(all) = {} /\ (i + 1)..Len(new) = {}
      BY <1>1, <1>2, <1>4, <2>1
    <3> QED
      BY <3>1 DEF Later
  <2>2. CASE i # m + 1
    <3>1. i \in 1..m
      BY <1>2, <2>2
    <3>2. Later(all, to[i]) = Later(rec, of[i]) \cup {e.key}
      <4>1. Later(snd, at[of[i]]) = Later(rec, of[i])
        BY <1>3, <3>1 DEF Follows
      <4>2. snd \in Seq(S)
        BY DEF Follows
      <4> QED
        BY <1>3, <3>1, <4>1, <4>2, LaterGrows DEF all
    <3>0. e.key \in Later(new, i)
      <4>1. m + 1 \in (i + 1)..Len(new)
        BY <1>2, <3>1
      <4> QED
        BY <1>2, <4>1 DEF Later
    <3>3. ASSUME NEW p \in (of[i] + 1)..Len(rec)
          PROVE  rec[p].key \in Later(new, i)
      <4>0. p \in 1..Len(rec) /\ ~(p < of[i])
        BY <1>1, <1>3, <3>1
      <4>1. CASE rec[p].key = e.key
        BY <3>0, <4>1
      <4>2. CASE \E j \in 1..m : of[j] = p
        <5>1. PICK j \in 1..m : of[j] = p
          BY <4>2
        <5>2. ~(j < i) /\ j # i
          <6>1. j < i => of[j] < of[i]
            BY <3>1 DEF Renews
          <6> QED
            BY <1>3, <3>1, <4>0, <5>1, <6>1
        <5>3. j \in (i + 1)..Len(new)
          BY <1>2, <3>1, <5>2
        <5>4. new[j].key = rec[p].key
          BY <1>3, <5>1
        <5> QED
          BY <5>3, <5>4 DEF Later
      <4>3. \/ \E j \in 1..m : of[j] = p
            \/ rec[p].key = e.key
            \/ \A j \in 1..m : p < of[j]
        BY <4>0 DEF Renews
      <4> QED
        BY <3>1, <4>0, <4>1, <4>2, <4>3
    <3>5. ASSUME NEW j \in (i + 1)..Len(new)
          PROVE  new[j].key \in Later(rec, of[i]) \cup {e.key}
      <4>1. CASE j = m + 1
        BY <1>2, <4>1
      <4>2. CASE j # m + 1
        <5>1. j \in 1..m /\ i < j
          BY <1>2, <3>1, <4>2
        <5>2. of[i] < of[j]
          BY <3>1, <5>1 DEF Renews
        <5>3. of[j] \in (of[i] + 1)..Len(rec)
          BY <1>1, <1>3, <3>1, <5>1, <5>2
        <5>4. new[j].key = rec[of[j]].key
          BY <1>3, <5>1
        <5> QED
          BY <5>3, <5>4 DEF Later
      <4> QED
        BY <4>1, <4>2
    <3>6. Later(rec, of[i]) \subseteq Later(new, i)
      BY <3>3 DEF Later
    <3>7. Later(new, i) \subseteq Later(rec, of[i]) \cup {e.key}
      BY <3>5 DEF Later
    <3> QED
      BY <3>0, <3>2, <3>6, <3>7
  <2> QED
    BY <2>1, <2>2
<1>10. ASSUME NEW n \in 1..Len(all)
       PROVE  \/ \E i \in 1..Len(new) : to[i] = n
              \/ all[n].key \in Later(all, n)
              \/ ~(Cardinality(Later(all, n)) < Capacity)
  <2>1. CASE n = Len(snd) + 1
    <3>1. to[m + 1] = n /\ m + 1 \in 1..Len(new)
      BY <1>2, <1>4, <2>1
    <3> QED
      BY <3>1
  <2>2. CASE n # Len(snd) + 1
    <3>1. n \in 1..Len(snd) /\ n \in Nat
      BY <1>1, <2>2
    <3>2. Later(all, n) = Later(snd, n) \cup {e.key} /\ all[n] = snd[n]
      <4>1. snd \in Seq(S)
        BY DEF Follows
      <4> QED
        BY <1>1, <3>1, <4>1, LaterGrows DEF all
    <3>3. CASE \E p \in 1..Len(rec) : at[p] = n
      <4>1. PICK p \in 1..Len(rec) : at[p] = n
        BY <3>3
      <4>2. Later(snd, n) = Later(rec, p) /\ snd[n] = rec[p]
        BY <4>1 DEF Follows
      <4>3. CASE \E i \in 1..m : of[i] = p
        <5>1. PICK i \in 1..m : of[i] = p
          BY <4>3
        <5>2. to[i] = n /\ i \in 1..Len(new)
          BY <1>2, <1>3, <4>1, <5>1
        <5> QED
          BY <5>2
      <4>4. CASE rec[p].key = e.key
        BY <3>2, <4>2, <4>4
      <4>5. CASE ~(Cardinality(Later(rec, p) \cup {e.key}) < Capacity)
        BY <3>2, <4>2, <4>5
      <4>6. \/ \E i \in 1..m : of[i] = p
            \/ rec[p].key = e.key
            \/ ~(Cardinality(Later(rec, p) \cup {e.key}) < Capacity)
        BY <4>1 DEF Renews
      <4> QED
        BY <4>3, <4>4, <4>5, <4>6
    <3>4. CASE snd[n].key \in Later(snd, n)
      BY <3>2, <3>4
    <3>5. CASE ~(Cardinality(Later(snd, n)) < Capacity)
      <4>0. Len(all) \in Nat
        BY <1>1
      <4>1. IsFiniteSet(Later(all, n)) /\ Later(snd, n) \subseteq Later(all, n)
        BY <3>1, <3>2, <4>0, LaterFinite
      <4>2. /\ Cardinality(Later(snd, n)) <= Cardinality(Later(all, n))
            /\ IsFiniteSet(Later(snd, n))
        BY <4>1, FS_Subset
      <4>3. /\ Cardinality(Later(snd, n)) \in Nat
            /\ Cardinality(Later(all, n)) \in Nat
        BY <4>1, <4>2, FS_CardinalityType
      <4> QED
        BY <1>2, <3>5, <4>2, <4>3
    <3> QED
      BY <3>1, <3>3, <3>4, <3>5 DEF Follows
  <2> QED
    BY <2>1, <2>2
<1>11. Len(new) <= Capacity
  BY <1>2
<1>12. Follows(S, new, all, to)
  <2>1. \A i, j \in 1..Len(new) : i < j => to[i] < to[j]
    BY <1>6
  <2>2. \A i \in 1..Len(new) : new[i] = all[to[i]]
    BY <1>7
  <2>3. \A i, j \in 1..Len(new) : i # j => new[i].key # new[j].key
    BY <1>8
  <2>4. \A i \in 1..Len(new) : Later(all, to[i]) = Later(new, i)
    BY <1>9
  <2>5. \A n \in 1..Len(all) :
          \/ \E i \in 1..Len(new) : to[i] = n
          \/ all[n].key \in Later(all, n)
          \/ ~(Cardinality(Later(all, n)) < Capacity)
    BY <1>10
  <2>6. new \in Seq(S) /\ all \in Seq(S)
    BY <1>1, <1>2
  <2> QED
    BY <1>5, <1>11, <2>1, <2>2, <2>3, <2>4, <2>5, <2>6, Zenon DEF Follows
<1> QED
  BY <1>12 DEF all

\* recordRecent: the key leaves its place in the map and comes last, and the
\* oldest entry makes room.
LEMMA RecordFollows ==
  ASSUME NEW S, NEW rec, NEW snd, NEW at, Follows(S, rec, snd, at),
         NEW e \in S
  PROVE  \E to : Follows(S, Record(rec, e), Append(snd, e), to)
<1> DEFINE n == Len(rec)
           w == Without(rec, e.key)
<1>1. /\ n \in Nat /\ n <= Capacity /\ rec \in Seq(S) /\ DOMAIN rec = 1..n
      /\ Capacity \in Nat /\ Capacity > 0
      /\ \A i, j \in 1..n : i # j => rec[i].key # rec[j].key
  BY TreeAssumption DEF Follows
<1>2. CASE Holding(rec, e.key) # {}
  <2>1. PICK p : p = CHOOSE i \in Holding(rec, e.key) : TRUE
    OBVIOUS
  <2>2. p \in 1..n /\ rec[p].key = e.key /\ p \in DOMAIN rec
    BY <1>1, <1>2, <2>1 DEF Holding
  <2>3. w = RemoveAt(rec, p)
    BY <1>2, <2>1 DEF Without
  <2> DEFINE m == n - 1
             of == [i \in 1..m |-> IF i < p THEN i ELSE i + 1]
             new == Append(w, e)
  <2>4. m \in Nat /\ m < Capacity /\ m + 1 = n
    BY <1>1, <2>2
  <2>5. /\ w \in Seq(S) /\ Len(w) = m
        /\ \A i \in 1..m : w[i] = IF i < p THEN rec[i] ELSE rec[i + 1]
    <3>1. /\ RemoveAt(rec, p) \in Seq(S)
          /\ Len(RemoveAt(rec, p)) = Len(rec) - 1
          /\ \A k \in 1..Len(rec) - 1 :
               RemoveAt(rec, p)[k] = IF k < p THEN rec[k] ELSE rec[k + 1]
      BY <1>1, <2>2, Removed
    <3> HIDE DEF w
    <3> QED
      BY <2>3, <3>1
  <2> HIDE DEF w
  <2>6. /\ new \in Seq(S) /\ Len(new) = m + 1 /\ new[m + 1] = e
        /\ \A i \in 1..m : new[i] = w[i]
    BY <2>5, AppendProperties
  <2>7. Record(rec, e) = new
    BY <1>1, <2>4, <2>6 DEF Record, Bounded, w
  <2> HIDE DEF new
  <2>8. ASSUME NEW i \in 1..m
        PROVE  /\ of[i] = IF i < p THEN i ELSE i + 1
               /\ of[i] \in 1..n /\ of[i] # p
    BY <1>1, <2>2
  <2>9. of \in [1..m -> 1..n]
    BY <2>8
  <2> HIDE DEF of
  <2>10. ASSUME NEW i \in 1..m, NEW j \in 1..m, i < j PROVE of[i] < of[j]
    BY <1>1, <2>2, <2>8, <2>10
  <2>11. ASSUME NEW i \in 1..m
         PROVE  new[i] = rec[of[i]] /\ new[i].key # e.key
    <3>1. new[i] = rec[of[i]]
      BY <2>5, <2>6, <2>8
    <3> QED
      BY <1>1, <2>2, <2>8, <3>1
  <2>12. ASSUME NEW q \in 1..n
         PROVE  (\E i \in 1..m : of[i] = q) \/ rec[q].key = e.key
    <3>1. CASE q < p
      <4>1. q \in 1..m
        BY <1>1, <2>2, <3>1
      <4>2. of[q] = q
        BY <2>8, <3>1, <4>1
      <4> QED
        BY <4>1, <4>2
    <3>2. CASE q > p
      <4>1. q - 1 \in 1..m /\ ~(q - 1 < p) /\ (q - 1) + 1 = q
        BY <1>1, <2>2, <3>2
      <4>2. of[q - 1] = q
        BY <2>8, <4>1
      <4> QED
        BY <4>1, <4>2
    <3>3. CASE q = p
      BY <2>2, <3>3
    <3> QED
      BY <1>1, <2>2, <3>1, <3>2, <3>3
  <2> HIDE DEF m, n
  <2>13. Renews(S, rec, e, m, of, new)
    BY <2>4, <2>6, <2>9, <2>10, <2>11, <2>12 DEF n, Renews
  <2>14. \E to : Follows(S, new, Append(snd, e), to)
    BY <2>13, SendFollows
  <2> QED
    BY <2>7, <2>14
<1>3. CASE Holding(rec, e.key) = {}
  <2>1. w = rec /\ \A i \in 1..n : rec[i].key # e.key
    BY <1>1, <1>3 DEF Without, Holding
  <2>2. PICK more : more = Append(rec, e)
    OBVIOUS
  <2>3. /\ more \in Seq(S) /\ Len(more) = n + 1 /\ more[n + 1] = e
        /\ \A i \in 1..n : more[i] = rec[i]
    BY <1>1, <2>2, AppendProperties
  <2>4. Record(rec, e) = IF n + 1 > Capacity THEN Tail(more) ELSE more
    BY <2>1, <2>2, <2>3 DEF Record, Bounded
  <2>5. CASE n < Capacity
    <3> DEFINE of == [i \in 1..n |-> i]
    <3>1. Record(rec, e) = more
      BY <1>1, <2>4, <2>5
    <3>2. /\ of \in [1..n -> 1..n]
          /\ \A i \in 1..n : of[i] = i
      OBVIOUS
    <3> HIDE DEF of
    <3>3. /\ \A i, j \in 1..n : i < j => of[i] < of[j]
          /\ \A i \in 1..n : more[i] = rec[of[i]] /\ more[i].key # e.key
          /\ \A q \in 1..n : \E i \in 1..n : of[i] = q
      BY <2>1, <2>3, <3>2
    <3> HIDE DEF n
    <3>4. Renews(S, rec, e, n, of, more)
      BY <1>1, <2>3, <2>5, <3>2, <3>3 DEF n, Renews
    <3>5. \E to : Follows(S, more, Append(snd, e), to)
      BY <3>4, SendFollows
    <3> QED
      BY <3>1, <3>5
  <2>6. CASE n = Capacity
    <3> DEFINE m == n - 1
               of == [i \in 1..m |-> i + 1]
               new == Tail(more)
    <3>1. Record(rec, e) = new
      BY <1>1, <2>4, <2>6
    <3>2. /\ m \in Nat /\ m < Capacity /\ m + 1 = n /\ n >= 1
      BY <1>1, <2>6
    <3>3. /\ new \in Seq(S) /\ Len(new) = n
          /\ \A i \in 1..n : new[i] = more[i + 1]
      BY <2>3, <3>2, EmptySeq, HeadTailProperties
    <3> HIDE DEF new
    <3>4. /\ of \in [1..m -> 1..n]
          /\ \A i \in 1..m : of[i] = i + 1
      BY <3>2
    <3> HIDE DEF of
    <3>5. \A i, j \in 1..m : i < j => of[i] < of[j]
      BY <3>4
    <3>6. new[m + 1] = e
      BY <2>3, <3>2, <3>3
    <3>7. ASSUME NEW i \in 1..m
          PROVE  new[i] = rec[of[i]] /\ new[i].key # e.key
      <4>1. i \in 1..n /\ i + 1 \in 1..n
        BY <1>1
      <4>2. new[i] = rec[i + 1]
        BY <2>3, <3>3, <4>1
      <4> QED
        BY <2>1, <3>4, <4>1, <4>2
    <3>8. ~(Cardinality(Later(rec, 1) \cup {e.key}) < Capacity)
      <4>1. \A i, j \in 2..(n + 1) : i # j => more[i].key # more[j].key
        BY <1>1, <2>1, <2>3
      <4>0. 2 \in Nat /\ n + 1 \in Nat /\ 2 <= (n + 1) + 1
        BY <1>1, <3>2
      <4>2. Cardinality({more[j].key : j \in 2..(n + 1)}) = (n + 1) - 2 + 1
        <5> HIDE DEF n
        <5>1. PICK b : b = n + 1
          OBVIOUS
        <5>0. /\ 2 \in Nat /\ b \in Nat /\ 2 <= b + 1
              /\ \A i, j \in 2..b : i # j => more[i].key # more[j].key
          BY <4>0, <4>1, <5>1
        <5>2. Cardinality({more[j].key : j \in 2..b}) = b - 2 + 1
          BY <5>0, KeyCount, Zenon
        <5> QED
          BY <5>1, <5>2
      <4>3. 2..(n + 1) = (2..n) \cup {n + 1}
        BY <1>1, <3>2
      <4>4. \A j \in 2..n : more[j] = rec[j]
        BY <2>3
      <4>5. {more[j].key : j \in 2..(n + 1)}
              = {rec[j].key : j \in 2..n} \cup {e.key}
        BY <2>3, <4>3, <4>4
      <4>6. Later(rec, 1) = {rec[j].key : j \in 2..n}
        <5>1. 1 + 1 = 2
          OBVIOUS
        <5> QED
          BY <5>1 DEF Later
      <4>7. Later(rec, 1) \cup {e.key} = {more[j].key : j \in 2..(n + 1)}
        BY <4>5, <4>6
      <4>8. (n + 1) - 2 + 1 = Capacity
        BY <1>1, <2>6
      <4>9. Cardinality(Later(rec, 1) \cup {e.key}) = Capacity
        BY <4>2, <4>7, <4>8
      <4> QED
        BY <1>1, <4>9
    <3>9. ASSUME NEW q \in 1..n
          PROVE  \/ \E i \in 1..m : of[i] = q
                 \/ /\ \A i \in 1..m : q < of[i]
                    /\ ~(Cardinality(Later(rec, q) \cup {e.key}) < Capacity)
      <4>1. CASE q = 1
        <5>1. \A i \in 1..m : q < of[i]
          BY <3>4, <4>1
        <5> QED
          BY <3>8, <4>1, <5>1
      <4>2. CASE q # 1
        <5>1. q - 1 \in 1..m /\ (q - 1) + 1 = q
          BY <1>1, <4>2
        <5> QED
          BY <3>4, <5>1
      <4> QED
        BY <4>1, <4>2
    <3> HIDE DEF m, n
    <3>10. Renews(S, rec, e, m, of, new)
      BY <3>2, <3>3, <3>4, <3>5, <3>6, <3>7, <3>9 DEF n, Renews
    <3>11. \E to : Follows(S, new, Append(snd, e), to)
      BY <3>10, SendFollows
    <3> QED
      BY <3>1, <3>11
  <2>7. n < Capacity \/ n = Capacity
    <3>1. n \in Nat /\ Capacity \in Nat /\ n <= Capacity
      BY <1>1
    <3> HIDE DEF n
    <3> QED
      BY <3>1
  <2> QED
    BY <2>5, <2>6, <2>7
<1> QED
  BY <1>2, <1>3

\* Nothing sent, nothing recent.
LEMMA NoneFollows ==
  ASSUME NEW S
  PROVE  \E at : Follows(S, <<>>, <<>>, at)
<1>1. PICK at : at = [i \in 1..0 |-> 0]
  OBVIOUS
<1>2. /\ Len(<<>>) = 0 /\ <<>> \in Seq(S)
      /\ 1..0 = {} /\ Capacity \in Nat
  BY TreeAssumption
<1>3. PICK none : none = <<>>
  OBVIOUS
<1>4. /\ none \in Seq(S) /\ 1..Len(none) = {} /\ Len(none) <= Capacity
      /\ at \in [1..Len(none) -> 1..Len(none)]
  BY <1>1, <1>2, <1>3
<1>5. Follows(S, none, none, at)
  BY <1>4 DEF Follows
<1> QED
  BY <1>3, <1>5

\* More may be sent than has been.
LEMMA FollowsWithin ==
  ASSUME NEW S, NEW T, S \subseteq T, NEW rec, NEW snd, NEW at,
         Follows(S, rec, snd, at)
  PROVE  Follows(T, rec, snd, at)
<1>1. rec \in Seq(T) /\ snd \in Seq(T)
  BY DEF Follows
<1> QED
  BY <1>1 DEF Follows

\* Every set of numbers has a least one.
LEMMA LeastNumber ==
  ASSUME NEW T, T \subseteq Nat, T # {}
  PROVE  \E x \in T : \A y \in T : x <= y
<1> DEFINE R == OpToRel(<, Nat)
<1>1. PICK x \in T : \A y \in T : ~(<<y, x>> \in R)
  BY WFMin, NatLessThanWellFounded
<1>2. \A y \in T : ~(y < x)
  BY <1>1 DEF OpToRel
<1>3. \A y \in T : y \in Nat /\ x \in Nat
  OBVIOUS
<1> QED
  BY <1>2, <1>3

\* The fold of Init: it[1..k] is what is recent after the first k of s.
Fills(it, s, D) ==
  it = [x \in SUBSET D |->
          IF x = {} THEN <<>> ELSE Record(it[x \ {Max(x)}], s[Max(x)])]

LEMMA GreatestOf ==
  ASSUME NEW n \in Nat, NEW x \in SUBSET (1..n), n \in x
  PROVE  Max(x) = n
<1>1. PICK m : m = Max(x)
  OBVIOUS
<1>2. \E y \in x : \A z \in x : y >= z
  OBVIOUS
<1>3. m \in x /\ \A z \in x : m >= z
  BY <1>1, <1>2 DEF Max
<1> QED
  BY <1>1, <1>3

LEMMA FillsOn ==
  ASSUME NEW n \in Nat, NEW s, NEW it, Fills(it, s, 1..n)
  PROVE  \E new : Fills(new, s, 1..(n + 1))
<1> DEFINE new == [x \in SUBSET (1..(n + 1)) |->
                     IF n + 1 \in x THEN Record(it[x \ {n + 1}], s[n + 1])
                     ELSE it[x]]
<1>1. ASSUME NEW x \in SUBSET (1..(n + 1))
      PROVE  new[x] = IF x = {} THEN <<>>
                      ELSE Record(new[x \ {Max(x)}], s[Max(x)])
  <2>1. CASE n + 1 \in x
    <3>1. Max(x) = n + 1
      BY <2>1, GreatestOf
    <3>2. /\ x \ {n + 1} \in SUBSET (1..(n + 1)) /\ n + 1 \notin x \ {n + 1}
      OBVIOUS
    <3>3. new[x \ {n + 1}] = it[x \ {n + 1}]
      BY <3>2
    <3> QED
      BY <2>1, <3>1, <3>3
  <2>2. CASE n + 1 \notin x
    <3>1. x \in SUBSET (1..n) /\ new[x] = it[x]
      BY <2>2
    <3>2. it[x] = IF x = {} THEN <<>>
                  ELSE Record(it[x \ {Max(x)}], s[Max(x)])
      BY <3>1 DEF Fills
    <3>3. /\ x \ {Max(x)} \in SUBSET (1..(n + 1))
          /\ n + 1 \notin x \ {Max(x)}
      BY <2>2
    <3>4. new[x \ {Max(x)}] = it[x \ {Max(x)}]
      BY <3>3
    <3> QED
      BY <3>1, <3>2, <3>4
  <2> QED
    BY <2>1, <2>2
<1>2. new = [x \in SUBSET (1..(n + 1)) |-> new[x]]
  OBVIOUS
<1> HIDE DEF new
<1>3. Fills(new, s, 1..(n + 1))
  BY <1>1, <1>2 DEF Fills
<1> QED
  BY <1>3

LEMMA FillExists ==
  ASSUME NEW n \in Nat, NEW s
  PROVE  \E it : Fills(it, s, 1..n)
<1> DEFINE T == {k \in Nat : ~\E it : Fills(it, s, 1..k)}
<1>1. SUFFICES ASSUME T # {} PROVE FALSE
  OBVIOUS
<1>2. PICK k \in T : \A y \in T : k <= y
  BY <1>1, LeastNumber
<1>3. CASE k = 0
  <2>1. PICK it : it = [x \in SUBSET (1..0) |-> <<>>]
    OBVIOUS
  <2>2. ASSUME NEW x \in SUBSET (1..0) PROVE x = {}
    BY <2>2
  <2>3. it = [x \in SUBSET (1..0) |->
                IF x = {} THEN <<>> ELSE Record(it[x \ {Max(x)}], s[Max(x)])]
    BY <2>1, <2>2
  <2> QED
    BY <1>2, <1>3, <2>3 DEF Fills
<1>4. CASE k # 0
  <2>1. k - 1 \in Nat /\ k - 1 \notin T
    BY <1>2, <1>4
  <2>2. PICK it : Fills(it, s, 1..(k - 1))
    BY <2>1
  <2>3. \E new : Fills(new, s, 1..((k - 1) + 1))
    BY <2>1, <2>2, FillsOn
  <2>4. (k - 1) + 1 = k
    BY <1>2
  <2> QED
    BY <1>2, <2>3, <2>4
<1> QED
  BY <1>3, <1>4

\* What was sent before the tree is first shown is recorded like the rest.
LEMMA FoldFollows ==
  ASSUME NEW S, NEW s \in Seq(S)
  PROVE  \E at : Follows(S, FoldLeft(Record, <<>>, s), s, at)
<1> DEFINE n == Len(s)
           it == CHOOSE g : Fills(g, s, 1..n)
           F(k) == \E at : Follows(S, it[1..k], SubSeq(s, 1, k), at)
           T == {k \in Nat : k <= n /\ ~F(k)}
<1>1. n \in Nat /\ DOMAIN s = 1..n /\ \A k \in 1..n : s[k] \in S
  BY LenProperties, ElementOfSeq
<1>2. Fills(it, s, 1..n)
  BY <1>1, FillExists
<1>3. FoldLeft(Record, <<>>, s) = it[1..n]
  BY <1>1 DEF FoldLeft, MapThenFoldSet, Fills
<1>4. ASSUME T # {} PROVE FALSE
  <2>1. PICK k \in T : \A y \in T : k <= y
    BY <1>4, LeastNumber
  <2>2. k \in Nat /\ k <= n
    BY <2>1
  <2>0. ~F(k)
    BY <2>1
  <2> HIDE DEF T
  <2>3. it[1..k] = IF 1..k = {} THEN <<>>
                   ELSE Record(it[(1..k) \ {Max(1..k)}], s[Max(1..k)])
    <3>1. 1..k \in SUBSET (1..n)
      BY <1>1, <2>2
    <3> HIDE DEF it
    <3> QED
      BY <1>2, <3>1 DEF Fills
  <2>4. CASE k = 0
    <3>1. 1..k = {} /\ SubSeq(s, 1, k) = <<>>
      BY <2>4, SubSeqEmpty
    <3>2. it[1..k] = <<>>
      BY <2>3, <3>1
    <3> HIDE DEF it
    <3> QED
      BY <2>0, <3>1, <3>2, NoneFollows
  <2>5. CASE k # 0
    <3>1. k \in 1..k /\ k \in 1..n /\ 1..k \in SUBSET (1..k)
      BY <2>2, <2>5
    <3>2. Max(1..k) = k
      BY <2>2, <3>1, GreatestOf
    <3>3. (1..k) \ {k} = 1..(k - 1) /\ 1..k # {}
      BY <2>2, <3>1
    <3>4. it[1..k] = Record(it[1..(k - 1)], s[k])
      BY <2>3, <3>2, <3>3
    <3>5. k - 1 \in Nat /\ k - 1 <= n /\ k - 1 \notin T
      <4>1. k - 1 \in Nat /\ k - 1 <= n /\ ~(k <= k - 1)
        BY <1>1, <2>2, <2>5
      <4> QED
        BY <2>1, <4>1
    <3> HIDE DEF it
    <3>6. PICK at : Follows(S, it[1..(k - 1)], SubSeq(s, 1, k - 1), at)
      BY <3>5 DEF T
    <3>7. SubSeq(s, 1, k) = Append(SubSeq(s, 1, k - 1), s[k])
      <4>1. SubSeq(s, 1, k) = SubSeq(s, 1, k - 1) \o <<s[k]>>
        BY <1>1, <2>2, <3>1, SubSeqRecursiveSecond
      <4>2. SubSeq(s, 1, k - 1) \in Seq(S)
        BY <1>1, <2>2, <3>1, SubSeqProperties
      <4> QED
        BY <1>1, <3>1, <4>1, <4>2, AppendIsConcat
    <3>8. s[k] \in S
      BY <1>1, <3>1
    <3>9. \E to : Follows(S, Record(it[1..(k - 1)], s[k]),
                          Append(SubSeq(s, 1, k - 1), s[k]), to)
      BY <3>6, <3>8, RecordFollows
    <3> QED
      BY <2>0, <3>4, <3>7, <3>9
  <2> QED
    BY <2>4, <2>5
<1>5. F(n)
  BY <1>1, <1>4
<1>6. SubSeq(s, 1, n) = s
  BY <1>1, SubSeqFull
<1> HIDE DEF it, n
<1> QED
  BY <1>3, <1>5, <1>6

RecentsInv == \E S, at : Follows(S, recent, sends, at)

LEMMA RecentsStart ==
  ASSUME Init
  PROVE  RecentsInv
<1>1. sends \in Seq(ToSet(sends)) /\ recent = FoldLeft(Record, <<>>, sends)
  BY TreeAssumption DEF Init
<1> QED
  BY <1>1, FoldFollows DEF RecentsInv

LEMMA RecentsStep ==
  ASSUME RecentsInv, [Next]_vars
  PROVE  RecentsInv'
<1>1. CASE UNCHANGED <<recent, sends>>
  BY <1>1 DEF RecentsInv
<1>2. ASSUME NEW e, recent' = Record(recent, e), sends' = Append(sends, e)
      PROVE  RecentsInv'
  <2>1. PICK S, at : Follows(S, recent, sends, at)
    BY DEF RecentsInv
  <2>2. PICK T : T = S \cup {e}
    OBVIOUS
  <2>3. Follows(T, recent, sends, at) /\ e \in T
    BY <2>1, <2>2, FollowsWithin
  <2>4. \E to : Follows(T, Record(recent, e), Append(sends, e), to)
    BY <2>3, RecordFollows
  <2> QED
    BY <1>2, <2>4 DEF RecentsInv
<1>3. ASSUME NEW f \in Files, NEW r, Send(f, r)
      PROVE  \/ UNCHANGED <<recent, sends>>
             \/ \E e : recent' = Record(recent, e) /\ sends' = Append(sends, e)
  BY <1>3 DEF Send
<1>4. \/ UNCHANGED <<recent, sends>>
      \/ \E f \in Files : \E r : Send(f, r)
  BY DEF Next, Ask, List, WatcherReports, Settled, Toggle, OpenPrompt,
     Answer, Escape, OpenDocument, CloseDocument, Edit, DiskChanges,
     FoldersChange, FolderGoes, FolderComes, FolderChanges, Refresh, vars
<1> QED
  BY <1>1, <1>2, <1>3, <1>4

\* However often requests are sent, again or for the first time, the recent
\* ones are the last ones sent, the oldest first (RecentsAreLatest).
THEOREM RecentsStayLatest == Spec => []RecentsAreLatest
<1>1. ASSUME RecentsInv PROVE RecentsAreLatest
  <2>1. PICK S, at : Follows(S, recent, sends, at)
    BY <1>1 DEF RecentsInv
  <2> DEFINE n == Len(recent)
  <2>2. /\ n \in Nat /\ n <= Capacity /\ DOMAIN recent = 1..n
        /\ DOMAIN sends = 1..Len(sends) /\ Len(sends) \in Nat
        /\ Capacity \in Nat
    BY <2>1, TreeAssumption DEF Follows
  <2>3. ASSUME NEW i \in 1..n PROVE at[i] \in LatestSends
    <3>1. /\ at[i] \in DOMAIN sends /\ sends[at[i]] = recent[i]
          /\ Later(sends, at[i]) = Later(recent, i)
      BY <2>1, <2>2 DEF Follows
    <3>2. recent[i].key \notin Later(recent, i)
      <4>1. \A j \in (i + 1)..n : recent[j].key # recent[i].key
        BY <2>1, <2>2 DEF Follows
      <4> QED
        BY <4>1 DEF Later
    <3>3. Cardinality(Later(recent, i)) < Capacity
      <4>1. /\ i + 1 \in Nat /\ i + 1 <= n + 1
            /\ \A j, k \in (i + 1)..n : j # k => recent[j].key # recent[k].key
        BY <2>1, <2>2 DEF Follows
      <4>2. Cardinality({recent[j].key : j \in (i + 1)..n}) = n - (i + 1) + 1
        <5>1. PICK a, b : a = i + 1 /\ b = n
          OBVIOUS
        <5> HIDE DEF n
        <5>0. /\ a \in Nat /\ b \in Nat /\ a <= b + 1
              /\ \A j, k \in a..b : j # k => recent[j].key # recent[k].key
          BY <2>2, <4>1, <5>1
        <5>2. Cardinality({recent[j].key : j \in a..b}) = b - a + 1
          BY <5>0, KeyCount, Zenon
        <5> QED
          BY <5>1, <5>2
      <4>3. Cardinality(Later(recent, i)) = n - (i + 1) + 1
        BY <4>2 DEF Later
      <4> QED
        BY <2>2, <4>3
    <3> QED
      BY <3>1, <3>2, <3>3 DEF LatestSends
  <2>4. ASSUME NEW m \in LatestSends PROVE \E i \in 1..n : at[i] = m
    BY <2>1, <2>2 DEF Follows, LatestSends
  <2>5. at \in [1..n -> LatestSends]
    BY <2>1, <2>3 DEF Follows
  <2>6. \A i, j \in 1..n : at[i] = at[j] => i = j
    <3>1. ASSUME NEW i \in 1..n, NEW j \in 1..n, i < j PROVE at[i] # at[j]
      BY <2>1, <2>2, <3>1 DEF Follows
    <3> QED
      BY <2>2, <3>1
  <2>7. at \in Bijection(1..n, LatestSends)
    BY <2>4, <2>5, <2>6 DEF Bijection, Injection, Surjection, IsInjective
  <2> QED
    BY <2>1, <2>2, <2>7 DEF RecentsAreLatest, Follows
<1> QED
  BY <1>1, RecentsStart, RecentsStep, PTL DEF Spec
=============================================================================
