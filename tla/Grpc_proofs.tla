----------------------------- MODULE Grpc_proofs -----------------------------
(* Theorems about the gRPC parts: DescriptorIndex, for all sets of entries   *)
(* and requests, and ReflectionCache, for all targets, calls, times to live  *)
(* and bounds.                                                               *)
(*                                                                           *)
(* Those about the index are not about the decoder: each assumes that the    *)
(* decoder reads of every entry what the entry says that it encodes.         *)
EXTENDS DescriptorIndex, ReflectionCache, FiniteSetTheorems,
        WellFoundedInduction, TLAPS

(***************************************************************************)
(* DescriptorIndex.                                                        *)
(***************************************************************************)

\* The bytes of each entry are read as the file they encode, or not at all.
EntriesDecode ==
  \A e \in Entries :
    LET read == FileDescriptor(e.bytes, e.name) IN
    /\ read.ok <=> e.file # None
    /\ e.file # None => read.name = e.own /\ read.file = e.file

IndexTyped ==
  /\ sent \in [FileNames -> Encoded \cup {None}] /\ files = sent
  /\ services \in [ServiceNames -> FileNames \cup {None}]
  /\ definer \in [ServiceNames -> FileNames \cup {None}]

\* All names of a file.
Names(v) == Messages(v) \cup Services(v)

\* Unless two files had a name in common, each name is that of one file, and
\* the index has the names of the files that are loaded and no other.
Exact ==
  clashed = {} =>
    /\ \A n, o \in Loaded(sent) : n # o => Names(sent[n]) \cap Names(sent[o]) = {}
    /\ types = UNION {Messages(sent[n]) : n \in Loaded(sent)}
    /\ \A n \in Loaded(sent) : \A s \in Services(sent[n]) : services[s] = n

IInv == IndexTyped /\ LatestDefinitionServes /\ Exact

----------------------------------------------------------------------------
(* Files that go and come.                                                 *)

\* A service of a file is the service of a file that is loaded.
LEMMA ServedByLoaded ==
  ASSUME IInv, NEW s \in ServiceNames, services[s] # None
  PROVE  /\ services[s] \in FileNames /\ services[s] \in Loaded(sent)
         /\ s \in Services(sent[services[s]])
BY DEF IInv, IndexTyped, LatestDefinitionServes, Loaded

LEMMA ServicesNamed ==
  ASSUME NEW v \in Encoded
  PROVE  Services(v) \subseteq ServiceNames
BY DEF ServiceNames

\* What is left of the index without a file.
LEMMA WithoutFile ==
  ASSUME IInv, NEW n \in FileNames, NEW old, old = Without(Index, n)
  PROVE  /\ old.files = [files EXCEPT ![n] = None]
         /\ files[n] = None => old.types = types
         /\ files[n] # None => old.types = types \ Messages(files[n])
         /\ old.services = [s \in ServiceNames |->
                              IF services[s] = n THEN None ELSE services[s]]
<1>1. /\ Index.files = files /\ Index.types = types
      /\ Index.services = services
  BY DEF Index
<1>2. /\ files \in [FileNames -> Encoded \cup {None}]
      /\ services \in [ServiceNames -> FileNames \cup {None}]
      /\ n # None
  BY IndexAssumption DEF IInv, IndexTyped
<1>3. CASE files[n] = None
  <2>1. old = Index
    BY <1>1, <1>3 DEF Without
  <2>2. files = [files EXCEPT ![n] = None]
    BY <1>2, <1>3
  <2>3. ASSUME NEW s \in ServiceNames PROVE services[s] # n
    BY <1>2, <1>3, ServedByLoaded DEF Loaded, IInv, IndexTyped
  <2>4. services = [s \in ServiceNames |->
                      IF services[s] = n THEN None ELSE services[s]]
    BY <1>2, <2>3
  <2> QED
    BY <1>1, <1>3, <2>1, <2>2, <2>4
<1>4. CASE files[n] # None
  <2>1. old = [files |-> [files EXCEPT ![n] = None],
               types |-> types \ Messages(files[n]),
               services |-> [s \in ServiceNames |->
                               IF services[s] = n THEN None ELSE services[s]]]
    BY <1>1, <1>2, <1>4 DEF Without, TypesWithout, ServicesWithout
  <2> QED
    BY <1>4, <2>1
<1> QED
  BY <1>3, <1>4

\* What the index has become with a file.
LEMMA WithFile ==
  ASSUME IInv, NEW n \in FileNames, NEW v, NEW new, new = With(Index, n, v)
  PROVE  /\ new.files = [files EXCEPT ![n] = v]
         /\ files[n] = None => new.types = types \cup Messages(v)
         /\ files[n] # None =>
              new.types = (types \ Messages(files[n])) \cup Messages(v)
         /\ new.services = [s \in ServiceNames |->
                              IF s \in Services(v) THEN n
                              ELSE IF services[s] = n THEN None ELSE services[s]]
<1>1. PICK old : old = Without(Index, n)
  OBVIOUS
<1>2. /\ old.files = [files EXCEPT ![n] = None]
      /\ files[n] = None => old.types = types
      /\ files[n] # None => old.types = types \ Messages(files[n])
      /\ old.services = [s \in ServiceNames |->
                           IF services[s] = n THEN None ELSE services[s]]
  BY <1>1, WithoutFile
<1>3. new = [files |-> [old.files EXCEPT ![n] = v],
             types |-> old.types \cup Messages(v),
             services |-> [s \in DOMAIN old.services |->
                             IF s \in Services(v) THEN n ELSE old.services[s]]]
  BY <1>1 DEF With
<1>4. files \in [FileNames -> Encoded \cup {None}]
  BY DEF IInv, IndexTyped
<1>5. new.files = [files EXCEPT ![n] = v]
  <2>1. new.files = [old.files EXCEPT ![n] = v]
    BY <1>3
  <2>2. old.files = [files EXCEPT ![n] = None]
    BY <1>2
  <2> QED
    BY <1>4, <2>1, <2>2, Zenon
<1>6. new.services = [s \in ServiceNames |->
                        IF s \in Services(v) THEN n
                        ELSE IF services[s] = n THEN None ELSE services[s]]
  BY <1>2, <1>3
<1>7. new.types = old.types \cup Messages(v)
  BY <1>3
<1> QED
  BY <1>2, <1>5, <1>6, <1>7

----------------------------------------------------------------------------
(* The steps.                                                              *)

\* The files but one and their messages.
Rest(n) == Loaded(sent) \ {n}

\* The names of the others, when no two files have a name in common.
LEMMA TypesOfRest ==
  ASSUME IInv, clashed = {}, NEW n \in FileNames
  PROVE  /\ files[n] # None =>
              types \ Messages(files[n]) = UNION {Messages(sent[o]) : o \in Rest(n)}
         /\ files[n] = None => types = UNION {Messages(sent[o]) : o \in Rest(n)}
<1>1. /\ types = UNION {Messages(sent[o]) : o \in Loaded(sent)}
      /\ \A a, b \in Loaded(sent) :
           a # b => Names(sent[a]) \cap Names(sent[b]) = {}
      /\ DOMAIN sent = FileNames /\ files = sent
  BY DEF IInv, IndexTyped, Exact
<1>2. CASE files[n] = None
  <2>1. Rest(n) = Loaded(sent)
    BY <1>1, <1>2 DEF Rest, Loaded
  <2> QED
    BY <1>1, <1>2, <2>1
<1>3. CASE files[n] # None
  <2>1. n \in Loaded(sent)
    BY <1>1, <1>3 DEF Loaded
  <2>2. ASSUME NEW o \in Rest(n)
        PROVE  Messages(sent[o]) \cap Messages(sent[n]) = {}
    BY <1>1, <2>1, <2>2 DEF Names, Rest
  <2>3. types = Messages(sent[n]) \cup UNION {Messages(sent[o]) : o \in Rest(n)}
    BY <1>1, <2>1 DEF Rest
  <2> QED
    BY <1>1, <1>3, <2>2, <2>3
<1> QED
  BY <1>2, <1>3

LEMMA AddFileStep ==
  ASSUME EntriesDecode, IInv, NEW e \in Entries, AddFile(e)
  PROVE  IInv'
<1> DEFINE n == e.own
           v == e.file
<1>1. /\ v \in Encoded /\ v # None /\ n \in FileNames /\ n # None
      /\ Becomes(With(Index, n, v))
  BY IndexAssumption DEF AddFile, Loads, EntriesDecode, FileNames, Encoded
<1>2. /\ sent' = [sent EXCEPT ![n] = v]
      /\ definer' = [s \in ServiceNames |-> IF s \in Services(v) THEN n
                                            ELSE definer[s]]
      /\ clashed' = clashed \cup Shared(n, v)
  BY <1>1 DEF AddFile, Recall
<1> HIDE DEF n, v
<1>3. /\ files' = [files EXCEPT ![n] = v]
      /\ files[n] = None => types' = types \cup Messages(v)
      /\ files[n] # None => types' = (types \ Messages(files[n])) \cup Messages(v)
      /\ services' = [s \in ServiceNames |->
                        IF s \in Services(v) THEN n
                        ELSE IF services[s] = n THEN None ELSE services[s]]
  BY <1>1, WithFile DEF Becomes
<1>4. /\ files = sent /\ sent \in [FileNames -> Encoded \cup {None}]
      /\ services \in [ServiceNames -> FileNames \cup {None}]
      /\ definer \in [ServiceNames -> FileNames \cup {None}]
  BY DEF IInv, IndexTyped
<1>5. IndexTyped'
  BY <1>1, <1>2, <1>3, <1>4 DEF IndexTyped
<1>6. LatestDefinitionServes'
  <2>1. ASSUME NEW s \in ServiceNames
        PROVE  services'[s] =
                 IF /\ definer'[s] # None /\ sent'[definer'[s]] # None
                    /\ s \in Services(sent'[definer'[s]])
                 THEN definer'[s] ELSE None
    <3>1. services[s] = IF /\ definer[s] # None /\ sent[definer[s]] # None
                           /\ s \in Services(sent[definer[s]])
                        THEN definer[s] ELSE None
      BY DEF IInv, LatestDefinitionServes
    <3>2. CASE s \in Services(v)
      BY <1>1, <1>2, <1>3, <1>4, <3>2
    <3>3. CASE s \notin Services(v) /\ definer[s] = n
      BY <1>1, <1>2, <1>3, <1>4, <3>1, <3>3
    <3>4. CASE s \notin Services(v) /\ definer[s] # n
      BY <1>1, <1>2, <1>3, <1>4, <3>1, <3>4
    <3> QED
      BY <3>2, <3>3, <3>4
  <2> QED
    BY <2>1 DEF LatestDefinitionServes
<1>7. Loaded(sent') = Loaded(sent) \cup {n}
  BY <1>1, <1>2, <1>4 DEF Loaded
<1>8. ASSUME clashed' = {}
      PROVE  /\ \A a, b \in Loaded(sent') :
                  a # b => Names(sent'[a]) \cap Names(sent'[b]) = {}
             /\ types' = UNION {Messages(sent'[o]) : o \in Loaded(sent')}
             /\ \A o \in Loaded(sent') : \A s \in Services(sent'[o]) :
                  services'[s] = o
  <2>1. clashed = {} /\ Shared(n, v) = {}
    BY <1>2, <1>8
  <2>2. ASSUME NEW o \in Loaded(sent), o # n
        PROVE  Names(v) \cap Names(sent[o]) = {} /\ sent'[o] = sent[o]
    BY <1>2, <1>4, <2>1, <2>2 DEF Shared, Names, Loaded
  <2>3. sent'[n] = v
    BY <1>1, <1>2, <1>4
  <2>4. \A a, b \in Loaded(sent) :
          a # b => Names(sent[a]) \cap Names(sent[b]) = {}
    BY <2>1 DEF IInv, Exact
  <2>5. \A a, b \in Loaded(sent') :
          a # b => Names(sent'[a]) \cap Names(sent'[b]) = {}
    BY <1>7, <2>2, <2>3, <2>4
  <2>6. types' = UNION {Messages(sent'[o]) : o \in Loaded(sent')}
    <3>1. types' = (UNION {Messages(sent[o]) : o \in Rest(n)}) \cup Messages(v)
      BY <1>1, <1>3, <2>1, TypesOfRest
    <3>2. {Messages(sent'[o]) : o \in Loaded(sent')}
            = {Messages(sent[o]) : o \in Rest(n)} \cup {Messages(v)}
      BY <1>7, <2>2, <2>3 DEF Rest
    <3> QED
      BY <3>1, <3>2
  <2>7. ASSUME NEW o \in Loaded(sent'), NEW s \in Services(sent'[o])
        PROVE  services'[s] = o
    <3>1. CASE o = n
      <4>1. s \in ServiceNames
        BY <1>1, <2>3, <2>7, <3>1, ServicesNamed
      <4> QED
        BY <1>3, <2>3, <2>7, <3>1, <4>1
    <3>2. CASE o # n
      <4>1. o \in Loaded(sent) /\ s \in Services(sent[o]) /\ s \notin Services(v)
        BY <1>7, <2>2, <2>7, <3>2 DEF Names
      <4>2. services[s] = o
        BY <2>1, <4>1 DEF IInv, Exact
      <4>3. s \in ServiceNames
        BY <1>4, <4>1, ServicesNamed DEF Loaded
      <4> QED
        BY <1>3, <3>2, <4>1, <4>2, <4>3
    <3> QED
      BY <3>1, <3>2
  <2> QED
    BY <2>5, <2>6, <2>7
<1>9. Exact'
  BY <1>8 DEF Exact, Names, Messages, Services, Loaded
<1> QED
  BY <1>5, <1>6, <1>9 DEF IInv

LEMMA DiagnoseStep ==
  ASSUME EntriesDecode, IInv, NEW e \in Entries, Diagnose(e)
  PROVE  UNCHANGED vars
<1>1. e.file = None
  BY DEF Diagnose, EntriesDecode
<1> QED
  BY <1>1 DEF Diagnose, Recall, vars

LEMMA RemoveFileStep ==
  ASSUME IInv, NEW n \in FileNames, RemoveFile(n)
  PROVE  IInv'
<1>1. /\ Becomes(Without(Index, n)) /\ sent' = [sent EXCEPT ![n] = None]
      /\ definer' = definer /\ clashed' = clashed /\ files[n] # None
  BY DEF RemoveFile
<1>2. /\ files' = [files EXCEPT ![n] = None]
      /\ types' = types \ Messages(files[n])
      /\ services' = [s \in ServiceNames |->
                        IF services[s] = n THEN None ELSE services[s]]
  BY <1>1, WithoutFile DEF Becomes
<1>3. /\ files = sent /\ sent \in [FileNames -> Encoded \cup {None}]
      /\ services \in [ServiceNames -> FileNames \cup {None}]
      /\ definer \in [ServiceNames -> FileNames \cup {None}]
  BY DEF IInv, IndexTyped
<1>4. IndexTyped'
  BY <1>1, <1>2, <1>3 DEF IndexTyped
<1>5. LatestDefinitionServes'
  <2>1. ASSUME NEW s \in ServiceNames
        PROVE  services'[s] =
                 IF /\ definer'[s] # None /\ sent'[definer'[s]] # None
                    /\ s \in Services(sent'[definer'[s]])
                 THEN definer'[s] ELSE None
    <3>1. services[s] = IF /\ definer[s] # None /\ sent[definer[s]] # None
                           /\ s \in Services(sent[definer[s]])
                        THEN definer[s] ELSE None
      BY DEF IInv, LatestDefinitionServes
    <3> QED
      BY <1>1, <1>2, <1>3, <3>1
  <2> QED
    BY <2>1 DEF LatestDefinitionServes
<1>6. Loaded(sent') = Rest(n)
  BY <1>1, <1>3 DEF Loaded, Rest
<1>7. ASSUME clashed' = {}
      PROVE  /\ \A a, b \in Loaded(sent') :
                  a # b => Names(sent'[a]) \cap Names(sent'[b]) = {}
             /\ types' = UNION {Messages(sent'[o]) : o \in Loaded(sent')}
             /\ \A o \in Loaded(sent') : \A s \in Services(sent'[o]) :
                  services'[s] = o
  <2>1. clashed = {}
    BY <1>1, <1>7
  <2>2. ASSUME NEW o \in Rest(n)
        PROVE  o \in Loaded(sent) /\ o # n /\ sent'[o] = sent[o]
    BY <1>1, <1>3, <2>2 DEF Rest, Loaded
  <2>3. \A a, b \in Loaded(sent) :
          a # b => Names(sent[a]) \cap Names(sent[b]) = {}
    BY <2>1 DEF IInv, Exact
  <2>4. \A a, b \in Loaded(sent') :
          a # b => Names(sent'[a]) \cap Names(sent'[b]) = {}
    BY <1>6, <2>2, <2>3
  <2>5. types' = UNION {Messages(sent'[o]) : o \in Loaded(sent')}
    <3>1. types' = UNION {Messages(sent[o]) : o \in Rest(n)}
      BY <1>1, <1>2, <2>1, TypesOfRest
    <3>2. {Messages(sent'[o]) : o \in Loaded(sent')}
            = {Messages(sent[o]) : o \in Rest(n)}
      BY <1>6, <2>2
    <3> QED
      BY <3>1, <3>2
  <2>6. ASSUME NEW o \in Loaded(sent'), NEW s \in Services(sent'[o])
        PROVE  services'[s] = o
    <3>1. o \in Loaded(sent) /\ o # n /\ s \in Services(sent[o])
      BY <1>6, <2>2, <2>6
    <3>2. services[s] = o
      BY <2>1, <3>1 DEF IInv, Exact
    <3>3. s \in ServiceNames
      BY <1>3, <3>1, ServicesNamed DEF Loaded
    <3> QED
      BY <1>2, <3>1, <3>2, <3>3
  <2> QED
    BY <2>4, <2>5, <2>6
<1>8. Exact'
  BY <1>7 DEF Exact, Names, Messages, Services, Loaded
<1> QED
  BY <1>4, <1>5, <1>8 DEF IInv

\* An index with nothing in it.
LEMMA EmptyIndex ==
  ASSUME Init
  PROVE  IInv
<1>1. /\ sent = [n \in FileNames |-> None] /\ files = sent
      /\ services = [s \in ServiceNames |-> None] /\ definer = services
      /\ types = {}
  BY DEF Init, Empty
<1>2. Loaded(sent) = {}
  BY <1>1 DEF Loaded
<1> QED
  BY <1>1, <1>2 DEF IInv, IndexTyped, LatestDefinitionServes, Exact

LEMMA ClearStep ==
  ASSUME Clear
  PROVE  IInv'
<1>1. Init'
  BY DEF Clear, Becomes, Init
<1> QED
  BY <1>1, EmptyIndex, PTL

LEMMA Stutters ==
  ASSUME IInv, UNCHANGED vars
  PROVE  IInv'
BY DEF IInv, IndexTyped, LatestDefinitionServes, Exact, Loaded, vars

----------------------------------------------------------------------------
\* Whatever is sent, replaced and removed, in whatever order, each service is
\* answered for by the file that last brought it, and the names of the index
\* are those of the files that are loaded, if none ever clashed.
THEOREM IndexSound ==
  ASSUME EntriesDecode
  PROVE  Spec => []IInv
<1>1. ASSUME IInv, [Next]_vars PROVE IInv'
  <2>1. ASSUME NEW e \in Entries, AddFile(e) PROVE IInv'
    BY <1>1, <2>1, AddFileStep
  <2>2. ASSUME NEW e \in Entries, Diagnose(e) PROVE IInv'
    BY <1>1, <2>2, DiagnoseStep, Stutters
  <2>3. ASSUME NEW n \in FileNames, RemoveFile(n) PROVE IInv'
    BY <1>1, <2>3, RemoveFileStep
  <2>4. CASE Clear
    BY <2>4, ClearStep
  <2>5. CASE UNCHANGED vars
    BY <1>1, <2>5, Stutters
  <2> QED
    BY <1>1, <2>1, <2>2, <2>3, <2>4, <2>5 DEF Next
<1> QED
  BY <1>1, EmptyIndex, PTL DEF Spec

\* A service is answered for by the file that last brought it, as long as that
\* file has it (LatestDefinitionServes).
THEOREM LatestFileServes ==
  ASSUME EntriesDecode
  PROVE  Spec => []LatestDefinitionServes
<1>1. IInv => LatestDefinitionServes
  BY DEF IInv
<1> QED
  BY <1>1, IndexSound, PTL

----------------------------------------------------------------------------
(* A new index of some files.                                              *)

\* Every set of numbers has a least one.
LEMMA LeastNumber ==
  ASSUME NEW T, T \subseteq Nat, T # {}
  PROVE  \E x \in T : \A y \in T : x <= y
<1> DEFINE R == OpToRel(<, Nat)
<1>1. PICK x \in T : \A y \in T : ~(<<y, x>> \in R)
  BY WFMin, NatLessThanWellFounded
<1>2. \A y \in T : ~(y < x)
  BY <1>1 DEF OpToRel
<1>3. \A y \in T : y \in Nat /\ x \in Nat
  OBVIOUS
<1> QED
  BY <1>2, <1>3

\* The index after the first files of q, for each of them; From's last one is
\* that of all files.
Builds(it, q, fs, D) ==
  it = [s \in SUBSET D |->
          IF s = {} THEN Empty
          ELSE With(it[s \ {Max(s)}], q[Max(s)], fs[q[Max(s)]])]

LEMMA GreatestOf ==
  ASSUME NEW n \in Nat, NEW s \in SUBSET (1..n), n \in s
  PROVE  Max(s) = n
<1>1. PICK m : m = Max(s)
  OBVIOUS
<1>2. \E x \in s : \A y \in s : x >= y
  OBVIOUS
<1>3. m \in s /\ \A y \in s : m >= y
  BY <1>1, <1>2 DEF Max
<1> QED
  BY <1>1, <1>3

\* With one file more.
LEMMA BuildsOn ==
  ASSUME NEW n \in Nat, NEW q, NEW fs, NEW it, Builds(it, q, fs, 1..n)
  PROVE  \E new : Builds(new, q, fs, 1..(n + 1))
<1> DEFINE new == [s \in SUBSET (1..(n + 1)) |->
                     IF n + 1 \in s
                     THEN With(it[s \ {n + 1}], q[n + 1], fs[q[n + 1]])
                     ELSE it[s]]
<1>1. ASSUME NEW s \in SUBSET (1..(n + 1))
      PROVE  new[s] = IF s = {} THEN Empty
                      ELSE With(new[s \ {Max(s)}], q[Max(s)], fs[q[Max(s)]])
  <2>1. CASE n + 1 \in s
    <3>1. Max(s) = n + 1
      BY <2>1, GreatestOf
    <3>2. /\ s \ {n + 1} \in SUBSET (1..(n + 1)) /\ n + 1 \notin s \ {n + 1}
      OBVIOUS
    <3>3. new[s \ {n + 1}] = it[s \ {n + 1}]
      BY <3>2
    <3> QED
      BY <2>1, <3>1, <3>3
  <2>2. CASE n + 1 \notin s
    <3>1. s \in SUBSET (1..n)
      BY <2>2
    <3>2. new[s] = it[s]
      BY <2>2
    <3>3. it[s] = IF s = {} THEN Empty
                  ELSE With(it[s \ {Max(s)}], q[Max(s)], fs[q[Max(s)]])
      BY <3>1 DEF Builds
    <3>4. /\ s \ {Max(s)} \in SUBSET (1..(n + 1))
          /\ n + 1 \notin s \ {Max(s)}
      BY <2>2
    <3>5. new[s \ {Max(s)}] = it[s \ {Max(s)}]
      BY <3>4
    <3> QED
      BY <3>2, <3>3, <3>5
  <2> QED
    BY <2>1, <2>2
<1>2. Builds(new, q, fs, 1..(n + 1))
  <2>1. new = [s \in SUBSET (1..(n + 1)) |-> new[s]]
    OBVIOUS
  <2> HIDE DEF new
  <2> QED
    BY <1>1, <2>1 DEF Builds
<1> QED
  BY <1>2

LEMMA BuildExists ==
  ASSUME NEW n \in Nat, NEW q, NEW fs
  PROVE  \E it : Builds(it, q, fs, 1..n)
<1> DEFINE T == {k \in Nat : ~\E it : Builds(it, q, fs, 1..k)}
<1>1. SUFFICES ASSUME T # {} PROVE FALSE
  OBVIOUS
<1>2. PICK k \in T : \A y \in T : k <= y
  BY <1>1, LeastNumber
<1>3. CASE k = 0
  <2>1. PICK it : it = [s \in SUBSET (1..0) |-> Empty]
    OBVIOUS
  <2>2. ASSUME NEW s \in SUBSET (1..0) PROVE s = {}
    BY <2>2
  <2>3. it = [s \in SUBSET (1..0) |->
                IF s = {} THEN Empty
                ELSE With(it[s \ {Max(s)}], q[Max(s)], fs[q[Max(s)]])]
    BY <2>1, <2>2
  <2> QED
    BY <1>2, <1>3, <2>3 DEF Builds
<1>4. CASE k # 0
  <2>1. k - 1 \in Nat /\ k - 1 \notin T
    BY <1>2, <1>4
  <2>2. PICK it : Builds(it, q, fs, 1..(k - 1))
    BY <2>1
  <2>3. \E new : Builds(new, q, fs, 1..((k - 1) + 1))
    BY <2>1, <2>2, BuildsOn
  <2>4. (k - 1) + 1 = k
    BY <1>2
  <2> QED
    BY <1>2, <2>3, <2>4
<1> QED
  BY <1>3, <1>4

\* DescriptorIndex.from takes the files in some order, one after the other.
LEMMA FromBuilds ==
  ASSUME NEW fs, IsFiniteSet(Loaded(fs))
  PROVE  \E n \in Nat : \E q, it :
           /\ q \in [1..n -> Loaded(fs)]
           /\ \A i, j \in 1..n : q[i] = q[j] => i = j
           /\ \A f \in Loaded(fs) : \E i \in 1..n : q[i] = f
           /\ Builds(it, q, fs, 1..n) /\ From(fs) = it[1..n]
<1> DEFINE S == Loaded(fs)
           n == Cardinality(S)
           q == SetToSeq(S)
           it == CHOOSE g : Builds(g, q, fs, 1..n)
<1>1. n \in Nat /\ ExistsBijection(1..n, S)
  BY FS_CardinalityType
<1>2. q \in [1..n -> S] /\ IsInjective(q)
  BY <1>1 DEF SetToSeq, ExistsBijection, Bijection, Injection
<1>3. q \in Surjection(1..n, S)
  <2>1. q \in Injection(1..n, S)
    BY <1>2 DEF Injection
  <2>2. Cardinality(1..n) = n
    BY <1>1, FS_Interval
  <2> QED
    BY <2>1, <2>2, FS_Injection
<1>4. Builds(it, q, fs, 1..n)
  BY <1>1, BuildExists
<1>5. DOMAIN q = 1..n
  BY <1>2
<1>6. From(fs) = it[1..n]
  BY <1>5 DEF From, FoldLeft, MapThenFoldSet, Builds
<1>7. /\ \A i, j \in 1..n : q[i] = q[j] => i = j
      /\ \A f \in Loaded(fs) : \E i \in 1..n : q[i] = f
  BY <1>2, <1>3 DEF IsInjective, Surjection
<1> HIDE DEF S, n, q, it
<1> QED
  BY <1>1, <1>2, <1>4, <1>6, <1>7 DEF S

\* What an index of these files is, if no two of them have a name in common:
\* it has no freedom but the answer for names that no file has.
IsIndexOf(idx, fs) ==
  /\ idx = [files |-> fs, types |-> UNION {Messages(fs[n]) : n \in Loaded(fs)},
            services |-> idx.services]
  /\ idx.services = [s \in ServiceNames |-> idx.services[s]]
  /\ \A s \in ServiceNames :
       idx.services[s] # None =>
         /\ idx.services[s] \in Loaded(fs)
         /\ s \in Services(fs[idx.services[s]])
  /\ \A n \in Loaded(fs) : \A s \in Services(fs[n]) : idx.services[s] = n

LEMMA OneIndex ==
  ASSUME NEW fs, fs \in [FileNames -> Encoded \cup {None}], NEW a, NEW b,
         IsIndexOf(a, fs), IsIndexOf(b, fs)
  PROVE  a = b
<1>1. ASSUME NEW s \in ServiceNames PROVE a.services[s] = b.services[s]
  <2>1. CASE \E n \in Loaded(fs) : s \in Services(fs[n])
    BY <2>1 DEF IsIndexOf
  <2>2. CASE ~\E n \in Loaded(fs) : s \in Services(fs[n])
    BY <2>2 DEF IsIndexOf
  <2> QED
    BY <2>1, <2>2
<1>2. a.services = b.services
  BY <1>1 DEF IsIndexOf
<1> QED
  BY <1>2 DEF IsIndexOf

LEMMA EmptyIsIndex ==
  ASSUME NEW fs, fs = [n \in FileNames |-> None]
  PROVE  IsIndexOf(Empty, fs)
<1>1. Loaded(fs) = {}
  BY DEF Loaded
<1> QED
  BY <1>1 DEF Empty, IsIndexOf

\* A file that the index does not have is added.
LEMMA IndexGrows ==
  ASSUME NEW fs, fs \in [FileNames -> Encoded \cup {None}],
         NEW n \in FileNames, fs[n] = None, NEW v \in Encoded,
         NEW idx, IsIndexOf(idx, fs),
         \A o \in Loaded(fs) : Names(fs[o]) \cap Names(v) = {}
  PROVE  IsIndexOf(With(idx, n, v), [fs EXCEPT ![n] = v])
<1> DEFINE new == With(idx, n, v)
           gs == [fs EXCEPT ![n] = v]
<1>1. /\ idx.files = fs
      /\ idx.types = UNION {Messages(fs[o]) : o \in Loaded(fs)}
      /\ idx.services = [s \in ServiceNames |-> idx.services[s]]
      /\ n # None /\ v # None
  BY IndexAssumption DEF IsIndexOf, Encoded
<1>2. Without(idx, n) = idx
  BY <1>1 DEF Without
<1>3. new = [files |-> gs, types |-> idx.types \cup Messages(v),
             services |-> [s \in ServiceNames |->
                             IF s \in Services(v) THEN n ELSE idx.services[s]]]
  BY <1>1, <1>2 DEF With
<1>4. /\ Loaded(gs) = Loaded(fs) \cup {n} /\ gs[n] = v /\ n \notin Loaded(fs)
      /\ \A o \in Loaded(fs) : gs[o] = fs[o] /\ fs[o] \in Encoded
  BY <1>1 DEF Loaded
<1> HIDE DEF new, gs
<1>5. new.types = UNION {Messages(gs[o]) : o \in Loaded(gs)}
  <2>1. {Messages(gs[o]) : o \in Loaded(gs)}
          = {Messages(fs[o]) : o \in Loaded(fs)} \cup {Messages(v)}
    BY <1>4
  <2> QED
    BY <1>1, <1>3, <2>1
<1>6. new = [files |-> gs,
             types |-> UNION {Messages(gs[o]) : o \in Loaded(gs)},
             services |-> new.services]
  BY <1>3, <1>5
<1>7. ASSUME NEW s \in ServiceNames, new.services[s] # None
      PROVE  /\ new.services[s] \in Loaded(gs)
             /\ s \in Services(gs[new.services[s]])
  <2>1. CASE s \in Services(v)
    BY <1>3, <1>4, <2>1
  <2>2. CASE s \notin Services(v)
    <3>1. new.services[s] = idx.services[s]
      BY <1>3, <2>2
    <3>2. /\ idx.services[s] \in Loaded(fs)
          /\ s \in Services(fs[idx.services[s]])
      BY <1>7, <3>1 DEF IsIndexOf
    <3> QED
      BY <1>4, <3>1, <3>2
  <2> QED
    BY <2>1, <2>2
<1>8. ASSUME NEW o \in Loaded(gs), NEW s \in Services(gs[o])
      PROVE  new.services[s] = o
  <2>1. CASE o = n
    <3>1. s \in Services(v) /\ s \in ServiceNames
      BY <1>4, <2>1, ServicesNamed
    <3> QED
      BY <1>3, <2>1, <3>1
  <2>2. CASE o # n
    <3>1. o \in Loaded(fs) /\ s \in Services(fs[o]) /\ fs[o] \in Encoded
      BY <1>4, <2>2
    <3>2. s \notin Services(v) /\ s \in ServiceNames
      BY <3>1, ServicesNamed DEF Names
    <3>3. idx.services[s] = o
      BY <3>1 DEF IsIndexOf
    <3> QED
      BY <1>3, <3>2, <3>3
  <2> QED
    BY <2>1, <2>2
<1>9. new.services = [s \in ServiceNames |-> new.services[s]]
  BY <1>3
<1> QED
  BY <1>6, <1>7, <1>8, <1>9 DEF IsIndexOf, new, gs

\* A new index of files without names in common is their index.
LEMMA FromIsIndex ==
  ASSUME NEW fs, fs \in [FileNames -> Encoded \cup {None}],
         IsFiniteSet(Loaded(fs)),
         \A a, b \in Loaded(fs) :
           a # b => Names(fs[a]) \cap Names(fs[b]) = {}
  PROVE  IsIndexOf(From(fs), fs)
<1>0. PICK n \in Nat : \E q, it :
          /\ q \in [1..n -> Loaded(fs)]
          /\ \A i, j \in 1..n : q[i] = q[j] => i = j
          /\ \A f \in Loaded(fs) : \E i \in 1..n : q[i] = f
          /\ Builds(it, q, fs, 1..n) /\ From(fs) = it[1..n]
  BY FromBuilds
<1>1. PICK q, it :
        /\ q \in [1..n -> Loaded(fs)]
        /\ \A i, j \in 1..n : q[i] = q[j] => i = j
        /\ \A f \in Loaded(fs) : \E i \in 1..n : q[i] = f
        /\ Builds(it, q, fs, 1..n) /\ From(fs) = it[1..n]
  BY <1>0
<1> DEFINE Only(k) == [f \in FileNames |->
                         IF \E i \in 1..k : q[i] = f THEN fs[f] ELSE None]
           T == {k \in Nat : k <= n /\ ~IsIndexOf(it[1..k], Only(k))}
<1>2. ASSUME T # {} PROVE FALSE
  <2>1. PICK k \in T : \A y \in T : k <= y
    BY <1>2, LeastNumber
  <2>2. k \in Nat /\ k <= n /\ ~IsIndexOf(it[1..k], Only(k))
    BY <2>1
  <2>3. it[1..k] = IF 1..k = {} THEN Empty
                   ELSE With(it[(1..k) \ {Max(1..k)}], q[Max(1..k)],
                             fs[q[Max(1..k)]])
    <3>1. 1..k \in SUBSET (1..n)
      BY <2>2
    <3> QED
      BY <1>1, <3>1 DEF Builds
  <2>4. CASE k = 0
    <3>1. 1..k = {}
      BY <2>4
    <3>2. Only(k) = [f \in FileNames |-> None]
      BY <3>1
    <3>3. it[1..k] = Empty
      BY <2>3, <3>1
    <3> HIDE DEF Only
    <3>4. IsIndexOf(Empty, Only(k))
      BY <3>2, EmptyIsIndex
    <3> QED
      BY <2>2, <3>3, <3>4
  <2>5. CASE k # 0
    <3>1. k \in 1..k /\ k \in 1..n /\ 1..k \in SUBSET (1..k)
      BY <2>2, <2>5
    <3>2. Max(1..k) = k
      BY <2>2, <3>1, GreatestOf
    <3>3. (1..k) \ {k} = 1..(k - 1) /\ 1..k # {}
      BY <2>2, <3>1
    <3>4. it[1..k] = With(it[1..(k - 1)], q[k], fs[q[k]])
      BY <2>3, <3>2, <3>3
    <3>5. k - 1 \in Nat /\ k - 1 <= n /\ k - 1 \notin T
      BY <2>1, <2>2, <2>5
    <3>6. IsIndexOf(it[1..(k - 1)], Only(k - 1))
      BY <3>5
    <3>7. /\ q[k] \in Loaded(fs) /\ q[k] \in FileNames
          /\ fs[q[k]] \in Encoded
      BY <1>1, <3>1 DEF Loaded
    <3>8. ~\E i \in 1..(k - 1) : q[i] = q[k]
      BY <1>1, <2>2, <3>1
    <3>9. /\ Only(k - 1) \in [FileNames -> Encoded \cup {None}]
          /\ Only(k - 1)[q[k]] = None
      BY <3>7, <3>8
    <3>10. ASSUME NEW o \in Loaded(Only(k - 1))
           PROVE  Names(Only(k - 1)[o]) \cap Names(fs[q[k]]) = {}
      <4>1. o \in FileNames /\ Only(k - 1)[o] # None
        BY DEF Loaded
      <4>2. o \in Loaded(fs) /\ Only(k - 1)[o] = fs[o]
        BY <4>1 DEF Loaded
      <4>3. o # q[k]
        BY <3>9, <4>1
      <4> QED
        BY <3>7, <4>2, <4>3
    <3>11. Only(k) = [Only(k - 1) EXCEPT ![q[k]] = fs[q[k]]]
      <4>1. ASSUME NEW f \in FileNames
            PROVE  Only(k)[f] = IF f = q[k] THEN fs[f] ELSE Only(k - 1)[f]
        <5>1. 1..k = (1..(k - 1)) \cup {k}
          BY <2>2, <2>5
        <5> QED
          BY <5>1
      <4>2. Only(k - 1) = [f \in FileNames |-> Only(k - 1)[f]]
        BY <3>9
      <4>3. Only(k) = [f \in FileNames |-> Only(k)[f]]
        OBVIOUS
      <4> HIDE DEF Only
      <4> QED
        BY <3>7, <4>1, <4>2, <4>3
    <3> HIDE DEF Only
    <3>12. PICK before, idx, f, v :
             /\ before = Only(k - 1) /\ idx = it[1..(k - 1)]
             /\ f = q[k] /\ v = fs[q[k]]
      OBVIOUS
    <3>13. IsIndexOf(With(idx, f, v), [before EXCEPT ![f] = v])
      BY <3>6, <3>7, <3>9, <3>10, <3>12, IndexGrows
    <3>14. IsIndexOf(it[1..k], Only(k))
      BY <3>4, <3>11, <3>12, <3>13
    <3> QED
      BY <2>2, <3>14
  <2> QED
    BY <2>4, <2>5
<1>3. IsIndexOf(it[1..n], Only(n))
  BY <1>2
<1>4. Only(n) = fs
  <2>1. ASSUME NEW f \in FileNames PROVE Only(n)[f] = fs[f]
    BY <1>1 DEF Loaded
  <2>2. Only(n) = [f \in FileNames |-> Only(n)[f]]
    OBVIOUS
  <2> HIDE DEF Only
  <2> QED
    BY <2>1, <2>2
<1> QED
  BY <1>1, <1>3, <1>4

\* Only finitely many files are ever loaded.
Few == IsFiniteSet(Loaded(sent))

LEMMA FewStay ==
  ASSUME EntriesDecode
  PROVE  Spec => []Few
<1>1. ASSUME Init PROVE Few
  <2>1. Loaded(sent) = {}
    BY <1>1 DEF Init, Empty, Loaded
  <2> QED
    BY <2>1, FS_EmptySet DEF Few
<1>2. ASSUME IInv, Few, [Next]_vars PROVE Few'
  <2>1. DOMAIN sent = FileNames
    BY <1>2 DEF IInv, IndexTyped
  <2>2. ASSUME NEW e \in Entries, Recall(e) PROVE Few'
    <3>1. Loaded(sent') \subseteq Loaded(sent) \cup {e.own}
      BY <2>1, <2>2 DEF Recall, Loaded
    <3>2. IsFiniteSet(Loaded(sent) \cup {e.own})
      BY <1>2, FS_AddElement DEF Few
    <3> QED
      BY <3>1, <3>2, FS_Subset DEF Few, Loaded
  <2>3. ASSUME NEW n \in FileNames, RemoveFile(n) PROVE Few'
    <3>1. Loaded(sent') \subseteq Loaded(sent)
      BY <2>1, <2>3 DEF RemoveFile, Loaded
    <3> QED
      BY <1>2, <3>1, FS_Subset DEF Few, Loaded
  <2>4. CASE Clear
    <3>1. Loaded(sent') = {}
      BY <2>4 DEF Clear, Empty, Loaded
    <3> QED
      BY <3>1, FS_EmptySet DEF Few, Loaded
  <2>5. CASE UNCHANGED vars
    BY <1>2, <2>5 DEF Few, Loaded, vars
  <2> QED
    BY <1>2, <2>2, <2>3, <2>4, <2>5 DEF Next, AddFile, Diagnose
<1> QED
  BY <1>1, <1>2, IndexSound, PTL DEF Spec

\* Unless names clashed, the index is that of a new one made of what was last
\* sent of each file that is loaded, in whatever order DescriptorIndex.from
\* takes them: no replacement or removal leaves a trace.
THEOREM IndexHasNoHistory ==
  ASSUME EntriesDecode
  PROVE  Spec => [](clashed = {} => Index = From(sent))
<1>1. ASSUME IInv, Few, clashed = {} PROVE Index = From(sent)
  <2>1. /\ \A a, b \in Loaded(sent) :
             a # b => Names(sent[a]) \cap Names(sent[b]) = {}
        /\ types = UNION {Messages(sent[n]) : n \in Loaded(sent)}
        /\ \A n \in Loaded(sent) : \A s \in Services(sent[n]) : services[s] = n
        /\ files = sent /\ services \in [ServiceNames -> FileNames \cup {None}]
        /\ sent \in [FileNames -> Encoded \cup {None}]
    BY <1>1 DEF IInv, IndexTyped, Exact
  <2>2. IsIndexOf(From(sent), sent)
    BY <1>1, <2>1, FromIsIndex DEF Few
  <2>3. IsIndexOf(Index, sent)
    <3>1. Index.services = services
      BY DEF Index
    <3>2. Index = [files |-> sent,
                   types |-> UNION {Messages(sent[n]) : n \in Loaded(sent)},
                   services |-> services]
      BY <2>1 DEF Index
    <3> QED
      BY <1>1, <2>1, <3>1, <3>2, ServedByLoaded DEF IsIndexOf
  <2> QED
    BY <2>1, <2>2, <2>3, OneIndex
<1> QED
  BY <1>1, IndexSound, FewStay, PTL

\* So every request is reported on as by a new index (RefreshedLikeFresh).
THEOREM RefreshesLikeFresh ==
  ASSUME EntriesDecode
  PROVE  Spec => []RefreshedLikeFresh
<1>1. ASSUME clashed = {} => Index = From(sent) PROVE RefreshedLikeFresh
  BY <1>1 DEF RefreshedLikeFresh
<1> QED
  BY <1>1, IndexHasNoHistory, PTL

(***************************************************************************)
(* ReflectionCache.                                                        *)
(***************************************************************************)

Began(f) == fetch[f].state # "none"

\* A fetch has a target and was started by the call that it is named after;
\* one whose fetcher threw has failed.
FetchInv ==
  \A f \in Calls :
    /\ Began(f) => fetch[f].target \in Targets /\ call[f].state # "none"
    /\ fetch[f].threw => fetch[f].state = "failed"

\* The map holds the fetch that runs for a target, unless clear() made it
\* forget one that has not ended.
HeldInv ==
  \A f \in Calls :
    fetch[f].state = "running" =>
      \/ inflight[fetch[f].target] = f
      \/ fetch[f].target \in cleared

\* Only fetches of the target that have ended are outdated.
OutdatedInv ==
  \A t \in Targets : \A f \in outdated[t] :
    fetch[f].state \in {"served", "failed"}

\* An entry is from a fetch of its target that served, and is not outdated.
EntryInv ==
  \A t \in Targets : entries[t] # Undefined =>
    /\ fetch[entries[t].from].state = "served"
    /\ fetch[entries[t].from].target = t
    /\ entries[t].from \notin outdated[t]

\* A call that waits does so for a fetch of its target that is running.
WaitInv ==
  \A c \in Calls : call[c].state = "waiting" =>
    /\ fetch[call[c].on].state = "running"
    /\ fetch[call[c].on].target = call[c].target
    /\ call[c].on \in Calls /\ call[c].on \notin call[c].outdated
    /\ call[c].at <= now

\* A call that was served still is what it was when it was served.
ServedInv(c) ==
  call[c].state = "served" =>
    /\ call[c].on \in Calls
    /\ fetch[call[c].on].state = "served"
    /\ fetch[call[c].on].target = call[c].target
    /\ call[c].on \notin call[c].outdated
    /\ ttl > 0 => call[c].at < call[c].expires

CacheInv ==
  /\ FetchInv /\ HeldInv /\ OutdatedInv /\ EntryInv /\ WaitInv
  /\ FailuresAreRetried
  /\ \A c \in Calls : ServedInv(c)

----------------------------------------------------------------------------
(* Types.                                                                  *)

\* The calls that waited for a fetch get what it gives.
LEMMA SettledCallTyped ==
  ASSUME TypeOK, NEW f \in Calls, NEW state \in {"served", "failed"},
         Settle(f, state), NEW c \in Calls
  PROVE  call'[c] \in CallStates
<1>1. now + ttl \in 0..(MaxTime + ttl)
  BY CacheAssumption DEF TypeOK
<1>2. call[c] \in CallStates
  BY DEF TypeOK
<1>3. [call[c] EXCEPT !.state = state, !.expires = now + ttl] \in CallStates
  BY <1>1, <1>2 DEF CallStates
<1> QED
  BY <1>2, <1>3 DEF Settle

\* A call as it is made.
LEMMA MadeTyped ==
  ASSUME TypeOK, NEW t \in Targets
  PROVE  /\ Made(t) \in CallStates
         /\ Made(t).target = t /\ Made(t).at = now
         /\ Made(t).outdated = outdated[t]
<1>1. ttl \in Nat /\ now \in 0..MaxTime /\ outdated[t] \subseteq Calls
  BY CacheAssumption DEF TypeOK
<1>2. NoCall \in CallStates
  BY <1>1, CacheAssumption DEF NoCall, CallStates
<1> QED
  BY <1>1, <1>2 DEF Made, CallStates

LEMMA TypeInit == CacheInit => TypeOK
<1> SUFFICES ASSUME CacheInit PROVE TypeOK
  OBVIOUS
<1>1. ttl \in Nat /\ MaxTime \in Nat
  BY CacheAssumption DEF CacheInit
<1>2. NoFetch \in Fetches
  BY DEF NoFetch, Fetches
<1>3. NoCall \in CallStates
  BY <1>1 DEF NoCall, CallStates
<1> QED
  BY <1>1, <1>2, <1>3 DEF CacheInit, TypeOK

LEMMA TypeStep == TypeOK /\ [CacheNext]_cacheVars => TypeOK'
<1> SUFFICES ASSUME TypeOK, [CacheNext]_cacheVars PROVE TypeOK'
  OBVIOUS
<1>1. /\ ttl \in Nat /\ MaxTime \in Nat /\ now \in Nat /\ now <= MaxTime
      /\ now + ttl \in 0..(MaxTime + ttl)
  BY CacheAssumption DEF TypeOK
<1>made. ASSUME NEW t \in Targets PROVE Made(t) \in CallStates
  BY MadeTyped
<1>2. ASSUME NEW c \in Calls, NEW t \in Targets, GetCached(c, t)
      PROVE  TypeOK'
  <2>1. entries[t] \in Entry
    BY <1>2 DEF TypeOK, GetCached, Lives
  <2>2. [Made(t) EXCEPT !.state = "served", !.on = entries[t].from,
                        !.expires = entries[t].expiresAt] \in CallStates
    BY <2>1, <1>made DEF Entry, CallStates
  <2> QED
    BY <1>2, <2>2 DEF GetCached, TypeOK, Entry, CallStates
<1>3. ASSUME NEW c \in Calls, NEW t \in Targets, GetShared(c, t)
      PROVE  TypeOK'
  <2>1. inflight[t] \in Calls
    BY <1>3 DEF TypeOK, GetShared, InFlight
  <2>2. \A state \in {"waiting", "failed"} :
          [Made(t) EXCEPT !.state = state, !.on = inflight[t]] \in CallStates
    BY <2>1, <1>made DEF CallStates
  <2> QED
    BY <1>3, <2>2 DEF GetShared, TypeOK, Entry, CallStates
<1>4. ASSUME NEW c \in Calls, NEW t \in Targets, NEW threw \in BOOLEAN,
             GetFetched(c, t, threw)
      PROVE  TypeOK'
  <2>1. \A state \in {"waiting", "failed"} :
          [Made(t) EXCEPT !.state = state, !.on = c] \in CallStates
    BY <1>made DEF CallStates
  <2>2. \A state \in {"running", "failed"} :
          [state |-> state, target |-> t, threw |-> threw] \in Fetches
    BY DEF Fetches
  <2>3. call' \in [Calls -> CallStates]
    BY <1>4, <2>1 DEF GetFetched, TypeOK
  <2>4. fetch' \in [Calls -> Fetches]
    BY <1>4, <2>2 DEF GetFetched, TypeOK
  <2> QED
    BY <1>4, <2>3, <2>4 DEF GetFetched, TypeOK, Entry, CallStates
<1>5. ASSUME NEW f \in Calls, NEW state \in {"served", "failed"},
             Settle(f, state)
      PROVE  TypeOK'
  <2>1. call' \in [Calls -> CallStates]
    BY <1>5, SettledCallTyped DEF Settle
  <2>2. fetch' \in [Calls -> Fetches]
    BY <1>5 DEF Settle, TypeOK, Fetches
  <2>3. entries' \in [Targets -> Entry \cup {Undefined}]
    BY <1>1, <1>5 DEF Settle, TypeOK, Entry
  <2>4. /\ inflight' \in [Targets -> Calls \cup {Undefined}]
        /\ cleared' \subseteq Targets
    BY <1>5 DEF Settle, Released, TypeOK
  <2> QED
    BY <1>5, <2>1, <2>2, <2>3, <2>4 DEF Settle, TypeOK, Entry, CallStates
<1>6. ASSUME NEW ts \in SUBSET Targets
      PROVE  Outdates(ts) \in [Targets -> SUBSET Calls]
  BY DEF Outdates, Ended, TypeOK
<1>7. ASSUME NEW t \in Targets, Invalidate(t)
      PROVE  TypeOK'
  BY <1>6, <1>7 DEF Invalidate, TypeOK, Entry, CallStates
<1>8. CASE ClearCache
  BY <1>6, <1>8 DEF ClearCache, TypeOK, Entry, CallStates
<1>9. CASE Size
  BY <1>9 DEF Size, TypeOK, Entry, CallStates
<1>10. CASE Tick
  BY <1>1, <1>10 DEF Tick, TypeOK, Entry, CallStates
<1>11. CASE UNCHANGED cacheVars
  BY <1>11 DEF cacheVars, TypeOK, Entry, CallStates
<1> QED
  BY <1>2, <1>3, <1>4, <1>5, <1>7, <1>8, <1>9, <1>10, <1>11 DEF CacheNext

\* Every variable keeps its type, whatever calls are made when.
THEOREM CacheTyped == CacheSpec => []TypeOK
  BY TypeInit, TypeStep, PTL DEF CacheSpec

----------------------------------------------------------------------------
(* The invariant.                                                          *)

LEMMA InvInit == CacheInit => CacheInv
  BY DEF CacheInit, CacheInv, FetchInv, HeldInv, OutdatedInv, EntryInv, WaitInv,
         FailuresAreRetried, ServedInv, Began, NoFetch, NoCall

\* A call that is answered at once, or that joins a fetch.
LEMMA GetStep ==
  ASSUME TypeOK, CacheInv, NEW c \in Calls, NEW t \in Targets,
         GetCached(c, t) \/ GetShared(c, t)
  PROVE  CacheInv'
<1> DEFINE mine == call'[c]
<1>1. /\ call[c].state = "none"
      /\ UNCHANGED <<ttl, now, entries, inflight, fetch, outdated, cleared>>
      /\ \A d \in Calls \ {c} : call'[d] = call[d]
      /\ mine.state # "none"
  <2>1. CASE GetCached(c, t)
    BY <2>1, MadeTyped DEF GetCached, TypeOK, CallStates
  <2>2. CASE GetShared(c, t)
    BY <2>2, MadeTyped DEF GetShared, TypeOK, CallStates
  <2> QED
    BY <2>1, <2>2
<1>2. FetchInv' /\ HeldInv' /\ OutdatedInv' /\ EntryInv' /\ FailuresAreRetried'
  BY <1>1 DEF CacheInv, FetchInv, HeldInv, OutdatedInv, EntryInv,
              FailuresAreRetried, Began
<1>3. CASE GetCached(c, t)
  <2>1. /\ entries[t] \in Entry /\ entries[t].expiresAt > now
        /\ entries[t].from \in Calls /\ entries[t] # Undefined
    BY <1>3 DEF GetCached, Lives, TypeOK, Entry
  <2>2. /\ mine.state = "served" /\ mine.on = entries[t].from
        /\ mine.expires = entries[t].expiresAt /\ mine.at = now
        /\ mine.target = t /\ mine.outdated = outdated[t]
    BY <1>3, MadeTyped DEF GetCached, TypeOK
  <2>3. ServedInv(c)'
    BY <1>1, <2>1, <2>2 DEF ServedInv, CacheInv, EntryInv, TypeOK, Entry
  <2>4. WaitInv'
    BY <1>1, <2>2 DEF WaitInv, CacheInv
  <2>5. ASSUME NEW d \in Calls \ {c} PROVE ServedInv(d)'
    BY <1>1 DEF CacheInv, ServedInv
  <2> QED
    BY <1>2, <2>3, <2>4, <2>5 DEF CacheInv
<1>4. CASE GetShared(c, t)
  <2>1. inflight[t] \in Calls
    BY <1>4 DEF GetShared, InFlight, TypeOK
  <2>2. /\ mine.state = IF fetch[inflight[t]].state = "running"
                        THEN "waiting" ELSE "failed"
        /\ mine.on = inflight[t] /\ mine.at = now
        /\ mine.target = t /\ mine.outdated = outdated[t]
    BY <1>4, MadeTyped DEF GetShared, TypeOK
  <2>3. fetch[inflight[t]].target = t
    BY <1>4, <2>1 DEF CacheInv, FailuresAreRetried, GetShared, InFlight
  <2>4. mine.state = "waiting" => mine.on \notin mine.outdated
    BY <2>1, <2>2 DEF CacheInv, OutdatedInv
  <2>5. WaitInv'
    BY <1>1, <2>1, <2>2, <2>3, <2>4, CacheAssumption
    DEF WaitInv, CacheInv, TypeOK
  <2>6. ASSUME NEW d \in Calls PROVE ServedInv(d)'
    BY <1>1, <2>2 DEF CacheInv, ServedInv
  <2> QED
    BY <1>2, <2>5, <2>6 DEF CacheInv
<1> QED
  BY <1>3, <1>4

\* A call that starts a fetch.
LEMMA FetchStep ==
  ASSUME TypeOK, CacheInv, NEW c \in Calls, NEW t \in Targets,
         NEW threw \in BOOLEAN, GetFetched(c, t, threw)
  PROVE  CacheInv'
<1> DEFINE mine == call'[c]
<1>1. /\ call[c].state = "none" /\ inflight[t] = Undefined
      /\ UNCHANGED <<ttl, now, entries, outdated, cleared>>
      /\ \A d \in Calls \ {c} : call'[d] = call[d] /\ fetch'[d] = fetch[d]
      /\ \A u \in Targets \ {t} : inflight'[u] = inflight[u]
      /\ inflight'[t] = c
  BY DEF GetFetched, InFlight, TypeOK
<1>2. /\ fetch'[c].state = IF threw THEN "failed" ELSE "running"
      /\ fetch'[c].target = t /\ fetch'[c].threw = threw
  BY DEF GetFetched, TypeOK
<1>3. /\ mine.state = IF threw THEN "failed" ELSE "waiting"
      /\ mine.on = c /\ mine.at = now /\ mine.target = t
      /\ mine.outdated = outdated[t]
  BY MadeTyped DEF GetFetched, TypeOK
<1>4. fetch[c].state = "none"
  BY <1>1 DEF CacheInv, FetchInv, Began
<1>5. FetchInv'
  BY <1>1, <1>2, <1>3 DEF CacheInv, FetchInv, Began
<1>6. HeldInv'
  <2>1. ASSUME NEW f \in Calls \ {c}, fetch[f].state = "running"
        PROVE  inflight'[fetch[f].target] = f \/ fetch[f].target \in cleared
    <3>1. fetch[f].target \in Targets
      BY <2>1 DEF CacheInv, FetchInv, Began
    <3> QED
      BY <1>1, <2>1, <3>1, CacheAssumption DEF CacheInv, HeldInv
  <2> QED
    BY <1>1, <1>2, <2>1 DEF HeldInv
<1>7. OutdatedInv'
  BY <1>1, <1>4, CacheAssumption DEF CacheInv, OutdatedInv, TypeOK
<1>8. EntryInv'
  BY <1>1, <1>4 DEF CacheInv, EntryInv, TypeOK, Entry
<1>9. WaitInv'
  <2>1. c \notin outdated[t]
    BY <1>4 DEF CacheInv, OutdatedInv
  <2>2. now <= now
    BY CacheAssumption DEF TypeOK
  <2> QED
    BY <1>1, <1>2, <1>3, <1>4, <2>1, <2>2 DEF CacheInv, WaitInv
<1>10. FailuresAreRetried'
  <2>1. ASSUME NEW u \in Targets \ {t}, inflight[u] # Undefined
        PROVE  inflight[u] \in Calls \ {c}
    BY <1>4, <2>1 DEF CacheInv, FailuresAreRetried, FetchInv, TypeOK
  <2> QED
    BY <1>1, <1>2, <2>1 DEF CacheInv, FailuresAreRetried
<1>11. ASSUME NEW d \in Calls PROVE ServedInv(d)'
  BY <1>1, <1>3, <1>4 DEF CacheInv, ServedInv
<1> QED
  BY <1>5, <1>6, <1>7, <1>8, <1>9, <1>10, <1>11 DEF CacheInv

\* A fetch ends.
LEMMA SettleStep ==
  ASSUME TypeOK, CacheInv, NEW f \in Calls, NEW state \in {"served", "failed"},
         Settle(f, state)
  PROVE  CacheInv'
<1> DEFINE t == fetch[f].target
<1>1. /\ fetch[f].state = "running" /\ t \in Targets
      /\ fetch'[f].state = state /\ fetch'[f].target = t
      /\ fetch'[f].threw = fetch[f].threw
      /\ \A g \in Calls \ {f} : fetch'[g] = fetch[g]
      /\ UNCHANGED <<ttl, now, outdated>>
  <2>1. fetch[f].state = "running" /\ t \in Targets
    BY DEF Settle, CacheInv, FetchInv, Began
  <2>2. fetch' = [fetch EXCEPT ![f].state = state] /\ fetch \in [Calls -> Fetches]
    BY DEF Settle, TypeOK
  <2>3. /\ fetch'[f].state = state /\ fetch'[f].target = t
        /\ fetch'[f].threw = fetch[f].threw
        /\ \A g \in Calls \ {f} : fetch'[g] = fetch[g]
    BY <2>2 DEF Fetches
  <2> QED
    BY <2>1, <2>3 DEF Settle
<1>2. /\ inflight'[t] = Undefined
      /\ \A u \in Targets \ {t} : inflight'[u] = inflight[u]
  BY <1>1 DEF Settle, Released, TypeOK
<1>3. ASSUME NEW c \in Calls
      PROVE  /\ call'[c].target = call[c].target /\ call'[c].on = call[c].on
             /\ call'[c].at = call[c].at
             /\ call'[c].outdated = call[c].outdated
             /\ call'[c] # call[c] =>
                  /\ call[c].state = "waiting" /\ call[c].on = f
                  /\ call'[c].state = state /\ call'[c].expires = now + ttl
             /\ call[c].state = "waiting" /\ call[c].on = f =>
                  call'[c].state = state
  <2>1. call[c] \in CallStates
    BY DEF TypeOK
  <2>2. CASE call[c].state = "waiting" /\ call[c].on = f
    <3>1. call'[c] = [call[c] EXCEPT !.state = state, !.expires = now + ttl]
      BY <2>2 DEF Settle
    <3> QED
      BY <2>1, <2>2, <3>1 DEF CallStates
  <2>3. CASE ~(call[c].state = "waiting" /\ call[c].on = f)
    BY <2>3 DEF Settle
  <2> QED
    BY <2>2, <2>3
<1>4. FetchInv'
  BY <1>1, <1>3 DEF CacheInv, FetchInv, Began
<1>5. HeldInv'
  <2>1. ASSUME NEW g \in Calls, fetch'[g].state = "running"
        PROVE  /\ g # f /\ fetch'[g] = fetch[g] /\ fetch[g].state = "running"
               /\ fetch[g].target \in Targets
               /\ inflight[fetch[g].target] = g \/ fetch[g].target \in cleared
    BY <1>1, <2>1 DEF CacheInv, FetchInv, HeldInv, Began
  <2>2. ASSUME NEW g \in Calls, fetch'[g].state = "running", fetch[g].target = t
        PROVE  t \in cleared'
    <3>1. t \in cleared
      BY <1>1, <2>1, <2>2 DEF CacheInv, HeldInv
    <3>2. g \in Running(t) /\ g # f
      BY <2>1, <2>2 DEF Running
    <3> QED
      BY <3>1, <3>2 DEF Settle
  <2>3. ASSUME NEW u \in cleared, u # t
        PROVE  u \in cleared'
    BY <2>3 DEF Settle
  <2> QED
    BY <1>2, <2>1, <2>2, <2>3 DEF HeldInv
<1>6. OutdatedInv' /\ f \notin outdated[t]
  BY <1>1 DEF CacheInv, OutdatedInv, TypeOK
<1>7. EntryInv'
  <2>1. CASE state = "served" /\ ttl > 0
    <3>1. /\ entries'[t] = [from |-> f, expiresAt |-> now + ttl]
          /\ \A u \in Targets \ {t} : entries'[u] = entries[u]
      BY <1>1, <2>1 DEF Settle, TypeOK
    <3> QED
      BY <1>1, <1>6, <2>1, <3>1 DEF CacheInv, EntryInv, TypeOK, Entry
  <2>2. CASE ~(state = "served" /\ ttl > 0)
    <3>1. entries' = entries
      BY <2>2 DEF Settle
    <3> QED
      BY <1>1, <3>1 DEF CacheInv, EntryInv, TypeOK, Entry
  <2> QED
    BY <2>1, <2>2
<1>8. WaitInv'
  <2>1. ASSUME NEW c \in Calls, call'[c].state = "waiting"
        PROVE  call'[c] = call[c] /\ call[c].on # f
    BY <1>3, <2>1
  <2> QED
    BY <1>1, <2>1 DEF CacheInv, WaitInv
<1>9. FailuresAreRetried'
  <2>1. ASSUME NEW u \in Targets \ {t}, inflight[u] # Undefined
        PROVE  inflight[u] \in Calls \ {f}
    BY <2>1 DEF CacheInv, FailuresAreRetried, TypeOK
  <2> QED
    BY <1>1, <1>2, <2>1 DEF CacheInv, FailuresAreRetried
<1>10. ASSUME NEW c \in Calls PROVE ServedInv(c)'
  <2>1. CASE call'[c] = call[c]
    BY <1>1, <2>1 DEF CacheInv, ServedInv
  <2>2. CASE call'[c] # call[c]
    <3>1. /\ call[c].state = "waiting" /\ call[c].on = f
          /\ call'[c].state = state /\ call'[c].expires = now + ttl
      BY <1>3, <2>2
    <3>2. call'[c].at <= now /\ call'[c].at \in Nat
      BY <1>3, <3>1 DEF CacheInv, WaitInv, TypeOK, CallStates
    <3>3. ttl' > 0 => call'[c].at < call'[c].expires
      BY <1>1, <3>1, <3>2, CacheAssumption DEF TypeOK
    <3> QED
      BY <1>1, <1>3, <3>1, <3>3 DEF CacheInv, WaitInv, ServedInv
  <2> QED
    BY <2>1, <2>2
<1> QED
  BY <1>4, <1>5, <1>6, <1>7, <1>8, <1>9, <1>10 DEF CacheInv

\* Entries are forgotten; a fetch that ended before is outdated from now on.
LEMMA ForgetStep ==
  ASSUME TypeOK, CacheInv,
         \/ \E t \in Targets : Invalidate(t)
         \/ ClearCache
  PROVE  CacheInv'
<1>1. /\ UNCHANGED <<ttl, now, fetch, call>>
      /\ cleared \subseteq cleared'
      /\ \A f \in Calls : fetch[f].state = "running" =>
           \/ inflight'[fetch[f].target] = inflight[fetch[f].target]
           \/ fetch[f].target \in cleared'
      /\ \A t \in Targets : inflight'[t] \in {inflight[t], Undefined}
  <2>1. CASE \E t \in Targets : Invalidate(t)
    BY <2>1 DEF Invalidate
  <2>2. CASE ClearCache
    <3>1. ASSUME NEW f \in Calls, fetch[f].state = "running"
          PROVE  fetch[f].target \in cleared'
      BY <2>2, <3>1 DEF ClearCache, Running, CacheInv, FetchInv, Began
    <3> QED
      BY <2>2, <3>1 DEF ClearCache
  <2> QED
    BY <2>1, <2>2
<1>2. ASSUME NEW t \in Targets
      PROVE  \/ entries'[t] = Undefined
             \/ entries'[t] = entries[t] /\ outdated'[t] = outdated[t]
  <2>1. ASSUME NEW u \in Targets, Invalidate(u)
        PROVE  \/ entries'[t] = Undefined
               \/ entries'[t] = entries[t] /\ outdated'[t] = outdated[t]
    BY <2>1 DEF Invalidate, Outdates, TypeOK
  <2>2. CASE ClearCache
    BY <2>2 DEF ClearCache
  <2> QED
    BY <2>1, <2>2
<1>3. ASSUME NEW t \in Targets
      PROVE  outdated'[t] \in {outdated[t], {f \in Ended : fetch[f].target = t}}
  BY DEF Invalidate, ClearCache, Outdates
<1>4. FetchInv' /\ WaitInv' /\ \A c \in Calls : ServedInv(c)'
  BY <1>1 DEF CacheInv, FetchInv, WaitInv, ServedInv, Began
<1>5. HeldInv'
  BY <1>1 DEF CacheInv, HeldInv
<1>6. OutdatedInv'
  BY <1>1, <1>3 DEF CacheInv, OutdatedInv, Ended
<1>7. EntryInv'
  BY <1>1, <1>2 DEF CacheInv, EntryInv
<1>8. FailuresAreRetried'
  BY <1>1 DEF CacheInv, FailuresAreRetried
<1> QED
  BY <1>4, <1>5, <1>6, <1>7, <1>8 DEF CacheInv

\* Nothing but entries that have expired and the clock change.
LEMMA ClockStep ==
  ASSUME TypeOK, CacheInv, Size \/ Tick \/ UNCHANGED cacheVars
  PROVE  CacheInv'
<1>1. /\ UNCHANGED <<ttl, inflight, fetch, call, outdated, cleared>>
      /\ \A t \in Targets : entries'[t] \in {entries[t], Undefined}
      /\ now \in Nat /\ now' \in Nat /\ now <= now'
  BY CacheAssumption DEF Size, Tick, cacheVars, TypeOK
<1>2. WaitInv'
  <2>1. ASSUME NEW c \in Calls, call[c].at <= now PROVE call[c].at <= now'
    BY <1>1, <2>1 DEF TypeOK, CallStates
  <2> QED
    BY <1>1, <2>1 DEF CacheInv, WaitInv
<1> QED
  BY <1>1, <1>2 DEF CacheInv, FetchInv, HeldInv, OutdatedInv, EntryInv,
                    FailuresAreRetried, ServedInv, Began

LEMMA InvStep == TypeOK /\ CacheInv /\ [CacheNext]_cacheVars => CacheInv'
  BY GetStep, FetchStep, SettleStep, ForgetStep, ClockStep DEF CacheNext

LEMMA Invariant == CacheSpec => [](TypeOK /\ CacheInv)
<1>1. CacheInit => TypeOK /\ CacheInv
  BY TypeInit, InvInit
<1>2. (TypeOK /\ CacheInv) /\ [CacheNext]_cacheVars => (TypeOK /\ CacheInv)'
  BY TypeStep, InvStep
<1> QED
  BY <1>1, <1>2, PTL DEF CacheSpec

----------------------------------------------------------------------------

\* Calls for one target share one fetch, unless clear() forgot it.
THEOREM FetchesAreShared == CacheSpec => []OneFetchPerTarget
<1>1. CacheInv => OneFetchPerTarget
  BY DEF CacheInv, HeldInv, OneFetchPerTarget, Running
<1> QED
  BY <1>1, Invariant, PTL

\* No call finds a fetch that has failed, unless the fetcher threw before it
\* returned a promise.
THEOREM FailuresAreNotKept == CacheSpec => []FailuresAreRetried
  BY Invariant, PTL DEF CacheInv

\* What a call was served is of its target, had not expired when the call was
\* made, and had not been invalidated before.
THEOREM AnswersStayFresh == CacheSpec => []AnswersAreFresh
<1>1. CacheInv => AnswersAreFresh
  BY DEF CacheInv, ServedInv, AnswersAreFresh
<1> QED
  BY <1>1, Invariant, PTL
=============================================================================
