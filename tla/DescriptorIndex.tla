-------------------------- MODULE DescriptorIndex --------------------------
(***************************************************************************)
(* The index of gRPC descriptors (src/core/grpcDescriptorIndex.ts), which  *)
(* is kept up to date from the bytes of one file after the other while a   *)
(* server's schema changes, and the report that says from it whether a     *)
(* request can be sent (src/core/grpcPreflight.ts).                        *)
(*                                                                         *)
(* A fully-qualified name is a sequence of names.  A file holds messages,  *)
(* each a name within the file's package, and services.                    *)
(***************************************************************************)
EXTENDS DescriptorDecoder, FiniteSets

CONSTANTS
  Entries,   \* what the server may send: a name and the bytes of a file;
             \* for the history, the file they encode and its own name
  Requests,  \* the requests: a service, a method, and kinds of metadata
  None       \* a file that is not loaded, a request that finds nothing

FileNames == {e.own : e \in Entries}
Encoded == {e.file : e \in Entries} \ {None}

\* Within its package a message is named by itself and by what it is nested
\* in; whatever it is nested in is a message too.
ASSUME IndexAssumption ==
  /\ \A v \in Encoded : \A m \in v.messages :
       Len(m) > 1 => Front(m) \in v.messages
  /\ None \notin FileNames

VARIABLES
  files,    \* each file that is loaded, or None
  types,    \* the names of all message types
  services, \* for the name of a service, the file it was taken from
  sent,     \* history: what was last sent of each file that is loaded
  definer,  \* history: the file that last brought each service
  clashed   \* history: names that two loaded files had at once

vars == <<files, types, services, sent, definer, clashed>>

Loaded(fs) == {n \in DOMAIN fs : fs[n] # None}

\* ------------------------------------------------------------------------
\* What a file defines.

Messages(v) == {v.package \o m : m \in v.messages}
Services(v) == {v.package \o s : s \in DOMAIN v.services}
Definition(v, fqn) == v.services[<<Last(fqn)>>]

ServiceNames == UNION {Services(v) : v \in Encoded}

\* ------------------------------------------------------------------------
\* dropFile and addFile, of an index [files, types, services].

\* Faulty variant: only the outermost messages are forgotten.
OutermostOnly(idx, n) ==
  idx.types \ {v \o m : v \in {idx.files[n].package},
                        m \in {k \in idx.files[n].messages : Len(k) = 1}}

TypesWithout(idx, n) == idx.types \ Messages(idx.files[n])

\* Faulty variant: a service is dropped whichever file it is of.
ServicesOfNone(idx, n) ==
  [s \in DOMAIN idx.services |->
     IF s \in Services(idx.files[n]) THEN None ELSE idx.services[s]]

\* A service is only dropped if it is this file's.
ServicesWithout(idx, n) ==
  [s \in DOMAIN idx.services |->
     IF idx.services[s] = n THEN None ELSE idx.services[s]]

Without(idx, n) ==
  IF idx.files[n] = None THEN idx
  ELSE [files |-> [idx.files EXCEPT ![n] = None],
        types |-> TypesWithout(idx, n),
        services |-> ServicesWithout(idx, n)]

With(idx, n, v) ==
  LET old == Without(idx, n)
  IN [files |-> [old.files EXCEPT ![n] = v],
      types |-> old.types \cup Messages(v),
      services |-> [s \in DOMAIN old.services |->
                      IF s \in Services(v) THEN n ELSE old.services[s]]]

Empty ==
  [files |-> [n \in FileNames |-> None], types |-> {},
   services |-> [s \in ServiceNames |-> None]]

Index == [files |-> files, types |-> types, services |-> services]

\* DescriptorIndex.from, of files in any order.
From(fs) ==
  FoldLeft(LAMBDA idx, n : With(idx, n, fs[n]), Empty, SetToSeq(Loaded(fs)))

\* ------------------------------------------------------------------------
\* findMethod.

\* A reference that is not absolute is looked up in the package, then in
\* what the package lies in, and so on outwards.
Candidates(package, ref) ==
  IF ref.absolute THEN <<ref.path>>
  ELSE [i \in 1..(Len(package) + 1) |->
          SubSeq(package, 1, Len(package) + 1 - i) \o ref.path]

ResolveType(idx, package, ref) ==
  LET found == SelectSeq(Candidates(package, ref), LAMBDA t : t \in idx.types)
  IN IF found = <<>> THEN None ELSE Head(found)

Missing == [found |-> FALSE, broken |-> FALSE]

FindMethod(idx, fqn, method) ==
  IF fqn \notin DOMAIN idx.services \/ idx.services[fqn] = None THEN Missing
  ELSE LET service == Definition(idx.files[idx.services[fqn]], fqn)
           at == SelectInSeq(service.methods, LAMBDA m : m.name = method)
       IN IF at = 0 THEN Missing
          ELSE LET m == service.methods[at]
                   input == ResolveType(idx, Front(fqn), m.input)
                   output == ResolveType(idx, Front(fqn), m.output)
               IN IF None \in {input, output}
                  THEN [Missing EXCEPT !.broken = TRUE]
                  ELSE [found |-> TRUE, broken |-> FALSE, input |-> input,
                        output |-> output, streaming |-> m.streaming,
                        deprecated |-> service.deprecated \/ m.deprecated]

\* ------------------------------------------------------------------------
\* preflightGrpcRequest: the status of the report.

\* The kinds of metadata that are warned of; binary ones are only noted.
Warned(r) == r.metadata \cap {"reserved", "grpc-"} # {}

Preflight(idx, r) ==
  LET m == FindMethod(idx, r.service, r.method) IN
  IF m.broken THEN "descriptor-error"
  ELSE IF ~m.found
  THEN IF r.service \in DOMAIN idx.services /\ idx.services[r.service] # None
       THEN "unknown-method" ELSE "unknown-service"
  ELSE IF m.streaming THEN "streaming-unsupported"
  ELSE IF Warned(r) \/ m.deprecated THEN "ready-with-warnings"
  ELSE "ready"

\* ------------------------------------------------------------------------
\* The index over time.

Becomes(idx) ==
  /\ files' = idx.files /\ types' = idx.types /\ services' = idx.services

\* What the file has in common with the others.
Shared(n, v) ==
  UNION {(Messages(v) \cup Services(v))
           \cap (Messages(sent[o]) \cup Services(sent[o]))
         : o \in Loaded(sent) \ {n}}

Recall(e) ==
  IF e.file = None THEN UNCHANGED <<sent, definer, clashed>>
  ELSE /\ sent' = [sent EXCEPT ![e.own] = e.file]
       /\ definer' = [s \in ServiceNames |-> IF s \in Services(e.file)
                                             THEN e.own ELSE definer[s]]
       /\ clashed' = clashed \cup Shared(e.own, e.file)

\* What was decoded is added.
Loads(decoded) ==
  decoded.ok /\ Becomes(With(Index, decoded.name, decoded.file))

\* An entry is decoded and added under the name that it has then.
AddFile(e) ==
  /\ Loads(FileDescriptor(e.bytes, e.name))
  /\ Recall(e)

\* An entry that cannot be decoded is reported, and loses no other.
Diagnose(e) ==
  /\ ~FileDescriptor(e.bytes, e.name).ok
  /\ UNCHANGED <<files, types, services>>
  /\ Recall(e)

RemoveFile(n) ==
  /\ files[n] # None
  /\ Becomes(Without(Index, n))
  /\ sent' = [sent EXCEPT ![n] = None]
  /\ UNCHANGED <<definer, clashed>>

Clear ==
  /\ Becomes(Empty)
  /\ sent' = Empty.files
  /\ definer' = Empty.services
  /\ clashed' = {}

Init ==
  /\ files = Empty.files /\ types = Empty.types /\ services = Empty.services
  /\ sent = Empty.files
  /\ definer = Empty.services
  /\ clashed = {}

Next ==
  \/ \E e \in Entries : AddFile(e)
  \/ \E e \in Entries : Diagnose(e)
  \/ \E n \in FileNames : RemoveFile(n)
  \/ Clear

Spec == Init /\ [][Next]_vars

\* ------------------------------------------------------------------------
\* Properties.

\* A service is answered for by the file that last brought it, for as long as
\* that file is loaded and what was last sent of it still has it, whichever
\* other files have it or had it (:220).
LatestDefinitionServes ==
  \A s \in ServiceNames :
    LET n == definer[s] IN
    services[s] = IF n # None /\ sent[n] # None /\ s \in Services(sent[n])
                  THEN n ELSE None

\* "Re-adding replaces the previous entry" (:85): whatever was sent,
\* replaced and removed, in whatever order and encoding, every request is
\* reported on as by a new index of what was last sent of each file, unless
\* two files had a name in common at some time.
RefreshedLikeFresh ==
  clashed = {} =>
    LET fresh == From(sent) IN
    \A r \in Requests :
      /\ FindMethod(Index, r.service, r.method)
           = FindMethod(fresh, r.service, r.method)
      /\ Preflight(Index, r) = Preflight(fresh, r)
=============================================================================
