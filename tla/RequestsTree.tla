---------------------------- MODULE RequestsTree ----------------------------
(***************************************************************************)
(* The requests explorer (src/extension/requestsTree.ts and the commands   *)
(* of extension.ts that filter it): filters, recent requests, and the      *)
(* listings that render the tree, each of which awaits the file system     *)
(* while files, documents, folders and filters change.                     *)
(*                                                                         *)
(* A node of the tree is the root, a workspace folder, a directory under   *)
(* its .requests or a file.  A directory may be empty; what happens to it  *)
(* itself, and not to a file in it, is never reported to the tree.         *)
(***************************************************************************)
EXTENDS Naturals, Sequences, FiniteSets, SequencesExt

CONSTANTS
  Root,        \* the invisible root of the tree
  Workspaces,  \* the folders that may be open in the window
  Dirs, Files, \* what may lie under their .requests directories
  GrpcFiles,   \* the files that end in .grpc, the others end in .http
  Parent,      \* the directory or workspace folder each lies in
  Texts,       \* the texts each file may have
  Queries,     \* for the prompts the user opens, what may be picked or typed
  None,        \* undefined, and a file that is not there
  Earlier,     \* what may have been sent before the tree is first shown
  Capacity,    \* RECENT_REQUESTS_MAX_CAPACITY
  MaxMoves,    \* bound: what the user and the disk do, answers aside
  MaxListings  \* bound: listings that await the file system at once

Kinds == {"method", "name", "url", "tag", "text"}
Nodes == {Root} \cup Workspaces \cup Dirs \cup Files
Message == {"none", "open folder", "init", "too large", "no match"}

ASSUME TreeAssumption ==
  /\ Workspaces \cap (Dirs \cup Files) = {} /\ Dirs \cap Files = {}
  /\ Root \notin Workspaces \cup Dirs \cup Files
  /\ GrpcFiles \subseteq Files
  /\ Parent \in [Dirs \cup Files -> Workspaces \cup Dirs]
  /\ \A f \in Files : None \notin Texts[f]
  /\ DOMAIN Queries \subseteq Kinds
  /\ \A k \in DOMAIN Queries : None \in Queries[k]
  /\ \A s \in Earlier : s \in Seq(ToSet(s))
  /\ Capacity \in Nat \ {0} /\ MaxMoves \in Nat /\ MaxListings \in Nat \ {0}

VARIABLES
  open,        \* vscode.workspace.workspaceFolders
  disk,        \* each file's text, or None
  dirs,        \* the directories there are; a workspace folder: its .requests
  unseen,      \* whether the watcher has a change to report
  editor,      \* each file's open document, or None
  filters,     \* the seven filters of the provider
  recent,      \* the map of recent requests, oldest first
  described,   \* the filters that treeView.description names
  generation,  \* the prompt generation of each kind
  prompts,     \* prompts that are open
  owed,        \* nodes the editor has still to ask for
  listings,    \* getChildren calls that await, oldest first
  tree,        \* what the tree shows below each node
  missed,      \* history: the nodes a change of a folder has altered since
               \* the tree was last refreshed
  sends,       \* history: the requests sent, oldest first
  setBy,       \* history: the prompt that last set each kind of filter
  moves        \* history: how often the user or the disk did something

worldVars == <<open, disk, dirs, unseen, editor>>
promptVars == <<generation, prompts, setBy>>
viewVars == <<owed, listings, tree, missed>>
vars == <<worldVars, filters, recent, described, promptVars, viewVars,
          sends, moves>>

\* ------------------------------------------------------------------------
\* Where a node lies, and what is on the disk.

\* The places above a directory or file, up to its workspace folder.
Places == Workspaces \cup Dirs
Upwards(ps) == \A d \in ps \cap Dirs : Parent[d] \in ps
Above(p) ==
  {q \in Places :
     \A ps \in SUBSET Places : Parent[p] \in ps /\ Upwards(ps) => q \in ps}

Under(p) == {q \in Dirs \cup Files : p \in Above(q)}

\* The places among some nodes, and those above them.
Reaching(qs) ==
  (qs \cap Places) \cup UNION {Above(q) : q \in qs \ Workspaces}

\* Whether the node lies in the .requests of a folder that is open.
Contained(p) == Above(p) \cap open # {}

Exists(p) == IF p \in Files THEN disk[p] # None ELSE p \in dirs

\* What there is lies in directories that are there.
Rooted == Reaching(dirs \cup {f \in Files : disk[f] # None}) \subseteq dirs

\* What listDir returns.
Entries(p) == {q \in Dirs \cup Files : Parent[q] = p /\ Exists(q)}

\* ------------------------------------------------------------------------
\* What the tree shows below a node.  A request is its line, its method and
\* URL, whether it is a favorite, and what the searches find in it: the
\* queries that its name, its URL and its section contain, and its tags.  A
\* row is the place of its request in the file, in whose order rows appear.
\* The histories source and late say which text the rows came from, and
\* whether they came from a read that another one had overtaken.

Nothing == [nodes |-> {}, rows |-> {}, message |-> "none",
            source |-> None, late |-> FALSE]
Says(m) == [Nothing EXCEPT !.message = m]
Holds(ns) == [Nothing EXCEPT !.nodes = ns]

Http(f) == f \notin GrpcFiles

\* The fingerprint of a request, by which it is recent, and its place.
Fingerprint(r) == <<r.method, r.url, r.name>>
Recorded(f, r) == [key |-> <<f, r.line>>, print |-> Fingerprint(r)]
IsRecent(f, r) ==
  /\ Http(f)
  /\ \E i \in DOMAIN recent : recent[i] = Recorded(f, r)

\* matchesMethodFilter and the others; a gRPC request has no URL to search,
\* no tags and no favorite mark.
Matches(f, r) ==
  /\ filters["method"] \in {None, IF Http(f) THEN r.method ELSE "GRPC"}
  /\ filters["name"] \in {None} \cup r.name
  /\ filters["url"] \in {None} \cup (IF Http(f) THEN r.url ELSE {})
  /\ filters["tag"] \in {None} \cup (IF Http(f) THEN r.tags ELSE {})
  /\ filters["text"] \in {None} \cup r.words
  /\ filters["favorites"] => Http(f) /\ r.favorite
  /\ filters["recent"] => IsRecent(f, r)

\* The rows of a file whose text is t, by the filters of this moment.
FileRows(f, t) ==
  LET shown == {i \in DOMAIN t.requests : Matches(f, t.requests[i])}
  IN IF t.big /\ filters["text"] # None THEN Says("too large")
     ELSE IF t.requests # <<>> /\ shown = {} THEN Says("no match")
     ELSE [Nothing EXCEPT !.rows = shown]

Painted(f, t) ==
  IF t = None THEN Nothing ELSE [FileRows(f, t) EXCEPT !.source = t]

\* The one open folder is not shown: its .requests is the tree.
Single == CHOOSE w \in open : TRUE

\* What is to be shown below a node.
Current(n) ==
  IF n = Root
  THEN IF open = {} THEN Says("open folder")
       ELSE IF Cardinality(open) > 1 THEN Holds(open)
       ELSE IF Exists(Single) THEN Holds(Entries(Single)) ELSE Says("init")
  ELSE IF n \in Workspaces
  THEN IF n \notin open THEN Nothing
       ELSE IF Exists(n) THEN Holds(Entries(n)) ELSE Says("init")
  ELSE IF ~Contained(n) THEN Nothing
  ELSE IF n \in Dirs THEN Holds(Entries(n))
  ELSE Painted(n, IF editor[n] # None THEN editor[n] ELSE disk[n])

\* ------------------------------------------------------------------------
\* Rendering.  refresh() tells the editor that the whole tree is outdated;
\* the editor then asks for the root, and for what each answer contains.

Owing == owed \cup {Root}
Refreshing == owed' = Owing /\ missed' = {}

\* An answer replaces what the tree shows below n.  A listing of the same
\* node that started earlier and still awaits is overtaken.
Paint(n, rows, rest, k) ==
  /\ tree' = [tree EXCEPT ![n] = rows]
  /\ listings' = [i \in DOMAIN rest |->
                    IF rest[i].node = n /\ i < k
                    THEN [rest[i] EXCEPT !.late = TRUE] ELSE rest[i]]

\* A getChildren call that answers without an await.
Answers(n, rows) ==
  /\ Paint(n, rows, listings, Len(listings) + 1)
  /\ owed' = (owed \ {n}) \cup rows.nodes

\* The continuation of listing i, the last step of its getChildren call.
Completes(i, rows) ==
  LET n == listings[i].node
      edited == n \in Files /\ Contained(n) /\ editor[n] # None
      late == listings[i].late /\ ~edited IN
  /\ Paint(n, IF late THEN [rows EXCEPT !.late = TRUE] ELSE rows,
           RemoveAt(listings, i), i)
  /\ owed' = owed \cup rows.nodes

Awaits(n, place, step) ==
  /\ Len(listings) < MaxListings
  /\ listings' = Append(listings, [node |-> n, place |-> place, step |-> step,
                                   bytes |-> None, late |-> FALSE])
  /\ owed' = owed \ {n}
  /\ UNCHANGED tree

\* getChildren(), for the root, a workspace folder, a directory, a file.
AskRoot ==
  /\ Root \in owed
  /\ \/ open = {} /\ Answers(Root, Says("open folder"))
     \/ Cardinality(open) > 1 /\ Answers(Root, Holds(open))
     \/ Cardinality(open) = 1 /\ Awaits(Root, Single, "stat")

AskWorkspace(w) ==
  /\ w \in owed
  /\ \/ w \notin open /\ Answers(w, Nothing)
     \/ w \in open /\ Awaits(w, w, "stat")

AskDir(d) ==
  /\ d \in owed
  /\ \/ ~Contained(d) /\ Answers(d, Nothing)
     \/ Contained(d) /\ Awaits(d, d, "list")

AskFile(f) ==
  /\ f \in owed
  /\ \/ ~Contained(f) /\ Answers(f, Nothing)
     \/ Contained(f) /\ editor[f] # None /\ Answers(f, Painted(f, editor[f]))
     \/ Contained(f) /\ editor[f] = None /\ Awaits(f, f, "read")

Ask ==
  /\ \/ AskRoot
     \/ \E w \in Workspaces : AskWorkspace(w)
     \/ \E d \in Dirs : AskDir(d)
     \/ \E f \in Files : AskFile(f)
  /\ UNCHANGED <<worldVars, filters, recent, described, promptVars, missed,
                 sends, moves>>

\* The file system answers, and the call goes on.
StatReturns(i) ==
  /\ listings[i].step = "stat"
  /\ IF Exists(listings[i].place)
     THEN /\ listings' = [listings EXCEPT ![i].step = "list"]
          /\ UNCHANGED <<owed, tree>>
     ELSE Completes(i, Says("init"))

ListReturns(i) ==
  /\ listings[i].step = "list"
  /\ Completes(i, Holds(Entries(listings[i].place)))

\* A read that fails returns nothing.
ReadReturns(i) ==
  /\ listings[i].step = "read"
  /\ listings' = [listings EXCEPT ![i].step = "bytes",
                                  ![i].bytes = disk[listings[i].place]]
  /\ UNCHANGED <<owed, tree>>

\* Faulty variant: a document opened during the read is not looked at.
TextReadFromDisk(f, bytes) == bytes

\* The text a read leads to: by now the file may be open in an editor.
TextRead(f, bytes) == IF editor[f] # None THEN editor[f] ELSE bytes

\* The continuation of a read: the filters are read now.
ReadContinues(i) ==
  LET f == listings[i].place
      rows == Painted(f, TextRead(f, listings[i].bytes)) IN
  /\ listings[i].step = "bytes"
  /\ Completes(i, rows)

List ==
  /\ \E i \in DOMAIN listings :
       StatReturns(i) \/ ListReturns(i) \/ ReadReturns(i) \/ ReadContinues(i)
  /\ UNCHANGED <<worldVars, filters, recent, described, promptVars, missed,
                 sends, moves>>

\* ------------------------------------------------------------------------
\* Filters.

\* The filters that updateRequestsTreeDescription names.
Active(fs) ==
  {k \in Kinds : fs[k] # None} \cup {k \in {"favorites", "recent"} : fs[k]}

\* Faulty variant: the editor is not told.
SetQuietly(k, v) ==
  /\ filters' = [filters EXCEPT ![k] = v]
  /\ UNCHANGED <<owed, missed>>

\* The setters of the provider: nothing happens unless the value changes.
Set(k, v) ==
  /\ filters' = [filters EXCEPT ![k] = v]
  /\ IF v = filters[k] THEN UNCHANGED <<owed, missed>> ELSE Refreshing

\* A command may start while moves are left.
Moves == moves < MaxMoves /\ moves' = moves + 1

\* reqit.showRecent and reqit.showFavorites.
Toggle(k) ==
  /\ Moves
  /\ Set(k, ~filters[k])
  /\ described' = Active(filters')
  /\ UNCHANGED <<worldVars, recent, promptVars, listings, tree, sends>>

\* reqit.filterRequests and the four searches, up to the prompt.
OpenPrompt(k) ==
  /\ Moves
  /\ generation' = [generation EXCEPT ![k] = @ + 1]
  /\ prompts' = prompts \cup {[kind |-> k, number |-> generation'[k]]}
  /\ UNCHANGED <<worldVars, filters, recent, described, setBy, viewVars,
                 sends>>

\* Faulty variant: an answer is taken whatever was asked since.
TakesAnyAnswer(p) == TRUE

\* An answer counts if no other prompt of the kind was opened since.
TakesAnswer(p) == p.number = generation[p.kind]

\* An answer, None to clear the filter.  The tag and text searches name the
\* filters only if one changed.
Answer(p, v) ==
  /\ v \in Queries[p.kind]
  /\ prompts' = prompts \ {p}
  /\ IF TakesAnswer(p)
     THEN /\ Set(p.kind, v)
          /\ described' = IF p.kind \in {"tag", "text"} /\ v = filters[p.kind]
                          THEN described ELSE Active(filters')
          /\ setBy' = [setBy EXCEPT ![p.kind] = p.number]
     ELSE UNCHANGED <<filters, owed, missed, described, setBy>>
  /\ UNCHANGED <<worldVars, recent, generation, listings, tree, sends, moves>>

\* Escape keeps the filter; the tag and text searches name an active one.
Escape(p) ==
  /\ prompts' = prompts \ {p}
  /\ described' = IF /\ TakesAnswer(p) /\ p.kind \in {"tag", "text"}
                     /\ filters[p.kind] # None
                  THEN Active(filters) ELSE described
  /\ UNCHANGED <<worldVars, filters, recent, generation, setBy, viewVars,
                 sends, moves>>

\* ------------------------------------------------------------------------
\* Recent requests.

\* The entries of a map without that of a key, which it has at most once.
Holding(s, key) == {i \in DOMAIN s : s[i].key = key}
Without(s, key) ==
  IF Holding(s, key) = {} THEN s
  ELSE RemoveAt(s, CHOOSE i \in Holding(s, key) : TRUE)

\* Evicts the oldest entry of a map that has grown too large.
Bounded(s) == IF Len(s) > Capacity THEN Tail(s) ELSE s

\* Faulty variant: an entry that is set again keeps its place in the map.
RecordInPlace(s, e) ==
  IF Without(s, e.key) = s THEN Bounded(Append(s, e))
  ELSE [i \in DOMAIN s |-> IF s[i].key = e.key THEN e ELSE s[i]]

Record(s, e) == Bounded(Append(Without(s, e.key), e))

\* reqit.sendRequest: opens the document, and records a request of it if it
\* lies in an open folder.
Send(f, r) ==
  LET text == IF editor[f] # None THEN editor[f] ELSE disk[f] IN
  /\ Moves
  /\ Http(f) /\ text # None /\ \E i \in DOMAIN text.requests : r = text.requests[i]
  /\ editor' = [editor EXCEPT ![f] = text]
  /\ IF Contained(f)
     THEN /\ recent' = Record(recent, Recorded(f, r))
          /\ IF filters["recent"] THEN Refreshing ELSE UNCHANGED <<owed, missed>>
          /\ sends' = Append(sends, Recorded(f, r))
     ELSE UNCHANGED <<recent, owed, missed, sends>>
  /\ UNCHANGED <<open, disk, dirs, unseen, filters, described, promptVars,
                 listings, tree>>

\* ------------------------------------------------------------------------
\* The disk, the editor and the window.

\* reqit.refreshRequests; a command that makes a file, a folder or a request
\* does the same at its end.
Refresh ==
  /\ Moves
  /\ Refreshing
  /\ UNCHANGED <<worldVars, filters, recent, described, promptVars, listings,
                 tree, sends>>

\* Files are written, created, with the directories they lie in, and deleted,
\* which leaves the directories; the watcher reports it later.
DiskChanges(f, t) ==
  /\ Moves
  /\ t # disk[f]
  /\ disk' = [disk EXCEPT ![f] = t]
  /\ dirs' = IF t = None THEN dirs ELSE dirs \cup Above(f)
  /\ unseen' = (unseen \/ Above(f) \cap open # {})
  /\ UNCHANGED <<open, editor, filters, recent, described, promptVars,
                 viewVars, sends>>

\* A directory comes or goes, with what lies in it.  The watcher's pattern
\* matches no directory, and whether a file in it is reported depends on how
\* the change was made.
FolderChanges ==
  /\ UNCHANGED <<open, editor, filters, recent, described, promptVars, owed,
                 listings, tree, sends>>
  /\ LET reported == \E f \in Files : Contained(f) /\ disk'[f] # disk[f]
     IN unseen' \in {unseen, unseen \/ reported}
  /\ missed' = missed \cup {n \in Nodes : Current(n)' # Current(n)}

FolderGoes(p) ==
  /\ Moves
  /\ p \in dirs
  /\ dirs' = dirs \ ({p} \cup Under(p))
  /\ disk' = [f \in Files |-> IF f \in Under(p) THEN None ELSE disk[f]]
  /\ FolderChanges

\* The texts of the files that a directory may bring, with directories ds.
Contents(p) ==
  {ts \in [Files \cap Under(p) ->
             (UNION {Texts[f] : f \in Files}) \cup {None}] :
     \A f \in DOMAIN ts : ts[f] \in Texts[f] \cup {None}}

FolderComes(p, ds, ts) ==
  /\ Moves
  /\ p \notin dirs
  /\ disk' = [f \in Files |-> IF f \in DOMAIN ts THEN ts[f] ELSE disk[f]]
  /\ dirs' = dirs \cup
       Reaching({p} \cup ds \cup {f \in DOMAIN ts : ts[f] # None})
  /\ FolderChanges

\* A watcher exists for each folder that is open.
WatcherReports ==
  /\ unseen
  /\ unseen' = FALSE
  /\ Refreshing
  /\ UNCHANGED <<open, disk, dirs, editor, filters, recent, described,
                 promptVars, listings, tree, sends, moves>>

\* Opening a document changes nothing that the tree shows, and is not reported.
OpenDocument(f) ==
  /\ Moves
  /\ editor[f] = None /\ disk[f] # None
  /\ editor' = [editor EXCEPT ![f] = disk[f]]
  /\ UNCHANGED <<open, disk, dirs, unseen, filters, recent, described, promptVars,
                 viewVars, sends>>

\* An edit of an open document, and its end, which may discard the edits.
Refreshed(f) ==
  IF Contained(f) THEN Refreshing ELSE UNCHANGED <<owed, missed>>
Edit(f, t) ==
  /\ Moves
  /\ editor[f] \notin {None, t}
  /\ editor' = [editor EXCEPT ![f] = t]
  /\ Refreshed(f)
  /\ UNCHANGED <<open, disk, dirs, unseen, filters, recent, described,
                 promptVars, listings, tree, sends>>

CloseDocument(f) ==
  /\ Moves
  /\ editor[f] # None
  /\ editor' = [editor EXCEPT ![f] = None]
  /\ Refreshed(f)
  /\ UNCHANGED <<open, disk, dirs, unseen, filters, recent, described,
                 promptVars, listings, tree, sends>>

\* A folder is opened or closed; watchers follow, and their reports end.
FoldersChange(ws) ==
  /\ Moves
  /\ ws # open
  /\ open' = ws
  /\ unseen' = (unseen /\ ws # {})
  /\ Refreshing
  /\ UNCHANGED <<disk, dirs, editor, filters, recent, described, promptVars,
                 listings, tree, sends>>

\* ------------------------------------------------------------------------
Init ==
  /\ open \in SUBSET Workspaces
  /\ disk \in [Files -> (UNION {Texts[f] : f \in Files}) \cup {None}]
  /\ \A f \in Files : disk[f] \in Texts[f] \cup {None}
  /\ dirs \in SUBSET Places /\ Rooted
  /\ unseen = FALSE
  /\ editor = [f \in Files |-> None]
  /\ filters = [k \in Kinds \cup {"favorites", "recent"} |->
                  IF k \in Kinds THEN None ELSE FALSE]
  /\ sends \in Earlier
  /\ recent = FoldLeft(Record, <<>>, sends) /\ described = {}
  /\ generation = [k \in Kinds |-> 0] /\ prompts = {}
  /\ setBy = [k \in Kinds |-> 0]
  /\ owed = {Root} /\ listings = <<>>
  /\ tree = [n \in Nodes |-> Nothing] /\ missed = {}
  /\ moves = 0

Quiet == owed = {} /\ listings = <<>> /\ ~unseen

\* The tree has settled and the user is done.
Settled ==
  /\ Quiet /\ prompts = {} /\ moves = MaxMoves
  /\ UNCHANGED vars

Next ==
  \/ Ask \/ List \/ WatcherReports \/ Refresh \/ Settled
  \/ \E k \in {"favorites", "recent"} : Toggle(k)
  \/ \E k \in DOMAIN Queries : OpenPrompt(k)
  \/ \E p \in prompts : Escape(p) \/ \E v \in Queries[p.kind] : Answer(p, v)
  \/ \E f \in Files :
       \/ OpenDocument(f) \/ CloseDocument(f)
       \/ \E t \in Texts[f] : Edit(f, t) \/ \E i \in DOMAIN t.requests :
                                              Send(f, t.requests[i])
       \/ \E t \in Texts[f] \cup {None} : DiskChanges(f, t)
  \/ \E p \in Places :
       \/ FolderGoes(p)
       \/ \E ds \in SUBSET (Dirs \cap Under(p)), ts \in Contents(p) :
            FolderComes(p, ds, ts)
  \/ \E ws \in SUBSET Workspaces : FoldersChange(ws)

Spec == Init /\ [][Next]_vars

\* ------------------------------------------------------------------------
\* Properties.

TypeOK ==
  /\ open \subseteq Workspaces /\ unseen \in BOOLEAN
  /\ dirs \subseteq Places /\ Rooted
  /\ \A f \in Files : {disk[f], editor[f]} \subseteq Texts[f] \cup {None}
  /\ described \subseteq Kinds \cup {"favorites", "recent"}
  /\ Len(recent) <= Capacity
  /\ generation \in [Kinds -> Nat] /\ setBy \in [Kinds -> Nat]
  /\ owed \subseteq Nodes /\ missed \subseteq Nodes
  /\ \A i \in DOMAIN listings : listings[i].node \in Nodes
  /\ DOMAIN tree = Nodes

\* The nodes that the tree shows.
Downwards(ns) == Root \in ns /\ \A n \in ns : tree[n].nodes \subseteq ns
Shown == {n \in Nodes : \A ns \in SUBSET Nodes : Downwards(ns) => n \in ns}

\* Once the tree has settled, every file shows the rows of the text it was
\* read from that pass the filters and the recent requests of now, and the
\* view names those filters, however late its reads came back.
RowsObeyFilters ==
  Quiet =>
    /\ described = Active(filters)
    /\ \A f \in Files \cap Shown :
         LET rows == Painted(f, tree[f].source) IN
         tree[f].rows = rows.rows /\ tree[f].message = rows.message

\* Once the tree has settled, it shows the open folders, and in them what
\* the editor has open and else the disk holds.  There are two exceptions.
\* Where a slower read was overtaken and painted last, the tree may show what
\* that one found; a file of an open folder that the editor has open is not
\* exempt by this, as its text is never read.  And a node that a directory
\* coming or going has altered may show what was there before, until the
\* next refresh, as no watcher reports directories.
TreeIsCurrent ==
  Quiet =>
    \A n \in Shown : tree[n].late \/ n \in missed \/ tree[n] = Current(n)

\* The recent requests are the last ones sent, the oldest first, each with
\* the fingerprint of its last send.
Later(s, n) == {s[m].key : m \in (n + 1)..Len(s)}
LatestSends ==
  {n \in DOMAIN sends : /\ sends[n].key \notin Later(sends, n)
                        /\ Cardinality(Later(sends, n)) < Capacity}
RecentsAreLatest ==
  \E at \in Bijection(DOMAIN recent, LatestSends) :
    /\ \A i, j \in DOMAIN recent : i < j => at[i] < at[j]
    /\ \A i \in DOMAIN recent : recent[i] = sends[at[i]]

\* A filter that a prompt has set is never changed by a prompt opened
\* earlier, whichever of the two is answered first.
OlderPromptNeverWins ==
  [][\A k \in Kinds : setBy'[k] >= setBy[k]]_vars
=============================================================================
