---------------------------- MODULE RequestFiles ----------------------------
(***************************************************************************)
(* The commands that create files (src/extension/createHttpFile.ts,        *)
(* createRequestFolder.ts, initWorkspace.ts, importCurl.ts,                *)
(* importOpenapi.ts, importPostman.ts): each looks, asks and looks again,  *)
(* awaiting the file system or the user in between, while other commands   *)
(* and the user change files, directories and the open folders.            *)
(*                                                                         *)
(* Below a workspace folder lies the directory .requests and, in it, other *)
(* directories; a file is named by its folder, its directory and its name. *)
(***************************************************************************)
EXTENDS Naturals, Sequences, FiniteSets, SequencesExt

CONSTANTS
  Workspaces,  \* the folders that may be open in the window
  Dirs, Top,   \* the directories below a folder, and .requests among them
  Parent,      \* the directory each other directory lies in
  Names, Keep, \* the names of files, and .gitkeep among them
  Scaffold,    \* the files of Init Workspace, in their order
  Imports,     \* what an imported document may hold: files and variables
  EnvNames,    \* names of environments
  Variables,   \* names of variables
  Commands,    \* the commands that may be running
  Users,       \* the contents that the user writes
  None,        \* no file, no folder
  MaxChanges   \* bound: changes made by the user

Kinds == {"file", "folder", "init", "curl", "import"}
Creators == {"file", "folder"}
Writers == Commands \cup Users
Files == [ws : Workspaces, dir : Dirs, name : Names]
Places == Workspaces \X Dirs

\* An environment file defines variables; one that does not parse defines
\* none.
Entries == [env : EnvNames, var : Variables, by : Writers]
EnvFiles ==
  [state : {"valid"}, entries : SUBSET Entries]
    \cup [state : {"missing", "malformed"}, entries : {{}}]
ByUsers == {v \in EnvFiles : \A e \in v.entries : e.by \in Users}

ASSUME FilesAssumption ==
  /\ Top \in Dirs /\ Parent \in [Dirs \ {Top} -> Dirs]
  /\ Keep \in Names /\ Scaffold \in Seq(Names) \ {<<>>}
  /\ \A i \in Imports : i.files \in Seq(Names) /\ i.vars \subseteq Variables
  /\ None \notin Writers \cup Workspaces /\ MaxChanges \in Nat

VARIABLES
  open,    \* vscode.workspace.workspaceFolders
  dirs,    \* each directory: "missing", "dir" or "link"
  disk,    \* each file's content, named by who wrote it, or None
  env,     \* the .http-env.json of each folder
  cmd,     \* each command: where it is, and what it holds
  changes  \* history: how often the user changed something

vars == <<open, dirs, disk, env, cmd, changes>>

\* ------------------------------------------------------------------------
\* Commands.  dir is the directory a creator was started for, at the one its
\* walk has come to, into the one the file goes to.  Histories: confirmed,
\* that the user allowed the target to be overwritten; raced, that the file
\* changed since the command looked; since, the value of changes when the
\* folder was chosen or, for a creator, when its prompt was answered.

Fresh == [kind |-> "none", pc |-> "idle", ws |-> None, offered |-> {},
          dir |-> Top, at |-> Top, into |-> Top, todo |-> <<>>, vars |-> {},
          name |-> None, read |-> {}, confirmed |-> FALSE, raced |-> FALSE,
          since |-> 0]

Done(x) == [Fresh EXCEPT !.kind = x.kind, !.pc = "done"]

\* The file a command is about to write.
Target(x) == [ws |-> x.ws, dir |-> x.into, name |-> Head(x.todo)]
Aims(x, f) == x.pc \in {"confirming", "writing"} /\ Target(x) = f

\* The directories from d up to .requests.
Upwards(ds) == \A q \in ds \ {Top} : Parent[q] \in ds
Chain(d) ==
  {p \in Dirs : \A ds \in SUBSET Dirs : d \in ds /\ Upwards(ds) => p \in ds}

\* The first await after the folder is known.
Chosen(x, w) ==
  LET pc == CASE x.kind \in Creators -> "checking"
              [] x.kind = "init" -> "mkdir"
              [] OTHER -> "asking"
  IN [x EXCEPT !.pc = pc, !.ws = w, !.offered = {}, !.since = changes,
               !.todo = IF x.kind = "init" THEN Scaffold ELSE <<>>]

\* What comes after a file was written or skipped.
NextFile(x) ==
  IF Len(x.todo) > 1
  THEN [x EXCEPT !.pc = "looking", !.todo = Tail(@), !.confirmed = FALSE]
  ELSE IF x.kind = "import" /\ x.vars # {}
  THEN [x EXCEPT !.pc = "env", !.todo = <<>>, !.confirmed = FALSE]
  ELSE Done(x)

\* Command c moves on; nothing else changes.
Moves(c, x) ==
  /\ cmd' = [cmd EXCEPT ![c] = x]
  /\ UNCHANGED <<open, dirs, disk, env, changes>>

\* Command c moves on and leaves files and an environment file changed; the
\* commands that have looked at them were raced.
Changes(c, x, newDisk, newEnv) ==
  /\ disk' = newDisk /\ env' = newEnv
  /\ cmd' = [d \in Commands |->
       IF d = c THEN x
       ELSE [cmd[d] EXCEPT !.raced =
               \/ @
               \/ \E f \in Files : newDisk[f] # disk[f] /\ Aims(cmd[d], f)
               \/ /\ cmd[d].pc = "merging"
                  /\ newEnv[cmd[d].ws] # env[cmd[d].ws]]]

\* ------------------------------------------------------------------------
\* Choosing the folder: a node of the tree, the only folder, or a pick.

StartAtNode(c, k, w, d) ==
  /\ cmd[c].pc = "idle" /\ k \in Creators
  /\ w \in open /\ d # Top
  /\ Moves(c, [Fresh EXCEPT !.kind = k, !.pc = "checking", !.ws = w,
                            !.dir = d, !.at = d, !.into = d,
                            !.since = changes])

Start(c, k) ==
  LET x == [Fresh EXCEPT !.kind = k] IN
  /\ cmd[c].pc = "idle"
  /\ \/ open = {} /\ Moves(c, Done(x))
     \/ /\ Cardinality(open) = 1
        /\ \E w \in open : Moves(c, Chosen(x, w))
     \/ /\ Cardinality(open) > 1
        /\ Moves(c, [x EXCEPT !.pc = "choosing", !.offered = open])

\* Faulty variant: a folder is taken although it was closed meanwhile.
PickUnchecked(x, w) == Chosen(x, w)

Pick(x, w) == IF w \in open THEN Chosen(x, w) ELSE Done(x)

Choose(c, w) ==
  /\ cmd[c].pc = "choosing" /\ w \in cmd[c].offered
  /\ Moves(c, Pick(cmd[c], w))

\* Every prompt may be dismissed, and what is pasted or loaded be refused.
Dismiss(c) ==
  /\ cmd[c].pc \in {"choosing", "naming", "asking", "env"}
  /\ Moves(c, Done(cmd[c]))

\* ------------------------------------------------------------------------
\* Creators.  The walk from a directory up to .requests, one stat at a time.

Check(c) ==
  LET x == cmd[c] IN
  /\ x.pc \in {"checking", "rechecking"}
  /\ IF dirs[x.ws, x.at] # "dir" THEN Moves(c, Done(x))
     ELSE IF x.at # Top THEN Moves(c, [x EXCEPT !.at = Parent[@]])
     ELSE IF x.pc = "checking" THEN Moves(c, [x EXCEPT !.pc = "naming"])
     ELSE Moves(c, [x EXCEPT !.pc = IF x.kind = "file" THEN "applying"
                                    ELSE "probing"])

\* Faulty variant: the answer is acted on without another look.
NamedUnchecked(x, d, n) ==
  [x EXCEPT !.pc = "applying", !.at = x.dir, !.into = d, !.todo = <<n>>,
            !.since = changes]

\* A name is given: the folder must be open still, and the walk is repeated.
Named(x, d, n) ==
  IF x.ws \notin open THEN Done(x)
  ELSE [x EXCEPT !.pc = "rechecking", !.at = x.dir, !.into = d, !.todo = <<n>>,
                 !.since = changes]

NameFile(c, n) ==
  /\ cmd[c].pc = "naming" /\ cmd[c].kind = "file"
  /\ Moves(c, Named(cmd[c], cmd[c].dir, n))

NameFolder(c, d) ==
  /\ cmd[c].pc = "naming" /\ cmd[c].kind = "folder"
  /\ d # Top /\ Parent[d] = cmd[c].dir
  /\ Moves(c, Named(cmd[c], d, Keep))

\* The new folder must not exist.
Probe(c) ==
  LET x == cmd[c] IN
  /\ x.pc = "probing"
  /\ IF dirs[x.ws, x.into] # "missing" THEN Moves(c, Done(x))
     ELSE Moves(c, [x EXCEPT !.pc = "applying"])

\* Faulty variant: the edit is allowed to replace a file.
AllowedAlways(f) == TRUE

\* The edit must not find the file.
Allowed(f) == disk[f] = None

\* Directories that a file needs are made with it.
Made(w, d) ==
  [p \in Places |-> IF p[1] = w /\ p[2] \in Chain(d) /\ dirs[p] = "missing"
                    THEN "dir" ELSE dirs[p]]

\* applyEdit: the file is created, or the editor refuses.
Apply(c) ==
  LET x == cmd[c]
      f == Target(x) IN
  /\ x.pc = "applying"
  /\ \/ Moves(c, Done(x))
     \/ /\ Allowed(f)
        /\ dirs' = Made(f.ws, f.dir)
        /\ Changes(c, Done(x), [disk EXCEPT ![f] = c], env)
        /\ UNCHANGED <<open, changes>>

\* ------------------------------------------------------------------------
\* Init Workspace and the importers.

\* The command pasted, or the document loaded, parses: a curl command asks
\* for a name, a document brings files and variables.
Load(c, i) ==
  LET x == cmd[c] IN
  /\ x.pc = "asking"
  /\ IF x.kind = "curl" THEN Moves(c, [x EXCEPT !.pc = "naming"])
     ELSE IF i.files = <<>> THEN Moves(c, Done(x))
     ELSE Moves(c, [x EXCEPT !.pc = "mkdir", !.todo = i.files,
                             !.vars = i.vars])

NameImport(c, n) ==
  /\ cmd[c].pc = "naming" /\ cmd[c].kind = "curl"
  /\ Moves(c, [cmd[c] EXCEPT !.pc = "mkdir", !.todo = <<n>>])

\* The importers go on when .requests cannot be made.
MakeDir(c) ==
  LET looks == [cmd[c] EXCEPT !.pc = "looking"] IN
  /\ cmd[c].pc = "mkdir"
  /\ \/ /\ dirs' = Made(cmd[c].ws, Top)
        /\ cmd' = [cmd EXCEPT ![c] = looks]
        /\ UNCHANGED <<open, disk, env, changes>>
     \/ Moves(c, IF cmd[c].kind = "init" THEN Done(looks) ELSE looks)

\* Faulty variant: the importer does not look.
FoundUnasked(x) == [x EXCEPT !.pc = "writing"]

\* The file exists: Init Workspace leaves it alone, an importer asks.
Found(x) ==
  IF x.kind = "init" THEN NextFile(x) ELSE [x EXCEPT !.pc = "confirming"]

Look(c) ==
  LET x == [cmd[c] EXCEPT !.raced = FALSE] IN
  /\ x.pc = "looking"
  /\ Moves(c, IF disk[Target(x)] # None THEN Found(x)
              ELSE [x EXCEPT !.pc = "writing"])

Confirm(c) ==
  /\ cmd[c].pc = "confirming"
  /\ Moves(c, [cmd[c] EXCEPT !.pc = "writing", !.confirmed = TRUE])

Decline(c) ==
  LET x == cmd[c] IN
  /\ x.pc = "confirming"
  /\ Moves(c, IF x.kind = "curl" THEN Done(x) ELSE NextFile(x))

Write(c) ==
  LET x == cmd[c]
      f == Target(x) IN
  /\ x.pc = "writing"
  /\ dirs' = Made(f.ws, f.dir)
  /\ Changes(c, NextFile(x), [disk EXCEPT ![f] = c], env)
  /\ UNCHANGED <<open, changes>>

\* The variables go into the environment the user names.
NameEnv(c, e) ==
  /\ cmd[c].pc = "env"
  /\ Moves(c, [cmd[c] EXCEPT !.pc = "reading", !.name = e])

ReadEnv(c) ==
  /\ cmd[c].pc = "reading"
  /\ Moves(c, [cmd[c] EXCEPT !.pc = "merging", !.raced = FALSE,
                             !.read = env[cmd[c].ws].entries])

\* Faulty variant: the environment is replaced.
MergedOver(x, c) ==
  {e \in x.read : e.env # x.name}
    \cup {[env |-> x.name, var |-> v, by |-> c] : v \in x.vars}

\* What was read, with the imported variables in the environment's place.
Merged(x, c) ==
  {e \in x.read : e.env # x.name \/ e.var \notin x.vars}
    \cup {[env |-> x.name, var |-> v, by |-> c] : v \in x.vars}

MergeEnv(c) ==
  LET x == cmd[c] IN
  /\ x.pc = "merging"
  /\ Changes(c, Done(x), disk,
             [env EXCEPT ![x.ws] = [state |-> "valid",
                                    entries |-> Merged(x, c)]])
  /\ UNCHANGED <<open, dirs, changes>>

\* ------------------------------------------------------------------------
\* The user.

Acts == changes < MaxChanges /\ changes' = changes + 1

EditFile(f, v) ==
  /\ Acts
  /\ dirs[f.ws, f.dir] = "dir" /\ v # disk[f]
  /\ Changes(None, Fresh, [disk EXCEPT ![f] = v], env)
  /\ UNCHANGED <<open, dirs>>

EditEnv(w, v) ==
  /\ Acts
  /\ v # env[w]
  /\ Changes(None, Fresh, disk, [env EXCEPT ![w] = v])
  /\ UNCHANGED <<open, dirs>>

\* A directory is removed with all that is in it, made, or becomes a link.
ChangeDir(w, d, s) ==
  /\ Acts
  /\ dirs[w, d] # s /\ (d # Top => dirs[w, Parent[d]] = "dir")
  /\ dirs' = [p \in Places |->
                IF p = <<w, d>> THEN s
                ELSE IF p[1] = w /\ d \in Chain(p[2]) THEN "missing"
                ELSE dirs[p]]
  /\ Changes(None, Fresh,
             [f \in Files |-> IF f.ws = w /\ d \in Chain(f.dir) THEN None
                             ELSE disk[f]],
             env)
  /\ UNCHANGED open

ChangeFolders(ws) ==
  /\ Acts
  /\ ws # open
  /\ open' = ws
  /\ UNCHANGED <<dirs, disk, env, cmd>>

\* ------------------------------------------------------------------------

\* A directory lies in one that exists, a file too.
Init ==
  /\ open \in SUBSET Workspaces
  /\ dirs \in [Places -> {"missing", "dir", "link"}]
  /\ \A w \in Workspaces, d \in Dirs \ {Top} :
        dirs[w, d] # "missing" => dirs[w, Parent[d]] = "dir"
  /\ disk \in [Files -> Users \cup {None}]
  /\ \A f \in Files : disk[f] # None => dirs[f.ws, f.dir] = "dir"
  /\ env \in [Workspaces -> ByUsers]
  /\ cmd = [c \in Commands |-> Fresh]
  /\ changes = 0

Finished ==
  /\ \A c \in Commands : cmd[c].pc = "done"
  /\ changes = MaxChanges
  /\ UNCHANGED vars

Next ==
  \/ \E c \in Commands :
       \/ \E k \in Kinds : Start(c, k)
       \/ \E k \in Kinds, w \in Workspaces, d \in Dirs :
            StartAtNode(c, k, w, d)
       \/ \E w \in Workspaces : Choose(c, w)
       \/ \E n \in Names : NameFile(c, n) \/ NameImport(c, n)
       \/ \E d \in Dirs : NameFolder(c, d)
       \/ \E i \in Imports : Load(c, i)
       \/ \E e \in EnvNames : NameEnv(c, e)
       \/ Dismiss(c) \/ Check(c) \/ Probe(c) \/ Apply(c)
       \/ MakeDir(c) \/ Look(c) \/ Confirm(c) \/ Decline(c) \/ Write(c)
       \/ ReadEnv(c) \/ MergeEnv(c)
  \/ \E f \in Files, v \in Users \cup {None} : EditFile(f, v)
  \/ \E w \in Workspaces, v \in ByUsers : EditEnv(w, v)
  \/ \E w \in Workspaces, d \in Dirs, s \in {"missing", "dir", "link"} :
       ChangeDir(w, d, s)
  \/ \E ws \in SUBSET Workspaces : ChangeFolders(ws)
  \/ Finished

Spec == Init /\ [][Next]_vars

\* ------------------------------------------------------------------------
\* Properties.

\* The step is one of command c.
Acted(c) == cmd'[c].pc # cmd[c].pc /\ changes' = changes

\* No command changes the content of a file that exists, unless the user
\* said that it may be overwritten, or the file appeared or changed while
\* the command was between its look and its write (importCurl.ts:12,
\* initWorkspace.ts:73, createHttpFile.ts:6).
ContentSurvives ==
  [][\A f \in Files, c \in Commands :
       disk[f] # None /\ disk'[f] # disk[f] /\ Acted(c)
         => Target(cmd[c]) = f /\ (cmd[c].confirmed \/ cmd[c].raced)]_vars

\* Merging imported variables keeps every entry of an environment file that
\* the import does not define, unless the file changed between the read and
\* the write (importOpenapi.ts:190).
EntriesSurvive ==
  [][\A w \in Workspaces, c \in Commands :
       env'[w] # env[w] /\ Acted(c) /\ ~cmd[c].raced
         => \A e \in env[w].entries :
              \/ e \in env'[w].entries
              \/ e.env = cmd[c].name /\ e.var \in cmd[c].vars]_vars

\* A file comes to lie in an open folder and, when a creator makes it, under
\* directories that exist and are no links, unless the user changed something
\* after the folder was chosen and, for a creator, after the name was given
\* (workspaceFolderChoice.ts:14, createHttpFile.ts:40).
CreatedWhereChecked ==
  [][\A f \in Files, c \in Commands :
       disk'[f] # disk[f] /\ Acted(c) /\ cmd[c].since = changes
         => /\ f.ws \in open
            /\ cmd[c].kind \in Creators =>
                 \A d \in Chain(cmd[c].dir) : dirs[f.ws, d] = "dir"]_vars

=============================================================================
