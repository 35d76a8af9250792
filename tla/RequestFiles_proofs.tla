------------------------- MODULE RequestFiles_proofs -------------------------
(* Theorems about RequestFiles, for all directories, names, documents,      *)
(* numbers of commands and bounds.                                          *)
EXTENDS RequestFiles, TLAPS, SequenceTheorems

Filing == {"looking", "confirming", "writing"}
PCs == {"idle", "choosing", "checking", "naming", "rechecking", "probing",
        "applying", "asking", "mkdir", "env", "reading", "merging", "done"}
         \cup Filing

Command == [kind : Kinds \cup {"none"}, pc : PCs,
            ws : Workspaces \cup {None}, offered : SUBSET Workspaces,
            dir : Dirs, at : Dirs, into : Dirs, todo : Seq(Names),
            vars : SUBSET Variables, name : EnvNames \cup {None},
            read : SUBSET Entries, confirmed : BOOLEAN, raced : BOOLEAN,
            since : Nat]

TypeOK ==
  /\ open \subseteq Workspaces
  /\ dirs \in [Places -> {"missing", "dir", "link"}]
  /\ disk \in [Files -> Writers \cup {None}]
  /\ env \in [Workspaces -> EnvFiles]
  /\ cmd \in [Commands -> Command]
  /\ changes \in Nat

\* A command under way has a folder, and a file to write once it may; only a
\* creator walks and applies an edit, and only the others write.
PlaceInv(x) ==
  /\ x.pc = "choosing" => x.kind \in Kinds
  /\ x.pc \notin {"idle", "choosing", "done"} => x.ws \in Workspaces
  /\ x.pc \in {"rechecking", "probing", "applying", "mkdir"} \cup Filing =>
       x.todo # <<>>
  /\ x.pc \in {"checking", "rechecking", "probing", "applying"} =>
       x.kind \in Creators
  /\ x.pc \in {"asking", "mkdir", "env", "reading", "merging"} \cup Filing =>
       x.kind \in Kinds \ Creators
  /\ x.pc \in {"reading", "merging"} => x.name \in EnvNames

\* What is about to be written over did not exist when it was looked at.
LookedInv(x) ==
  x.pc = "writing" =>
    x.confirmed \/ x.raced \/ disk[Target(x)] = None

\* What was read is what there is.
ReadInv(x) ==
  x.pc = "merging" /\ ~x.raced => x.read = env[x.ws].entries

\* While the user changes nothing, the folder stays open, and the directories
\* that the walk has come through are there.
Walked(x) ==
  IF x.pc = "rechecking" THEN Chain(x.dir) \ Chain(x.at)
  ELSE IF x.pc \in {"probing", "applying"} THEN Chain(x.dir)
  ELSE {}

CheckedInv(x) ==
  /\ x.since <= changes
  /\ x.since = changes =>
       /\ x.pc \notin {"idle", "choosing", "done"} => x.ws \in open
       /\ \A d \in Walked(x) : dirs[x.ws, d] = "dir"

CommandInv(x) == PlaceInv(x) /\ LookedInv(x) /\ ReadInv(x) /\ CheckedInv(x)

IInv == \A c \in Commands : CommandInv(cmd[c])

----------------------------------------------------------------------------
(* The way from a directory up to .requests.                               *)

LEMMA ChainOfTop == Chain(Top) = {Top}
<1>1. Upwards({Top}) /\ {Top} \in SUBSET Dirs
  BY FilesAssumption DEF Upwards
<1>2. Top \in Chain(Top)
  BY FilesAssumption DEF Chain
<1> QED
  BY <1>1, <1>2 DEF Chain

\* Beyond a directory itself, its way is that of the directory it lies in.
LEMMA ChainOfParent ==
  ASSUME NEW d \in Dirs \ {Top}
  PROVE  Chain(d) \ Chain(Parent[d]) \subseteq {d}
<1> DEFINE way == {d} \cup Chain(Parent[d])
<1>1. Parent[d] \in Dirs /\ Parent[d] \in Chain(Parent[d])
  BY FilesAssumption DEF Chain
<1>2. way \in SUBSET Dirs /\ d \in way
  BY DEF Chain
<1>3. ASSUME NEW q \in Chain(Parent[d]), q # Top
      PROVE  Parent[q] \in Chain(Parent[d])
  <2>1. q \in Dirs /\ Parent[q] \in Dirs
    BY <1>3, FilesAssumption DEF Chain
  <2>2. ASSUME NEW ds \in SUBSET Dirs, Parent[d] \in ds, Upwards(ds)
        PROVE  Parent[q] \in ds
    <3>1. q \in ds
      BY <2>2 DEF Chain
    <3> QED
      BY <1>3, <2>2, <3>1 DEF Upwards
  <2> QED
    BY <2>1, <2>2 DEF Chain
<1>4. Upwards(way)
  BY <1>1, <1>3 DEF Upwards
<1> HIDE DEF way
<1>5. ASSUME NEW p \in Chain(d) PROVE p \in way
  BY <1>2, <1>4 DEF Chain
<1> QED
  BY <1>5 DEF way

LEMMA LongerTail ==
  ASSUME NEW S, NEW s \in Seq(S), Len(s) > 1
  PROVE  Tail(s) \in Seq(S) /\ Tail(s) # <<>>
<1> DEFINE t == Tail(s)
<1>1. s # <<>> /\ Len(s) \in Nat
  OBVIOUS
<1>2. t \in Seq(S) /\ Len(t) = Len(s) - 1
  BY <1>1, HeadTailProperties
<1> HIDE DEF t
<1>3. t # <<>>
  BY <1>1, <1>2
<1> QED
  BY <1>2, <1>3 DEF t

----------------------------------------------------------------------------
(* Commands and what they become.                                          *)

LEMMA FreshTyped == Fresh \in Command
<1>1. <<>> \in Seq(Names) /\ Top \in Dirs
  BY FilesAssumption
<1> QED
  BY <1>1 DEF Fresh, Command, PCs, Filing

\* A command that is done, or has yet to choose its folder.
LEMMA RestingStep ==
  ASSUME TypeOK, NEW x \in Command, x.pc \in {"idle", "done", "choosing"},
         x.pc = "choosing" => x.kind \in Kinds, x.since = 0
  PROVE  CommandInv(x)
<1>1. PlaceInv(x)
  BY DEF PlaceInv, Filing
<1>2. LookedInv(x) /\ ReadInv(x)
  BY DEF LookedInv, ReadInv
<1>3. Walked(x) = {}
  BY DEF Walked
<1>4. CheckedInv(x)
  BY <1>3 DEF CheckedInv, TypeOK
<1> QED
  BY <1>1, <1>2, <1>4 DEF CommandInv

LEMMA DoneStep ==
  ASSUME TypeOK, NEW x \in Command
  PROVE  /\ Done(x) \in Command /\ CommandInv(Done(x))
         /\ Done(x).pc = "done"
<1>1. Done(x) \in Command
  BY FreshTyped DEF Done, Command, PCs
<1>2. Done(x).pc = "done" /\ Done(x).since = 0
  BY FreshTyped DEF Done, Fresh, Command
<1> QED
  BY <1>1, <1>2, RestingStep

\* A file that a command is about to write.
LEMMA TargetTyped ==
  ASSUME NEW x \in Command, PlaceInv(x),
         x.pc \in {"applying"} \cup Filing
  PROVE  Target(x) \in Files /\ Target(x).ws = x.ws
<1>1. x.ws \in Workspaces /\ x.into \in Dirs /\ x.todo \in Seq(Names) \ {<<>>}
  BY DEF PlaceInv, Command, Filing
<1>2. Head(x.todo) \in Names
  BY <1>1
<1> QED
  BY <1>1, <1>2 DEF Target, Files

\* After a file the next one is looked at, then the environment is asked for.
LEMMA NextFileStep ==
  ASSUME TypeOK, NEW x \in Command, CommandInv(x), x.pc \in Filing
  PROVE  /\ NextFile(x) \in Command
         /\ NextFile(x).pc \in {"looking", "env", "done"}
         /\ PlaceInv(NextFile(x))
         /\ CheckedInv(NextFile(x))
<1> DEFINE y == NextFile(x)
<1>1. /\ x.todo \in Seq(Names) \ {<<>>} /\ x.ws \in Workspaces
      /\ x.kind \in Kinds \ Creators
  BY DEF CommandInv, PlaceInv, Command, Filing
<1>2. CASE Len(x.todo) > 1
  <2>1. y = [x EXCEPT !.pc = "looking", !.todo = Tail(@), !.confirmed = FALSE]
    BY <1>2 DEF NextFile
  <2>2. Tail(x.todo) \in Seq(Names) /\ Tail(x.todo) # <<>>
    BY <1>1, <1>2, LongerTail
  <2>3. y \in Command
    BY <2>1, <2>2 DEF Command, PCs, Filing
  <2>4. /\ y.pc = "looking" /\ y.todo # <<>> /\ y.kind = x.kind /\ y.ws = x.ws
        /\ y.since = x.since
    BY <2>1, <2>2 DEF Command
  <2> QED
    BY <1>1, <2>3, <2>4
    DEF CommandInv, PlaceInv, CheckedInv, Walked, Filing
<1>3. CASE ~(Len(x.todo) > 1) /\ x.kind = "import" /\ x.vars # {}
  <2>1. y = [x EXCEPT !.pc = "env", !.todo = <<>>, !.confirmed = FALSE]
    BY <1>3 DEF NextFile
  <2>2. y \in Command
    <3>1. <<>> \in Seq(Names)
      OBVIOUS
    <3> QED
      BY <2>1, <3>1 DEF Command, PCs
  <2>3. /\ y.pc = "env" /\ y.kind = x.kind /\ y.ws = x.ws
        /\ y.since = x.since
    BY <2>1 DEF Command
  <2> QED
    BY <1>1, <2>2, <2>3
    DEF CommandInv, PlaceInv, CheckedInv, Walked, Filing
<1>4. CASE ~(Len(x.todo) > 1) /\ ~(x.kind = "import" /\ x.vars # {})
  <2>1. y = Done(x)
    BY <1>4 DEF NextFile
  <2> QED
    BY <2>1, DoneStep DEF CommandInv
<1> QED
  BY <1>2, <1>3, <1>4

\* A command whose folder was just chosen, among those that are open.
LEMMA ChosenStep ==
  ASSUME TypeOK, NEW x \in Command, x.kind \in Kinds, NEW w \in open
  PROVE  Chosen(x, w) \in Command /\ CommandInv(Chosen(x, w))
<1> DEFINE y == Chosen(x, w)
           pc == CASE x.kind \in Creators -> "checking"
                   [] x.kind = "init" -> "mkdir"
                   [] OTHER -> "asking"
           todo == IF x.kind = "init" THEN Scaffold ELSE <<>>
<1>1. y = [x EXCEPT !.pc = pc, !.ws = w, !.offered = {}, !.since = changes,
                    !.todo = todo]
  BY DEF Chosen
<1>2. /\ pc \in {"checking", "mkdir", "asking"}
      /\ pc = "checking" => x.kind \in Creators
      /\ pc \in {"mkdir", "asking"} => x.kind \notin Creators
      /\ pc = "mkdir" => todo # <<>>
  BY FilesAssumption DEF Creators, Kinds
<1>3. todo \in Seq(Names) /\ w \in Workspaces /\ changes \in Nat
  BY FilesAssumption DEF TypeOK
<1> HIDE DEF pc, todo
<1>4. y \in Command
  BY <1>1, <1>2, <1>3 DEF Command, PCs
<1>5. /\ y.pc = pc /\ y.ws = w /\ y.since = changes /\ y.todo = todo
      /\ y.kind = x.kind
  BY <1>1 DEF Command
<1>6. PlaceInv(y)
  BY <1>2, <1>3, <1>5 DEF PlaceInv, Filing
<1>7. LookedInv(y) /\ ReadInv(y)
  BY <1>2, <1>5 DEF LookedInv, ReadInv
<1>8. Walked(y) = {}
  BY <1>2, <1>5 DEF Walked
<1>9. CheckedInv(y)
  BY <1>2, <1>3, <1>5, <1>8 DEF CheckedInv
<1> QED
  BY <1>4, <1>6, <1>7, <1>9 DEF CommandInv

\* What a command becomes in a step of its own that reaches no walk and no
\* write, while it keeps its folder.
LEMMA OnwardStep ==
  ASSUME TypeOK, NEW x \in Command, CommandInv(x), x.ws \in Workspaces,
         x.pc \notin {"idle", "choosing", "done"},
         NEW y \in Command, PlaceInv(y), y.ws = x.ws, y.since = x.since,
         y.pc \notin {"rechecking", "probing", "applying", "writing", "merging"}
  PROVE  CommandInv(y)
<1>1. Walked(y) = {}
  BY DEF Walked
<1>2. CheckedInv(y)
  BY <1>1 DEF CommandInv, CheckedInv
<1>3. LookedInv(y) /\ ReadInv(y)
  BY DEF LookedInv, ReadInv
<1> QED
  BY <1>2, <1>3 DEF CommandInv

----------------------------------------------------------------------------
(* Steps.                                                                  *)

\* A step that only moves command c on.
LEMMA MovesStep ==
  ASSUME TypeOK, IInv, NEW c \in Commands, NEW x \in Command, CommandInv(x),
         Moves(c, x)
  PROVE  TypeOK' /\ IInv'
<1>1. /\ cmd' = [cmd EXCEPT ![c] = x]
      /\ UNCHANGED <<open, dirs, disk, env, changes>>
  BY DEF Moves
<1>2. TypeOK'
  BY <1>1 DEF TypeOK
<1>3. ASSUME NEW d \in Commands PROVE CommandInv(cmd[d])'
  <2>1. CommandInv(cmd'[d])
    BY <1>1 DEF IInv, TypeOK
  <2> QED
    BY <1>1, <2>1
    DEF CommandInv, PlaceInv, LookedInv, ReadInv, CheckedInv
<1> QED
  BY <1>2, <1>3 DEF IInv

\* A command that differs in no more than having been raced.
Alike(y, z) ==
  /\ z.pc = y.pc /\ z.ws = y.ws /\ z.kind = y.kind /\ z.todo = y.todo
  /\ z.name = y.name /\ z.into = y.into /\ z.confirmed = y.confirmed
  /\ z.read = y.read /\ z.since = y.since /\ z.dir = y.dir /\ z.at = y.at

\* What the change of files and environments by another leaves of a command.
LEMMA RacedStep ==
  ASSUME TypeOK, NEW y \in Command, CommandInv(y),
         NEW z \in Command, Alike(y, z), y.raced => z.raced,
         disk' \in [Files -> Writers \cup {None}],
         env' \in [Workspaces -> EnvFiles],
         \A f \in Files : disk'[f] # disk[f] /\ Aims(y, f) => z.raced,
         y.pc = "merging" /\ env'[y.ws] # env[y.ws] => z.raced,
         changes' \in Nat, changes <= changes',
         changes' = changes =>
           /\ open' = open
           /\ \A p \in Places : dirs[p] = "dir" => dirs'[p] = "dir"
  PROVE  /\ PlaceInv(z)
         /\ z.pc = "writing" =>
              z.confirmed \/ z.raced \/ disk'[Target(z)] = None
         /\ z.pc = "merging" /\ ~z.raced => z.read = env'[z.ws].entries
         /\ z.since <= changes'
         /\ z.since = changes' =>
              /\ z.pc \notin {"idle", "choosing", "done"} => z.ws \in open'
              /\ \A d \in Walked(z) : dirs'[z.ws, d] = "dir"
<1>1. PlaceInv(z)
  BY DEF Alike, CommandInv, PlaceInv
<1>2. Target(z) = Target(y) /\ Walked(z) = Walked(y)
  BY DEF Alike, Target, Walked
<1>3. ASSUME z.pc = "writing"
      PROVE  z.confirmed \/ z.raced \/ disk'[Target(z)] = None
  <2>1. y.pc = "writing" /\ z.confirmed = y.confirmed
    BY <1>3 DEF Alike
  <2>2. Target(y) \in Files /\ Aims(y, Target(y))
    BY <2>1, TargetTyped DEF CommandInv, Filing, Aims
  <2>3. y.confirmed \/ y.raced \/ disk[Target(y)] = None
    BY <2>1 DEF CommandInv, LookedInv
  <2> QED
    BY <1>2, <2>1, <2>2, <2>3
<1>4. z.pc = "merging" /\ ~z.raced => z.read = env'[z.ws].entries
  BY DEF Alike, CommandInv, ReadInv
<1>5. y.since <= changes /\ z.since = y.since
  BY DEF Alike, CommandInv, CheckedInv
<1>6. y.since \in Nat /\ changes \in Nat
  BY DEF TypeOK, Command
<1>7. z.since <= changes'
  BY <1>5, <1>6
<1>8. ASSUME z.since = changes'
      PROVE  /\ z.pc \notin {"idle", "choosing", "done"} => z.ws \in open'
             /\ \A d \in Walked(z) : dirs'[z.ws, d] = "dir"
  <2>1. changes' = changes /\ y.since = changes
    BY <1>5, <1>6, <1>8
  <2>2. y.pc \notin {"idle", "choosing", "done"} => y.ws \in open
    BY <2>1 DEF CommandInv, CheckedInv
  <2>3. ASSUME NEW d \in Walked(z) PROVE dirs'[z.ws, d] = "dir"
    <3>1. dirs[y.ws, d] = "dir"
      BY <1>2, <2>1, <2>3 DEF CommandInv, CheckedInv
    <3>2. y.pc \in {"rechecking", "probing", "applying"} /\ d \in Dirs
      BY <1>2, <2>3 DEF Walked, Chain
    <3>3. y.ws \in Workspaces
      BY <3>2 DEF CommandInv, PlaceInv
    <3>4. <<y.ws, d>> \in Places
      BY <3>2, <3>3 DEF Places
    <3> QED
      BY <2>1, <3>1, <3>4 DEF Alike
  <2> QED
    BY <2>1, <2>2, <2>3 DEF Alike
<1> QED
  BY <1>1, <1>3, <1>4, <1>7, <1>8

\* A step that changes files and environments, of a command c or of the user.
LEMMA ChangesStep ==
  ASSUME TypeOK, IInv, NEW c, NEW x \in Command, NEW newDisk, NEW newEnv,
         Changes(c, x, newDisk, newEnv),
         newDisk \in [Files -> Writers \cup {None}],
         newEnv \in [Workspaces -> EnvFiles],
         changes' \in Nat, changes <= changes',
         changes' = changes =>
           /\ open' = open
           /\ \A p \in Places : dirs[p] = "dir" => dirs'[p] = "dir",
         c \in Commands =>
           /\ PlaceInv(x) /\ CheckedInv(x) /\ Walked(x) = {}
           /\ x.pc \notin {"writing", "merging"} /\ changes' = changes
  PROVE  cmd' \in [Commands -> Command] /\ IInv'
<1>1. ASSUME NEW d \in Commands, d # c
      PROVE  cmd'[d] \in Command /\ CommandInv(cmd[d])'
  <2> DEFINE y == cmd[d]
             raced == \/ y.raced
                      \/ \E f \in Files : newDisk[f] # disk[f] /\ Aims(y, f)
                      \/ y.pc = "merging" /\ newEnv[y.ws] # env[y.ws]
  <2>1. /\ cmd'[d] = [y EXCEPT !.raced = raced]
        /\ disk' = newDisk /\ env' = newEnv
    BY <1>1 DEF Changes
  <2>2. y \in Command /\ CommandInv(y) /\ raced \in BOOLEAN
    BY DEF IInv, TypeOK, Command
  <2>3. /\ \A f \in Files : disk'[f] # disk[f] /\ Aims(y, f) => raced
        /\ y.pc = "merging" /\ env'[y.ws] # env[y.ws] => raced
        /\ y.raced => raced
    BY <2>1
  <2> HIDE DEF raced, y
  <2>4. cmd'[d] \in Command /\ Alike(y, cmd'[d]) /\ cmd'[d].raced = raced
    BY <2>1, <2>2 DEF Command, Alike
  <2> DEFINE z == cmd'[d]
  <2>5. /\ z \in Command /\ Alike(y, z)
        /\ y.raced => z.raced
        /\ \A f \in Files : disk'[f] # disk[f] /\ Aims(y, f) => z.raced
        /\ y.pc = "merging" /\ env'[y.ws] # env[y.ws] => z.raced
    BY <2>3, <2>4
  <2>6. /\ disk' \in [Files -> Writers \cup {None}]
        /\ env' \in [Workspaces -> EnvFiles]
    BY <2>1
  <2> HIDE DEF z
  <2>7. /\ PlaceInv(z)
        /\ z.pc = "writing" =>
             z.confirmed \/ z.raced \/ disk'[Target(z)] = None
        /\ z.pc = "merging" /\ ~z.raced => z.read = env'[z.ws].entries
        /\ z.since <= changes'
        /\ z.since = changes' =>
             /\ z.pc \notin {"idle", "choosing", "done"} => z.ws \in open'
             /\ \A k \in Walked(z) : dirs'[z.ws, k] = "dir"
    BY <2>2, <2>5, <2>6, RacedStep
  <2> USE DEF z
  <2>8. z \in Command
    BY <2>5
  <2> QED
    BY <2>7, <2>8 DEF CommandInv, PlaceInv, LookedInv, ReadInv, CheckedInv
<1>2. ASSUME c \in Commands
      PROVE  cmd'[c] \in Command /\ CommandInv(cmd[c])'
  <2>1. cmd'[c] = x
    BY <1>2 DEF Changes
  <2>2. (x.since <= changes)' /\ (x.since = changes' =>
          (x.pc \notin {"idle", "choosing", "done"} => x.ws \in open'))
    BY <1>2 DEF CheckedInv
  <2> QED
    BY <1>2, <2>1, <2>2
    DEF CommandInv, PlaceInv, LookedInv, ReadInv, CheckedInv
<1>3. DOMAIN cmd' = Commands /\ cmd' = [d \in Commands |-> cmd'[d]]
  BY DEF Changes
<1>4. cmd' \in [Commands -> Command]
  BY <1>1, <1>2, <1>3
<1> QED
  BY <1>1, <1>2, <1>4 DEF IInv

\* What a state says of one command.
LEMMA Each ==
  ASSUME TypeOK, IInv, NEW c \in Commands
  PROVE  /\ cmd[c] \in Command /\ CommandInv(cmd[c]) /\ PlaceInv(cmd[c])
         /\ changes \in Nat
BY DEF TypeOK, IInv, CommandInv

LEMMA StartStep ==
  ASSUME TypeOK, IInv, NEW c \in Commands, NEW k \in Kinds, Start(c, k)
  PROVE  TypeOK' /\ IInv'
<1> DEFINE x == [Fresh EXCEPT !.kind = k]
           y == [x EXCEPT !.pc = "choosing", !.offered = open]
<1>1. x \in Command /\ x.kind = k /\ x.since = 0
  BY FreshTyped DEF Command, Fresh
<1>2. y \in Command /\ y.kind = k /\ y.since = 0 /\ y.pc = "choosing"
  BY <1>1 DEF TypeOK, Command, PCs
<1>3. CommandInv(y)
  BY <1>2, RestingStep
<1>4. \/ Moves(c, Done(x)) \/ Moves(c, y)
      \/ \E w \in open : Moves(c, Chosen(x, w))
  BY DEF Start
<1> HIDE DEF x, y
<1>5. CASE Moves(c, Done(x))
  BY <1>1, <1>5, DoneStep, MovesStep
<1>6. CASE Moves(c, y)
  BY <1>2, <1>3, <1>6, MovesStep
<1>7. ASSUME NEW w \in open, Moves(c, Chosen(x, w)) PROVE TypeOK' /\ IInv'
  <2>1. Chosen(x, w) \in Command /\ CommandInv(Chosen(x, w))
    BY <1>1, ChosenStep
  <2> QED
    BY <1>7, <2>1, MovesStep
<1> QED
  BY <1>4, <1>5, <1>6, <1>7

LEMMA StartAtNodeStep ==
  ASSUME TypeOK, IInv, NEW c \in Commands, NEW k \in Kinds,
         NEW w \in Workspaces, NEW d \in Dirs, StartAtNode(c, k, w, d)
  PROVE  TypeOK' /\ IInv'
<1> DEFINE y == [Fresh EXCEPT !.kind = k, !.pc = "checking", !.ws = w,
                              !.dir = d, !.at = d, !.into = d,
                              !.since = changes]
<1>1. k \in Creators /\ w \in open /\ Moves(c, y) /\ changes \in Nat
  BY DEF StartAtNode, TypeOK
<1>2. y \in Command
  BY <1>1, FreshTyped DEF Command, PCs
<1>3. y.pc = "checking" /\ y.kind = k /\ y.ws = w /\ y.since = changes
  BY DEF Fresh
<1> HIDE DEF y
<1>4. PlaceInv(y)
  BY <1>1, <1>3 DEF PlaceInv, Filing
<1>5. LookedInv(y) /\ ReadInv(y)
  BY <1>3 DEF LookedInv, ReadInv
<1>6. Walked(y) = {}
  BY <1>3 DEF Walked
<1>7. CheckedInv(y)
  BY <1>1, <1>3, <1>6 DEF CheckedInv
<1> QED
  BY <1>1, <1>2, <1>4, <1>5, <1>7, MovesStep DEF CommandInv

LEMMA ChooseStep ==
  ASSUME TypeOK, IInv, NEW c \in Commands, NEW w, Choose(c, w)
  PROVE  TypeOK' /\ IInv'
<1>1. cmd[c] \in Command /\ cmd[c].kind \in Kinds
  BY Each DEF Choose, PlaceInv
<1>2. CASE w \in open
  <2>1. Moves(c, Chosen(cmd[c], w))
    BY <1>2 DEF Choose, Pick
  <2>2. Chosen(cmd[c], w) \in Command /\ CommandInv(Chosen(cmd[c], w))
    BY <1>1, <1>2, ChosenStep
  <2> QED
    BY <2>1, <2>2, MovesStep
<1>3. CASE w \notin open
  <2>1. Moves(c, Done(cmd[c]))
    BY <1>3 DEF Choose, Pick
  <2> QED
    BY <1>1, <2>1, DoneStep, MovesStep
<1> QED
  BY <1>2, <1>3

LEMMA DismissStep ==
  ASSUME TypeOK, IInv, NEW c \in Commands, Dismiss(c)
  PROVE  TypeOK' /\ IInv'
BY Each, DoneStep, MovesStep DEF Dismiss

\* One stat of the walk.
LEMMA CheckStep ==
  ASSUME TypeOK, IInv, NEW c \in Commands, Check(c)
  PROVE  TypeOK' /\ IInv'
<1> DEFINE x == cmd[c]
           up == [x EXCEPT !.at = Parent[@]]
           named == [x EXCEPT !.pc = "naming"]
           checked == [x EXCEPT !.pc = IF x.kind = "file" THEN "applying"
                                       ELSE "probing"]
<1>1. x \in Command /\ CommandInv(x) /\ PlaceInv(x) /\ changes \in Nat
  BY Each
<1>2. /\ x.pc \in {"checking", "rechecking"} /\ x.ws \in Workspaces
      /\ x.kind \in Creators /\ x.at \in Dirs /\ x.dir \in Dirs
      /\ x.pc = "rechecking" => x.todo # <<>>
  BY <1>1 DEF Check, PlaceInv, Command, Filing
<1>3. CASE dirs[x.ws, x.at] # "dir"
  <2>1. Moves(c, Done(x))
    BY <1>3 DEF Check
  <2> QED
    BY <1>1, <2>1, DoneStep, MovesStep
<1>4. CASE dirs[x.ws, x.at] = "dir" /\ x.at # Top
  <2>1. Moves(c, up)
    BY <1>4 DEF Check
  <2>2. Parent[x.at] \in Dirs
    BY <1>2, <1>4, FilesAssumption
  <2>3. up \in Command
    BY <1>1, <2>2 DEF Command
  <2>4. /\ up.pc = x.pc /\ up.ws = x.ws /\ up.kind = x.kind
        /\ up.todo = x.todo /\ up.dir = x.dir /\ up.at = Parent[x.at]
        /\ up.since = x.since /\ up.name = x.name
    BY <1>1 DEF Command
  <2> HIDE DEF up, x
  <2>5. PlaceInv(up)
    BY <1>1, <2>4 DEF PlaceInv
  <2>6. LookedInv(up) /\ ReadInv(up)
    BY <1>2, <2>4 DEF LookedInv, ReadInv
  <2>7. ASSUME x.since = changes, NEW d \in Walked(up)
        PROVE  dirs[up.ws, d] = "dir"
    <3>1. x.pc = "rechecking" /\ d \in Chain(x.dir) \ Chain(Parent[x.at])
      BY <1>2, <2>4, <2>7 DEF Walked
    <3>2. CASE d \in Chain(x.at)
      <4>1. x.at \in Dirs \ {Top}
        BY <1>2, <1>4
      <4>2. Chain(x.at) \ Chain(Parent[x.at]) \subseteq {x.at}
        BY <4>1, ChainOfParent
      <4>3. d = x.at
        BY <3>1, <3>2, <4>2
      <4> QED
        BY <1>4, <2>4, <4>3
    <3>3. CASE d \notin Chain(x.at)
      <4>1. d \in Walked(x)
        BY <3>1, <3>3 DEF Walked
      <4> QED
        BY <1>1, <2>4, <2>7, <4>1 DEF CommandInv, CheckedInv
    <3> QED
      BY <3>2, <3>3
  <2>8. x.since = changes => x.ws \in open
    BY <1>1, <1>2 DEF CommandInv, CheckedInv
  <2>9. CheckedInv(up)
    BY <1>1, <2>4, <2>7, <2>8 DEF CommandInv, CheckedInv
  <2> QED
    BY <2>1, <2>3, <2>5, <2>6, <2>9, MovesStep DEF CommandInv
<1>5. CASE dirs[x.ws, x.at] = "dir" /\ x.at = Top /\ x.pc = "checking"
  <2>1. Moves(c, named)
    BY <1>5 DEF Check
  <2>2. named \in Command
    BY <1>1 DEF Command, PCs
  <2>3. /\ named.pc = "naming" /\ named.ws = x.ws /\ named.since = x.since
    BY <1>1 DEF Command
  <2> HIDE DEF named, x
  <2>4. PlaceInv(named)
    BY <1>2, <2>3 DEF PlaceInv, Filing
  <2>5. CommandInv(named)
    BY <1>1, <1>2, <2>2, <2>3, <2>4, OnwardStep
  <2> QED
    BY <2>1, <2>2, <2>5, MovesStep
<1>6. CASE dirs[x.ws, x.at] = "dir" /\ x.at = Top /\ x.pc = "rechecking"
  <2>1. Moves(c, checked)
    BY <1>6 DEF Check
  <2>2. checked \in Command
    BY <1>1 DEF Command, PCs
  <2>3. /\ checked.pc \in {"applying", "probing"} /\ checked.ws = x.ws
        /\ checked.since = x.since /\ checked.kind = x.kind
        /\ checked.todo = x.todo /\ checked.dir = x.dir
    BY <1>1 DEF Command
  <2> HIDE DEF checked, x
  <2>4. PlaceInv(checked)
    BY <1>2, <1>6, <2>3 DEF PlaceInv, Filing
  <2>5. LookedInv(checked) /\ ReadInv(checked)
    BY <2>3 DEF LookedInv, ReadInv
  <2>6. ASSUME x.since = changes, NEW d \in Walked(checked)
        PROVE  dirs[checked.ws, d] = "dir"
    <3>1. d \in Chain(x.dir)
      BY <2>3, <2>6 DEF Walked
    <3>2. CASE d \in Chain(Top)
      BY <1>6, <2>3, <3>2, ChainOfTop
    <3>3. CASE d \notin Chain(Top)
      <4>1. d \in Walked(x)
        BY <1>6, <3>1, <3>3 DEF Walked
      <4> QED
        BY <1>1, <2>3, <2>6, <4>1 DEF CommandInv, CheckedInv
    <3> QED
      BY <3>2, <3>3
  <2>7. x.since = changes => x.ws \in open
    BY <1>1, <1>2 DEF CommandInv, CheckedInv
  <2>8. CheckedInv(checked)
    BY <1>1, <2>3, <2>6, <2>7 DEF CommandInv, CheckedInv
  <2> QED
    BY <2>1, <2>2, <2>4, <2>5, <2>8, MovesStep DEF CommandInv
<1> QED
  BY <1>2, <1>3, <1>4, <1>5, <1>6

\* A creator's prompt is answered: from here on nothing may have changed.
LEMMA NamedStep ==
  ASSUME TypeOK, IInv, NEW c \in Commands, cmd[c].pc = "naming",
         cmd[c].kind \in Creators, NEW d \in Dirs, NEW n \in Names,
         Moves(c, Named(cmd[c], d, n))
  PROVE  TypeOK' /\ IInv'
<1> DEFINE x == cmd[c]
           y == [x EXCEPT !.pc = "rechecking", !.at = x.dir, !.into = d,
                          !.todo = <<n>>, !.since = changes]
<1>1. x \in Command /\ x.ws \in Workspaces /\ changes \in Nat
  BY Each DEF PlaceInv, Filing
<1>2. CASE x.ws \notin open
  <2>1. Moves(c, Done(x))
    BY <1>2 DEF Named
  <2> QED
    BY <1>1, <2>1, DoneStep, MovesStep
<1>3. CASE x.ws \in open
  <2>1. Moves(c, y)
    BY <1>3 DEF Named
  <2>2. <<n>> \in Seq(Names) /\ <<n>> # <<>>
    OBVIOUS
  <2>3. y \in Command
    BY <1>1, <2>2 DEF Command, PCs
  <2>4. /\ y.pc = "rechecking" /\ y.ws = x.ws /\ y.kind = x.kind
        /\ y.todo = <<n>> /\ y.dir = x.dir /\ y.at = x.dir
        /\ y.since = changes
    BY <1>1 DEF Command
  <2> HIDE DEF x, y
  <2>5. PlaceInv(y)
    <3>1. x.kind \in Creators
      BY DEF x
    <3> QED
      BY <1>1, <2>2, <2>4, <3>1 DEF PlaceInv, Filing
  <2>6. LookedInv(y) /\ ReadInv(y)
    BY <2>4 DEF LookedInv, ReadInv
  <2>7. Walked(y) = {}
    BY <2>4 DEF Walked
  <2>8. CheckedInv(y)
    BY <1>1, <1>3, <2>4, <2>7 DEF CheckedInv
  <2> QED
    BY <2>1, <2>3, <2>5, <2>6, <2>8, MovesStep DEF CommandInv
<1> QED
  BY <1>2, <1>3

LEMMA NameStep ==
  ASSUME TypeOK, IInv, NEW c \in Commands,
         \/ \E n \in Names : NameFile(c, n)
         \/ \E d \in Dirs : NameFolder(c, d)
  PROVE  TypeOK' /\ IInv'
<1>1. cmd[c].dir \in Dirs /\ Keep \in Names
  BY Each, FilesAssumption DEF Command
<1>2. ASSUME NEW n \in Names, NameFile(c, n) PROVE TypeOK' /\ IInv'
  <2>1. /\ cmd[c].pc = "naming" /\ cmd[c].kind \in Creators
        /\ Moves(c, Named(cmd[c], cmd[c].dir, n))
    BY <1>2 DEF NameFile, Creators
  <2> QED
    BY <1>1, <2>1, NamedStep
<1>3. ASSUME NEW d \in Dirs, NameFolder(c, d) PROVE TypeOK' /\ IInv'
  <2>1. /\ cmd[c].pc = "naming" /\ cmd[c].kind \in Creators
        /\ Moves(c, Named(cmd[c], d, Keep))
    BY <1>3 DEF NameFolder, Creators
  <2> QED
    BY <1>1, <2>1, NamedStep
<1> QED
  BY <1>2, <1>3

LEMMA ProbeStep ==
  ASSUME TypeOK, IInv, NEW c \in Commands, Probe(c)
  PROVE  TypeOK' /\ IInv'
<1> DEFINE x == cmd[c]
           y == [x EXCEPT !.pc = "applying"]
<1>1. x \in Command /\ CommandInv(x) /\ PlaceInv(x) /\ x.pc = "probing"
  BY Each DEF Probe
<1>2. Moves(c, Done(x)) \/ Moves(c, y)
  BY DEF Probe
<1>3. y \in Command
  BY <1>1 DEF Command, PCs
<1>4. /\ y.pc = "applying" /\ y.ws = x.ws /\ y.since = x.since
      /\ y.kind = x.kind /\ y.todo = x.todo /\ y.dir = x.dir
  BY <1>1 DEF Command
<1> HIDE DEF x, y
<1>5. PlaceInv(y)
  BY <1>1, <1>4 DEF PlaceInv, Filing
<1>6. LookedInv(y) /\ ReadInv(y)
  BY <1>4 DEF LookedInv, ReadInv
<1>7. Walked(y) = Walked(x)
  BY <1>1, <1>4 DEF Walked
<1>8. CheckedInv(y)
  BY <1>1, <1>4, <1>7 DEF CommandInv, CheckedInv
<1>9. CASE Moves(c, Done(x))
  BY <1>1, <1>9, DoneStep, MovesStep
<1>10. CASE Moves(c, y)
  BY <1>3, <1>5, <1>6, <1>8, <1>10, MovesStep DEF CommandInv
<1> QED
  BY <1>2, <1>9, <1>10

\* Making directories leaves those that are there.
LEMMA MadeKeeps ==
  ASSUME TypeOK, NEW w, NEW d, dirs' = Made(w, d)
  PROVE  /\ dirs' \in [Places -> {"missing", "dir", "link"}]
         /\ \A p \in Places : dirs[p] = "dir" => dirs'[p] = "dir"
BY DEF TypeOK, Made

LEMMA ApplyStep ==
  ASSUME TypeOK, IInv, NEW c \in Commands, Apply(c)
  PROVE  TypeOK' /\ IInv'
<1> DEFINE x == cmd[c]
           f == Target(x)
<1>1. x \in Command /\ PlaceInv(x) /\ x.pc = "applying" /\ f \in Files
  BY Each, TargetTyped DEF Apply
<1>2. CASE Moves(c, Done(x))
  BY <1>1, <1>2, DoneStep, MovesStep
<1>3. CASE /\ dirs' = Made(f.ws, f.dir)
           /\ Changes(c, Done(x), [disk EXCEPT ![f] = c], env)
           /\ UNCHANGED <<open, changes>>
  <2> DEFINE written == [disk EXCEPT ![f] = c]
             y == Done(x)
  <2>1. written \in [Files -> Writers \cup {None}]
    BY <1>1 DEF TypeOK, Writers
  <2>2. /\ env \in [Workspaces -> EnvFiles] /\ changes' \in Nat
        /\ changes <= changes' /\ open' = open /\ changes' = changes
    BY <1>3 DEF TypeOK
  <2>3. y \in Command /\ CommandInv(y) /\ y.pc = "done"
    BY <1>1, DoneStep
  <2> HIDE DEF written, y
  <2>4. Walked(y) = {}
    BY <2>3 DEF Walked
  <2>5. Changes(c, y, written, env)
    BY <1>3 DEF written, y
  <2>6. cmd' \in [Commands -> Command] /\ IInv'
    BY <1>3, <2>1, <2>2, <2>3, <2>4, <2>5, MadeKeeps, ChangesStep
    DEF CommandInv
  <2>7. disk' = written /\ env' = env
    BY <2>5 DEF Changes
  <2> QED
    BY <1>3, <2>1, <2>2, <2>6, <2>7, MadeKeeps DEF TypeOK
<1> QED
  BY <1>2, <1>3 DEF Apply

LEMMA LoadStep ==
  ASSUME TypeOK, IInv, NEW c \in Commands, NEW i \in Imports, Load(c, i)
  PROVE  TypeOK' /\ IInv'
<1> DEFINE x == cmd[c]
           named == [x EXCEPT !.pc = "naming"]
           made == [x EXCEPT !.pc = "mkdir", !.todo = i.files, !.vars = i.vars]
<1>1. /\ x \in Command /\ CommandInv(x) /\ x.pc = "asking"
      /\ x.ws \in Workspaces /\ x.kind \in Kinds \ Creators
  BY Each DEF Load, PlaceInv
<1>2. \/ Moves(c, Done(x)) \/ Moves(c, named)
      \/ i.files # <<>> /\ Moves(c, made)
  BY DEF Load
<1>3. named \in Command
  BY <1>1 DEF Command, PCs
<1>4. named.pc = "naming" /\ named.ws = x.ws /\ named.since = x.since
  BY <1>1 DEF Command
<1>5. i.files \in Seq(Names) /\ i.vars \subseteq Variables
  BY FilesAssumption
<1>6. made \in Command
  BY <1>1, <1>5 DEF Command, PCs
<1>7. /\ made.pc = "mkdir" /\ made.ws = x.ws /\ made.since = x.since
      /\ made.kind = x.kind /\ made.todo = i.files
  BY <1>1 DEF Command
<1> HIDE DEF x, named, made
<1>8. PlaceInv(named)
  BY <1>1, <1>4 DEF PlaceInv, Filing
<1>9. CASE Moves(c, Done(x))
  BY <1>1, <1>9, DoneStep, MovesStep
<1>10. CASE Moves(c, named)
  <2>1. CommandInv(named)
    BY <1>1, <1>3, <1>4, <1>8, OnwardStep
  <2> QED
    BY <1>3, <1>10, <2>1, MovesStep
<1>11. CASE i.files # <<>> /\ Moves(c, made)
  <2>1. PlaceInv(made)
    BY <1>1, <1>7, <1>11 DEF PlaceInv, Filing
  <2>2. CommandInv(made)
    BY <1>1, <1>6, <1>7, <2>1, OnwardStep
  <2> QED
    BY <1>6, <1>11, <2>2, MovesStep
<1> QED
  BY <1>2, <1>9, <1>10, <1>11

LEMMA NameImportStep ==
  ASSUME TypeOK, IInv, NEW c \in Commands, NEW n \in Names,
         NameImport(c, n)
  PROVE  TypeOK' /\ IInv'
<1> DEFINE x == cmd[c]
           y == [x EXCEPT !.pc = "mkdir", !.todo = <<n>>]
<1>1. /\ x \in Command /\ CommandInv(x) /\ x.pc = "naming"
      /\ x.ws \in Workspaces /\ x.kind \in Kinds \ Creators
      /\ Moves(c, y)
  BY Each DEF NameImport, PlaceInv, Kinds, Creators
<1>2. <<n>> \in Seq(Names) /\ <<n>> # <<>>
  OBVIOUS
<1>3. y \in Command
  BY <1>1, <1>2 DEF Command, PCs
<1>4. /\ y.pc = "mkdir" /\ y.ws = x.ws /\ y.since = x.since
      /\ y.kind = x.kind /\ y.todo = <<n>>
  BY <1>1 DEF Command
<1> HIDE DEF x, y
<1>5. PlaceInv(y)
  BY <1>1, <1>2, <1>4 DEF PlaceInv, Filing
<1>6. CommandInv(y)
  BY <1>1, <1>3, <1>4, <1>5, OnwardStep
<1> QED
  BY <1>1, <1>3, <1>6, MovesStep

\* The commands that a step leaves alone, while directories appear or the
\* user changes something.
LEMMA OthersStep ==
  ASSUME TypeOK, IInv, NEW d \in Commands, cmd'[d] = cmd[d],
         UNCHANGED <<disk, env>>, changes' \in Nat, changes <= changes',
         changes' = changes =>
           /\ open' = open
           /\ \A p \in Places : dirs[p] = "dir" => dirs'[p] = "dir"
  PROVE  CommandInv(cmd[d])'
<1> DEFINE y == cmd[d]
<1>1. y \in Command /\ CommandInv(y) /\ Alike(y, y)
  BY Each DEF Alike
<1>2. /\ disk' \in [Files -> Writers \cup {None}]
      /\ env' \in [Workspaces -> EnvFiles]
      /\ \A f \in Files : disk'[f] # disk[f] /\ Aims(y, f) => y.raced
      /\ y.pc = "merging" /\ env'[y.ws] # env[y.ws] => y.raced
  BY DEF TypeOK
<1> HIDE DEF y
<1>3. /\ PlaceInv(y)
      /\ y.pc = "writing" => y.confirmed \/ y.raced \/ disk'[Target(y)] = None
      /\ y.pc = "merging" /\ ~y.raced => y.read = env'[y.ws].entries
      /\ y.since <= changes'
      /\ y.since = changes' =>
           /\ y.pc \notin {"idle", "choosing", "done"} => y.ws \in open'
           /\ \A k \in Walked(y) : dirs'[y.ws, k] = "dir"
  BY <1>1, <1>2, RacedStep
<1> QED
  BY <1>3 DEF y, CommandInv, PlaceInv, LookedInv, ReadInv, CheckedInv

\* A step that makes directories and moves command c on.
LEMMA MakesStep ==
  ASSUME TypeOK, IInv, NEW c \in Commands, NEW w, NEW y \in Command,
         CommandInv(y), y.pc = "looking",
         dirs' = Made(w, Top), cmd' = [cmd EXCEPT ![c] = y],
         UNCHANGED <<open, disk, env, changes>>
  PROVE  TypeOK' /\ IInv'
<1>1. TypeOK'
  BY MadeKeeps DEF TypeOK
<1>2. ASSUME NEW d \in Commands, d # c PROVE CommandInv(cmd[d])'
  <2>1. cmd'[d] = cmd[d] /\ changes \in Nat
    BY <1>2 DEF TypeOK
  <2> QED
    BY <2>1, MadeKeeps, OthersStep
<1>3. cmd'[c] = y
  BY DEF TypeOK
<1>4. Walked(y) = {}
  BY DEF Walked
<1>5. CheckedInv(y)'
  BY <1>4 DEF CommandInv, CheckedInv
<1>6. LookedInv(y)' /\ ReadInv(y)' /\ PlaceInv(y)'
  BY DEF CommandInv, LookedInv, ReadInv, PlaceInv
<1>7. CommandInv(cmd[c])'
  BY <1>3, <1>5, <1>6
  DEF CommandInv, PlaceInv, LookedInv, ReadInv, CheckedInv
<1> QED
  BY <1>1, <1>2, <1>7 DEF IInv

LEMMA MakeDirStep ==
  ASSUME TypeOK, IInv, NEW c \in Commands, MakeDir(c)
  PROVE  TypeOK' /\ IInv'
<1> DEFINE x == cmd[c]
           y == [x EXCEPT !.pc = "looking"]
<1>1. /\ x \in Command /\ CommandInv(x) /\ PlaceInv(x) /\ x.pc = "mkdir"
      /\ x.ws \in Workspaces /\ changes \in Nat
  BY Each DEF MakeDir, PlaceInv
<1>2. y \in Command
  BY <1>1 DEF Command, PCs, Filing
<1>3. /\ y.pc = "looking" /\ y.ws = x.ws /\ y.since = x.since
      /\ y.kind = x.kind /\ y.todo = x.todo
  BY <1>1 DEF Command
<1>4. \/ Moves(c, Done(y)) \/ Moves(c, y)
      \/ /\ dirs' = Made(x.ws, Top) /\ cmd' = [cmd EXCEPT ![c] = y]
         /\ UNCHANGED <<open, disk, env, changes>>
  BY DEF MakeDir
<1> HIDE DEF x, y
<1>5. PlaceInv(y)
  BY <1>1, <1>3 DEF PlaceInv, Filing
<1>6. CommandInv(y)
  BY <1>1, <1>2, <1>3, <1>5, OnwardStep
<1>7. CASE Moves(c, Done(y))
  BY <1>2, <1>7, DoneStep, MovesStep
<1>8. CASE Moves(c, y)
  BY <1>2, <1>6, <1>8, MovesStep
<1>9. CASE /\ dirs' = Made(x.ws, Top) /\ cmd' = [cmd EXCEPT ![c] = y]
           /\ UNCHANGED <<open, disk, env, changes>>
  BY <1>2, <1>3, <1>6, <1>9, MakesStep
<1> QED
  BY <1>4, <1>7, <1>8, <1>9

\* To the next file, or to the end.
LEMMA NextMoves ==
  ASSUME TypeOK, IInv, NEW c \in Commands, NEW x \in Command,
         CommandInv(x), x.pc \in Filing, Moves(c, NextFile(x))
  PROVE  TypeOK' /\ IInv'
<1> DEFINE y == NextFile(x)
<1>1. /\ y \in Command /\ y.pc \in {"looking", "env", "done"}
      /\ PlaceInv(y) /\ CheckedInv(y)
  BY NextFileStep
<1> HIDE DEF y
<1>2. LookedInv(y) /\ ReadInv(y)
  BY <1>1 DEF LookedInv, ReadInv
<1>3. Moves(c, y)
  BY DEF y
<1> QED
  BY <1>1, <1>2, <1>3, MovesStep DEF CommandInv

LEMMA LookStep ==
  ASSUME TypeOK, IInv, NEW c \in Commands, Look(c)
  PROVE  TypeOK' /\ IInv'
<1> DEFINE x == [cmd[c] EXCEPT !.raced = FALSE]
           asks == [x EXCEPT !.pc = "confirming"]
           writes == [x EXCEPT !.pc = "writing"]
<1>1. /\ cmd[c] \in Command /\ CommandInv(cmd[c]) /\ PlaceInv(cmd[c])
      /\ cmd[c].pc = "looking"
  BY Each DEF Look
<1>2. /\ x \in Command /\ x.pc = "looking" /\ x.ws = cmd[c].ws
      /\ x.kind = cmd[c].kind /\ x.todo = cmd[c].todo
      /\ x.since = cmd[c].since /\ x.into = cmd[c].into
  BY <1>1 DEF Look, Command
<1>3. Target(x) = Target(cmd[c])
  BY <1>2 DEF Target
<1>4. \/ Moves(c, NextFile(x)) \/ Moves(c, asks)
      \/ disk[Target(x)] = None /\ Moves(c, writes)
  BY <1>3 DEF Look, Found
<1>5. PlaceInv(x) /\ x.ws \in Workspaces
  BY <1>1, <1>2 DEF PlaceInv, Filing
<1>6. LookedInv(x) /\ ReadInv(x)
  BY <1>2 DEF LookedInv, ReadInv
<1>7. CheckedInv(x)
  BY <1>1, <1>2 DEF CommandInv, CheckedInv, Walked
<1> HIDE DEF x
<1>8. CommandInv(x)
  BY <1>5, <1>6, <1>7 DEF CommandInv
<1>9. CASE Moves(c, NextFile(x))
  BY <1>2, <1>8, <1>9, NextMoves DEF Filing
<1>10. CASE Moves(c, asks)
  <2>1. asks \in Command
    BY <1>2 DEF Command, PCs, Filing
  <2>2. /\ asks.pc = "confirming" /\ asks.ws = x.ws /\ asks.kind = x.kind
        /\ asks.todo = x.todo /\ asks.since = x.since
    BY <1>2 DEF Command
  <2> HIDE DEF asks
  <2>3. PlaceInv(asks)
    BY <1>2, <1>5, <2>2 DEF PlaceInv, Filing
  <2>4. CommandInv(asks)
    BY <1>2, <1>5, <1>8, <2>1, <2>2, <2>3, OnwardStep
  <2> QED
    BY <1>10, <2>1, <2>4, MovesStep
<1>11. CASE disk[Target(x)] = None /\ Moves(c, writes)
  <2>1. writes \in Command
    BY <1>2 DEF Command, PCs, Filing
  <2>2. /\ writes.pc = "writing" /\ writes.ws = x.ws /\ writes.kind = x.kind
        /\ writes.todo = x.todo /\ writes.since = x.since
        /\ writes.into = x.into
    BY <1>2 DEF Command
  <2> HIDE DEF writes
  <2>3. PlaceInv(writes)
    BY <1>2, <1>5, <2>2 DEF PlaceInv, Filing
  <2>4. Target(writes) = Target(x)
    BY <2>2 DEF Target
  <2>5. LookedInv(writes) /\ ReadInv(writes)
    BY <1>11, <2>2, <2>4 DEF LookedInv, ReadInv
  <2>6. Walked(writes) = {}
    BY <2>2 DEF Walked
  <2>7. CheckedInv(writes)
    BY <1>2, <1>7, <2>2, <2>6 DEF CheckedInv
  <2> QED
    BY <1>11, <2>1, <2>3, <2>5, <2>7, MovesStep DEF CommandInv
<1> QED
  BY <1>4, <1>9, <1>10, <1>11

LEMMA ConfirmStep ==
  ASSUME TypeOK, IInv, NEW c \in Commands, Confirm(c)
  PROVE  TypeOK' /\ IInv'
<1> DEFINE x == cmd[c]
           y == [x EXCEPT !.pc = "writing", !.confirmed = TRUE]
<1>1. /\ x \in Command /\ CommandInv(x) /\ PlaceInv(x)
      /\ x.pc = "confirming" /\ Moves(c, y)
  BY Each DEF Confirm
<1>2. y \in Command
  BY <1>1 DEF Command, PCs, Filing
<1>3. /\ y.pc = "writing" /\ y.ws = x.ws /\ y.kind = x.kind
      /\ y.todo = x.todo /\ y.since = x.since /\ y.confirmed
  BY <1>1 DEF Command
<1> HIDE DEF x, y
<1>4. PlaceInv(y)
  BY <1>1, <1>3 DEF PlaceInv, Filing
<1>5. LookedInv(y) /\ ReadInv(y)
  BY <1>3 DEF LookedInv, ReadInv
<1>6. Walked(y) = {}
  BY <1>3 DEF Walked
<1>7. CheckedInv(y)
  BY <1>1, <1>3, <1>6 DEF CommandInv, CheckedInv
<1> QED
  BY <1>1, <1>2, <1>4, <1>5, <1>7, MovesStep DEF CommandInv

LEMMA DeclineStep ==
  ASSUME TypeOK, IInv, NEW c \in Commands, Decline(c)
  PROVE  TypeOK' /\ IInv'
BY Each, DoneStep, NextMoves, MovesStep DEF Decline, Filing

LEMMA WriteStep ==
  ASSUME TypeOK, IInv, NEW c \in Commands, Write(c)
  PROVE  TypeOK' /\ IInv'
<1> DEFINE x == cmd[c]
           f == Target(x)
           written == [disk EXCEPT ![f] = c]
           y == NextFile(x)
<1>1. /\ x \in Command /\ CommandInv(x) /\ PlaceInv(x) /\ x.pc = "writing"
      /\ f \in Files
  BY Each, TargetTyped DEF Write, Filing
<1>2. written \in [Files -> Writers \cup {None}]
  BY <1>1 DEF TypeOK, Writers
<1>3. /\ env \in [Workspaces -> EnvFiles] /\ changes' \in Nat
      /\ changes <= changes' /\ open' = open /\ changes' = changes
      /\ dirs' = Made(f.ws, f.dir) /\ Changes(c, y, written, env)
  BY DEF Write, TypeOK
<1>4. /\ y \in Command /\ PlaceInv(y) /\ CheckedInv(y)
      /\ y.pc \in {"looking", "env", "done"}
  BY <1>1, NextFileStep DEF Filing
<1> HIDE DEF x, f, written, y
<1>5. Walked(y) = {}
  BY <1>4 DEF Walked
<1>6. cmd' \in [Commands -> Command] /\ IInv'
  BY <1>2, <1>3, <1>4, <1>5, MadeKeeps, ChangesStep
<1>7. disk' = written /\ env' = env
  BY <1>3 DEF Changes
<1> QED
  BY <1>2, <1>3, <1>6, <1>7, MadeKeeps DEF TypeOK

LEMMA NameEnvStep ==
  ASSUME TypeOK, IInv, NEW c \in Commands, NEW e \in EnvNames, NameEnv(c, e)
  PROVE  TypeOK' /\ IInv'
<1> DEFINE x == cmd[c]
           y == [x EXCEPT !.pc = "reading", !.name = e]
<1>1. /\ x \in Command /\ CommandInv(x) /\ PlaceInv(x)
      /\ x.pc = "env" /\ Moves(c, y) /\ x.ws \in Workspaces
  BY Each DEF NameEnv, PlaceInv
<1>2. y \in Command
  BY <1>1 DEF Command, PCs
<1>3. /\ y.pc = "reading" /\ y.ws = x.ws /\ y.kind = x.kind
      /\ y.since = x.since /\ y.name = e
  BY <1>1 DEF Command
<1> HIDE DEF x, y
<1>4. PlaceInv(y)
  BY <1>1, <1>3 DEF PlaceInv, Filing
<1>5. CommandInv(y)
  BY <1>1, <1>2, <1>3, <1>4, OnwardStep
<1> QED
  BY <1>1, <1>2, <1>5, MovesStep

LEMMA ReadEnvStep ==
  ASSUME TypeOK, IInv, NEW c \in Commands, ReadEnv(c)
  PROVE  TypeOK' /\ IInv'
<1> DEFINE x == cmd[c]
           y == [x EXCEPT !.pc = "merging", !.raced = FALSE,
                          !.read = env[x.ws].entries]
<1>1. /\ x \in Command /\ CommandInv(x) /\ PlaceInv(x)
      /\ x.pc = "reading" /\ Moves(c, y) /\ x.ws \in Workspaces
  BY Each DEF ReadEnv, PlaceInv
<1>2. env[x.ws].entries \in SUBSET Entries
  BY <1>1 DEF TypeOK, EnvFiles
<1>3. y \in Command
  BY <1>1, <1>2 DEF Command, PCs
<1>4. /\ y.pc = "merging" /\ y.ws = x.ws /\ y.kind = x.kind
      /\ y.since = x.since /\ y.name = x.name
      /\ y.read = env[x.ws].entries
  BY <1>1 DEF Command
<1> HIDE DEF x, y
<1>5. PlaceInv(y)
  BY <1>1, <1>4 DEF PlaceInv, Filing
<1>6. LookedInv(y) /\ ReadInv(y)
  BY <1>4 DEF LookedInv, ReadInv
<1>7. Walked(y) = {}
  BY <1>4 DEF Walked
<1>8. CheckedInv(y)
  BY <1>1, <1>4, <1>7 DEF CommandInv, CheckedInv
<1> QED
  BY <1>1, <1>3, <1>5, <1>6, <1>8, MovesStep DEF CommandInv

LEMMA MergeEnvStep ==
  ASSUME TypeOK, IInv, NEW c \in Commands, MergeEnv(c)
  PROVE  TypeOK' /\ IInv'
<1> DEFINE x == cmd[c]
           file == [state |-> "valid", entries |-> Merged(x, c)]
           merged == [env EXCEPT ![x.ws] = file]
           y == Done(x)
<1>1. /\ x \in Command /\ x.name \in EnvNames /\ x.ws \in Workspaces
  BY Each DEF MergeEnv, PlaceInv
<1>2. Merged(x, c) \subseteq Entries
  <2>1. x.read \subseteq Entries /\ x.vars \subseteq Variables
    BY <1>1 DEF Command
  <2>2. \A v \in x.vars : [env |-> x.name, var |-> v, by |-> c] \in Entries
    BY <1>1, <2>1 DEF Entries, Writers
  <2> HIDE DEF x
  <2> QED
    BY <2>1, <2>2 DEF Merged
<1>3. file \in EnvFiles
  BY <1>2 DEF EnvFiles
<1>4. merged \in [Workspaces -> EnvFiles]
  BY <1>3 DEF TypeOK
<1>5. /\ disk \in [Files -> Writers \cup {None}] /\ changes' \in Nat
      /\ changes <= changes' /\ open' = open /\ changes' = changes
      /\ dirs' = dirs /\ Changes(c, y, disk, merged)
  BY DEF MergeEnv, TypeOK
<1>6. y \in Command /\ CommandInv(y) /\ y.pc = "done"
  BY <1>1, DoneStep
<1> HIDE DEF x, file, merged, y
<1>7. Walked(y) = {}
  BY <1>6 DEF Walked
<1>8. cmd' \in [Commands -> Command] /\ IInv'
  BY <1>4, <1>5, <1>6, <1>7, ChangesStep DEF CommandInv
<1>9. disk' = disk /\ env' = merged
  BY <1>5 DEF Changes
<1> QED
  BY <1>4, <1>5, <1>8, <1>9 DEF TypeOK

\* What the user does to files and directories.
LEMMA UserStep ==
  ASSUME TypeOK, IInv, NEW newDisk \in [Files -> Writers \cup {None}],
         NEW newEnv \in [Workspaces -> EnvFiles],
         dirs' \in [Places -> {"missing", "dir", "link"}],
         Acts, open' = open, Changes(None, Fresh, newDisk, newEnv)
  PROVE  TypeOK' /\ IInv'
<1>1. /\ changes' \in Nat /\ changes <= changes' /\ changes' # changes
      /\ None \notin Commands
  BY FilesAssumption DEF Acts, TypeOK, Writers
<1>2. cmd' \in [Commands -> Command] /\ IInv'
  BY <1>1, FreshTyped, ChangesStep
<1>3. disk' = newDisk /\ env' = newEnv
  BY DEF Changes
<1> QED
  BY <1>1, <1>2, <1>3 DEF TypeOK

LEMMA EditStep ==
  ASSUME TypeOK, IInv,
         \/ \E f \in Files, v \in Users \cup {None} : EditFile(f, v)
         \/ \E w \in Workspaces, v \in ByUsers : EditEnv(w, v)
  PROVE  TypeOK' /\ IInv'
<1>1. ASSUME NEW f \in Files, NEW v \in Users \cup {None}, EditFile(f, v)
      PROVE  TypeOK' /\ IInv'
  <2> DEFINE written == [disk EXCEPT ![f] = v]
  <2>1. written \in [Files -> Writers \cup {None}]
    BY DEF TypeOK, Writers
  <2>2. /\ Acts /\ open' = open /\ dirs' = dirs
        /\ Changes(None, Fresh, written, env)
    BY <1>1 DEF EditFile
  <2> HIDE DEF written
  <2> QED
    BY <2>1, <2>2, UserStep DEF TypeOK
<1>2. ASSUME NEW w \in Workspaces, NEW v \in ByUsers, EditEnv(w, v)
      PROVE  TypeOK' /\ IInv'
  <2> DEFINE written == [env EXCEPT ![w] = v]
  <2>1. written \in [Workspaces -> EnvFiles]
    BY DEF TypeOK, ByUsers
  <2>2. /\ Acts /\ open' = open /\ dirs' = dirs
        /\ Changes(None, Fresh, disk, written)
    BY <1>2 DEF EditEnv
  <2> HIDE DEF written
  <2> QED
    BY <2>1, <2>2, UserStep DEF TypeOK
<1> QED
  BY <1>1, <1>2

LEMMA ChangeDirStep ==
  ASSUME TypeOK, IInv, NEW w \in Workspaces, NEW d \in Dirs,
         NEW s \in {"missing", "dir", "link"}, ChangeDir(w, d, s)
  PROVE  TypeOK' /\ IInv'
<1> DEFINE left == [f \in Files |-> IF f.ws = w /\ d \in Chain(f.dir)
                                   THEN None ELSE disk[f]]
<1>1. left \in [Files -> Writers \cup {None}]
  BY DEF TypeOK
<1>2. Acts /\ open' = open /\ Changes(None, Fresh, left, env)
  BY DEF ChangeDir
<1>3. dirs' \in [Places -> {"missing", "dir", "link"}]
  BY DEF ChangeDir, TypeOK
<1> HIDE DEF left
<1> QED
  BY <1>1, <1>2, <1>3, UserStep DEF TypeOK

LEMMA ChangeFoldersStep ==
  ASSUME TypeOK, IInv, NEW ws \in SUBSET Workspaces, ChangeFolders(ws)
  PROVE  TypeOK' /\ IInv'
<1>1. /\ changes' \in Nat /\ changes <= changes' /\ changes' # changes
      /\ UNCHANGED <<dirs, disk, env, cmd>> /\ open' \subseteq Workspaces
  BY DEF ChangeFolders, Acts, TypeOK
<1>2. ASSUME NEW d \in Commands PROVE CommandInv(cmd[d])'
  BY <1>1, OthersStep
<1> QED
  BY <1>1, <1>2 DEF TypeOK, IInv

LEMMA StutterStep ==
  ASSUME TypeOK, IInv, UNCHANGED vars
  PROVE  TypeOK' /\ IInv'
<1>1. UNCHANGED <<open, dirs, disk, env, cmd, changes>>
  BY DEF vars
<1>2. ASSUME NEW d \in Commands PROVE CommandInv(cmd[d])'
  BY <1>1, OthersStep DEF TypeOK
<1> QED
  BY <1>1, <1>2 DEF TypeOK, IInv

----------------------------------------------------------------------------
(* Every step, by whom it is taken.                                        *)

CommandStep(c) ==
  \/ \E k \in Kinds : Start(c, k)
  \/ \E k \in Kinds, w \in Workspaces, d \in Dirs : StartAtNode(c, k, w, d)
  \/ \E w \in Workspaces : Choose(c, w)
  \/ \E n \in Names : NameFile(c, n) \/ NameImport(c, n)
  \/ \E d \in Dirs : NameFolder(c, d)
  \/ \E i \in Imports : Load(c, i)
  \/ \E e \in EnvNames : NameEnv(c, e)
  \/ Dismiss(c) \/ Check(c) \/ Probe(c) \/ Apply(c)
  \/ MakeDir(c) \/ Look(c) \/ Confirm(c) \/ Decline(c) \/ Write(c)
  \/ ReadEnv(c) \/ MergeEnv(c)

LEMMA StepOfCommand ==
  ASSUME TypeOK, IInv, NEW c \in Commands, CommandStep(c)
  PROVE  TypeOK' /\ IInv'
<1>1. CASE \/ \E k \in Kinds : Start(c, k)
           \/ \E k \in Kinds, w \in Workspaces, d \in Dirs :
                StartAtNode(c, k, w, d)
           \/ \E w \in Workspaces : Choose(c, w)
  BY <1>1, StartStep, StartAtNodeStep, ChooseStep
<1>2. CASE \/ \E n \in Names : NameFile(c, n) \/ NameImport(c, n)
           \/ \E d \in Dirs : NameFolder(c, d)
  BY <1>2, NameStep, NameImportStep
<1>3. CASE \/ \E i \in Imports : Load(c, i)
           \/ \E e \in EnvNames : NameEnv(c, e)
           \/ Dismiss(c) \/ Check(c) \/ Probe(c) \/ Apply(c)
  BY <1>3, LoadStep, NameEnvStep, DismissStep, CheckStep, ProbeStep, ApplyStep
<1>4. CASE \/ MakeDir(c) \/ Look(c) \/ Confirm(c) \/ Decline(c) \/ Write(c)
           \/ ReadEnv(c) \/ MergeEnv(c)
  BY <1>4, MakeDirStep, LookStep, ConfirmStep, DeclineStep, WriteStep,
     ReadEnvStep, MergeEnvStep
<1> QED
  BY <1>1, <1>2, <1>3, <1>4 DEF CommandStep

LEMMA Step == TypeOK /\ IInv /\ [Next]_vars => TypeOK' /\ IInv'
<1> SUFFICES ASSUME TypeOK, IInv, [Next]_vars PROVE TypeOK' /\ IInv'
  OBVIOUS
<1>1. CASE \E c \in Commands : CommandStep(c)
  BY <1>1, StepOfCommand
<1>2. CASE \/ \E f \in Files, v \in Users \cup {None} : EditFile(f, v)
           \/ \E w \in Workspaces, v \in ByUsers : EditEnv(w, v)
  BY <1>2, EditStep
<1>3. CASE \E w \in Workspaces, d \in Dirs, s \in {"missing", "dir", "link"} :
             ChangeDir(w, d, s)
  BY <1>3, ChangeDirStep
<1>4. CASE \E ws \in SUBSET Workspaces : ChangeFolders(ws)
  BY <1>4, ChangeFoldersStep
<1>5. CASE UNCHANGED vars
  BY <1>5, StutterStep
<1> QED
  BY <1>1, <1>2, <1>3, <1>4, <1>5 DEF Next, CommandStep, Finished

LEMMA StartSound == Init => TypeOK /\ IInv
<1> SUFFICES ASSUME Init PROVE TypeOK /\ IInv
  OBVIOUS
<1>1. Fresh \in Command /\ Fresh.pc = "idle" /\ Fresh.since = 0
  BY FreshTyped DEF Fresh
<1>2. TypeOK
  BY <1>1 DEF Init, TypeOK, ByUsers, Writers
<1>3. CommandInv(Fresh)
  BY <1>1, <1>2, RestingStep
<1> QED
  BY <1>2, <1>3 DEF Init, IInv

\* Every command is one of the kinds and steps of its handler, with the
\* folder, directories and names it may hold there, and what it has looked
\* at is as it was unless another changed it (createHttpFile.ts:31,
\* importCurl.ts:118).
THEOREM CommandsSound == Spec => [](TypeOK /\ IInv)
<1>1. Init => TypeOK /\ IInv
  BY StartSound
<1>2. TypeOK /\ IInv /\ [Next]_vars => TypeOK' /\ IInv'
  BY Step
<1> QED
  BY <1>1, <1>2, PTL DEF Spec

----------------------------------------------------------------------------
(* Files and environments, and who changes them.                           *)

\* Most steps of a command only move it on.
LEMMA WritingSteps ==
  ASSUME NEW d \in Commands, CommandStep(d)
  PROVE  \/ Apply(d) /\ ~Moves(d, Done(cmd[d]))
         \/ Write(d) \/ MergeEnv(d) \/ UNCHANGED <<disk, env>>
<1>1. CASE \/ \E k \in Kinds : Start(d, k)
           \/ \E k \in Kinds, w \in Workspaces, p \in Dirs :
                StartAtNode(d, k, w, p)
           \/ \E w \in Workspaces : Choose(d, w)
           \/ \E n \in Names : NameFile(d, n) \/ NameImport(d, n)
           \/ \E p \in Dirs : NameFolder(d, p)
  BY <1>1
  DEF Start, StartAtNode, Choose, NameFile, NameImport, NameFolder, Moves
<1>2. CASE \/ \E i \in Imports : Load(d, i)
           \/ \E e \in EnvNames : NameEnv(d, e)
           \/ Dismiss(d) \/ Check(d) \/ Probe(d)
  BY <1>2 DEF Load, NameEnv, Dismiss, Check, Probe, Moves
<1>3. CASE MakeDir(d) \/ Look(d) \/ Confirm(d) \/ Decline(d) \/ ReadEnv(d)
  BY <1>3 DEF MakeDir, Look, Confirm, Decline, ReadEnv, Moves
<1>4. CASE Apply(d) /\ Moves(d, Done(cmd[d]))
  BY <1>4 DEF Moves
<1> QED
  BY <1>1, <1>2, <1>3, <1>4 DEF CommandStep

\* The user's steps are told by the count of changes.
LEMMA ActorSteps ==
  ASSUME TypeOK, [Next]_vars, changes' = changes,
         <<disk, env>>' # <<disk, env>>
  PROVE  \E d \in Commands : CommandStep(d)
<1>1. ~Acts
  BY DEF Acts, TypeOK
<1> QED
  BY <1>1
  DEF Next, CommandStep, EditFile, EditEnv, ChangeDir, ChangeFolders, Finished,
      vars

\* A command that takes part in another's change of files goes no further.
LEMMA OthersStay ==
  ASSUME TypeOK, NEW d, NEW c \in Commands, c # d, NEW x, NEW newDisk,
         NEW newEnv, Changes(d, x, newDisk, newEnv)
  PROVE  cmd'[c].pc = cmd[c].pc
BY DEF Changes, TypeOK, Command

\* The command that changed a file, and where it was.
LEMMA WhoWrote ==
  ASSUME TypeOK, IInv, [Next]_vars, NEW f \in Files, NEW c \in Commands,
         disk'[f] # disk[f], Acted(c)
  PROVE  /\ Target(cmd[c]) = f
         /\ \/ cmd[c].pc = "applying" /\ disk[f] = None
            \/ cmd[c].pc = "writing"
<1>1. PICK d \in Commands : CommandStep(d)
  BY ActorSteps DEF Acted
<1>2. (Apply(d) /\ ~Moves(d, Done(cmd[d]))) \/ Write(d)
  <2>1. CASE MergeEnv(d)
    BY <2>1 DEF MergeEnv, Changes
  <2> QED
    BY <1>1, <2>1, WritingSteps
<1> DEFINE g == Target(cmd[d])
           written == [disk EXCEPT ![g] = d]
<1>3. ASSUME NEW x, Changes(d, x, written, env)
      PROVE  d = c /\ g = f
  <2>1. d = c
    BY <1>3, OthersStay DEF Acted
  <2>2. disk' = written
    BY <1>3 DEF Changes
  <2> QED
    BY <2>1, <2>2 DEF TypeOK
<1>4. CASE Apply(d) /\ ~Moves(d, Done(cmd[d]))
  <2>1. /\ cmd[d].pc = "applying" /\ Changes(d, Done(cmd[d]), written, env)
        /\ disk[g] = None
    BY <1>4 DEF Apply, Allowed
  <2> QED
    BY <1>3, <2>1
<1>5. CASE Write(d)
  <2>1. cmd[d].pc = "writing" /\ Changes(d, NextFile(cmd[d]), written, env)
    BY <1>5 DEF Write
  <2> QED
    BY <1>3, <2>1
<1> QED
  BY <1>2, <1>4, <1>5

\* The command that changed an environment file.
LEMMA WhoMerged ==
  ASSUME TypeOK, IInv, [Next]_vars, NEW w \in Workspaces, NEW c \in Commands,
         env'[w] # env[w], Acted(c)
  PROVE  /\ cmd[c].pc = "merging" /\ cmd[c].ws = w
         /\ env'[w].entries = Merged(cmd[c], c)
<1>1. PICK d \in Commands : CommandStep(d)
  BY ActorSteps DEF Acted
<1>2. MergeEnv(d)
  <2>1. CASE Apply(d) /\ ~Moves(d, Done(cmd[d]))
    BY <2>1 DEF Apply, Changes
  <2>2. CASE Write(d)
    BY <2>2 DEF Write, Changes
  <2> QED
    BY <1>1, <2>1, <2>2, WritingSteps
<1> DEFINE merged == [env EXCEPT ![cmd[d].ws] =
                        [state |-> "valid", entries |-> Merged(cmd[d], d)]]
<1>3. Changes(d, Done(cmd[d]), disk, merged) /\ cmd[d].pc = "merging"
  BY <1>2 DEF MergeEnv
<1>4. d = c
  BY <1>3, OthersStay DEF Acted
<1>5. env' = merged
  BY <1>3 DEF Changes
<1> QED
  BY <1>3, <1>4, <1>5 DEF TypeOK

----------------------------------------------------------------------------
(* The action properties.                                                  *)

\* No command changes the content of a file that exists, unless the user
\* allowed it or the file changed between the look and the write
\* (importCurl.ts:12, initWorkspace.ts:73, createHttpFile.ts:6).
THEOREM ExistingFilesAreKept == Spec => ContentSurvives
<1>1. ASSUME TypeOK, IInv, [Next]_vars, NEW f \in Files, NEW c \in Commands,
             disk[f] # None, disk'[f] # disk[f], Acted(c)
      PROVE  Target(cmd[c]) = f /\ (cmd[c].confirmed \/ cmd[c].raced)
  <2>1. Target(cmd[c]) = f /\ cmd[c].pc = "writing"
    BY <1>1, WhoWrote
  <2>2. LookedInv(cmd[c])
    BY <1>1 DEF IInv, CommandInv
  <2> QED
    BY <1>1, <2>1, <2>2 DEF LookedInv
<1>2. TypeOK /\ IInv /\ [Next]_vars =>
        [\A f \in Files, c \in Commands :
           disk[f] # None /\ disk'[f] # disk[f] /\ Acted(c)
             => Target(cmd[c]) = f /\ (cmd[c].confirmed \/ cmd[c].raced)]_vars
  BY <1>1
<1> QED
  BY <1>2, CommandsSound, PTL DEF Spec, ContentSurvives

\* Importing variables keeps the entries that the import does not define,
\* unless the file changed between the read and the write
\* (importOpenapi.ts:190).
THEOREM OtherEntriesAreKept == Spec => EntriesSurvive
<1>1. ASSUME TypeOK, IInv, [Next]_vars, NEW w \in Workspaces,
             NEW c \in Commands, env'[w] # env[w], Acted(c), ~cmd[c].raced,
             NEW e \in env[w].entries
      PROVE  e \in env'[w].entries
               \/ (e.env = cmd[c].name /\ e.var \in cmd[c].vars)
  <2>1. /\ cmd[c].pc = "merging" /\ cmd[c].ws = w
        /\ env'[w].entries = Merged(cmd[c], c)
    BY <1>1, WhoMerged
  <2>2. cmd[c].read = env[w].entries
    BY <1>1, <2>1 DEF IInv, CommandInv, ReadInv
  <2> QED
    BY <2>1, <2>2 DEF Merged
<1>2. TypeOK /\ IInv /\ [Next]_vars =>
        [\A w \in Workspaces, c \in Commands :
           env'[w] # env[w] /\ Acted(c) /\ ~cmd[c].raced
             => \A e \in env[w].entries :
                  \/ e \in env'[w].entries
                  \/ e.env = cmd[c].name /\ e.var \in cmd[c].vars]_vars
  BY <1>1
<1> QED
  BY <1>2, CommandsSound, PTL DEF Spec, EntriesSurvive

\* A file comes to lie in an open folder, and one that a creator makes under
\* directories that exist and are no links, when the user changed nothing
\* since the folder was chosen or the name given
\* (workspaceFolderChoice.ts:14, createHttpFile.ts:40).
THEOREM FilesGoWhereChecked == Spec => CreatedWhereChecked
<1>1. ASSUME TypeOK, IInv, [Next]_vars, NEW f \in Files, NEW c \in Commands,
             disk'[f] # disk[f], Acted(c), cmd[c].since = changes
      PROVE  /\ f.ws \in open
             /\ cmd[c].kind \in Creators =>
                  \A d \in Chain(cmd[c].dir) : dirs[f.ws, d] = "dir"
  <2>1. /\ f.ws = cmd[c].ws
        /\ cmd[c].pc \in {"applying", "writing"}
    <3>1. Target(cmd[c]) = f /\ cmd[c].pc \in {"applying", "writing"}
      BY <1>1, WhoWrote
    <3>2. cmd[c] \in Command /\ PlaceInv(cmd[c])
      BY <1>1, Each
    <3>3. Target(cmd[c]).ws = cmd[c].ws
      BY <3>1, <3>2, TargetTyped DEF Filing
    <3> QED
      BY <3>1, <3>3
  <2>2. CheckedInv(cmd[c]) /\ PlaceInv(cmd[c])
    BY <1>1 DEF IInv, CommandInv
  <2>3. f.ws \in open
    BY <1>1, <2>1, <2>2 DEF CheckedInv
  <2>4. ASSUME cmd[c].kind \in Creators, NEW d \in Chain(cmd[c].dir)
        PROVE  dirs[f.ws, d] = "dir"
    <3>1. cmd[c].pc = "applying"
      BY <2>1, <2>2, <2>4 DEF PlaceInv, Filing
    <3>2. d \in Walked(cmd[c])
      BY <2>4, <3>1 DEF Walked
    <3> QED
      BY <1>1, <2>1, <2>2, <3>2 DEF CheckedInv
  <2> QED
    BY <2>3, <2>4
<1>2. TypeOK /\ IInv /\ [Next]_vars =>
        [\A f \in Files, c \in Commands :
           disk'[f] # disk[f] /\ Acted(c) /\ cmd[c].since = changes
             => /\ f.ws \in open
                /\ cmd[c].kind \in Creators =>
                     \A d \in Chain(cmd[c].dir) : dirs[f.ws, d] = "dir"]_vars
  BY <1>1
<1> QED
  BY <1>2, CommandsSound, PTL DEF Spec, CreatedWhereChecked
=============================================================================
