--------------------------- MODULE RequestEdits ---------------------------
(***************************************************************************)
(* The explorer's commands that edit a .http file (extension.ts): move,    *)
(* add, duplicate, delete, rename and toggle favorite.  A command is       *)
(* started on a row of the explorer, that is, on a text the file once had. *)
(* It awaits file checks and perhaps a prompt, plans an edit against the   *)
(* document as it is then, and asks the editor to apply it.  Meanwhile the *)
(* user types, the file changes on disk, and other commands run.           *)
(***************************************************************************)
EXTENDS HttpFile

CONSTANTS
  Commands,   \* runs of commands
  Contents,   \* what the file may hold at first, and may be changed into
  Names,      \* the names that requests may be renamed to
  MaxStarts,  \* bound: how many commands are started
  MaxChanges  \* bound: how often the file changes otherwise

ASSUME EditsAssumption ==
  /\ \A text \in Contents : IsText(text) /\ HasNames(Range(text))
  /\ \A name \in Names : IsName(name)
  /\ MaxStarts \in Nat /\ MaxChanges \in Nat

VARIABLES
  doc,        \* the document's text
  shown,      \* the text that the explorer's rows were made from
  commands,   \* what each command is at
  starts, changes

editsVars == <<doc, shown, commands, starts, changes>>

Idle == [state |-> "idle"]
Asked(kind, row, name) ==
  [state |-> "asked", kind |-> kind, row |-> row, name |-> name]
\* The editor takes an edit only for the version it was planned against.
Applying(command, edit) ==
  [state |-> "applying", kind |-> command.kind, row |-> command.row,
   name |-> command.name, edit |-> edit, current |-> TRUE]

EditsInit ==
  /\ doc \in Contents /\ shown = doc
  /\ commands = [c \in Commands |-> Idle]
  /\ starts = 0 /\ changes = 0

\* Any change of the document makes the pending edits of others outdated.
Outdated(but) ==
  [c \in Commands |->
     IF c \in but THEN Idle
     ELSE IF commands[c].state = "applying"
          THEN [commands[c] EXCEPT !.current = FALSE]
          ELSE commands[c]]

\* The user types, or the file is changed on disk.
FileChanges ==
  /\ changes < MaxChanges /\ changes' = changes + 1
  /\ doc' \in Contents \ {doc}
  /\ commands' = Outdated({})
  /\ UNCHANGED <<shown, starts>>

\* Every change refreshes the explorer; the rows are there some time later.
Lists ==
  /\ shown # doc /\ shown' = doc
  /\ UNCHANGED <<doc, commands, starts, changes>>

\* What a command can be started for: its row, and the name asked for.
NamedRows == {row \in Rows(shown) : row.request.name # Unnamed}
Starters ==
  {Asked(kind, row, Unnamed) :
     kind \in {"up", "down", "duplicate", "delete"}, row \in NamedRows}
  \cup {Asked("rename", choice[1], choice[2]) :
          choice \in {choice \in NamedRows \X Names :
                        choice[2] # choice[1].request.name}}
  \cup {Asked("favorite", row, Unnamed) : row \in Rows(shown)}
  \cup {Asked("add", [of |-> "file"], Unnamed)}

Starts(c) ==
  /\ commands[c] = Idle /\ starts < MaxStarts /\ starts' = starts + 1
  /\ \E command \in Starters : commands' = [commands EXCEPT ![c] = command]
  /\ UNCHANGED <<doc, shown, changes>>

\* A symbolic link, a file that cannot be read, or a prompt not answered.
Abandons(c) ==
  /\ commands[c].state = "asked"
  /\ commands' = [commands EXCEPT ![c] = Idle]
  /\ UNCHANGED <<doc, shown, starts, changes>>

Plan(command) ==
  CASE command.kind \in {"up", "down"} -> PlanMove(doc, command.row, command.kind)
    [] command.kind = "duplicate" -> PlanDuplicate(doc, command.row)
    [] command.kind = "delete" -> PlanDelete(doc, command.row)
    [] command.kind = "rename" -> PlanRename(doc, command.row, command.name)
    [] command.kind = "favorite" -> PlanFavorite(doc, command.row)
    [] command.kind = "add" -> PlanAppend(doc)

\* From reading the document to handing over the edit nothing is awaited, so
\* that the checks of doc.version in between always succeed.
Plans(c) ==
  /\ commands[c].state = "asked"
  /\ LET plan == Plan(commands[c])
     IN  \/ plan = {} /\ commands' = [commands EXCEPT ![c] = Idle]
         \/ \E edit \in plan :
              commands' = [commands EXCEPT ![c] = Applying(@, edit)]
  /\ UNCHANGED <<doc, shown, starts, changes>>

Applies(c) ==
  /\ commands[c].state = "applying" /\ commands[c].current
  /\ doc' = Edited(doc, commands[c].edit)
  /\ commands' = Outdated({c})
  /\ UNCHANGED <<shown, starts, changes>>

\* The editor may refuse an edit at any time, and does so if it is outdated.
Refuses(c) ==
  /\ commands[c].state = "applying"
  /\ commands' = [commands EXCEPT ![c] = Idle]
  /\ UNCHANGED <<doc, shown, starts, changes>>

\* Nothing is left to do.
NothingLeft ==
  /\ shown = doc /\ commands = [c \in Commands |-> Idle]
  /\ starts = MaxStarts /\ changes = MaxChanges
  /\ UNCHANGED editsVars

EditsNext ==
  \/ FileChanges \/ Lists \/ NothingLeft
  \/ \E c \in Commands :
       Starts(c) \/ Abandons(c) \/ Plans(c) \/ Applies(c) \/ Refuses(c)

EditsSpec == EditsInit /\ [][EditsNext]_editsVars

----------------------------------------------------------------------------
(* Properties.                                                             *)

\* A document is never without a line, whatever is deleted from it, and every
\* pending edit that is not outdated lies within it.
EditsTypeOK ==
  /\ IsText(doc) /\ IsText(shown)
  /\ \A c \in Commands :
       /\ commands[c].state \in {"idle", "asked", "applying"}
       /\ commands[c].state = "applying" /\ commands[c].current =>
            /\ commands[c].edit.from \in 1..commands[c].edit.to
            /\ commands[c].edit.to \in 1..Len(doc) + 1
            /\ IsText(commands[c].edit.text)
  /\ starts \in 0..MaxStarts /\ changes \in 0..MaxChanges

\* The step in which the edit of a command reaches the document.
Done(c, kinds) ==
  /\ commands[c].state = "applying" /\ commands[c].kind \in kinds
  /\ commands'[c] = Idle /\ doc' # doc

Preface(text) == Slice(text, 1, NextSeparator(text, 0))
SectionTexts(text) ==
  LET heads == InOrder(Separators(text))
  IN  [k \in DOMAIN heads |-> SectionText(text, heads[k])]

\* What the edit of a command that deletes or moves must do to the document.
ChangesOnly(c) ==
  LET row == commands[c].row
      old == SectionTexts(doc)
      new == SectionTexts(doc')
      Moves(first, second) ==
        \E k \in 1..Len(old) - 1 :
          /\ old[k] = first /\ old[k + 1] = second
          /\ new = [old EXCEPT ![k] = second, ![k + 1] = first]
  IN  /\ Done(c, {"up", "down", "delete"}) => Preface(doc') = Preface(doc)
      /\ Done(c, {"delete"}) =>
           \E k \in DOMAIN old : old[k] = row.hash /\ new = RemoveAt(old, k)
      /\ Done(c, {"up"}) => Moves(row.up, row.hash)
      /\ Done(c, {"down"}) => Moves(row.hash, row.down)

\* Deleting a request (planDeleteRequest) takes one section away, byte for byte
\* the one that the row was made from, and moving one (planMoveRequest) swaps
\* two neighboring sections that the explorer showed as neighbors, each byte
\* for byte as it was then; nothing else in the file changes.
DestructiveEditsAreExact == [][\A c \in Commands : ChangesOnly(c)]_editsVars

\* What a text means: its requests, wherever they are.
Meaning(text) ==
  LET rs == Requests(text)
  IN  [k \in DOMAIN rs |->
         [name |-> rs[k].name, target |-> rs[k].target,
          headers |-> rs[k].headers, favorite |-> rs[k].favorite,
          body |-> rs[k].body]]

\* What the edit of any other command must do to the requests.
AddsOnly(c) ==
  LET row == commands[c].row
      old == Meaning(doc)
      new == Meaning(doc')
      own == {k \in DOMAIN old : /\ old[k].name = row.request.name
                                 /\ old[k].target = row.request.target}
  IN  /\ Done(c, {"duplicate"}) =>
           \E k \in own :
             new = InsertAt(old, k + 1, [old[k] EXCEPT !.name = new[k + 1].name])
      /\ Done(c, {"add"}) =>
           /\ new # <<>> /\ Front(new) = old
           /\ Last(new).target = Target("GET", "baseUrl")
      /\ Done(c, {"rename"}) =>
           \E k \in own : new = [old EXCEPT ![k].name = commands[c].name]
      /\ Done(c, {"favorite"}) =>
           \E k \in own :
             new = [old EXCEPT ![k].favorite = IF @ = "true" THEN "" ELSE "true"]

\* The other commands (planDuplicateRequest, planAppendRequest,
\* planRenameRequest, planFavoriteToggle) change what their names say about one
\* request with the row's name and target, or put one behind it or at the end,
\* and leave every other request as it was, with its headers and its body.
AdditiveEditsAreExact == [][\A c \in Commands : AddsOnly(c)]_editsVars

\* Sections of different names, as seen through Key.
Distinct(text, Key(_)) ==
  \A i, j \in Separators(text) :
    i # j /\ text[i][2] # Unnamed => Key(text[i][2]) # Key(text[j][2])

\* Names by which requests are told apart stay different: a copy and a rename
\* never take a name that another section has in any case, malformed sections
\* included, and a new request never takes a name that is there.
NamesStayDistinct ==
  [][\A c \in Commands :
       /\ Done(c, {"duplicate", "rename"}) /\ Distinct(doc, Fold) =>
            Distinct(doc', Fold)
       /\ Done(c, {"add"}) /\ Distinct(doc, LAMBDA n : n) =>
            Distinct(doc', LAMBDA n : n)]_editsVars
=============================================================================
