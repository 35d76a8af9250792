SPECIFICATION MCSpec
CONSTANTS
  None = None
  top = top
  sub = sub
  keep = keep
  hello = hello
  var = var
  other = other
  c1 = c1
  c2 = c2
  w1 = w1
  w2 = w2
  user = user
  local = local
  Workspaces = {w1, w2}
  Dirs = {top, sub}
  Top = top
  Parent <- MCParent
  Names = {hello, keep}
  Keep = keep
  Scaffold <- MCScaffold
  Imports <- MCImports
  EnvNames = {local}
  Variables = {var, other}
  Commands = {c1, c2}
  Users = {user}
  MaxChanges = 1
SYMMETRY Symmetric
PROPERTIES ContentSurvives EntriesSurvive CreatedWhereChecked
