SPECIFICATION EditsSpec
CONSTANTS
  Lower <- MCLower
  Commands = {c1, c2}
  Contents <- MCContents
  Names <- MCNames
  MaxStarts = 2
  MaxChanges = 1
SYMMETRY Symmetry
PROPERTIES
  DestructiveEditsAreExact
  AdditiveEditsAreExact
  NamesStayDistinct
