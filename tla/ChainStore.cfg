SPECIFICATION Spec
CONSTANTS
  None = None
  Unnamed = Unnamed
  Invalid = Invalid
  Blank = Blank
  Redacted = Redacted
  login = login
  other = other
  tok = tok
  alt = alt
  p = p
  q = q
  v1 = v1
  v2 = v2
  Sends = {s1, s2}
  Names = {login, other}
  CaptureNames = {tok, alt}
  Paths = {p, q}
  Values = {v1, v2, Blank}
  Strings = {v1, v2, Blank}
  Requests <- MCRequests
  Responses <- MCResponses
  Quota = 2
SYMMETRY Interchangeable
INVARIANTS OneExchange DeclaredSecretsAreKnown
PROPERTIES ForeignCaptureStands SecretCopiesAreScrubbed
