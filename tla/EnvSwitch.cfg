SPECIFICATION Spec
CONSTANTS
  None = None
  default = default
  staging = staging
  url = url
  token = token
  Envs = {default, staging}
  Default = default
  Vars = {url, token}
  Files <- MCFiles
  Reloads = {r1, r2}
  Builds = {b1}
  MaxChanges = 2
  MaxUpdates = 1
INVARIANT BuildUsesOneEnvironment
