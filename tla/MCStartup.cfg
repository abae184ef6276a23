SPECIFICATION Spec
CONSTANTS
  p1 = p1
  p2 = p2
  web = web
  api = api
  Probes = {p1, p2}
  Names = {web, api}
  Passwords = {initial, chosen}
  Initial = initial
  Configs <- MCConfigs
  Calls = {c1}
  MaxStarts = 3
INVARIANTS
  TypeOK
  ConfigDecidesProbes
  RuntimeMatchesTable
PROPERTIES
  ConfiguredChecksServed
