SPECIFICATION Spec
CONSTANTS
  dotted = dotted
  dashed = dashed
  host = host
  trade = trade
  Trade = Trade
  subscribe = subscribe
  token = token
  apiKey = apiKey
  prod = prod
  shared = shared
  feed = feed
  alerts = alerts
  Nil = Nil
  Hosts <- MCHosts
  HostKey <- MCHostKey
  Names <- MCNames
  SchemaName <- MCSchemaName
  Starts <- FromScratch
  Inputs <- TwoHostInputs
  MaxRuns = 3
INVARIANTS OneOperation
