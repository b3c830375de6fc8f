SPECIFICATION CommandSpec
CONSTANTS
  trade = trade
  stars = stars
  Nil = Nil
  Stars = stars
  Kinds <- MCKinds
  MaskedDiscriminator = FALSE
  StartURIs = {"plain"}
  NSessions = 1
  Unsubscribe <- LastUnsubscribes
  StartFrames <- OneAuthored
  Untils <- OneCondition
  Messages <- OneMessage
  MaxReceive = 2
  MaxRuns = 2
INVARIANTS KeepsOnlyAuthored
