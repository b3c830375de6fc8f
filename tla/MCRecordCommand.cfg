SPECIFICATION CommandSpec
CONSTANTS
  trade = trade
  stars = stars
  Nil = Nil
  Stars = stars
  Kinds <- MCKinds
  MaskedDiscriminator = FALSE
  StartURIs = {"plain"}
  NSessions = 2
  Unsubscribe <- LastUnsubscribes
  StartFrames <- TwoAuthored
  Untils <- TwoConditions
  Messages <- OneMessage
  MaxReceive = 2
  MaxRuns = 3
INVARIANTS DiskTypeOK LossBounded OneClockOnDisk MaskedOnDisk AuthoredSurvive
PROPERTIES RerunSkips
