SPECIFICATION FairSpec
CONSTANTS
  trade = trade
  stars = stars
  Nil = Nil
  Stars = stars
  Kinds <- MCKinds
  MaskedDiscriminator = TRUE
  StartURIs = {"literal"}
  NSessions = 2
  Unsubscribe <- FirstUnsubscribes
  StartFrames <- SomeFrames
  Untils <- OneCondition
  Messages <- SomeMessages
  MaxReceive = 1
INVARIANTS SavesSerialised  OneClock
PROPERTIES HeldMeansStill ImplementsSessionLog RecordReturns
