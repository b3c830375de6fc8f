SPECIFICATION StallSpec
CONSTANTS
  trade = trade
  stars = stars
  Nil = Nil
  Stars = stars
  Kinds <- MCKinds
  MaskedDiscriminator = FALSE
  StartURIs = {"plain"}
  NSessions = 1
  Unsubscribe <- NobodyUnsubscribes
  StartFrames <- OnlySubscribe
  Untils <- OneCondition
  Messages <- SomeMessages
  MaxReceive = 2
PROPERTIES TimeoutEnds
