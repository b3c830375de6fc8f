SPECIFICATION Spec
CONSTANTS
  trade = trade
  stars = stars
  Nil = Nil
  Stars = stars
  Kinds <- MCKinds
  MaskedDiscriminator = FALSE
  StartURIs = {"plain", "invalid"}
  NSessions = 1
  Unsubscribe <- FirstUnsubscribes
  StartFrames <- AnyFrames
  Untils <- AnyCondition
  Messages <- AnyMessages
  MaxReceive = 3
INVARIANTS TypeOK FramesStayValid TallyIsTheFile ReportsDescribeFrames ClosedFeedIsAnError CrossedInOrder
PROPERTIES StopsWhenMet
