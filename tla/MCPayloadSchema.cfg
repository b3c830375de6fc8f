SPECIFICATION Spec
CONSTANTS
  Nil = Nil
  Refused = Refused
  Replacement = "***"
  NormalizeFieldName <- MCNormalize
  DefaultMaskedFields <- MCDefault
  ExtraNames = {"pin"}
  Payloads <- MCPayloads
  FormatOf <- MCFormat
  IntegerTexts <- MCIntegers
  NumericKeys = {"0", "1"}
  BytesOf <- MCBytes
  Word = 65536
  MaxVarintBytes = 3
  Size64 = 2
  Size32 = 1
  Pools <- AllPools
  Declarations <- AllDeclarations
  Data <- MCData
INVARIANTS SchemaTypeOK MaskIsExact Summarises DescribesSamples ExamplesHonest WireTiles EncodingEvidence SavedMatchesDeclared AlarmIsReal
PROPERTIES OnlyWidens
