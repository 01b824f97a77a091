SPECIFICATION MCSpec
CONSTANTS
  Languages = {"ja"}
  Values = {"known", "unknown"}
  MaxTrouble = 1
  MaxSessions = 2
  MaxShown = 1
  MaxAreas = 1
  MaxMounts = 2
  MaxWire = 2
  MaxPresses = 1
  MaxIds = 2
  Absent = Absent
  Foreign = Foreign
  WordsOf <- MCWordsOf
  ReviewAfter = 2
  ProbeEvery = 2
  Pool <- MCPool
  Romaji <- MCRomaji
  RoundMax = 2
  ChoiceCount = 2
  MaxKana = 4
INVARIANTS
  AppTypeOK
  ReportedIsRecorded
  ExtendedOncePerPress
  SentencesDoNotReturn
  DemoIsKept
  KanaAddsUp
PROPERTIES
  LeftScreenIsSilent
  StaleSentenceLeaves
  DemoMovesOn
CHECK_DEADLOCK FALSE
