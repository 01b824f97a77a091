SPECIFICATION MCSpec
CONSTANTS
  Languages = {"ja", "en"}
  Values = {"known"}
  MaxTrouble = 2
  MaxSessions = 2
  MaxShown = 1
  MaxAreas = 1
  MaxMounts = 1
  MaxWire = 1
  MaxPresses = 0
  MaxIds = 0
  Absent = Absent
  Foreign = Foreign
  WordsOf <- MCWordsOf
  ReviewAfter = 2
  ProbeEvery = 2
  Pool <- MCPool
  Romaji <- MCRomaji
  RoundMax = 2
  ChoiceCount = 2
  MaxKana = 0
INVARIANT LanguageIsFixed
CHECK_DEADLOCK FALSE
