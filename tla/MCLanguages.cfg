CONSTANTS
  t1 = t1
  t2 = t2
  t3 = t3
  Tags = {t1, t2, t3}
  Lines <- MCLines
  Texts <- MCTexts
  Empty <- MCEmpty
  Facts <- MCFacts
  ParameterLists <- MCParameterLists
  Items <- MCItems
  NoText = NoText
  Codes = {"en", "i-default", "noname"}
  DefaultCode = "i-default"
  NoCode = NoCode
  NoLangCode = "noname"
  MaxFiles = 2
  Charsets = {"UCS-4-INTERNAL", "UTF-8"}
  ICONV_BUFFER_SIZE = 8
  MaxTagLines = 3
SPECIFICATION TextsSpec
SYMMETRY TagSymmetry
INVARIANTS
  LanguagesTypeOK
  DictionaryIsDense
  IncompleteLacksATag
  DefaultSpeaksForAll
  TextsAreTold
PROPERTIES
  ImplementsCatalogue
CHECK_DEADLOCK FALSE
