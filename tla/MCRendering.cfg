CONSTANTS
  MaxName = 4
  Tag = 84
  Unseen = {8203}
  MaxPath = 7
  TempDir <- TheTempDir
  Fallback <- TheFallback
  Cwds <- TheCwds
  Kinds <- TheKinds
  Alphabet <- TheAlphabet
  MaxLen <- TheLengths
  Files <- TheFiles
  TermuxPrefixes <- ThePrefixes
SPECIFICATION Spec
CHECK_DEADLOCK FALSE
INVARIANTS
  RoundTrip
  ValidAgrees
  FromQuotedPlain
  AttributionSurvives
  NameKept
  OneClosingTag
  CanonicalKeeps
  DefaultUsable
