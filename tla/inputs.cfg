CONSTANTS
  Password <- MCPassword
  Hasher <- MCHasher
  Number <- MCNumber
  Position = {2, 3, 7}
  User = {u1, u2}
  NoHash = NoHash
  NoNumber = NoNumber
SPECIFICATION Spec
SYMMETRY Symmetry
INVARIANTS AcceptedCanLogin SpellingsMeet
