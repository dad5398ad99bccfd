SPECIFICATION CryptoSpec
CONSTANTS
  NWords = 2
  Unset = Unset
  Encipher <- MCEncipher
  Decipher <- MCDecipher
  BlockLen = 2
  DmaMaxLen = 4
  MemSize = 2
  Lens = {3, 6}
  KeyWords = {1}
  Contents <- MCContents
  Residue <- MCResidue
  Vectors <- MCVectors
  Known <- MCKnown
INVARIANTS
  CryptoTypeOK
  KeyInstalled
  RoundTrip
  TablesAreSubstitution
  DecryptInverts
  KnownAnswer
