CONSTANTS
  g1 = g1
  g2 = g2
  Requests <- MCRequests
  Emails <- MCEmails
  Passwords <- MCPasswords
  Hashes <- MCHashes
  Sha1 <- MCSha1
  TokenLifeTime = 1
  MaxUsers = 2
  MaxTokens = 2
  MaxTime = 2
SPECIFICATION Spec
INVARIANTS
  TypeOK
  DeletedAccountWindow
PROPERTIES
  DeletedForGood
SYMMETRY Clones
