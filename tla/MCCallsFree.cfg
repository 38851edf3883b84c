SPECIFICATION MCSpec
CONSTANTS
  t1 = t1
  t2 = t2
  NULL = NULL
  h1 = h1
  h2 = h2
  d1 = d1
  d2 = d2
  fh = fh
  fd = fd
  zero = zero
  one = one
  NoBlock = NoBlock
  Garbage = Garbage
  Zero = zero
  Value <- MCValue
  Block <- MCBlock
  Foreign <- MCForeign
  Origin <- MCOrigin
  Blocks = {b1, b2, b3}
  Contents <- MCTexts
  Counts = {1, 2, 4, 8, 9}
  INT_MAX = 15
  FileNames = {"a", "b"}
  Positions = {1, 2, 3}
  Strings = {"", "s", "t", "u", "v", "x", "y"}
  Unreadable = Unreadable
  Disks <- MCDisks
  MaxMods = 1
  MaxRecalls = 2
  Texts <- MCTexts
  LinkArgs <- MCLinkArgs
  RuleArgs <- MCRuleArgs
  DevIds <- MCDevIds
  MaxId = 2
INVARIANT FreedOnce
