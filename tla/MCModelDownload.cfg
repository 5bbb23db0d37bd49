SPECIFICATION Spec
CONSTANTS
  Versions = {"old", "new", "huge"}
  Content <- MCContent
  Pinned = "new"
  Junk = "junk"
  Ceilings = {2, 3}
  Leftover <- MCLeftover
  MaxChanges = 2
  MaxCrashes = 2
  MaxFaults = 3
INVARIANTS
  PublishedIsPinned
PROPERTIES
  TrackedEnds
  RetriesSucceed
