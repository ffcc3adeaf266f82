SPECIFICATION Spec
CONSTANTS
  Tools <- MCTools
  Releases <- MCReleases
  Reading = {"read"}
  Irreversible = {"delete"}
  Names <- MCNames
  Alike <- MCAlike
  HandPolicies <- MCHandPolicies
  HandProfiles <- MCHandProfiles
  Bundles <- MCBundles
  MaxEdits = 3
  MaxSaves = 2
INVARIANTS NothingOnUnasked TwinsOnlyByHand
PROPERTIES NeverHalf SyncChangesNoDecision ProfilesKept
CHECK_DEADLOCK FALSE
