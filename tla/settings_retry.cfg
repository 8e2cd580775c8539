SPECIFICATION FairSpec
CONSTANTS
  Runs = {r1}
  Manifests <- MCManifests
  Repositories <- UsedRepository
  Fields <- MCFields
  AppIds <- MCAppIds
  Malformed <- MCMalformed
  RulesetIds <- MCRulesetIds
  PageSize = 4
  Edits <- FlipOnly
  MaxFaults = 2
INVARIANTS
  ApplyReachesManifest
  EmptyPlanMeansMet
  RefusedWroteNothing
  NoTwins
PROPERTIES
  KeepsUnmanaged
  EventuallyMet
