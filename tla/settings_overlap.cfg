SPECIFICATION Spec
CONSTANTS
  Runs = {r1, r2}
  Manifests <- SmallManifest
  Repositories <- UsedRepository
  Fields <- MCFields
  AppIds <- MCAppIds
  Malformed <- MCMalformed
  RulesetIds <- MCRulesetIds
  PageSize = 5
  Edits <- AnyEdit
  MaxFaults = 1
INVARIANTS
  TwinsAreRefused
SYMMETRY RunSymmetry
