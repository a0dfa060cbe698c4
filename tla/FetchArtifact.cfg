SPECIFICATION Spec
CONSTANTS
  Torn = Torn
  Guest = Guest
  None = None
  Artifact <- MCArtifacts
  Digested <- MCDigested
  MaxRelease <- MCReleases
INVARIANT TypeOK
PROPERTIES
  AnswersWithItsOwn
  LatestMeansLatest
  BoxIsWhole
