SPECIFICATION Spec
CONSTANTS
  Torn = Torn
  Guest = Guest
  None = None
  Artifact <- MCBox
  Digested = {}
  MaxRelease <- MCReleases
PROPERTY GuestKept
