SPECIFICATION Spec
CONSTANTS
  None = None
  net = net
  lab = lab
  labTwo = labTwo
  tcp = tcp
  udp = udp
  Call = {c1}
  Network = {net, lab, labTwo}
  FirstWord <- MCFirstWord
  CIDR = {near, far}
  MAC = {m1, m2}
  IP = {i1}
  Rule <- MCRule
  Asked <- MCAsked
SYMMETRY MCSymmetry
INVARIANTS
  TypeOK
  AddressWasTrue
  LeaseIsFound
  EnsureWorks
  PromisesKept
