CONSTANTS
  Pages = {p1}
  Situations = {"free"}
  MaxFaults = 0
SPECIFICATION Spec
INVARIANTS OneOrganization
