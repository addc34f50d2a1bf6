CONSTANTS
  Pages = {p1, p2}
  Situations = {"newcomer", "upgrade", "free", "paying"}
  MaxFaults = 2
SPECIFICATION Spec
INVARIANTS TypeOK LinkedIsPro AckedIsServed OneInvite MailedIsLinked
PROPERTIES PayersAreServed
