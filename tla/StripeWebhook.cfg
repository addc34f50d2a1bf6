CONSTANTS
  renewal = renewal
  dunning = dunning
  cancellation = cancellation
  Events = {renewal, dunning, cancellation}
  Slots = {s1, s2}
  Kind <- MCKind
  MaxFaults = 2
SPECIFICATION Spec
INVARIANTS TypeOK OneHandler AckMeansApplied AppliedOnce SettledOrgIsWhole
PROPERTIES OrphansAreFaults EventsEnd
