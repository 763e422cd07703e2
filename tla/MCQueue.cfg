SPECIFICATION FairSpec
CONSTANTS
  Handle = {h1, h2, h3}
  Limits <- LimitsWithNegative
  QueueLimits = {0, 1}
INVARIANTS
  QueuedChannelsOpen
  WorkConserving
  GrantMatchesSlot
  PositionAccurate
PROPERTIES
  NoOvertaking
  ImplementsAdmissionControl
  WaiterServed
