SPECIFICATION FairLoadSpec
CONSTANTS
  Request = {1, 2}
  Client = {"conn"}
  Lister = {"admin"}
  MaxVersion = 4
  Invalid = {2}
  BadLog = {3, 4}
  NegativeIdle = {3}
  Discovers = {3, 4}
INVARIANTS
  OneVersionInEffect
PROPERTIES
  SuccessMeansServed
  EveryReloadAnswers
  EveryLookupProceeds
