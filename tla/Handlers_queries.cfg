SPECIFICATION Spec
CONSTANTS
  Configured <- MCConfigured
  Usual <- MCUsual
  Alternatives <- MCAlternatives
  Engines <- MCEngines
  Changes <- MCChanges
  MaxChanges = 2
INVARIANTS
  RowsOnce
  ColumnsOwn
  LabelledAsComputed
  GridAsAsked
  OneModelRun
  LinksAsAsked
  StationsOwnDetails
