\* One tab and callers of the API, two actions in flight; two presets and one more row.
CONSTANTS
  t1 = t1
  f1 = f1
  f2 = f2
  NoTab = NoTab
  Tab = {t1}
  Flow = {f1, f2}
  Presets = 2
  MaxInserts = 3
SPECIFICATION Spec
SYMMETRY Symmetry
INVARIANTS
  ShownIdsKeepTheirMeaning
PROPERTIES
  ChosenIsListed
  SeedsBeforeTheTeam
VIEW Future
