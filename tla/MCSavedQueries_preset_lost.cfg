\* A crash between two presets.
CONSTANTS
  t1 = t1
  f1 = f1
  f2 = f2
  NoTab = NoTab
  Tab = {t1}
  Flow = {f1, f2}
  Presets = 2
  MaxInserts = 4
SPECIFICATION Spec
INVARIANTS
  EveryPresetLoaded
