\* Two tabs of one browser and two exports that overlap, with fairness.
CONSTANTS
  Tab = {t1, t2}
  MaxExports = 2
SPECIFICATION ExportFairSpec
INVARIANTS
  ExportTypeOK
  StartedMeansFile
  OneExportAtATime
PROPERTIES
  ExportEnds
