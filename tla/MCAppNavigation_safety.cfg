\* Two databases, two tables, two pages of each, and two history entries.
CONSTANTS
  d1 = d1
  d2 = d2
  t1 = t1
  t2 = t2
  p0 = p0
  p1 = p1
  Db = {d1, d2}
  DefaultDb = d1
  NoDb = NoDb
  Table = {t1, t2}
  NoTable = NoTable
  TablesOf <- MCTablesOf
  Page = {p0, p1}
  FirstPage = p0
  Nothing = Nothing
  MaxHistory = 2
  MaxRequests = 2
SPECIFICATION Spec
INVARIANTS
  TablesOfDb
  RowsOfView
  UrlNamesView
