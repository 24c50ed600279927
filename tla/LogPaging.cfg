\* Two clients walk four rows, one per page, while rows arrive and days are archived; or one
\* call of DuckDB after another.
CONSTANTS
  Entry <- FourEntry
  Ts <- FourTs
  DayOf <- FourDay
  Wanted = {1, 2, 3, 4}
  From = 1
  To = 3
  Walk = {u, v}
  Limit = 1
  MaxFiles = 2
  Char = {"[", "]", "quote", "slash", "newline", "x"}
  Script <- SmallScript
SPECIFICATION ReaderSpec
INVARIANT StreamFinds
INVARIANT SearchFinds
INVARIANT PagesDescend
PROPERTY CallsArePlain
PROPERTY CallReturns
