SPECIFICATION TaskSpec
CONSTANTS
  p1 = p1
  p2 = p2
  north = north
  Null = Null
  People = {p1, p2}
  Units = {north}
  Tasks = {t}
  Grants <- Everything
  Callers = {bot, page, tab}
  Bot = bot
  MaxRequestFaults = 0
  MaxMoves = 0
CHECK_DEADLOCK FALSE
PROPERTY TerminalKept
