CONSTANTS
  Writers = {w1, w2}
  Copiers = {c1, c2}
  config = config
  commands = commands
  Keys = {config, commands}
  Plain = plain
  Nobody = nobody
  Plans <- MCPlans
  MaxRuns = 5
SPECIFICATION CoordinationFairSpec
PROPERTY PausesEnd
CHECK_DEADLOCK FALSE
