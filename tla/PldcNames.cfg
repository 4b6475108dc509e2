CONSTANTS
  Turns <- MCTurns
  MaxHeld = 2
SPECIFICATION NamesSpec
INVARIANTS TurnsLogged
PROPERTIES ReleasedByName
