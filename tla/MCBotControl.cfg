\* What stopping the bot means to the scanner.
SPECIFICATION ControlSpec
CONSTANTS
    r1 = r1
    Routes = {r1}
    NoRoute = NoRoute
    BaseFees = {1}
    LastBlock = 5
    MaxTxs = 1
    MaxTurns = 1
PROPERTIES
    StoppedBotTakesNothingUp
