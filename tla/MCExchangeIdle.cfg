SPECIFICATION Spec
CONSTANTS
    Classes <- MCTransferred
    Frames <- MCFew
    Idle <- MCTicks
    Budgets <- MCIdleOnly
PROPERTY IdleIsQuiet
