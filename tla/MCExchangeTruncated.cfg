SPECIFICATION Spec
CONSTANTS
    Classes <- MCTransferred
    Frames <- MCFew
    Idle <- MCIdle
    Budgets <- MCIdleOnly
INVARIANT IdleEndsRequest
