SPECIFICATION FairSpec
CONSTANTS
    Classes <- MCClasses
    Frames <- MCFew
    Idle <- MCIdle
    Budgets <- MCBudgets
INVARIANTS RecordHonest SilenceKept FramingKept
PROPERTY TerminalAnswers
