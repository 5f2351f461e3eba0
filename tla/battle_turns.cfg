\* Every kind of battle, reserves fainted from the start included.
SPECIFICATION Spec
CONSTANTS
    p1 = p1
    p2 = p2
    e1 = e1
    e2 = e2
    e3 = e3
    Team <- MCTeam
    Foes <- MCFoes
    Capped <- MCCapped
    MaxHp = 2
    SeriesAttempts = 2
    MaxPrompts = 1
INVARIANTS
    BattleInv
    TurnsComplete
    ToldOnce
    OutcomeJustified
PROPERTY
    DecidedIsOver
CHECK_DEADLOCK FALSE
