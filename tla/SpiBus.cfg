\* Both drivers, resets at any moment, two dummy bytes.
SPECIFICATION BusSpec
CONSTANT Dummies = 2
INVARIANTS
    BusSound
    OneAnswers
