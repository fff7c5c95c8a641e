\* Messages of the three protocols, captured up to every length.
SPECIFICATION MCSpec
INVARIANTS
    ReadsInside
    NameAsSent
    CutHidesOnly
    AnswersAsFormatted
PROPERTIES
    Terminates
    MovesOn
