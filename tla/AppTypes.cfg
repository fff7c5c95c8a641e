\* Every spelling of the known hosts that shouts a prefix of it.
SPECIFICATION Spec
INVARIANTS
    CaseDoesNotMatter
    HomePagesRecognised
