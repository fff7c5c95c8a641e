\* Two producers and two consumers on a queue of two places.
CONSTANTS
    Producers = {p1, p2}
    Consumers = {c1, c2}
    Items = {a, b}
    max_size_ = 2
SPECIFICATION Spec
INVARIANTS
    TypeOK
    WakeUpsSuffice
PROPERTIES
    FifoSpec
