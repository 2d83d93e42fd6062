CONSTANTS
    Senders = {a, b, c, d}
    Capacity = 2
    a = a
    b = b
    c = c
    d = d
SPECIFICATION Spec
INVARIANTS
    SignalsCoverSlots
PROPERTIES
    NoLostWakeup
