SPECIFICATION ForwardSpec
CONSTANTS
    MaxEvents = 3
    Unacceptable <- RefusedEvents
    CHANNEL_CAPACITY = 1
    Cap = 2
    COMPACT_MIN = 1
    MaxMishaps = 3
INVARIANTS
    SpoolOnDisk
PROPERTIES
    DeliveryImplemented
    Drains
CHECK_DEADLOCK FALSE
