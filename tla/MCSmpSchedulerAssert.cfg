SPECIFICATION Spec
CONSTANTS
    Threads = {1, 2, 3, 4}
    CPUs = {0, 1}
    Drivers = {2, 3}
    Nobody = Nobody
INVARIANT HandlerIdle
CHECK_DEADLOCK FALSE
