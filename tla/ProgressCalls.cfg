\* Liveness of API calls and their streams.
CONSTANTS
    Components = {"locks", "names", "oneshot", "exec", "attach", "events", "logs",
                  "credentials", "ports"}
    h1 = h1
    h2 = h2
    Vacant = Vacant
SPECIFICATION Spec
CHECK_DEADLOCK FALSE
PROPERTIES
    CallsReturn StreamsEnd
