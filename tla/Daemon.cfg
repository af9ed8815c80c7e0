\* Every bound is that of the component's instance in MCDaemon.
CONSTANTS
    a = a
    b = b
    one = one
    Vacant = Vacant
    Off = Off
SYMMETRY Symmetry
SPECIFICATION Spec
CHECK_DEADLOCK FALSE
INVARIANTS
    ReadsAreTrue PluginsSafe  ServeSafe
PROPERTIES
    ExecSafe  
