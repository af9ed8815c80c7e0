\* Every bound is that of the component's instance in MCSwarm.
CONSTANTS
    a = a
    b = b
    Vacant = Vacant
    Off = Off
SYMMETRY Symmetry
SPECIFICATION Spec
CHECK_DEADLOCK FALSE
PROPERTIES
     LookupsSafe 
