\* Every bound is that of the component's instance in MCContainers.
CONSTANTS
    Three = {a1, a2, a3}
    Two = {b1, b2}
    Member = Member
    Client = Client
    Vacant = Vacant
    Off = Off
SYMMETRY Symmetry
SPECIFICATION Spec
CHECK_DEADLOCK FALSE
INVARIANTS
     CreatedAsAsked PortsSafe
PROPERTIES
    NetworksSafe  
