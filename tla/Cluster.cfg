\* Every bound is that of the component's instance in MCCluster.
CONSTANTS
    h1 = h1
    h2 = h2
    Vacant = Vacant
    Off = Off
SYMMETRY Symmetry
SPECIFICATION Spec
CHECK_DEADLOCK FALSE
INVARIANTS
    RegistrySafe HostsSafe
PROPERTIES
     CredentialsSafe BuildsSafe AuthoritySafe TenantsSafe
