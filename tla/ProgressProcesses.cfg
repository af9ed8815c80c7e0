\* Liveness of processes, commands and controllers.
CONSTANTS
    Components = {"registry", "hosts", "serve", "authority", "tenants", "plugins",
                  "tasks", "spec", "lifecycle", "builds"}
    h1 = h1
    h2 = h2
    Vacant = Vacant
SPECIFICATION Spec
CHECK_DEADLOCK FALSE
PROPERTIES
    OperationsReturn ProcessesEnd CommandsComplete 
