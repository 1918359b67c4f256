CONSTANTS
    Commands <- MCCommands
    Actions = {1, 2}
    MaxRetries = 2
    AutoReconnect = TRUE
    Orders = {"order"}
SPECIFICATION Spec
INVARIANT AlwaysWoken
PROPERTY AttemptsEnd
