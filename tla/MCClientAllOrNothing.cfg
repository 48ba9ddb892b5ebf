SPECIFICATION Spec
CONSTANTS
    Prefixes = {default, net}
    DefaultRoute = default
    Devs = {d1, d2}
    NoDev = NoDev
    RuleDelLimit = 2
    SuppressDelLimit = 2
    MaxStaleRules = 0
    MaxStaleSuppress = 0
    ReconnectAttempts = 2
INVARIANT AllOrNothing
