SPECIFICATION Spec
CONSTANTS
    Prefixes = {default, net}
    DefaultRoute = default
    Devs = {d1, d2}
    NoDev = NoDev
    RuleDelLimit = 3
    SuppressDelLimit = 2
    MaxStaleRules = 2
    MaxStaleSuppress = 1
    ReconnectAttempts = 6
INVARIANT TypeOK
INVARIANT GiveUpLeavesHostClean
INVARIANT UnracedSignalExitIsClean
INVARIANT SessionRouted
INVARIANT WaitingFailsOpen
PROPERTY OneRuleAtATime
PROPERTY ImplementsPolicy
