CONSTANTS
    Tracked <- MCTracked
    Namespaces = {ns1}
    NoNamespace = none
    BadNamespace = bad
    Nil = nil
    MaxInits = 2
    MaxCount = 1
    MaxExported = 2
SPECIFICATION Spec
INVARIANT
    NamespaceAppliedToAll
