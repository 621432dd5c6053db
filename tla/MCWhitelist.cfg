\* Whitelists built from up to two patterns of every form, checked on every
\* destination of the bounded domain.
CONSTANTS
    l1 = l1
    l2 = l2
    Labels <- MCLabels
    PortNumbers <- MCPorts
    HostBits = 1
    MaxPatterns = 2
SPECIFICATION Spec
INVARIANT TypeOK
INVARIANT AllowedOnlyIfAdmitted
INVARIANT SingleMatchDecides
