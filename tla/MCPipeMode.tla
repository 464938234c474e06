----------------------------- MODULE MCPipeMode ------------------------------
EXTENDS PipeCustody

\* One of the three switches is on.
OneSwitch ==
    {c \in Config : Cardinality({f \in DOMAIN c : c[f]}) = 1}
AllFaults == FaultKinds
=============================================================================
