------------------------- MODULE MCDesktopRecovery -------------------------
EXTENDS DesktopRecovery

CONSTANT t1

\* A thread recovered on request only; one watched, first without and then
\* with being woken, in the two ways that may be configured.
AllConfigs ==
    {[watched |-> {}, starts |-> FALSE, delegated |-> FALSE, policy |-> FALSE],
     [watched |-> {t1}, starts |-> FALSE, delegated |-> FALSE, policy |-> FALSE],
     [watched |-> {t1}, starts |-> TRUE, delegated |-> FALSE, policy |-> TRUE],
     [watched |-> {t1}, starts |-> TRUE, delegated |-> TRUE, policy |-> TRUE]}

=============================================================================
