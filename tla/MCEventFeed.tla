----------------------------- MODULE MCEventFeed -----------------------------
EXTENDS EventFeed

CONSTANTS t1, t2, n1

\* Two tunnels, one of which the user may close; the other and a node that counts it.
TwoScenes == {{t1, t2}, {t2, n1}}
=============================================================================
