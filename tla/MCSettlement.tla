---------------------------- MODULE MCSettlement ----------------------------
EXTENDS Settlement

\* A handler that fails asks for another delivery.
MCFailure == Request("reject", TRUE)
=============================================================================
