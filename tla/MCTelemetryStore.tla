-------------------------- MODULE MCTelemetryStore --------------------------
EXTENDS TelemetryStore

Once == [p \in Ping |-> 1]
=============================================================================
