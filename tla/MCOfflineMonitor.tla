-------------------------- MODULE MCOfflineMonitor --------------------------
EXTENDS OfflineMonitor
=============================================================================
