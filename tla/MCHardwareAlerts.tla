--------------------------- MODULE MCHardwareAlerts ---------------------------
EXTENDS HardwareAlerts

=============================================================================
