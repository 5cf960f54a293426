---------------------------- MODULE MC_Lifecycle ----------------------------
EXTENDS InstanceLifecycleInv
\* Every step may fail but the removal of a stack.
MCFaulty == Steps \ {"cleanup", "drm", "ack", "failing"}
\* The steps that talk to Docker: the deployment and both removals.
MCDockerFaults == {"stack", "cleanup", "drm"}
=============================================================================
