SPECIFICATION FairSpec
CONSTANT MaxInterrupts = 2
INVARIANTS SupervisorTypeOK SocketOutlivesClient ReleasedAtEnd NoServerOrphan
PROPERTIES ExitMeansHealthy LaunchEnds ClientFollowsProxy
\* A launch that has ended stays so.
CHECK_DEADLOCK FALSE
