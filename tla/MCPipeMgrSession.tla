-------------------------- MODULE MCPipeMgrSession --------------------------
(* PipeMgrSession for TLC: which calls the threads make in each run.       *)
EXTENDS PipeMgrSession, TLC

MCSymmetry == Permutations(Threads)

\* Every P4 entity API, with its error returns.
MCAllApiOps == AllApiOps
\* The P4 entity APIs that reach the epilogue on every path.
MCBalancedApiOps == {"table", "stat"}
MCTableOps == {"table"}
MCStfulOps == {"stful"}

MCAllExclOps == DeviceOps \cup ClientOps
\* Devices and sessions come and go, and the service keeps running.
MCRunningOps == MCAllExclOps \ {"shared_cleanup"}
MCSetupOps == {"add_device", "client_init"}
MCDeviceOps == {"add_device", "remove_device", "client_init"}
=============================================================================
