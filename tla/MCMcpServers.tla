---------------------------- MODULE MCMcpServers ----------------------------
(* Instances of McpServers for TLC. *)
EXTENDS McpServers, TLC

AllKinds == RequestKinds
=============================================================================
