---------------------------- MODULE MCEmulation ----------------------------
(* Two hosts and both tools. *)
EXTENDS Emulation

CONSTANTS h1, h2

MCPidList == <<h1, h2>>
MCHosts == <<h1, h2>>
=============================================================================
