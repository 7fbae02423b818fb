---------------------------- MODULE MCProcesses ----------------------------
(* The instance of Processes for TLC: see processes.cfg.                    *)
EXTENDS Processes
=============================================================================
