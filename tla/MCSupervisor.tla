----------------------------- MODULE MCSupervisor -----------------------------
(* One initialize and one or two ordinary requests; the cfg bounds how often *)
(* children crash, handshakes fail and bundles change.                        *)
EXTENDS Supervisor
CONSTANTS i1, r1, r2
================================================================================
