---------------------------- MODULE MCSupervisor ----------------------------
(***************************************************************************)
(* Instances of Supervisor for TLC.  h is a source of the boot list and h2 *)
(* a discovered one of the same name; t1 is a tenant under a name of its   *)
(* own.  The configurations say which of them are Critical.                *)
(***************************************************************************)
EXTENDS Supervisor

CONSTANTS h, h2, t1

BothNames   == {"h", "t"}
BootNames   == {"h"}
TenantNames == {"t"}
NameTable   == [s \in Sources |-> IF s \in {h, h2} THEN "h" ELSE "t"]

=============================================================================
