------------------------------ MODULE MCSysV -------------------------------
(* Three invocations of e2guardian; pids are reused.                      *)
EXTENDS SysV
=============================================================================
