---------------------------- MODULE MCSafetyBackups ----------------------------
(* One call of the tool and two writes, through two windows.                  *)
EXTENDS SafetyBackups
================================================================================
