---------------------------- MODULE MCKbpmService ----------------------------
(* Instances of KbpmService for TLC. *)
EXTENDS KbpmServiceProps, TLC

CONSTANTS c1, c2

\* One terminal keeps the service alive (service start and service clean), the other
\* works with it (status and changes; clean as well).
Roles ==
  /\ client'[c1].pc # "idle" => client'[c1].cmd = "service"
  /\ client'[c2].pc # "idle" => client'[c2].cmd # "service"
==============================================================================
