----------------------------- MODULE KbpmRegistry -----------------------------
(***************************************************************************)
(* The registry of apps that outlives every daemon, as a set of names: one *)
(* request at a time adds an app, removes one, or changes nothing, and is  *)
(* saved before the next is taken.  A daemon that goes down loses at most  *)
(* the change it has not saved yet, unless it goes down in the middle of a *)
(* save: the file is emptied first, and then all is lost.                  *)
(*                                                                         *)
(* This is where the other models meet.  KbpmApps looks at one daemon after*)
(* the other and keeps order, marks and programs; KbpmService at several   *)
(* daemons, and at the commands and sockets around them.                   *)
(***************************************************************************)
CONSTANT Apps  \* the application names

VARIABLES
  up,     \* a daemon runs
  known,  \* the apps in its process_list
  file,   \* the apps in the registry file
  phase   \* of a request: none ("ready"), answered ("busy"), the file is emptied ("saving")

registryVars == <<up, known, file, phase>>

RegistryInit ==
  /\ up = FALSE
  /\ known = {} /\ file = {}
  /\ phase = "ready"

Boot ==
  /\ ~up /\ up' = TRUE
  /\ known' = file
  /\ UNCHANGED <<file, phase>>

Down ==
  /\ up /\ up' = FALSE
  /\ known' = {}
  /\ phase' = "ready"
  /\ UNCHANGED file

Request ==
  /\ up /\ phase = "ready"
  /\ phase' = "busy"
  /\ \/ known' = known
     \/ \E a \in Apps : known' \in {known \cup {a}, known \ {a}}
  /\ UNCHANGED <<up, file>>

Truncate ==
  /\ up /\ phase = "busy"
  /\ phase' = "saving"
  /\ file' = {}
  /\ UNCHANGED <<up, known>>

Save ==
  /\ up /\ phase = "saving"
  /\ phase' = "ready"
  /\ file' = known
  /\ UNCHANGED <<up, known>>

RegistryNext == Boot \/ Down \/ Request \/ Truncate \/ Save

RegistrySpec == RegistryInit /\ [][RegistryNext]_registryVars
===============================================================================
