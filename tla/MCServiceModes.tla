---------------------------- MODULE MCServiceModes ----------------------------
(***************************************************************************)
(* A behaviour is one of the service with the options of the configuration *)
(* or of a NoInterleave service that gets notifications.  NoInterleave     *)
(* changes Await, for which there is no fairness.                          *)
(***************************************************************************)
EXTENDS ServiceMailbox

VARIABLE serial   \* the service has NoInterleave

Serial == INSTANCE ServiceRuntime WITH NoInterleave <- TRUE, Kinds <- {"send"}

ModesInit ==
  \/ serial = FALSE /\ Init
  \/ serial = TRUE /\ Serial!Init

ModesNext ==
  /\ \/ ~serial /\ Next
     \/ serial /\ Serial!Next
  /\ UNCHANGED serial

ModesSpec == ModesInit /\ [][ModesNext]_<<vars, serial>> /\ Fairness

\* In a NoInterleave service a handler that has started ends before the next one
\* starts, its waits included.
SerialService == serial => Serial!SerialHandlers
===============================================================================
