----------------------------- MODULE MCProcess -----------------------------
(* Instances of Process for TLC: the requests are model values.             *)
EXTENDS Process, TLC

CONSTANTS m1, r1

\* Prometheus scrapes one target at a time; somebody else reloads
TwoClients == {{m1}, {r1}}

\* the role tells nothing apart here
MasterInit == PInit /\ role = "master"

MasterProcess == MasterInit /\ [][PNext]_allVars /\ ServedFairly /\ ShutdownPolls
=============================================================================
