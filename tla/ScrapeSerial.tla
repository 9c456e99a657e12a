---------------------------- MODULE ScrapeSerial ----------------------------
(***************************************************************************)
(* What concurrent requests may take for granted: a scrape of /metrics is   *)
(* one atomic step.  However many passwords it looks up and however many    *)
(* samples it labels, it answers as if the password map had been one thing  *)
(* and the instance role had been one thing all along.  A /scrape does the  *)
(* same with the map it copied when it began.                               *)
(***************************************************************************)
CONSTANTS Metrics,   \* requests for /metrics
          Scrapes,   \* requests for /scrape
          Versions,  \* contents of the password map
          Labels,    \* values of the instance_role label
          Nothing    \* no answer, no copy

VARIABLES map,      \* the password map in force
          copy,     \* the map a /scrape has taken
          answers   \* what a request was answered with

serialVars == <<map, copy, answers>>

Init == /\ map \in Versions
        /\ copy = [r \in Scrapes |-> Nothing]
        /\ answers = [r \in Metrics \cup Scrapes |-> Nothing]

Reload == /\ map' \in Versions
          /\ UNCHANGED <<copy, answers>>

CopyOptions(r) == /\ copy[r] = Nothing
                  /\ copy' = [copy EXCEPT ![r] = map]
                  /\ UNCHANGED <<map, answers>>

InForce(r) == IF r \in Scrapes THEN copy[r] ELSE map

Answer(r, label) ==
  /\ answers[r] = Nothing
  /\ InForce(r) # Nothing
  /\ \E passwords \in SUBSET {InForce(r)}, labels \in SUBSET {label} :
       answers' = [answers EXCEPT ![r] = [passwords |-> passwords, labels |-> labels]]
  /\ UNCHANGED <<map, copy>>

Next == \/ Reload
        \/ \E r \in Scrapes : CopyOptions(r)
        \/ \E r \in Metrics \cup Scrapes, label \in Labels : Answer(r, label)

Spec == Init /\ [][Next]_serialVars
=============================================================================
