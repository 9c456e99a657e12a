----------------------------- MODULE MCExporter -----------------------------
(* Instances of Exporter for TLC: the requests are model values.            *)
EXTENDS Exporter, TLC

CONSTANTS m1, m2, s1, r1, r2, c1

\* requests for the same endpoint are alike
Alike == Permutations(Metrics) \cup Permutations(Reloads)

\* the requests that run together: those that take the mutex of the object they
\* share, a /scrape beside a reload, or a discovery beside a scrape or a reload
Groups == {Metrics \cup Reloads}
          \cup {{r} \cup Scrapes : r \in Reloads}
          \cup {{r} \cup Discovers : r \in Metrics \cup Reloads}

(* The other ones have been refused already, for their credentials.         *)
GroupInit ==
  /\ role = "master"
  /\ \E group \in Groups :
       Begin([r \in Requests |-> IF r \in group THEN "start" ELSE "error"])

GroupSpec == GroupInit /\ [][Next]_vars
=============================================================================
