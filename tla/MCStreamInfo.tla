----------------------------- MODULE MCStreamInfo -----------------------------
(* Instances of StreamInfo for TLC.                                         *)
EXTENDS StreamInfo, TLC

CONSTANTS d0, d1, d2, s, g, h, empty, u

\* one name in two databases, and one in a database there is not
SameName == <<[db |-> d0, key |-> s], [db |-> d2, key |-> s], [db |-> d1, key |-> s]>>

Old(C) == [consumers |-> C, nacked |-> NoCount]
New(C, n) == [consumers |-> C, nacked |-> n]

\* streams with groups that come and go, with and without consumers, with
\* counts that change, with groups of no count and one of no name
Streamlike ==
  {Absent, <<>>, g :> Old({u}), g :> New({}, 1), h :> New({u}, 2),
   g :> New({u}, 2) @@ h :> New({}, 1), g :> Old({}) @@ h :> New({u}, 1),
   g :> New({}, 1) @@ empty :> New({u}, 1)}

\* in d0 any of them, in d1 a stream with a group or with none
Some == {[d \in DBs |-> [k \in Streams |-> IF d = d0 THEN c ELSE IF d = d1 THEN e ELSE Absent]] :
           c \in Streamlike, e \in {h :> New({u}, 2), <<>>}}
=============================================================================
