-------------------------------- MODULE Door --------------------------------
(***************************************************************************)
(* What POST /access/verify promises at the gate: a code that is not       *)
(* refused for its age when it comes is judged, at one instant between the *)
(* request and the answer, by the key that the registry holds for the      *)
(* resident at that instant.  There are no rows, statements or sessions.   *)
(***************************************************************************)
CONSTANTS Residents, Keys, Calls, NULL

VARIABLES
    opens,   \* opens[r]: the key that opens the gate for resident r, or NULL
    asked    \* asked[s]: the question being answered at s, or NULL

vars == <<opens, asked>>

Question(r, k) == [resident |-> r, key |-> k, verdict |-> NULL]

\* A code whose timestamp is too far from the server's clock.
Expired(r, k) == [resident |-> r, key |-> k, verdict |-> "expired"]

\* A payload that does not parse is no question about anybody.
Nonsense == [resident |-> NULL, key |-> NULL, verdict |-> "invalid"]

Ask(s, q) == asked[s] = NULL /\ asked' = [asked EXCEPT ![s] = q] /\ UNCHANGED opens

Truth(q) == IF opens[q.resident] = q.key THEN "valid" ELSE "invalid"

Judge(s) ==
    /\ asked[s] # NULL /\ asked[s].verdict = NULL
    /\ asked' = [asked EXCEPT ![s].verdict = Truth(asked[s])]
    /\ UNCHANGED opens

Answer(s) == asked[s] # NULL /\ asked' = [asked EXCEPT ![s] = NULL] /\ UNCHANGED opens

\* A device is bound, or its resident is revoked.
Change(r) ==
    /\ \E k \in Keys \cup {NULL} : opens' = [opens EXCEPT ![r] = k]
    /\ UNCHANGED asked

Init ==
    /\ opens = [r \in Residents |-> NULL]
    /\ asked = [s \in Calls |-> NULL]

Next ==
    \/ \E s \in Calls, r \in Residents, k \in Keys : Ask(s, Question(r, k)) \/ Ask(s, Expired(r, k))
    \/ \E s \in Calls : Ask(s, Nonsense) \/ Judge(s) \/ Answer(s)
    \/ \E r \in Residents : Change(r)

Spec == Init /\ [][Next]_vars
=============================================================================
