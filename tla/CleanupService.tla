--------------------------- MODULE CleanupService ---------------------------
(***************************************************************************)
(* app/services/cleanup_service.py, run by the periodic task of            *)
(* app/main.py and by POST /admin/cleanup.                                 *)
(***************************************************************************)
EXTENDS Database

\* purge_expired_tokens reads the clock, then sends its DELETE.
CleanupBegin(p) == Start(p, "cleanup_tokens", NoLocals)

\* Mutant: <= for <, a token is purged in the instant in which it is still accepted.
Purgeable_AtExpiry(p) ==
    {r \in Residents : tokens[r] # NULL
                       /\ (tokens[r].expires_at <= local[p].began \/ tokens[r].used)}

\* Mutant: a token that was never used is kept.
Purgeable_UsedOnly(p) == {r \in Residents : tokens[r] # NULL /\ tokens[r].used}

Purgeable(p) ==
    {r \in Residents : tokens[r] # NULL
                       /\ (tokens[r].expires_at < local[p].began \/ tokens[r].used)}

\* The scan of the DELETE comes to one of the rows left, or to the end.  It meets
\* rows where they are stored: an UPDATE moves a row, so two scans may meet the
\* same rows in different orders.
ScanOn(p, left, purged) ==
    \/ /\ left = {}
       /\ Step(p, "cleanup_audit")
       /\ local' = [local EXCEPT ![p].purged = purged, ![p].todo = {}, ![p].at = NULL]
    \/ \E r \in left :
          /\ Step(p, "cleanup_rows")
          /\ local' = [local EXCEPT ![p].purged = purged, ![p].todo = left \ {r}, ![p].at = r]

\* The DELETE selects by the rows committed when it starts.
CleanupTokens(p) == pc[p] = "cleanup_tokens" /\ ScanOn(p, Purgeable(p), {})

\* It deletes the row it has come to once nobody else has it, passes over a row
\* that is gone by then, and keeps the rows deleted so far while it waits.
CleanupRow(p) ==
    LET r == local[p].at IN
    /\ pc[p] = "cleanup_rows"
    /\ ~TokenLocked(p, r)
    /\ ScanOn(p, local[p].todo,
              IF tokens[r] = NULL THEN local[p].purged ELSE local[p].purged \cup {r})

Cutoff == clock - Retention

\* purge_old_audit_logs, and the commit that cleanup_all issues itself.
CleanupCommit(p) ==
    /\ pc[p] = "cleanup_audit"
    /\ Close(p)
    /\ tokens' = [r \in Residents |-> IF r \in local[p].purged THEN NULL ELSE tokens[r]]
    /\ audit' = {e \in audit : e.at >= Cutoff}
    /\ UNCHANGED <<units, residents>>

CleanupServiceNext(p) ==
    \/ CleanupBegin(p)
    \/ CleanupTokens(p)
    \/ CleanupRow(p)
    \/ CleanupCommit(p)
=============================================================================
