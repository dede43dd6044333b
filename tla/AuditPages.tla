----------------------------- MODULE AuditPages -----------------------------
(***************************************************************************)
(* Reading the audit log page by page while it is written and purged:      *)
(* list_logs of app/services/audit_service.py behind app/routes/audit.py,  *)
(* and the page that asks for it (web/checker AuditLogViewer.tsx).  The    *)
(* filters by unit and by role of the actor work like the one by action.   *)
(***************************************************************************)
EXTENDS Integers, FiniteSets

CONSTANTS
    Ids,          \* ids of audit rows (uuid4); that of a purged row can stand for another
    Actions,      \* actions that audit rows record
    PageSize,     \* rows per page (20)
    MaxTime,      \* bound on the timestamps
    MaxPage,      \* bound on the pages turned to
    MaxFetches,   \* bound on the requests of the page in flight
    NULL          \* no filter

ASSUME PagesAssumption ==
    /\ IsFiniteSet(Ids)
    /\ PageSize \in Nat \ {0} /\ MaxPage \in Nat \ {0}
    /\ MaxTime \in Nat /\ MaxFetches \in Nat
    /\ NULL \notin Actions

VARIABLES
    rows,      \* audit_logs
    purged,    \* the latest cutoff of the cleanup
    page,      \* AuditLogViewer: page and filter selected, rows shown, loading
    filter,
    logs,
    loading,
    error,     \* the last answer was an error
    fetches,   \* requests in flight
    pass       \* a reading from page 1 on (of what happened, kept nowhere)

tableVars == <<rows, purged>>
vars      == <<rows, purged, page, filter, logs, loading, error, fetches, pass>>

Row     == [id : Ids, at : 1 .. MaxTime, action : Actions]
Filters == Actions \cup {NULL}

\* A request: what it asks for, and the rows of its answer once it was executed.
Fetch == [page : 1 .. MaxPage, filter : Filters, done : BOOLEAN, rows : SUBSET Row]

-----------------------------------------------------------------------------
(* list_logs *)

Matching(f) == {x \in rows : f \in {NULL, x.action}}

\* ORDER BY timestamp DESC says nothing of rows with equal timestamps: the first
\* n rows are any n rows of which none is older than a row left out.
First(f, n) ==
    {T \in SUBSET Matching(f) :
        /\ Cardinality(T) <= n
        /\ Cardinality(T) = n \/ T = Matching(f)
        /\ \A x \in T, y \in Matching(f) \ T : x.at >= y.at}

\* Mutant: the first page is page 0.
Offset_ZeroBased(p) == p * PageSize

Offset(p) == (p - 1) * PageSize

\* Mutant: no LIMIT.
ListLogs_NoLimit(f, p) == {Matching(f) \ skipped : skipped \in First(f, Offset(p))}

\* The answers to a query for page p, each by an order that holds for that query.
ListLogs(f, p) ==
    {answer \in SUBSET Matching(f) :
        \E skipped \in First(f, Offset(p)) :
            /\ skipped \cap answer = {}
            /\ skipped \cup answer \in First(f, Offset(p) + PageSize)}

\* A service's transaction commits its row.  The timestamp is the start of that
\* transaction, so a row can appear below rows already there, or level with them,
\* but not below the retention period.
Insert(x) ==
    /\ \A y \in rows : y.id # x.id
    /\ x.at >= purged
    /\ rows' = rows \cup {x}
    /\ UNCHANGED <<purged, page, filter, logs, loading, error, fetches, pass>>

\* purge_old_audit_logs.
Purge(cutoff) ==
    /\ cutoff > purged
    /\ purged' = cutoff
    /\ rows' = {x \in rows : x.at >= cutoff}
    /\ pass' = [pass EXCEPT !.since = @ \cap rows']
    /\ UNCHANGED <<page, filter, logs, loading, error, fetches>>

-----------------------------------------------------------------------------
(* AuditLogViewer *)

\* A reading that has seen nothing yet, and none.
NewPass == [clean |-> TRUE, since |-> {}, read |-> {}]
NoPass  == [NewPass EXCEPT !.clean = FALSE]

Asking(p, f) == [page |-> p, filter |-> f, done |-> FALSE, rows |-> {}]

\* fetchLogs, which every change of page or filter calls through the effect.  A
\* reading from page 1 begins or goes on; a request that another one overtakes
\* or is identical to ends it.
FetchLogs(p, f) ==
    /\ Cardinality(fetches) < MaxFetches
    /\ Asking(p, f) \notin fetches
    /\ fetches' = fetches \cup {Asking(p, f)}
    /\ loading' = TRUE
    /\ error' = FALSE
    /\ pass' = IF fetches # {} THEN NoPass ELSE IF p = 1 THEN NewPass ELSE pass
    /\ UNCHANGED <<tableVars, logs>>

Refresh == ~loading /\ FetchLogs(page, filter) /\ UNCHANGED <<page, filter>>

Prev == page > 1 /\ page' = page - 1 /\ FetchLogs(page - 1, filter) /\ UNCHANGED filter

\* Enabled by the rows shown, also while other rows are being loaded.
NextPage ==
    /\ Cardinality(logs) >= PageSize
    /\ page < MaxPage
    /\ page' = page + 1
    /\ FetchLogs(page + 1, filter)
    /\ UNCHANGED filter

\* Mutant: fetchLogs does not depend on the filter, so its change fetches nothing.
SelectFilter_NoFetch(f) ==
    /\ f # filter
    /\ filter' = f
    /\ page' = 1
    /\ UNCHANGED <<tableVars, logs, loading, error, fetches, pass>>

SelectFilter(f) ==
    /\ f # filter
    /\ filter' = f
    /\ page' = 1
    /\ FetchLogs(1, f)

\* The server executes a request.
Execute(q) ==
    /\ q \in fetches /\ ~q.done
    /\ \E answer \in ListLogs(q.filter, q.page) :
          fetches' = (fetches \ {q}) \cup {[q EXCEPT !.done = TRUE, !.rows = answer]}
    /\ pass' = IF pass.clean /\ q.page = 1
               THEN [pass EXCEPT !.since = Matching(q.filter), !.read = {}] ELSE pass
    /\ UNCHANGED <<tableVars, page, filter, logs, loading, error>>

\* An answer is shown whatever the page and filter selected by now, and ends the
\* loading whatever else is under way.
Show(q) ==
    /\ q \in fetches /\ q.done
    /\ fetches' = fetches \ {q}
    /\ logs' = q.rows
    /\ loading' = FALSE
    /\ pass' = IF pass.clean THEN [pass EXCEPT !.read = @ \cup q.rows] ELSE pass
    /\ UNCHANGED <<tableVars, page, filter, error>>

\* The request fails or its answer is lost: the rows shown stay.
FetchFails(q) ==
    /\ q \in fetches
    /\ fetches' = fetches \ {q}
    /\ loading' = FALSE
    /\ error' = TRUE
    /\ pass' = NoPass
    /\ UNCHANGED <<tableVars, page, filter, logs>>

\* The page opens and fetches its first page.
Init ==
    /\ rows = {} /\ purged = 0
    /\ page = 1 /\ filter = NULL /\ logs = {}
    /\ loading = TRUE /\ error = FALSE
    /\ fetches = {Asking(1, NULL)}
    /\ pass = NewPass

Next ==
    \/ \E x \in Row : Insert(x)
    \/ \E cutoff \in 1 .. MaxTime : Purge(cutoff)
    \/ Refresh \/ Prev \/ NextPage
    \/ \E f \in Filters : SelectFilter(f)
    \/ \E q \in fetches : Execute(q) \/ Show(q) \/ FetchFails(q)

Spec == Init /\ [][Next]_vars

-----------------------------------------------------------------------------
\* Rows, requests and what the viewer holds have their shapes; no page is longer
\* than the limit.
TypeOK ==
    /\ rows \subseteq Row
    /\ \A x, y \in rows : x.id = y.id => x = y
    /\ purged \in 0 .. MaxTime
    /\ page \in 1 .. MaxPage /\ filter \in Filters
    /\ logs \subseteq Row /\ Cardinality(logs) <= PageSize
    /\ loading \in BOOLEAN /\ error \in BOOLEAN
    /\ fetches \subseteq Fetch
    /\ pass \in [clean : BOOLEAN, since : SUBSET Row, read : SUBSET Row]

Settled == fetches = {} /\ ~error

\* Whoever pages through the log from page 1, one request at a time, has seen a
\* row of every instant of which a row was there all along, although new rows
\* shift the pages and the purge cuts their end.  So a row that has its timestamp
\* to itself is not missed; of rows that share one and meet the end of a page,
\* one can be shown twice and another never, as two queries may order them
\* differently.
NoInstantSkipped ==
    pass.clean /\ Settled =>
        \A x \in pass.since :
            (Cardinality(logs) < PageSize \/ \E y \in logs : y.at <= x.at)
                => \E y \in pass.read : y.at = x.at

\* Once everything is answered, the rows on the screen are rows of the page and
\* filter selected, if no request overlapped another one.
ShownIsSelected ==
    pass.clean /\ Settled => \A x \in logs : filter \in {NULL, x.action}
=============================================================================
