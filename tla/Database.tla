------------------------------ MODULE Database ------------------------------
(***************************************************************************)
(* The rows the registry keeps (app/models/models.py) and the sessions     *)
(* that read and write them (app/core/database.py).                        *)
(*                                                                         *)
(* Every HTTP request, and every round of the periodic cleanup, runs one   *)
(* handler in one session, and so in one READ COMMITTED transaction.  A    *)
(* read sees the rows committed when that statement runs; what the         *)
(* handler learned stays in its local variables while it awaits, however   *)
(* stale it becomes.  A write waits for the row lock, holds it until the   *)
(* end of the transaction and is visible to nobody before the commit.      *)
(* The model applies a write at the commit and derives the lock from the   *)
(* step the handler is at.                                                 *)
(***************************************************************************)
EXTENDS Integers, FiniteSets

CONSTANTS
    Units,       \* unit ids (uuid4, never reused)
    Residents,   \* resident ids (uuid4, never reused)
    Keys,        \* public keys that devices present
    Contacts,    \* complete phone and email pairs
    Capacities,  \* values of max_residents that requests ask for
    Requests,    \* slots for handlers in flight
    NULL,        \* an absent row, or an SQL NULL
    DELETED,     \* in place of a unit row that was deleted
    PARTIAL,     \* contact fields of which some, not all, are filled in
    TTL,         \* ACTIVATION_TOKEN_TTL_HOURS
    Retention,   \* AUDIT_LOG_RETENTION_DAYS
    MaxTime      \* bound on the clock

ASSUME CapacityAssumption  == Capacities \subseteq Nat
ASSUME TimeAssumption      == TTL \in Nat /\ Retention \in Nat /\ MaxTime \in Nat
ASSUME SentinelAssumption  ==
    /\ NULL \notin Units \cup Residents \cup Keys \cup Contacts \cup Capacities
    /\ DELETED \notin Capacities
    /\ DELETED # NULL
    /\ PARTIAL \notin Contacts \cup {NULL}

VARIABLES
    clock,      \* wall-clock time of the server
    units,      \* units[u]: max_residents of the row, NULL or DELETED
    residents,  \* residents[r]: the row, or NULL
    tokens,     \* tokens[r]: the activation token of resident r, or NULL
    audit,      \* the audit_logs rows (two equal rows count as one)
    pc,         \* pc[p]: the step at which handler p awaits
    local       \* local[p]: the arguments and local variables of handler p

rows == <<units, residents, tokens, audit>>
vars == <<clock, units, residents, tokens, audit, pc, local>>

Statuses == {"pending", "active", "revoked"}

ResidentRow == [unit_id    : Units,
                status     : Statuses,
                public_key : Keys \cup {NULL},
                is_owner   : BOOLEAN,
                contact    : Contacts \cup {NULL},
                revoked    : BOOLEAN]             \* revoked_at is not NULL

TokenRow == [expires_at : Nat,
             used       : BOOLEAN]                \* used_at is not NULL

AuditActions == {"registration_blocked", "resident_provisioned", "device_activated",
                 "device_revoked", "owner_contact_updated"}

AuditRow == [action : AuditActions, unit : Units, resident : Residents, at : Nat]

Locals == [unit         : Units \cup {NULL},
           resident     : Residents \cup {NULL},
           key          : Keys \cup {NULL},
           contact      : Contacts \cup {NULL, PARTIAL},
           max          : Capacities \cup {NULL},
           seen_max     : Capacities \cup {NULL},
           seen_row     : ResidentRow \cup {NULL},
           is_owner     : BOOLEAN,
           children     : SUBSET Residents,
           expires_at   : Nat,
           todo         : SUBSET Residents,
           at           : Residents \cup {NULL},
           purged       : SUBSET Residents,
           began        : Nat]

NoLocals == [unit |-> NULL, resident |-> NULL, key |-> NULL, contact |-> NULL,
             max |-> NULL, seen_max |-> NULL, seen_row |-> NULL, is_owner |-> FALSE,
             children |-> {}, expires_at |-> 0, todo |-> {}, at |-> NULL, purged |-> {},
             began |-> 0]

ASSUME RowAssumption == NULL \notin ResidentRow \cup TokenRow

-----------------------------------------------------------------------------
(* Queries over the committed rows. *)

UnitExists(u)     == units[u] \in Capacities
ResidentExists(r) == residents[r] # NULL

ResidentsOf(u) == {r \in Residents : ResidentExists(r) /\ residents[r].unit_id = u}

\* _active_resident_count counts the PENDING residents too.
Occupants(u)           == {r \in ResidentsOf(u) : residents[r].status # "revoked"}
ActiveResidentCount(u) == Cardinality(Occupants(u))

\* The foreign keys residents.unit_id and audit_logs.unit_id.
Referenced(u) == ResidentsOf(u) # {} \/ \E e \in audit : e.unit = u

Expired(t) == t.expires_at < clock

-----------------------------------------------------------------------------
(* Row locks: what a handler has written and not committed. *)

\* A flush emits an UPDATE only for columns that differ from what was loaded.
ContactChanged(q) == local[q].contact # local[q].seen_row.contact
CapacityChanged(q) == local[q].max # local[q].seen_max

HoldsResident(q, r) ==
    /\ \/ pc[q] \in {"register_token", "register_commit", "revoke_commit"}
       \/ pc[q] = "contact_commit" /\ ContactChanged(q)
    /\ local[q].resident = r

\* Mutant: revoke writes the token before the resident, the other way round
\* than register_device.
HoldsToken_RevokeFirst(q, r) ==
    \/ pc[q] = "register_commit" /\ local[q].resident = r
    \/ pc[q] \in {"revoke_flush", "revoke_commit"} /\ local[q].resident = r
    \/ pc[q] \in {"cleanup_rows", "cleanup_audit"} /\ r \in local[q].purged

HoldsToken(q, r) ==
    \/ pc[q] = "register_commit" /\ local[q].resident = r
    \/ pc[q] \in {"cleanup_rows", "cleanup_audit"} /\ r \in local[q].purged

Deletes(q, u) == pc[q] = "delete_commit" /\ local[q].unit = u

HoldsUnit(q, u) ==
    \/ Deletes(q, u)
    \/ pc[q] = "capacity_commit" /\ CapacityChanged(q) /\ local[q].unit = u

\* What a handler other than p keeps p from writing.
ResidentLocked(p, r)   == \E q \in Requests \ {p} : HoldsResident(q, r)
TokenLocked(p, r)      == \E q \in Requests \ {p} : HoldsToken(q, r)
UnitBeingDeleted(p, u) == \E q \in Requests \ {p} : Deletes(q, u)
UnitLocked(p, u)       == \E q \in Requests \ {p} : HoldsUnit(q, u)

\* Mutant: the INSERT leaves the unit's row unlocked.
UnitKeyShared_NoLock(p, u) == FALSE

\* An INSERT that references a unit holds a key-share lock on its row, which
\* keeps the row from being deleted and lets its max_residents be updated.
SharesKey(q, u)     == pc[q] = "provision_commit" /\ local[q].unit = u
UnitKeyShared(p, u) == \E q \in Requests \ {p} : SharesKey(q, u)

\* q has a row that the next statement of p writes.
WaitsFor(p, q) ==
    /\ p # q
    /\ LET l == local[p] IN
       \/ pc[p] \in {"register_flush", "revoke_flush"} /\ HoldsResident(q, l.resident)
       \/ pc[p] = "contact_flush" /\ ContactChanged(p) /\ HoldsResident(q, l.resident)
       \/ pc[p] = "register_token" /\ HoldsToken(q, l.resident)
       \/ pc[p] = "cleanup_rows" /\ HoldsToken(q, l.at)
       \/ pc[p] = "provision_insert" /\ Deletes(q, l.unit)
       \/ pc[p] = "capacity_flush" /\ CapacityChanged(p) /\ HoldsUnit(q, l.unit)
       \/ pc[p] = "delete_flush" /\ (HoldsUnit(q, l.unit) \/ SharesKey(q, l.unit))

\* Each of the handlers waits for one of them and one of them waits for each.
Deadlock(S) ==
    /\ S # {}
    /\ \A p \in S : \E q \in S : WaitsFor(p, q)
    /\ \A p \in S : \E q \in S : WaitsFor(q, p)

-----------------------------------------------------------------------------
(* Sessions. *)

\* A handler starts: its first statement runs with these local variables.
Start(p, step, l) ==
    /\ pc[p] = "idle"
    /\ pc' = [pc EXCEPT ![p] = step]
    /\ local' = [local EXCEPT ![p] = [l EXCEPT !.began = clock]]
    /\ UNCHANGED <<clock, rows>>

\* Handler p goes on to its next await.
Step(p, to) == pc' = [pc EXCEPT ![p] = to] /\ UNCHANGED <<clock, rows>>

\* The session ends: get_db commits when the handler returned, and rolls back
\* on any exception, the HTTPException of a refused request included.
Close(p) ==
    /\ pc' = [pc EXCEPT ![p] = "idle"]
    /\ local' = [local EXCEPT ![p] = NoLocals]
    /\ UNCHANGED clock

Rollback(p) == Close(p) /\ UNCHANGED rows

\* A statement or the commit fails, the connection drops or the server
\* restarts.  The commit runs after the response was sent, so this can undo a
\* change whose success the client has already seen.  (A blocked provision is
\* rolled back in any case.)
Fail(p) == pc[p] \notin {"idle", "provision_blocked"} /\ Rollback(p)

\* _log_action: the row carries the start time of the transaction, which is
\* what now() returns.
LogEntry(p, action, u, r) ==
    [action |-> action, unit |-> u, resident |-> r, at |-> local[p].began]

Tick == clock < MaxTime /\ clock' = clock + 1 /\ UNCHANGED <<rows, pc, local>>

Init ==
    /\ clock = 0
    /\ units = [u \in Units |-> NULL]
    /\ residents = [r \in Residents |-> NULL]
    /\ tokens = [r \in Residents |-> NULL]
    /\ audit = {}
    /\ pc = [p \in Requests |-> "idle"]
    /\ local = [p \in Requests |-> NoLocals]
=============================================================================
