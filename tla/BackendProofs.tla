---------------------------- MODULE BackendProofs ----------------------------
(***************************************************************************)
(* Theorems about Backend for every set of units, residents, keys and      *)
(* request slots.  The inductive invariant adds to the rows' types and     *)
(* foreign keys what every handler relies on between two statements        *)
(* (HandlersOK): without it nothing says that the resident a revocation    *)
(* commits is there, or that a unit about to be deleted is still empty.    *)
(***************************************************************************)
EXTENDS Backend, TLAPS

IInv == TypeOK /\ ReferentialIntegrity /\ HandlersOK

HandlerOK(p) ==
    ProvisionOK(p) /\ RegisterOK(p) /\ RevokeOK(p) /\ CapacityOK(p) /\ DeleteOK(p) /\ CleanupOK(p)

Provisioning(p) ==
    pc[p] \in {"provision_count", "provision_blocked", "provision_owner",
               "provision_insert", "provision_commit"}

LEMMA NoLocalsType == NoLocals \in Locals
BY DEF NoLocals, Locals

\* The empty database with no handler in flight satisfies the invariant.
LEMMA InitIInv == Init => IInv
BY NoLocalsType, TimeAssumption
   DEF Init, IInv, TypeOK, ReferentialIntegrity, HandlersOK, ResidentExists, UnitExists, Steps,
       ProvisionOK, RegisterOK, RevokeOK, CapacityOK, DeleteOK, CleanupOK

-----------------------------------------------------------------------------
(* Steps that commit nothing. *)

\* A step of handler p that changes no row preserves the invariant if p's own
\* facts hold after it, the id that p holds is nobody's fresh id and p shares
\* no unit that another handler is deleting.
LEMMA QuietStep ==
    ASSUME IInv, NEW p \in Requests, NEW s \in Steps, NEW l \in Locals,
           pc' = [pc EXCEPT ![p] = s],
           local' = [local EXCEPT ![p] = l],
           UNCHANGED <<clock, rows>>,
           \A q \in Requests \ {p} : Provisioning(q) => l.resident # local[q].resident,
           s = "provision_commit" => ~UnitBeingDeleted(p, l.unit),
           HandlerOK(p)'
    PROVE  IInv'
<1> USE DEF IInv, rows
<1>1. TypeOK'
  BY DEF TypeOK, Steps
<1>2. ReferentialIntegrity'
  BY DEF ReferentialIntegrity, ResidentExists, UnitExists
<1>3. ASSUME NEW q \in Requests, q # p PROVE HandlerOK(q)'
  <2>1. pc'[q] = pc[q] /\ local'[q] = local[q] /\ pc'[p] = s /\ local'[p] = l
    BY <1>3 DEF TypeOK
  <2>2. ProvisionOK(q)'
    BY <1>3, <2>1 DEF TypeOK, HandlersOK, ProvisionOK, Provisioning, ResidentExists, UnitExists
  <2>3. RegisterOK(q)' /\ RevokeOK(q)' /\ CapacityOK(q)' /\ CleanupOK(q)'
    BY <2>1 DEF HandlersOK, RegisterOK, RevokeOK, CapacityOK, CleanupOK, ResidentExists
  <2>4. DeleteOK(q)'
    BY <1>3, <2>1 DEF TypeOK, HandlersOK, DeleteOK, Referenced, ResidentsOf, ResidentExists,
                      UnitKeyShared, SharesKey, UnitBeingDeleted, Deletes
  <2> QED BY <2>2, <2>3, <2>4 DEF HandlerOK
<1> QED BY <1>1, <1>2, <1>3 DEF HandlersOK, HandlerOK

\* The end of a session without a commit.
LEMMA RollbackIInv ==
    ASSUME IInv, NEW p \in Requests, Rollback(p)
    PROVE  IInv'
<1>1. HandlerOK(p)'
  BY DEF IInv, TypeOK, Rollback, Close, HandlerOK, ProvisionOK, RegisterOK, RevokeOK, CapacityOK, DeleteOK, CleanupOK
<1>2. \A q \in Requests \ {p} : Provisioning(q) => NoLocals.resident # local[q].resident
  BY SentinelAssumption DEF IInv, HandlersOK, ProvisionOK, Provisioning, NoLocals
<1>3. /\ pc' = [pc EXCEPT ![p] = "idle"]
      /\ local' = [local EXCEPT ![p] = NoLocals]
      /\ UNCHANGED <<clock, rows>>
  BY DEF Rollback, Close
<1>4. "idle" \in Steps
  BY DEF Steps
<1> QED BY <1>1, <1>2, <1>3, <1>4, NoLocalsType, QuietStep

\* Starting a handler.
LEMMA StartIInv ==
    ASSUME IInv, NEW p \in Requests, NEW s \in Steps, NEW l \in Locals, Start(p, s, l),
           \A q \in Requests \ {p} : Provisioning(q) => l.resident # local[q].resident,
           s # "provision_commit",
           HandlerOK(p)'
    PROVE  IInv'
<1> DEFINE m == [l EXCEPT !.began = clock]
<1>1. clock \in Nat
  BY TimeAssumption DEF IInv, TypeOK
<1>2. m \in Locals
  BY <1>1 DEF Locals
<1>3. m.resident = l.resident
  BY DEF Locals
<1> QED BY <1>2, <1>3, QuietStep DEF Start

\* Going on without learning anything: the unit and the id in hand are the same.
LEMMA StepIInv ==
    ASSUME IInv, NEW p \in Requests, NEW s \in Steps, Step(p, s), UNCHANGED local,
           s # "provision_commit",
           HandlerOK(p)'
    PROVE  IInv'
<1>1. local' = [local EXCEPT ![p] = local[p]] /\ local[p] \in Locals
  BY DEF IInv, TypeOK
<1>2. \A q \in Requests \ {p} : Provisioning(q) => local[p].resident # local[q].resident
  BY DEF IInv, HandlersOK, ProvisionOK, Provisioning
<1> QED BY <1>1, <1>2, QuietStep DEF Step

-----------------------------------------------------------------------------
(* provision *)

LEMMA ProvisionReads ==
    ASSUME IInv, NEW p \in Requests,
           \/ \E u \in Units, c \in Contacts \cup {NULL, PARTIAL}, r \in Residents :
                  ProvisionLoadUnit(p, u, c, r)
           \/ ProvisionCount(p)
           \/ ProvisionBlocked(p)
           \/ ProvisionOwner(p)
    PROVE  IInv'
<1>1. ASSUME NEW u \in Units, NEW c \in Contacts \cup {NULL, PARTIAL}, NEW r \in Residents,
             ProvisionLoadUnit(p, u, c, r)
      PROVE  IInv'
  <2> DEFINE l == [NoLocals EXCEPT !.unit = u, !.contact = c, !.resident = r, !.seen_max = units[u]]
  <2>1. Start(p, "provision_count", l) /\ FreshResident(r) /\ UnitExists(u)
    BY <1>1 DEF ProvisionLoadUnit
  <2>2. l \in Locals /\ l.resident = r /\ l.unit = u
    BY <2>1 DEF NoLocals, Locals, UnitExists
  <2>3. HandlerOK(p)'
    BY <2>1, <2>2 DEF IInv, TypeOK, HandlerOK, ProvisionOK, RegisterOK, RevokeOK, CapacityOK, DeleteOK, CleanupOK,
                      Start, FreshResident, ResidentExists, rows
  <2>4. \A q \in Requests \ {p} : Provisioning(q) => l.resident # local[q].resident
    BY <2>1, <2>2 DEF FreshResident
  <2> QED BY <2>1, <2>2, <2>3, <2>4, StartIInv DEF Steps
<1>2. CASE ProvisionCount(p)
  <2>1. PICK s \in {"provision_blocked", "provision_owner"} : Step(p, s)
    BY <1>2 DEF ProvisionCount
  <2>2. HandlerOK(p)'
    BY <1>2, <2>1 DEF IInv, TypeOK, HandlersOK, HandlerOK, ProvisionOK, RegisterOK, RevokeOK, CapacityOK,
                      DeleteOK, CleanupOK, ProvisionCount, Step, ResidentExists, rows
  <2> QED BY <1>2, <2>1, <2>2, StepIInv DEF Steps, ProvisionCount
<1>3. CASE ProvisionBlocked(p)
  BY <1>3, RollbackIInv DEF ProvisionBlocked
<1>4. CASE ProvisionOwner(p)
  <2>1. CASE Rollback(p)
    BY <2>1, RollbackIInv
  <2>2. CASE ~Rollback(p)
    <3>0. PICK b \in BOOLEAN : b = ~HasOwner(local[p].unit)
      BY DEF HasOwner
    <3> DEFINE l == [local[p] EXCEPT !.is_owner = b]
    <3>1. /\ pc[p] = "provision_owner" /\ ContactAllowed(p) /\ Step(p, "provision_insert")
          /\ local' = [local EXCEPT ![p] = l]
      BY <1>4, <2>2, <3>0 DEF ProvisionOwner
    <3>2. l \in Locals /\ l.resident = local[p].resident /\ l.unit = local[p].unit /\ l.contact = local[p].contact
      BY DEF IInv, TypeOK, Locals
    <3>3. HandlerOK(p)'
      BY <3>1, <3>2 DEF IInv, TypeOK, HandlersOK, HandlerOK, ProvisionOK, RegisterOK, RevokeOK, CapacityOK,
                        DeleteOK, CleanupOK, Step, ResidentExists, ContactAllowed, rows
    <3>4. \A q \in Requests \ {p} : Provisioning(q) => l.resident # local[q].resident
      BY <3>1, <3>2 DEF IInv, HandlersOK, ProvisionOK, Provisioning
    <3>5. "provision_insert" \in Steps /\ pc' = [pc EXCEPT ![p] = "provision_insert"] /\ UNCHANGED <<clock, rows>>
      BY <3>1 DEF Steps, Step
    <3> HIDE DEF l
    <3> QED BY <3>1, <3>2, <3>3, <3>4, <3>5, QuietStep
  <2> QED BY <2>1, <2>2
<1> QED BY <1>1, <1>2, <1>3, <1>4

LEMMA ProvisionInsertIInv ==
    ASSUME IInv, NEW p \in Requests, ProvisionInsert(p)
    PROVE  IInv'
<1>1. CASE Rollback(p)
  BY <1>1, RollbackIInv
<1>2. CASE ~Rollback(p)
  <2> DEFINE l == [local[p] EXCEPT !.expires_at = TokenExpiry]
  <2>1. /\ pc[p] = "provision_insert" /\ ~UnitBeingDeleted(p, local[p].unit)
        /\ UnitExists(local[p].unit) /\ local' = [local EXCEPT ![p] = l]
        /\ pc' = [pc EXCEPT ![p] = "provision_commit"] /\ UNCHANGED <<clock, rows>>
    BY <1>2 DEF ProvisionInsert, Step
  <2>2. TokenExpiry \in Nat
    BY TimeAssumption DEF TokenExpiry, IInv, TypeOK
  <2>3. /\ l \in Locals /\ l.resident = local[p].resident /\ l.unit = local[p].unit
        /\ l.contact = local[p].contact /\ l.expires_at = TokenExpiry
    BY <2>2 DEF IInv, TypeOK, Locals
  <2>4. HandlerOK(p)'
    BY <2>1, <2>2, <2>3 DEF IInv, TypeOK, HandlersOK, HandlerOK, ProvisionOK, RegisterOK, RevokeOK,
          CapacityOK, DeleteOK, CleanupOK, ResidentExists, UnitExists, TokenExpiry, rows
  <2>5. \A q \in Requests \ {p} : Provisioning(q) => l.resident # local[q].resident
    BY <2>1, <2>3 DEF IInv, HandlersOK, ProvisionOK, Provisioning
  <2>6. "provision_commit" \in Steps
    BY DEF Steps
  <2> HIDE DEF l
  <2> QED BY <2>1, <2>3, <2>4, <2>5, <2>6, QuietStep
<1> QED BY <1>1, <1>2

\* A commit preserves the invariant if the rows stay well typed and referenced,
\* no resident disappears, and the other handlers find what they rely on: the id
\* they drew unused, the unit they insert into there, the unit they delete empty.
LEMMA CommitStep ==
    ASSUME IInv, NEW p \in Requests, Close(p),
           units' \in [Units -> Capacities \cup {NULL, DELETED}],
           residents' \in [Residents -> ResidentRow \cup {NULL}],
           tokens' \in [Residents -> TokenRow \cup {NULL}],
           \A r \in Residents : tokens'[r] # NULL => tokens'[r].expires_at <= clock + TTL,
           audit' \subseteq AuditRow,
           ReferentialIntegrity',
           \A r \in Residents : residents[r] # NULL => residents'[r] # NULL,
           \A q \in Requests \ {p} : Provisioning(q) => residents'[local[q].resident] = NULL,
           \A q \in Requests \ {p} : pc[q] = "provision_commit" => units'[local[q].unit] \in Capacities,
           \A q \in Requests \ {p} : pc[q] = "delete_commit" =>
               /\ \A r \in Residents : residents'[r] # NULL => residents'[r].unit_id # local[q].unit
               /\ \A e \in audit' : e.unit # local[q].unit
    PROVE  IInv'
<1> USE DEF IInv, Close
<1>1. TypeOK'
  BY NoLocalsType DEF TypeOK, Steps
<1>2. HandlerOK(p)'
  BY DEF TypeOK, HandlerOK, ProvisionOK, RegisterOK, RevokeOK, CapacityOK, DeleteOK, CleanupOK
<1>3. ASSUME NEW q \in Requests, q # p PROVE HandlerOK(q)'
  <2>1. pc'[q] = pc[q] /\ local'[q] = local[q] /\ pc'[p] = "idle" /\ local'[p] = NoLocals
    BY <1>3 DEF TypeOK
  <2>2. ProvisionOK(q)'
    BY <1>3, <2>1, SentinelAssumption
       DEF TypeOK, HandlersOK, ProvisionOK, Provisioning, ResidentExists, UnitExists, NoLocals
  <2>3. RegisterOK(q)' /\ RevokeOK(q)' /\ CapacityOK(q)' /\ CleanupOK(q)'
    BY <2>1 DEF HandlersOK, RegisterOK, RevokeOK, CapacityOK, CleanupOK, ResidentExists
  <2>4. DeleteOK(q)'
    BY <1>3, <2>1 DEF TypeOK, HandlersOK, DeleteOK, Referenced, ResidentsOf, ResidentExists, UnitKeyShared, SharesKey
  <2> QED BY <2>2, <2>3, <2>4 DEF HandlerOK
<1> QED BY <1>1, <1>2, <1>3 DEF HandlersOK, HandlerOK

LEMMA LogEntryType ==
    ASSUME IInv, NEW p \in Requests, NEW a \in AuditActions, NEW u \in Units, NEW r \in Residents
    PROVE  LogEntry(p, a, u, r) \in AuditRow /\ LogEntry(p, a, u, r).unit = u
BY DEF IInv, TypeOK, Locals, LogEntry, AuditRow

LEMMA ProvisionCommitIInv ==
    ASSUME IInv, NEW p \in Requests, ProvisionCommit(p)
    PROVE  IInv'
<1> DEFINE l == local[p]
           r == l.resident
           row == [unit_id |-> l.unit, status |-> "pending", public_key |-> NULL,
                   is_owner |-> l.is_owner, contact |-> l.contact, revoked |-> FALSE]
           e == LogEntry(p, "resident_provisioned", l.unit, r)
           t == [expires_at |-> l.expires_at, used |-> FALSE]
<1>1. /\ pc[p] = "provision_commit" /\ Close(p)
      /\ residents' = [residents EXCEPT ![r] = row]
      /\ tokens' = [tokens EXCEPT ![r] = t]
      /\ audit' = audit \cup {e} /\ units' = units
  BY DEF ProvisionCommit
<1>2. /\ l.unit \in Units /\ r \in Residents /\ residents[r] = NULL /\ UnitExists(l.unit)
      /\ l.contact \in Contacts \cup {NULL} /\ l.expires_at <= clock + TTL
  BY <1>1 DEF IInv, HandlersOK, ProvisionOK, ResidentExists
<1>3. l.is_owner \in BOOLEAN /\ l.expires_at \in Nat
  BY DEF IInv, TypeOK, Locals
<1>4. row \in ResidentRow /\ row.unit_id = l.unit
  BY <1>2, <1>3 DEF ResidentRow, Statuses
<1>5. t \in TokenRow /\ t.expires_at = l.expires_at
  BY <1>3 DEF TokenRow
<1>6. e \in AuditRow /\ e.unit = l.unit
  BY <1>2, LogEntryType DEF AuditActions
<1>7. row # NULL
  BY <1>4, RowAssumption
<1> HIDE DEF row, t, e
<1>8. \A s \in Residents \ {r} : residents'[s] = residents[s] /\ tokens'[s] = tokens[s]
  BY <1>1 DEF IInv, TypeOK
<1>9. residents'[r] = row /\ tokens'[r] = t
  BY <1>1, <1>2 DEF IInv, TypeOK
<1>10. /\ residents' \in [Residents -> ResidentRow \cup {NULL}]
       /\ tokens' \in [Residents -> TokenRow \cup {NULL}]
       /\ audit' \subseteq AuditRow
       /\ units' \in [Units -> Capacities \cup {NULL, DELETED}]
  BY <1>1, <1>4, <1>5, <1>6 DEF IInv, TypeOK
<1>11. \A s \in Residents : tokens'[s] # NULL => tokens'[s].expires_at <= clock + TTL
  BY <1>2, <1>5, <1>8, <1>9 DEF IInv, TypeOK
<1>12. ReferentialIntegrity'
  BY <1>1, <1>2, <1>4, <1>6, <1>7, <1>8, <1>9
     DEF IInv, ReferentialIntegrity, ResidentExists, UnitExists
<1>13. \A s \in Residents : residents[s] # NULL => residents'[s] # NULL
  BY <1>7, <1>8, <1>9
<1>14. \A q \in Requests \ {p} : Provisioning(q) => residents'[local[q].resident] = NULL
  BY <1>1, <1>8 DEF IInv, HandlersOK, ProvisionOK, Provisioning, ResidentExists
<1>15. \A q \in Requests \ {p} : pc[q] = "provision_commit" => units'[local[q].unit] \in Capacities
  BY <1>1 DEF IInv, HandlersOK, ProvisionOK, UnitExists
<1>16. \A q \in Requests \ {p} : pc[q] = "delete_commit" =>
         /\ \A s \in Residents : residents'[s] # NULL => residents'[s].unit_id # local[q].unit
         /\ \A f \in audit' : f.unit # local[q].unit
  BY <1>1, <1>2, <1>4, <1>6, <1>8, <1>9
     DEF IInv, HandlersOK, DeleteOK, Referenced, ResidentsOf, ResidentExists, UnitKeyShared, SharesKey
<1> QED BY <1>1, <1>10, <1>11, <1>12, <1>13, <1>14, <1>15, <1>16, CommitStep

-----------------------------------------------------------------------------
(* register_device, revoke and update_contact: updates of an existing row *)

\* The commit of an UPDATE that leaves the resident in its unit.
LEMMA RowUpdateIInv ==
    ASSUME IInv, NEW p \in Requests, Close(p), units' = units,
           NEW r \in Residents, residents[r] # NULL,
           NEW row \in ResidentRow, row.unit_id = residents[r].unit_id,
           residents' = [residents EXCEPT ![r] = row],
           tokens' \in [Residents -> TokenRow \cup {NULL}],
           \A s \in Residents : tokens'[s] # NULL =>
               tokens[s] # NULL /\ tokens'[s].expires_at = tokens[s].expires_at,
           NEW e \in AuditRow, e.unit = residents[r].unit_id, audit' = audit \cup {e}
    PROVE  IInv'
<1>1. \A s \in Residents \ {r} : residents'[s] = residents[s]
  BY DEF IInv, TypeOK
<1>2. residents'[r] = row /\ row # NULL
  BY RowAssumption DEF IInv, TypeOK
<1>3. /\ residents' \in [Residents -> ResidentRow \cup {NULL}]
      /\ audit' \subseteq AuditRow
      /\ units' \in [Units -> Capacities \cup {NULL, DELETED}]
  BY DEF IInv, TypeOK
<1>4. \A s \in Residents : tokens'[s] # NULL => tokens'[s].expires_at <= clock + TTL
  BY DEF IInv, TypeOK
<1>5. ReferentialIntegrity'
  BY <1>1, <1>2 DEF IInv, ReferentialIntegrity, ResidentExists, UnitExists
<1>6. \A s \in Residents : residents[s] # NULL => residents'[s] # NULL
  BY <1>1, <1>2
<1>7. \A q \in Requests \ {p} : Provisioning(q) => residents'[local[q].resident] = NULL
  BY <1>1 DEF IInv, HandlersOK, ProvisionOK, Provisioning, ResidentExists
<1>8. \A q \in Requests \ {p} : pc[q] = "provision_commit" => units'[local[q].unit] \in Capacities
  BY DEF IInv, HandlersOK, ProvisionOK, UnitExists
<1>9. \A q \in Requests \ {p} : pc[q] = "delete_commit" =>
        /\ \A s \in Residents : residents'[s] # NULL => residents'[s].unit_id # local[q].unit
        /\ \A f \in audit' : f.unit # local[q].unit
  BY <1>1, <1>2 DEF IInv, HandlersOK, DeleteOK, Referenced, ResidentsOf, ResidentExists
<1> QED BY <1>3, <1>4, <1>5, <1>6, <1>7, <1>8, <1>9, CommitStep

LEMMA RegisterIInv ==
    ASSUME IInv, NEW p \in Requests,
           \/ \E r \in Residents, k \in Keys : RegisterLoadToken(p, r, k)
           \/ RegisterLoadResident(p)
           \/ RegisterFlush(p)
           \/ RegisterToken(p)
    PROVE  IInv'
<1>1. ASSUME NEW r \in Residents, NEW k \in Keys, RegisterLoadToken(p, r, k)
      PROVE  IInv'
  <2> DEFINE l == [NoLocals EXCEPT !.resident = r, !.key = k]
  <2>1. Start(p, "register_resident", l) /\ ResidentExists(r)
    BY <1>1 DEF RegisterLoadToken, TokenAccepted, IInv, ReferentialIntegrity
  <2>2. l \in Locals /\ l.resident = r /\ l.key = k
    BY DEF NoLocals, Locals
  <2>3. HandlerOK(p)'
    BY <2>1, <2>2 DEF IInv, TypeOK, HandlerOK, ProvisionOK, RegisterOK, RevokeOK, CapacityOK, DeleteOK, CleanupOK,
                      Start, ResidentExists, rows
  <2>4. \A q \in Requests \ {p} : Provisioning(q) => l.resident # local[q].resident
    BY <2>1, <2>2 DEF IInv, HandlersOK, ProvisionOK, Provisioning
  <2>5. "register_resident" \in Steps
    BY DEF Steps
  <2> HIDE DEF l
  <2> QED BY <2>1, <2>2, <2>3, <2>4, <2>5, StartIInv
<1>2. CASE RegisterLoadResident(p) \/ RegisterFlush(p) \/ RegisterToken(p)
  <2>1. CASE Rollback(p)
    BY <2>1, RollbackIInv
  <2>2. CASE ~Rollback(p)
    <3>1. PICK s \in {"register_flush", "register_token", "register_commit"} : Step(p, s)
      BY <1>2, <2>2 DEF RegisterLoadResident, RegisterFlush, RegisterToken
    <3>2. pc[p] \in {"register_resident", "register_flush", "register_token"} /\ UNCHANGED local
      BY <1>2, <2>2 DEF RegisterLoadResident, RegisterFlush, RegisterToken
    <3>3. HandlerOK(p)'
      BY <3>1, <3>2 DEF IInv, TypeOK, HandlersOK, HandlerOK, ProvisionOK, RegisterOK, RevokeOK,
                        CapacityOK, DeleteOK, CleanupOK, Step, ResidentExists, rows
    <3> QED BY <3>1, <3>2, <3>3, StepIInv DEF Steps
  <2> QED BY <2>1, <2>2
<1> QED BY <1>1, <1>2

LEMMA RegisterCommitIInv ==
    ASSUME IInv, NEW p \in Requests, RegisterCommit(p)
    PROVE  IInv'
<1> DEFINE r == local[p].resident
           row == [residents[r] EXCEPT !.status = "active", !.public_key = local[p].key]
           e == LogEntry(p, "device_activated", residents[r].unit_id, r)
<1>1. r \in Residents /\ residents[r] # NULL /\ local[p].key \in Keys
  BY DEF RegisterCommit, IInv, HandlersOK, RegisterOK, ResidentExists
<1>2. residents[r] \in ResidentRow /\ residents[r].unit_id \in Units
  BY <1>1 DEF IInv, TypeOK, ResidentRow
<1>3. /\ Close(p) /\ units' = units
      /\ residents' = [residents EXCEPT ![r] = row]
      /\ tokens' = [tokens EXCEPT ![r] = Used(tokens[r])]
      /\ audit' = audit \cup {e}
  BY <1>1 DEF RegisterCommit, IInv, TypeOK
<1>4. row \in ResidentRow /\ row.unit_id = residents[r].unit_id
  BY <1>1, <1>2 DEF ResidentRow, Statuses
<1>5. e \in AuditRow /\ e.unit = residents[r].unit_id
  BY <1>1, <1>2, LogEntryType DEF AuditActions
<1>6. /\ Used(tokens[r]) \in TokenRow \cup {NULL}
      /\ Used(tokens[r]) # NULL =>
            tokens[r] # NULL /\ Used(tokens[r]).expires_at = tokens[r].expires_at
  BY <1>1 DEF IInv, TypeOK, Used, TokenRow
<1>7. /\ tokens' \in [Residents -> TokenRow \cup {NULL}]
      /\ \A s \in Residents : tokens'[s] # NULL =>
            tokens[s] # NULL /\ tokens'[s].expires_at = tokens[s].expires_at
  BY <1>1, <1>3, <1>6 DEF IInv, TypeOK
<1> HIDE DEF r, row, e
<1> QED BY <1>1, <1>3, <1>4, <1>5, <1>7, RowUpdateIInv

LEMMA RevokeIInv ==
    ASSUME IInv, NEW p \in Requests,
           \/ \E r \in Residents : RevokeLoad(p, r)
           \/ \E r \in Residents, c \in Contacts : ContactLoad(p, r, c)
           \/ RevokeFlush(p)
           \/ ContactFlush(p)
    PROVE  IInv'
<1>1. ASSUME NEW r \in Residents, RevokeLoad(p, r) \/ \E c \in Contacts : ContactLoad(p, r, c)
      PROVE  IInv'
  <2>1. ResidentExists(r) /\ residents[r] \in ResidentRow
    BY <1>1 DEF RevokeLoad, ContactLoad, IInv, TypeOK, ResidentExists
  <2>2. PICK s \in {"revoke_flush", "contact_flush"}, l \in Locals :
           /\ Start(p, s, l) /\ l.resident = r
           /\ s = "contact_flush" => l.contact \in Contacts
    <3>1. CASE RevokeLoad(p, r)
      <4> DEFINE l == [NoLocals EXCEPT !.resident = r, !.seen_row = residents[r]]
      <4>1. l \in Locals /\ l.resident = r
        BY <2>1 DEF NoLocals, Locals
      <4>2. Start(p, "revoke_flush", l)
        BY <3>1 DEF RevokeLoad
      <4> HIDE DEF l
      <4> QED BY <4>1, <4>2
    <3>2. ASSUME NEW c \in Contacts, ContactLoad(p, r, c)
          PROVE  \E l \in Locals : Start(p, "contact_flush", l) /\ l.resident = r /\ l.contact \in Contacts
      <4> DEFINE l == [NoLocals EXCEPT !.resident = r, !.contact = c, !.seen_row = residents[r]]
      <4>1. l \in Locals /\ l.resident = r /\ l.contact = c
        BY <2>1 DEF NoLocals, Locals
      <4>2. Start(p, "contact_flush", l)
        BY <3>2 DEF ContactLoad
      <4> HIDE DEF l
      <4> QED BY <4>1, <4>2
    <3> QED BY <1>1, <3>1, <3>2
  <2>3. HandlerOK(p)'
    BY <2>1, <2>2 DEF IInv, TypeOK, HandlerOK, ProvisionOK, RegisterOK, RevokeOK, CapacityOK, DeleteOK, CleanupOK,
                      Start, ResidentExists, rows
  <2>4. \A q \in Requests \ {p} : Provisioning(q) => l.resident # local[q].resident
    BY <2>1, <2>2 DEF IInv, HandlersOK, ProvisionOK, Provisioning
  <2>5. s \in Steps /\ s # "provision_commit"
    BY DEF Steps
  <2> QED BY <2>2, <2>3, <2>4, <2>5, StartIInv
<1>2. CASE RevokeFlush(p) \/ ContactFlush(p)
  <2>1. PICK s \in {"revoke_commit", "contact_commit"} :
          /\ Step(p, s) /\ UNCHANGED local
          /\ pc[p] = IF s = "revoke_commit" THEN "revoke_flush" ELSE "contact_flush"
    BY <1>2 DEF RevokeFlush, ContactFlush
  <2>2. HandlerOK(p)'
    BY <2>1 DEF IInv, TypeOK, HandlersOK, HandlerOK, ProvisionOK, RegisterOK, RevokeOK,
                CapacityOK, DeleteOK, CleanupOK, Step, ResidentExists, rows
  <2> QED BY <2>1, <2>2, StepIInv DEF Steps
<1> QED BY <1>1, <1>2

LEMMA RevokeRow ==
    ASSUME IInv, NEW p \in Requests, RevokeCommit(p) \/ ContactCommit(p)
    PROVE  /\ local[p].resident \in Residents
           /\ residents[local[p].resident] \in ResidentRow
           /\ \E row \in ResidentRow :
                 /\ residents' = [residents EXCEPT ![local[p].resident] = row]
                 /\ row.unit_id = residents[local[p].resident].unit_id
                 /\ row.status \in {residents[local[p].resident].status, "revoked"}
<1> DEFINE r == local[p].resident
<1>1. r \in Residents /\ residents[r] # NULL /\ (pc[p] = "contact_commit" => local[p].contact \in Contacts)
  BY DEF RevokeCommit, ContactCommit, IInv, HandlersOK, RevokeOK, ResidentExists
<1>2. residents[r] \in ResidentRow
  BY <1>1 DEF IInv, TypeOK
<1>3. CASE RevokeCommit(p)
  <2>1. /\ Revoked(local[p].seen_row, residents[r]) \in ResidentRow
        /\ Revoked(local[p].seen_row, residents[r]).unit_id = residents[r].unit_id
        /\ Revoked(local[p].seen_row, residents[r]).status \in {residents[r].status, "revoked"}
    BY <1>2 DEF Revoked, ResidentRow, Statuses
  <2> QED BY <1>1, <1>2, <1>3, <2>1 DEF RevokeCommit, IInv, TypeOK
<1>4. CASE ContactCommit(p)
  <2>1. PICK c \in Contacts \cup {NULL} : residents' = [residents EXCEPT ![r].contact = c]
    BY <1>1, <1>2, <1>4 DEF ContactCommit, ResidentRow
  <2>2. /\ [residents[r] EXCEPT !.contact = c] \in ResidentRow
        /\ [residents[r] EXCEPT !.contact = c].unit_id = residents[r].unit_id
        /\ [residents[r] EXCEPT !.contact = c].status = residents[r].status
    BY <1>2 DEF ResidentRow
  <2> QED BY <1>1, <1>2, <2>1, <2>2 DEF IInv, TypeOK
<1> QED BY <1>3, <1>4

LEMMA RevokeCommitIInv ==
    ASSUME IInv, NEW p \in Requests, RevokeCommit(p) \/ ContactCommit(p)
    PROVE  IInv'
<1> DEFINE r == local[p].resident
<1>1. r \in Residents /\ residents[r] # NULL
  BY DEF RevokeCommit, ContactCommit, IInv, HandlersOK, RevokeOK, ResidentExists
<1>2. residents[r] \in ResidentRow /\ residents[r].unit_id \in Units
  BY <1>1 DEF IInv, TypeOK, ResidentRow
<1>3. PICK row \in ResidentRow :
        row.unit_id = residents[r].unit_id /\ residents' = [residents EXCEPT ![r] = row]
  BY RevokeRow
<1>4. PICK e \in AuditRow : e.unit = residents[r].unit_id /\ audit' = audit \cup {e}
  BY <1>1, <1>2, LogEntryType DEF AuditActions, RevokeCommit, ContactCommit
<1>5. Close(p) /\ units' = units /\ tokens' = tokens
  BY DEF RevokeCommit, ContactCommit
<1>6. tokens' \in [Residents -> TokenRow \cup {NULL}]
  BY <1>5 DEF IInv, TypeOK
<1> QED BY <1>1, <1>3, <1>4, <1>5, <1>6, RowUpdateIInv

-----------------------------------------------------------------------------
(* The unit service *)

LEMMA UnitReadsIInv ==
    ASSUME IInv, NEW p \in Requests, NEW u \in Units,
           \/ \E m \in Capacities : CreateInsert(p, u, m) \/ CapacityLoad(p, u, m)
           \/ DeleteLoad(p, u)
    PROVE  IInv'
<1>1. ASSUME NEW m \in Capacities, CreateInsert(p, u, m) \/ CapacityLoad(p, u, m)
      PROVE  \E s \in {"create_commit", "capacity_count"}, l \in Locals :
                Start(p, s, l) /\ l.unit = u /\ l.resident = NULL /\ l.max \in Capacities
  <2> DEFINE lc == [NoLocals EXCEPT !.unit = u, !.max = m]
             lm == [NoLocals EXCEPT !.unit = u, !.max = m, !.seen_max = units[u]]
  <2>1. /\ lc \in Locals /\ lc.unit = u /\ lc.max = m /\ lc.resident = NULL
        /\ UnitExists(u) => lm \in Locals /\ lm.unit = u /\ lm.max = m /\ lm.resident = NULL
    BY DEF NoLocals, Locals, UnitExists
  <2>2. \/ Start(p, "create_commit", lc)
        \/ UnitExists(u) /\ Start(p, "capacity_count", lm)
    BY <1>1 DEF CreateInsert, CapacityLoad
  <2> HIDE DEF lc, lm
  <2> QED BY <2>1, <2>2
<1>2. ASSUME DeleteLoad(p, u)
      PROVE  \E l \in Locals : Start(p, "delete_count", l) /\ l.unit = u /\ l.resident = NULL
  <2> DEFINE l == [NoLocals EXCEPT !.unit = u, !.children = ResidentsOf(u)]
  <2>1. l \in Locals /\ l.unit = u /\ l.resident = NULL
    BY DEF NoLocals, Locals, ResidentsOf
  <2>2. Start(p, "delete_count", l)
    BY <1>2 DEF DeleteLoad
  <2> HIDE DEF l
  <2> QED BY <2>1, <2>2
<1>3. PICK s \in {"create_commit", "capacity_count", "delete_count"}, l \in Locals :
        /\ Start(p, s, l) /\ l.unit = u /\ l.resident = NULL
        /\ s # "delete_count" => l.max \in Capacities
  BY <1>1, <1>2
<1>4. HandlerOK(p)'
  BY <1>3 DEF IInv, TypeOK, HandlerOK, ProvisionOK, RegisterOK, RevokeOK, CapacityOK, DeleteOK, CleanupOK, Start
<1>5. \A q \in Requests \ {p} : Provisioning(q) => l.resident # local[q].resident
  BY <1>3, SentinelAssumption DEF IInv, HandlersOK, ProvisionOK, Provisioning
<1>6. s \in Steps /\ s # "provision_commit"
  BY DEF Steps
<1> QED BY <1>3, <1>4, <1>5, <1>6, StartIInv

LEMMA CapacityStepsIInv ==
    ASSUME IInv, NEW p \in Requests, CapacityCount(p) \/ CapacityFlush(p)
    PROVE  IInv'
<1>1. CASE Rollback(p)
  BY <1>1, RollbackIInv
<1>2. CASE ~Rollback(p)
  <2>1. PICK s \in {"capacity_flush", "capacity_commit"} : Step(p, s)
    BY <1>2 DEF CapacityCount, CapacityFlush
  <2>2. pc[p] \in {"capacity_count", "capacity_flush"} /\ UNCHANGED local
    BY <1>2 DEF CapacityCount, CapacityFlush
  <2>3. HandlerOK(p)'
    BY <2>1, <2>2 DEF IInv, TypeOK, HandlersOK, HandlerOK, ProvisionOK, RegisterOK, RevokeOK,
                      CapacityOK, DeleteOK, CleanupOK, Step
  <2> QED BY <2>1, <2>2, <2>3, StepIInv DEF Steps
<1> QED BY <1>1, <1>2

\* From the flush on, a deletion knows that nothing refers to its unit.
LEMMA DeleteStepsIInv ==
    ASSUME IInv, NEW p \in Requests, DeleteCount(p) \/ DeleteFlush(p)
    PROVE  IInv'
<1>1. CASE Rollback(p)
  BY <1>1, RollbackIInv
<1>2. CASE DeleteCount(p) /\ ~Rollback(p)
  <2>1. pc[p] = "delete_count" /\ Step(p, "delete_flush") /\ UNCHANGED local
    BY <1>2 DEF DeleteCount
  <2>2. HandlerOK(p)'
    BY <2>1 DEF IInv, TypeOK, HandlersOK, HandlerOK, ProvisionOK, RegisterOK, RevokeOK, CapacityOK,
                DeleteOK, CleanupOK, Step
  <2> QED BY <2>1, <2>2, StepIInv DEF Steps
<1>3. CASE DeleteFlush(p) /\ ~Rollback(p)
  <2>1. /\ pc[p] = "delete_flush" /\ Step(p, "delete_commit") /\ UNCHANGED local
        /\ ~Referenced(local[p].unit) /\ ~UnitKeyShared(p, local[p].unit)
    BY <1>3 DEF DeleteFlush, DeleteRefused
  <2>2. /\ pc'[p] = "delete_commit" /\ local' = local /\ residents' = residents /\ audit' = audit
        /\ \A q \in Requests \ {p} : pc'[q] = pc[q]
    BY <2>1 DEF IInv, TypeOK, Step, rows
  <2>3. DeleteOK(p)'
    BY <2>1, <2>2 DEF IInv, HandlersOK, DeleteOK, Referenced, ResidentsOf, ResidentExists, UnitKeyShared, SharesKey
  <2>4. HandlerOK(p)'
    BY <2>2, <2>3 DEF HandlerOK, ProvisionOK, RegisterOK, RevokeOK, CapacityOK, CleanupOK
  <2> QED BY <2>1, <2>4, StepIInv DEF Steps
<1> QED BY <1>1, <1>2, <1>3

\* A commit that writes units only.
LEMMA UnitCommitIInv ==
    ASSUME IInv, NEW p \in Requests, CreateCommit(p) \/ CapacityCommit(p) \/ DeleteCommit(p)
    PROVE  IInv'
<1> DEFINE u == local[p].unit
<1>1. /\ Close(p) /\ residents' = residents /\ tokens' = tokens /\ audit' = audit
      /\ u \in Units
  BY DEF CreateCommit, CapacityCommit, DeleteCommit, IInv, HandlersOK, CapacityOK, DeleteOK, CleanupOK
<1>2. \A v \in Units \ {u} : units'[v] = units[v]
  BY DEF CreateCommit, CapacityCommit, DeleteCommit, IInv, TypeOK
<1>3. units' \in [Units -> Capacities \cup {NULL, DELETED}]
  BY DEF CreateCommit, CapacityCommit, DeleteCommit, IInv, TypeOK, HandlersOK, CapacityOK
<1>4. \/ units[u] \in Capacities => units'[u] \in Capacities
      \/ pc[p] = "delete_commit"
  BY <1>1 DEF CreateCommit, CapacityCommit, DeleteCommit, IInv, TypeOK, HandlersOK, CapacityOK
<1>5. pc[p] = "delete_commit" => ~Referenced(u) /\ ~UnitKeyShared(p, u)
  BY DEF IInv, HandlersOK, DeleteOK
<1>6. ReferentialIntegrity'
  <2>1. ASSUME NEW r \in Residents, residents[r] # NULL PROVE units'[residents[r].unit_id] \in Capacities
    BY <1>1, <1>2, <1>4, <1>5, <2>1
       DEF IInv, TypeOK, ResidentRow, ReferentialIntegrity, ResidentExists, UnitExists, Referenced, ResidentsOf
  <2>2. ASSUME NEW e \in audit PROVE units'[e.unit] \in Capacities
    BY <1>1, <1>2, <1>4, <1>5, <2>2
       DEF IInv, TypeOK, AuditRow, ReferentialIntegrity, UnitExists, Referenced
  <2> QED BY <1>1, <2>1, <2>2 DEF IInv, ReferentialIntegrity, ResidentExists, UnitExists
<1>7. \A q \in Requests \ {p} : Provisioning(q) => residents'[local[q].resident] = NULL
  BY <1>1 DEF IInv, HandlersOK, ProvisionOK, Provisioning, ResidentExists
<1>8. \A q \in Requests \ {p} : pc[q] = "provision_commit" => units'[local[q].unit] \in Capacities
  BY <1>1, <1>2, <1>4, <1>5 DEF IInv, HandlersOK, ProvisionOK, UnitExists, UnitKeyShared, SharesKey
<1>9. \A q \in Requests \ {p} : pc[q] = "delete_commit" =>
        /\ \A s \in Residents : residents'[s] # NULL => residents'[s].unit_id # local[q].unit
        /\ \A f \in audit' : f.unit # local[q].unit
  BY <1>1 DEF IInv, HandlersOK, DeleteOK, Referenced, ResidentsOf, ResidentExists
<1>10. /\ residents' \in [Residents -> ResidentRow \cup {NULL}]
       /\ tokens' \in [Residents -> TokenRow \cup {NULL}]
       /\ \A r \in Residents : tokens'[r] # NULL => tokens'[r].expires_at <= clock + TTL
       /\ audit' \subseteq AuditRow
  BY <1>1 DEF IInv, TypeOK
<1>11. \A r \in Residents : residents[r] # NULL => residents'[r] # NULL
  BY <1>1
<1> HIDE DEF u
<1> QED BY <1>1, <1>3, <1>6, <1>7, <1>8, <1>9, <1>10, <1>11, CommitStep

-----------------------------------------------------------------------------
(* The cleanup service and the clock *)

\* Where the scan of a DELETE goes: to a row that is left, or to the end.
LEMMA Scanning ==
    ASSUME IInv, NEW p \in Requests, NEW left \in SUBSET Residents,
           NEW purged \in SUBSET Residents, ScanOn(p, left, purged)
    PROVE  \E s \in {"cleanup_rows", "cleanup_audit"}, l \in Locals :
              /\ pc' = [pc EXCEPT ![p] = s] /\ local' = [local EXCEPT ![p] = l]
              /\ UNCHANGED <<clock, rows>>
              /\ l.resident = local[p].resident /\ l.purged = purged /\ l.began = local[p].began
              /\ l.todo \subseteq left
              /\ s = "cleanup_rows" => l.at \in left
<1> DEFINE end == [local[p] EXCEPT !.purged = purged, !.todo = {}, !.at = NULL]
<1>1. /\ end \in Locals /\ end.resident = local[p].resident /\ end.purged = purged
      /\ end.began = local[p].began /\ end.todo = {}
  BY DEF IInv, TypeOK, Locals
<1>2. ASSUME NEW r \in left
      PROVE  LET l == [local[p] EXCEPT !.purged = purged, !.todo = left \ {r}, !.at = r] IN
             /\ l \in Locals /\ l.resident = local[p].resident /\ l.purged = purged
             /\ l.began = local[p].began /\ l.todo = left \ {r} /\ l.at = r
  BY DEF IInv, TypeOK, Locals
<1>3. CASE Step(p, "cleanup_audit") /\ local' = [local EXCEPT ![p] = end]
  <2> HIDE DEF end
  <2> QED BY <1>1, <1>3 DEF Step
<1>4. ASSUME NEW r \in left, Step(p, "cleanup_rows"),
             local' = [local EXCEPT ![p] =
                          [local[p] EXCEPT !.purged = purged, !.todo = left \ {r}, !.at = r]]
      PROVE  \E l \in Locals :
              /\ pc' = [pc EXCEPT ![p] = "cleanup_rows"] /\ local' = [local EXCEPT ![p] = l]
              /\ UNCHANGED <<clock, rows>>
              /\ l.resident = local[p].resident /\ l.purged = purged /\ l.began = local[p].began
              /\ l.todo \subseteq left /\ l.at \in left
  <2> DEFINE l == [local[p] EXCEPT !.purged = purged, !.todo = left \ {r}, !.at = r]
  <2>1. /\ l \in Locals /\ l.resident = local[p].resident /\ l.purged = purged
        /\ l.began = local[p].began /\ l.todo = left \ {r} /\ l.at = r
    BY <1>2
  <2>2. local' = [local EXCEPT ![p] = l] /\ pc' = [pc EXCEPT ![p] = "cleanup_rows"]
        /\ UNCHANGED <<clock, rows>>
    BY <1>4 DEF Step
  <2> HIDE DEF l
  <2> QED BY <2>1, <2>2
<1>5. \/ Step(p, "cleanup_audit") /\ local' = [local EXCEPT ![p] = end]
      \/ \E r \in left : /\ Step(p, "cleanup_rows")
                         /\ local' = [local EXCEPT ![p] =
                               [local[p] EXCEPT !.purged = purged, !.todo = left \ {r}, !.at = r]]
  BY DEF ScanOn
<1> HIDE DEF end
<1> QED BY <1>3, <1>4, <1>5

\* The rows that a statement of the cleanup scans.
LEMMA CleanupScans ==
    ASSUME IInv, NEW p \in Requests, CleanupTokens(p) \/ CleanupRow(p)
    PROVE  \E left, purged \in SUBSET Residents : ScanOn(p, left, purged)
<1>1. CASE CleanupTokens(p)
  <2>1. Purgeable(p) \in SUBSET Residents /\ {} \in SUBSET Residents
    BY DEF Purgeable
  <2> QED BY <1>1, <2>1 DEF CleanupTokens
<1>2. CASE CleanupRow(p)
  <2>1. tokens[local[p].at] # NULL => local[p].purged \cup {local[p].at} \in SUBSET Residents
    BY <1>2 DEF CleanupRow, IInv, TypeOK, HandlersOK, CleanupOK, Locals
  <2>2. local[p].todo \in SUBSET Residents /\ local[p].purged \in SUBSET Residents
    BY DEF IInv, TypeOK, Locals
  <2> QED BY <1>2, <2>1, <2>2 DEF CleanupRow
<1> QED BY <1>1, <1>2

LEMMA CleanupIInv ==
    ASSUME IInv, NEW p \in Requests, CleanupBegin(p) \/ CleanupTokens(p) \/ CleanupRow(p)
    PROVE  IInv'
<1>1. CASE CleanupBegin(p)
  <2>1. HandlerOK(p)'
    BY <1>1 DEF IInv, TypeOK, HandlerOK, ProvisionOK, RegisterOK, RevokeOK, CapacityOK, DeleteOK, CleanupOK,
                CleanupBegin, Start
  <2>2. \A q \in Requests \ {p} : Provisioning(q) => NoLocals.resident # local[q].resident
    BY SentinelAssumption DEF IInv, HandlersOK, ProvisionOK, Provisioning, NoLocals
  <2>3. Start(p, "cleanup_tokens", NoLocals) /\ "cleanup_tokens" \in Steps
    BY <1>1 DEF CleanupBegin, Steps
  <2> QED BY <2>1, <2>2, <2>3, NoLocalsType, StartIInv
<1>2. CASE CleanupTokens(p) \/ CleanupRow(p)
  <2>1. PICK s \in {"cleanup_rows", "cleanup_audit"}, l \in Locals :
          /\ pc' = [pc EXCEPT ![p] = s] /\ local' = [local EXCEPT ![p] = l]
          /\ UNCHANGED <<clock, rows>>
          /\ l.resident = local[p].resident
          /\ s = "cleanup_rows" => l.at \in Residents
    <3>1. PICK left \in SUBSET Residents, purged \in SUBSET Residents : ScanOn(p, left, purged)
      BY <1>2, CleanupScans
    <3>2. PICK s \in {"cleanup_rows", "cleanup_audit"}, l \in Locals :
            /\ pc' = [pc EXCEPT ![p] = s] /\ local' = [local EXCEPT ![p] = l]
            /\ UNCHANGED <<clock, rows>>
            /\ l.resident = local[p].resident
            /\ s = "cleanup_rows" => l.at \in left
      BY <3>1, Scanning
    <3> QED BY <3>2
  <2>2. pc[p] \in {"cleanup_tokens", "cleanup_rows"}
    BY <1>2 DEF CleanupTokens, CleanupRow
  <2>3. HandlerOK(p)'
    BY <2>1 DEF IInv, TypeOK, HandlerOK, ProvisionOK, RegisterOK, RevokeOK, CapacityOK, DeleteOK, CleanupOK
  <2>4. \A q \in Requests \ {p} : Provisioning(q) => l.resident # local[q].resident
    BY <2>1, <2>2 DEF IInv, HandlersOK, ProvisionOK, Provisioning
  <2>5. s \in Steps /\ s # "provision_commit"
    BY DEF Steps
  <2> QED BY <2>1, <2>3, <2>4, <2>5, QuietStep
<1> QED BY <1>1, <1>2

LEMMA CleanupCommitIInv ==
    ASSUME IInv, NEW p \in Requests, CleanupCommit(p)
    PROVE  IInv'
<1>1. /\ Close(p) /\ units' = units /\ residents' = residents
      /\ audit' \subseteq audit
      /\ tokens' = [r \in Residents |-> IF r \in local[p].purged THEN NULL ELSE tokens[r]]
  BY DEF CleanupCommit
<1>2. /\ tokens' \in [Residents -> TokenRow \cup {NULL}]
      /\ \A r \in Residents : tokens'[r] # NULL => tokens'[r] = tokens[r]
  BY <1>1 DEF IInv, TypeOK
<1>3. /\ units' \in [Units -> Capacities \cup {NULL, DELETED}]
      /\ residents' \in [Residents -> ResidentRow \cup {NULL}]
      /\ audit' \subseteq AuditRow
      /\ \A r \in Residents : tokens'[r] # NULL => tokens'[r].expires_at <= clock + TTL
      /\ \A r \in Residents : residents[r] # NULL => residents'[r] # NULL
  BY <1>1, <1>2 DEF IInv, TypeOK
<1>4. ReferentialIntegrity'
  BY <1>1, <1>2 DEF IInv, ReferentialIntegrity, ResidentExists, UnitExists
<1>5. \A q \in Requests \ {p} :
        /\ Provisioning(q) => residents'[local[q].resident] = NULL
        /\ pc[q] = "provision_commit" => units'[local[q].unit] \in Capacities
  BY <1>1 DEF IInv, HandlersOK, ProvisionOK, Provisioning, ResidentExists, UnitExists
<1>6. \A q \in Requests \ {p} : pc[q] = "delete_commit" =>
        /\ \A s \in Residents : residents'[s] # NULL => residents'[s].unit_id # local[q].unit
        /\ \A f \in audit' : f.unit # local[q].unit
  BY <1>1 DEF IInv, HandlersOK, DeleteOK, Referenced, ResidentsOf, ResidentExists
<1> QED BY <1>1, <1>2, <1>3, <1>4, <1>5, <1>6, CommitStep

LEMMA TickIInv == ASSUME IInv, Tick PROVE IInv'
<1> USE DEF IInv
<1>1. /\ clock' = clock + 1 /\ clock' \in 0..MaxTime /\ UNCHANGED <<units, residents, tokens, audit, pc, local>>
  BY TimeAssumption DEF Tick, TypeOK, rows
<1>2. TypeOK'
  <2>1. ASSUME NEW r \in Residents, tokens[r] # NULL PROVE tokens[r].expires_at <= clock' + TTL
    BY <1>1, <2>1, TimeAssumption DEF TypeOK, TokenRow
  <2> QED BY <1>1, <2>1 DEF TypeOK
<1>3. ReferentialIntegrity'
  BY <1>1 DEF ReferentialIntegrity, ResidentExists, UnitExists
<1>4. ASSUME NEW q \in Requests PROVE HandlerOK(q)'
  <2>1. ProvisionOK(q)'
    <3>1. local[q].expires_at \in Nat
      BY DEF TypeOK, Locals
    <3> QED BY <1>1, <3>1, TimeAssumption DEF TypeOK, HandlersOK, ProvisionOK, ResidentExists, UnitExists
  <2>2. RegisterOK(q)' /\ RevokeOK(q)' /\ CapacityOK(q)' /\ CleanupOK(q)'
    BY <1>1 DEF HandlersOK, RegisterOK, RevokeOK, CapacityOK, CleanupOK, ResidentExists
  <2>3. DeleteOK(q)'
    BY <1>1 DEF HandlersOK, DeleteOK, Referenced, ResidentsOf, ResidentExists, UnitKeyShared, SharesKey
  <2> QED BY <2>1, <2>2, <2>3 DEF HandlerOK
<1> QED BY <1>2, <1>3, <1>4 DEF HandlersOK, HandlerOK

-----------------------------------------------------------------------------
(* The invariant and its consequences *)

LEMMA NextIInv == IInv /\ [Next]_vars => IInv'
<1> SUFFICES ASSUME IInv, [Next]_vars PROVE IInv'
  OBVIOUS
<1>1. CASE UNCHANGED vars
  BY <1>1 DEF vars, IInv, TypeOK, ReferentialIntegrity, HandlersOK, ProvisionOK, RegisterOK, RevokeOK,
              CapacityOK, DeleteOK, CleanupOK, ResidentExists, UnitExists, Referenced, ResidentsOf, UnitKeyShared, SharesKey
<1>2. ASSUME NEW p \in Requests, ResidentServiceNext(p) PROVE IInv'
  BY <1>2, ProvisionReads, ProvisionInsertIInv, ProvisionCommitIInv, RegisterIInv, RegisterCommitIInv,
     RevokeIInv, RevokeCommitIInv DEF ResidentServiceNext
<1>3. ASSUME NEW p \in Requests, UnitServiceNext(p) PROVE IInv'
  BY <1>3, UnitReadsIInv, CapacityStepsIInv, DeleteStepsIInv, UnitCommitIInv DEF UnitServiceNext
<1>4. ASSUME NEW p \in Requests, CleanupServiceNext(p) PROVE IInv'
  BY <1>4, CleanupIInv, CleanupCommitIInv DEF CleanupServiceNext
<1>5. ASSUME NEW p \in Requests, Fail(p) PROVE IInv'
  BY <1>5, RollbackIInv DEF Fail
<1>6. CASE Tick
  BY <1>6, TickIInv
<1> QED BY <1>1, <1>2, <1>3, <1>4, <1>5, <1>6 DEF Next, Handler

\* The clock is a number and never goes back.
LEMMA ClockAdvances ==
    ASSUME IInv, [Next]_vars
    PROVE  clock \in Nat /\ clock' \in Nat /\ clock <= clock'
<1>1. clock \in Nat
  BY TimeAssumption DEF IInv, TypeOK
<1>2. ASSUME NEW p \in Requests, Handler(p) \/ Fail(p) PROVE clock' = clock
  BY <1>2 DEF Handler, ResidentServiceNext, UnitServiceNext, CleanupServiceNext, ProvisionLoadUnit,
     ProvisionCount, ProvisionBlocked, ProvisionOwner, ProvisionInsert, ProvisionCommit,
     RegisterLoadToken, RegisterLoadResident, RegisterFlush, RegisterToken, RegisterCommit, RevokeLoad, RevokeFlush,
     RevokeCommit, ContactLoad, ContactFlush, ContactCommit, CreateInsert, CreateCommit, CapacityLoad,
     CapacityCount, CapacityFlush, CapacityCommit, DeleteLoad, DeleteCount, DeleteFlush, DeleteCommit,
     CleanupBegin, CleanupTokens, CleanupRow, ScanOn, CleanupCommit, Fail, Rollback, Start, Step, Close
<1> QED BY <1>1, <1>2 DEF Next, Tick, vars

\* The invariant holds of every behaviour.
LEMMA Invariance == Spec => []IInv
<1> QED BY InitIInv, NextIInv, PTL DEF Spec

\* The rows and the handlers have their types, whatever the sets of units,
\* residents, keys and request slots.
THEOREM TypeCorrect == Spec => []TypeOK
<1>1. IInv => TypeOK
  BY DEF IInv
<1> QED BY <1>1, Invariance, PTL

\* A unit that is deleted, or a token that is purged, leaves no row behind that
\* refers to it, however many requests overlap.
THEOREM ReferencesHold == Spec => []ReferentialIntegrity
<1>1. IInv => ReferentialIntegrity
  BY DEF IInv
<1> QED BY <1>1, Invariance, PTL

\* Every handler finds at its commit what it relied on since its flush.
THEOREM HandlersSafe == Spec => []HandlersOK
<1>1. IInv => HandlersOK
  BY DEF IInv
<1> QED BY <1>1, Invariance, PTL

-----------------------------------------------------------------------------
(* The two rows of an activation agree. *)

\* Residents and tokens change only when a handler commits.
LEMMA RowsChangeAtCommit ==
    ASSUME [Next]_vars
    PROVE  \/ UNCHANGED <<residents, tokens>>
           \/ \E p \in Requests : ProvisionCommit(p) \/ RegisterCommit(p) \/ RevokeCommit(p)
                                 \/ ContactCommit(p) \/ CleanupCommit(p)
<1>1. CASE UNCHANGED vars \/ Tick \/ \E p \in Requests : Fail(p)
  BY <1>1 DEF vars, Tick, Fail, Rollback, rows
<1>2. ASSUME NEW p \in Requests, UnitServiceNext(p) PROVE UNCHANGED <<residents, tokens>>
  BY <1>2 DEF UnitServiceNext, CreateInsert, CreateCommit, CapacityLoad, CapacityCount, CapacityFlush,
     CapacityCommit, DeleteLoad, DeleteCount, DeleteFlush, DeleteCommit, Start, Step, Rollback, rows
<1>3. ASSUME NEW p \in Requests, ResidentServiceNext(p),
             ~ProvisionCommit(p), ~RegisterCommit(p), ~RevokeCommit(p), ~ContactCommit(p)
      PROVE  UNCHANGED <<residents, tokens>>
  BY <1>3 DEF ResidentServiceNext, ProvisionLoadUnit, ProvisionCount, ProvisionBlocked, ProvisionOwner,
     ProvisionInsert, RegisterLoadToken, RegisterLoadResident, RegisterFlush, RegisterToken, RevokeLoad, RevokeFlush,
     ContactLoad, ContactFlush, Start, Step, Rollback, rows
<1>4. ASSUME NEW p \in Requests, CleanupServiceNext(p), ~CleanupCommit(p)
      PROVE  UNCHANGED <<residents, tokens>>
  BY <1>4 DEF CleanupServiceNext, CleanupBegin, CleanupTokens, CleanupRow, ScanOn, Start, Step, rows
<1> QED BY <1>1, <1>2, <1>3, <1>4 DEF Next, Handler

LEMMA TokenMatchesStep == IInv /\ TokenMatchesResident /\ [Next]_vars => TokenMatchesResident'
<1> SUFFICES ASSUME IInv, TokenMatchesResident, [Next]_vars, NEW r \in Residents,
                    residents'[r] # NULL, tokens'[r] # NULL
             PROVE  /\ tokens'[r].used => residents'[r].status # "pending"
                    /\ ~tokens'[r].used => residents'[r].status # "active"
  BY DEF TokenMatchesResident, ResidentExists
<1> DEFINE Goal == /\ tokens'[r].used => residents'[r].status # "pending"
                   /\ ~tokens'[r].used => residents'[r].status # "active"
<1>1. CASE UNCHANGED <<residents, tokens>>
  BY <1>1 DEF TokenMatchesResident, ResidentExists
<1>2. ASSUME NEW p \in Requests, ProvisionCommit(p) PROVE Goal
  <2>1. CASE r = local[p].resident
    BY <1>2, <2>1 DEF ProvisionCommit, IInv, TypeOK
  <2>2. CASE r # local[p].resident
    BY <1>2, <2>2 DEF ProvisionCommit, IInv, TypeOK, TokenMatchesResident, ResidentExists
  <2> QED BY <2>1, <2>2
<1>3. ASSUME NEW p \in Requests, RegisterCommit(p) PROVE Goal
  <2>1. local[p].resident \in Residents /\ residents[local[p].resident] \in ResidentRow
    BY <1>3 DEF RegisterCommit, IInv, TypeOK, HandlersOK, RegisterOK, ResidentExists
  <2>2. CASE r = local[p].resident
    <3>1. tokens[r] \in TokenRow /\ tokens'[r].used
      BY <1>3, <2>2 DEF RegisterCommit, Used, IInv, TypeOK, TokenRow
    <3>2. residents'[r].status = "active"
      BY <1>3, <2>1, <2>2 DEF RegisterCommit, IInv, TypeOK, ResidentRow
    <3> QED BY <3>1, <3>2
  <2>3. CASE r # local[p].resident
    BY <1>3, <2>3 DEF RegisterCommit, IInv, TypeOK, TokenMatchesResident, ResidentExists
  <2> QED BY <2>2, <2>3
<1>4. ASSUME NEW p \in Requests, RevokeCommit(p) \/ ContactCommit(p) PROVE Goal
  <2>1. tokens' = tokens
    BY <1>4 DEF RevokeCommit, ContactCommit
  <2>2. residents[r] # NULL /\ residents'[r].status \in {residents[r].status, "revoked"}
    BY <1>4, RevokeRow, RowAssumption DEF IInv, TypeOK
  <2> QED BY <2>1, <2>2 DEF TokenMatchesResident, ResidentExists
<1>5. ASSUME NEW p \in Requests, CleanupCommit(p) PROVE Goal
  BY <1>5 DEF CleanupCommit, TokenMatchesResident, ResidentExists
<1>6. \/ UNCHANGED <<residents, tokens>>
      \/ \E p \in Requests : ProvisionCommit(p) \/ RegisterCommit(p) \/ RevokeCommit(p)
                            \/ ContactCommit(p) \/ CleanupCommit(p)
  BY RowsChangeAtCommit
<1> QED BY <1>1, <1>2, <1>3, <1>4, <1>5, <1>6

\* A used token never belongs to a pending resident, nor an unused one to an
\* active resident, whatever overlaps register_device.
THEOREM TokensMatch == Spec => []TokenMatchesResident
<1>1. Init => TokenMatchesResident
  BY DEF Init, TokenMatchesResident, ResidentExists
<1> QED BY <1>1, TokenMatchesStep, Invariance, PTL DEF Spec

-----------------------------------------------------------------------------
(* A revocation that no activation overlaps is final. *)

\* A handler about to overwrite a resident's row was so before, or has just found
\* that resident pending.
LEMMA ActivationStarts ==
    ASSUME IInv, [Next]_vars, NEW q \in Requests, pc'[q] \in {"register_flush", "register_token", "register_commit"}
    PROVE  /\ local'[q] = local[q]
           /\ \/ pc[q] \in {"register_flush", "register_token", "register_commit"}
              \/ residents[local[q].resident].status = "pending"
<1> DEFINE Moved(p) == /\ pc'[p] \notin {"register_flush", "register_token", "register_commit"}
                       /\ \A o \in Requests \ {p} : pc'[o] = pc[o] /\ local'[o] = local[o]
<1>1. CASE UNCHANGED <<pc, local>>
  BY <1>1
<1>2. ASSUME NEW p \in Requests, Fail(p) \/ UnitServiceNext(p) \/ CleanupServiceNext(p) PROVE Moved(p)
  BY <1>2 DEF IInv, TypeOK, Fail, Rollback, UnitServiceNext, CreateInsert, CreateCommit, CapacityLoad,
     CapacityCount, CapacityFlush, CapacityCommit, DeleteLoad, DeleteCount, DeleteFlush, DeleteCommit,
     CleanupServiceNext, CleanupBegin, CleanupTokens, CleanupRow, ScanOn, CleanupCommit, Start, Step, Close
<1>3. ASSUME NEW p \in Requests, ResidentServiceNext(p), ~RegisterLoadResident(p), ~RegisterFlush(p),
             ~RegisterToken(p)
      PROVE  Moved(p)
  BY <1>3 DEF IInv, TypeOK, ResidentServiceNext, ProvisionLoadUnit, ProvisionCount, ProvisionBlocked,
     ProvisionOwner, ProvisionInsert, ProvisionCommit, RegisterLoadToken, RegisterCommit, RevokeLoad,
     RevokeFlush, RevokeCommit, ContactLoad, ContactFlush, ContactCommit, Rollback, Start, Step, Close
<1>4. ASSUME NEW p \in Requests, RegisterLoadResident(p) \/ RegisterFlush(p) \/ RegisterToken(p), q # p
      PROVE  pc'[q] = pc[q] /\ local'[q] = local[q]
  BY <1>4 DEF IInv, TypeOK, RegisterLoadResident, RegisterFlush, RegisterToken, Rollback, Step, Close
<1>5. ASSUME RegisterLoadResident(q) \/ RegisterFlush(q) \/ RegisterToken(q)
      PROVE  /\ local'[q] = local[q]
             /\ pc[q] \in {"register_flush", "register_token"} \/ residents[local[q].resident].status = "pending"
  BY <1>5 DEF IInv, TypeOK, RegisterLoadResident, RegisterFlush, RegisterToken, Rollback, Step, Close
<1>6. \/ UNCHANGED <<pc, local>>
      \/ \E p \in Requests : Fail(p) \/ UnitServiceNext(p) \/ CleanupServiceNext(p) \/ ResidentServiceNext(p)
  BY DEF Next, Handler, Tick, vars
<1> QED BY <1>1, <1>2, <1>3, <1>4, <1>5, <1>6

LEMMA RevocationStep ==
    ASSUME IInv, [Next]_vars, NEW r \in Residents, SettledRevoked(r)
    PROVE  SettledRevoked(r)'
<1>1. residents[r] \in ResidentRow /\ residents[r] # NULL /\ residents[r].status = "revoked"
  BY DEF SettledRevoked, ResidentExists, IInv, TypeOK
<1>2. residents'[r] # NULL /\ residents'[r].status = "revoked"
  <2>1. ASSUME NEW p \in Requests, ProvisionCommit(p) \/ RegisterCommit(p) PROVE residents'[r] = residents[r]
    <3>1. local[p].resident # r
      BY <1>1, <2>1 DEF ProvisionCommit, RegisterCommit, IInv, HandlersOK, ProvisionOK, ResidentExists,
                        SettledRevoked, ActivationInFlight
    <3> QED BY <2>1, <3>1 DEF ProvisionCommit, RegisterCommit, IInv, TypeOK
  <2>2. ASSUME NEW p \in Requests, RevokeCommit(p) \/ ContactCommit(p)
        PROVE  residents'[r] # NULL /\ residents'[r].status = "revoked"
    BY <1>1, <2>2, RevokeRow, RowAssumption DEF IInv, TypeOK
  <2>3. ASSUME NEW p \in Requests, CleanupCommit(p) PROVE residents'[r] = residents[r]
    BY <2>3 DEF CleanupCommit
  <2> QED BY <1>1, <2>1, <2>2, <2>3, RowsChangeAtCommit
<1>3. ~ActivationInFlight(r)'
  <2> SUFFICES ASSUME NEW q \in Requests, pc'[q] \in {"register_flush", "register_token", "register_commit"},
                      local'[q].resident = r
               PROVE  FALSE
    BY DEF ActivationInFlight
  <2> QED BY <1>1, ActivationStarts DEF SettledRevoked, ActivationInFlight
<1> QED BY <1>2, <1>3 DEF SettledRevoked, ResidentExists

\* Once a revocation is committed and no registration that had found the resident
\* pending is left, nothing brings the resident back.
THEOREM RevocationFinal == Spec => RevocationIsFinal
<1>1. IInv /\ [Next]_vars => [\A r \in Residents : SettledRevoked(r) => SettledRevoked(r)']_vars
  BY RevocationStep
<1> QED BY <1>1, Invariance, PTL DEF Spec, RevocationIsFinal
=============================================================================
