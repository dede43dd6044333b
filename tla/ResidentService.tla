--------------------------- MODULE ResidentService ---------------------------
(***************************************************************************)
(* app/services/resident_service.py behind app/routes/residents.py: the    *)
(* life of a resident, from the row and token that provision creates,      *)
(* through register_device, to revoke.  One action per database statement  *)
(* that another handler can fall between.  A request refused by its first  *)
(* statement changes nothing and is not shown.                             *)
(***************************************************************************)
EXTENDS Database

-----------------------------------------------------------------------------
(* provision: POST /residents *)

\* A new uuid: no row has it and no handler in flight has drawn it.
FreshResident(r) == ~ResidentExists(r) /\ \A q \in Requests : local[q].resident # r

\* db.get(Unit): what max_residents is now.  The id of the row to come is drawn
\* here rather than at the INSERT: nobody can tell, and the finite set of ids
\* then limits how many requests start instead of stranding one that did.
ProvisionLoadUnit(p, u, c, r) ==
    /\ UnitExists(u)
    /\ FreshResident(r)
    /\ Start(p, "provision_count",
             [NoLocals EXCEPT !.unit = u, !.contact = c, !.resident = r, !.seen_max = units[u]])

\* Mutant: off by one, > for >=.
AtCapacity_OneMore(p) == ActiveResidentCount(local[p].unit) > local[p].seen_max

AtCapacity(p) == ActiveResidentCount(local[p].unit) >= local[p].seen_max

\* The capacity check.  A refused attempt first inserts its audit row.
ProvisionCount(p) ==
    /\ pc[p] = "provision_count"
    /\ Step(p, IF AtCapacity(p) THEN "provision_blocked" ELSE "provision_owner")
    /\ UNCHANGED local

\* The ValueError becomes an HTTPException, on which get_db rolls back the
\* registration_blocked row with everything else.
ProvisionBlocked(p) ==
    /\ pc[p] = "provision_blocked"
    /\ Rollback(p)

\* Mutant: only an owner who is already active counts.
HasOwner_Active(u) ==
    \E r \in Occupants(u) : residents[r].is_owner /\ residents[r].status = "active"

HasOwner(u) == \E r \in Occupants(u) : residents[r].is_owner

\* The first resident must bring a phone and an email, the others neither.
ContactAllowed(p) ==
    IF HasOwner(local[p].unit) THEN local[p].contact = NULL
                               ELSE local[p].contact \in Contacts

ProvisionOwner(p) ==
    /\ pc[p] = "provision_owner"
    /\ \/ /\ ContactAllowed(p)
          /\ Step(p, "provision_insert")
          /\ local' = [local EXCEPT ![p].is_owner = ~HasOwner(local[p].unit)]
       \/ /\ ~ContactAllowed(p)
          /\ Rollback(p)

\* Mutant: the TTL is added to an expiry that includes it.
TokenExpiry_Twice == clock + TTL + TTL

TokenExpiry == clock + TTL

\* The resident, its token and the audit row are inserted; the foreign key
\* waits for a DELETE of the unit and fails if there is no unit any more.
ProvisionInsert(p) ==
    /\ pc[p] = "provision_insert"
    /\ ~UnitBeingDeleted(p, local[p].unit)
    /\ \/ /\ UnitExists(local[p].unit)
          /\ Step(p, "provision_commit")
          /\ local' = [local EXCEPT ![p].expires_at = TokenExpiry]
       \/ /\ ~UnitExists(local[p].unit)
          /\ Rollback(p)

ProvisionCommit(p) ==
    LET l == local[p] IN
    /\ pc[p] = "provision_commit"
    /\ Close(p)
    /\ residents' = [residents EXCEPT ![l.resident] =
          [unit_id |-> l.unit, status |-> "pending", public_key |-> NULL,
           is_owner |-> l.is_owner, contact |-> l.contact, revoked |-> FALSE]]
    /\ tokens' = [tokens EXCEPT ![l.resident] = [expires_at |-> l.expires_at, used |-> FALSE]]
    /\ audit' = audit \cup {LogEntry(p, "resident_provisioned", l.unit, l.resident)}
    /\ UNCHANGED units

-----------------------------------------------------------------------------
(* register_device: POST /residents/register *)

TokenAccepted(r) == tokens[r] # NULL /\ ~tokens[r].used /\ ~Expired(tokens[r])

RegisterLoadToken(p, r, k) ==
    /\ TokenAccepted(r)
    /\ Start(p, "register_resident", [NoLocals EXCEPT !.resident = r, !.key = k])

\* Mutant: the status of the resident is not looked at.
RegisterLoadResident_AnyStatus(p) ==
    /\ pc[p] = "register_resident"
    /\ Step(p, "register_flush")
    /\ UNCHANGED local

\* Mutant: only a revoked resident is turned away.
RegisterLoadResident_NotRevoked(p) ==
    /\ pc[p] = "register_resident"
    /\ \/ /\ residents[local[p].resident].status # "revoked"
          /\ Step(p, "register_flush")
          /\ UNCHANGED local
       \/ /\ residents[local[p].resident].status = "revoked"
          /\ Rollback(p)

RegisterLoadResident(p) ==
    /\ pc[p] = "register_resident"
    /\ \/ /\ residents[local[p].resident].status = "pending"
          /\ Step(p, "register_flush")
          /\ UNCHANGED local
       \/ /\ residents[local[p].resident].status # "pending"
          /\ Rollback(p)

\* UPDATE residents, by primary key and with no condition on what was read.
RegisterFlush(p) ==
    /\ pc[p] = "register_flush"
    /\ ~ResidentLocked(p, local[p].resident)
    /\ Step(p, "register_token")
    /\ UNCHANGED local

\* Mutant: an UPDATE of a purged token goes unnoticed.
RegisterToken_IgnoresStale(p) ==
    /\ pc[p] = "register_token"
    /\ ~TokenLocked(p, local[p].resident)
    /\ Step(p, "register_commit")
    /\ UNCHANGED local

\* UPDATE activation_tokens, with the resident's row held.  A token row deleted
\* in the meantime matches nothing, which SQLAlchemy reports as stale.
RegisterToken(p) ==
    LET r == local[p].resident IN
    /\ pc[p] = "register_token"
    /\ ~TokenLocked(p, r)
    /\ \/ /\ tokens[r] # NULL
          /\ Step(p, "register_commit")
          /\ UNCHANGED local
       \/ /\ tokens[r] = NULL
          /\ Rollback(p)

\* Mutant: the token is not marked used.
Used_NotMarked(t) == t

\* used_at is set in the row, if there is one.
Used(t) == IF t = NULL THEN NULL ELSE [t EXCEPT !.used = TRUE]

RegisterCommit(p) ==
    LET r == local[p].resident IN
    /\ pc[p] = "register_commit"
    /\ Close(p)
    /\ residents' = [residents EXCEPT ![r].status = "active", ![r].public_key = local[p].key]
    /\ tokens' = [tokens EXCEPT ![r] = Used(@)]
    /\ audit' = audit \cup {LogEntry(p, "device_activated", residents[r].unit_id, r)}
    /\ UNCHANGED units

-----------------------------------------------------------------------------
(* revoke: PATCH /residents/{id}/revoke *)

RevokeLoad(p, r) ==
    /\ ResidentExists(r)
    /\ Start(p, "revoke_flush", [NoLocals EXCEPT !.resident = r, !.seen_row = residents[r]])

RevokeFlush(p) ==
    /\ pc[p] = "revoke_flush"
    /\ ~ResidentLocked(p, local[p].resident)
    /\ Step(p, "revoke_commit")
    /\ UNCHANGED local

\* Mutant: revoke leaves the key in place.
Revoked_KeepsKey(seen, row) ==
    [row EXCEPT !.status = IF seen.status = "revoked" THEN @ ELSE "revoked", !.revoked = TRUE]

\* The UPDATE names only the columns whose new value differs from the value
\* that was loaded: a row loaded without a key keeps a key bound since.
Revoked(seen, row) ==
    [row EXCEPT !.status = IF seen.status = "revoked" THEN @ ELSE "revoked",
                !.public_key = IF seen.public_key = NULL THEN @ ELSE NULL,
                !.revoked = TRUE]

RevokeCommit(p) ==
    LET r == local[p].resident IN
    /\ pc[p] = "revoke_commit"
    /\ Close(p)
    /\ residents' = [residents EXCEPT ![r] = Revoked(local[p].seen_row, @)]
    /\ audit' = audit \cup {LogEntry(p, "device_revoked", residents[r].unit_id, r)}
    /\ UNCHANGED <<units, tokens>>

-----------------------------------------------------------------------------
(* update_contact: PATCH /residents/{id}/contact, of an owner, revoked or not; *)
(* a blank phone or email is refused before anything is written.               *)

\* Mutant: the contact of any resident can be set.
ContactLoad_AnyResident(p, r, c) ==
    /\ ResidentExists(r)
    /\ Start(p, "contact_flush",
             [NoLocals EXCEPT !.resident = r, !.contact = c, !.seen_row = residents[r]])

ContactLoad(p, r, c) ==
    /\ ResidentExists(r)
    /\ residents[r].is_owner
    /\ Start(p, "contact_flush",
             [NoLocals EXCEPT !.resident = r, !.contact = c, !.seen_row = residents[r]])

ContactFlush(p) ==
    /\ pc[p] = "contact_flush"
    /\ ContactChanged(p) => ~ResidentLocked(p, local[p].resident)
    /\ Step(p, "contact_commit")
    /\ UNCHANGED local

\* Mutant: the UPDATE writes back every column that was loaded.
ContactCommit_AllColumns(p) ==
    LET r == local[p].resident IN
    /\ pc[p] = "contact_commit"
    /\ Close(p)
    /\ residents' = [residents EXCEPT ![r] =
          [local[p].seen_row EXCEPT !.contact = local[p].contact]]
    /\ audit' = audit \cup {LogEntry(p, "owner_contact_updated", residents[r].unit_id, r)}
    /\ UNCHANGED <<units, tokens>>

ContactCommit(p) ==
    LET r == local[p].resident IN
    /\ pc[p] = "contact_commit"
    /\ Close(p)
    /\ residents' = [residents EXCEPT ![r].contact =
          IF ContactChanged(p) THEN local[p].contact ELSE @]
    /\ audit' = audit \cup {LogEntry(p, "owner_contact_updated", residents[r].unit_id, r)}
    /\ UNCHANGED <<units, tokens>>

-----------------------------------------------------------------------------
ResidentServiceNext(p) ==
    \/ \E u \in Units, c \in Contacts \cup {NULL, PARTIAL}, r \in Residents :
          ProvisionLoadUnit(p, u, c, r)
    \/ ProvisionCount(p)
    \/ ProvisionBlocked(p)
    \/ ProvisionOwner(p)
    \/ ProvisionInsert(p)
    \/ ProvisionCommit(p)
    \/ \E r \in Residents, k \in Keys : RegisterLoadToken(p, r, k)
    \/ RegisterLoadResident(p)
    \/ RegisterFlush(p)
    \/ RegisterToken(p)
    \/ RegisterCommit(p)
    \/ \E r \in Residents : RevokeLoad(p, r)
    \/ RevokeFlush(p)
    \/ RevokeCommit(p)
    \/ \E r \in Residents, c \in Contacts : ContactLoad(p, r, c)
    \/ ContactFlush(p)
    \/ ContactCommit(p)
=============================================================================
