--------------------------- MODULE OrderlyProofs ---------------------------
(***************************************************************************)
(* Theorems about the behaviours of Backend in which conflicting requests  *)
(* do not overlap, for every set of units, residents and keys and any      *)
(* number of other requests that do.  Every handler then commits what its  *)
(* checks allowed (Held), so each commit is one operation of Registry.     *)
(***************************************************************************)
EXTENDS RegistrationProofs

\* What handler p has found out still holds: the unit has a place left and the
\* new resident owns it if nobody else does ...
AdmissionHeld(p) ==
    /\ pc[p] = "provision_count" /\ UnitExists(local[p].unit) =>
          local[p].seen_max = units[local[p].unit]
    /\ pc[p] \in {"provision_owner", "provision_insert", "provision_commit"}
       /\ UnitExists(local[p].unit) =>
          ActiveResidentCount(local[p].unit) < units[local[p].unit]
    /\ pc[p] \in {"provision_insert", "provision_commit"} =>
          local[p].is_owner = ~HasOwner(local[p].unit) /\ ContactAllowed(p)

\* ... the resident who is activated is waiting for it ...
ActivationHeld(p) ==
    pc[p] \in {"register_flush", "register_token", "register_commit"} =>
        residents[local[p].resident].status = "pending"

\* ... the row that is revoked is not back from what was read of it ...
RevocationHeld(p) ==
    pc[p] \in {"revoke_flush", "revoke_commit"} =>
        /\ local[p].seen_row.status = "revoked" => residents[local[p].resident].status = "revoked"
        /\ local[p].seen_row.public_key = NULL => residents[local[p].resident].public_key = NULL

\* ... the contact is the owner's ...
ContactHeld(p) ==
    pc[p] \in {"contact_flush", "contact_commit"} => residents[local[p].resident].is_owner

\* ... the new capacity has room for the residents there are ...
ResizeHeld(p) ==
    /\ pc[p] \in {"capacity_flush", "capacity_commit"} /\ UnitExists(local[p].unit) =>
          ActiveResidentCount(local[p].unit) <= local[p].max
    /\ pc[p] = "capacity_commit" /\ CapacityChanged(p) =>
          /\ UnitExists(local[p].unit)
          /\ \A q \in Requests : pc[q] = "delete_commit" => local[q].unit # local[p].unit

\* ... and a unit that is created was not there before, one that was found was.
UnitHeld(p) ==
    /\ pc[p] = "create_commit" =>
          /\ units[local[p].unit] = NULL
          /\ \A q \in Requests : pc[q] = "create_commit" /\ local[q].unit = local[p].unit => p = q
    /\ pc[p] \in {"provision_count", "provision_blocked", "provision_owner", "provision_insert",
                  "provision_commit", "capacity_count", "capacity_flush", "capacity_commit",
                  "delete_count", "delete_flush", "delete_commit"} =>
          units[local[p].unit] # NULL

Held(p) ==
    /\ AdmissionHeld(p) /\ ActivationHeld(p) /\ RevocationHeld(p)
    /\ ContactHeld(p) /\ ResizeHeld(p) /\ UnitHeld(p)

FewResidents == \A u \in Units : IsFiniteSet(ResidentsOf(u))

OInv ==
    /\ IInv /\ TokenHeld /\ TokenMatchesResident
    /\ NoConflict /\ FewResidents
    /\ \A p \in Requests : Held(p)

-----------------------------------------------------------------------------
(* The words of Registry, and counting residents. *)

LEMMA SameWords ==
    ASSUME NEW u, NEW r
    PROVE  /\ Abstract!UnitExists(u) = UnitExists(u)
           /\ Abstract!ResidentExists(r) = ResidentExists(r)
           /\ Abstract!Members(u) = ResidentsOf(u)
           /\ Abstract!Occupants(u) = Occupants(u)
           /\ Abstract!Owners(u) = {o \in Occupants(u) : residents[o].is_owner}
           /\ HasOwner(u) = (Abstract!Owners(u) # {})
<1>1. \A o : Abstract!ResidentExists(o) = ResidentExists(o)
  BY DEF Abstract!ResidentExists, ResidentExists
<1>2. Abstract!Members(u) = ResidentsOf(u)
  BY <1>1 DEF Abstract!Members, ResidentsOf
<1>3. Abstract!Occupants(u) = Occupants(u)
  BY <1>2 DEF Abstract!Occupants, Occupants
<1>4. Abstract!Owners(u) = {o \in Occupants(u) : residents[o].is_owner}
  BY <1>3 DEF Abstract!Owners
<1>5. HasOwner(u) = (Abstract!Owners(u) # {})
  BY <1>4 DEF HasOwner
<1>6. Abstract!UnitExists(u) = UnitExists(u)
  BY DEF Abstract!UnitExists, UnitExists
<1> QED BY <1>1, <1>2, <1>3, <1>4, <1>5, <1>6

LEMMA SameCount == ASSUME NEW S PROVE Abstract!Cardinality(S) = Cardinality(S)
BY DEF Abstract!Cardinality, Cardinality

LEMMA Counting ==
    ASSUME FewResidents, NEW u \in Units
    PROVE  IsFiniteSet(Occupants(u)) /\ ActiveResidentCount(u) \in Nat
<1>1. Occupants(u) \in SUBSET ResidentsOf(u)
  BY DEF Occupants
<1>2. IsFiniteSet(Occupants(u))
  BY <1>1, FS_Subset DEF FewResidents
<1> QED BY <1>2, FS_CardinalityType DEF ActiveResidentCount

\* The unit of a handler that has one.
LEMMA UnitOfHandler ==
    ASSUME IInv, NEW p \in Requests,
           pc[p] \in {"provision_count", "provision_blocked", "provision_owner", "provision_insert",
                     "provision_commit", "create_commit", "capacity_count", "capacity_flush",
                     "capacity_commit", "delete_count", "delete_flush", "delete_commit"}
    PROVE  local[p].unit \in Units
BY DEF IInv, HandlersOK, ProvisionOK, CapacityOK, DeleteOK

-----------------------------------------------------------------------------
(* Every commit is an operation of Registry. *)

LEMMA ProvisionImplements ==
    ASSUME OInv, NEW p \in Requests, ProvisionCommit(p)
    PROVE  Abstract!Provision(local[p].unit, local[p].resident, local[p].contact)
<1> DEFINE u == local[p].unit
           r == local[p].resident
           c == local[p].contact
<1>1. /\ pc[p] = "provision_commit" /\ u \in Units /\ r \in Residents
      /\ UnitExists(u) /\ ~ResidentExists(r) /\ local[p].expires_at <= clock + TTL
  BY DEF OInv, IInv, HandlersOK, ProvisionOK, ProvisionCommit
<1>2. /\ Cardinality(Occupants(u)) < units[u] /\ local[p].is_owner = ~HasOwner(u)
      /\ ContactAllowed(p)
  BY <1>1 DEF OInv, Held, AdmissionHeld, ActiveResidentCount
<1>3. local[p].expires_at \in 0 .. (clock + TTL)
  BY <1>1, TimeAssumption DEF OInv, IInv, TypeOK, Locals
<1>4. IF Abstract!Owners(u) = {} THEN c \in Contacts ELSE c = NULL
  BY <1>2, SameWords DEF ContactAllowed
<1>5. /\ Abstract!UnitExists(u) /\ ~Abstract!ResidentExists(r)
      /\ Abstract!Cardinality(Abstract!Occupants(u)) < units[u]
  BY <1>1, <1>2, SameWords, SameCount
<1>6. local[p].is_owner = (Abstract!Owners(u) = {})
  BY <1>2, SameWords
<1>7. residents' = [residents EXCEPT ![r] = Abstract!Newcomer(u, c)]
  BY <1>6 DEF ProvisionCommit, Abstract!Newcomer
<1>8. /\ tokens' = [tokens EXCEPT ![r] = [expires_at |-> local[p].expires_at, used |-> FALSE]]
      /\ UNCHANGED <<clock, units>>
  BY DEF ProvisionCommit, Close
<1> HIDE DEF u, r, c
<1> QED BY <1>3, <1>4, <1>5, <1>7, <1>8 DEF Abstract!Provision, u, r, c

LEMMA RegisterImplements ==
    ASSUME OInv, NEW p \in Requests, RegisterCommit(p)
    PROVE  Abstract!Activate(local[p].resident, local[p].key)
<1> DEFINE r == local[p].resident
<1>1. pc[p] = "register_commit" /\ r \in Residents /\ ResidentExists(r)
  BY DEF OInv, IInv, HandlersOK, RegisterOK, RegisterCommit
<1>2. residents[r].status = "pending" /\ tokens[r] # NULL /\ ~tokens[r].used
  BY <1>1 DEF OInv, Held, ActivationHeld, TokenHeld, TokenMatchesResident
<1>3. tokens' = [tokens EXCEPT ![r].used = TRUE]
  BY <1>1, <1>2 DEF OInv, IInv, TypeOK, RegisterCommit, Used
<1>4. /\ residents' = [residents EXCEPT ![r].status = "active", ![r].public_key = local[p].key]
      /\ UNCHANGED <<clock, units>>
  BY DEF RegisterCommit, Close
<1> QED BY <1>1, <1>2, <1>3, <1>4, SameWords DEF Abstract!Activate

LEMMA RevokeImplements ==
    ASSUME OInv, NEW p \in Requests, RevokeCommit(p)
    PROVE  Abstract!Revoke(local[p].resident)
<1> DEFINE r == local[p].resident
<1>1. pc[p] = "revoke_commit" /\ r \in Residents /\ ResidentExists(r) /\ residents[r] \in ResidentRow
  BY DEF OInv, IInv, TypeOK, HandlersOK, RevokeOK, RevokeCommit, ResidentExists
<1>2. /\ local[p].seen_row.status = "revoked" => residents[r].status = "revoked"
      /\ local[p].seen_row.public_key = NULL => residents[r].public_key = NULL
  BY <1>1 DEF OInv, Held, RevocationHeld
<1>3. Revoked(local[p].seen_row, residents[r])
         = [residents[r] EXCEPT !.status = "revoked", !.public_key = NULL, !.revoked = TRUE]
  BY <1>1, <1>2 DEF Revoked, ResidentRow
<1>4. residents' = [residents EXCEPT ![r].status = "revoked", ![r].public_key = NULL, ![r].revoked = TRUE]
  BY <1>1, <1>3 DEF OInv, IInv, TypeOK, RevokeCommit
<1>5. UNCHANGED <<clock, units, tokens>>
  BY DEF RevokeCommit, Close
<1> QED BY <1>1, <1>4, <1>5, SameWords DEF Abstract!Revoke

\* A correction of contacts that changes nothing changes nothing of Registry.
LEMMA ContactImplements ==
    ASSUME OInv, NEW p \in Requests, ContactCommit(p)
    PROVE  /\ local[p].resident \in Residents /\ local[p].contact \in Contacts
           /\ \/ UNCHANGED <<clock, units, residents, tokens>>
              \/ Abstract!UpdateContact(local[p].resident, local[p].contact)
<1> DEFINE r == local[p].resident
<1>1. /\ pc[p] = "contact_commit" /\ r \in Residents /\ local[p].contact \in Contacts
      /\ ResidentExists(r) /\ residents[r] \in ResidentRow
  BY DEF OInv, IInv, TypeOK, HandlersOK, RevokeOK, ContactCommit, ResidentExists
<1>2. residents[r].is_owner
  BY <1>1 DEF OInv, Held, ContactHeld
<1>3. UNCHANGED <<clock, units, tokens>>
  BY DEF ContactCommit, Close
<1>4. CASE ContactChanged(p)
  <2>1. residents' = [residents EXCEPT ![r].contact = local[p].contact]
    BY <1>4 DEF ContactCommit
  <2> QED BY <1>1, <1>2, <1>3, <2>1, SameWords DEF Abstract!UpdateContact
<1>5. CASE ~ContactChanged(p)
  <2>1. residents' = residents
    <3>1. residents' = [residents EXCEPT ![r].contact = residents[r].contact]
      BY <1>5 DEF ContactCommit
    <3>2. [residents[r] EXCEPT !.contact = residents[r].contact] = residents[r]
      BY <1>1 DEF ResidentRow
    <3>3. residents' = [residents EXCEPT ![r] = residents[r]]
      BY <3>1, <3>2
    <3> QED BY <1>1, <3>3 DEF OInv, IInv, TypeOK
  <2> QED BY <1>1, <1>3, <2>1
<1> QED BY <1>4, <1>5

LEMMA CreateImplements ==
    ASSUME OInv, NEW p \in Requests, CreateCommit(p)
    PROVE  /\ local[p].unit \in Units /\ local[p].max \in Capacities
           /\ Abstract!CreateUnit(local[p].unit, local[p].max)
<1>1. pc[p] = "create_commit" /\ local[p].unit \in Units /\ local[p].max \in Capacities
  BY DEF OInv, IInv, HandlersOK, CapacityOK, CreateCommit
<1>2. units[local[p].unit] = NULL
  BY <1>1 DEF OInv, Held, UnitHeld
<1> QED BY <1>1, <1>2 DEF CreateCommit, Close, Abstract!CreateUnit

LEMMA ResizeImplements ==
    ASSUME OInv, NEW p \in Requests, CapacityCommit(p)
    PROVE  /\ local[p].unit \in Units /\ local[p].max \in Capacities
           /\ \/ UNCHANGED <<clock, units, residents, tokens>>
              \/ Abstract!SetCapacity(local[p].unit, local[p].max)
<1>1. pc[p] = "capacity_commit" /\ local[p].unit \in Units /\ local[p].max \in Capacities
  BY DEF OInv, IInv, HandlersOK, CapacityOK, CapacityCommit
<1>2. CASE ~CapacityChanged(p)
  BY <1>1, <1>2 DEF CapacityCommit, Close
<1>3. CASE CapacityChanged(p)
  <2>1. UnitExists(local[p].unit) /\ Cardinality(Occupants(local[p].unit)) <= local[p].max
    BY <1>1, <1>3 DEF OInv, Held, ResizeHeld, ActiveResidentCount
  <2>2. /\ Abstract!UnitExists(local[p].unit)
        /\ Abstract!Cardinality(Abstract!Occupants(local[p].unit)) <= local[p].max
    BY <2>1, SameWords, SameCount
  <2> QED BY <1>1, <1>3, <2>2 DEF CapacityCommit, Close, Abstract!SetCapacity
<1> QED BY <1>2, <1>3

\* The second of two deletions of a unit finds it gone and changes nothing.
LEMMA DeleteImplements ==
    ASSUME OInv, NEW p \in Requests, DeleteCommit(p)
    PROVE  /\ local[p].unit \in Units
           /\ \/ UNCHANGED <<clock, units, residents, tokens>>
              \/ Abstract!DeleteUnit(local[p].unit)
<1> DEFINE u == local[p].unit
<1>1. pc[p] = "delete_commit" /\ u \in Units /\ ~Referenced(u)
  BY DEF OInv, IInv, HandlersOK, DeleteOK, DeleteCommit
<1>2. units[u] \in Capacities \cup {DELETED}
  BY <1>1 DEF OInv, IInv, TypeOK, Held, UnitHeld
<1>3. units' = [units EXCEPT ![u] = DELETED] /\ UNCHANGED <<clock, residents, tokens>>
  BY DEF DeleteCommit, Close
<1>4. CASE units[u] = DELETED
  BY <1>1, <1>3, <1>4 DEF OInv, IInv, TypeOK
<1>5. CASE units[u] \in Capacities
  <2>1. Abstract!UnitExists(u) /\ Abstract!Members(u) = {}
    BY <1>1, <1>5, SameWords DEF Referenced, UnitExists
  <2> QED BY <1>1, <1>3, <2>1 DEF Abstract!DeleteUnit
<1> QED BY <1>2, <1>4, <1>5

LEMMA PurgeImplements ==
    ASSUME OInv, NEW p \in Requests, CleanupCommit(p)
    PROVE  \E dead \in SUBSET Residents : Abstract!PurgeTokens(dead)
<1> DEFINE dead == {r \in local[p].purged : tokens[r] # NULL}
<1>1. pc[p] = "cleanup_audit" /\ local[p].purged \subseteq Residents
  BY DEF OInv, IInv, TypeOK, Locals, CleanupCommit
<1>2. \A r \in dead : tokens[r] # NULL /\ (tokens[r].used \/ tokens[r].expires_at < clock)
  BY <1>1 DEF OInv, TokenHeld, PurgeSteps, Doomed, TokenAccepted, Expired
<1>3. /\ tokens' = [r \in Residents |-> IF r \in dead THEN NULL ELSE tokens[r]]
      /\ UNCHANGED <<clock, units, residents>>
  BY DEF CleanupCommit, Close
<1>4. dead \in SUBSET Residents
  BY <1>1
<1> HIDE DEF dead
<1> QED BY <1>2, <1>3, <1>4 DEF Abstract!PurgeTokens

-----------------------------------------------------------------------------
(* What the steps of a handler establish for itself. *)

LEMMA ClosedHeld ==
    ASSUME OInv, NEW p \in Requests, Close(p)
    PROVE  Held(p)'
<1>1. pc'[p] = "idle"
  BY DEF OInv, IInv, TypeOK, Close
<1> QED BY <1>1 DEF Held, AdmissionHeld, ActivationHeld, RevocationHeld, ContactHeld, ResizeHeld, UnitHeld

LEMMA AdmissionMoves ==
    ASSUME OInv, NEW p \in Requests,
           \/ \E u \in Units, c \in Contacts \cup {NULL, PARTIAL}, r \in Residents :
                  ProvisionLoadUnit(p, u, c, r)
           \/ ProvisionCount(p) \/ ProvisionOwner(p) \/ ProvisionInsert(p)
    PROVE  Held(p)'
<1> USE DEF OInv, IInv, TypeOK
<1>1. SUFFICES ASSUME ~Close(p) PROVE Held(p)'
  BY ClosedHeld
<1>2. UNCHANGED <<units, residents>> /\ pc' = [pc EXCEPT ![p] = pc'[p]]
  BY <1>1 DEF ProvisionLoadUnit, ProvisionCount, ProvisionOwner, ProvisionInsert, Rollback, Start, Step, rows
<1>3. /\ AdmissionHeld(p)' /\ units'[local'[p].unit] # NULL
      /\ pc'[p] \in {"provision_count", "provision_blocked", "provision_owner", "provision_insert",
                     "provision_commit"}
  <2>1. ASSUME NEW u \in Units, NEW c \in Contacts \cup {NULL, PARTIAL}, NEW r \in Residents,
               ProvisionLoadUnit(p, u, c, r)
        PROVE  <1>3
    <3>1. /\ pc'[p] = "provision_count" /\ local'[p].unit = u /\ local'[p].seen_max = units[u]
          /\ units[u] # NULL
      BY <2>1, SentinelAssumption DEF ProvisionLoadUnit, Start, NoLocals, UnitExists
    <3> QED BY <1>2, <3>1 DEF AdmissionHeld
  <2>2. CASE ProvisionCount(p)
    <3>1. /\ pc[p] = "provision_count" /\ local' = local
          /\ pc'[p] = IF AtCapacity(p) THEN "provision_blocked" ELSE "provision_owner"
      BY <2>2 DEF ProvisionCount, Step
    <3>2. local[p].unit \in Units /\ units[local[p].unit] # NULL
      BY <3>1, UnitOfHandler DEF Held, UnitHeld
    <3>3. ASSUME UnitExists(local[p].unit), ~AtCapacity(p)
          PROVE  ActiveResidentCount(local[p].unit) < units[local[p].unit]
      <4>1. local[p].seen_max = units[local[p].unit] /\ units[local[p].unit] \in Nat
        BY <3>1, <3>3, CapacityAssumption DEF Held, AdmissionHeld, UnitExists
      <4> QED BY <3>2, <3>3, <4>1, Counting DEF AtCapacity
    <3>4. /\ UnitExists(local[p].unit)' = UnitExists(local[p].unit)
          /\ ActiveResidentCount(local[p].unit)' = ActiveResidentCount(local[p].unit)
      BY <1>2, <3>1 DEF UnitExists, ActiveResidentCount, Occupants, ResidentsOf, ResidentExists
    <3> QED BY <1>2, <3>1, <3>2, <3>3, <3>4 DEF AdmissionHeld
  <2>3. CASE ProvisionOwner(p)
    <3>1. /\ pc[p] = "provision_owner" /\ pc'[p] = "provision_insert" /\ ContactAllowed(p)
          /\ local' = [local EXCEPT ![p].is_owner = ~HasOwner(local[p].unit)]
      BY <1>1, <2>3 DEF ProvisionOwner, Rollback, Step
    <3>2. /\ local'[p].unit = local[p].unit /\ local'[p].contact = local[p].contact
          /\ local'[p].is_owner = ~HasOwner(local[p].unit)
      BY <3>1 DEF Locals
    <3>3. /\ UnitExists(local[p].unit)' = UnitExists(local[p].unit)
          /\ ActiveResidentCount(local[p].unit)' = ActiveResidentCount(local[p].unit)
          /\ HasOwner(local[p].unit)' = HasOwner(local[p].unit)
      BY <1>2, <3>2 DEF UnitExists, ActiveResidentCount, HasOwner, Occupants, ResidentsOf, ResidentExists
    <3>4. ContactAllowed(p)'
      BY <3>1, <3>2, <3>3 DEF ContactAllowed
    <3>5. units[local[p].unit] # NULL
      BY <3>1 DEF Held, UnitHeld
    <3>6. UnitExists(local[p].unit) => ActiveResidentCount(local[p].unit) < units[local[p].unit]
      BY <3>1 DEF Held, AdmissionHeld
    <3> QED BY <1>2, <3>1, <3>2, <3>3, <3>4, <3>5, <3>6 DEF AdmissionHeld
  <2>4. CASE ProvisionInsert(p)
    <3>1. /\ pc[p] = "provision_insert" /\ pc'[p] = "provision_commit"
          /\ local' = [local EXCEPT ![p].expires_at = TokenExpiry]
      BY <1>1, <2>4 DEF ProvisionInsert, Rollback, Step
    <3>2. /\ local'[p].unit = local[p].unit /\ local'[p].contact = local[p].contact
          /\ local'[p].is_owner = local[p].is_owner
      BY <3>1 DEF Locals
    <3>3. /\ UnitExists(local[p].unit)' = UnitExists(local[p].unit)
          /\ ActiveResidentCount(local[p].unit)' = ActiveResidentCount(local[p].unit)
          /\ HasOwner(local[p].unit)' = HasOwner(local[p].unit)
      BY <1>2, <3>2 DEF UnitExists, ActiveResidentCount, HasOwner, Occupants, ResidentsOf, ResidentExists
    <3>4. ContactAllowed(p)' = ContactAllowed(p)
      BY <3>2, <3>3 DEF ContactAllowed
    <3>5. units[local[p].unit] # NULL
      BY <3>1 DEF Held, UnitHeld
    <3>6. AdmissionHeld(p)
      BY DEF Held
    <3> QED BY <1>2, <3>1, <3>2, <3>3, <3>4, <3>5, <3>6 DEF AdmissionHeld
  <2> QED BY <2>1, <2>2, <2>3, <2>4
<1> QED BY <1>3 DEF Held, ActivationHeld, RevocationHeld, ContactHeld, ResizeHeld, UnitHeld

LEMMA ResidentMoves ==
    ASSUME OInv, NEW p \in Requests,
           \/ \E r \in Residents, k \in Keys : RegisterLoadToken(p, r, k)
           \/ RegisterLoadResident(p) \/ RegisterFlush(p) \/ RegisterToken(p)
           \/ \E r \in Residents : RevokeLoad(p, r)
           \/ RevokeFlush(p)
           \/ \E r \in Residents, c \in Contacts : ContactLoad(p, r, c)
           \/ ContactFlush(p)
    PROVE  Held(p)'
<1> USE DEF OInv, IInv, TypeOK
<1>1. SUFFICES ASSUME ~Close(p) PROVE Held(p)'
  BY ClosedHeld
<1>2. UNCHANGED <<units, residents>>
  BY <1>1 DEF RegisterLoadToken, RegisterLoadResident, RegisterFlush, RegisterToken, RevokeLoad, RevokeFlush,
              ContactLoad, ContactFlush, Rollback, Start, Step, rows
<1>3. /\ ActivationHeld(p)' /\ RevocationHeld(p)' /\ ContactHeld(p)'
      /\ pc'[p] \in {"register_resident", "register_flush", "register_token", "register_commit", "revoke_flush",
                     "revoke_commit", "contact_flush", "contact_commit"}
  <2> USE DEF ActivationHeld, RevocationHeld, ContactHeld
  <2>1. CASE \E r \in Residents, k \in Keys : RegisterLoadToken(p, r, k)
    <3>1. pc'[p] = "register_resident"
      BY <2>1 DEF RegisterLoadToken, Start
    <3> QED BY <3>1
  <2>2. CASE RegisterLoadResident(p) \/ RegisterFlush(p) \/ RegisterToken(p)
    <3>1. /\ local'[p] = local[p] /\ residents[local[p].resident].status = "pending"
          /\ pc'[p] \in {"register_flush", "register_token", "register_commit"}
      BY <1>1, <2>2 DEF RegisterLoadResident, RegisterFlush, RegisterToken, Rollback, Step, Held
    <3> QED BY <1>2, <3>1
  <2>3. ASSUME NEW r \in Residents, RevokeLoad(p, r) PROVE <1>3
    <3>1. /\ pc'[p] = "revoke_flush" /\ local'[p].resident = r /\ local'[p].seen_row = residents[r]
      BY <2>3 DEF RevokeLoad, Start, NoLocals
    <3> QED BY <1>2, <3>1
  <2>4. CASE RevokeFlush(p)
    <3>1. pc[p] = "revoke_flush" /\ pc'[p] = "revoke_commit" /\ local'[p] = local[p] /\ RevocationHeld(p)
      BY <2>4 DEF RevokeFlush, Step, Held
    <3> QED BY <1>2, <3>1
  <2>5. ASSUME NEW r \in Residents, NEW c \in Contacts, ContactLoad(p, r, c) PROVE <1>3
    <3>1. pc'[p] = "contact_flush" /\ local'[p].resident = r /\ residents[r].is_owner
      BY <2>5 DEF ContactLoad, Start, NoLocals
    <3> QED BY <1>2, <3>1
  <2>6. CASE ContactFlush(p)
    <3>1. pc[p] = "contact_flush" /\ pc'[p] = "contact_commit" /\ local'[p] = local[p] /\ ContactHeld(p)
      BY <2>6 DEF ContactFlush, Step, Held
    <3> QED BY <1>2, <3>1
  <2> QED BY <2>1, <2>2, <2>3, <2>4, <2>5, <2>6
<1> QED BY <1>3 DEF Held, AdmissionHeld, ResizeHeld, UnitHeld

LEMMA UnitMoves ==
    ASSUME OInv, NEW p \in Requests,
           \/ \E u \in Units, m \in Capacities : CreateInsert(p, u, m) \/ CapacityLoad(p, u, m)
           \/ CapacityCount(p) \/ CapacityFlush(p)
           \/ \E u \in Units : DeleteLoad(p, u)
           \/ DeleteCount(p) \/ DeleteFlush(p)
    PROVE  Held(p)'
<1> USE DEF OInv, IInv, TypeOK
<1>1. SUFFICES ASSUME ~Close(p) PROVE Held(p)'
  BY ClosedHeld
<1>2. /\ UNCHANGED <<units, residents>>
      /\ \A q \in Requests \ {p} : pc'[q] = pc[q] /\ local'[q] = local[q]
  BY <1>1 DEF CreateInsert, CapacityLoad, CapacityCount, CapacityFlush, DeleteLoad, DeleteCount,
              DeleteFlush, Rollback, Start, Step, rows
<1>3. /\ ResizeHeld(p)' /\ UnitHeld(p)'
      /\ pc'[p] \in {"create_commit", "capacity_count", "capacity_flush", "capacity_commit",
                     "delete_count", "delete_flush", "delete_commit"}
  <2> USE DEF ResizeHeld, UnitHeld
  <2>1. ASSUME NEW u \in Units, NEW m \in Capacities, CreateInsert(p, u, m) PROVE <1>3
    <3>1. pc'[p] = "create_commit" /\ local'[p].unit = u /\ FreshUnit(u)
      BY <2>1 DEF CreateInsert, Start, NoLocals
    <3> QED BY <1>2, <3>1 DEF FreshUnit
  <2>2. ASSUME NEW u \in Units, NEW m \in Capacities, CapacityLoad(p, u, m) PROVE <1>3
    <3>1. pc'[p] = "capacity_count" /\ local'[p].unit = u /\ units[u] # NULL
      BY <2>2, SentinelAssumption DEF CapacityLoad, Start, NoLocals, UnitExists
    <3> QED BY <1>2, <3>1
  <2>3. CASE CapacityCount(p)
    <3>1. /\ pc[p] = "capacity_count" /\ pc'[p] = "capacity_flush" /\ local' = local
          /\ ~CapacityTooSmall(p)
      BY <1>1, <2>3 DEF CapacityCount, Rollback, Step
    <3>2. local[p].unit \in Units /\ local[p].max \in Nat /\ units[local[p].unit] # NULL
      BY <3>1, CapacityAssumption DEF HandlersOK, CapacityOK, Held
    <3>3. ActiveResidentCount(local[p].unit) <= local[p].max
      BY <3>1, <3>2, Counting DEF CapacityTooSmall
    <3>4. ActiveResidentCount(local[p].unit)' = ActiveResidentCount(local[p].unit)
      BY <1>2, <3>1 DEF ActiveResidentCount, Occupants, ResidentsOf, ResidentExists
    <3> QED BY <1>2, <3>1, <3>2, <3>3, <3>4
  <2>4. CASE CapacityFlush(p)
    <3>1. /\ pc[p] = "capacity_flush" /\ pc'[p] = "capacity_commit" /\ local' = local
          /\ CapacityChanged(p) => UnitExists(local[p].unit) /\ ~UnitLocked(p, local[p].unit)
      BY <1>1, <2>4 DEF CapacityFlush, Rollback, Step
    <3>2. ResizeHeld(p) /\ units[local[p].unit] # NULL
      BY <3>1 DEF Held
    <3>3. /\ ActiveResidentCount(local[p].unit)' = ActiveResidentCount(local[p].unit)
          /\ UnitExists(local[p].unit)' = UnitExists(local[p].unit)
          /\ CapacityChanged(p)' = CapacityChanged(p)
      BY <1>2, <3>1 DEF ActiveResidentCount, Occupants, ResidentsOf, ResidentExists, UnitExists, CapacityChanged
    <3>4. CapacityChanged(p) => \A q \in Requests : pc'[q] = "delete_commit" => local'[q].unit # local[p].unit
      BY <1>2, <3>1 DEF UnitLocked, HoldsUnit, Deletes
    <3> QED BY <1>2, <3>1, <3>2, <3>3, <3>4
  <2>5. ASSUME NEW u \in Units, DeleteLoad(p, u) PROVE <1>3
    <3>1. pc'[p] = "delete_count" /\ local'[p].unit = u /\ units[u] # NULL
      BY <2>5, SentinelAssumption DEF DeleteLoad, Start, NoLocals, UnitExists
    <3> QED BY <1>2, <3>1
  <2>6. CASE DeleteCount(p) \/ DeleteFlush(p)
    <3>1. /\ pc[p] \in {"delete_count", "delete_flush"} /\ local' = local
          /\ pc'[p] \in {"delete_flush", "delete_commit"}
      BY <1>1, <2>6 DEF DeleteCount, DeleteFlush, Rollback, Step
    <3>2. units[local[p].unit] # NULL
      BY <3>1 DEF Held
    <3> QED BY <1>2, <3>1, <3>2
  <2> QED BY <2>1, <2>2, <2>3, <2>4, <2>5, <2>6
<1> QED BY <1>3 DEF Held, AdmissionHeld, ActivationHeld, RevocationHeld, ContactHeld

-----------------------------------------------------------------------------
(* What a handler holds while another one moves. *)

LEMMA OthersStandStill ==
    ASSUME IInv, NEW p \in Requests, Handler(p) \/ Fail(p), NEW q \in Requests, q # p
    PROVE  pc'[q] = pc[q] /\ local'[q] = local[q]
<1> USE DEF IInv, TypeOK
<1>1. CASE ResidentServiceNext(p)
  BY <1>1 DEF ResidentServiceNext, ProvisionLoadUnit, ProvisionCount, ProvisionBlocked, ProvisionOwner,
     ProvisionInsert, ProvisionCommit, RegisterLoadToken, RegisterLoadResident, RegisterFlush, RegisterToken,
     RegisterCommit, RevokeLoad, RevokeFlush, RevokeCommit, ContactLoad, ContactFlush, ContactCommit,
     Rollback, Start, Step, Close
<1>2. CASE UnitServiceNext(p) \/ CleanupServiceNext(p) \/ Fail(p)
  BY <1>2 DEF UnitServiceNext, CreateInsert, CreateCommit, CapacityLoad, CapacityCount, CapacityFlush,
     CapacityCommit, DeleteLoad, DeleteCount, DeleteFlush, DeleteCommit, CleanupServiceNext,
     CleanupBegin, CleanupTokens, CleanupRow, ScanOn, CleanupCommit, Fail, Rollback, Start, Step, Close
<1> QED BY <1>1, <1>2 DEF Handler

\* No handler creates the unit of q or deletes it from under a changed capacity.
UnitLeftTo(q) ==
    /\ pc[q] = "create_commit" =>
          \A p \in Requests : pc'[p] = "create_commit" /\ local'[p].unit = local[q].unit => p = q
    /\ pc[q] = "capacity_commit" /\ CapacityChanged(q) =>
          \A p \in Requests : pc'[p] = "delete_commit" => local'[p].unit # local[q].unit

LEMMA UnitIsLeft ==
    ASSUME OInv, NEW p \in Requests, Handler(p) \/ Fail(p), NEW q \in Requests, q # p
    PROVE  UnitLeftTo(q)
<1> USE DEF OInv, IInv, TypeOK
<1>1. \A o \in Requests \ {p} : pc'[o] = pc[o] /\ local'[o] = local[o]
  BY OthersStandStill
<1>2. /\ pc[q] = "create_commit" =>
            \A o \in Requests \ {p} : pc'[o] = "create_commit" /\ local'[o].unit = local[q].unit => o = q
      /\ pc[q] = "capacity_commit" /\ CapacityChanged(q) =>
            \A o \in Requests \ {p} : pc'[o] = "delete_commit" => local'[o].unit # local[q].unit
  BY <1>1 DEF Held, UnitHeld, ResizeHeld
<1>3. ASSUME pc'[p] = "create_commit" PROVE local'[p].unit # local[q].unit
  <2>1. PICK u \in Units, m \in Capacities : CreateInsert(p, u, m)
    BY <1>3 DEF Handler, ResidentServiceNext, ProvisionLoadUnit, ProvisionCount, ProvisionBlocked,
       ProvisionOwner, ProvisionInsert, ProvisionCommit, RegisterLoadToken, RegisterLoadResident,
       RegisterFlush, RegisterToken, RegisterCommit, RevokeLoad, RevokeFlush, RevokeCommit, ContactLoad, ContactFlush,
       ContactCommit, UnitServiceNext, CreateCommit, CapacityLoad, CapacityCount, CapacityFlush,
       CapacityCommit, DeleteLoad, DeleteCount, DeleteFlush, DeleteCommit, CleanupServiceNext,
       CleanupBegin, CleanupTokens, CleanupRow, ScanOn, CleanupCommit, Fail, Rollback, Start, Step, Close
  <2> QED BY <2>1 DEF CreateInsert, FreshUnit, Start, NoLocals
<1>4. ASSUME pc'[p] = "delete_commit", pc[q] = "capacity_commit", CapacityChanged(q)
      PROVE  local'[p].unit # local[q].unit
  <2>1. DeleteFlush(p)
    BY <1>4 DEF Handler, ResidentServiceNext, ProvisionLoadUnit, ProvisionCount, ProvisionBlocked,
       ProvisionOwner, ProvisionInsert, ProvisionCommit, RegisterLoadToken, RegisterLoadResident,
       RegisterFlush, RegisterToken, RegisterCommit, RevokeLoad, RevokeFlush, RevokeCommit, ContactLoad, ContactFlush,
       ContactCommit, UnitServiceNext, CreateInsert, CreateCommit, CapacityLoad, CapacityCount,
       CapacityFlush, CapacityCommit, DeleteLoad, DeleteCount, DeleteCommit, CleanupServiceNext,
       CleanupBegin, CleanupTokens, CleanupRow, ScanOn, CleanupCommit, Fail, Rollback, Start, Step, Close
  <2>2. ~UnitLocked(p, local[p].unit) /\ local'[p] = local[p]
    BY <1>4, <2>1 DEF DeleteFlush, Rollback, Close
  <2> QED BY <1>4, <2>2 DEF UnitLocked, HoldsUnit, Deletes
<1> QED BY <1>2, <1>3, <1>4 DEF UnitLeftTo

\* The residents of unit v, those who occupy it and its owner stay.
SameHouse(v) ==
    /\ ResidentsOf(v)' = ResidentsOf(v)
    /\ Occupants(v)' = Occupants(v)
    /\ HasOwner(v)' = HasOwner(v)

LEMMA HouseKept ==
    ASSUME NEW v,
           \A r \in Residents :
               \/ residents'[r] = residents[r]
               \/ /\ residents[r] # NULL /\ residents'[r] # NULL
                  /\ residents'[r].unit_id = residents[r].unit_id
                  /\ residents'[r].is_owner = residents[r].is_owner
                  /\ residents'[r].status = "revoked" <=> residents[r].status = "revoked"
               \/ /\ residents[r] = NULL \/ residents[r].unit_id # v
                  /\ residents'[r] = NULL \/ residents'[r].unit_id # v
    PROVE  SameHouse(v)
<1>1. ResidentsOf(v)' = ResidentsOf(v)
  BY DEF ResidentsOf, ResidentExists
<1>2. Occupants(v)' = Occupants(v)
  BY DEF Occupants, ResidentsOf, ResidentExists
<1>3. \A r \in Occupants(v) : residents'[r].is_owner = residents[r].is_owner
  BY DEF Occupants, ResidentsOf, ResidentExists
<1> QED BY <1>1, <1>2, <1>3 DEF SameHouse, HasOwner

\* What the commits of a registration, a revocation and a correction of contacts
\* make of a resident's row.
LEMMA UpdatedRow ==
    ASSUME OInv, NEW p \in Requests, RegisterCommit(p) \/ RevokeCommit(p) \/ ContactCommit(p)
    PROVE  /\ local[p].resident \in Residents /\ residents[local[p].resident] # NULL /\ units' = units
           /\ \A r \in Residents : r # local[p].resident => residents'[r] = residents[r]
           /\ residents'[local[p].resident] # NULL
           /\ residents'[local[p].resident].unit_id = residents[local[p].resident].unit_id
           /\ residents'[local[p].resident].is_owner = residents[local[p].resident].is_owner
           /\ RegisterCommit(p) =>
                 /\ residents[local[p].resident].status = "pending"
                 /\ residents'[local[p].resident].status = "active"
                 /\ residents'[local[p].resident].public_key \in Keys
                 /\ residents'[local[p].resident].revoked = residents[local[p].resident].revoked
           /\ RevokeCommit(p) =>
                 /\ residents'[local[p].resident].status = "revoked"
                 /\ residents'[local[p].resident].public_key = NULL
           /\ ContactCommit(p) =>
                 /\ residents'[local[p].resident].status = residents[local[p].resident].status
                 /\ residents'[local[p].resident].public_key = residents[local[p].resident].public_key
                 /\ residents'[local[p].resident].revoked = residents[local[p].resident].revoked
<1> DEFINE r == local[p].resident
<1>1. /\ r \in Residents /\ residents[r] # NULL /\ residents[r] \in ResidentRow
      /\ RegisterCommit(p) => local[p].key \in Keys
      /\ ContactCommit(p) => local[p].contact \in Contacts
  BY DEF OInv, IInv, TypeOK, HandlersOK, RegisterOK, RevokeOK, RegisterCommit, RevokeCommit,
         ContactCommit, ResidentExists
<1>2. units' = units
  BY DEF RegisterCommit, RevokeCommit, ContactCommit
<1>3. CASE RegisterCommit(p)
  <2> DEFINE row == [residents[r] EXCEPT !.status = "active", !.public_key = local[p].key]
  <2>1. residents' = [residents EXCEPT ![r] = row]
    BY <1>1, <1>3 DEF RegisterCommit, OInv, IInv, TypeOK
  <2>2. /\ row \in ResidentRow /\ row.unit_id = residents[r].unit_id
        /\ row.is_owner = residents[r].is_owner /\ row.status = "active"
        /\ row.public_key \in Keys /\ row.revoked = residents[r].revoked
    BY <1>1, <1>3 DEF ResidentRow, Statuses
  <2>3. residents[r].status = "pending" /\ pc[p] = "register_commit"
    BY <1>3 DEF RegisterCommit, OInv, Held, ActivationHeld
  <2> HIDE DEF row
  <2>4. residents'[r] = row /\ \A o \in Residents : o # r => residents'[o] = residents[o]
    BY <1>1, <2>1 DEF OInv, IInv, TypeOK
  <2> QED BY <1>1, <1>2, <1>3, <2>2, <2>3, <2>4, RowAssumption DEF RevokeCommit, ContactCommit
<1>4. CASE RevokeCommit(p)
  <2> DEFINE row == [residents[r] EXCEPT !.status = "revoked", !.public_key = NULL, !.revoked = TRUE]
  <2>1. residents' = [residents EXCEPT ![r] = row]
    BY <1>1, <1>4, RevokeImplements DEF Abstract!Revoke, OInv, IInv, TypeOK
  <2>2. /\ row \in ResidentRow /\ row.unit_id = residents[r].unit_id
        /\ row.is_owner = residents[r].is_owner /\ row.status = "revoked" /\ row.public_key = NULL
    BY <1>1 DEF ResidentRow, Statuses
  <2> HIDE DEF row
  <2>3. residents'[r] = row /\ \A o \in Residents : o # r => residents'[o] = residents[o]
    BY <1>1, <2>1 DEF OInv, IInv, TypeOK
  <2> QED BY <1>1, <1>2, <1>4, <2>2, <2>3, RowAssumption DEF RegisterCommit, RevokeCommit, ContactCommit
<1>5. CASE ContactCommit(p)
  <2>1. PICK c \in Contacts \cup {NULL} : residents' = [residents EXCEPT ![r].contact = c]
    BY <1>1, <1>5 DEF ContactCommit, ResidentRow
  <2> DEFINE row == [residents[r] EXCEPT !.contact = c]
  <2>2. /\ row \in ResidentRow /\ row.unit_id = residents[r].unit_id
        /\ row.is_owner = residents[r].is_owner /\ row.status = residents[r].status
        /\ row.public_key = residents[r].public_key /\ row.revoked = residents[r].revoked
    BY <1>1 DEF ResidentRow
  <2>3. residents'[r] = row /\ \A o \in Residents : o # r => residents'[o] = residents[o]
    BY <1>1, <2>1 DEF OInv, IInv, TypeOK
  <2> HIDE DEF row
  <2> QED BY <1>1, <1>2, <1>5, <2>2, <2>3, RowAssumption DEF RegisterCommit, RevokeCommit, ContactCommit
<1> QED BY <1>3, <1>4, <1>5

\* A registration or a correction leaves every house as it is; a revocation takes
\* at most the one who is revoked out of his.
LEMMA HouseAfterUpdate ==
    ASSUME OInv, NEW p \in Requests, RegisterCommit(p) \/ RevokeCommit(p) \/ ContactCommit(p), NEW v
    PROVE  /\ ResidentsOf(v)' = ResidentsOf(v)
           /\ \/ SameHouse(v)
              \/ /\ RevokeCommit(p) /\ local[p].resident \in Occupants(v)
                 /\ Occupants(v)' = Occupants(v) \ {local[p].resident}
                 /\ ~residents[local[p].resident].is_owner => HasOwner(v)' = HasOwner(v)
<1> DEFINE r == local[p].resident
<1>1. /\ r \in Residents /\ residents[r] # NULL /\ residents'[r] # NULL
      /\ \A o \in Residents : o # r => residents'[o] = residents[o]
      /\ residents'[r].unit_id = residents[r].unit_id
      /\ residents'[r].is_owner = residents[r].is_owner
  BY UpdatedRow
<1>2. CASE RegisterCommit(p) \/ ContactCommit(p)
  <2>1. residents'[r].status = "revoked" <=> residents[r].status = "revoked"
    BY <1>2, UpdatedRow
  <2>2. SameHouse(v)
    BY <1>1, <2>1, HouseKept
  <2> QED BY <2>2 DEF SameHouse
<1>3. CASE RevokeCommit(p) /\ r \notin Occupants(v)
  <2>1. residents'[r].status = "revoked"
    BY <1>3, UpdatedRow
  <2>2. residents[r].unit_id # v \/ residents[r].status = "revoked"
    BY <1>1, <1>3 DEF Occupants, ResidentsOf, ResidentExists
  <2>3. SameHouse(v)
    BY <1>1, <2>1, <2>2, HouseKept
  <2> QED BY <2>3 DEF SameHouse
<1>4. CASE RevokeCommit(p) /\ r \in Occupants(v)
  <2>1. residents'[r].status = "revoked"
    BY <1>4, UpdatedRow
  <2>2. ResidentsOf(v)' = ResidentsOf(v)
    BY <1>1 DEF ResidentsOf, ResidentExists
  <2>3. Occupants(v)' = Occupants(v) \ {r}
    BY <1>1, <2>1, <2>2 DEF Occupants, ResidentsOf
  <2>4. \A o \in Occupants(v) : residents'[o].is_owner = residents[o].is_owner
    BY <1>1 DEF Occupants, ResidentsOf
  <2>5. ~residents[r].is_owner => HasOwner(v)' = HasOwner(v)
    BY <1>4, <2>3, <2>4 DEF HasOwner
  <2> QED BY <1>4, <2>2, <2>3, <2>5
<1> QED BY <1>2, <1>3, <1>4

LEMMA HouseAfterProvision ==
    ASSUME OInv, NEW p \in Requests, ProvisionCommit(p),
           NEW u, u = local[p].unit, NEW r, r = local[p].resident
    PROVE  /\ u \in Units /\ r \in Residents /\ residents[r] = NULL /\ r \notin ResidentsOf(u)
           /\ \A v : v # u => SameHouse(v)
           /\ ResidentsOf(u)' = ResidentsOf(u) \cup {r}
           /\ Occupants(u)' = Occupants(u) \cup {r}
           /\ \A o \in Residents : o # r => residents'[o] = residents[o]
           /\ residents'[r] # NULL
           /\ residents'[r].status = "pending" /\ residents'[r].public_key = NULL
           /\ residents'[r].is_owner = local[p].is_owner /\ residents'[r].revoked = FALSE
<1> DEFINE row == [unit_id |-> u, status |-> "pending", public_key |-> NULL,
                   is_owner |-> local[p].is_owner, contact |-> local[p].contact, revoked |-> FALSE]
<1>1. r \in Residents /\ residents[r] = NULL /\ u \in Units /\ local[p].contact \in Contacts \cup {NULL}
  BY DEF OInv, IInv, HandlersOK, ProvisionOK, ResidentExists, ProvisionCommit
<1>2. /\ row \in ResidentRow /\ row.unit_id = u /\ row.status = "pending" /\ row.public_key = NULL
      /\ row.is_owner = local[p].is_owner /\ row.revoked = FALSE
  BY <1>1 DEF ResidentRow, Statuses, OInv, IInv, TypeOK, Locals
<1>3. residents' = [residents EXCEPT ![r] = row]
  BY DEF ProvisionCommit
<1> HIDE DEF row
<1>4. residents'[r] = row /\ \A o \in Residents : o # r => residents'[o] = residents[o]
  BY <1>1, <1>3 DEF OInv, IInv, TypeOK
<1>5. row # NULL
  BY <1>2, RowAssumption
<1>6. ASSUME NEW v, v # u PROVE SameHouse(v)
  BY <1>1, <1>2, <1>4, <1>5, <1>6, HouseKept
<1>7. ResidentsOf(u)' = ResidentsOf(u) \cup {r} /\ r \notin ResidentsOf(u)
  BY <1>1, <1>2, <1>4, <1>5 DEF ResidentsOf, ResidentExists
<1>8. Occupants(u)' = Occupants(u) \cup {r}
  BY <1>1, <1>2, <1>4, <1>7 DEF Occupants, ResidentsOf
<1> QED BY <1>1, <1>2, <1>4, <1>5, <1>6, <1>7, <1>8

\* A unit has as many residents as provisions have committed.
LEMMA StillFew == ASSUME OInv, [Next]_vars PROVE FewResidents'
<1> SUFFICES ASSUME NEW v \in Units PROVE IsFiniteSet(ResidentsOf(v)')
  BY DEF FewResidents
<1>1. IsFiniteSet(ResidentsOf(v))
  BY DEF OInv, FewResidents
<1>2. CASE residents' = residents
  BY <1>1, <1>2 DEF ResidentsOf, ResidentExists
<1>3. ASSUME NEW p \in Requests, ProvisionCommit(p) PROVE IsFiniteSet(ResidentsOf(v)')
  <2>1. PICK u, r : u = local[p].unit /\ r = local[p].resident
    OBVIOUS
  <2>2. ResidentsOf(v)' \in {ResidentsOf(v), ResidentsOf(v) \cup {r}}
    <3>1. (v # u => SameHouse(v)) /\ ResidentsOf(u)' = ResidentsOf(u) \cup {r}
      BY <1>3, <2>1, HouseAfterProvision
    <3>2. CASE v = u
      BY <3>1, <3>2
    <3>3. CASE v # u
      BY <3>1, <3>3 DEF SameHouse
    <3> QED BY <3>2, <3>3
  <2>3. IsFiniteSet(ResidentsOf(v) \cup {r})
    BY <1>1, FS_AddElement
  <2> QED BY <1>1, <2>2, <2>3
<1>4. ASSUME NEW p \in Requests, RegisterCommit(p) \/ RevokeCommit(p) \/ ContactCommit(p)
      PROVE  IsFiniteSet(ResidentsOf(v)')
  BY <1>1, <1>4, HouseAfterUpdate
<1>5. ASSUME NEW p \in Requests, CleanupCommit(p) PROVE residents' = residents
  BY <1>5 DEF CleanupCommit
<1> QED BY <1>2, <1>3, <1>4, <1>5, RowsChangeAtCommit

\* What q holds is kept by a step that leaves alone what q relies on.
LEMMA HeldKept ==
    ASSUME OInv, NEW q \in Requests, pc'[q] = pc[q], local'[q] = local[q], UnitLeftTo(q),
           NEW v, v = local[q].unit, NEW s, s = local[q].resident,
           v \in Units => ActiveResidentCount(v)' \in Nat,
           v \in Units /\ UnitExists(v)' => UnitExists(v) \/ units[v] = NULL,
           v \in Units /\ units'[v] = NULL => units[v] = NULL,
           pc[q] \in {"provision_count", "provision_owner", "provision_insert", "provision_commit"} =>
               /\ UnitExists(v)' => units'[v] = units[v]
               /\ ActiveResidentCount(v)' <= ActiveResidentCount(v)
               /\ HasOwner(v)' = HasOwner(v),
           pc[q] \in {"register_flush", "register_token", "register_commit"} => residents'[s].status = residents[s].status,
           pc[q] \in {"revoke_flush", "revoke_commit"} =>
               /\ residents[s].status = "revoked" => residents'[s].status = "revoked"
               /\ residents[s].public_key = NULL => residents'[s].public_key = NULL,
           pc[q] \in {"contact_flush", "contact_commit"} => residents'[s].is_owner = residents[s].is_owner,
           pc[q] \in {"capacity_flush", "capacity_commit"} =>
               /\ ActiveResidentCount(v)' <= ActiveResidentCount(v)
               /\ pc[q] = "capacity_commit" /\ CapacityChanged(q) /\ UnitExists(v) => UnitExists(v)',
           pc[q] = "create_commit" => units'[v] = NULL
    PROVE  Held(q)'
<1>1. /\ UnitExists(local[q].unit)' = UnitExists(v)'
      /\ ActiveResidentCount(local[q].unit)' = ActiveResidentCount(v)'
      /\ HasOwner(local[q].unit)' = HasOwner(v)'
      /\ ContactAllowed(q)' = IF HasOwner(v)' THEN local[q].contact = NULL ELSE local[q].contact \in Contacts
      /\ CapacityChanged(q)' = CapacityChanged(q)
  BY DEF UnitExists, ActiveResidentCount, HasOwner, Occupants, ResidentsOf, ResidentExists,
         ContactAllowed, CapacityChanged
<1>2. Held(q)
  BY DEF OInv
<1>3. v \in Units => ActiveResidentCount(v) \in Nat
  BY Counting DEF OInv
<1>4. pc[q] \in {"provision_count", "provision_blocked", "provision_owner", "provision_insert",
                "provision_commit", "capacity_count", "capacity_flush", "capacity_commit",
                "delete_count", "delete_flush", "delete_commit"} =>
         v \in Units /\ units[v] # NULL /\ (UnitExists(v)' => UnitExists(v))
  <2>1. pc[q] \in {"provision_count", "provision_blocked", "provision_owner", "provision_insert",
                "provision_commit", "capacity_count", "capacity_flush", "capacity_commit",
                "delete_count", "delete_flush", "delete_commit"} => v \in Units
    BY UnitOfHandler DEF OInv
  <2> QED BY <1>2, <2>1 DEF Held, UnitHeld
<1>5. AdmissionHeld(q)'
  <2>1. AdmissionHeld(q)
    BY <1>2 DEF Held
  <2>2. ASSUME pc[q] = "provision_count", UnitExists(v)' PROVE local[q].seen_max = units'[v]
    BY <1>4, <2>1, <2>2 DEF AdmissionHeld
  <2>3. ASSUME pc[q] \in {"provision_owner", "provision_insert", "provision_commit"}, UnitExists(v)'
        PROVE  ActiveResidentCount(v)' < units'[v]
    <3>1. ActiveResidentCount(v) < units[v] /\ units'[v] = units[v]
      BY <1>4, <2>1, <2>3 DEF AdmissionHeld
    <3>2. units[v] \in Nat
      BY <1>4, <2>3, CapacityAssumption DEF UnitExists
    <3>3. /\ ActiveResidentCount(v)' <= ActiveResidentCount(v)
          /\ ActiveResidentCount(v) \in Nat /\ ActiveResidentCount(v)' \in Nat
      BY <1>3, <1>4, <2>3
    <3> QED BY <3>1, <3>2, <3>3
  <2>4. ASSUME pc[q] \in {"provision_insert", "provision_commit"}
        PROVE  /\ local[q].is_owner = ~HasOwner(v)'
               /\ IF HasOwner(v)' THEN local[q].contact = NULL ELSE local[q].contact \in Contacts
    <3>1. local[q].is_owner = ~HasOwner(v) /\ ContactAllowed(q)
      BY <2>1, <2>4 DEF AdmissionHeld
    <3>2. HasOwner(v)' = HasOwner(v)
      BY <2>4
    <3> QED BY <3>1, <3>2 DEF ContactAllowed
  <2> QED BY <1>1, <2>2, <2>3, <2>4 DEF AdmissionHeld
<1>6. ActivationHeld(q)' /\ RevocationHeld(q)' /\ ContactHeld(q)'
  BY <1>2 DEF Held, ActivationHeld, RevocationHeld, ContactHeld
<1>7. ResizeHeld(q)'
  <2>1. ResizeHeld(q)
    BY <1>2 DEF Held
  <2>2. ASSUME pc[q] \in {"capacity_flush", "capacity_commit"}, UnitExists(v)'
        PROVE  ActiveResidentCount(v)' <= local[q].max
    <3>1. ActiveResidentCount(v) <= local[q].max
      BY <1>4, <2>1, <2>2 DEF ResizeHeld
    <3>2. local[q].max \in Nat
      BY <2>2, CapacityAssumption DEF OInv, IInv, HandlersOK, CapacityOK
    <3>3. /\ ActiveResidentCount(v)' <= ActiveResidentCount(v)
          /\ ActiveResidentCount(v) \in Nat /\ ActiveResidentCount(v)' \in Nat
      BY <1>3, <1>4, <2>2
    <3> QED BY <3>1, <3>2, <3>3
  <2>3. ASSUME pc[q] = "capacity_commit", CapacityChanged(q)
        PROVE  /\ UnitExists(v)'
               /\ \A p \in Requests : pc'[p] = "delete_commit" => local'[p].unit # v
    BY <2>1, <2>3 DEF ResizeHeld, UnitLeftTo
  <2> QED BY <1>1, <2>2, <2>3 DEF ResizeHeld
<1>8. UnitHeld(q)'
  <2>1. UnitHeld(q)
    BY <1>2 DEF Held
  <2> QED BY <1>4, <2>1 DEF UnitHeld, UnitLeftTo
<1> QED BY <1>5, <1>6, <1>7, <1>8 DEF Held

LEMMA HeldWhileQuiet ==
    ASSUME OInv, NEW q \in Requests, pc'[q] = pc[q], local'[q] = local[q], UnitLeftTo(q),
           UNCHANGED <<units, residents>>
    PROVE  Held(q)'
<1>1. PICK v, s : v = local[q].unit /\ s = local[q].resident
  OBVIOUS
<1>2. /\ UnitExists(v)' = UnitExists(v) /\ HasOwner(v)' = HasOwner(v)
      /\ ActiveResidentCount(v)' = ActiveResidentCount(v)
  BY DEF UnitExists, ActiveResidentCount, HasOwner, Occupants, ResidentsOf, ResidentExists
<1>3. v \in Units => ActiveResidentCount(v) \in Nat
  BY Counting DEF OInv
<1>4. pc[q] \in {"provision_count", "provision_owner", "provision_insert", "provision_commit",
                "capacity_flush", "capacity_commit"} => v \in Units
  BY <1>1, UnitOfHandler DEF OInv
<1>5. ActiveResidentCount(v)' <= ActiveResidentCount(v) \/ v \notin Units
  BY <1>2, <1>3
<1>6. pc[q] = "create_commit" => units[v] = NULL
  BY <1>1 DEF OInv, Held, UnitHeld
<1> QED BY <1>1, <1>2, <1>3, <1>4, <1>5, <1>6, HeldKept

\* While a registration, a revocation or a correction commits: NoConflict is what
\* keeps it off the resident and the unit that q has looked at.
LEMMA HeldUnderUpdate ==
    ASSUME OInv, NEW p \in Requests, RegisterCommit(p) \/ RevokeCommit(p) \/ ContactCommit(p),
           NEW q \in Requests, q # p, pc'[q] = pc[q], local'[q] = local[q], UnitLeftTo(q)
    PROVE  Held(q)'
<1>1. PICK v, s : v = local[q].unit /\ s = local[q].resident
  OBVIOUS
<1>2. PICK r : r = local[p].resident
  OBVIOUS
<1>3. /\ r \in Residents /\ residents[r] # NULL /\ units' = units
      /\ \A o \in Residents : o # r => residents'[o] = residents[o]
      /\ residents'[r].is_owner = residents[r].is_owner
  BY <1>2, UpdatedRow
<1>4. ~Conflict(p, q) /\ ~Conflict(q, p)
  BY DEF OInv, NoConflict
<1>5. pc[q] \in {"register_flush", "register_token", "register_commit"} => residents'[s].status = residents[s].status
  <2>1. SUFFICES ASSUME pc[q] \in {"register_flush", "register_token", "register_commit"}
                 PROVE  residents'[s].status = residents[s].status
    OBVIOUS
  <2>2. s \in Residents /\ Activates(q, s)
    BY <1>1, <2>1 DEF OInv, IInv, HandlersOK, RegisterOK, Activates
  <2>3. CASE s # r
    BY <1>3, <2>2, <2>3
  <2>4. CASE s = r /\ ContactCommit(p)
    BY <1>2, <2>4, UpdatedRow
  <2>5. CASE s = r /\ (RegisterCommit(p) \/ RevokeCommit(p))
    <3>1. Activates(p, s) \/ Revokes(p, s)
      BY <1>2, <2>5 DEF RegisterCommit, RevokeCommit, Activates, Revokes
    <3> QED BY <1>4, <2>2, <3>1 DEF Conflict
  <2> QED BY <2>3, <2>4, <2>5
<1>6. pc[q] \in {"revoke_flush", "revoke_commit"} =>
         /\ residents[s].status = "revoked" => residents'[s].status = "revoked"
         /\ residents[s].public_key = NULL => residents'[s].public_key = NULL
  <2>1. SUFFICES ASSUME pc[q] \in {"revoke_flush", "revoke_commit"}
                 PROVE  /\ residents[s].status = "revoked" => residents'[s].status = "revoked"
                        /\ residents[s].public_key = NULL => residents'[s].public_key = NULL
    OBVIOUS
  <2>2. s \in Residents /\ Revokes(q, s)
    BY <1>1, <2>1 DEF OInv, IInv, HandlersOK, RevokeOK, Revokes
  <2>3. CASE s # r
    BY <1>3, <2>2, <2>3
  <2>4. CASE s = r /\ (ContactCommit(p) \/ RevokeCommit(p))
    BY <1>2, <2>4, UpdatedRow
  <2>5. CASE s = r /\ RegisterCommit(p)
    <3>1. Activates(p, s)
      BY <1>2, <2>5 DEF RegisterCommit, Activates
    <3> QED BY <1>4, <2>2, <3>1 DEF Conflict
  <2> QED BY <2>3, <2>4, <2>5
<1>7. pc[q] \in {"contact_flush", "contact_commit"} => residents'[s].is_owner = residents[s].is_owner
  <2>1. pc[q] \in {"contact_flush", "contact_commit"} => s \in Residents
    BY <1>1 DEF OInv, IInv, HandlersOK, RevokeOK
  <2> QED BY <1>3, <2>1
<1>8. v \in Units => /\ ActiveResidentCount(v) \in Nat /\ ActiveResidentCount(v)' \in Nat
                     /\ ActiveResidentCount(v)' <= ActiveResidentCount(v)
  <2>1. SUFFICES ASSUME v \in Units
                 PROVE  /\ ActiveResidentCount(v) \in Nat /\ ActiveResidentCount(v)' \in Nat
                        /\ ActiveResidentCount(v)' <= ActiveResidentCount(v)
    OBVIOUS
  <2>2. IsFiniteSet(Occupants(v)) /\ ActiveResidentCount(v) \in Nat
    BY <2>1, Counting DEF OInv
  <2>3. Occupants(v)' \in SUBSET Occupants(v)
    BY HouseAfterUpdate DEF SameHouse
  <2>4. IsFiniteSet(Occupants(v)') /\ Cardinality(Occupants(v)') <= Cardinality(Occupants(v))
    BY <2>2, <2>3, FS_Subset
  <2> QED BY <2>2, <2>4, FS_CardinalityType DEF ActiveResidentCount
<1>9. pc[q] \in {"provision_count", "provision_owner", "provision_insert", "provision_commit"} =>
         HasOwner(v)' = HasOwner(v)
  <2>1. SUFFICES ASSUME pc[q] \in {"provision_count", "provision_owner", "provision_insert", "provision_commit"}
                 PROVE  HasOwner(v)' = HasOwner(v)
    OBVIOUS
  <2>2. v \in Units /\ Admits(q, v)
    BY <1>1, <2>1, UnitOfHandler DEF OInv, Admits
  <2>3. CASE RevokeCommit(p) /\ r \in Occupants(v)
    <3>1. Revokes(p, r)
      BY <1>2, <2>3 DEF RevokeCommit, Revokes
    <3>2. ~residents[r].is_owner
      BY <1>4, <2>2, <2>3, <3>1 DEF Conflict
    <3> QED BY <1>2, <3>2, HouseAfterUpdate DEF SameHouse
  <2>4. CASE ~(RevokeCommit(p) /\ r \in Occupants(v))
    BY <1>2, <2>4, HouseAfterUpdate DEF SameHouse
  <2> QED BY <2>3, <2>4
<1>10. pc[q] \in {"provision_count", "provision_owner", "provision_insert", "provision_commit",
                 "capacity_flush", "capacity_commit"} => v \in Units
  BY <1>1, UnitOfHandler DEF OInv
<1>11. UnitExists(v)' = UnitExists(v)
  BY <1>3 DEF UnitExists
<1>12. pc[q] = "create_commit" => units'[v] = NULL
  BY <1>1, <1>3 DEF OInv, Held, UnitHeld
<1> QED BY <1>1, <1>3, <1>5, <1>6, <1>7, <1>8, <1>9, <1>10, <1>11, <1>12, HeldKept

\* While a provision commits: nobody else is admitting to its unit or resizing it.
LEMMA HeldUnderProvision ==
    ASSUME OInv, NEW p \in Requests, ProvisionCommit(p), [Next]_vars,
           NEW q \in Requests, q # p, pc'[q] = pc[q], local'[q] = local[q], UnitLeftTo(q)
    PROVE  Held(q)'
<1>1. PICK v, s : v = local[q].unit /\ s = local[q].resident
  OBVIOUS
<1>2. PICK u, r : u = local[p].unit /\ r = local[p].resident
  OBVIOUS
<1>3. /\ u \in Units /\ r \in Residents /\ residents[r] = NULL /\ units' = units
      /\ \A w : w # u => SameHouse(w)
      /\ \A o \in Residents : o # r => residents'[o] = residents[o]
  <2>1. units' = units
    BY DEF ProvisionCommit
  <2>2. /\ u \in Units /\ r \in Residents /\ residents[r] = NULL
    BY <1>2, HouseAfterProvision
  <2>4. ASSUME NEW o \in Residents, o # r PROVE residents'[o] = residents[o]
    BY <1>2, <2>4 DEF ProvisionCommit, OInv, IInv, TypeOK
  <2>3. ASSUME NEW w, w # u PROVE SameHouse(w)
    BY <1>2, <2>3, HouseAfterProvision
  <2> QED BY <2>1, <2>2, <2>3, <2>4
<1>4. ~Conflict(p, q) /\ Admits(p, u)
  BY <1>2 DEF OInv, NoConflict, ProvisionCommit, Admits
<1>5. pc[q] \in {"register_flush", "register_token", "register_commit", "revoke_flush", "revoke_commit",
                "contact_flush", "contact_commit"} => residents'[s] = residents[s]
  <2>1. pc[q] \in {"register_flush", "register_token", "register_commit", "revoke_flush", "revoke_commit",
                "contact_flush", "contact_commit"} => s \in Residents /\ residents[s] # NULL
    BY <1>1 DEF OInv, IInv, HandlersOK, RegisterOK, RevokeOK, ResidentExists
  <2> QED BY <1>3, <2>1
<1>6. pc[q] \in {"provision_count", "provision_owner", "provision_insert", "provision_commit",
                "capacity_flush", "capacity_commit"} =>
         /\ v \in Units /\ SameHouse(v)
         /\ ActiveResidentCount(v)' <= ActiveResidentCount(v)
  <2>1. SUFFICES ASSUME pc[q] \in {"provision_count", "provision_owner", "provision_insert",
                                  "provision_commit", "capacity_flush", "capacity_commit"}
                 PROVE  /\ v \in Units /\ SameHouse(v)
                        /\ ActiveResidentCount(v)' <= ActiveResidentCount(v)
    OBVIOUS
  <2>2. v \in Units /\ (Admits(q, v) \/ Resizes(q, v))
    BY <1>1, <2>1, UnitOfHandler DEF OInv, Admits, Resizes
  <2>3. v # u
    BY <1>4, <2>2 DEF Conflict
  <2>4. SameHouse(v)
    BY <1>3, <2>3
  <2>5. ActiveResidentCount(v)' = ActiveResidentCount(v) /\ ActiveResidentCount(v) \in Nat
    BY <2>2, <2>4, Counting DEF OInv, SameHouse, ActiveResidentCount
  <2> QED BY <2>2, <2>4, <2>5
<1>7. v \in Units => ActiveResidentCount(v)' \in Nat
  <2>1. ASSUME v \in Units PROVE ActiveResidentCount(v)' \in Nat
    <3>1. Occupants(v)' \in SUBSET ResidentsOf(v)'
      BY DEF Occupants
    <3>2. IsFiniteSet(Occupants(v)')
      BY <2>1, <3>1, StillFew, FS_Subset DEF FewResidents
    <3> QED BY <3>2, FS_CardinalityType DEF ActiveResidentCount
  <2> QED BY <2>1
<1>8. UnitExists(v)' = UnitExists(v)
  BY <1>3 DEF UnitExists
<1>9. pc[q] = "create_commit" => units'[v] = NULL
  BY <1>1, <1>3 DEF OInv, Held, UnitHeld
<1> QED BY <1>1, <1>3, <1>5, <1>6, <1>7, <1>8, <1>9, HeldKept DEF SameHouse

\* While a unit is created, given another capacity or deleted.
LEMMA HeldUnderUnit ==
    ASSUME OInv, NEW p \in Requests, CreateCommit(p) \/ CapacityCommit(p) \/ DeleteCommit(p),
           NEW q \in Requests, q # p, pc'[q] = pc[q], local'[q] = local[q], UnitLeftTo(q)
    PROVE  Held(q)'
<1>1. PICK v, s : v = local[q].unit /\ s = local[q].resident
  OBVIOUS
<1>2. PICK u, m : /\ u = local[p].unit
                  /\ m = (IF DeleteCommit(p) THEN DELETED ELSE local[p].max)
  OBVIOUS
<1>3. pc[p] = "create_commit" \/ pc[p] = "capacity_commit" \/ pc[p] = "delete_commit"
  BY DEF CreateCommit, CapacityCommit, DeleteCommit
<1>4. /\ u \in Units /\ m \in Capacities \cup {DELETED} /\ residents' = residents
      /\ units' = units \/ units' = [units EXCEPT ![u] = m]
  BY <1>2, <1>3 DEF OInv, IInv, HandlersOK, CapacityOK, DeleteOK, CreateCommit, CapacityCommit, DeleteCommit
<1>5. CASE units' = units
  BY <1>4, <1>5, HeldWhileQuiet
<1>6. CASE units' # units
  <2>1. /\ units' = [units EXCEPT ![u] = m] /\ units'[u] = m
        /\ \A w \in Units : w # u => units'[w] = units[w]
    BY <1>4, <1>6 DEF OInv, IInv, TypeOK
  <2>2. HasOwner(v)' = HasOwner(v) /\ ActiveResidentCount(v)' = ActiveResidentCount(v)
    BY <1>4 DEF ActiveResidentCount, HasOwner, Occupants, ResidentsOf, ResidentExists
  <2>3. v \in Units => ActiveResidentCount(v) \in Nat
    BY Counting DEF OInv
  <2>4. v \in Units /\ UnitExists(v)' => UnitExists(v) \/ units[v] = NULL
    <3>1. ASSUME v \in Units, UnitExists(v)', v = u PROVE UnitExists(v) \/ units[v] = NULL
      <4>1. CASE CreateCommit(p)
        BY <1>2, <3>1, <4>1 DEF OInv, Held, UnitHeld, CreateCommit
      <4>2. CASE CapacityCommit(p)
        BY <1>2, <1>6, <3>1, <4>2 DEF OInv, Held, ResizeHeld, CapacityCommit
      <4>3. CASE DeleteCommit(p)
        BY <1>2, <2>1, <3>1, <4>3, SentinelAssumption DEF UnitExists
      <4> QED BY <4>1, <4>2, <4>3
    <3> QED BY <2>1, <3>1 DEF UnitExists
  <2>5. v \in Units /\ units'[v] = NULL => units[v] = NULL
    BY <1>4, <2>1, SentinelAssumption
  <2>6. pc[q] \in {"provision_count", "provision_owner", "provision_insert", "provision_commit"} =>
           /\ v \in Units
           /\ UnitExists(v)' => units'[v] = units[v]
    <3>1. SUFFICES ASSUME pc[q] \in {"provision_count", "provision_owner", "provision_insert", "provision_commit"}
                   PROVE  /\ v \in Units
                          /\ UnitExists(v)' => units'[v] = units[v]
      OBVIOUS
    <3>2. v \in Units /\ units[v] # NULL /\ Admits(q, v)
      BY <1>1, <3>1, UnitOfHandler DEF OInv, Held, UnitHeld, Admits
    <3>3. CASE v # u
      BY <2>1, <3>2, <3>3
    <3>4. CASE v = u /\ CreateCommit(p)
      BY <1>2, <3>2, <3>4 DEF OInv, Held, UnitHeld, CreateCommit
    <3>5. CASE v = u /\ CapacityCommit(p)
      <4>1. Resizes(p, v) /\ ~Conflict(q, p)
        BY <1>2, <3>5 DEF Resizes, CapacityCommit, OInv, NoConflict
      <4> QED BY <3>2, <4>1 DEF Conflict
    <3>6. CASE v = u /\ DeleteCommit(p)
      BY <1>2, <2>1, <3>2, <3>6, SentinelAssumption DEF UnitExists
    <3> QED BY <3>3, <3>4, <3>5, <3>6
  <2>7. pc[q] \in {"capacity_flush", "capacity_commit"} => v \in Units
    BY <1>1, UnitOfHandler DEF OInv
  <2>8. pc[q] = "capacity_commit" /\ CapacityChanged(q) /\ UnitExists(v) => UnitExists(v)'
    <3>1. SUFFICES ASSUME pc[q] = "capacity_commit", CapacityChanged(q), UnitExists(v) PROVE UnitExists(v)'
      OBVIOUS
    <3>2. CASE DeleteCommit(p)
      <4>1. v # u
        BY <1>1, <1>2, <3>1, <3>2 DEF DeleteCommit, OInv, Held, ResizeHeld
      <4> QED BY <2>1, <2>7, <3>1, <4>1 DEF UnitExists
    <3>3. CASE ~DeleteCommit(p)
      <4>1. m \in Capacities
        BY <1>2, <1>3, <3>3 DEF OInv, IInv, HandlersOK, CapacityOK, CreateCommit, CapacityCommit, DeleteCommit
      <4> QED BY <2>1, <2>7, <3>1, <4>1 DEF UnitExists
    <3> QED BY <3>2, <3>3
  <2>9. pc[q] = "create_commit" => units'[v] = NULL
    <3>1. SUFFICES ASSUME pc[q] = "create_commit" PROVE units'[v] = NULL
      OBVIOUS
    <3>2. v \in Units /\ units[v] = NULL
      BY <1>1, <3>1, UnitOfHandler DEF OInv, Held, UnitHeld
    <3>3. v # u
      <4>1. CASE CreateCommit(p)
        BY <1>1, <1>2, <3>1, <4>1 DEF OInv, Held, UnitHeld, CreateCommit
      <4>2. CASE CapacityCommit(p)
        <5>1. UnitExists(u)
          BY <1>2, <1>6, <4>2 DEF OInv, Held, ResizeHeld, CapacityCommit
        <5> QED BY <3>2, <5>1, SentinelAssumption DEF UnitExists
      <4>3. CASE DeleteCommit(p)
        BY <1>2, <3>2, <4>3 DEF OInv, Held, UnitHeld, DeleteCommit
      <4> QED BY <4>1, <4>2, <4>3
    <3> QED BY <2>1, <3>2, <3>3
  <2>10. ActiveResidentCount(v)' <= ActiveResidentCount(v) \/ v \notin Units
    BY <2>2, <2>3
  <2> QED BY <1>1, <1>4, <2>2, <2>3, <2>4, <2>5, <2>6, <2>7, <2>8, <2>9, <2>10, HeldKept
<1> QED BY <1>5, <1>6

-----------------------------------------------------------------------------
(* The inductive invariant. *)

LEMMA QuietOrCommit ==
    ASSUME NEW p, Handler(p) \/ Fail(p)
    PROVE  \/ UNCHANGED <<units, residents>>
           \/ ProvisionCommit(p)
           \/ RegisterCommit(p) \/ RevokeCommit(p) \/ ContactCommit(p)
           \/ CreateCommit(p) \/ CapacityCommit(p) \/ DeleteCommit(p)
BY DEF Handler, ResidentServiceNext, ProvisionLoadUnit, ProvisionCount, ProvisionBlocked,
   ProvisionOwner, ProvisionInsert, RegisterLoadToken, RegisterLoadResident, RegisterFlush, RegisterToken,
   RevokeLoad, RevokeFlush, ContactLoad, ContactFlush, UnitServiceNext, CreateInsert, CapacityLoad,
   CapacityCount, CapacityFlush, DeleteLoad, DeleteCount, DeleteFlush, CleanupServiceNext,
   CleanupBegin, CleanupTokens, CleanupRow, ScanOn, CleanupCommit, Fail, Rollback, Start, Step, rows

LEMMA ActorHeld ==
    ASSUME OInv, NEW p \in Requests, Handler(p) \/ Fail(p)
    PROVE  Held(p)'
<1>1. CASE ResidentServiceNext(p)
  <2>1. CASE ProvisionBlocked(p) \/ ProvisionCommit(p) \/ RegisterCommit(p) \/ RevokeCommit(p) \/ ContactCommit(p)
    BY <2>1, ClosedHeld DEF ProvisionBlocked, Rollback, ProvisionCommit, RegisterCommit, RevokeCommit, ContactCommit
  <2> QED BY <1>1, <2>1, AdmissionMoves, ResidentMoves DEF ResidentServiceNext
<1>2. CASE UnitServiceNext(p)
  <2>1. CASE CreateCommit(p) \/ CapacityCommit(p) \/ DeleteCommit(p)
    BY <2>1, ClosedHeld DEF CreateCommit, CapacityCommit, DeleteCommit
  <2> QED BY <1>2, <2>1, UnitMoves DEF UnitServiceNext
<1>3. CASE CleanupServiceNext(p)
  <2>1. pc'[p] \in {"cleanup_tokens", "cleanup_rows", "cleanup_audit", "idle"}
    <3>1. CASE CleanupTokens(p) \/ CleanupRow(p)
      BY <3>1, ScanStep DEF OInv, PurgeSteps
    <3>2. CASE CleanupBegin(p) \/ CleanupCommit(p)
      BY <3>2 DEF CleanupBegin, CleanupCommit, Start, Close, OInv, IInv, TypeOK
    <3> QED BY <1>3, <3>1, <3>2 DEF CleanupServiceNext
  <2> QED BY <2>1 DEF Held, AdmissionHeld, ActivationHeld, RevocationHeld, ContactHeld, ResizeHeld, UnitHeld
<1>4. CASE Fail(p)
  BY <1>4, ClosedHeld DEF Fail, Rollback
<1> QED BY <1>1, <1>2, <1>3, <1>4 DEF Handler

LEMMA OthersHeld ==
    ASSUME OInv, [Next]_vars, NEW p \in Requests, Handler(p) \/ Fail(p), NEW q \in Requests, q # p
    PROVE  Held(q)'
<1>1. pc'[q] = pc[q] /\ local'[q] = local[q]
  BY OthersStandStill DEF OInv
<1>2. UnitLeftTo(q)
  BY UnitIsLeft
<1> QED BY <1>1, <1>2, QuietOrCommit, HeldWhileQuiet, HeldUnderUpdate, HeldUnderProvision, HeldUnderUnit

\* The clock and a stuttering step leave the handlers alone.
LEMMA NobodyMoves ==
    ASSUME OInv, UNCHANGED <<units, residents, pc, local>>, NEW q \in Requests
    PROVE  Held(q)'
<1>1. UnitLeftTo(q)
  BY DEF UnitLeftTo, OInv, Held, UnitHeld, ResizeHeld
<1> QED BY <1>1, HeldWhileQuiet

LEMMA NextOInv ==
    ASSUME OInv, [Next /\ NoConflict']_vars, IInv', TokenHeld', TokenMatchesResident'
    PROVE  OInv'
<1>1. [Next]_vars
  OBVIOUS
<1>2. NoConflict'
  <2>1. CASE UNCHANGED vars
    BY <2>1 DEF vars, OInv, NoConflict, Conflict, Activates, Revokes, Admits, Resizes, Occupants,
                ResidentsOf, ResidentExists
  <2> QED BY <2>1
<1>3. ASSUME NEW q \in Requests PROVE Held(q)'
  <2>1. CASE UNCHANGED vars \/ Tick
    BY <2>1, NobodyMoves DEF vars, Tick, rows
  <2>2. ASSUME NEW p \in Requests, Handler(p) \/ Fail(p) PROVE Held(q)'
    BY <1>1, <2>2, ActorHeld, OthersHeld
  <2> QED BY <1>1, <2>1, <2>2 DEF Next
<1> QED BY <1>1, <1>2, <1>3, StillFew DEF OInv

LEMMA InitOInv == Init => OInv
<1> SUFFICES ASSUME Init PROVE OInv
  OBVIOUS
<1>1. IInv
  BY InitIInv
<1>2. TokenHeld /\ TokenMatchesResident /\ NoConflict
  BY DEF Init, TokenHeld, PurgeSteps, TokenMatchesResident, NoConflict, Conflict, Activates, Admits, ResidentExists
<1>3. FewResidents
  <2>1. \A u \in Units : ResidentsOf(u) = {}
    BY DEF Init, ResidentsOf, ResidentExists
  <2> QED BY <2>1, FS_EmptySet DEF FewResidents
<1>4. ASSUME NEW p \in Requests PROVE Held(p)
  BY DEF Init, Held, AdmissionHeld, ActivationHeld, RevocationHeld, ContactHeld, ResizeHeld, UnitHeld
<1> QED BY <1>1, <1>2, <1>3, <1>4 DEF OInv

LEMMA OrderlyIsSpec == OrderlySpec => Spec
<1>1. [Next /\ NoConflict']_vars => [Next]_vars
  OBVIOUS
<1> QED BY <1>1, PTL DEF OrderlySpec, Spec

LEMMA OrderlyInvariance == OrderlySpec => []OInv
<1>1. OInv /\ [Next /\ NoConflict']_vars /\ IInv' /\ TokenHeld' /\ TokenMatchesResident' => OInv'
  BY NextOInv
<1> QED BY <1>1, InitOInv, OrderlyIsSpec, Invariance, TokensHeld, TokensMatch, PTL DEF OrderlySpec

-----------------------------------------------------------------------------
(* The refinement. *)

LEMMA StepImplements == OInv /\ [Next]_vars => [Abstract!Next]_(Abstract!vars)
<1> SUFFICES ASSUME OInv, [Next]_vars, ~UNCHANGED <<clock, units, residents, tokens>>
             PROVE  Abstract!Next
  BY DEF Abstract!vars
<1>1. CASE Tick
  BY <1>1 DEF Tick, rows, Abstract!Next, Abstract!Tick
<1>2. ASSUME NEW p \in Requests, Fail(p) PROVE FALSE
  BY <1>2 DEF Fail, Rollback, Close, rows
<1>3. ASSUME NEW p \in Requests, ProvisionCommit(p) PROVE Abstract!Next
  <2>1. /\ local[p].unit \in Units /\ local[p].resident \in Residents
        /\ local[p].contact \in Contacts \cup {NULL}
    BY <1>3 DEF OInv, IInv, HandlersOK, ProvisionOK, ProvisionCommit
  <2> QED BY <1>3, <2>1, ProvisionImplements DEF Abstract!Next
<1>4. ASSUME NEW p \in Requests, RegisterCommit(p) PROVE Abstract!Next
  <2>1. local[p].resident \in Residents /\ local[p].key \in Keys
    BY <1>4 DEF OInv, IInv, HandlersOK, RegisterOK, RegisterCommit
  <2> QED BY <1>4, <2>1, RegisterImplements DEF Abstract!Next
<1>5. ASSUME NEW p \in Requests, RevokeCommit(p) PROVE Abstract!Next
  <2>1. local[p].resident \in Residents
    BY <1>5 DEF OInv, IInv, HandlersOK, RevokeOK, RevokeCommit
  <2> QED BY <1>5, <2>1, RevokeImplements DEF Abstract!Next
<1>6. ASSUME NEW p \in Requests, ContactCommit(p) PROVE Abstract!Next
  BY <1>6, ContactImplements DEF Abstract!Next
<1>7. ASSUME NEW p \in Requests, CreateCommit(p) PROVE Abstract!Next
  BY <1>7, CreateImplements DEF Abstract!Next
<1>8. ASSUME NEW p \in Requests, CapacityCommit(p) PROVE Abstract!Next
  BY <1>8, ResizeImplements DEF Abstract!Next
<1>9. ASSUME NEW p \in Requests, DeleteCommit(p) PROVE Abstract!Next
  BY <1>9, DeleteImplements DEF Abstract!Next
<1>10. ASSUME NEW p \in Requests, CleanupCommit(p) PROVE Abstract!Next
  BY <1>10, PurgeImplements DEF Abstract!Next
<1>11. ASSUME NEW p \in Requests, Handler(p),
              ~CreateCommit(p), ~CapacityCommit(p), ~DeleteCommit(p), ~ProvisionCommit(p),
              ~RegisterCommit(p), ~RevokeCommit(p), ~ContactCommit(p), ~CleanupCommit(p)
       PROVE  FALSE
  BY <1>11 DEF Handler, ResidentServiceNext, ProvisionLoadUnit, ProvisionCount, ProvisionBlocked,
     ProvisionOwner, ProvisionInsert, RegisterLoadToken, RegisterLoadResident, RegisterFlush, RegisterToken,
     RevokeLoad, RevokeFlush, ContactLoad, ContactFlush, UnitServiceNext, CreateInsert, CapacityLoad,
     CapacityCount, CapacityFlush, DeleteLoad, DeleteCount, DeleteFlush, CleanupServiceNext,
     CleanupBegin, CleanupTokens, CleanupRow, ScanOn, Rollback, Close, Start, Step, rows
<1> QED BY <1>1, <1>2, <1>3, <1>4, <1>5, <1>6, <1>7, <1>8, <1>9, <1>10, <1>11 DEF Next, vars

\* While no two conflicting requests overlap, the handlers of the three services
\* are the indivisible operations of Registry, whatever else overlaps and whatever
\* fails: the checks a handler made still hold at its commit.
THEOREM OrderlyImplementsRegistry == OrderlySpec => ImplementsRegistry
<1>1. Init => Abstract!Init
  BY DEF Init, Abstract!Init
<1> QED BY <1>1, StepImplements, OrderlyInvariance, OrderlyIsSpec, PTL
        DEF Spec, ImplementsRegistry, Abstract!Spec

-----------------------------------------------------------------------------
(* What orderly requests keep true of the registry. *)

RowsOK == KeyExactlyWhenActive /\ RevocationIsPermanent

LEMMA RowsChange ==
    ASSUME [Next]_vars
    PROVE  \/ UNCHANGED <<units, residents>>
           \/ residents' = residents /\ \E p \in Requests :
                 CreateCommit(p) \/ CapacityCommit(p) \/ DeleteCommit(p)
           \/ units' = units /\ \E p \in Requests : ProvisionCommit(p)
           \/ units' = units /\ \E p \in Requests :
                 RegisterCommit(p) \/ RevokeCommit(p) \/ ContactCommit(p)
<1>1. CASE UNCHANGED vars \/ Tick
  BY <1>1 DEF vars, Tick, rows
<1>2. ASSUME NEW p \in Requests, Handler(p) \/ Fail(p)
      PROVE  \/ UNCHANGED <<units, residents>>
             \/ residents' = residents /\ (CreateCommit(p) \/ CapacityCommit(p) \/ DeleteCommit(p))
             \/ units' = units /\ ProvisionCommit(p)
             \/ units' = units /\ (RegisterCommit(p) \/ RevokeCommit(p) \/ ContactCommit(p))
  BY <1>2, QuietOrCommit DEF ProvisionCommit, RegisterCommit, RevokeCommit, ContactCommit,
                             CreateCommit, CapacityCommit, DeleteCommit
<1> QED BY <1>1, <1>2 DEF Next

LEMMA KeepRowsOK == ASSUME OInv, RowsOK, [Next]_vars PROVE RowsOK'
<1>1. CASE residents' = residents
  BY <1>1 DEF RowsOK, KeyExactlyWhenActive, RevocationIsPermanent, ResidentExists
<1>2. ASSUME NEW p \in Requests, ProvisionCommit(p) PROVE RowsOK'
  <2>1. PICK u, r : u = local[p].unit /\ r = local[p].resident
    OBVIOUS
  <2>2. residents'[r].status = "pending" /\ residents'[r].public_key = NULL /\ residents'[r].revoked = FALSE
    BY <1>2, <2>1, HouseAfterProvision
  <2>3. ASSUME NEW o \in Residents, o # r PROVE residents'[o] = residents[o]
    BY <1>2, <2>1, <2>3 DEF ProvisionCommit, OInv, IInv, TypeOK
  <2> QED BY <2>2, <2>3 DEF RowsOK, KeyExactlyWhenActive, RevocationIsPermanent, ResidentExists
<1>3. ASSUME NEW p \in Requests, RegisterCommit(p) \/ RevokeCommit(p) \/ ContactCommit(p)
      PROVE  RowsOK'
  <2>1. PICK r : r = local[p].resident
    OBVIOUS
  <2>2. /\ r \in Residents /\ residents[r] # NULL /\ residents'[r] # NULL
        /\ \A o \in Residents : o # r => residents'[o] = residents[o]
    BY <1>3, <2>1, UpdatedRow
  <2>3. /\ residents'[r].public_key # NULL <=> residents'[r].status = "active"
        /\ residents'[r].revoked => residents'[r].status = "revoked"
    <3>1. /\ residents[r].public_key # NULL <=> residents[r].status = "active"
          /\ residents[r].revoked => residents[r].status = "revoked"
      BY <2>2 DEF RowsOK, KeyExactlyWhenActive, RevocationIsPermanent, ResidentExists
    <3>2. CASE RegisterCommit(p)
      BY <2>1, <3>1, <3>2, UpdatedRow, SentinelAssumption
    <3>3. CASE RevokeCommit(p)
      BY <2>1, <3>3, UpdatedRow
    <3>4. CASE ContactCommit(p)
      BY <2>1, <3>1, <3>4, UpdatedRow
    <3> QED BY <1>3, <3>2, <3>3, <3>4
  <2> QED BY <2>2, <2>3 DEF RowsOK, KeyExactlyWhenActive, RevocationIsPermanent, ResidentExists
<1> QED BY <1>1, <1>2, <1>3, RowsChange

LEMMA KeepOneOwner == ASSUME OInv, AtMostOneOwner, [Next]_vars PROVE AtMostOneOwner'
<1> SUFFICES ASSUME NEW v \in Units, NEW o \in Occupants(v)', NEW s \in Occupants(v)',
                    residents'[o].is_owner, residents'[s].is_owner
             PROVE  o = s
  BY DEF AtMostOneOwner
<1>1. CASE residents' = residents
  BY <1>1 DEF AtMostOneOwner, Occupants, ResidentsOf, ResidentExists
<1>2. ASSUME NEW p \in Requests, ProvisionCommit(p) PROVE o = s
  <2>1. PICK u, r : u = local[p].unit /\ r = local[p].resident
    OBVIOUS
  <2>2. Occupants(u)' = Occupants(u) \cup {r}
    BY <1>2, <2>1, HouseAfterProvision
  <2>3. residents'[r].is_owner = local[p].is_owner
    BY <1>2, <2>1 DEF ProvisionCommit, OInv, IInv, TypeOK, HandlersOK, ProvisionOK
  <2>4. v # u => Occupants(v)' = Occupants(v)
    <3>1. v # u => SameHouse(v)
      BY <1>2, <2>1, HouseAfterProvision
    <3> QED BY <3>1 DEF SameHouse
  <2>5. residents[r] = NULL
    BY <1>2, <2>1, HouseAfterProvision
  <2>6. ASSUME NEW w, NEW i \in Occupants(w) PROVE residents'[i] = residents[i]
    BY <1>2, <2>1, <2>5 DEF ProvisionCommit, OInv, IInv, TypeOK, Occupants, ResidentsOf, ResidentExists
  <2>7. local[p].is_owner => ~HasOwner(u)
    BY <1>2, <2>1 DEF ProvisionCommit, OInv, Held, AdmissionHeld
  <2>8. CASE v # u
    BY <2>4, <2>6, <2>8 DEF AtMostOneOwner
  <2>9. CASE v = u /\ local[p].is_owner
    BY <2>2, <2>6, <2>7, <2>9 DEF HasOwner
  <2>10. CASE v = u /\ ~local[p].is_owner
    BY <2>2, <2>3, <2>6, <2>10 DEF AtMostOneOwner
  <2> QED BY <2>8, <2>9, <2>10
<1>3. ASSUME NEW p \in Requests, RegisterCommit(p) \/ RevokeCommit(p) \/ ContactCommit(p)
      PROVE  o = s
  <2>1. o \in Occupants(v) /\ s \in Occupants(v)
    BY <1>3, HouseAfterUpdate DEF SameHouse
  <2>2. residents'[o].is_owner = residents[o].is_owner /\ residents'[s].is_owner = residents[s].is_owner
    BY <1>3, <2>1, UpdatedRow DEF Occupants, ResidentsOf
  <2> QED BY <2>1, <2>2 DEF AtMostOneOwner
<1> QED BY <1>1, <1>2, <1>3, RowsChange

LEMMA KeepCapacity == ASSUME OInv, CapacityRespected, [Next]_vars PROVE CapacityRespected'
<1> SUFFICES ASSUME NEW v \in Units, UnitExists(v)'
             PROVE  ActiveResidentCount(v)' <= units'[v]
  BY DEF CapacityRespected
<1>1. IsFiniteSet(Occupants(v)) /\ ActiveResidentCount(v) \in Nat
  BY Counting DEF OInv
<1>2. units' = units => UnitExists(v) /\ units'[v] = units[v] /\ units[v] \in Nat
  BY CapacityAssumption DEF UnitExists
<1>3. CASE UNCHANGED <<units, residents>>
  BY <1>3 DEF CapacityRespected, UnitExists, ActiveResidentCount, Occupants, ResidentsOf, ResidentExists
<1>4. ASSUME units' = units, NEW p \in Requests, ProvisionCommit(p)
      PROVE  ActiveResidentCount(v)' <= units'[v]
  <2>1. PICK u, r : u = local[p].unit /\ r = local[p].resident
    OBVIOUS
  <2>2. CASE v # u
    <3>1. SameHouse(v)
      BY <1>4, <2>1, <2>2, HouseAfterProvision
    <3>2. Occupants(v)' = Occupants(v)
      BY <3>1 DEF SameHouse
    <3> QED BY <1>2, <1>4, <3>2 DEF CapacityRespected, ActiveResidentCount
  <2>3. CASE v = u
    <3>1. ActiveResidentCount(u) < units[u]
      BY <1>2, <1>4, <2>1, <2>3 DEF ProvisionCommit, OInv, Held, AdmissionHeld
    <3>2. Occupants(v)' = Occupants(v) \cup {r}
      BY <1>4, <2>1, <2>3, HouseAfterProvision
    <3>3. Cardinality(Occupants(v) \cup {r}) \in {Cardinality(Occupants(v)), Cardinality(Occupants(v)) + 1}
      BY <1>1, FS_AddElement
    <3>4. ActiveResidentCount(v)' = Cardinality(Occupants(v) \cup {r})
      BY <3>2 DEF ActiveResidentCount
    <3>5. ActiveResidentCount(v) = Cardinality(Occupants(v))
      BY DEF ActiveResidentCount
    <3> QED BY <1>1, <1>2, <1>4, <2>3, <3>1, <3>3, <3>4, <3>5
  <2> QED BY <2>2, <2>3
<1>5. ASSUME units' = units, NEW p \in Requests, RegisterCommit(p) \/ RevokeCommit(p) \/ ContactCommit(p)
      PROVE  ActiveResidentCount(v)' <= units'[v]
  <2>1. Occupants(v)' \in SUBSET Occupants(v)
    BY <1>5, HouseAfterUpdate DEF SameHouse
  <2>2. IsFiniteSet(Occupants(v)') /\ Cardinality(Occupants(v)') <= Cardinality(Occupants(v))
    BY <1>1, <2>1, FS_Subset
  <2>3. ActiveResidentCount(v)' \in Nat /\ ActiveResidentCount(v)' <= ActiveResidentCount(v)
    BY <2>2, FS_CardinalityType DEF ActiveResidentCount
  <2>4. ActiveResidentCount(v) <= units[v]
    BY <1>2, <1>5 DEF CapacityRespected
  <2> QED BY <1>1, <1>2, <1>5, <2>3, <2>4
<1>6. ASSUME residents' = residents,
             NEW p \in Requests, CreateCommit(p) \/ CapacityCommit(p) \/ DeleteCommit(p)
      PROVE  ActiveResidentCount(v)' <= units'[v]
  <2>1. ActiveResidentCount(v)' = ActiveResidentCount(v)
    BY <1>6 DEF ActiveResidentCount, Occupants, ResidentsOf, ResidentExists
  <2>2. CASE units'[v] = units[v]
    BY <1>6, <2>1, <2>2 DEF CapacityRespected, UnitExists
  <2>3. CASE units'[v] # units[v]
    <3>1. v = local[p].unit /\ ~DeleteCommit(p) /\ units'[v] = local[p].max /\ local[p].max \in Capacities
      BY <1>6, <2>3, SentinelAssumption
         DEF CreateCommit, CapacityCommit, DeleteCommit, OInv, IInv, TypeOK, HandlersOK, CapacityOK,
             UnitExists
    <3>2. CASE CreateCommit(p)
      <4>1. units[v] = NULL
        BY <3>1, <3>2 DEF CreateCommit, OInv, Held, UnitHeld
      <4>2. Occupants(v) = {}
        BY <4>1, SentinelAssumption
           DEF Occupants, ResidentsOf, OInv, IInv, ReferentialIntegrity, UnitExists
      <4>3. ActiveResidentCount(v) = 0
        BY <4>2, FS_EmptySet DEF ActiveResidentCount
      <4>4. local[p].max \in Nat
        BY <3>1, CapacityAssumption
      <4> QED BY <2>1, <3>1, <4>3, <4>4
    <3>3. CASE CapacityCommit(p)
      <4>1. UnitExists(v)
        BY <2>3, <3>1, <3>3 DEF CapacityCommit, OInv, Held, ResizeHeld
      <4>2. ActiveResidentCount(v) <= local[p].max
        BY <3>1, <3>3, <4>1 DEF CapacityCommit, OInv, Held, ResizeHeld
      <4> QED BY <2>1, <3>1, <4>2
    <3> QED BY <1>6, <3>1, <3>2, <3>3
  <2> QED BY <2>2, <2>3
<1> QED BY <1>3, <1>4, <1>5, <1>6, RowsChange

\* No two orderly requests overbook a unit between them: the count of the
\* residents and the capacity that provision and update_capacity compared are
\* still the ones there at the commit.
THEOREM OrderlyCapacity == OrderlySpec => []CapacityRespected
<1>1. Init => CapacityRespected
  BY SentinelAssumption DEF Init, CapacityRespected, UnitExists
<1> QED BY <1>1, KeepCapacity, OrderlyInvariance, OrderlyIsSpec, PTL DEF Spec

\* Nor do they make two residents of a unit its owner.
THEOREM OrderlyOwner == OrderlySpec => []AtMostOneOwner
<1>1. Init => AtMostOneOwner
  BY DEF Init, AtMostOneOwner, Occupants, ResidentsOf, ResidentExists
<1> QED BY <1>1, KeepOneOwner, OrderlyInvariance, OrderlyIsSpec, PTL DEF Spec

LEMMA OrderlyRows == OrderlySpec => []RowsOK
<1>1. Init => RowsOK
  BY DEF Init, RowsOK, KeyExactlyWhenActive, RevocationIsPermanent, ResidentExists
<1> QED BY <1>1, KeepRowsOK, OrderlyInvariance, OrderlyIsSpec, PTL DEF Spec

\* A key is stored exactly for the active residents: no revocation overlaps a
\* registration whose key it would miss.
THEOREM OrderlyKeys == OrderlySpec => []KeyExactlyWhenActive
BY OrderlyRows, PTL DEF RowsOK

\* Who has once been revoked is revoked: no registration brings anybody back.
THEOREM OrderlyRevocation == OrderlySpec => []RevocationIsPermanent
BY OrderlyRows, PTL DEF RowsOK

\* An activation token binds one device: register_device finds the token of an
\* active resident used, and no other registration of the resident overlaps.
THEOREM OrderlySingleUse == OrderlySpec => TokenIsSingleUse
<1>1. ASSUME OInv, [Next]_vars, NEW r \in Residents,
             tokens[r] # NULL, tokens[r].used, residents[r].public_key # NULL
      PROVE  residents'[r].public_key \in {residents[r].public_key, NULL}
  <2>1. residents[r] # NULL /\ residents[r].status # "pending"
    BY <1>1 DEF OInv, IInv, ReferentialIntegrity, TokenMatchesResident, ResidentExists
  <2>2. ASSUME NEW p \in Requests, ProvisionCommit(p) PROVE residents'[r] = residents[r]
    <3>1. residents[local[p].resident] = NULL
      BY <1>1, <2>2 DEF OInv, IInv, HandlersOK, ProvisionOK, ResidentExists, ProvisionCommit
    <3> QED BY <1>1, <2>1, <2>2, <3>1 DEF ProvisionCommit, OInv, IInv, TypeOK
  <2>3. ASSUME NEW p \in Requests, RegisterCommit(p) \/ RevokeCommit(p) \/ ContactCommit(p)
        PROVE  residents'[r].public_key \in {residents[r].public_key, NULL}
    <3>1. CASE r # local[p].resident
      BY <1>1, <2>3, <3>1, UpdatedRow
    <3>2. CASE r = local[p].resident
      BY <1>1, <2>1, <2>3, <3>2, UpdatedRow
    <3> QED BY <3>1, <3>2
  <2> QED BY <1>1, <2>2, <2>3, RowsChange
<1>2. OInv /\ [Next]_vars =>
         [\A r \in Residents :
             tokens[r] # NULL /\ tokens[r].used /\ residents[r].public_key # NULL
                => residents'[r].public_key \in {residents[r].public_key, NULL}]_vars
  BY <1>1
<1> QED BY <1>2, OrderlyInvariance, OrderlyIsSpec, PTL DEF Spec, TokenIsSingleUse

-----------------------------------------------------------------------------
OneAtATime == \A p, q \in Requests : p # q => pc[p] = "idle" \/ pc[q] = "idle"

\* A backend that serves one request at a time, however it fails and whatever the
\* clock does in between, is orderly: the results above hold of it.
THEOREM SerialIsOrderly == Spec /\ []OneAtATime => OrderlySpec
<1>1. OneAtATime' => NoConflict'
  BY DEF OneAtATime, NoConflict, Conflict, Activates, Revokes, Admits, Resizes
<1>2. [Next]_vars /\ OneAtATime' => [Next /\ NoConflict']_vars
  BY <1>1
<1> QED BY <1>2, PTL DEF Spec, OrderlySpec
=============================================================================
