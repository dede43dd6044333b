----------------------------- MODULE UnitService -----------------------------
(***************************************************************************)
(* app/services/unit_service.py behind app/routes/units.py: units are      *)
(* created, given another capacity and deleted by a setup admin.           *)
(***************************************************************************)
EXTENDS Database

-----------------------------------------------------------------------------
(* create: POST /units.  Distinct unit ids stand for distinct unit_number    *)
(* values: a duplicate number breaks the unique index and the request fails. *)

FreshUnit(u) == units[u] = NULL /\ \A q \in Requests : local[q].unit # u

CreateInsert(p, u, m) ==
    /\ FreshUnit(u)
    /\ Start(p, "create_commit", [NoLocals EXCEPT !.unit = u, !.max = m])

CreateCommit(p) ==
    /\ pc[p] = "create_commit"
    /\ Close(p)
    /\ units' = [units EXCEPT ![local[p].unit] = local[p].max]
    /\ UNCHANGED <<residents, tokens, audit>>

-----------------------------------------------------------------------------
(* update_capacity: PATCH /units/{id} *)

CapacityLoad(p, u, m) ==
    /\ UnitExists(u)
    /\ Start(p, "capacity_count", [NoLocals EXCEPT !.unit = u, !.max = m, !.seen_max = units[u]])

\* Mutant: one resident too many is tolerated.
CapacityTooSmall_OneLess(p) == local[p].max < ActiveResidentCount(local[p].unit) - 1

CapacityTooSmall(p) == local[p].max < ActiveResidentCount(local[p].unit)

CapacityCount(p) ==
    /\ pc[p] = "capacity_count"
    /\ \/ /\ ~CapacityTooSmall(p)
          /\ Step(p, "capacity_flush")
          /\ UNCHANGED local
       \/ /\ CapacityTooSmall(p)
          /\ Rollback(p)

\* An UPDATE of a row that is gone matches nothing and is reported as stale.
CapacityFlush(p) ==
    LET u == local[p].unit IN
    /\ pc[p] = "capacity_flush"
    /\ CapacityChanged(p) => ~UnitLocked(p, u)
    /\ \/ /\ CapacityChanged(p) => UnitExists(u)
          /\ Step(p, "capacity_commit")
          /\ UNCHANGED local
       \/ /\ CapacityChanged(p) /\ ~UnitExists(u)
          /\ Rollback(p)

CapacityCommit(p) ==
    /\ pc[p] = "capacity_commit"
    /\ Close(p)
    /\ units' = IF CapacityChanged(p)
                THEN [units EXCEPT ![local[p].unit] = local[p].max] ELSE units
    /\ UNCHANGED <<residents, tokens, audit>>

-----------------------------------------------------------------------------
(* delete: DELETE /units/{id} *)

\* Loading the unit also loads its residents (lazy="selectin").
DeleteLoad(p, u) ==
    /\ UnitExists(u)
    /\ Start(p, "delete_count", [NoLocals EXCEPT !.unit = u, !.children = ResidentsOf(u)])

DeleteCount(p) ==
    /\ pc[p] = "delete_count"
    /\ \/ /\ Occupants(local[p].unit) = {}
          /\ Step(p, "delete_flush")
          /\ UNCHANGED local
       \/ /\ Occupants(local[p].unit) # {}
          /\ Rollback(p)

\* Mutant: the database does not enforce the foreign keys.
DeleteRefused_NoForeignKeys(p) == local[p].children # {}

\* The flush first detaches the residents that were loaded, which the NOT NULL
\* unit_id refuses; the DELETE itself is refused while rows reference the unit.
\* A DELETE that matches no row only draws a warning from SQLAlchemy.
DeleteRefused(p) == local[p].children # {} \/ Referenced(local[p].unit)

DeleteFlush(p) ==
    /\ pc[p] = "delete_flush"
    /\ ~UnitLocked(p, local[p].unit) /\ ~UnitKeyShared(p, local[p].unit)
    /\ \/ /\ ~DeleteRefused(p)
          /\ Step(p, "delete_commit")
          /\ UNCHANGED local
       \/ /\ DeleteRefused(p)
          /\ Rollback(p)

DeleteCommit(p) ==
    /\ pc[p] = "delete_commit"
    /\ Close(p)
    /\ units' = [units EXCEPT ![local[p].unit] = DELETED]
    /\ UNCHANGED <<residents, tokens, audit>>

-----------------------------------------------------------------------------
UnitServiceNext(p) ==
    \/ \E u \in Units, m \in Capacities : CreateInsert(p, u, m)
    \/ CreateCommit(p)
    \/ \E u \in Units, m \in Capacities : CapacityLoad(p, u, m)
    \/ CapacityCount(p)
    \/ CapacityFlush(p)
    \/ CapacityCommit(p)
    \/ \E u \in Units : DeleteLoad(p, u)
    \/ DeleteCount(p)
    \/ DeleteFlush(p)
    \/ DeleteCommit(p)
=============================================================================
