------------------------------- MODULE Backend -------------------------------
(***************************************************************************)
(* The registry half of the backend: any number of handlers of the         *)
(* resident, unit and cleanup services interleave over one database.       *)
(***************************************************************************)
EXTENDS ResidentService, UnitService, CleanupService

Handler(p) == ResidentServiceNext(p) \/ UnitServiceNext(p) \/ CleanupServiceNext(p)

Next ==
    \/ \E p \in Requests : Handler(p)
    \/ \E p \in Requests : Fail(p)
    \/ Tick

Spec == Init /\ [][Next]_vars

\* A handler that can take its next statement or its commit takes it: the event
\* loop and the database keep running.  Fairness is strong because a write waits
\* in PostgreSQL's queue for the row, where a later writer does not overtake it.
\* Nothing makes a request arrive, fail or the clock advance.
Proceed(p) == pc[p] # "idle" /\ Handler(p)

FairSpec == Spec /\ \A p \in Requests : SF_vars(Proceed(p))

-----------------------------------------------------------------------------
Steps ==
    {"idle",
     "provision_count", "provision_blocked", "provision_owner", "provision_insert",
     "provision_commit", "register_resident", "register_flush", "register_token",
     "register_commit", "revoke_flush", "revoke_commit", "contact_flush", "contact_commit",
     "create_commit", "capacity_count", "capacity_flush", "capacity_commit",
     "delete_count", "delete_flush", "delete_commit", "cleanup_tokens", "cleanup_rows",
     "cleanup_audit"}

\* Rows and handlers have the shape that models.py and the services give them.
TypeOK ==
    /\ clock \in 0..MaxTime
    /\ units \in [Units -> Capacities \cup {NULL, DELETED}]
    /\ residents \in [Residents -> ResidentRow \cup {NULL}]
    /\ tokens \in [Residents -> TokenRow \cup {NULL}]
    /\ \A r \in Residents : tokens[r] # NULL => tokens[r].expires_at <= clock + TTL
    /\ audit \subseteq AuditRow
    /\ pc \in [Requests -> Steps]
    /\ local \in [Requests -> Locals]

-----------------------------------------------------------------------------
(* Safety, whatever handlers overlap. *)

\* No row outlives the row it refers to: the deletion of a unit and the purge
\* of tokens never leave a resident without its unit, a token without its
\* resident or an audit row without its unit (UnitService.delete against an
\* overlapping ResidentService.provision).
ReferentialIntegrity ==
    /\ \A r \in Residents : ResidentExists(r) => UnitExists(residents[r].unit_id)
    /\ \A r \in Residents : tokens[r] # NULL => ResidentExists(r)
    /\ \A e \in audit : UnitExists(e.unit)

\* What each handler relies on from one statement to the next: the id it drew is
\* still its own, the rows it found are still there, and from its flush on the
\* unit of a provision exists and the unit of a deletion is empty.
ProvisionOK(p) ==
    pc[p] \in {"provision_count", "provision_blocked", "provision_owner",
              "provision_insert", "provision_commit"} =>
        /\ local[p].unit \in Units
        /\ local[p].resident \in Residents /\ ~ResidentExists(local[p].resident)
        /\ \A q \in Requests \ {p} : local[q].resident # local[p].resident
        /\ pc[p] \in {"provision_insert", "provision_commit"} =>
              local[p].contact \in Contacts \cup {NULL}
        /\ pc[p] = "provision_commit" =>
              UnitExists(local[p].unit) /\ local[p].expires_at <= clock + TTL

RegisterOK(p) ==
    pc[p] \in {"register_resident", "register_flush", "register_token", "register_commit"} =>
        /\ local[p].resident \in Residents /\ ResidentExists(local[p].resident)
        /\ local[p].key \in Keys

RevokeOK(p) ==
    pc[p] \in {"revoke_flush", "revoke_commit", "contact_flush", "contact_commit"} =>
        /\ local[p].resident \in Residents /\ ResidentExists(local[p].resident)
        /\ pc[p] \in {"contact_flush", "contact_commit"} => local[p].contact \in Contacts

CapacityOK(p) ==
    pc[p] \in {"create_commit", "capacity_count", "capacity_flush", "capacity_commit"} =>
        local[p].unit \in Units /\ local[p].max \in Capacities

DeleteOK(p) ==
    pc[p] \in {"delete_count", "delete_flush", "delete_commit"} =>
        /\ local[p].unit \in Units
        /\ pc[p] = "delete_commit" =>
              ~Referenced(local[p].unit) /\ ~UnitKeyShared(p, local[p].unit)

CleanupOK(p) == pc[p] = "cleanup_rows" => local[p].at \in Residents

HandlersOK ==
    \A p \in Requests :
        /\ ProvisionOK(p) /\ RegisterOK(p) /\ RevokeOK(p)
        /\ CapacityOK(p) /\ DeleteOK(p) /\ CleanupOK(p)

\* The two rows that register_device writes agree: a used token never belongs to
\* a resident still pending, and an unused one never to an active resident,
\* whatever revocation, second registration or purge overlaps the activation.
TokenMatchesResident ==
    \A r \in Residents :
        ResidentExists(r) /\ tokens[r] # NULL =>
            /\ tokens[r].used => residents[r].status # "pending"
            /\ ~tokens[r].used => residents[r].status # "active"

\* Handlers that wait for each other's rows in a circle are rounds of the cleanup,
\* whose DELETEs may meet the tokens in different orders.  register_device takes
\* two locks too, but the resident's always first, and the cleanup never wants
\* a resident.
OnlyPurgesDeadlock ==
    \A S \in SUBSET Requests : Deadlock(S) => \A p \in S : pc[p] = "cleanup_rows"

\* A register_device that has found r pending and will overwrite its row.
ActivationInFlight(r) ==
    \E p \in Requests :
        pc[p] \in {"register_flush", "register_token", "register_commit"} /\ local[p].resident = r

SettledRevoked(r) ==
    /\ ResidentExists(r)
    /\ residents[r].status = "revoked"
    /\ ~ActivationInFlight(r)

\* A revocation that no registration overlaps is final: neither a later request
\* nor one already past its token check brings the resident back.
RevocationIsFinal ==
    [][\A r \in Residents : SettledRevoked(r) => SettledRevoked(r)']_vars

SettledActive(r, k) ==
    /\ ResidentExists(r)
    /\ residents[r].status = "active"
    /\ residents[r].public_key = k
    /\ ~ActivationInFlight(r)

\* Once a device is bound and no other registration was past its checks at that
\* time, no other key ever takes its place; only revoke undoes the binding.
BindingIsFinal ==
    [][\A r \in Residents, k \in Keys : SettledActive(r, k) =>
          /\ residents'[r].public_key \in {k, NULL}
          /\ SettledActive(r, k)' \/ residents'[r].revoked]_vars

\* A provision that has passed the capacity check of u, or that will judge it by
\* a capacity that u no longer has.
Admitted(u) ==
    \E p \in Requests :
        /\ local[p].unit = u
        /\ \/ pc[p] \in {"provision_owner", "provision_insert", "provision_commit"}
           \/ pc[p] = "provision_count" /\ local[p].seen_max # units[u]

SettledFull(u) ==
    /\ UnitExists(u)
    /\ ActiveResidentCount(u) >= units[u]
    /\ ~Admitted(u)
    /\ \A r \in ResidentsOf(u) \ Occupants(u) : ~ActivationInFlight(r)

\* A full unit stays full: apart from the requests that had already been admitted
\* when it filled up, nobody gets in until a resident is revoked or the capacity
\* is changed.  Overbooking is bounded by the requests that overlapped.
FullUnitAdmitsNobody ==
    [][\A u \in Units : SettledFull(u) =>
          \/ SettledFull(u)'
          \/ ActiveResidentCount(u)' < ActiveResidentCount(u)
          \/ units'[u] # units[u]]_vars

\* A pending resident whose token the cleanup purged can never be activated, not
\* even by a registration that had read the token before: the place it occupies
\* in its unit is only given back by revoke.
PurgedTokenNeverActivates ==
    [][\A r \in Residents :
          (ResidentExists(r) /\ residents[r].status = "pending" /\ tokens[r] = NULL)
             => /\ tokens'[r] = NULL
                /\ residents'[r].status \in {"pending", "revoked"}]_vars

\* The cleanup removes no token with which a device could still be activated,
\* although it decides before it waits for the rows it deletes.
ValidTokenSurvives ==
    [][\A r \in Residents :
          tokens[r] # NULL /\ TokenAccepted(r) => tokens'[r] # NULL]_vars

-----------------------------------------------------------------------------
(* What holds while conflicting requests do not overlap. *)

\* Handler p is in the middle of a request that ...
Admits(p, u) ==    \* ... lets a resident into unit u
    /\ pc[p] \in {"provision_count", "provision_blocked", "provision_owner",
                  "provision_insert", "provision_commit"}
    /\ local[p].unit = u

Resizes(p, u) ==   \* ... changes the capacity of u
    /\ pc[p] \in {"capacity_count", "capacity_flush", "capacity_commit"}
    /\ local[p].unit = u

Activates(p, r) == \* ... binds a device to resident r
    /\ pc[p] \in {"register_resident", "register_flush", "register_token", "register_commit"}
    /\ local[p].resident = r

Revokes(p, r) ==   \* ... revokes r
    /\ pc[p] \in {"revoke_flush", "revoke_commit"}
    /\ local[p].resident = r

\* The pairs of requests that the services do not keep apart.
Conflict(p, q) ==
    \/ \E r \in Residents : Activates(p, r) /\ (Activates(q, r) \/ Revokes(q, r))
    \/ \E u \in Units : /\ Admits(p, u)
                        /\ \/ Admits(q, u) \/ Resizes(q, u)
                           \/ \E r \in Occupants(u) : residents[r].is_owner /\ Revokes(q, r)

NoConflict == \A p, q \in Requests : p # q => ~Conflict(p, q)

\* The behaviours in which no two conflicting requests overlap, among them those
\* with one request at a time.
OrderlySpec == Init /\ [][Next /\ NoConflict']_vars

\* Then, whatever else overlaps, the handlers are the indivisible operations of
\* Registry: what a handler checked still holds when it commits, with the clock
\* moving and any handler failing in between.
Abstract == INSTANCE Registry WITH clock <- clock, units <- units,
                                  residents <- residents, tokens <- tokens

ImplementsRegistry == Abstract!Spec

\* No unit has more residents waiting or active than places ("Enforces unit
\* capacity", provision_resident).
CapacityRespected ==
    \A u \in Units : UnitExists(u) => ActiveResidentCount(u) <= units[u]

\* Among the residents of a unit who are not revoked at most one is the owner.
AtMostOneOwner ==
    \A u \in Units : \A r, s \in Occupants(u) :
        residents[r].is_owner /\ residents[s].is_owner => r = s

\* A key is stored exactly for the active residents: revoke clears it.
KeyExactlyWhenActive ==
    \A r \in Residents : ResidentExists(r) =>
        (residents[r].public_key # NULL <=> residents[r].status = "active")

\* Who has once been revoked is revoked ("This action is permanent.", the
\* confirmation of the revoke button, admin Dashboard.tsx).
RevocationIsPermanent ==
    \A r \in Residents :
        ResidentExists(r) /\ residents[r].revoked => residents[r].status = "revoked"

\* A token activates one device: the key it bound is not replaced ("Single-use
\* activation token", instructions.md).
TokenIsSingleUse ==
    [][\A r \in Residents :
          tokens[r] # NULL /\ tokens[r].used /\ residents[r].public_key # NULL
             => residents'[r].public_key \in {residents[r].public_key, NULL}]_vars

\* An attempt beyond capacity leaves a registration_blocked row in the audit log
\* ("Over-capacity provisioning -> 400 + audit registration_blocked", TODO.md).
BlockedAttemptIsLogged ==
    [][\A p \in Requests :
          pc[p] = "provision_blocked" /\ pc'[p] = "idle"
             => \E e \in audit' : e.action = "registration_blocked"]_vars

-----------------------------------------------------------------------------
(* Liveness. *)

\* Overlapping rounds of the cleanup that wait for tokens of each other.
PurgesDeadlocked == \E S \in SUBSET {p \in Requests : pc[p] = "cleanup_rows"} : Deadlock(S)

\* Every handler ends, whichever handlers overlap and whichever of them fail,
\* unless two rounds of the cleanup have come to wait for each other: then
\* PostgreSQL aborts one of them, which is a Fail.
EveryRequestEnds ==
    \A p \in Requests : pc[p] # "idle" ~> pc[p] = "idle" \/ PurgesDeadlocked

\* run_periodic_cleanup goes on to the next round whether or not the last one
\* raised an exception, and not every round fails.
RoundsRecur == []<><<\E p \in Requests : CleanupCommit(p) /\ local[p].began = clock>>_vars

\* Then every token that has expired and every audit row past its retention is
\* gone at some time, however many activations, revocations and other rounds
\* come in between; no round that waits for locked rows leaves them for ever.
ExpiredRowsGo ==
    RoundsRecur =>
        /\ \A r \in Residents : tokens[r] # NULL /\ Expired(tokens[r]) ~> tokens[r] = NULL
        /\ (\E e \in audit : e.at < Cutoff) ~> (\A e \in audit : e.at >= Cutoff)

=============================================================================
