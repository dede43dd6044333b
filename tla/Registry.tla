------------------------------ MODULE Registry ------------------------------
(***************************************************************************)
(* What the resident, unit and cleanup services promise their callers:     *)
(* each request, seen as one indivisible change of the registry.  There    *)
(* are no sessions, no statements and no locks here.                       *)
(***************************************************************************)
EXTENDS Integers, FiniteSets

CONSTANTS Units, Residents, Keys, Contacts, Capacities, NULL, DELETED, TTL, MaxTime

VARIABLES clock, units, residents, tokens

vars == <<clock, units, residents, tokens>>

UnitExists(u)     == units[u] \in Capacities
ResidentExists(r) == residents[r] # NULL

Members(u)   == {r \in Residents : ResidentExists(r) /\ residents[r].unit_id = u}
Occupants(u) == {r \in Members(u) : residents[r].status # "revoked"}
Owners(u)    == {r \in Occupants(u) : residents[r].is_owner}

Newcomer(u, c) == [unit_id |-> u, status |-> "pending", public_key |-> NULL,
                   is_owner |-> Owners(u) = {}, contact |-> c, revoked |-> FALSE]

\* Exactly one owner among the residents who are not revoked, and never more
\* of them than the unit has places.
Provision(u, r, c) ==
    /\ UnitExists(u) /\ ~ResidentExists(r)
    /\ Cardinality(Occupants(u)) < units[u]
    /\ IF Owners(u) = {} THEN c \in Contacts ELSE c = NULL
    /\ residents' = [residents EXCEPT ![r] = Newcomer(u, c)]
    /\ \E e \in 0..(clock + TTL) :
          tokens' = [tokens EXCEPT ![r] = [expires_at |-> e, used |-> FALSE]]
    /\ UNCHANGED <<clock, units>>

\* A token is good for one activation, of a resident who is still waiting.
Activate(r, k) ==
    /\ ResidentExists(r) /\ residents[r].status = "pending"
    /\ tokens[r] # NULL /\ ~tokens[r].used
    /\ residents' = [residents EXCEPT ![r].status = "active", ![r].public_key = k]
    /\ tokens' = [tokens EXCEPT ![r].used = TRUE]
    /\ UNCHANGED <<clock, units>>

\* A revoked resident has no key and stays revoked.
Revoke(r) ==
    /\ ResidentExists(r)
    /\ residents' = [residents EXCEPT ![r].status = "revoked",
                                      ![r].public_key = NULL, ![r].revoked = TRUE]
    /\ UNCHANGED <<clock, units, tokens>>

UpdateContact(r, c) ==
    /\ ResidentExists(r) /\ residents[r].is_owner
    /\ residents' = [residents EXCEPT ![r].contact = c]
    /\ UNCHANGED <<clock, units, tokens>>

CreateUnit(u, m) ==
    /\ units[u] = NULL
    /\ units' = [units EXCEPT ![u] = m]
    /\ UNCHANGED <<clock, residents, tokens>>

\* The capacity never drops below the number of residents it has to hold.
SetCapacity(u, m) ==
    /\ UnitExists(u) /\ Cardinality(Occupants(u)) <= m
    /\ units' = [units EXCEPT ![u] = m]
    /\ UNCHANGED <<clock, residents, tokens>>

\* A unit goes only if no resident, revoked or not, ever belonged to it.
DeleteUnit(u) ==
    /\ UnitExists(u) /\ Members(u) = {}
    /\ units' = [units EXCEPT ![u] = DELETED]
    /\ UNCHANGED <<clock, residents, tokens>>

\* Only tokens that can no longer activate anybody are removed.
PurgeTokens(dead) ==
    /\ \A r \in dead : tokens[r] # NULL /\ (tokens[r].used \/ tokens[r].expires_at < clock)
    /\ tokens' = [r \in Residents |-> IF r \in dead THEN NULL ELSE tokens[r]]
    /\ UNCHANGED <<clock, units, residents>>

Tick == clock < MaxTime /\ clock' = clock + 1 /\ UNCHANGED <<units, residents, tokens>>

Init ==
    /\ clock = 0
    /\ units = [u \in Units |-> NULL]
    /\ residents = [r \in Residents |-> NULL]
    /\ tokens = [r \in Residents |-> NULL]

Next ==
    \/ \E u \in Units, r \in Residents, c \in Contacts \cup {NULL} : Provision(u, r, c)
    \/ \E r \in Residents, k \in Keys : Activate(r, k)
    \/ \E r \in Residents : Revoke(r)
    \/ \E r \in Residents, c \in Contacts : UpdateContact(r, c)
    \/ \E u \in Units, m \in Capacities : CreateUnit(u, m) \/ SetCapacity(u, m)
    \/ \E u \in Units : DeleteUnit(u)
    \/ \E dead \in SUBSET Residents : PurgeTokens(dead)
    \/ Tick

Spec == Init /\ [][Next]_vars
=============================================================================
