-------------------------------- MODULE Gate --------------------------------
(***************************************************************************)
(* The whole backend: the registry of Backend, the checker accounts and    *)
(* the requests of checkers, over one database.  Verification only reads   *)
(* what the registry writes; what it writes, the scan rows of the audit    *)
(* log, the cleanup purges and UnitsStay keeps out of everybody's way.     *)
(***************************************************************************)
EXTENDS Backend, AccessService

gateVars == <<vars, accountVars, call, scans>>

GateInit == Init /\ AccountsInit /\ AccessInit

\* purge_old_audit_logs takes the old rows of scans like all others.
RegistryNext ==
    \/ /\ \E p \in Requests : CleanupCommit(p)
       /\ scans' = {e \in scans : e.at >= Cutoff}
    \/ /\ \/ \E p \in Requests : \/ ResidentServiceNext(p) \/ UnitServiceNext(p)
                                 \/ CleanupBegin(p) \/ CleanupTokens(p) \/ CleanupRow(p)
                                 \/ Fail(p)
          \/ Tick
       /\ UNCHANGED scans

GateNext ==
    \/ RegistryNext /\ UNCHANGED <<accountVars, call>>
    \/ AccountsNext /\ UNCHANGED <<vars, call, scans>>
    \/ (\E s \in Calls : CallNext(s)) /\ UNCHANGED <<vars, accountVars>>

GateSpec == GateInit /\ [][GateNext]_gateVars

-----------------------------------------------------------------------------
\* Accounts and requests of checkers have the shape of their rows and locals;
\* no token outlives its lifetime.
GateTypeOK ==
    /\ checkers \in [Checkers -> CheckerRow \cup {NULL}]
    /\ jwts \in [Checkers -> SUBSET Jwt]
    /\ \A c \in Checkers : \A t \in jwts[c] : t.exp <= clock + JwtTTL
    /\ desk \in [Desks -> DeskState]
    /\ call \in [Calls -> CallState]
    /\ scans \subseteq ScanRow

-----------------------------------------------------------------------------
(* Who is let in. *)

\* Some answer in flight, or just given, lets resident r in with key k.
LettingIn(r, k) ==
    \E s \in Calls :
        call[s].verdict = "valid" /\ call[s].code.resident = r /\ call[s].code.key = k

ShutOut(r) == SettledRevoked(r) /\ \A k \in Keys : ~LettingIn(r, k)

\* Once a revocation is committed, no registration overlaps it and the scans
\* already judged are answered, no code of the resident is ever found valid
\* again: verify's stale row costs at most the requests in flight.
RevokedIsShutOut ==
    [][\A r \in Residents : ShutOut(r) => ShutOut(r)']_gateVars

BoundOnly(r, k) ==
    SettledActive(r, k) /\ \A j \in Keys \ {k} : ~LettingIn(r, j)

\* While a device is bound nobody passes the gate with another device of the
\* same resident, however registrations, revocations and scans overlap.
OnlyTheBoundKeyOpens ==
    [][\A r \in Residents, k \in Keys :
          BoundOnly(r, k) => \A j \in Keys \ {k} : ~LettingIn(r, j)']_gateVars

\* The key with which resident r can open the gate, as the committed row has it.
OpensFor(r) ==
    IF ResidentExists(r) /\ residents[r].status = "active" THEN residents[r].public_key ELSE NULL

ASSUME QuestionAssumption ==
    NULL \notin [resident : Residents \cup {NULL}, key : Keys \cup {NULL},
                verdict : Verdicts \cup {NULL}]

\* The question that call s is about, if it is a verification.
Asked(s) ==
    IF call[s].step \in {"idle", "audit_page", "audit_answered"} THEN NULL
    ELSE [resident |-> IF call[s].code = NULL THEN NULL ELSE call[s].code.resident,
          key      |-> IF call[s].code = NULL THEN NULL ELSE call[s].code.key,
          verdict  |-> call[s].verdict]

TheDoor == INSTANCE Door WITH opens <- [r \in Residents |-> OpensFor(r)],
                              asked <- [s \in Calls |-> Asked(s)]

\* verify spreads its checks over several awaits and still answers as if it had
\* looked once: its verdict is what the registry held at one instant.
ImplementsDoor == TheDoor!Spec

\* The log of scans tells the truth for as long as it is kept: the unit named is
\* that of the resident and has not been deleted since, although delete asks only
\* for residents who are not revoked; and no scan succeeded of a resident whose
\* device is still to be activated.
UnitsStay ==
    \A e \in scans :
        e.unit # NULL =>
            /\ UnitExists(e.unit)
            /\ ResidentExists(e.resident) /\ residents[e.resident].unit_id = e.unit
            /\ e.verdict = "valid" => residents[e.resident].status # "pending"

-----------------------------------------------------------------------------
(* Who may ask. *)

Updating(c) == {d \in Desks : desk[d].step \in {"update_flush", "update_commit"}
                              /\ desk[d].checker = c}

CallsOf(c) == {s \in Calls : call[s].checker = c}

Reactivating(c) == \E d \in Updating(c) : desk[d].is_active = TRUE /\ ActiveChanged(d)

SwitchedOff(c) ==
    /\ CheckerExists(c) /\ ~checkers[c].is_active
    /\ ~Reactivating(c)
    /\ CallsOf(c) = {}

\* A checker who was deactivated, and whose requests in flight have ended, gets
\* no further answer with any token, until an admin who has seen the account
\* inactive switches it on: no overlapping change of role undoes the deactivation.
DeactivationIsFinal ==
    [][\A c \in Checkers : SwitchedOff(c) => SwitchedOff(c)' \/ Reactivating(c)']_gateVars

Promoting(c) == \E d \in Updating(c) : desk[d].role = "manager" /\ RoleChanged(d)

MereGuard(c) ==
    /\ CheckerExists(c) /\ checkers[c].role = "guard"
    /\ ~Promoting(c)
    /\ \A s \in CallsOf(c) : call[s].role = "guard"

\* A manager made a guard, once the requests in flight have ended, is told no
\* resident's name and sees no audit page, although the tokens issued before
\* still name the role of manager.
DemotionIsFinal ==
    [][\A c \in Checkers : MereGuard(c) => MereGuard(c)' \/ Promoting(c)']_gateVars

\* Two checkers never share a name, whichever requests to create them overlap:
\* authenticate takes the one row it finds (scalar_one_or_none).
UsernamesUnique ==
    \A c, d \in Checkers :
        CheckerExists(c) /\ CheckerExists(d) /\ checkers[c].username = checkers[d].username
            => c = d
=============================================================================
