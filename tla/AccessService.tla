---------------------------- MODULE AccessService ----------------------------
(***************************************************************************)
(* The requests of checkers: app/services/access_service.py behind         *)
(* POST /access/verify, and the reading of the audit log by a manager.     *)
(*                                                                         *)
(* One action per database statement.  The session keeps every row it has  *)
(* loaded (the identity map), so verify decides by the checker row that    *)
(* get_current_checker read and by the resident row of its own SELECT,     *)
(* and db.get of either returns what is already there.                     *)
(***************************************************************************)
EXTENDS Accounts

CONSTANTS
    Calls,      \* slots for requests of checkers in flight
    Tolerance,  \* QR_TIMESTAMP_TOLERANCE_SEC
    MaxScans    \* bound on the different scan rows in the audit log

ASSUME ToleranceAssumption == Tolerance \in Nat /\ MaxScans \in Nat

VARIABLES
    call,   \* call[s]: the request in flight at s
    scans   \* the rows of audit_logs that verifications wrote

CallSteps == {"idle", "verify_resident", "verify_log", "verify_unit", "verify_answered",
              "audit_page", "audit_answered"}

\* What a QR code says once it parses: whose it is, the key that signed it and
\* when.  The clocks of devices are off by any amount.
CodeTimes == 0 .. (MaxTime + Tolerance + 1)
Codes     == [resident : Residents, key : Keys, at : CodeTimes]
Verdicts  == {"valid", "invalid", "expired"}

ASSUME CodeAssumption == NULL \notin Codes \cup Verdicts

\* A row scan_success, scan_failed_expired or scan_failed_bad_signature.
ScanRow == [resident : Residents \cup {NULL}, unit : Units \cup {NULL},
            verdict  : Verdicts, at : 0 .. MaxTime]

CallState == [step    : CallSteps,
              checker : Checkers \cup {NULL},
              role    : Roles \cup {NULL},      \* of the checker row loaded
              code    : Codes \cup {NULL},      \* NULL: the payload does not parse
              verdict : Verdicts \cup {NULL},
              unit    : Units \cup {NULL},      \* of the resident row found
              began   : 0 .. MaxTime]

NoCall == [step |-> "idle", checker |-> NULL, role |-> NULL, code |-> NULL, verdict |-> NULL,
           unit |-> NULL, began |-> 0]

Proceeds(s, step) == call' = [call EXCEPT ![s].step = step]

-----------------------------------------------------------------------------
(* verify: POST /access/verify *)

Fresh(code) == clock - code.at \in -Tolerance .. Tolerance

\* What is decided before any statement: a payload that does not parse and a
\* timestamp too far from the server's clock.
FirstVerdict(code) ==
    IF code = NULL THEN "invalid" ELSE IF Fresh(code) THEN NULL ELSE "expired"

\* get_current_checker has loaded the row; the rate limit lets the request pass
\* (a refusal is a CallEnd).
VerifyBegin(s, c, t, code) ==
    /\ call[s] = NoCall
    /\ Authorised(c, t)
    /\ call' = [call EXCEPT ![s] =
          [step    |-> IF code = NULL THEN "verify_log" ELSE "verify_resident",
           checker |-> c, role |-> RoleOf(c, t), code |-> code,
           verdict |-> FirstVerdict(code), unit |-> NULL, began |-> clock]]

\* Mutant: whoever has a key is let in, active or not.
Genuine_AnyStatus(code) ==
    LET row == residents[code.resident]
    IN row # NULL /\ row.public_key = code.key

\* Mutant: the signature is not compared with the key of the resident.
Genuine_AnyKey(code) ==
    LET row == residents[code.resident]
    IN row # NULL /\ row.status = "active" /\ row.public_key # NULL

\* The resident is active and the signature verifies under the stored key.
Genuine(code) ==
    LET row == residents[code.resident]
    IN row # NULL /\ row.status = "active" /\ row.public_key = code.key

Verdict(s) ==
    IF call[s].verdict # NULL THEN call[s].verdict
    ELSE IF Genuine(call[s].code) THEN "valid" ELSE "invalid"

UnitOf(code) ==
    IF ResidentExists(code.resident) THEN residents[code.resident].unit_id ELSE NULL

\* The SELECT of the resident, which decides; an expired code, decided already,
\* also has it, in _reject, for the unit of the audit row.
VerifyResident(s) ==
    /\ call[s].step = "verify_resident"
    /\ call' = [call EXCEPT ![s].step = "verify_log", ![s].verdict = Verdict(s),
                            ![s].unit = UnitOf(call[s].code)]

\* The audit row is inserted (its foreign key waits for nobody: see UnitsStay in
\* Gate); a manager is also told the resident's unit.
VerifyLog(s) ==
    /\ call[s].step = "verify_log"
    /\ Proceeds(s, IF call[s].verdict = "valid" /\ call[s].role = "manager"
                   THEN "verify_unit" ELSE "verify_answered")

VerifyUnit(s) == call[s].step = "verify_unit" /\ Proceeds(s, "verify_answered")

\* _log_action: the row has the start time of the transaction.
Scan(s) == [resident |-> IF call[s].code = NULL THEN NULL ELSE call[s].code.resident,
            unit |-> call[s].unit, verdict |-> call[s].verdict, at |-> call[s].began]

\* The commit, after the answer.
VerifyCommit(s) ==
    /\ call[s].step = "verify_answered"
    /\ Cardinality(scans \cup {Scan(s)}) <= MaxScans
    /\ scans' = scans \cup {Scan(s)}
    /\ call' = [call EXCEPT ![s] = NoCall]

-----------------------------------------------------------------------------
(* GET /audit-logs, for managers (and staff admins, who are no checkers). *)

AuditBegin(s, c, t) ==
    /\ call[s] = NoCall
    /\ Authorised(c, t)
    /\ RoleOf(c, t) = "manager"
    /\ call' = [call EXCEPT ![s] = [NoCall EXCEPT !.step = "audit_page", !.checker = c,
                                                  !.role = RoleOf(c, t)]]

AuditPage(s) == call[s].step = "audit_page" /\ Proceeds(s, "audit_answered")

-----------------------------------------------------------------------------
\* The session ends without a change of rows: it only read, the rate limit
\* refused the request, a statement or the commit failed, or the server
\* restarted.  What was answered stays answered, even if it is not committed.
CallEnd(s) == call[s] # NoCall /\ call' = [call EXCEPT ![s] = NoCall]

AccessInit == call = [s \in Calls |-> NoCall] /\ scans = {}

CallNext(s) ==
    \/ VerifyCommit(s)
    \/ /\ \/ \E c \in Checkers, code \in Codes \cup {NULL} :
                \E t \in jwts[c] : VerifyBegin(s, c, t, code)
          \/ VerifyResident(s)
          \/ VerifyLog(s)
          \/ VerifyUnit(s)
          \/ \E c \in Checkers : \E t \in jwts[c] : AuditBegin(s, c, t)
          \/ AuditPage(s)
          \/ CallEnd(s)
       /\ UNCHANGED scans
=============================================================================
