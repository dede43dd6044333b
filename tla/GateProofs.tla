----------------------------- MODULE GateProofs -----------------------------
(***************************************************************************)
(* Theorems about Gate for every set of residents, keys, checkers and      *)
(* slots.  Every step of the gate is a step or a stutter of the registry,  *)
(* so the theorems of BackendProofs hold of it too; what is added is what  *)
(* a request of a checker and a request of an admin rely on between two    *)
(* statements (CallsOK, DesksOK).                                          *)
(***************************************************************************)
EXTENDS Gate, BackendProofs

\* A step of the gate is one of the registry or leaves the registry alone.
LEMMA RegistryStep == [GateNext]_gateVars => [Next]_vars
BY DEF GateNext, RegistryNext, Next, Handler, CleanupServiceNext, gateVars

\* The gate changes nothing in what the registry may do: its specification is
\* that of the registry with variables of its own.
THEOREM GateRunsRegistry == GateSpec => Spec
<1>1. GateInit => Init
  BY DEF GateInit
<1> QED BY <1>1, RegistryStep, PTL DEF GateSpec, Spec

-----------------------------------------------------------------------------
(* What the requests of checkers and of admins rely on. *)

\* A verification has judged the age of the code, and nothing else, before its
\* SELECT of the resident.
CallsOK ==
    \A s \in Calls :
        /\ call[s].step = "verify_resident" =>
              call[s].code # NULL /\ call[s].verdict \in {NULL, "expired"}
        /\ call[s].step \in {"audit_page", "audit_answered"} => call[s].verdict = NULL
        /\ call[s].step \in {"verify_log", "verify_unit", "verify_answered"} => call[s].verdict # NULL

Creating(d) == desk[d].step \in {"create_insert", "create_commit"}

\* The id of a row to be inserted is nobody's, and of two inserts past the index
\* none has a name that is taken or the name of the other.
CreateOK(d) ==
    /\ Creating(d) =>
          /\ desk[d].checker \in Checkers /\ ~CheckerExists(desk[d].checker)
          /\ desk[d].username \in Usernames /\ desk[d].role \in Roles
          /\ \A e \in Desks \ {d} : desk[e].checker # desk[d].checker
    /\ desk[d].step = "create_commit" =>
          /\ ~Taken(desk[d].username)
          /\ \A e \in Desks \ {d} :
                desk[e].step = "create_commit" => desk[e].username # desk[d].username

UpdateOK(d) ==
    desk[d].step \in {"update_flush", "update_commit"} =>
        desk[d].checker \in Checkers /\ CheckerExists(desk[d].checker)

DesksOK == \A d \in Desks : CreateOK(d) /\ UpdateOK(d)

GInv == GateTypeOK /\ CallsOK /\ DesksOK /\ UsernamesUnique

\* The clock is a number.
LEMMA ClockNat == IInv => clock \in Nat
BY TimeAssumption DEF IInv, TypeOK

\* The accounts that seed.py left, and nobody at work, satisfy the invariant.
LEMMA GateInitGInv == GateInit => GInv
<1> SUFFICES ASSUME GateInit PROVE GInv
  OBVIOUS
<1> USE DEF GateInit, Init, AccountsInit, AccessInit, Vacant, NoCall
<1>1. GateTypeOK
  BY AccountAssumption, TimeAssumption DEF GateTypeOK, DeskState, DeskSteps, CallState, CallSteps
<1>2. CallsOK /\ DesksOK
  BY DEF CallsOK, DesksOK, CreateOK, UpdateOK, Creating
<1>3. UsernamesUnique
  BY SeedAssumption DEF UsernamesUnique, CheckerExists
<1> QED BY <1>1, <1>2, <1>3 DEF GInv

-----------------------------------------------------------------------------
(* Requests of admins *)

\* A step of desk d that changes no row keeps GInv if d's own facts hold after
\* it and the checker it goes for is not about to be created at another desk.
LEMMA QuietDesk ==
    ASSUME GInv, NEW d \in Desks, NEW x \in DeskState,
           desk' = [desk EXCEPT ![d] = x],
           UNCHANGED <<clock, checkers, jwts, call, scans>>,
           \A e \in Desks \ {d} : Creating(e) => x.checker # desk[e].checker,
           x.step = "create_commit" =>
              \A e \in Desks \ {d} : desk[e].step = "create_commit" => desk[e].username # x.username,
           CreateOK(d)', UpdateOK(d)'
    PROVE  GInv'
<1> USE DEF GInv
<1>1. desk \in [Desks -> DeskState]
  BY DEF GateTypeOK
<1>2. GateTypeOK'
  BY <1>1 DEF GateTypeOK
<1>3. CallsOK'
  BY DEF CallsOK
<1>4. UsernamesUnique'
  BY DEF UsernamesUnique, CheckerExists
<1>5. ASSUME NEW e \in Desks, e # d PROVE CreateOK(e)' /\ UpdateOK(e)'
  <2>1. desk'[e] = desk[e] /\ desk'[d] = x
    BY <1>1, <1>5
  <2>2. CreateOK(e)'
    BY <1>1, <1>5, <2>1 DEF DesksOK, CreateOK, Creating, CheckerExists, Taken
  <2>3. UpdateOK(e)'
    BY <2>1 DEF DesksOK, UpdateOK, CheckerExists
  <2> QED BY <2>2, <2>3
<1> QED BY <1>2, <1>3, <1>4, <1>5 DEF DesksOK

\* The end of a request without a change of rows.
LEMMA LeaveGInv ==
    ASSUME GInv, NEW d \in Desks, Leave(d), UNCHANGED <<clock, checkers, call, scans>>
    PROVE  GInv'
<1>1. desk' = [desk EXCEPT ![d] = Vacant] /\ UNCHANGED <<clock, checkers, jwts, call, scans>>
  BY DEF Leave
<1>2. Vacant \in DeskState
  BY DEF Vacant, DeskState, DeskSteps
<1>3. CreateOK(d)' /\ UpdateOK(d)'
  BY <1>1 DEF GInv, GateTypeOK, CreateOK, UpdateOK, Creating, Vacant
<1>4. \A e \in Desks \ {d} : Creating(e) => Vacant.checker # desk[e].checker
  BY AccountAssumption DEF Vacant, GInv, DesksOK, CreateOK
<1>5. Vacant.step # "create_commit"
  BY DEF Vacant
<1> QED BY <1>1, <1>2, <1>3, <1>4, <1>5, QuietDesk

\* The lookup and the insert of create.
LEMMA CreateGInv ==
    ASSUME GInv, UNCHANGED <<clock, call, scans>>, NEW d \in Desks,
           \/ \E c \in Checkers, n \in Usernames, r \in Roles : CheckerLookup(d, c, n, r)
           \/ CheckerInsert(d)
    PROVE  GInv'
<1>1. ASSUME NEW c \in Checkers, NEW n \in Usernames, NEW r \in Roles, CheckerLookup(d, c, n, r)
      PROVE  GInv'
  <2> DEFINE x == [Vacant EXCEPT !.step = "create_insert", !.checker = c, !.username = n, !.role = r]
  <2>1. desk' = [desk EXCEPT ![d] = x] /\ UNCHANGED <<checkers, jwts>> /\ FreshChecker(c)
    BY <1>1 DEF CheckerLookup
  <2>2. x \in DeskState /\ x.step = "create_insert" /\ x.checker = c /\ x.username = n /\ x.role = r
    BY DEF Vacant, DeskState, DeskSteps
  <2> HIDE DEF x
  <2>3. desk'[d] = x /\ \A e \in Desks \ {d} : desk'[e] = desk[e]
    BY <2>1 DEF GInv, GateTypeOK
  <2>4. CreateOK(d)' /\ UpdateOK(d)'
    BY <2>1, <2>2, <2>3 DEF CreateOK, UpdateOK, Creating, FreshChecker, CheckerExists
  <2> QED BY <2>1, <2>2, <2>4, QuietDesk DEF FreshChecker
<1>2. CASE CheckerInsert(d) /\ Taken(desk[d].username)
  BY <1>2, LeaveGInv DEF CheckerInsert
<1>3. CASE CheckerInsert(d) /\ ~Taken(desk[d].username)
  <2> DEFINE x == [desk[d] EXCEPT !.step = "create_commit"]
  <2>1. /\ desk' = [desk EXCEPT ![d] = x] /\ UNCHANGED <<checkers, jwts>>
        /\ desk[d].step = "create_insert"
        /\ \A e \in Desks : desk[e].step = "create_commit" => desk[e].username # desk[d].username
    BY <1>3 DEF CheckerInsert
  <2>2. /\ x \in DeskState /\ x.step = "create_commit" /\ x.checker = desk[d].checker
        /\ x.username = desk[d].username /\ x.role = desk[d].role
    BY DEF GInv, GateTypeOK, DeskState, DeskSteps
  <2> HIDE DEF x
  <2>3. desk'[d] = x /\ \A e \in Desks \ {d} : desk'[e] = desk[e]
    BY <2>1 DEF GInv, GateTypeOK
  <2>4. CreateOK(d) /\ Creating(d)
    BY <2>1 DEF GInv, DesksOK, Creating
  <2>5. CreateOK(d)'
    BY <1>3, <2>1, <2>2, <2>3, <2>4 DEF CreateOK, Creating, CheckerExists, Taken
  <2>6. UpdateOK(d)'
    BY <2>2, <2>3 DEF UpdateOK
  <2>7. \A e \in Desks \ {d} : Creating(e) => x.checker # desk[e].checker
    BY <2>2, <2>4 DEF CreateOK
  <2> QED BY <2>1, <2>2, <2>5, <2>6, <2>7, QuietDesk
<1> QED BY <1>1, <1>2, <1>3

\* The load and the flush of update.
LEMMA UpdateGInv ==
    ASSUME GInv, UNCHANGED <<clock, call, scans>>, NEW d \in Desks,
           \/ \E c \in Checkers, r \in Roles \cup {NULL}, a \in BOOLEAN \cup {NULL} :
                 UpdateLoad(d, c, r, a)
           \/ UpdateFlush(d)
    PROVE  GInv'
<1>1. ASSUME NEW c \in Checkers, NEW r \in Roles \cup {NULL}, NEW a \in BOOLEAN \cup {NULL},
             UpdateLoad(d, c, r, a)
      PROVE  GInv'
  <2> DEFINE x == [Vacant EXCEPT !.step = "update_flush", !.checker = c,
                                 !.role = r, !.is_active = a, !.seen = checkers[c]]
  <2>1. desk' = [desk EXCEPT ![d] = x] /\ UNCHANGED <<checkers, jwts>> /\ CheckerExists(c)
    BY <1>1 DEF UpdateLoad
  <2>2. x \in DeskState /\ x.step = "update_flush" /\ x.checker = c
    BY DEF Vacant, DeskState, DeskSteps, GInv, GateTypeOK
  <2> HIDE DEF x
  <2>3. desk'[d] = x
    BY <2>1 DEF GInv, GateTypeOK
  <2>4. CreateOK(d)' /\ UpdateOK(d)'
    BY <2>1, <2>2, <2>3 DEF CreateOK, UpdateOK, Creating, CheckerExists
  <2>5. \A e \in Desks \ {d} : Creating(e) => x.checker # desk[e].checker
    BY <2>1, <2>2 DEF GInv, DesksOK, CreateOK
  <2> QED BY <2>1, <2>2, <2>4, <2>5, QuietDesk
<1>2. CASE UpdateFlush(d)
  <2> DEFINE x == [desk[d] EXCEPT !.step = "update_commit"]
  <2>1. /\ desk' = [desk EXCEPT ![d] = x] /\ UNCHANGED <<checkers, jwts>>
        /\ desk[d].step = "update_flush"
    BY <1>2 DEF UpdateFlush
  <2>2. x \in DeskState /\ x.step = "update_commit" /\ x.checker = desk[d].checker
    BY DEF GInv, GateTypeOK, DeskState, DeskSteps
  <2> HIDE DEF x
  <2>3. desk'[d] = x
    BY <2>1 DEF GInv, GateTypeOK
  <2>4. UpdateOK(d) /\ desk[d].checker \in Checkers /\ CheckerExists(desk[d].checker)
    BY <2>1 DEF GInv, DesksOK, UpdateOK
  <2>5. CreateOK(d)' /\ UpdateOK(d)'
    BY <2>1, <2>2, <2>3, <2>4 DEF CreateOK, UpdateOK, Creating, CheckerExists
  <2>6. \A e \in Desks \ {d} : Creating(e) => x.checker # desk[e].checker
    BY <2>2, <2>4 DEF GInv, DesksOK, CreateOK
  <2> QED BY <2>1, <2>2, <2>5, <2>6, QuietDesk
<1> QED BY <1>1, <1>2

\* The commit of a desk replaces one row by one of the right type, whose name is
\* the one it had or one that nobody has.
LEMMA DeskCommitGInv ==
    ASSUME GInv, UNCHANGED <<clock, call, scans>>, NEW d \in Desks, Leave(d),
           NEW c \in Checkers, c = desk[d].checker, NEW row \in CheckerRow,
           checkers' = [checkers EXCEPT ![c] = row],
           IF CheckerExists(c)
           THEN row.username = checkers[c].username
           ELSE desk[d].step = "create_commit" /\ row.username = desk[d].username
    PROVE  GInv'
<1> USE DEF GInv
<1>1. /\ desk' = [desk EXCEPT ![d] = Vacant] /\ jwts' = jwts
      /\ Vacant \in DeskState /\ Vacant.step = "idle" /\ Vacant.checker = NULL
  BY DEF Leave, Vacant, DeskState, DeskSteps
<1>2. GateTypeOK'
  BY <1>1 DEF GateTypeOK
<1>3. CallsOK'
  BY DEF CallsOK
<1>4. row # NULL /\ checkers'[c] = row /\ \A b \in Checkers \ {c} : checkers'[b] = checkers[b]
  BY AccountAssumption DEF GateTypeOK
<1>5. ASSUME NEW b \in Checkers, b # c, CheckerExists(b) PROVE checkers[b].username # row.username
  <2>1. CASE CheckerExists(c)
    BY <1>5, <2>1 DEF UsernamesUnique
  <2>2. CASE ~CheckerExists(c)
    BY <1>5, <2>2 DEF DesksOK, CreateOK, Taken
  <2> QED BY <2>1, <2>2
<1>6. UsernamesUnique'
  BY <1>4, <1>5 DEF UsernamesUnique, CheckerExists
<1>7. ASSUME NEW e \in Desks, e # d PROVE CreateOK(e)' /\ UpdateOK(e)'
  <2>1. desk'[e] = desk[e] /\ desk'[d] = Vacant
    BY <1>1, <1>7 DEF GateTypeOK
  <2>2. Creating(e) => desk[e].checker # c
    BY <1>7 DEF DesksOK, CreateOK
  <2>3. desk[e].step = "create_commit" => desk[e].username # row.username
    <3>1. CASE CheckerExists(c)
      BY <3>1 DEF DesksOK, CreateOK, Taken
    <3>2. CASE ~CheckerExists(c)
      BY <1>7, <3>2 DEF DesksOK, CreateOK
    <3> QED BY <3>1, <3>2
  <2>4. Creating(e)' => CheckerExists(desk[e].checker)' = CheckerExists(desk[e].checker)
    BY <1>4, <1>7, <2>1, <2>2 DEF CheckerExists, Creating, DesksOK, CreateOK
  <2>5. desk[e].step = "create_commit" => ~(Taken(desk[e].username)')
    <3> SUFFICES ASSUME desk[e].step = "create_commit", NEW b \in Checkers,
                        checkers'[b] # NULL, checkers'[b].username = desk[e].username
                 PROVE  FALSE
      BY <2>1 DEF Taken, CheckerExists
    <3>1. CASE b = c
      BY <1>4, <2>3, <3>1
    <3>2. CASE b # c
      BY <1>4, <1>7, <3>2 DEF DesksOK, CreateOK, Taken, CheckerExists
    <3> QED BY <3>1, <3>2
  <2>6. \A o \in Desks \ {e} : desk'[o] \in {desk[o], Vacant}
    BY <1>1 DEF GateTypeOK
  <2>7. Creating(e) => Vacant.checker # desk[e].checker
    BY <1>1, <1>7, AccountAssumption DEF DesksOK, CreateOK
  <2>8. CreateOK(e)'
    <3>1. CreateOK(e)
      BY DEF DesksOK
    <3>2. ASSUME Creating(e)
          PROVE  /\ desk[e].checker \in Checkers /\ ~(CheckerExists(desk[e].checker)')
                 /\ \A o \in Desks \ {e} : desk'[o].checker # desk[e].checker
      BY <1>1, <2>1, <2>4, <2>6, <2>7, <3>1, <3>2 DEF CreateOK, Creating
    <3> QED BY <1>1, <2>1, <2>5, <2>6, <3>1, <3>2 DEF CreateOK, Creating
  <2>9. UpdateOK(e)'
    BY <1>4, <2>1 DEF DesksOK, UpdateOK, CheckerExists
  <2> QED BY <2>8, <2>9
<1>8. CreateOK(d)' /\ UpdateOK(d)'
  BY <1>1 DEF GateTypeOK, CreateOK, UpdateOK, Creating
<1> QED BY <1>2, <1>3, <1>6, <1>7, <1>8 DEF DesksOK

\* The commit of create.
LEMMA CheckerCommitGInv ==
    ASSUME GInv, UNCHANGED <<clock, call, scans>>, NEW d \in Desks, CheckerCommit(d)
    PROVE  GInv'
<1> DEFINE row == [username |-> desk[d].username, role |-> desk[d].role, is_active |-> TRUE]
<1>1. Leave(d) /\ checkers' = [checkers EXCEPT ![desk[d].checker] = row]
  BY DEF CheckerCommit
<1>2. /\ desk[d].checker \in Checkers /\ ~CheckerExists(desk[d].checker)
      /\ desk[d].step = "create_commit" /\ row \in CheckerRow
  BY DEF CheckerCommit, GInv, DesksOK, CreateOK, Creating, CheckerRow
<1> QED BY <1>1, <1>2, DeskCommitGInv

\* An update keeps the name and the type of its row.
LEMMA UpdatedRow ==
    ASSUME GateTypeOK, NEW d \in Desks, NEW row \in CheckerRow
    PROVE  Updated(d, row) \in CheckerRow /\ Updated(d, row).username = row.username
<1>1. desk[d].role \in Roles \cup {NULL} /\ desk[d].is_active \in BOOLEAN \cup {NULL}
  BY DEF GateTypeOK, DeskState
<1> QED BY <1>1 DEF Updated, CheckerRow, RoleChanged, ActiveChanged

\* The commit of update.
LEMMA UpdateCommitGInv ==
    ASSUME GInv, UNCHANGED <<clock, call, scans>>, NEW d \in Desks, UpdateCommit(d)
    PROVE  GInv'
<1> DEFINE c == desk[d].checker
           row == Updated(d, checkers[c])
<1>1. c \in Checkers /\ CheckerExists(c) /\ Leave(d) /\ checkers' = [checkers EXCEPT ![c] = row]
  BY DEF UpdateCommit, GInv, DesksOK, UpdateOK
<1>2. checkers[c] \in CheckerRow
  BY <1>1 DEF GInv, GateTypeOK, CheckerExists
<1>3. row \in CheckerRow /\ row.username = checkers[c].username
  BY <1>2, UpdatedRow DEF GInv
<1> HIDE DEF row
<1> QED BY <1>1, <1>3, DeskCommitGInv

\* A login adds one token.
LEMMA LoginGInv ==
    ASSUME GInv, clock \in Nat, UNCHANGED <<clock, call, scans>>, NEW c \in Checkers, Login(c)
    PROVE  GInv'
<1> DEFINE t == [role |-> checkers[c].role, exp |-> clock + JwtTTL]
<1>1. jwts' = [jwts EXCEPT ![c] = @ \cup {t}] /\ UNCHANGED <<checkers, desk>>
  BY DEF Login
<1>2. t \in Jwt /\ t.exp <= clock + JwtTTL
  BY AccountAssumption DEF GInv, GateTypeOK, CheckerRow, Jwt, Login, MayLogin, CheckerExists
<1> HIDE DEF t
<1>3. jwts' \in [Checkers -> SUBSET Jwt]
  BY <1>1, <1>2 DEF GInv, GateTypeOK
<1>4. \A b \in Checkers : \A o \in jwts'[b] : o.exp <= clock + JwtTTL
  BY <1>1, <1>2 DEF GInv, GateTypeOK
<1>5. GateTypeOK'
  BY <1>1, <1>3, <1>4 DEF GInv, GateTypeOK
<1>6. CallsOK' /\ DesksOK' /\ UsernamesUnique'
  BY <1>1 DEF GInv, CallsOK, DesksOK, CreateOK, UpdateOK, Creating, CheckerExists, Taken, UsernamesUnique
<1> QED BY <1>5, <1>6 DEF GInv

\* Every request of an admin, and every login.
LEMMA AccountsGInv ==
    ASSUME GInv, clock \in Nat, AccountsNext, UNCHANGED <<vars, call, scans>>
    PROVE  GInv'
<1>1. UNCHANGED <<clock, call, scans>>
  BY DEF vars
<1>2. ASSUME NEW d \in Desks, DeskNext(d) PROVE GInv'
  BY <1>1, <1>2, CreateGInv, CheckerCommitGInv, UpdateGInv, UpdateCommitGInv, LeaveGInv
     DEF DeskNext, DeskFail
<1> QED BY <1>1, <1>2, LoginGInv DEF AccountsNext

-----------------------------------------------------------------------------
(* Requests of checkers *)

\* A code is found valid by the SELECT of the resident, if nothing was decided
\* before; no other step of a call changes the verdict but the first and the last.
LEMMA VerdictChanges ==
    ASSUME GInv, NEW s \in Calls, CallNext(s), NEW o \in Calls, call'[o] # call[o]
    PROVE  /\ o = s
           /\ \/ call[s] = NoCall /\ call'[s].verdict \in {NULL, "invalid", "expired"}
              \/ /\ VerifyResident(s)
                 /\ call'[s].verdict = Verdict(s) /\ call'[s].code = call[s].code
              \/ call'[s].verdict = call[s].verdict /\ call'[s].code = call[s].code
              \/ call'[s] = NoCall
<1> USE DEF GInv, GateTypeOK
<1>1. ASSUME NEW c \in Checkers, NEW code \in Codes \cup {NULL}, NEW t \in jwts[c],
             VerifyBegin(s, c, t, code)
      PROVE  o = s /\ call[s] = NoCall /\ call'[s].verdict \in {NULL, "invalid", "expired"}
  <2>1. FirstVerdict(code) \in {NULL, "invalid", "expired"}
    BY DEF FirstVerdict
  <2> QED BY <1>1, <2>1 DEF VerifyBegin
<1>2. ASSUME NEW c \in Checkers, NEW t \in jwts[c], AuditBegin(s, c, t)
      PROVE  o = s /\ call[s] = NoCall /\ call'[s].verdict = NULL
  BY <1>2 DEF AuditBegin, NoCall
<1>3. CASE VerifyResident(s)
  BY <1>3 DEF VerifyResident, CallState
<1>4. CASE VerifyLog(s) \/ VerifyUnit(s) \/ AuditPage(s)
  BY <1>4 DEF VerifyLog, VerifyUnit, AuditPage, Proceeds, CallState
<1>5. CASE CallEnd(s) \/ VerifyCommit(s)
  BY <1>5 DEF CallEnd, VerifyCommit
<1> QED BY <1>1, <1>2, <1>3, <1>4, <1>5 DEF CallNext

\* Every statement of a request of a checker.
LEMMA CallGInv ==
    ASSUME IInv, GInv, NEW s \in Calls, CallNext(s), UNCHANGED <<vars, accountVars>>
    PROVE  GInv'
<1> USE DEF GInv
<1>1. UNCHANGED <<clock, checkers, jwts, desk>>
  BY DEF vars, accountVars
<1>2. ASSUME NEW x \in CallState, call' = [call EXCEPT ![s] = x], scans' \subseteq ScanRow,
             x.step = "verify_resident" => x.code # NULL /\ x.verdict \in {NULL, "expired"},
             x.step \in {"audit_page", "audit_answered"} => x.verdict = NULL,
             x.step \in {"verify_log", "verify_unit", "verify_answered"} => x.verdict # NULL
      PROVE  GInv'
  <2>1. GateTypeOK' /\ CallsOK'
    BY <1>1, <1>2 DEF GateTypeOK, CallsOK
  <2>2. DesksOK' /\ UsernamesUnique'
    BY <1>1 DEF DesksOK, CreateOK, UpdateOK, Creating, CheckerExists, Taken, UsernamesUnique
  <2> QED BY <2>1, <2>2
<1>3. ASSUME NEW c \in Checkers, NEW t \in jwts[c], Authorised(c, t) PROVE RoleOf(c, t) \in Roles
  BY <1>3 DEF Authorised, RoleOf, CheckerExists, GateTypeOK, CheckerRow
<1>4. NoCall \in CallState /\ NoCall.verdict = NULL /\ NoCall.step = "idle"
  BY TimeAssumption DEF NoCall, CallState, CallSteps
<1>5. call[s] \in CallState
  BY DEF GateTypeOK
<1>6. ASSUME NEW c \in Checkers, NEW code \in Codes \cup {NULL}, NEW t \in jwts[c],
             VerifyBegin(s, c, t, code), scans' = scans
      PROVE  GInv'
  <2> DEFINE x == [step    |-> IF code = NULL THEN "verify_log" ELSE "verify_resident",
                   checker |-> c, role |-> RoleOf(c, t), code |-> code,
                   verdict |-> FirstVerdict(code), unit |-> NULL, began |-> clock]
  <2>0. /\ FirstVerdict(code) \in {NULL, "invalid", "expired"}
        /\ code = NULL => FirstVerdict(code) = "invalid"
        /\ code # NULL => FirstVerdict(code) \in {NULL, "expired"}
    BY DEF FirstVerdict
  <2>1. call' = [call EXCEPT ![s] = x] /\ RoleOf(c, t) \in Roles
    BY <1>3, <1>6 DEF VerifyBegin
  <2>2. x \in CallState
    BY <2>0, <2>1 DEF CallState, CallSteps, Verdicts, IInv, TypeOK
  <2>3. x.step = "verify_resident" => x.code # NULL /\ x.verdict \in {NULL, "expired"}
    BY <2>0
  <2>4. x.step \notin {"audit_page", "audit_answered", "verify_unit", "verify_answered"}
    OBVIOUS
  <2>5. x.step = "verify_log" => x.verdict # NULL
    BY <2>0, CodeAssumption DEF Verdicts
  <2> HIDE DEF x
  <2> QED BY <1>2, <1>6, <2>1, <2>2, <2>3, <2>4, <2>5 DEF GateTypeOK
<1>7. ASSUME VerifyResident(s), scans' = scans PROVE GInv'
  <2>1. Verdict(s) \in Verdicts /\ NULL \notin Verdicts
    BY <1>5, CodeAssumption DEF Verdict, Verdicts, CallState
  <2>4. UnitOf(call[s].code) \in Units \cup {NULL}
    <3>1. call[s].code \in Codes
      BY <1>5, <1>7 DEF VerifyResident, CallsOK, CallState
    <3> QED BY <3>1 DEF UnitOf, Codes, ResidentExists, IInv, TypeOK, ResidentRow
  <2> DEFINE x == [call[s] EXCEPT !.step = "verify_log", !.verdict = Verdict(s),
                                  !.unit = UnitOf(call[s].code)]
  <2>2. call' = [call EXCEPT ![s] = x]
    BY <1>5, <1>7 DEF VerifyResident
  <2>3. x \in CallState /\ x.step = "verify_log" /\ x.verdict # NULL
    BY <1>5, <2>1, <2>4 DEF CallState, CallSteps
  <2> HIDE DEF x
  <2> QED BY <1>2, <1>7, <2>2, <2>3 DEF GateTypeOK
<1>8. ASSUME NEW step \in {"verify_unit", "verify_answered"}, Proceeds(s, step), scans' = scans,
             call[s].step \in {"verify_log", "verify_unit"}
      PROVE  GInv'
  <2> DEFINE x == [call[s] EXCEPT !.step = step]
  <2>1. call' = [call EXCEPT ![s] = x] /\ x \in CallState /\ x.step = step /\ x.verdict # NULL
    BY <1>5, <1>8 DEF Proceeds, CallState, CallSteps, CallsOK
  <2> HIDE DEF x
  <2> QED BY <1>2, <1>8, <2>1 DEF GateTypeOK
<1>9. ASSUME NEW c \in Checkers, NEW t \in jwts[c], AuditBegin(s, c, t), scans' = scans
      PROVE  GInv'
  <2> DEFINE x == [NoCall EXCEPT !.step = "audit_page", !.checker = c, !.role = RoleOf(c, t)]
  <2>1. call' = [call EXCEPT ![s] = x] /\ RoleOf(c, t) \in Roles
    BY <1>3, <1>9 DEF AuditBegin
  <2>2. x \in CallState /\ x.verdict = NULL /\ x.step = "audit_page"
    BY <1>4, <2>1 DEF CallState, CallSteps
  <2> HIDE DEF x
  <2> QED BY <1>2, <1>9, <2>1, <2>2 DEF GateTypeOK
<1>10. ASSUME AuditPage(s), scans' = scans PROVE GInv'
  <2> DEFINE x == [call[s] EXCEPT !.step = "audit_answered"]
  <2>1. /\ call' = [call EXCEPT ![s] = x] /\ x \in CallState /\ x.step = "audit_answered"
        /\ x.verdict = call[s].verdict /\ call[s].step = "audit_page"
    BY <1>5, <1>10 DEF AuditPage, Proceeds, CallState, CallSteps
  <2> HIDE DEF x
  <2> QED BY <1>2, <1>10, <2>1 DEF CallsOK, GateTypeOK
<1>11. ASSUME CallEnd(s), scans' = scans PROVE GInv'
  BY <1>2, <1>4, <1>11 DEF CallEnd, GateTypeOK
<1>12. CASE VerifyCommit(s)
  <2>1. Scan(s) \in ScanRow
    BY <1>5, <1>12 DEF Scan, ScanRow, VerifyCommit, CallsOK, CallState, Codes
  <2> QED BY <1>2, <1>4, <1>12, <2>1 DEF VerifyCommit, GateTypeOK
<1>13. VerifyLog(s) \/ VerifyUnit(s) =>
          /\ call[s].step \in {"verify_log", "verify_unit"}
          /\ \E step \in {"verify_unit", "verify_answered"} : Proceeds(s, step)
  BY DEF VerifyLog, VerifyUnit
<1> QED BY <1>6, <1>7, <1>8, <1>9, <1>10, <1>11, <1>12, <1>13 DEF CallNext

-----------------------------------------------------------------------------
(* The invariant and its consequences *)

\* The registry changes neither accounts nor calls, and only advances the clock.
LEMMA RegistryGInv ==
    ASSUME IInv, GInv, RegistryNext, UNCHANGED <<accountVars, call>>
    PROVE  GInv'
<1> USE DEF GInv
<1>1. UNCHANGED <<checkers, jwts, desk, call>>
  BY DEF accountVars
<1>2. clock \in Nat /\ clock' \in Nat /\ clock <= clock'
  BY RegistryStep, ClockAdvances DEF GateNext
<1>5. scans' \subseteq scans
  BY DEF RegistryNext
<1>3. GateTypeOK'
  <2>1. \A c \in Checkers : \A t \in jwts[c] : t.exp <= clock' + JwtTTL
    <3> SUFFICES ASSUME NEW c \in Checkers, NEW t \in jwts[c] PROVE t.exp <= clock' + JwtTTL
      OBVIOUS
    <3>1. t.exp \in Nat /\ t.exp <= clock + JwtTTL
      BY DEF GateTypeOK, Jwt
    <3> QED BY <1>2, <3>1, AccountAssumption
  <2> QED BY <1>1, <1>5, <2>1 DEF GateTypeOK
<1>4. CallsOK' /\ DesksOK' /\ UsernamesUnique'
  BY <1>1 DEF CallsOK, DesksOK, CreateOK, UpdateOK, Creating, CheckerExists, Taken, UsernamesUnique
<1> QED BY <1>3, <1>4

\* The invariant of the gate is inductive, given that of the registry.
LEMMA GateNextGInv == IInv /\ GInv /\ [GateNext]_gateVars => GInv'
<1> SUFFICES ASSUME IInv, GInv, [GateNext]_gateVars PROVE GInv'
  OBVIOUS
<1>1. CASE UNCHANGED gateVars
  BY <1>1 DEF gateVars, vars, accountVars, GInv, GateTypeOK, CallsOK, DesksOK, CreateOK, UpdateOK,
              Creating, CheckerExists, Taken, UsernamesUnique
<1>2. CASE GateNext
  BY <1>2, RegistryGInv, AccountsGInv, CallGInv, ClockNat DEF GateNext
<1> QED BY <1>1, <1>2

\* Both invariants hold of every behaviour.
LEMMA GateInvariance == GateSpec => [](IInv /\ GInv)
<1>1. GateSpec => []IInv
  BY GateRunsRegistry, Invariance, PTL
<1> QED BY <1>1, GateInitGInv, GateNextGInv, PTL DEF GateSpec

\* The accounts, the requests at the desks and the calls have their types,
\* whatever the sets of checkers, names and slots.
THEOREM GateTypeCorrect == GateSpec => []GateTypeOK
<1>1. GInv => GateTypeOK
  BY DEF GInv
<1> QED BY <1>1, GateInvariance, PTL

\* The lookup and the unique index of create keep the names of checkers apart,
\* however many requests to create one overlap.
THEOREM NamesUnique == GateSpec => []UsernamesUnique
<1>1. GInv => UsernamesUnique
  BY DEF GInv
<1> QED BY <1>1, GateInvariance, PTL

-----------------------------------------------------------------------------
(* Who is let in *)

\* An answer that lets r in with key k was already on its way, or has just been
\* judged by a row in which r is active with k.
LEMMA LettingInStep ==
    ASSUME GInv, [GateNext]_gateVars, NEW r \in Residents, NEW k \in Keys,
           LettingIn(r, k)', ~LettingIn(r, k)
    PROVE  ResidentExists(r) /\ residents[r].status = "active" /\ residents[r].public_key = k
<1>1. PICK o \in Calls : /\ call'[o].verdict = "valid"
                         /\ call'[o].code.resident = r /\ call'[o].code.key = k
  BY DEF LettingIn
<1>2. call'[o] # call[o]
  BY <1>1 DEF LettingIn
<1>3. PICK s \in Calls : CallNext(s)
  BY <1>2 DEF GateNext, gateVars
<1>4. NoCall.verdict = NULL /\ NULL # "valid"
  BY CodeAssumption DEF NoCall, Verdicts
<1>5. VerifyResident(o) /\ Verdict(o) = "valid" /\ call'[o].code = call[o].code
  BY <1>1, <1>2, <1>3, <1>4, VerdictChanges DEF LettingIn
<1>6. call[o].verdict # "valid"
  BY <1>1, <1>5 DEF LettingIn
<1> QED BY <1>1, <1>5, <1>6 DEF Verdict, Genuine, ResidentExists

\* Once a revocation is committed and no registration overlaps it, no scan that
\* was not judged before lets the resident in, with whatever key.
THEOREM RevokedShutOut == GateSpec => RevokedIsShutOut
<1>1. ASSUME IInv, GInv, [GateNext]_gateVars, NEW r \in Residents, ShutOut(r)
      PROVE  ShutOut(r)'
  <2>1. SettledRevoked(r)'
    BY <1>1, RegistryStep, RevocationStep DEF ShutOut
  <2>2. ASSUME NEW k \in Keys PROVE ~LettingIn(r, k)'
    BY <1>1, LettingInStep DEF ShutOut, SettledRevoked
  <2> QED BY <2>1, <2>2 DEF ShutOut
<1>2. IInv /\ GInv /\ [GateNext]_gateVars =>
         [\A r \in Residents : ShutOut(r) => ShutOut(r)']_gateVars
  BY <1>1
<1> QED BY <1>2, GateInvariance, PTL DEF GateSpec, RevokedIsShutOut

\* While a resident is active with key k and no registration overlaps, no code
\* signed with another key is found valid.
THEOREM OnlyTheBoundKey == GateSpec => OnlyTheBoundKeyOpens
<1>1. ASSUME GInv, [GateNext]_gateVars, NEW r \in Residents, NEW k \in Keys, BoundOnly(r, k),
             NEW j \in Keys \ {k}
      PROVE  ~LettingIn(r, j)'
  BY <1>1, LettingInStep DEF BoundOnly, SettledActive
<1>2. GInv /\ [GateNext]_gateVars =>
         [\A r \in Residents, k \in Keys :
             BoundOnly(r, k) => \A j \in Keys \ {k} : ~LettingIn(r, j)']_gateVars
  BY <1>1
<1> QED BY <1>2, GateInvariance, PTL DEF GateSpec, OnlyTheBoundKeyOpens

-----------------------------------------------------------------------------
(* Who may ask *)

\* The row of a checker changes only by the commit of an update of that checker.
LEMMA CheckerRowStep ==
    ASSUME GInv, [GateNext]_gateVars, NEW c \in Checkers, CheckerExists(c)
    PROVE  \/ checkers'[c] = checkers[c]
           \/ \E d \in Updating(c) : checkers'[c] = Updated(d, checkers[c])
<1> USE DEF GInv, GateTypeOK
<1>1. CASE UNCHANGED accountVars
  BY <1>1 DEF accountVars
<1>2. ASSUME NEW d \in Desks, CheckerCommit(d) PROVE checkers'[c] = checkers[c]
  BY <1>2 DEF CheckerCommit, DesksOK, CreateOK, Creating
<1>3. ASSUME NEW d \in Desks, UpdateCommit(d)
      PROVE  \/ checkers'[c] = checkers[c]
             \/ d \in Updating(c) /\ checkers'[c] = Updated(d, checkers[c])
  BY <1>3 DEF UpdateCommit, Updating
<1>4. ASSUME NEW d \in Desks, DeskNext(d), ~CheckerCommit(d), ~UpdateCommit(d)
      PROVE  checkers' = checkers
  BY <1>4 DEF DeskNext, CheckerLookup, CheckerInsert, UpdateLoad, UpdateFlush, DeskFail
<1>5. ASSUME NEW b \in Checkers, Login(b) PROVE checkers' = checkers
  BY <1>5 DEF Login
<1>6. UNCHANGED accountVars \/ AccountsNext
  BY DEF GateNext, gateVars
<1> QED BY <1>1, <1>2, <1>3, <1>4, <1>5, <1>6 DEF AccountsNext

\* No row of a checker goes away.
LEMMA CheckerRowStays ==
    ASSUME GInv, [GateNext]_gateVars, NEW c \in Checkers, CheckerExists(c)
    PROVE  CheckerExists(c)'
<1>1. checkers[c] \in CheckerRow /\ \A d \in Desks : Updated(d, checkers[c]) \in CheckerRow
  BY UpdatedRow DEF GInv, GateTypeOK, CheckerExists
<1> QED BY <1>1, CheckerRowStep, AccountAssumption DEF CheckerExists, Updating

\* A call made for c was made before, or its checker has just been loaded: the
\* row is active and the call keeps its role.
LEMMA CallOfStep ==
    ASSUME GInv, [GateNext]_gateVars, NEW c \in Checkers, NEW s \in Calls, call'[s].checker = c
    PROVE  \/ call[s].checker = c /\ call'[s].role = call[s].role
           \/ /\ CheckerExists(c) /\ checkers[c].is_active /\ checkers'[c] = checkers[c]
              /\ call'[s].role = checkers[c].role
<1> USE DEF GInv, GateTypeOK
<1>1. CASE UNCHANGED call
  BY <1>1
<1>2. ASSUME NEW o \in Calls, CallNext(o), UNCHANGED accountVars PROVE
         \/ call[s].checker = c /\ call'[s].role = call[s].role
         \/ /\ CheckerExists(c) /\ checkers[c].is_active /\ checkers'[c] = checkers[c]
            /\ call'[s].role = checkers[c].role
  <2>1. checkers' = checkers
    BY <1>2 DEF accountVars
  <2>2. ASSUME NEW b \in Checkers, NEW code \in Codes \cup {NULL}, NEW t \in jwts[b],
               VerifyBegin(o, b, t, code)
        PROVE  \/ call'[s] = call[s]
               \/ /\ s = o /\ b = c /\ CheckerExists(c) /\ checkers[c].is_active
                  /\ call'[s].role = checkers[c].role
    BY <2>2 DEF VerifyBegin, Authorised, RoleOf
  <2>3. ASSUME NEW b \in Checkers, NEW t \in jwts[b], AuditBegin(o, b, t)
        PROVE  \/ call'[s] = call[s]
               \/ /\ s = o /\ b = c /\ CheckerExists(c) /\ checkers[c].is_active
                  /\ call'[s].role = checkers[c].role
    BY <2>3 DEF AuditBegin, Authorised, RoleOf, NoCall
  <2>4. ASSUME VerifyResident(o) \/ VerifyLog(o) \/ VerifyUnit(o) \/ AuditPage(o)
        PROVE  call'[s].checker = call[s].checker /\ call'[s].role = call[s].role
    BY <2>4 DEF VerifyResident, VerifyLog, VerifyUnit, AuditPage, Proceeds, CallState
  <2>5. CASE CallEnd(o) \/ VerifyCommit(o)
    BY <2>5, AccountAssumption DEF CallEnd, VerifyCommit, NoCall
  <2> QED BY <1>2, <2>1, <2>2, <2>3, <2>4, <2>5 DEF CallNext
<1>3. UNCHANGED call \/ ((\E o \in Calls : CallNext(o)) /\ UNCHANGED accountVars)
  BY DEF GateNext, gateVars
<1> QED BY <1>1, <1>2, <1>3

\* A deactivated checker stays out until an admin who saw the account inactive
\* switches it on, whatever changes of the same account overlap.
THEOREM DeactivationFinal == GateSpec => DeactivationIsFinal
<1>1. ASSUME GInv, GInv', [GateNext]_gateVars, NEW c \in Checkers, SwitchedOff(c)
      PROVE  SwitchedOff(c)' \/ Reactivating(c)'
  <2> USE DEF SwitchedOff
  <2>1. checkers[c] \in CheckerRow /\ checkers[c].is_active = FALSE
    BY <1>1 DEF GInv, GateTypeOK, CheckerExists, CheckerRow
  <2>2. ASSUME NEW d \in Updating(c)
        PROVE  Updated(d, checkers[c]).is_active = FALSE
    <3>1. desk[d].is_active # TRUE \/ ~ActiveChanged(d)
      BY <1>1 DEF Reactivating
    <3>2. desk[d].is_active \in BOOLEAN \cup {NULL}
      BY <1>1 DEF Updating, GInv, GateTypeOK, DeskState
    <3> QED BY <2>1, <3>1, <3>2 DEF Updated, ActiveChanged, CheckerRow
  <2>3. checkers'[c].is_active = FALSE
    BY <1>1, <2>1, <2>2, CheckerRowStep
  <2>4. CheckerExists(c)'
    BY <1>1, <2>1, CheckerRowStays
  <2>5. CallsOf(c)' = {}
    BY <1>1, <2>1, CallOfStep DEF CallsOf
  <2> QED BY <2>3, <2>4, <2>5
<1>2. (IInv /\ GInv) /\ (IInv /\ GInv)' /\ [GateNext]_gateVars =>
         [\A c \in Checkers : SwitchedOff(c) => SwitchedOff(c)' \/ Reactivating(c)']_gateVars
  BY <1>1
<1> QED BY <1>2, GateInvariance, PTL DEF GateSpec, DeactivationIsFinal

\* A manager made a guard is treated as a guard in every request that begins
\* afterwards, although the tokens in hand still say manager.
THEOREM DemotionFinal == GateSpec => DemotionIsFinal
<1>1. ASSUME GInv, GInv', [GateNext]_gateVars, NEW c \in Checkers, MereGuard(c)
      PROVE  MereGuard(c)' \/ Promoting(c)'
  <2> USE DEF MereGuard
  <2>1. checkers[c] \in CheckerRow
    BY <1>1 DEF GInv, GateTypeOK, CheckerExists
  <2>2. ASSUME NEW d \in Updating(c)
        PROVE  Updated(d, checkers[c]).role = "guard"
    <3>1. desk[d].role # "manager" \/ ~RoleChanged(d)
      BY <1>1 DEF Promoting
    <3>2. desk[d].role \in {"guard", "manager", NULL}
      BY <1>1 DEF Updating, GInv, GateTypeOK, DeskState, Roles
    <3> QED BY <1>1, <2>1, <3>1, <3>2 DEF Updated, RoleChanged, CheckerRow
  <2>3. checkers'[c].role = "guard"
    BY <1>1, <2>1, <2>2, CheckerRowStep
  <2>4. CheckerExists(c)'
    BY <1>1, <2>1, CheckerRowStays
  <2>5. \A s \in CallsOf(c)' : call'[s].role = "guard"
    BY <1>1, CallOfStep DEF CallsOf
  <2> QED BY <2>3, <2>4, <2>5
<1>2. (IInv /\ GInv) /\ (IInv /\ GInv)' /\ [GateNext]_gateVars =>
         [\A c \in Checkers : MereGuard(c) => MereGuard(c)' \/ Promoting(c)']_gateVars
  BY <1>1
<1> QED BY <1>2, GateInvariance, PTL DEF GateSpec, DemotionIsFinal

-----------------------------------------------------------------------------
(* verify answers as if it had looked once. *)

Opens     == [r \in Residents |-> OpensFor(r)]
Questions == [s \in Calls |-> Asked(s)]

\* A commit changes the key that opens for one resident at most.
LEMMA OpensStep ==
    ASSUME IInv, [Next]_vars
    PROVE  \/ Opens' = Opens
           \/ \E r \in Residents, k \in Keys \cup {NULL} : Opens' = [Opens EXCEPT ![r] = k]
<1> USE DEF IInv, TypeOK
<1>1. ASSUME NEW r \in Residents, NEW row \in ResidentRow, residents' = [residents EXCEPT ![r] = row]
      PROVE  \E k \in Keys \cup {NULL} : Opens' = [Opens EXCEPT ![r] = k]
  <2> DEFINE k == IF row.status = "active" THEN row.public_key ELSE NULL
  <2>1. k \in Keys \cup {NULL}
    BY DEF ResidentRow
  <2>2. row # NULL
    BY RowAssumption
  <2>3. OpensFor(r)' = k
    BY <1>1, <2>2 DEF OpensFor, ResidentExists
  <2>4. \A o \in Residents \ {r} : OpensFor(o)' = OpensFor(o)
    BY <1>1 DEF OpensFor, ResidentExists
  <2>5. Opens' = [Opens EXCEPT ![r] = k]
    BY <2>3, <2>4 DEF Opens
  <2> QED BY <2>1, <2>5
<1>2. ASSUME residents' = residents PROVE Opens' = Opens
  BY <1>2 DEF Opens, OpensFor, ResidentExists
<1>3. ASSUME NEW p \in Requests, ProvisionCommit(p)
      PROVE  \E r \in Residents, row \in ResidentRow : residents' = [residents EXCEPT ![r] = row]
  <2> DEFINE row == [unit_id |-> local[p].unit, status |-> "pending", public_key |-> NULL,
                     is_owner |-> local[p].is_owner, contact |-> local[p].contact, revoked |-> FALSE]
  <2>1. /\ local[p].unit \in Units /\ local[p].resident \in Residents
        /\ local[p].contact \in Contacts \cup {NULL} /\ local[p].is_owner \in BOOLEAN
    BY <1>3 DEF ProvisionCommit, HandlersOK, ProvisionOK, Locals
  <2>2. row \in ResidentRow
    BY <2>1 DEF ResidentRow, Statuses
  <2> QED BY <1>3, <2>1, <2>2 DEF ProvisionCommit
<1>4. ASSUME NEW p \in Requests, RegisterCommit(p)
      PROVE  \E r \in Residents, row \in ResidentRow : residents' = [residents EXCEPT ![r] = row]
  <2> DEFINE r == local[p].resident
             row == [residents[r] EXCEPT !.status = "active", !.public_key = local[p].key]
  <2>1. r \in Residents /\ residents[r] \in ResidentRow /\ local[p].key \in Keys
    BY <1>4 DEF RegisterCommit, HandlersOK, RegisterOK, ResidentExists
  <2>2. row \in ResidentRow
    BY <2>1 DEF ResidentRow, Statuses
  <2>3. residents' = [residents EXCEPT ![r] = row]
    BY <1>4, <2>1 DEF RegisterCommit
  <2> HIDE DEF row
  <2> QED BY <2>1, <2>2, <2>3
<1>5. ASSUME NEW p \in Requests, RevokeCommit(p) \/ ContactCommit(p)
      PROVE  \E r \in Residents, row \in ResidentRow : residents' = [residents EXCEPT ![r] = row]
  BY <1>5, RevokeRow
<1>6. ASSUME NEW p \in Requests, CleanupCommit(p) PROVE residents' = residents
  BY <1>6 DEF CleanupCommit
<1> QED BY <1>1, <1>2, <1>3, <1>4, <1>5, <1>6, RowsChangeAtCommit

\* What slot s does at the door.
AtDoor(s) ==
    \/ \E r \in Residents, k \in Keys : \/ TheDoor!Ask(s, TheDoor!Question(r, k))
                                        \/ TheDoor!Ask(s, TheDoor!Expired(r, k))
    \/ TheDoor!Ask(s, TheDoor!Nonsense)
    \/ TheDoor!Judge(s)
    \/ TheDoor!Answer(s)

\* Each statement of a call asks, judges, answers or does nothing at the door.
LEMMA CallIsAtDoor ==
    ASSUME IInv, GInv, NEW s \in Calls, CallNext(s), UNCHANGED vars
    PROVE  /\ Opens' = Opens
           /\ Questions' = Questions \/ AtDoor(s)
<1> USE DEF GInv, GateTypeOK
<1>1. Opens' = Opens
  BY DEF Opens, OpensFor, ResidentExists, vars
<1>2. call[s] \in CallState /\ \A o \in Calls \ {s} : call'[o] = call[o]
  <2>1. \E x : call' = [call EXCEPT ![s] = x]
    BY DEF CallNext, VerifyBegin, VerifyResident, VerifyLog, VerifyUnit, AuditBegin, AuditPage,
           VerifyCommit, CallEnd, Proceeds
  <2> QED BY <2>1
<1>3. Questions' = [Questions EXCEPT ![s] = Asked(s)']
  BY <1>2 DEF Questions, Asked
<1>4. ASSUME Asked(s)' = Asked(s) PROVE Questions' = Questions
  BY <1>3, <1>4 DEF Questions
<1>5. ASSUME NEW c \in Checkers, NEW code \in Codes \cup {NULL}, NEW t \in jwts[c],
             VerifyBegin(s, c, t, code)
      PROVE  AtDoor(s)
  <2>0. /\ call'[s].code = code /\ call'[s].verdict = FirstVerdict(code)
        /\ call'[s].step \in {"verify_log", "verify_resident"}
    BY <1>5 DEF VerifyBegin
  <2>1. Asked(s) = NULL
    BY <1>5 DEF VerifyBegin, Asked, NoCall
  <2>2. TheDoor!Ask(s, Asked(s)')
    BY <1>1, <1>3, <2>1 DEF TheDoor!Ask, Questions, Opens
  <2>3. CASE code = NULL
    <3>1. Asked(s)' = TheDoor!Nonsense
      BY <2>0, <2>3 DEF FirstVerdict, Asked, TheDoor!Nonsense
    <3> QED BY <2>2, <3>1 DEF AtDoor
  <2>4. CASE code # NULL
    <3>1. code.resident \in Residents /\ code.key \in Keys
      BY <2>4 DEF Codes
    <3>2. Asked(s)' = [resident |-> code.resident, key |-> code.key, verdict |-> FirstVerdict(code)]
      BY <2>0, <2>4 DEF Asked
    <3>3. Asked(s)' \in {TheDoor!Question(code.resident, code.key),
                        TheDoor!Expired(code.resident, code.key)}
      BY <2>4, <3>2 DEF FirstVerdict, TheDoor!Question, TheDoor!Expired
    <3> QED BY <2>2, <3>1, <3>3 DEF AtDoor
  <2> QED BY <2>3, <2>4
<1>6. ASSUME VerifyResident(s) PROVE Questions' = Questions \/ AtDoor(s)
  <2> DEFINE code == call[s].code
  <2>1. /\ code \in Codes /\ code # NULL /\ code.resident \in Residents /\ code.key \in Keys
        /\ call[s].verdict \in {NULL, "expired"} /\ "expired" # NULL
    BY <1>2, <1>6, CodeAssumption DEF VerifyResident, CallsOK, CallState, Codes, Verdicts
  <2>2. Asked(s) = [resident |-> code.resident, key |-> code.key, verdict |-> call[s].verdict]
    BY <1>6, <2>1 DEF VerifyResident, Asked
  <2>3. /\ call'[s].step = "verify_log" /\ call'[s].code = code /\ call'[s].verdict = Verdict(s)
    BY <1>2, <1>6 DEF VerifyResident, CallState
  <2>4. Asked(s)' = [resident |-> code.resident, key |-> code.key, verdict |-> Verdict(s)]
    BY <2>1, <2>3 DEF Asked
  <2>5. CASE call[s].verdict = "expired"
    BY <1>4, <2>1, <2>2, <2>4, <2>5 DEF Verdict
  <2>6. CASE call[s].verdict = NULL
    <3>1. Asked(s) # NULL
      BY <2>1, <2>2, <2>6, QuestionAssumption
    <3>2. OpensFor(code.resident) = code.key <=> Genuine(code)
      BY <2>1, SentinelAssumption DEF OpensFor, Genuine, ResidentExists
    <3>3. Verdict(s) = IF OpensFor(code.resident) = code.key THEN "valid" ELSE "invalid"
      BY <2>6, <3>2 DEF Verdict
    <3>4. /\ Questions[s] = Asked(s) /\ Asked(s).verdict = NULL
          /\ Asked(s).resident = code.resident /\ Asked(s).key = code.key
      BY <2>2, <2>6 DEF Questions
    <3>5. TheDoor!Truth(Asked(s)) = Verdict(s)
      BY <2>1, <3>3, <3>4 DEF TheDoor!Truth
    <3>6. Asked(s)' = [Asked(s) EXCEPT !.verdict = Verdict(s)]
      BY <2>2, <2>4
    <3> QED BY <1>1, <1>3, <3>1, <3>4, <3>5, <3>6 DEF AtDoor, TheDoor!Judge, Questions, Opens
  <2> QED BY <2>1, <2>5, <2>6
<1>7. ASSUME VerifyLog(s) \/ VerifyUnit(s) PROVE Questions' = Questions
  BY <1>2, <1>4, <1>7 DEF VerifyLog, VerifyUnit, Proceeds, Asked, CallState
<1>8. ASSUME NEW c \in Checkers, NEW t \in jwts[c], AuditBegin(s, c, t) PROVE Questions' = Questions
  BY <1>4, <1>8 DEF AuditBegin, NoCall, Asked
<1>9. ASSUME AuditPage(s) PROVE Questions' = Questions
  BY <1>2, <1>4, <1>9 DEF AuditPage, Proceeds, Asked, CallState
<1>10. ASSUME CallEnd(s) \/ VerifyCommit(s) PROVE Questions' = Questions \/ AtDoor(s)
  <2>1. Asked(s)' = NULL
    BY <1>2, <1>10 DEF CallEnd, VerifyCommit, Asked, NoCall
  <2>2. CASE Asked(s) = NULL
    BY <1>4, <2>1, <2>2
  <2>3. CASE Asked(s) # NULL
    BY <1>1, <1>3, <2>1, <2>3 DEF AtDoor, TheDoor!Answer, Questions, Opens
  <2> QED BY <2>2, <2>3
<1> QED BY <1>1, <1>5, <1>6, <1>7, <1>8, <1>9, <1>10 DEF CallNext

\* The initial states and the steps of the gate are those of the door.
LEMMA DoorInit == GateInit => TheDoor!Init
BY DEF GateInit, Init, AccessInit, NoCall, TheDoor!Init, OpensFor, ResidentExists, Asked

LEMMA DoorStep == IInv /\ GInv /\ [GateNext]_gateVars => [TheDoor!Next]_(TheDoor!vars)
<1> SUFFICES ASSUME IInv, GInv, [GateNext]_gateVars PROVE TheDoor!Next \/ UNCHANGED TheDoor!vars
  OBVIOUS
<1> USE DEF TheDoor!vars
<1>1. CASE UNCHANGED gateVars \/ (AccountsNext /\ UNCHANGED <<vars, call, scans>>)
  BY <1>1 DEF gateVars, vars, OpensFor, ResidentExists, Asked
<1>2. CASE RegistryNext /\ UNCHANGED <<accountVars, call>>
  <2>1. Questions' = Questions
    BY <1>2 DEF Questions, Asked
  <2>2. CASE Opens' = Opens
    BY <2>1, <2>2 DEF Questions, Opens
  <2>3. ASSUME NEW r \in Residents, NEW k \in Keys \cup {NULL}, Opens' = [Opens EXCEPT ![r] = k]
        PROVE  TheDoor!Change(r)
    BY <2>1, <2>3 DEF Questions, Opens, TheDoor!Change
  <2>4. [Next]_vars
    BY RegistryStep
  <2> QED BY <2>2, <2>3, <2>4, OpensStep DEF TheDoor!Next
<1>3. CASE (\E s \in Calls : CallNext(s)) /\ UNCHANGED <<vars, accountVars>>
  BY <1>3, CallIsAtDoor DEF AtDoor, TheDoor!Next, Questions, Opens
<1> QED BY <1>1, <1>2, <1>3 DEF GateNext

\* However many statements and awaits a verification takes, and whatever
\* registration or revocation commits between them, its verdict is what the
\* registry held at one instant.
THEOREM GateImplementsDoor == GateSpec => ImplementsDoor
<1> QED BY DoorInit, DoorStep, GateInvariance, PTL DEF GateSpec, ImplementsDoor, TheDoor!Spec
-----------------------------------------------------------------------------
(* What the log of scans says. *)

\* A scan row with a unit names a resident of that unit; a success, one who is
\* not waiting for activation.
True(e) ==
    e.unit # NULL =>
        /\ e.resident \in Residents /\ ResidentExists(e.resident)
        /\ residents[e.resident].unit_id = e.unit
        /\ e.verdict = "valid" => residents[e.resident].status # "pending"

\* That holds of the rows in the table and of those that a call will commit.
LogOK == (\A e \in scans : True(e)) /\ (\A s \in Calls : True(Scan(s)))

\* A resident is never removed, never moves and never becomes pending again.
LEMMA ResidentStays ==
    ASSUME IInv, [Next]_vars, NEW r \in Residents, ResidentExists(r)
    PROVE  /\ ResidentExists(r)'
           /\ residents'[r].unit_id = residents[r].unit_id
           /\ residents[r].status # "pending" => residents'[r].status # "pending"
<1> USE DEF IInv, TypeOK
<1> DEFINE Kept == /\ residents'[r] # NULL /\ residents'[r].unit_id = residents[r].unit_id
                   /\ residents[r].status # "pending" => residents'[r].status # "pending"
<1>1. residents[r] \in ResidentRow
  BY DEF ResidentExists
<1>2. CASE residents' = residents
  BY <1>2 DEF ResidentExists
<1>3. ASSUME NEW p \in Requests, ProvisionCommit(p) PROVE residents'[r] = residents[r]
  BY <1>3 DEF ProvisionCommit, HandlersOK, ProvisionOK
<1>4. ASSUME NEW p \in Requests, NEW row \in ResidentRow, local[p].resident \in Residents,
             residents' = [residents EXCEPT ![local[p].resident] = row],
             row.unit_id = residents[local[p].resident].unit_id,
             residents[local[p].resident].status # "pending" => row.status # "pending"
      PROVE  Kept
  BY <1>4, RowAssumption DEF ResidentExists
<1>5. ASSUME NEW p \in Requests, RegisterCommit(p) PROVE Kept
  <2> DEFINE q == local[p].resident
             row == [residents[q] EXCEPT !.status = "active", !.public_key = local[p].key]
  <2>1. q \in Residents /\ residents[q] \in ResidentRow /\ local[p].key \in Keys
    BY <1>5 DEF RegisterCommit, HandlersOK, RegisterOK, ResidentExists
  <2>2. row \in ResidentRow /\ row.unit_id = residents[q].unit_id /\ row.status = "active"
    BY <2>1 DEF ResidentRow, Statuses
  <2>3. residents' = [residents EXCEPT ![q] = row]
    BY <1>5, <2>1 DEF RegisterCommit
  <2> HIDE DEF row
  <2> QED BY <1>4, <2>1, <2>2, <2>3
<1>6. ASSUME NEW p \in Requests, RevokeCommit(p) \/ ContactCommit(p) PROVE Kept
  BY <1>4, <1>6, RevokeRow
<1>7. ASSUME NEW p \in Requests, CleanupCommit(p) PROVE residents' = residents
  BY <1>7 DEF CleanupCommit
<1> QED BY <1>2, <1>3, <1>4, <1>5, <1>6, <1>7, RowsChangeAtCommit DEF ResidentExists

\* What a row says stays true while residents come, go active and are revoked.
LEMMA TrueStays ==
    ASSUME IInv, [Next]_vars, NEW e, True(e)
    PROVE  True(e)'
BY ResidentStays DEF True

\* A call leaves what it will log as it is, forgets it, or has just looked the
\* resident up.
LEMMA ScanStep ==
    ASSUME IInv, GInv, NEW s \in Calls, CallNext(s), UNCHANGED vars, LogOK
    PROVE  LogOK'
<1> USE DEF GInv, GateTypeOK
<1>1. \A e \in scans' : e \in scans \/ e = Scan(s)
  BY DEF CallNext, VerifyCommit
<1>2. ASSUME NEW e, True(e) PROVE True(e)'
  BY <1>2 DEF True, ResidentExists, vars
<1>3. \A e \in scans' : True(e)'
  BY <1>1, <1>2 DEF LogOK
<1>4. call[s] \in CallState
  OBVIOUS
<1>5. ASSUME NEW o \in Calls \ {s} PROVE Scan(o)' = Scan(o)
  <2>1. \E x : call' = [call EXCEPT ![s] = x]
    BY DEF CallNext, VerifyBegin, VerifyResident, VerifyLog, VerifyUnit, AuditBegin, AuditPage,
           VerifyCommit, CallEnd, Proceeds
  <2> QED BY <1>5, <2>1 DEF Scan
<1>6. CASE VerifyResident(s)
  <2> DEFINE code == call[s].code
  <2>1. code \in Codes /\ code # NULL /\ code.resident \in Residents
    BY <1>4, <1>6 DEF VerifyResident, CallsOK, CallState, Codes
  <2>2. /\ call'[s].code = code /\ call'[s].verdict = Verdict(s) /\ call'[s].unit = UnitOf(code)
        /\ call'[s].began = call[s].began
    BY <1>4, <1>6 DEF VerifyResident, CallState
  <2>3. Scan(s)' = [resident |-> code.resident, unit |-> UnitOf(code), verdict |-> Verdict(s),
                    at |-> call[s].began]
    BY <2>1, <2>2 DEF Scan
  <2>4. Verdict(s) = "valid" => residents[code.resident].status = "active"
    BY <1>6 DEF VerifyResident, CallsOK, Verdict, Genuine
  <2>5. True(Scan(s)')
    BY <2>1, <2>3, <2>4 DEF True, UnitOf
  <2> QED BY <1>2, <1>3, <1>5, <2>5 DEF LogOK
<1>7. CASE call'[s].unit = NULL
  <2>1. Scan(s)'.unit = NULL
    BY <1>7 DEF Scan
  <2>2. True(Scan(s))'
    BY <2>1 DEF True
  <2> QED BY <1>2, <1>3, <1>5, <2>2 DEF LogOK
<1>8. CASE Scan(s)' = Scan(s)
  BY <1>2, <1>3, <1>5, <1>8 DEF LogOK
<1>9. VerifyLog(s) \/ VerifyUnit(s) \/ AuditPage(s) => Scan(s)' = Scan(s)
  BY <1>4 DEF VerifyLog, VerifyUnit, AuditPage, Proceeds, CallState, Scan
<1>10. ASSUME NEW c \in Checkers, NEW code \in Codes \cup {NULL}, NEW t \in jwts[c],
              VerifyBegin(s, c, t, code)
       PROVE  call'[s].unit = NULL
  BY <1>10 DEF VerifyBegin
<1>11. ASSUME NEW c \in Checkers, NEW t \in jwts[c], AuditBegin(s, c, t) PROVE call'[s].unit = NULL
  BY <1>11 DEF AuditBegin, NoCall
<1>12. CallEnd(s) \/ VerifyCommit(s) => call'[s].unit = NULL
  BY DEF CallEnd, VerifyCommit, NoCall
<1> QED BY <1>6, <1>7, <1>8, <1>9, <1>10, <1>11, <1>12 DEF CallNext

\* Every step keeps the log true.
LEMMA LogStep == IInv /\ GInv /\ LogOK /\ [GateNext]_gateVars => LogOK'
<1> SUFFICES ASSUME IInv, GInv, LogOK, [GateNext]_gateVars PROVE LogOK'
  OBVIOUS
<1>1. CASE (\E s \in Calls : CallNext(s)) /\ UNCHANGED <<vars, accountVars>>
  BY <1>1, ScanStep
<1>2. CASE scans' \subseteq scans /\ call' = call
  <2>1. \A s \in Calls : Scan(s)' = Scan(s)
    BY <1>2 DEF Scan
  <2>2. \A e : True(e) => True(e)'
    BY RegistryStep, TrueStays
  <2> QED BY <1>2, <2>1, <2>2 DEF LogOK
<1>3. (RegistryNext => scans' \subseteq scans) /\ (UNCHANGED gateVars => scans' = scans /\ call' = call)
  BY DEF RegistryNext, gateVars
<1> QED BY <1>1, <1>2, <1>3 DEF GateNext

\* The units that the log of scans names are never deleted: a resident of such a
\* unit remains in the table, which delete's foreign keys notice.
THEOREM ScannedUnitsStay == GateSpec => []UnitsStay
<1>1. GateInit => LogOK
  BY DEF GateInit, AccessInit, LogOK, True, Scan, NoCall
<1>2. IInv /\ LogOK => UnitsStay
  BY DEF LogOK, True, UnitsStay, IInv, ReferentialIntegrity
<1> QED BY <1>1, <1>2, LogStep, GateInvariance, PTL DEF GateSpec
=============================================================================
