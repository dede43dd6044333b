------------------------------ MODULE Accounts ------------------------------
(***************************************************************************)
(* Checker accounts: app/services/checker_service.py behind                *)
(* app/routes/checkers.py and the login of app/routes/auth.py.             *)
(*                                                                         *)
(* A desk is a slot for one request of a staff admin that writes a checker *)
(* row.  It runs in a session like those of Database: reads see committed  *)
(* rows, writes are applied at the commit.  The admins' own rows are never *)
(* written while the system runs (AdminService.create has no route), so    *)
(* that a staff admin is authorised is taken for granted.                  *)
(***************************************************************************)
EXTENDS Database

CONSTANTS
    Checkers,   \* checker ids (uuid4, never reused)
    Usernames,  \* login names
    Desks,      \* slots for requests of staff admins in flight
    Seeded,     \* the checkers that seed.py left
    JwtTTL      \* JWT_ACCESS_TOKEN_EXPIRE_MINUTES

Roles      == {"guard", "manager"}
CheckerRow == [username : Usernames, role : Roles, is_active : BOOLEAN]
Jwt        == [role : Roles, exp : Nat]

ASSUME AccountAssumption ==
    /\ NULL \notin CheckerRow \cup Roles \cup BOOLEAN \cup Checkers \cup Usernames
    /\ Seeded \in [Checkers -> CheckerRow \cup {NULL}]
    /\ JwtTTL \in Nat

\* seed.py ran under the unique index, too.
ASSUME SeedAssumption ==
    \A c, d \in Checkers :
        Seeded[c] # NULL /\ Seeded[d] # NULL /\ Seeded[c].username = Seeded[d].username => c = d

VARIABLES
    checkers,   \* checkers[c]: the row, or NULL
    jwts,       \* jwts[c]: the access tokens that c was given
    desk        \* desk[d]: the request in flight at d

accountVars == <<checkers, jwts, desk>>

DeskSteps == {"idle", "create_insert", "create_commit", "update_flush", "update_commit"}

DeskState == [step      : DeskSteps,
              checker   : Checkers \cup {NULL},
              username  : Usernames \cup {NULL},
              role      : Roles \cup {NULL},
              is_active : BOOLEAN \cup {NULL},
              seen      : CheckerRow \cup {NULL}]   \* the row that update loaded

Vacant == [step |-> "idle", checker |-> NULL, username |-> NULL, role |-> NULL,
           is_active |-> NULL, seen |-> NULL]

CheckerExists(c) == checkers[c] # NULL
Taken(n)         == \E c \in Checkers : CheckerExists(c) /\ checkers[c].username = n

\* The session of d ends, with its commit or with a rollback.
Leave(d) == desk' = [desk EXCEPT ![d] = Vacant] /\ UNCHANGED jwts

-----------------------------------------------------------------------------
(* create: POST /checkers *)

FreshChecker(c) == ~CheckerExists(c) /\ \A e \in Desks : desk[e].checker # c

\* The SELECT by username; a name already taken is refused with 400.
CheckerLookup(d, c, n, r) ==
    /\ desk[d] = Vacant
    /\ FreshChecker(c)
    /\ ~Taken(n)
    /\ desk' = [desk EXCEPT ![d] = [Vacant EXCEPT !.step = "create_insert", !.checker = c,
                                                  !.username = n, !.role = r]]
    /\ UNCHANGED <<checkers, jwts>>

\* Mutant: the column has no unique index.
CheckerInsert_NoIndex(d) ==
    /\ desk[d].step = "create_insert"
    /\ desk' = [desk EXCEPT ![d].step = "create_commit"]
    /\ UNCHANGED <<checkers, jwts>>

\* The INSERT meets the unique index on username: it waits for a transaction
\* that has inserted the same name, and fails if that one was committed.
CheckerInsert(d) ==
    /\ desk[d].step = "create_insert"
    /\ \A e \in Desks : desk[e].step = "create_commit" => desk[e].username # desk[d].username
    /\ \/ /\ ~Taken(desk[d].username)
          /\ desk' = [desk EXCEPT ![d].step = "create_commit"]
          /\ UNCHANGED <<checkers, jwts>>
       \/ /\ Taken(desk[d].username)
          /\ Leave(d)
          /\ UNCHANGED checkers

CheckerCommit(d) ==
    /\ desk[d].step = "create_commit"
    /\ Leave(d)
    /\ checkers' = [checkers EXCEPT ![desk[d].checker] =
          [username |-> desk[d].username, role |-> desk[d].role, is_active |-> TRUE]]

-----------------------------------------------------------------------------
(* update: PATCH /checkers/{id}; a field left out of the body is NULL. *)

UpdateLoad(d, c, r, a) ==
    /\ desk[d] = Vacant
    /\ CheckerExists(c)
    /\ desk' = [desk EXCEPT ![d] = [Vacant EXCEPT !.step = "update_flush", !.checker = c,
                                       !.role = r, !.is_active = a, !.seen = checkers[c]]]
    /\ UNCHANGED <<checkers, jwts>>

\* The flush emits an UPDATE only for columns that differ from what was loaded.
RoleChanged(d)   == desk[d].role \notin {NULL, desk[d].seen.role}
ActiveChanged(d) == desk[d].is_active \notin {NULL, desk[d].seen.is_active}

UpdateFlush(d) ==
    /\ desk[d].step = "update_flush"
    /\ RoleChanged(d) \/ ActiveChanged(d) =>
          \A e \in Desks : ~(/\ desk[e].step = "update_commit"
                             /\ desk[e].checker = desk[d].checker
                             /\ RoleChanged(e) \/ ActiveChanged(e))
    /\ desk' = [desk EXCEPT ![d].step = "update_commit"]
    /\ UNCHANGED <<checkers, jwts>>

\* Mutant: the UPDATE writes the whole row as it was loaded and changed.
Updated_WholeRow(d, row) ==
    [desk[d].seen EXCEPT !.role = IF RoleChanged(d) THEN desk[d].role ELSE @,
                         !.is_active = IF ActiveChanged(d) THEN desk[d].is_active ELSE @]

\* Mutant: a role left out of the body is written as NULL.
Updated_NullRole(d, row) ==
    [row EXCEPT !.role = desk[d].role,
                !.is_active = IF ActiveChanged(d) THEN desk[d].is_active ELSE @]

\* The row as the UPDATE of d leaves it.
Updated(d, row) ==
    [row EXCEPT !.role = IF RoleChanged(d) THEN desk[d].role ELSE @,
                !.is_active = IF ActiveChanged(d) THEN desk[d].is_active ELSE @]

UpdateCommit(d) ==
    /\ desk[d].step = "update_commit"
    /\ Leave(d)
    /\ checkers' = [checkers EXCEPT ![desk[d].checker] = Updated(d, @)]

\* A statement or the commit fails, or the server restarts.
DeskFail(d) == desk[d] # Vacant /\ Leave(d) /\ UNCHANGED checkers

-----------------------------------------------------------------------------
(* authenticate and the dependencies of app/core/deps.py *)

MayLogin(c) == CheckerExists(c) /\ checkers[c].is_active

\* POST /auth/checker/login with the right password.  The row is read once and
\* the token, which names the role of that moment, is issued in the same step.
Login(c) ==
    /\ MayLogin(c)
    /\ jwts' = [jwts EXCEPT ![c] = @ \cup {[role |-> checkers[c].role, exp |-> clock + JwtTTL]}]
    /\ UNCHANGED <<checkers, desk>>

\* get_current_checker: the token is genuine and has not expired, and the row
\* that the request reads is active.
Authorised(c, t) ==
    t \in jwts[c] /\ t.exp >= clock /\ CheckerExists(c) /\ checkers[c].is_active

\* Mutant: the role is the one the token names.
RoleOf_Token(c, t) == t.role

\* The role that counts is the one in the row that the dependency has loaded.
RoleOf(c, t) == checkers[c].role

-----------------------------------------------------------------------------
AccountsInit ==
    /\ checkers = Seeded
    /\ jwts = [c \in Checkers |-> {}]
    /\ desk = [d \in Desks |-> Vacant]

DeskNext(d) ==
    \/ \E c \in Checkers, n \in Usernames, r \in Roles : CheckerLookup(d, c, n, r)
    \/ CheckerInsert(d)
    \/ CheckerCommit(d)
    \/ \E c \in Checkers, r \in Roles \cup {NULL}, a \in BOOLEAN \cup {NULL} : UpdateLoad(d, c, r, a)
    \/ UpdateFlush(d)
    \/ UpdateCommit(d)
    \/ DeskFail(d)

AccountsNext ==
    \/ \E d \in Desks : DeskNext(d)
    \/ \E c \in Checkers : Login(c)
=============================================================================
