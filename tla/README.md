# Verification of Vista Authen

TLA+ models of the Vista Authen backend (`app/`), TLC configurations that check
them on small instances and TLAPS proofs of the results that hold for every
instance. Paths below are relative to the root of the repository.

## 1. The system

Vista Authen gives the residents of a building a QR code bound to a key pair on
their device. A FastAPI server keeps units, residents, activation tokens, staff
accounts and an audit log in PostgreSQL. Three web clients use it.

| Component | State | Operations | Talks to |
|---|---|---|---|
| Database sessions (`app/core/database.py`, `app/models/models.py`) | the tables; one session and transaction per request | open, commit, roll back | everything below |
| Resident service (`resident_service.py`, `routes/residents.py`) | rows of `residents` and `activation_tokens` | `provision`, `register_device`, `revoke`, `update_contact` | units (capacity, foreign key), audit log |
| Unit service (`unit_service.py`, `routes/units.py`) | rows of `units` | `create`, `update_capacity`, `delete` | residents (count, foreign key) |
| Cleanup (`cleanup_service.py`, `routes/cleanup.py`, timer in `main.py`) | none of its own | purge tokens, purge audit rows | tokens, audit log |
| Access verification (`access_service.py`, `routes/access.py`) | none of its own | `verify` a scanned code | residents, accounts, audit log, rate limiter |
| Accounts and roles (`admin_service.py`, `checker_service.py`, `deps.py`, `security.py`, `routes/auth.py`, `routes/checkers.py`) | rows of `admins` and `checkers`; signed access tokens held by clients | login, create, deactivate or change a role, authorise a request | every route |
| Rate limiter (`limiter.py`, slowapi) | counters per checker or address, in memory | count a request, refuse it | access, login |
| Audit queries (`audit_service.py`, `routes/audit.py`) | none of its own | list pages | audit log |
| Resident client (`web/resident`) | private key and resident id in `localStorage`; the code shown | activate, rotate the code | `register_device`; the checker's camera |
| Checker client (`web/checker`) | access token; the last answer shown | log in, verify, browse the audit log | access, audit |
| Admin client (`web/admin`) | selected unit and its residents; messages | all administration | units, residents, accounts, cleanup |
| Signature check, settings, schemas, seeding | none | pure functions, set-up | |

What is hard here:

* **Interleaving.** Handlers are coroutines on one event loop (or on several
  workers) and every `await` of a database call lets others run. Transactions
  are READ COMMITTED; no row is read with `FOR UPDATE` and no UPDATE repeats
  the condition that was checked. What a handler read is stale by the time it
  writes.
* **Failure.** Any statement, the commit, the connection or the process can
  fail. `get_db` rolls back on every exception, including the `HTTPException`
  of a request refused for a good reason.
* **Time.** Tokens expire, audit rows age, and a background task purges both
  while requests use them.
* **Order.** Clients have several requests in flight, answers overtake each
  other, and an answer can be lost although the request took effect. FastAPI
  sends the response before the exit code of `get_db` commits.

What makes each component correct:

* residents: never more than the capacity; one owner per unit; a token activates
  one device; a revocation is permanent; a key exists exactly while its resident
  is active; the two rows that an activation writes agree;
* units: capacity never below the number of residents; no row loses its unit;
* cleanup: no usable token disappears; a purged one is never used;
* sessions: all or nothing, and every handler ends;
* access: only an active resident with a fresh code and the bound key is let in,
  and every scan leaves an audit row;
* accounts: only an active account with the role acts;
* clients: what is shown belongs to the last question asked; the key on the
  device is the key the server bound.

`PROJECT.json` lists each hazard at its line with the properties that cover it,
or the reason why none does.

## 2. Modules

| Module | Models |
|---|---|
| `Database` | the rows, the clock, row locks, and how a session starts, steps, commits, rolls back and fails |
| `ResidentService`, `UnitService`, `CleanupService` | the operations of the services, one action per statement that another handler can fall between |
| `Backend` | their composition (the registry), fairness and the properties |
| `Accounts` | checker accounts, the requests of admins that write them, login and authorisation |
| `AccessService` | the requests of checkers: `verify` statement by statement with its audit row, and the reading of the audit log |
| `Gate` | `Backend`, `Accounts` and `AccessService` over one database |
| `CodeRotation` | the clock, the timer and the code of the resident's screen |
| `Device` | the resident's client, a network that loses messages, and `Backend` |
| `RateLimiter` | the decorated routes over slowapi's fixed windows |
| `AuditPages` | `list_logs` and the log viewer that asks for it page by page |
| `Registry`, `Door`, `Quota` | abstract specifications of `Backend`, of `verify` and of the limiter |
| `MC...` | the models for TLC, with their symmetry |
| `BackendProofs`, `RegistrationProofs`, `OrderlyProofs` | theorems about the registry: its invariants, what is final in it, and that orderly requests implement `Registry` |
| `GateProofs`, `CodeRotationProofs`, `DeviceProofs`, `RateLimiterProofs`, `AuditPagesProofs` | theorems about the other components |

`Gate` and `Device` each extend `Backend`. Every behaviour of theirs is one of
`Backend` as far as the registry goes (`GateRunsRegistry`, `DeviceInRegistry`), so
every property of the registry holds in them as well. `Device` constrains the
registration of its own resident, which starts with a request of the device and
answers it; everything else the registry can do goes on beside the device, which
`RegistryUnhindered` proves. They are two modules and not one because the device
meets the gate only through a code that is shown, and a code is data: `Gate` lets
any key sign any time.

### The registry and its code

`units[u]` is `max_residents` of the row (`NULL`: not yet created, `DELETED`:
deleted). `residents[r]` and `tokens[r]` are the rows, `audit` the set of audit
rows (two rows equal in action, unit, resident and time count as one; no property
counts them). `pc[p]` is the step at which a handler waits and `local[p]` its
arguments and local variables: what it *knows*, as opposed to what the tables now
say. `clock` is the wall clock in whatever unit makes `TTL` and `Retention`
whole.

A handler is `XLoad -> ... -> XFlush -> XCommit`. A read evaluates the tables
when its action happens. A write is applied at the commit; between flush and
commit the handler holds the row locks, which the operators `HoldsResident`,
`HoldsToken`, `HoldsUnit`, `Deletes` and `SharesKey` derive from `pc` and `local`.
A statement that would touch a row locked by another handler cannot happen until
that handler is gone, then acts on the newest row, as PostgreSQL does under READ
COMMITTED. This is exact because no handler of these services reads a row that
it has itself written.

Two handlers take several locks, one after the other. The flush of
`register_device` is two statements: the UPDATE of the resident (`RegisterFlush`),
then, with that row held, the UPDATE of the token (`RegisterToken`); SQLAlchemy
writes residents first because tokens refer to them. The DELETE of the cleanup goes
through the rows that its condition found (`todo`) one by one (`CleanupRow`), waits
for the row it has come to (`at`) and keeps those it has deleted (`purged`). It meets
them in any order: an UPDATE moves a row, so the scans of two purges need not agree.
`WaitsFor` says who waits for whom, `Deadlock` that handlers do so in a circle.

SQLAlchemy's part is modelled where it decides what is written: an UPDATE names only
the columns that differ from the values loaded (`Revoked`, `ContactChanged`,
`CapacityChanged`), an UPDATE of a row that has vanished fails (`RegisterToken`, `CapacityFlush`), a
DELETE of one does not, and deleting a unit first tries to detach the residents
loaded with it (`DeleteRefused`).

`Fail(p)` ends a handler at any step with everything rolled back. `Rollback` is
the same end chosen by the code.

A contact (phone and email) is one value that an update replaces as a whole,
while the code writes the columns that changed: no property tells the two apart.

Left out: names, the text of errors, the actor of an audit row, and requests
refused by their first statement, which change nothing. The handlers of these
modules start after their admin was authorised. The unit numbers are the unit
ids; a duplicate number fails like any other statement.

### Accounts and their code

`checkers[c]` is the row, `jwts[c]` the tokens that `login` issued: what they say
of role and expiry, since the signature makes them unforgeable. A *desk* is a
slot for one request of an admin that creates or updates a checker. `create` looks the name up and inserts
it later (`CheckerLookup`, `CheckerInsert`); the unique index makes the INSERT
wait for another one of the same name, then fail. `update` loads the row, and its
UPDATE names only the columns that the body changes *against the row as loaded*
(`RoleChanged`, `ActiveChanged`), so that two updates that overlap merge column by
column or leave each other's change in place. `Authorised` is `get_current_checker` with the decoding of
the token: the row that it reads at that moment has to be active; `RoleOf` is the
role of that row and not of the token.

### Access verification and its code

`call[s]` is one request of a checker, at the statement it has reached, with what
its session has loaded: the role of the checker's row and, after the SELECT of
the resident, the verdict and the unit. What needs no row is judged before any
statement (`FirstVerdict`): a payload that does not parse and a timestamp too far
from the server's clock. SQLAlchemy's identity map makes that one
read the last one: `db.get` of a row that the session has loaded returns it
unchanged, so `verify` judges and logs by a row that may be stale. `scans` are
the committed audit rows of verifications, with the start time of their
transaction (`now()` in PostgreSQL). `VerifyCommit` comes after the answer;
`CallEnd` at `verify_answered` is the commit that fails when the checker has
already been told. A code is its resident, the key that signed it and its time;
a payload that does not parse is `NULL`.

### The resident's client and its code

`private_key` and `resident_id` are what `localStorage` holds, `loading` the
attempt that the page waits for, `requests` and `answers` what is on its way.
`Activate` stores the new key before it sends the request, as `handleActivate`
does. `Arrive`, `RegisterStep` and `RegisterFail` are the registration that the
device asked for, `ServerStep` everything else: revocations and corrections of the
same resident (`update_contact` writes the very row), the cleanup, units, and
registrations of other residents. Nobody else has this resident's token. `Send`
follows FastAPI: a registration is answered when its last statement
was executed, and committed after that. `GiveUp` is a lost answer, a failed
connection or a reload; the page makes no further attempt by itself, the resident
does. `tried`, `refused` and `trouble` record what happened and are read by no
action.

`CodeRotation` counts the seconds of the device's clock within a slot and the age
of the code on the screen. The timer runs once a second and draws a new code when
the slot differs from the last one seen.

### The limiter and its code

`KeyOf` is the key function of the decorator, `count` and `left` the counter and
the countdown of one window per key. slowapi is not part of the repository: a
window opens with its first hit, every hit counts, and the count goes with the
window, which is its default fixed-window strategy. `Restart` loses all counts.

### The audit log viewer and its code

`rows` are the audit rows with their ids and timestamps; several rows may have the
same one (`models.py:89` does not exclude it, and two transactions that start
together or one that writes two rows produce it). The query orders by the timestamp
alone, so that its answer is not determined: `First(f, n)` is the set of all choices
of n first rows, and `ListLogs` the set of all answers to the query with its filter,
ORDER BY, OFFSET and LIMIT, of which each execution gives one. A request is executed at some
time after it was sent (`Execute`) and its answer arrives at some time after that
(`Show`), in any order, whatever page and filter are selected by then. `pass`
records a reading that begins on page 1 and is read by no action.

### Abstract specifications

* `Registry` says what the services promise: `Provision`, `Activate`, `Revoke`,
  `UpdateContact`, `CreateUnit`, `SetCapacity`, `DeleteUnit`, `PurgeTokens`, each
  with its whole condition and effect in one step, and no handlers. `Backend` is
  mapped to it by its own `clock`, `units`, `residents` and `tokens`. Not every
  behaviour is one of `Registry`: the first three findings of section 5 are steps
  that it does not have. `Conflict` lists the pairs of requests that the services
  do not keep apart:

  | one request | overlaps | what goes wrong |
  |---|---|---|
  | provision | another provision into the same unit | overbooked, or two owners |
  | provision | a new capacity of the unit | overbooked |
  | provision | the revocation of the unit's owner | a unit without an owner |
  | registration | another registration of the same resident | the key is replaced |
  | registration | a revocation of the same resident | revoked and active, or revoked with a key |

  `OrderlySpec` has the behaviours in which no such pair overlaps, among them all
  in which there is one request at a time (`SerialIsOrderly`). There every commit is one
  step of `Registry` and every other step a stutter (`ImplementsRegistry`), although
  everything else still overlaps: provisions into different units, a provision
  with an activation, a revocation or a correction in the same unit, deletions,
  cleanups, failures at any step. Nothing in the code enforces that order. The
  list is as short as it can be: without any one of the five pairs TLC finds a
  step that `Registry` or one of its invariants does not allow.
* `Door` judges a code, at one instant between question and answer, by the key
  that opens for the resident at that instant. `Gate` is mapped to it by the key
  of the active row (`OpensFor`) and by the verifications in flight (`Asked`).
  This holds however many requests overlap (`ImplementsDoor`).
* `Quota` counts, for every age up to `Window`, the requests made since then,
  instead of over windows of its own: at most `Least` are always granted, more than
  `Most` never. `RateLimiter` is mapped to it with `Least = Limit` and `Most = 2 * Limit - 1`
  (`ImplementsQuota`).

## 3. What the runs check

| Run | Instance | Shows |
|---|---|---|
| `races` | 1 unit, 2 residents, 2 keys, capacities 1 and 2, 2 handlers, clock still; symmetric | what holds however two handlers overlap and fail |
| `cleanup` | 1 unit, 1 resident, 1 key, 2 handlers, tokens that live for the instant of their issue, clock 0..1; no symmetry, fair | expiry and purge against activation, revocation and another cleanup; that every handler ends and expired rows go |
| `orderly` | as `races` with 2 contacts, without the overlaps of `Conflict` | that orderly requests implement `Registry` and keep its invariants |
| `gate_door` | 1 unit, 1 resident, 2 keys, 2 handlers, 1 manager with 1 verification, 1 scan row, clock still; symmetric | who is let in while registrations, revocations and deletions overlap the scan |
| `gate_accounts` | no registry; 2 checkers who want 1 name, 2 desks, 1 verification or page of the log, clock 0..1; symmetric | who may ask while accounts change |
| `limiter` | 2 checkers and the login behind 1 address, limits 2 and 1, window of 2 ticks, at most 3 hits per tick; fair | that fixed windows keep a limit over every period |
| `device` | 1 resident, 2 keys, 2 contacts, 2 handlers, rotation 2 and tolerance 4 seconds, clock of the server 0..1; symmetric, and a view without the audit log | activation over a lossy network; the freshness of codes |
| `audit_pages` | pages of 1 row, 3 rows with timestamps 1 to 3 (also equal ones), 2 actions, 3 pages, 2 requests in flight; symmetric | what a reader of the log sees while it changes |
| `overbooked`, `resurrected`, `token_reused`, `blocked_unlogged` | as `races` | the disagreements of section 5 |

`races`:

* `ReferentialIntegrity` - foreign keys, with the locks that enforce them,
  against a deletion that overlaps a provision.
* `HandlersOK` - what each handler relies on between its statements.
* `TokenMatchesResident` - a used token never belongs to a pending resident and
  an unused one never to an active one.
* `RevocationIsFinal` - a revocation holds for ever, *unless* a registration was
  already past its check when it committed. The exact extent of the finding
  `resurrected`.
* `BindingIsFinal` - a bound key is not replaced, with the same exception. The
  extent of `token_reused`.
* `FullUnitAdmitsNobody` - a unit that is full stays full, apart from requests
  already past the capacity check. The extent of `overbooked`.
* `OnlyPurgesDeadlock` - handlers that wait for each other's rows in a circle are
  rounds of the cleanup. `register_device` takes two locks as well, and a revocation
  or a purge that took the same rows in the other order would deadlock with it.

`cleanup`:

* `PurgedTokenNeverActivates` - not even for a registration that read the token
  before the purge.
* `ValidTokenSurvives` - the purge decides by a time read before it waits for
  locks, and still takes no token that could be used.
* `EveryRequestEnds` - no lock wait is for ever, unless two purges wait for each other,
  which PostgreSQL resolves by aborting one (a `Fail`). With one token in this run
  they cannot; `races` has two.
* `ExpiredRowsGo` - as long as rounds of the cleanup come, every expired token
  and every old audit row is gone in the end, whatever the rounds overlap.

`orderly`: `CapacityRespected`, `AtMostOneOwner`, `KeyExactlyWhenActive`,
`RevocationIsPermanent` and `ImplementsRegistry`. The first and the fourth are those
that `overbooked` and `resurrected` refute without the order: the two kinds of run
together say which overlaps are to blame.
`TokenIsSingleUse`, which `token_reused` refutes, is proved of orderly requests
(`OrderlySingleUse`) and not run: `register_device` checks both the token and the
status, and no single mistake breaks it.

`gate_door`:

* `RevokedIsShutOut` - once a revocation is settled and the scans already judged
  are answered, no code of the resident is found valid again. The stale row of
  `verify` costs the requests in flight and no more.
* `OnlyTheBoundKeyOpens` - while one device is bound, no other key of the same
  resident gets in, even though a row that was activated twice has had another.
* `ImplementsDoor` - the verdict of `verify` is the truth of one instant.
* `UnitsStay` - the unit in a scan row is the resident's and is never deleted,
  although `delete` only asks for residents who are not revoked; and no scan of a
  resident still pending succeeds. It rests on the foreign key of `residents` and
  on the fact that nothing deletes a resident.

`gate_accounts`:

* `DeactivationIsFinal` - a deactivated checker, once the requests in flight are
  over, gets no answer with any token until an admin who has *seen* the account
  inactive switches it on: a change of role that overlaps the deactivation does
  not undo it.
* `DemotionIsFinal` - a manager made a guard sees no name and no log, whatever
  the tokens say that are still valid.
* `UsernamesUnique` - two creations that overlap cannot give two checkers a name.

`limiter`:

* `ImplementsQuota` - who keeps to the limit is never refused, whoever else is
  behind the same address, and no period sees more than `2 * Limit - 1` requests
  of one caller.
* `WindowEnds` - requests made while refused do not put off the end of the window.

`device`:

* `BoundKeyIsOnDevice` - as long as the resident starts over only when refused,
  the key that the server binds is the one on the device.
* `ActivatedIsBound` - a device that shows codes signs them with the bound key,
  unless an attempt was left unanswered, the commit failed after the answer, or
  the resident was revoked; a correction of the contact that overlaps the
  activation leaves key and status alone. Each exception is needed: a success answered before a
  commit that fails leaves the device on the screen of the code with a key that
  no server knows, and nothing in the client leads back.
* `ShownCodeIsFresh` - of a tolerance of two rotations one is used up by the
  rotation itself; the other remains for latency and clock skew.

`audit_pages`:

* `NoInstantSkipped` - who pages from page 1, one request at a time, has seen a row
  of every timestamp of which a row was there all along: OFFSET pages overlap when
  the list grows at its head, and leave no gap because rows only go at its end. So
  no row is missed that has its timestamp to itself. Of rows with equal timestamps
  at the end of a page one can be shown twice and another never, as two queries may
  order them differently; more cannot be promised of this query.
* `ShownIsSelected` - rows shown match the filter selected once all is answered,
  *if no request overlapped another*. With an overlap the answer that arrives last
  wins: that is the extent of what the viewer promises.

### Bounds

The constants bound ids, keys, capacities, handlers in flight (`Requests`, `Desks`,
`Calls`; a slot is used again and again, so the number of requests is not bounded)
and the clock (`MaxTime`). Every race of the registry is between two handlers over
one unit or one resident, so two slots show each of them; two residents are needed
for a second occupant or owner, two keys for a replaced binding, two capacities for
an update in either direction. The ids of residents are not used again, so an
instance ends when all are used up; every other request goes on. `races` keeps the
clock still, because expiry plays no part in its properties; `cleanup` moves it,
with tokens and audit rows that live for the instant of their creation, which is
enough to be on either side of each comparison. Two tokens are beyond what its
liveness can be checked with; the waits between purges of two tokens are in `races`.
`orderly` keeps the clock still, too, so that its purges only meet used tokens; expiry
under orderly requests is left to the theorem `OrderlyImplementsRegistry`.

`gate_door` has one verification: verifications write nothing that another one
reads. It keeps the clock still and every code is then fresh, expired or from the
future by its own time alone; scan rows never get old, so their purge is enabled
with nothing to take, and that case is covered by the theorem `ScannedUnitsStay`
alone. `gate_accounts` leaves the registry out, which shares nothing but the clock
with the accounts, and moves the clock so that tokens expire. `limiter` needs a
window longer than a tick, a limit above one, and more hits than the limit of one
window. `device` needs a second key to start over, and a second contact for a
correction that writes, and a tick after which the token has expired. What other
residents do meanwhile is more than the run can hold and is left to the theorems
`BoundKeyStays` and `ActivatedBound`. Its view counts states that differ in the audit
log only as one: no property reads the log, and a unit has rows there only if it has
residents, who keep it from being deleted anyway. In `audit_pages` three
rows over pages of one make a middle page, two rows with one timestamp a tie across the
end of a page, and two requests one overtaking the other; `MaxPage` is the last page
turned to.

Symmetry is used where only invariants and step properties are checked, and where
the sets are interchangeable.

### Fairness

`FairSpec` of `Backend` asks of every handler in flight that it takes its next
statement or its commit if that is possible again and again. It is strong fairness
because a blocked UPDATE waits in PostgreSQL's queue for the row and a later writer
does not overtake it. Nothing is assumed about arrivals, failures or the clock.

`ExpiredRowsGo` has the premise `RoundsRecur`: again and again a round of the
cleanup that read the current time commits. The code justifies it as far as
`run_periodic_cleanup` catches the exception of a round and sleeps for the next
one; that not every round fails is about the database and not about the code.

`RateLimiter` assumes that time passes (weak fairness of `Tick`). The other models
have safety properties only and assume nothing.

## 4. What is proved

All theorems hold for all values of the constants that satisfy the named
assumptions of the modules (capacities, times and limits are natural numbers, the
sentinels differ from the values they stand beside, the accounts seeded have
different names).

| Theorem | Property |
|---|---|
| `BackendProofs`: `TypeCorrect`, `ReferencesHold`, `HandlersSafe`, `TokensMatch`, `RevocationFinal` | `TypeOK`, `ReferentialIntegrity`, `HandlersOK`, `TokenMatchesResident`, `RevocationIsFinal` |
| `RegistrationProofs`: `ValidTokensSurvive`, `PurgedTokensDead`, `BindingFinal`, `FullUnitsAdmitNobody`, `OnlyPurgesCycle` | `ValidTokenSurvives`, `PurgedTokenNeverActivates`, `BindingIsFinal`, `FullUnitAdmitsNobody` (for finitely many residents), `OnlyPurgesDeadlock` (for circles of any length) |
| `OrderlyProofs`: `OrderlyImplementsRegistry` | `ImplementsRegistry` of `OrderlySpec`, a refinement |
| `OrderlyCapacity`, `OrderlyOwner`, `OrderlyKeys`, `OrderlyRevocation`, `OrderlySingleUse` | `CapacityRespected`, `AtMostOneOwner`, `KeyExactlyWhenActive`, `RevocationIsPermanent`, `TokenIsSingleUse`, of `OrderlySpec` |
| `SerialIsOrderly` | `Spec /\ []OneAtATime => OrderlySpec` |
| `GateProofs`: `GateRunsRegistry` | `GateSpec => Spec` |
| `GateTypeCorrect`, `NamesUnique`, `RevokedShutOut`, `OnlyTheBoundKey`, `DeactivationFinal`, `DemotionFinal`, `ScannedUnitsStay` | `GateTypeOK`, `UsernamesUnique`, `RevokedIsShutOut`, `OnlyTheBoundKeyOpens`, `DeactivationIsFinal`, `DemotionIsFinal`, `UnitsStay` |
| `GateImplementsDoor` | `ImplementsDoor`, a refinement |
| `CodeRotationProofs`: `CodesAreFresh`; `DeviceProofs`: `DeviceCodesAreFresh` | `ShownCodeIsFresh`, of the rotation alone and of the whole client |
| `DeviceProofs`: `RegistryUnhindered` | a step of the registry that is not of the device's own registration is a step of `DeviceNext` |
| `BoundKeyStays`, `ActivatedBound` | `BoundKeyIsOnDevice`, `ActivatedIsBound` |
| `RateLimiterProofs`: `LimiterTypeCorrect` | `TypeOK` of `RateLimiter` |
| `LimiterImplementsQuota` | `ImplementsQuota`, a refinement |
| `AuditPagesProofs`: `PagesTypeCorrect`, `PagesSkipNoInstant`, `PagesShowTheSelection` | `TypeOK` of `AuditPages`, `NoInstantSkipped`, `ShownIsSelected` |

**The registry.** `TypeOK` and `ReferentialIntegrity` are not inductive. A
provision that commits must know that its unit still exists and its id is still
nobody else's; a deletion that commits must know that nothing refers to its unit.
That is `HandlersOK`, and `IInv == TypeOK /\ ReferentialIntegrity /\ HandlersOK`
is inductive: the key-share lock of a provision excludes the DELETE, the lock of
the DELETE excludes the provision, the row a purge has come to is one of the
residents, and each handler's part survives the steps of the others. `StepIInv`, `StartIInv`, `RollbackIInv` and `CommitStep` prove this
once for each kind of step; the lemmas per operation show that it is of that kind.
`TokenMatchesResident` and `RevocationIsFinal` then follow from the few commits
that write residents and tokens (`RowsChangeAtCommit`), and the latter from where
an activation can start (`ActivationStarts`).

**Tokens and bindings.** `TokenHeld` adds what a registration with the token row
locked knows: the token exists and no purge can take it. With it, `TokenStep`
describes every step's effect on tokens, and the three results about them follow.
`FullUnitAdmitsNobody` counts, so it needs that the residents are finitely many;
`NoAdmission` shows that nobody joins the occupants of a full unit, `RevokedLeaves`
that only a revocation makes them fewer. `OnlyPurgesDeadlock` needs no invariant, only
what each step holds and wants (`LockOrder`): in a circle everybody holds a row while
waiting for another, which only `RegisterToken` and `CleanupRow` do. Both wait for
tokens, and a registration that still waits for its token holds none.

**The gate.** `GInv == GateTypeOK /\ CallsOK /\ DesksOK /\ UsernamesUnique`:
`CallsOK` says what a request of a checker holds at each of its steps, `DesksOK`
that a creation past its INSERT has its name and id to itself, by the index.
`LettingInStep` shows that a verdict "valid" arises in one action only, from the
committed row, which gives `RevokedIsShutOut` and `OnlyTheBoundKeyOpens` with the
theorems of the registry. `DeactivationIsFinal` and `DemotionIsFinal` rest on
`CheckerRowStep`: a commit changes only the columns that the update had seen
differently. `DoorStep` maps every step to `Door`. For the log, `LogOK` extends
`UnitsStay` to the rows still to be committed; `ResidentStays` carries it over
the steps of the registry.

**The device.** `RegistryUnhindered` says that the model of the device leaves out
nothing the registry could do to the resident's row. `DInv == PageOK /\ OnePlace /\ RefusedIsDead /\ OneHope /\ Promises`:
an attempt is in one place at a time (on its way, with one handler, or answered);
a key refused is nowhere on its way any more; unless the resident started over,
only the stored key still can be bound; and a success promised is bound or about
to be. `OtherRequests` is the part about everybody else: among the requests that
are not this registration only a revocation changes the key in the row (`AdminRow`);
corrections and the registrations of others leave it alone. `CodeAge`
ties the age of a code to the second of the slot.

**Orderly requests.** `OrderlySpec => Spec`, so the invariants of the registry hold.
`OInv` adds `Held`: what each handler *checked* is still so when it commits - the
unit has a place left and an owner or none as it was found, the capacity wanted has
room for the residents there are, the resident to be activated is pending, the row
to be revoked has not come back from what was read of it. `FewResidents` (each unit
has finitely many residents, since provisions commit one by one) makes the counts
numbers; nothing is assumed of the set of resident ids. For a step of one handler
the proof asks what it does to the *house* of a unit, that is, its residents, its
occupants and whether it has an owner: a provision adds to one (`HouseAfterProvision`),
a registration or correction changes none, a revocation takes one out
(`HouseAfterUpdate`). `HeldKept` says what another handler needs to be left alone,
and `NoConflict` is used exactly where a step would not leave it alone. Each commit
is then its operation of `Registry` (`ProvisionImplements` to `PurgeImplements`), and the
five properties of residents and units follow from the same descriptions of the
commits.

**The limiter.** `WindowOK` splits what was granted at the opening of the window that
runs. Since then it let through what it has counted, up to the limit. Of the window
before, at most one request less than the limit is still remembered, because the
request that opened it is `Window` ticks old or older (`ClosedOK`, `OpenOK`). Ages are
what `Quota` counts by, so that a tick moves both sides together and no sum over a
period has to be reasoned about.

**The log viewer.** An answer leaves out what it skips and what comes after it; the
rows skipped are none of them older than the answer (`PageParts`). `Newer(x, f)` are the
rows of the filter with a later timestamp than x, whatever the order of ties. `Beyond` says
of a row whose timestamp has not been met that the pages read so far are all newer than
it and were full, so that at least as many newer rows exist. `PassOK`: in a pass without
overlap there is one request at most, for the page and filter selected, and every row
that was there all along is beyond what was read or has had its timestamp shown.
`SkippedAreNewer` and `NotYetRead` carry that from one page to the next: the rows that the
next query skips are as many as were read, hence all of them newer than a row beyond.
`NewerStays` is why it lasts in between: an insertion only adds newer rows, and the purge
only takes rows that are older than all that stay. `NoInstantSkipped` and
`ShownIsSelected` are consequences of `PassOK`.

Only model-checked: the liveness properties (`EveryRequestEnds`, `ExpiredRowsGo`,
`WindowEnds`), which this prover does not reach. Every invariant, step property and
refinement that a passing run checks is also a theorem.

## 5. Where code and documentation disagree

1. `overbooked`: `routes/residents.py:37` says that provisioning "Enforces unit
   capacity"; two requests that overlap both find the last place free.
2. `resurrected`: the admin client confirms a revocation with "This action is
   permanent." (`Dashboard.tsx:153`); a registration that had found the resident
   pending makes the resident active after it.
3. `token_reused`: `instructions.md:156` and `plan.md:65` promise a single-use
   token; two registrations that overlap both succeed, and the second device
   replaces the first.
4. `blocked_unlogged`: `TODO.md:90` expects, and `resident_service.py:34`
   announces, a `registration_blocked` row; the refusal rolls it back.

The first three need two requests that overlap; `RevocationIsFinal`,
`BindingIsFinal` and `FullUnitAdmitsNobody` say what is still true of them, and
`OrderlySpec` which requests would have to be kept apart for the documentation to be
right.

Worth knowing, though nothing in the documentation is plainly contradicted:

* `TODO.md:27` expects that the 31st request within a minute is refused. Windows
  are fixed, so that is true of a window and not of every minute; `Quota` states
  the bound that does hold, twice the limit less one.
* A registration is answered before it is committed (`database.py:32`). If the
  commit fails the device believes itself activated (`ActivatedIsBound` names the
  exception). In the same way a scan may be answered and its audit row lost.
* The pages of the audit log are cut from a list ordered by timestamp alone
  (`audit_service.py:67-70`): rows that share a timestamp and meet the end of a page
  can be shown twice or never. An `id` in the ORDER BY would rule that out.
* Two rounds of the cleanup that overlap (the timer's and one of `POST /admin/cleanup`)
  can wait for each other's tokens; PostgreSQL aborts one, whose tokens are left for
  the next round.
* A resident who retries an activation whose answer was lost overwrites the key
  that the server may have bound (`BoundKeyIsOnDevice` names the exception).

## 6. Plan

Done: the registry, its abstract specification, and its theorems, with and without
overlapping requests; accounts and access verification with theirs; the resident's
client; the rate limiter and the audit log, each with its theorems.

Left, in this order:

1. The two columns of a contact, written apart by corrections that overlap.
2. The scan screen of the checker's client: answers out of order.

## 7. Not modelled

* **Admin accounts.** Nothing writes their rows while the system runs
  (`AdminService.create` has no route), so the role checks of the admin routes
  depend on nothing that changes; requests of admins are taken as authorised.
* **The checker's scan screen and login, the admin client.** They hold what was
  typed and what was last answered. The scan screen can show an earlier answer
  that arrives late (a hazard without a property yet).
* **The two columns of a contact** (see section 2).
* **The expired attribute after a changed capacity** (`routes/units.py:102`):
  SQLAlchemy may have to load `updated_at` again where it cannot, and the request
  fails. `Fail` covers the rollback; that the failure is certain is a matter of
  the library and is not asserted.
* **Addresses behind a proxy.** The limiter is modelled as it sees addresses; how
  many clients share one is a matter of deployment.
* **Several server processes.** Counters are per process; the repository starts one.
* **The signature check and its DER conversion** are a call of a library: a
  signature verifies under the key that made it and no other.
* **Migrations, seeding and deployment** run before the system does.

* **The rows of the audit DELETE.** `purge_old_audit_logs` takes its rows in one step
  together with the commit that follows at once. Only another purge ever writes or deletes
  an audit row, so only two purges could meet there, and wait for each other, as they can
  over tokens.
* **A timer that is late.** `Second` lets the interval of the resident's screen run every
  second; a browser that suspends the page is not modelled.

## 8. Running

    tlc -config MCBackendRaces.cfg MCBackend.tla
    tlc -config MCBackendCleanup.cfg MCBackend.tla
    tlc -config MCBackendOrderly.cfg MCBackend.tla
    tlc -config MCGateDoor.cfg MCGate.tla
    tlc -config MCGateAccounts.cfg MCGate.tla
    tlc -config MCRateLimiter.cfg MCRateLimiter.tla
    tlc -config MCDevice.cfg MCDevice.tla
    tlc -config MCAuditPages.cfg MCAuditPages.tla

    tlapm BackendProofs.tla      # and the other seven *Proofs modules

The remaining configurations are expected to end with a counterexample.
Definitions named `X_Y` next to a definition `X` are mutants of it: the comment
says which mistake they make, and `PROJECT.json` which property notices.
