----------------------------- MODULE RateLimiter -----------------------------
(***************************************************************************)
(* The rate limits of POST /access/verify and of the two logins:           *)
(* app/core/limiter.py with the decorators of app/routes/access.py and     *)
(* app/routes/auth.py, over the fixed windows that slowapi keeps in the    *)
(* memory of the one server process.  A check is synchronous, so a hit is  *)
(* one step.  Time is a countdown: nothing depends on when the server was  *)
(* started.                                                                *)
(***************************************************************************)
EXTENDS Integers, FiniteSets

CONSTANTS
    Calls,      \* kinds of request: [route, checker, address] with a checker or NULL
    Limit,      \* Limit[route]: requests per window
    Window,     \* length of a window, in ticks
    MaxHits,    \* bound on the requests counted together in one tick
    NULL

Routes == {"/access/verify", "/auth/admin/login", "/auth/checker/login"}

ASSUME LimiterAssumption ==
    /\ \A c \in Calls : c.route \in Routes
    /\ \A c \in Calls : c.route = "/access/verify" => c.checker # NULL
    /\ Limit \in [Routes -> Nat \ {0}]
    /\ Window \in Nat \ {0}
    /\ MaxHits \in Nat

\* Mutant: every route is limited by address.
KeyOf_Address(c) == [route |-> c.route, key |-> c.address]

\* get_checker_rate_limit_key names the checker of a genuine token and else the
\* address, the logins use get_remote_address; each decorated route counts
\* apart.  (get_current_checker has refused a verification without a token before
\* the decorator runs, so there the address is never used.)
KeyOf(c) ==
    [route |-> c.route,
     key   |-> IF c.route = "/access/verify" /\ c.checker # NULL THEN c.checker ELSE c.address]

VARIABLES
    count,      \* count[k]: hits of key k in its window, up to Limit + 1
    left,       \* left[k]: ticks until that window expires, 0 when there is none
    asked,      \* requests up to each age (of what callers did, not part of the limiter)
    granted     \* those that passed

vars == <<count, left, asked, granted>>

Subject(c) == [route |-> c.route, who |-> IF c.route = "/access/verify" THEN c.checker ELSE c.address]

Subjects == {Subject(c) : c \in Calls}
Buckets  == {KeyOf(c) : c \in Calls}

\* A checker may verify Limit times per period, an address may log in Limit
\* times per period on each login route; a burst across the end of a window can
\* take what is left of one window and all of the next.
Guarantee == INSTANCE Quota WITH
    Least <- [s \in Subjects |-> Limit[s.route]],
    Most  <- [s \in Subjects |-> 2 * Limit[s.route] - 1]

-----------------------------------------------------------------------------
\* Mutant: every hit renews the window.
LeftAfterHit_Renewed(k) == Window

\* The first hit of a key opens its window, the others leave it alone.
LeftAfterHit(k) == IF left[k] = 0 THEN Window ELSE left[k]

WithinLimit(k, n) == n <= Limit[k.route]

\* One more hit of k.  Beyond the limit all counts are alike and not told apart.
Counted(k) == IF count[k] > Limit[k.route] THEN count[k] ELSE count[k] + 1

\* A request of kind c reaches the decorator: the hit is counted whether or not
\* it then passes.
Hit(c) ==
    LET k == KeyOf(c)
        s == Subject(c)
    IN /\ asked[s][0] < MaxHits
       /\ count' = [count EXCEPT ![k] = Counted(k)]
       /\ left' = [left EXCEPT ![k] = LeftAfterHit(k)]
       /\ asked' = Guarantee!Now(asked, s)
       /\ granted' = IF WithinLimit(k, count'[k]) THEN Guarantee!Now(granted, s) ELSE granted

\* Mutant: the count outlives its window.
Tick_KeepsCount ==
    /\ left' = [k \in Buckets |-> IF left[k] = 0 THEN 0 ELSE left[k] - 1]
    /\ UNCHANGED count
    /\ Guarantee!Tick

\* A window that has expired is dropped with its count.
Tick ==
    /\ left' = [k \in Buckets |-> IF left[k] = 0 THEN 0 ELSE left[k] - 1]
    /\ count' = [k \in Buckets |-> IF left'[k] = 0 THEN 0 ELSE count[k]]
    /\ Guarantee!Tick

\* The counts are in the memory of the process.
Restart ==
    /\ count' = [k \in Buckets |-> 0]
    /\ left' = [k \in Buckets |-> 0]
    /\ Guarantee!Restart

Init ==
    /\ count = [k \in Buckets |-> 0]
    /\ left = [k \in Buckets |-> 0]
    /\ Guarantee!Init

Next == (\E c \in Calls : Hit(c)) \/ Tick \/ Restart

\* Time passes.
Spec == Init /\ [][Next]_vars /\ WF_vars(Tick)

-----------------------------------------------------------------------------
\* Counts and countdowns agree: a window that runs has counted something.
TypeOK ==
    /\ count \in [Buckets -> Nat] /\ \A k \in Buckets : count[k] <= Limit[k.route] + 1
    /\ left \in [Buckets -> 0..Window]
    /\ \A k \in Buckets : count[k] = 0 <=> left[k] = 0

\* Seen by the callers, the fixed windows are a limit over every period of the
\* same length: a checker or address that keeps to its rate is never refused,
\* whoever else shares its address, and no burst passes 2 * Limit - 1 requests
\* (slowapi's default strategy behind the decorators of access.py and auth.py).
ImplementsQuota == Guarantee!Spec

\* A caller who keeps asking while refused still gets a new window: refused
\* requests are counted but do not put off its end.
WindowEnds == \A k \in Buckets : left[k] > 0 ~> left[k] = 0
=============================================================================
