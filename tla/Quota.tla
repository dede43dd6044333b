-------------------------------- MODULE Quota --------------------------------
(***************************************************************************)
(* What a rate limit promises, counted over the last Window ticks and not  *)
(* over windows of its own: whoever asked Least times or fewer is never    *)
(* refused, and nobody gets through more than Most times.  Counts are      *)
(* relative to the present, so that nothing depends on the time of day.    *)
(***************************************************************************)
EXTENDS Integers

CONSTANTS
    Subjects,   \* whose requests are counted together
    Window,     \* length of the period, in ticks
    Least,      \* Least[s]: requests of s per period that are granted
    Most        \* Most[s]: requests of s per period that may be granted

Ages == 0 .. Window - 1

VARIABLES
    asked,      \* asked[s][a]: requests of s made at most a ticks ago
    granted     \* granted[s][a]: those of them that were let through

vars == <<asked, granted>>

\* All that is remembered of a count by age.
Total(f) == f[Window - 1]

Now(f, s) == [f EXCEPT ![s] = [a \in Ages |-> f[s][a] + 1]]

\* A tick: every request is a tick older, the oldest are forgotten.
Older(f) == [a \in Ages |-> IF a = 0 THEN 0 ELSE f[a - 1]]

Nothing == [s \in Subjects |-> [a \in Ages |-> 0]]

Grant(s) ==
    /\ Total(granted[s]) < Most[s]
    /\ asked' = Now(asked, s)
    /\ granted' = Now(granted, s)

Refuse(s) ==
    /\ Total(asked[s]) >= Least[s]
    /\ asked' = Now(asked, s)
    /\ UNCHANGED granted

Tick ==
    /\ asked' = [s \in Subjects |-> Older(asked[s])]
    /\ granted' = [s \in Subjects |-> Older(granted[s])]

\* The promise is about the time since the last start of the server.
Restart == asked' = Nothing /\ granted' = Nothing

Init == asked = Nothing /\ granted = Nothing

Next == (\E s \in Subjects : Grant(s) \/ Refuse(s)) \/ Tick \/ Restart

Spec == Init /\ [][Next]_vars
=============================================================================
