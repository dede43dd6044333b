---------------------------- MODULE CodeRotation ----------------------------
(***************************************************************************)
(* The code on the resident's screen (web/resident QRScreen.tsx): drawn    *)
(* when the screen opens and again by a timer that runs every second and   *)
(* looks whether the device's clock has entered another slot of Rotation   *)
(* seconds.  The server accepts a timestamp that differs from its own      *)
(* clock by at most Tolerance seconds (verify in access_service.py).       *)
(***************************************************************************)
EXTENDS Integers

CONSTANTS
    Rotation,    \* seconds between two codes
    Tolerance    \* QR_TIMESTAMP_TOLERANCE_SEC

ASSUME RotationAssumption == Rotation \in Nat \ {0} /\ Tolerance \in Nat

VARIABLES
    open,     \* QRScreen is mounted
    second,   \* the device's clock, in seconds since the start of its slot
    age,      \* seconds since the code on the screen was signed
    timer     \* "due": the slot is not the one that the timer saw last

rotationVars == <<open, second, age, timer>>

\* The screen is opened, or the page reloaded, at any second of a slot.
OpenScreen(s) ==
    /\ open' = TRUE
    /\ second' = s
    /\ age' = 0
    /\ timer' = "idle"

\* Mutant: the timer looks at the clock only when the page has time for it.
Second_TimerLate ==
    /\ open
    /\ second' = (second + 1) % Rotation
    /\ age' = age + 1
    /\ timer' = IF second' = 0 THEN "due" ELSE timer
    /\ UNCHANGED open

\* A second passes.  The timer has run since the last one: the page is in the
\* foreground, or nobody could scan it.
Second ==
    /\ open /\ timer = "idle"
    /\ second' = (second + 1) % Rotation
    /\ age' = age + 1
    /\ timer' = IF second' = 0 THEN "due" ELSE "idle"
    /\ UNCHANGED open

\* The timer finds another slot than last time and draws a new code.
Timer ==
    /\ open /\ timer = "due"
    /\ age' = 0
    /\ timer' = "idle"
    /\ UNCHANGED <<open, second>>

RotationInit == open = FALSE /\ second = 0 /\ age = 0 /\ timer = "idle"

RotationNext == (\E s \in 0 .. Rotation - 1 : OpenScreen(s)) \/ Second \/ Timer

RotationSpec == RotationInit /\ [][RotationNext]_rotationVars

-----------------------------------------------------------------------------
\* How far the server's clock, when it verifies the code, may be from the
\* device's clock when the code was scanned: the way to the server takes time,
\* and the clocks disagree.
Tolerated == -Tolerance .. (Tolerance - Rotation)

\* Whatever moment it is scanned at, a code that reaches the server with clocks
\* that far apart is not refused as expired: of the tolerance of two rotations,
\* one remains for latency and a slow clock, and both for a fast one ("2x
\* rotation cycle - tolerates clock skew", plan.md).
ShownCodeIsFresh ==
    open => \A d \in Tolerated : age + d \in -Tolerance .. Tolerance
=============================================================================
