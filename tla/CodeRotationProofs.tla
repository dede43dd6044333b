------------------------- MODULE CodeRotationProofs -------------------------
(***************************************************************************)
(* The code on the screen is fresh for every length of a slot and every    *)
(* tolerance.  A code is never older than a slot; and unless the timer is  *)
(* due it is no older than the slot has lasted, which is why it is not a   *)
(* second slot older when the timer comes.                                 *)
(***************************************************************************)
EXTENDS CodeRotation, TLAPS

CodeAge ==
    /\ timer \in {"idle", "due"}
    /\ second \in 0 .. Rotation - 1
    /\ age \in 0 .. Rotation
    /\ timer = "idle" => age <= second
    /\ timer = "due" => second = 0

\* The age of the code and the timer keep in step.
LEMMA CodeAgeInvariant == RotationSpec => []CodeAge
<1> USE RotationAssumption DEF CodeAge
<1>1. RotationInit => CodeAge
  BY DEF RotationInit
<1>2. CodeAge /\ [RotationNext]_rotationVars => CodeAge'
  <2> SUFFICES ASSUME CodeAge, [RotationNext]_rotationVars PROVE CodeAge'
    OBVIOUS
  <2>1. ASSUME NEW s \in 0 .. Rotation - 1, OpenScreen(s) PROVE CodeAge'
    BY <2>1 DEF OpenScreen
  <2>2. CASE Second
    <3>1. CASE second = Rotation - 1
      <4>1. second' = 0 /\ age' = age + 1 /\ timer' = "due" /\ age <= second
        BY <2>2, <3>1 DEF Second
      <4> QED BY <3>1, <4>1
    <3>2. CASE second # Rotation - 1
      <4>1. second' = second + 1 /\ age' = age + 1 /\ timer' = "idle" /\ age <= second
        BY <2>2, <3>2 DEF Second
      <4> QED BY <3>2, <4>1
    <3> QED BY <3>1, <3>2
  <2>3. CASE Timer
    BY <2>3 DEF Timer
  <2>4. CASE UNCHANGED rotationVars
    BY <2>4 DEF rotationVars
  <2> QED BY <2>1, <2>2, <2>3, <2>4 DEF RotationNext
<1> QED BY <1>1, <1>2, PTL DEF RotationSpec

\* A code scanned at any moment is accepted by a server whose clock and latency
\* differ from the device's by what the tolerance leaves after one slot.
THEOREM CodesAreFresh == RotationSpec => []ShownCodeIsFresh
<1>1. CodeAge => ShownCodeIsFresh
  <2> SUFFICES ASSUME CodeAge, NEW d \in Tolerated PROVE age + d \in -Tolerance .. Tolerance
    BY DEF ShownCodeIsFresh
  <2> QED BY RotationAssumption DEF CodeAge, Tolerated
<1> QED BY <1>1, CodeAgeInvariant, PTL
=============================================================================
