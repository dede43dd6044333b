------------------------------- MODULE Device -------------------------------
(***************************************************************************)
(* The resident's web client (web/resident: ActivationScreen.tsx, App.tsx) *)
(* and the registry it activates itself with.  The key pair and the        *)
(* resident id live in localStorage and survive a reload; the page's       *)
(* request does not.  Requests and answers can be lost, and the server     *)
(* answers a registration before it commits it.                            *)
(***************************************************************************)
EXTENDS Backend, CodeRotation

CONSTANT Me   \* the resident whose activation token the device has

ASSUME DeviceAssumption == Me \in Residents

VARIABLES
    private_key,   \* localStorage: the key pair generated last, or NULL
    resident_id,   \* localStorage: Me once an activation was answered, or NULL
    loading,       \* the key of the attempt that the page waits for, or NULL
    requests,      \* keys on their way to POST /residents/register
    answers,       \* [key, ok]: answers on their way back
    tried,         \* every key generated (of what happened, not kept anywhere)
    refused,       \* those for which the device was told so
    trouble        \* what went wrong: see Activate, GiveUp and RegisterFail

deviceVars == <<private_key, resident_id, loading, requests, answers, tried, refused, trouble>>
pageVars   == <<private_key, resident_id, loading, tried, refused>>

Answer(k, ok) == [key |-> k, ok |-> ok]

-----------------------------------------------------------------------------
(* The page. *)

\* Mutant: the new private key is not stored before the request is sent.
Activate_NotStored(k) ==
    /\ resident_id = NULL
    /\ loading = NULL
    /\ k \notin tried
    /\ loading' = k
    /\ requests' = requests \cup {k}
    /\ tried' = tried \cup {k}
    /\ trouble' = IF tried \subseteq refused THEN trouble ELSE trouble \cup {"started_over"}
    /\ UNCHANGED <<private_key, resident_id, answers, refused>>

\* handleActivate: a new key pair replaces the stored one, then the request is
\* sent.  App shows the screen while there is no resident id, and the button is
\* disabled while the page waits.
Activate(k) ==
    /\ resident_id = NULL
    /\ loading = NULL
    /\ k \notin tried
    /\ private_key' = k
    /\ loading' = k
    /\ requests' = requests \cup {k}
    /\ tried' = tried \cup {k}
    /\ trouble' = IF tried \subseteq refused THEN trouble ELSE trouble \cup {"started_over"}
    /\ UNCHANGED <<resident_id, answers, refused>>

\* The answer reaches the page that waits for it; App goes on to the code, which
\* generateQr signs with whatever key is stored.
Receive(a) ==
    /\ a \in answers /\ loading = a.key
    /\ loading' = NULL
    /\ answers' = answers \ {a}
    /\ \/ /\ a.ok
          /\ resident_id' = Me
          /\ \E s \in 0 .. Rotation - 1 : OpenScreen(s)
          /\ UNCHANGED refused
       \/ /\ ~a.ok
          /\ refused' = refused \cup {a.key}
          /\ UNCHANGED <<resident_id, rotationVars>>
    /\ UNCHANGED <<private_key, requests, tried, trouble>>

\* App opens on the code if there is a resident id in the storage.
Reload ==
    /\ resident_id = Me
    /\ \E s \in 0 .. Rotation - 1 : OpenScreen(s)
    /\ UNCHANGED deviceVars

\* The connection fails or the page is reloaded while it waits: whatever becomes
\* of the request, this device will not hear of it.
GiveUp ==
    /\ loading # NULL
    /\ loading' = NULL
    /\ trouble' = trouble \cup {"unanswered"}
    /\ answers' = {a \in answers : a.key # loading}
    /\ UNCHANGED <<private_key, resident_id, requests, tried, refused>>

LoseRequest(k) ==
    /\ k \in requests
    /\ requests' = requests \ {k}
    /\ UNCHANGED <<pageVars, answers, trouble>>

-----------------------------------------------------------------------------
(* The server, as the device meets it. *)

\* Nobody listens any more for the answer to an attempt given up.
Send(k, ok) == answers' = IF loading = k THEN answers \cup {Answer(k, ok)} ELSE answers

Registers(p, step) == pc[p] = step /\ local[p].resident = Me

\* The request arrives: its token is looked up, or it is refused at once.
Arrive(p, k) ==
    /\ k \in requests
    /\ requests' = requests \ {k}
    /\ \/ /\ RegisterLoadToken(p, Me, k)
          /\ UNCHANGED <<pageVars, answers, trouble>>
       \/ /\ ~TokenAccepted(Me)
          /\ pc[p] = "idle"
          /\ Send(k, FALSE)
          /\ UNCHANGED <<vars, pageVars, trouble>>

\* Handler p is in the middle of the registration of this resident.
RegistersMe(p) ==
    \E step \in {"register_resident", "register_flush", "register_token", "register_commit"} :
        Registers(p, step)

\* A statement of the registration; the answer is sent before the commit.
RegisterStep(p) ==
    /\ RegistersMe(p)
    /\ RegisterLoadResident(p) \/ RegisterFlush(p) \/ RegisterToken(p)
    /\ IF pc'[p] \in {"register_flush", "register_token"} THEN UNCHANGED answers
       ELSE Send(local[p].key, pc'[p] = "register_commit")
    /\ UNCHANGED <<pageVars, requests, trouble>>

\* A failing statement is answered with an error, a failing commit is not: the
\* answer was a success.
RegisterFail(p) ==
    /\ RegistersMe(p)
    /\ Fail(p)
    /\ IF pc[p] = "register_commit"
       THEN trouble' = trouble \cup {"not_committed"} /\ UNCHANGED answers
       ELSE Send(local[p].key, FALSE) /\ UNCHANGED trouble
    /\ UNCHANGED <<pageVars, requests>>

\* Whatever else the registry does, and its commit of this registration, goes on
\* regardless of the device.  Nobody else has the resident's token.
ServerStep(p) ==
    /\ Handler(p) \/ Fail(p)
    /\ RegistersMe(p) => RegisterCommit(p)
    /\ ~RegistersMe(p) => ~RegistersMe(p)'
    /\ UNCHANGED deviceVars

DeviceInit ==
    /\ Init /\ RotationInit
    /\ private_key = NULL /\ resident_id = NULL /\ loading = NULL
    /\ requests = {} /\ answers = {}
    /\ tried = {} /\ refused = {} /\ trouble = {}

ActivationNext == (\E k \in Keys : Activate(k) \/ LoseRequest(k)) \/ GiveUp

ServerNext(p) ==
    \/ \E k \in Keys : Arrive(p, k)
    \/ RegisterStep(p)
    \/ RegisterFail(p)
    \/ ServerStep(p)

DeviceNext ==
    \/ ActivationNext /\ UNCHANGED <<vars, rotationVars>>
    \/ (Reload \/ \E a \in answers : Receive(a)) /\ UNCHANGED vars
    \/ (Second \/ Timer) /\ UNCHANGED <<vars, deviceVars>>
    \/ (\E p \in Requests : ServerNext(p)) /\ UNCHANGED rotationVars
    \/ Tick /\ UNCHANGED <<deviceVars, rotationVars>>

DeviceSpec == DeviceInit /\ [][DeviceNext]_<<vars, deviceVars, rotationVars>>

-----------------------------------------------------------------------------
BoundKey == IF ResidentExists(Me) THEN residents[Me].public_key ELSE NULL

\* As long as the resident starts over only when refused, the key that the server
\* binds is one that the device still has: an answer lost, a reload or a commit
\* that fails costs no key.  (Who retries an attempt left open can lose it.)
BoundKeyIsOnDevice ==
    "started_over" \notin trouble => BoundKey \in {NULL, private_key}

\* A device that shows codes signs them with the bound key, unless an attempt was
\* left unanswered, the commit failed after the answer, or the resident was
\* revoked; overlapping requests of admins and the cleanup do no harm.
ActivatedIsBound ==
    resident_id = Me /\ {"unanswered", "not_committed"} \cap trouble = {} =>
        \/ BoundKey = private_key
        \/ \E p \in Requests : Registers(p, "register_commit") /\ local[p].key = private_key
        \/ residents[Me].revoked
=============================================================================
