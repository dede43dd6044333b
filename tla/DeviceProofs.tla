---------------------------- MODULE DeviceProofs ----------------------------
(***************************************************************************)
(* Theorems about Device for every set of keys, residents and request      *)
(* slots.  A key is live while its request is on its way, a handler has it *)
(* or it is bound; the invariant is that a key lives in one place only and *)
(* that a key the device was refused is not live, which is what makes      *)
(* starting over after a refusal safe.                                     *)
(***************************************************************************)
EXTENDS Device, BackendProofs, CodeRotationProofs

RegisterSteps == {"register_resident", "register_flush", "register_token", "register_commit"}

allVars == <<vars, deviceVars, rotationVars>>

\* A step with the device is a step of the registry or leaves it alone.
LEMMA DeviceRegistryStep == [DeviceNext]_allVars => [Next]_vars
<1> SUFFICES ASSUME DeviceNext PROVE Next \/ UNCHANGED vars
  BY DEF allVars, vars
<1>1. ASSUME NEW p \in Requests, ServerNext(p) PROVE Next \/ UNCHANGED vars
  <2>1. ASSUME NEW k \in Keys, Arrive(p, k) PROVE Next \/ UNCHANGED vars
    BY <2>1, DeviceAssumption DEF Arrive, Next, Handler, ResidentServiceNext
  <2>2. CASE RegisterStep(p)
    BY <2>2 DEF RegisterStep, Next, Handler, ResidentServiceNext
  <2>3. CASE RegisterFail(p)
    BY <2>3 DEF RegisterFail, Next
  <2>4. CASE ServerStep(p)
    BY <2>4 DEF ServerStep, Next
  <2> QED BY <1>1, <2>1, <2>2, <2>3, <2>4 DEF ServerNext
<1>2. CASE Tick
  BY <1>2 DEF Next
<1> QED BY <1>1, <1>2 DEF DeviceNext

\* What the registry does behind a device is what the registry does.
LEMMA DeviceInRegistry == DeviceSpec => Spec
<1>1. DeviceInit => Init
  BY DEF DeviceInit
<1> QED BY <1>1, DeviceRegistryStep, PTL DEF DeviceSpec, Spec, allVars

\* And every step of the registry is there: whatever statement, commit, failure or
\* tick it can take, the device stands by, unless it is one of the registration
\* that the device itself asked for.
THEOREM RegistryUnhindered ==
    ASSUME \/ Tick
           \/ \E p \in Requests : (Handler(p) \/ Fail(p)) /\ ~RegistersMe(p) /\ ~RegistersMe(p)',
           UNCHANGED <<deviceVars, rotationVars>>
    PROVE  DeviceNext
<1>1. CASE Tick
  BY <1>1 DEF DeviceNext
<1>2. ASSUME NEW p \in Requests, Handler(p) \/ Fail(p), ~RegistersMe(p), ~RegistersMe(p)'
      PROVE  DeviceNext
  <2>1. ServerStep(p)
    BY <1>2 DEF ServerStep
  <2> QED BY <2>1 DEF ServerNext, DeviceNext
<1> QED BY <1>1, <1>2

\* So the invariant of the registry holds.
LEMMA DeviceRegistryInvariant == DeviceSpec => []IInv
BY DeviceInRegistry, Invariance, PTL

\* The codes that an activated device shows are as fresh as those of a screen
\* that is only opened and looked at, reloads and activations included.
THEOREM DeviceCodesAreFresh == DeviceSpec => []ShownCodeIsFresh
<1>1. DeviceInit => RotationInit
  BY DEF DeviceInit
<1>2. [DeviceNext]_allVars => [RotationNext]_rotationVars
  BY DEF DeviceNext, allVars, RotationNext, Reload, Receive, ActivationNext
<1>3. DeviceSpec => RotationSpec
  BY <1>1, <1>2, PTL DEF DeviceSpec, RotationSpec, allVars
<1> QED BY <1>3, CodesAreFresh, PTL

-----------------------------------------------------------------------------
(* Where a key is. *)

\* Handler p is in the middle of the registration with key k.
Handles(p, k) == pc[p] \in RegisterSteps /\ local[p].resident = Me /\ local[p].key = k

\* Handler p has key k and has not answered yet.
Answering(p, k) ==
    /\ pc[p] \in {"register_resident", "register_flush", "register_token"}
    /\ local[p].resident = Me /\ local[p].key = k

Live(k) == k \in requests \/ BoundKey = k \/ \E p \in Requests : Handles(p, k)

PageOK ==
    /\ tried \subseteq Keys /\ requests \subseteq Keys /\ refused \subseteq tried
    /\ answers \subseteq {Answer(k, TRUE) : k \in tried} \cup {Answer(k, FALSE) : k \in tried}
    /\ private_key \in Keys \cup {NULL}
    /\ resident_id \in {NULL, Me}
    /\ resident_id = Me => private_key # NULL
    /\ loading # NULL => resident_id = NULL /\ loading = private_key

OnePlace ==
    /\ \A p \in Requests, k \in requests : ~Handles(p, k)
    /\ \A p, q \in Requests, k \in Keys : Handles(p, k) /\ Handles(q, k) => p = q
    /\ \A k \in Keys : BoundKey = k => k \notin requests /\ \A p \in Requests : ~Handles(p, k)

RefusedIsDead ==
    \A k \in Keys :
        /\ Live(k) => k \in tried \ refused /\ Answer(k, FALSE) \notin answers
        /\ Answer(k, TRUE) \in answers => k \in tried \ refused /\ Answer(k, FALSE) \notin answers
        /\ k \in requests \/ (\E p \in Requests : Answering(p, k)) => Answer(k, TRUE) \notin answers

\* Who starts over only when refused has one key that is not refused.
OneHope ==
    /\ "started_over" \notin trouble => tried \ refused \subseteq {private_key}
    /\ "unanswered" \notin trouble =>
          /\ "started_over" \notin trouble
          /\ resident_id = NULL => tried \ refused \subseteq {loading}

\* The binding of k is committed or about to be, or was undone by a revocation.
Settled(k) ==
    \/ BoundKey = k
    \/ \E p \in Requests : Registers(p, "register_commit") /\ local[p].key = k
    \/ ResidentExists(Me) /\ residents[Me].revoked

Promises ==
    {"unanswered", "not_committed"} \cap trouble = {} =>
        /\ \A k \in Keys : Answer(k, TRUE) \in answers => Settled(k)
        /\ resident_id = Me => Settled(private_key)

DInv == PageOK /\ OnePlace /\ RefusedIsDead /\ OneHope /\ Promises

\* A device that has tried nothing.
LEMMA DeviceInitDInv == DeviceInit => DInv
<1> SUFFICES ASSUME DeviceInit PROVE DInv
  OBVIOUS
<1> USE DEF DeviceInit, Init
<1>1. BoundKey = NULL /\ \A k \in Keys : k # NULL
  BY DeviceAssumption, SentinelAssumption DEF BoundKey, ResidentExists
<1>2. Me # NULL
  BY DeviceAssumption, SentinelAssumption
<1>3. \A p \in Requests : pc[p] \notin RegisterSteps
  BY DEF RegisterSteps
<1>4. PageOK
  BY <1>2 DEF PageOK
<1>5. OnePlace
  BY <1>1, <1>3 DEF OnePlace, Handles
<1>6. RefusedIsDead
  BY <1>1, <1>3 DEF RefusedIsDead, Live, Handles, Answering, RegisterSteps
<1>7. OneHope /\ Promises
  BY <1>2 DEF OneHope, Promises
<1> QED BY <1>4, <1>5, <1>6, <1>7 DEF DInv

-----------------------------------------------------------------------------
(* The page and the network *)

\* What the registry has is as it was.
LEMMA RegistryStill ==
    ASSUME UNCHANGED vars
    PROVE  /\ BoundKey' = BoundKey
           /\ \A p \in Requests, k \in Keys : /\ Handles(p, k)' = Handles(p, k)
                                              /\ Answering(p, k)' = Answering(p, k)
           /\ \A k \in Keys \cup {NULL} : Settled(k)' = Settled(k)
           /\ UNCHANGED <<pc, local>>
BY DEF vars, BoundKey, Handles, Answering, Settled, Registers, ResidentExists

\* A new attempt.
LEMMA ActivateDInv ==
    ASSUME DInv, UNCHANGED vars, NEW k \in Keys, Activate(k)
    PROVE  DInv'
<1> USE DEF DInv
<1>1. /\ resident_id = NULL /\ loading = NULL /\ k \notin tried
      /\ private_key' = k /\ loading' = k
      /\ requests' = requests \cup {k} /\ tried' = tried \cup {k}
      /\ UNCHANGED <<resident_id, answers, refused>>
      /\ trouble \subseteq trouble' /\ trouble' \subseteq trouble \cup {"started_over"}
      /\ "started_over" \notin trouble' => tried \subseteq refused
  BY DEF Activate
<1>2. k # NULL /\ Me # NULL
  BY SentinelAssumption, DeviceAssumption
<1>3. ~Live(k) /\ Answer(k, TRUE) \notin answers
  BY <1>1 DEF RefusedIsDead
<1>4. PageOK'
  BY <1>1, <1>2 DEF PageOK
<1>5. OnePlace'
  BY <1>1, <1>3, RegistryStill DEF OnePlace, Live, PageOK, Handles
<1>6. k \notin refused /\ Answer(k, FALSE) \notin answers
  BY <1>1 DEF PageOK, Answer
<1>7. RefusedIsDead'
  <2>1. ASSUME NEW j \in Keys, j # k PROVE Live(j)' = Live(j)
    BY <1>1, <2>1, RegistryStill DEF Live
  <2> QED BY <1>1, <1>3, <1>6, <2>1, RegistryStill DEF RefusedIsDead, PageOK
<1>8. OneHope'
  <2>1. "unanswered" \notin trouble => tried \subseteq refused /\ "started_over" \notin trouble
    BY <1>1, SentinelAssumption DEF OneHope, PageOK
  <2>2. tried \subseteq refused => trouble' = trouble
    BY DEF Activate
  <2>3. "unanswered" \notin trouble' => "started_over" \notin trouble'
    BY <1>1, <2>1, <2>2
  <2> QED BY <1>1, <2>3 DEF OneHope
<1>9. Promises'
  BY <1>1, <1>2, RegistryStill DEF Promises
<1> QED BY <1>4, <1>5, <1>7, <1>8, <1>9

\* The answer to the attempt arrives.
LEMMA ReceiveDInv ==
    ASSUME DInv, UNCHANGED vars, NEW a \in answers, Receive(a)
    PROVE  DInv'
<1> USE DEF DInv
<1>1. PICK k \in tried : a = Answer(k, TRUE) \/ a = Answer(k, FALSE)
  BY DEF PageOK
<1>2. /\ k \in Keys /\ loading = k /\ loading' = NULL /\ answers' = answers \ {a}
      /\ UNCHANGED <<private_key, requests, tried, trouble>>
  BY <1>1 DEF Receive, PageOK, Answer
<1>3. k # NULL /\ Me # NULL /\ k = private_key
  BY <1>2, SentinelAssumption, DeviceAssumption DEF PageOK
<1>4. OnePlace'
  BY <1>2, RegistryStill DEF OnePlace, PageOK, Handles
<1>5. CASE a = Answer(k, TRUE)
  <2>1. resident_id' = Me /\ UNCHANGED refused
    BY <1>5 DEF Receive, Answer
  <2>2. PageOK'
    BY <1>2, <1>3, <2>1 DEF PageOK
  <2>3. RefusedIsDead'
    BY <1>2, <2>1, RegistryStill DEF RefusedIsDead, Live
  <2>4. OneHope'
    BY <1>2, <1>3, <2>1 DEF OneHope
  <2>5. Promises'
    BY <1>2, <1>3, <1>5, <2>1, RegistryStill DEF Promises
  <2> QED BY <1>4, <2>2, <2>3, <2>4, <2>5
<1>6. CASE a = Answer(k, FALSE)
  <2>1. refused' = refused \cup {k} /\ UNCHANGED resident_id
    BY <1>6 DEF Receive, Answer
  <2>2. ~Live(k) /\ Answer(k, TRUE) \notin answers
    BY <1>2, <1>6 DEF RefusedIsDead
  <2>3. PageOK'
    BY <1>1, <1>2, <1>3, <2>1 DEF PageOK
  <2>4. RefusedIsDead'
    <3>1. \A j \in Keys : Live(j)' = Live(j)
      BY <1>2, RegistryStill DEF Live
    <3> QED BY <1>2, <2>1, <2>2, <3>1, RegistryStill DEF RefusedIsDead
  <2>5. OneHope'
    BY <1>2, <2>1 DEF OneHope
  <2>6. Promises'
    BY <1>2, <2>1, RegistryStill DEF Promises, PageOK
  <2> QED BY <1>4, <2>3, <2>4, <2>5, <2>6
<1> QED BY <1>1, <1>5, <1>6

\* The page gives up, a request is lost, or the page is reloaded.
LEMMA LossDInv ==
    ASSUME DInv, UNCHANGED vars,
           GiveUp \/ Reload \/ UNCHANGED deviceVars \/ \E k \in Keys : LoseRequest(k)
    PROVE  DInv'
<1> USE DEF DInv
<1>1. /\ UNCHANGED <<private_key, resident_id, tried, refused>>
      /\ requests' \subseteq requests /\ answers' \subseteq answers
      /\ trouble' = trouble \/ trouble' = trouble \cup {"unanswered"}
      /\ loading' = loading \/ (loading' = NULL /\ "unanswered" \in trouble')
  <2>1. CASE GiveUp
    BY <2>1 DEF GiveUp
  <2>2. CASE Reload \/ UNCHANGED deviceVars
    BY <2>2 DEF Reload, deviceVars
  <2>3. ASSUME NEW k \in Keys, LoseRequest(k) PROVE requests' \subseteq requests /\ UNCHANGED <<pageVars, answers, trouble>>
    BY <2>3 DEF LoseRequest
  <2> QED BY <2>1, <2>2, <2>3 DEF pageVars
<1>2. PageOK'
  BY <1>1 DEF PageOK
<1>3. OnePlace'
  BY <1>1, RegistryStill DEF OnePlace, PageOK, Handles
<1>4. RefusedIsDead'
  BY <1>1, RegistryStill DEF RefusedIsDead, Live
<1>5. OneHope'
  BY <1>1 DEF OneHope
<1>6. Promises'
  BY <1>1, RegistryStill DEF Promises, PageOK
<1> QED BY <1>2, <1>3, <1>4, <1>5, <1>6

-----------------------------------------------------------------------------
(* The registration at the server *)

\* Nothing but handler p and what is on the network has changed.
Slot(p) ==
    /\ UNCHANGED rows
    /\ \A q \in Requests \ {p} : pc'[q] = pc[q] /\ local'[q] = local[q]
    /\ UNCHANGED pageVars

\* What follows for the other handlers and for the row.
LEMMA SlotFacts ==
    ASSUME NEW p \in Requests, Slot(p)
    PROVE  /\ BoundKey' = BoundKey /\ residents' = residents
           /\ UNCHANGED <<private_key, resident_id, loading, tried, refused>>
           /\ \A q \in Requests \ {p}, k \in Keys :
                 /\ Handles(q, k)' = Handles(q, k)
                 /\ Answering(q, k)' = Answering(q, k)
                 /\ Registers(q, "register_commit")' = Registers(q, "register_commit")
BY DEF Slot, rows, pageVars, BoundKey, Handles, Answering, Registers, ResidentExists

\* A handler that has not answered takes the key from its request, or goes on.
LEMMA HandlerKeepsKey ==
    ASSUME DInv, NEW p \in Requests, Slot(p), NEW k \in Keys,
           pc[p] # "register_commit",
           Handles(p, k) \/ (k \in requests /\ pc[p] \notin RegisterSteps),
           Handles(p, k)',
           requests' = requests \ {k}, UNCHANGED trouble,
           \/ UNCHANGED answers /\ Answer(k, TRUE) \notin answers
           \/ /\ pc'[p] = "register_commit"
              /\ answers' \subseteq answers \cup {Answer(k, TRUE)} /\ answers \subseteq answers'
    PROVE  DInv'
<1> USE DEF DInv
<1>1. /\ BoundKey' = BoundKey /\ residents' = residents
      /\ UNCHANGED <<private_key, resident_id, loading, tried, refused>>
  BY SlotFacts
<1>2. \A j \in Keys \ {k} : ~Handles(p, j) /\ ~Handles(p, j)'
  BY DEF Handles
<1>3. Live(k) /\ \A q \in Requests \ {p} : ~Handles(q, k)
  BY DEF Live, OnePlace
<1>4. k \in tried \ refused /\ Answer(k, FALSE) \notin answers
  BY <1>3 DEF RefusedIsDead
<1>5. PageOK'
  BY <1>1, <1>4 DEF PageOK
<1>6. BoundKey # k
  BY DEF OnePlace
<1>7. OnePlace'
  <2>2. \A q \in Requests, j \in requests' : ~Handles(q, j)'
    BY <1>2, <1>3, SlotFacts DEF OnePlace, PageOK
  <2>3. \A q, o \in Requests, j \in Keys : Handles(q, j)' /\ Handles(o, j)' => q = o
    BY <1>2, <1>3, SlotFacts DEF OnePlace
  <2>4. \A j \in Keys : BoundKey' = j => j \notin requests' /\ \A q \in Requests : ~Handles(q, j)'
    BY <1>1, <1>2, <1>6, SlotFacts DEF OnePlace
  <2> QED BY <2>2, <2>3, <2>4 DEF OnePlace
<1>8. RefusedIsDead'
  <2>1. \A j \in Keys : Live(j)' => Live(j)
    BY <1>1, <1>2, <1>3, SlotFacts DEF Live
  <2>2. \A j \in Keys : Answer(j, FALSE) \in answers' => Answer(j, FALSE) \in answers
    BY DEF Answer
  <2>3. \A j \in Keys \ {k} : Answer(j, TRUE) \in answers' => Answer(j, TRUE) \in answers
    BY DEF Answer
  <2>4. \A j \in Keys \ {k} : (\E q \in Requests : Answering(q, j))' => \E q \in Requests : Answering(q, j)
    BY <1>2, SlotFacts DEF Answering, Handles, RegisterSteps
  <2>5. k \notin requests'
    OBVIOUS
  <2>6. (\E q \in Requests : Answering(q, k))' => UNCHANGED answers /\ Answer(k, TRUE) \notin answers
    BY <1>3, SlotFacts DEF Answering, Handles, RegisterSteps
  <2>7. ASSUME NEW j \in Keys, j # k
        PROVE  /\ Live(j)' => j \in tried' \ refused' /\ Answer(j, FALSE) \notin answers'
               /\ Answer(j, TRUE) \in answers' => j \in tried' \ refused' /\ Answer(j, FALSE) \notin answers'
               /\ j \in requests' \/ (\E q \in Requests : Answering(q, j))' => Answer(j, TRUE) \notin answers'
    BY <1>1, <2>1, <2>2, <2>3, <2>4, <2>7 DEF RefusedIsDead
  <2>8. /\ k \in tried' \ refused' /\ Answer(k, FALSE) \notin answers'
        /\ k \in requests' \/ (\E q \in Requests : Answering(q, k))' => Answer(k, TRUE) \notin answers'
    BY <1>1, <1>4, <2>2, <2>5, <2>6
  <2> QED BY <2>7, <2>8 DEF RefusedIsDead
<1>9. OneHope'
  BY <1>1 DEF OneHope
<1>10. Promises'
  <2>1. ASSUME NEW j \in Keys, Settled(j) PROVE Settled(j)'
    BY <1>1, <2>1, SlotFacts DEF Settled, Registers, ResidentExists, Slot
  <2>2. pc'[p] = "register_commit" => Settled(k)'
    BY DEF Settled, Registers, Handles
  <2>3. \A j \in Keys : Answer(j, TRUE) \in answers' => Answer(j, TRUE) \in answers
                                                       \/ (j = k /\ pc'[p] = "register_commit")
    BY DEF Answer
  <2>4. ASSUME {"unanswered", "not_committed"} \cap trouble = {}
        PROVE  \A j \in Keys : Answer(j, TRUE) \in answers' => Settled(j)'
    BY <2>1, <2>2, <2>3, <2>4 DEF Promises
  <2>5. ASSUME {"unanswered", "not_committed"} \cap trouble = {}, resident_id = Me
        PROVE  Settled(private_key)'
    BY <1>1, <2>1, <2>5 DEF Promises, PageOK
  <2> QED BY <1>1, <2>4, <2>5 DEF Promises
<1> QED BY <1>5, <1>7, <1>8, <1>9, <1>10

\* A handler, or the lookup of a token, gives up a key: the device is told so, or
\* the commit of what it was told has failed.
LEMMA HandlerDropsKey ==
    ASSUME DInv, NEW p \in Requests, Slot(p), NEW k \in Keys,
           \/ Handles(p, k) /\ UNCHANGED requests
           \/ k \in requests /\ requests' = requests \ {k} /\ pc[p] = "idle",
           pc'[p] = "idle",
           \/ /\ pc[p] # "register_commit" /\ UNCHANGED trouble
              /\ answers \subseteq answers' /\ answers' \subseteq answers \cup {Answer(k, FALSE)}
           \/ UNCHANGED answers /\ trouble' = trouble \cup {"not_committed"}
    PROVE  DInv'
<1> USE DEF DInv
<1>1. /\ BoundKey' = BoundKey /\ residents' = residents
      /\ UNCHANGED <<private_key, resident_id, loading, tried, refused>>
  BY SlotFacts
<1>2. (\A j \in Keys : ~Handles(p, j)' /\ ~Answering(p, j)') /\ requests' \subseteq requests
  BY DEF Handles, Answering, RegisterSteps
<1>3. Live(k) /\ BoundKey # k /\ \A q \in Requests \ {p} : ~Handles(q, k)
  BY DEF Live, OnePlace, Handles, RegisterSteps
<1>4. k \in tried \ refused /\ k \notin requests'
  BY <1>3 DEF RefusedIsDead, OnePlace
<1>5. PageOK'
  BY <1>1, <1>2, <1>4 DEF PageOK
<1>6. OnePlace'
  BY <1>1, <1>2, SlotFacts DEF OnePlace, PageOK
<1>7. ~(Live(k)') /\ \A j \in Keys : Live(j)' => Live(j)
  BY <1>1, <1>2, <1>3, <1>4, SlotFacts DEF Live
<1>8. RefusedIsDead'
  <2>1. \A j \in Keys : Answer(j, TRUE) \in answers' => Answer(j, TRUE) \in answers
    BY DEF Answer
  <2>2. \A j \in Keys \ {k} : Answer(j, FALSE) \in answers' => Answer(j, FALSE) \in answers
    BY DEF Answer
  <2>3. \A j \in Keys : (\E q \in Requests : Answering(q, j))' => \E q \in Requests : Answering(q, j)
    BY <1>2, SlotFacts
  <2>4. UNCHANGED answers \/ Answer(k, TRUE) \notin answers
    BY DEF RefusedIsDead, Handles, Answering, RegisterSteps
  <2>5. ASSUME NEW j \in Keys, j # k
        PROVE  /\ Live(j)' => j \in tried' \ refused' /\ Answer(j, FALSE) \notin answers'
               /\ Answer(j, TRUE) \in answers' => j \in tried' \ refused' /\ Answer(j, FALSE) \notin answers'
               /\ j \in requests' \/ (\E q \in Requests : Answering(q, j))' => Answer(j, TRUE) \notin answers'
    BY <1>1, <1>2, <1>7, <2>1, <2>2, <2>3, <2>5 DEF RefusedIsDead
  <2>6. /\ Answer(k, TRUE) \in answers' => k \in tried' \ refused' /\ Answer(k, FALSE) \notin answers'
        /\ k \notin requests' /\ \A q \in Requests : ~Answering(q, k)'
    <3>1. \A q \in Requests : ~Answering(q, k)'
      BY <1>2, <1>3, SlotFacts DEF Answering, Handles, RegisterSteps
    <3> QED BY <1>1, <1>4, <2>1, <2>4, <3>1 DEF RefusedIsDead
  <2> QED BY <1>7, <2>5, <2>6 DEF RefusedIsDead
<1>9. OneHope'
  BY <1>1 DEF OneHope
<1>10. Promises'
  <2>1. ASSUME NEW j \in Keys, Settled(j), pc[p] # "register_commit" PROVE Settled(j)'
    BY <1>1, <2>1, SlotFacts DEF Settled, Registers, ResidentExists, Slot
  <2>2. \A j \in Keys : Answer(j, TRUE) \in answers' => Answer(j, TRUE) \in answers
    BY DEF Answer
  <2> QED BY <1>1, <2>1, <2>2 DEF Promises, PageOK
<1> QED BY <1>5, <1>6, <1>8, <1>9, <1>10

\* The registration of the device, from its arrival to its answer.
LEMMA RegistrationDInv ==
    ASSUME IInv, DInv, NEW p \in Requests,
           RegisterStep(p) \/ RegisterFail(p) \/ \E k \in Keys : Arrive(p, k)
    PROVE  DInv'
<1> USE DEF IInv, TypeOK
<1>1. ASSUME NEW k \in Keys, Arrive(p, k), RegisterLoadToken(p, Me, k) PROVE DInv'
  <2>1. /\ pc[p] = "idle" /\ pc'[p] = "register_resident"
        /\ local'[p].key = k /\ local'[p].resident = Me /\ Slot(p)
        /\ k \in requests /\ requests' = requests \ {k}
    BY <1>1 DEF Arrive, RegisterLoadToken, Start, Slot, NoLocals
  <2>2. UNCHANGED <<answers, trouble>>
    BY <1>1, <2>1 DEF Arrive, RegisterLoadToken
  <2>3. Answer(k, TRUE) \notin answers
    BY <2>1 DEF DInv, RefusedIsDead
  <2>4. pc[p] \notin RegisterSteps /\ Handles(p, k)'
    BY <2>1 DEF RegisterSteps, Handles
  <2> QED BY <2>1, <2>2, <2>3, <2>4, HandlerKeepsKey
<1>2. ASSUME NEW k \in Keys, Arrive(p, k), ~RegisterLoadToken(p, Me, k) PROVE DInv'
  <2>1. /\ pc[p] = "idle" /\ pc'[p] = "idle" /\ Slot(p)
        /\ k \in requests /\ requests' = requests \ {k}
    BY <1>2 DEF Arrive, Slot, vars, rows
  <2>2. /\ UNCHANGED trouble
        /\ answers \subseteq answers' /\ answers' \subseteq answers \cup {Answer(k, FALSE)}
    BY <1>2 DEF Arrive, Send
  <2> QED BY <2>1, <2>2, HandlerDropsKey
<1>3. RegistersMe(p) =>
         /\ pc[p] \in RegisterSteps
         /\ \E k \in Keys : k = local[p].key /\ local[p].resident = Me /\ Handles(p, k)
  BY DEF HandlersOK, RegisterOK, RegisterSteps, Handles, RegistersMe, Registers
<1>4. ASSUME RegisterStep(p) PROVE DInv'
  <2>1. /\ pc[p] \in {"register_resident", "register_flush", "register_token"} /\ Slot(p)
        /\ UNCHANGED <<requests, trouble>>
        /\ \/ pc'[p] \in {"register_flush", "register_token"} /\ local'[p] = local[p]
           \/ pc'[p] = "register_commit" /\ local'[p] = local[p]
           \/ pc'[p] = "idle"
    BY <1>4 DEF RegisterStep, RegisterLoadResident, RegisterFlush, RegisterToken, Step, Rollback, Close, Slot
  <2>2. PICK k \in Keys : /\ k = local[p].key /\ local[p].resident = Me
                         /\ Handles(p, k) /\ k \notin requests
    BY <1>3, <1>4 DEF RegisterStep, DInv, OnePlace
  <2>3. Answer(k, TRUE) \notin answers
    BY <2>1, <2>2 DEF DInv, RefusedIsDead, Answering
  <2>4. CASE pc'[p] \in {"register_flush", "register_token"}
    <3>1. UNCHANGED answers /\ Handles(p, k)' /\ requests' = requests \ {k} /\ local'[p] = local[p]
      BY <1>4, <2>1, <2>2, <2>4 DEF RegisterStep, Handles, RegisterSteps
    <3> QED BY <2>1, <2>2, <2>3, <3>1, HandlerKeepsKey
  <2>5. CASE pc'[p] = "register_commit"
    <3>1. /\ answers \subseteq answers' /\ answers' \subseteq answers \cup {Answer(k, TRUE)}
          /\ Handles(p, k)' /\ requests' = requests \ {k} /\ local'[p] = local[p]
      BY <1>4, <2>1, <2>2, <2>5 DEF RegisterStep, Handles, RegisterSteps, Send
    <3> QED BY <2>1, <2>2, <2>5, <3>1, HandlerKeepsKey
  <2>6. CASE pc'[p] = "idle"
    <3>1. answers \subseteq answers' /\ answers' \subseteq answers \cup {Answer(k, FALSE)}
      BY <1>4, <2>2, <2>6 DEF RegisterStep, Send
    <3> QED BY <2>1, <2>2, <2>6, <3>1, HandlerDropsKey
  <2> QED BY <2>1, <2>4, <2>5, <2>6
<1>5. ASSUME RegisterFail(p) PROVE DInv'
  <2>1. PICK k \in Keys : k = local[p].key /\ Handles(p, k)
    BY <1>3, <1>5 DEF RegisterFail
  <2>2. /\ pc[p] \in RegisterSteps /\ Slot(p) /\ UNCHANGED requests /\ pc'[p] = "idle"
        /\ \/ pc[p] = "register_commit" /\ trouble' = trouble \cup {"not_committed"} /\ UNCHANGED answers
           \/ /\ pc[p] # "register_commit" /\ UNCHANGED trouble
              /\ answers \subseteq answers' /\ answers' \subseteq answers \cup {Answer(k, FALSE)}
    BY <1>3, <1>5, <2>1 DEF RegisterFail, Fail, Rollback, Close, Slot, Send
  <2> QED BY <2>1, <2>2, HandlerDropsKey
<1> QED BY <1>1, <1>2, <1>4, <1>5

-----------------------------------------------------------------------------
(* The rest of the registry *)

\* A handler moves nobody but itself.
LEMMA OnlyMover ==
    ASSUME IInv, NEW p \in Requests, Handler(p) \/ Fail(p)
    PROVE  \A q \in Requests \ {p} : pc'[q] = pc[q] /\ local'[q] = local[q]
<1> USE DEF IInv, TypeOK
<1>1. CASE ResidentServiceNext(p) \/ Fail(p)
  BY <1>1 DEF ResidentServiceNext, ProvisionLoadUnit, ProvisionCount, ProvisionBlocked, ProvisionOwner,
     ProvisionInsert, ProvisionCommit, RegisterLoadToken, RegisterLoadResident, RegisterFlush,
     RegisterToken, RegisterCommit, RevokeLoad, RevokeFlush, RevokeCommit, ContactLoad, ContactFlush,
     ContactCommit, Fail, Start, Step, Rollback, Close
<1>2. CASE UnitServiceNext(p)
  BY <1>2 DEF UnitServiceNext, CreateInsert, CreateCommit, CapacityLoad, CapacityCount,
     CapacityFlush, CapacityCommit, DeleteLoad, DeleteCount, DeleteFlush, DeleteCommit,
     Start, Step, Rollback, Close
<1>3. CASE CleanupServiceNext(p)
  BY <1>3 DEF CleanupServiceNext, CleanupBegin, CleanupTokens, CleanupRow, ScanOn, CleanupCommit,
     Start, Step, Close
<1> QED BY <1>1, <1>2, <1>3 DEF Handler

\* An update of the contact keeps the key and what was revoked, and a revocation
\* clears the key or keeps it.
LEMMA AdminRow ==
    ASSUME IInv, NEW p \in Requests, RevokeCommit(p) \/ ContactCommit(p), residents[Me] # NULL
    PROVE  /\ residents'[Me] # NULL
           /\ residents'[Me].public_key \in {NULL, residents[Me].public_key}
           /\ \/ residents'[Me].revoked
              \/ /\ residents'[Me].public_key = residents[Me].public_key
                 /\ residents'[Me].revoked = residents[Me].revoked
<1> DEFINE r == local[p].resident
<1>1. r \in Residents /\ residents[r] # NULL
  BY DEF RevokeCommit, ContactCommit, IInv, HandlersOK, RevokeOK, ResidentExists
<1>2. residents \in [Residents -> ResidentRow \cup {NULL}] /\ residents[Me] \in ResidentRow
  BY DeviceAssumption DEF IInv, TypeOK
<1>3. residents[r] \in ResidentRow
  BY <1>1, <1>2
<1>4. CASE RevokeCommit(p)
  <2> DEFINE row == Revoked(local[p].seen_row, residents[r])
  <2>1. row \in ResidentRow /\ row.revoked = TRUE /\ row.public_key \in {NULL, residents[r].public_key}
    BY <1>3 DEF Revoked, ResidentRow, Statuses
  <2>2. residents' = [residents EXCEPT ![r] = row]
    BY <1>4 DEF RevokeCommit
  <2> HIDE DEF row
  <2> QED BY <1>1, <1>2, <2>1, <2>2, RowAssumption, DeviceAssumption
<1>5. CASE ContactCommit(p)
  <2>1. pc[p] = "contact_commit" /\ local[p].contact \in Contacts
    BY <1>5 DEF ContactCommit, IInv, HandlersOK, RevokeOK
  <2>2. PICK c \in Contacts \cup {NULL} : residents' = [residents EXCEPT ![r].contact = c]
    BY <1>3, <1>5, <2>1 DEF ContactCommit, ResidentRow
  <2> DEFINE row == [residents[r] EXCEPT !.contact = c]
  <2>3. /\ row \in ResidentRow /\ row.public_key = residents[r].public_key
        /\ row.revoked = residents[r].revoked
    BY <1>3, <2>2 DEF ResidentRow
  <2>4. residents' = [residents EXCEPT ![r] = row]
    BY <2>2
  <2> HIDE DEF row
  <2> QED BY <1>1, <1>2, <2>3, <2>4, RowAssumption, DeviceAssumption
<1> QED BY <1>4, <1>5

\* A step of another request does not touch the registrations in flight, and the
\* resident's row keeps its key unless it is revoked.
LEMMA OtherRequests ==
    ASSUME IInv, NEW p \in Requests, ServerStep(p), ~RegistersMe(p)
    PROVE  /\ ~RegistersMe(p)'
           /\ \A q \in Requests \ {p} : pc'[q] = pc[q] /\ local'[q] = local[q]
           /\ BoundKey' \in {NULL, BoundKey}
           /\ residents[Me] # NULL =>
                 /\ residents'[Me] # NULL
                 /\ \/ residents'[Me].revoked
                    \/ BoundKey' = BoundKey /\ residents'[Me].revoked = residents[Me].revoked
<1> DEFINE Keeps ==
       /\ BoundKey' \in {NULL, BoundKey}
       /\ residents[Me] # NULL =>
             /\ residents'[Me] # NULL
             /\ \/ residents'[Me].revoked
                \/ BoundKey' = BoundKey /\ residents'[Me].revoked = residents[Me].revoked
<1> USE DEF BoundKey, ResidentExists
<1>1. ~RegistersMe(p)' /\ \A q \in Requests \ {p} : pc'[q] = pc[q] /\ local'[q] = local[q]
  BY OnlyMover DEF ServerStep
<1>2. residents'[Me] = residents[Me] => Keeps
  OBVIOUS
<1>3. ASSUME NEW q \in Requests, ProvisionCommit(q) PROVE Keeps
  <2>1. local[q].resident \in Residents /\ residents[local[q].resident] = NULL
    BY <1>3 DEF ProvisionCommit, IInv, HandlersOK, ProvisionOK
  <2>2. CASE local[q].resident = Me
    BY <1>3, <2>1, <2>2 DEF ProvisionCommit, IInv, TypeOK
  <2>3. CASE local[q].resident # Me
    BY <1>2, <1>3, <2>1, <2>3, DeviceAssumption DEF ProvisionCommit, IInv, TypeOK
  <2> QED BY <2>2, <2>3
<1>4. ASSUME NEW q \in Requests, RegisterCommit(q) PROVE Keeps
  <2>1. pc[q] = "register_commit" /\ pc'[q] = "idle"
    BY <1>4 DEF RegisterCommit, Close, IInv, TypeOK
  <2>2. q = p
    BY <1>1, <2>1
  <2>3. local[q].resident \in Residents \ {Me}
    BY <2>1, <2>2 DEF RegistersMe, Registers, IInv, HandlersOK, RegisterOK
  <2> QED BY <1>2, <1>4, <2>3, DeviceAssumption DEF RegisterCommit, IInv, TypeOK
<1>5. ASSUME NEW q \in Requests, RevokeCommit(q) \/ ContactCommit(q) PROVE Keeps
  <2>1. CASE residents[Me] = NULL
    <3>1. local[q].resident \in Residents /\ local[q].resident # Me
      BY <1>5, <2>1 DEF RevokeCommit, ContactCommit, IInv, HandlersOK, RevokeOK
    <3> QED BY <1>2, <1>5, <3>1, DeviceAssumption DEF RevokeCommit, ContactCommit, IInv, TypeOK
  <2>2. CASE residents[Me] # NULL
    BY <1>5, <2>2, AdminRow
  <2> QED BY <2>1, <2>2
<1>6. ASSUME NEW q \in Requests, CleanupCommit(q) PROVE Keeps
  BY <1>2, <1>6 DEF CleanupCommit
<1>7. \/ UNCHANGED <<residents, tokens>>
      \/ \E q \in Requests : ProvisionCommit(q) \/ RegisterCommit(q) \/ RevokeCommit(q)
                            \/ ContactCommit(q) \/ CleanupCommit(q)
  BY RowsChangeAtCommit DEF ServerStep, Next
<1> HIDE DEF Keeps
<1>8. Keeps
  BY <1>2, <1>3, <1>4, <1>5, <1>6, <1>7
<1> QED BY <1>1, <1>8 DEF Keeps

\* Every step of another request keeps the invariant, and so does the commit of
\* the registration.
LEMMA ServerDInv ==
    ASSUME IInv, IInv', DInv, NEW p \in Requests, ServerStep(p)
    PROVE  DInv'
<1> USE DEF DInv
<1>1. UNCHANGED <<private_key, resident_id, loading, tried, refused, requests, answers, trouble>>
  BY DEF ServerStep, deviceVars
<1>2. PageOK' /\ OneHope'
  BY <1>1 DEF PageOK, OneHope
<1>3. ASSUME \A k \in Keys : BoundKey' = k => BoundKey = k \/ Handles(p, k),
             \A k \in Keys : ~Handles(p, k)',
             \A q \in Requests \ {p} : pc'[q] = pc[q] /\ local'[q] = local[q]
      PROVE  OnePlace' /\ RefusedIsDead'
  <2>1. \A q \in Requests \ {p}, k \in Keys : /\ Handles(q, k)' = Handles(q, k)
                                              /\ Answering(q, k)' = Answering(q, k)
    BY <1>3 DEF Handles, Answering
  <2>2. \A k \in Keys : Live(k)' => Live(k)
    BY <1>1, <1>3, <2>1 DEF Live
  <2>3. \A k \in Keys : ~Answering(p, k)'
    BY <1>3 DEF Answering, Handles, RegisterSteps
  <2>4. RefusedIsDead'
    BY <1>1, <2>1, <2>2, <2>3 DEF RefusedIsDead
  <2>5. OnePlace'
    BY <1>1, <1>3, <2>1 DEF OnePlace, PageOK
  <2> QED BY <2>4, <2>5
<1>4. ASSUME \A k \in Keys : Settled(k) /\ "started_over" \notin trouble /\ k = private_key => Settled(k)'
      PROVE  Promises'
  <2>1. ASSUME {"unanswered", "not_committed"} \cap trouble = {},
               NEW k \in Keys, Answer(k, TRUE) \in answers
        PROVE  Settled(k)'
    BY <1>4, <2>1 DEF Promises, RefusedIsDead, OneHope
  <2>2. ASSUME {"unanswered", "not_committed"} \cap trouble = {}, resident_id = Me
        PROVE  Settled(private_key)'
    BY <1>1, <1>4, <2>2 DEF Promises, PageOK, OneHope
  <2> QED BY <1>1, <2>1, <2>2 DEF Promises
<1>5. CASE ~RegistersMe(p)
  <2>1. \A k \in Keys : ~Handles(p, k) /\ ~Handles(p, k)'
    BY <1>5, OtherRequests DEF Handles, RegistersMe, Registers, RegisterSteps
  <2>2. OnePlace' /\ RefusedIsDead'
    BY <1>3, <1>5, <2>1, OtherRequests, SentinelAssumption
  <2>3. ASSUME NEW k \in Keys, Settled(k) PROVE Settled(k)'
    <3>1. CASE BoundKey = k
      <4>1. residents[Me] # NULL
        BY <3>1, SentinelAssumption DEF BoundKey, ResidentExists
      <4> QED BY <1>5, <3>1, <4>1, OtherRequests DEF Settled, ResidentExists
    <3>2. CASE ResidentExists(Me) /\ residents[Me].revoked
      BY <1>5, <3>2, OtherRequests DEF Settled, ResidentExists
    <3>3. ASSUME NEW q \in Requests, Registers(q, "register_commit"), local[q].key = k
          PROVE  Settled(k)'
      <4>1. q # p
        BY <1>5, <3>3 DEF RegistersMe
      <4>2. pc'[q] = pc[q] /\ local'[q] = local[q]
        BY <1>5, <4>1, OtherRequests
      <4> QED BY <3>3, <4>2 DEF Settled, Registers
    <3> QED BY <2>3, <3>1, <3>2, <3>3 DEF Settled
  <2> QED BY <1>2, <1>4, <2>2, <2>3
<1>6. CASE RegistersMe(p)
  <2>1. PICK j \in Keys : j = local[p].key /\ local[p].resident = Me /\ Handles(p, j)
    BY <1>6 DEF RegistersMe, Registers, IInv, HandlersOK, RegisterOK, Handles, RegisterSteps
  <2> USE <1>6 DEF ServerStep
  <2>2. /\ residents[Me] \in ResidentRow /\ residents[Me] # NULL
        /\ residents' = [residents EXCEPT ![Me].status = "active", ![Me].public_key = j]
        /\ pc' = [pc EXCEPT ![p] = "idle"] /\ local' = [local EXCEPT ![p] = NoLocals]
    BY <1>6, <2>1 DEF RegisterCommit, Close, IInv, TypeOK, HandlersOK, RegisterOK, ResidentExists
  <2>3. /\ residents'[Me] \in ResidentRow /\ residents'[Me].public_key = j
        /\ residents'[Me].revoked = residents[Me].revoked
    BY <2>2, DeviceAssumption DEF IInv, TypeOK, ResidentRow, Statuses
  <2>4. ResidentExists(Me)' /\ BoundKey' = j
    BY <2>3, RowAssumption DEF ResidentExists, BoundKey
  <2>5. /\ \A q \in Requests \ {p} : pc'[q] = pc[q] /\ local'[q] = local[q]
        /\ pc'[p] = "idle"
    BY <2>2 DEF IInv, TypeOK
  <2>6. OnePlace' /\ RefusedIsDead'
    BY <1>3, <2>1, <2>4, <2>5 DEF Handles, RegisterSteps
  <2>7. ASSUME NEW k \in Keys, k = private_key, "started_over" \notin trouble PROVE Settled(k)'
    <3>1. j \in tried \ refused
      BY <2>1 DEF Live, RefusedIsDead
    <3> QED BY <2>4, <2>7, <3>1 DEF OneHope, Settled
  <2> QED BY <1>2, <1>4, <2>6, <2>7
<1> QED BY <1>5, <1>6

\* The invariant of the device is inductive, given that of the registry.
LEMMA DeviceNextDInv == IInv /\ IInv' /\ DInv /\ [DeviceNext]_allVars => DInv'
<1> SUFFICES ASSUME IInv, IInv', DInv, [DeviceNext]_allVars PROVE DInv'
  OBVIOUS
<1>1. CASE UNCHANGED allVars
  BY <1>1, LossDInv DEF allVars
<1>2. CASE ActivationNext /\ UNCHANGED <<vars, rotationVars>>
  BY <1>2, ActivateDInv, LossDInv DEF ActivationNext
<1>3. CASE (Reload \/ \E a \in answers : Receive(a)) /\ UNCHANGED vars
  BY <1>3, ReceiveDInv, LossDInv
<1>4. CASE (Second \/ Timer) /\ UNCHANGED <<vars, deviceVars>>
  BY <1>4, LossDInv
<1>5. CASE (\E p \in Requests : ServerNext(p)) /\ UNCHANGED rotationVars
  BY <1>5, RegistrationDInv, ServerDInv DEF ServerNext
<1>6. CASE Tick /\ UNCHANGED <<deviceVars, rotationVars>>
  <2>1. /\ BoundKey' = BoundKey /\ UNCHANGED <<pc, local, residents>>
        /\ UNCHANGED <<private_key, resident_id, loading, tried, refused, requests, answers, trouble>>
    BY <1>6 DEF Tick, rows, BoundKey, ResidentExists, deviceVars
  <2>2. PageOK' /\ OneHope'
    BY <2>1 DEF DInv, PageOK, OneHope
  <2>3. OnePlace' /\ RefusedIsDead'
    BY <2>1 DEF DInv, OnePlace, RefusedIsDead, Live, Handles, Answering
  <2>4. Promises'
    BY <2>1 DEF DInv, Promises, Settled, Registers, ResidentExists
  <2> QED BY <2>2, <2>3, <2>4 DEF DInv
<1> QED BY <1>1, <1>2, <1>3, <1>4, <1>5, <1>6 DEF DeviceNext

\* It holds of every behaviour.
LEMMA DeviceInvariance == DeviceSpec => []DInv
<1> QED BY DeviceInitDInv, DeviceNextDInv, DeviceRegistryInvariant, PTL DEF DeviceSpec, allVars

\* A device whose owner starts over only after a refusal never loses the key the
\* server binds, whatever answers and requests are lost or overlap.
THEOREM BoundKeyStays == DeviceSpec => []BoundKeyIsOnDevice
<1>1. IInv /\ DInv => BoundKeyIsOnDevice
  <2> SUFFICES ASSUME IInv, DInv, "started_over" \notin trouble, BoundKey # NULL
               PROVE  BoundKey = private_key
    BY DEF BoundKeyIsOnDevice
  <2>1. BoundKey \in Keys
    BY DeviceAssumption DEF IInv, TypeOK, BoundKey, ResidentExists, ResidentRow
  <2>2. BoundKey \in tried \ refused
    BY <2>1 DEF DInv, RefusedIsDead, Live
  <2> QED BY <2>2 DEF DInv, OneHope
<1> QED BY <1>1, DeviceInvariance, DeviceRegistryInvariant, PTL

\* A device that was told it is activated shows codes signed with the bound key,
\* unless it left an attempt unanswered, the commit failed or it was revoked.
THEOREM ActivatedBound == DeviceSpec => []ActivatedIsBound
<1>1. IInv /\ DInv => ActivatedIsBound
  BY DEF DInv, Promises, Settled, ActivatedIsBound
<1> QED BY <1>1, DeviceInvariance, DeviceRegistryInvariant, PTL
=============================================================================
