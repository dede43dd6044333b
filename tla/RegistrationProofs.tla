------------------------- MODULE RegistrationProofs -------------------------
(***************************************************************************)
(* What registrations, revocations, purges and full units do to each       *)
(* other, for every number of residents and of overlapping requests.  The  *)
(* lock on a token's row keeps a purge and an activation apart: TokenHeld  *)
(* is what that lock guarantees, and what makes a purged token useless.    *)
(***************************************************************************)
EXTENDS BackendProofs, FiniteSetTheorems

PurgeSteps == {"cleanup_rows", "cleanup_audit"}
TokenSteps == PurgeSteps \cup {"register_commit", "cleanup_tokens"}

\* A scan takes the row it has come to, when nobody else has it, and goes on to
\* the rows that were left.
LEMMA ScanStep ==
    ASSUME IInv, NEW q \in Requests, CleanupTokens(q) \/ CleanupRow(q)
    PROVE  /\ pc'[q] \in PurgeSteps
           /\ \A p \in Requests \ {q} : pc'[p] = pc[p] /\ local'[p] = local[p]
           /\ CleanupTokens(q) =>
                 /\ pc[q] = "cleanup_tokens" /\ local'[q].purged = {}
                 /\ local'[q].todo \subseteq Purgeable(q)
                 /\ pc'[q] = "cleanup_rows" => local'[q].at \in Purgeable(q)
           /\ CleanupRow(q) =>
                 /\ pc[q] = "cleanup_rows" /\ ~TokenLocked(q, local[q].at)
                 /\ local'[q].purged \subseteq local[q].purged \cup {local[q].at}
                 /\ local'[q].todo \subseteq local[q].todo
                 /\ pc'[q] = "cleanup_rows" => local'[q].at \in local[q].todo
<1>1. ASSUME NEW left \in SUBSET Residents, NEW purged \in SUBSET Residents, ScanOn(q, left, purged)
      PROVE  /\ pc'[q] \in PurgeSteps
             /\ \A p \in Requests \ {q} : pc'[p] = pc[p] /\ local'[p] = local[p]
             /\ local'[q].purged = purged /\ local'[q].todo \subseteq left
             /\ pc'[q] = "cleanup_rows" => local'[q].at \in left
  BY <1>1, Scanning DEF IInv, TypeOK, PurgeSteps
<1>2. pc'[q] \in PurgeSteps /\ \A p \in Requests \ {q} : pc'[p] = pc[p] /\ local'[p] = local[p]
  BY <1>1, CleanupScans
<1>3. ASSUME CleanupTokens(q)
      PROVE  /\ pc[q] = "cleanup_tokens" /\ local'[q].purged = {}
             /\ local'[q].todo \subseteq Purgeable(q)
             /\ pc'[q] = "cleanup_rows" => local'[q].at \in Purgeable(q)
  <2>1. Purgeable(q) \in SUBSET Residents /\ {} \in SUBSET Residents
    BY DEF Purgeable
  <2> QED BY <1>1, <1>3, <2>1 DEF CleanupTokens
<1>4. ASSUME CleanupRow(q)
      PROVE  /\ pc[q] = "cleanup_rows" /\ ~TokenLocked(q, local[q].at)
             /\ local'[q].purged \subseteq local[q].purged \cup {local[q].at}
             /\ local'[q].todo \subseteq local[q].todo
             /\ pc'[q] = "cleanup_rows" => local'[q].at \in local[q].todo
  <2>1. PICK purged \in SUBSET Residents :
           purged \subseteq local[q].purged \cup {local[q].at} /\ ScanOn(q, local[q].todo, purged)
    <3>1. local[q].purged \in SUBSET Residents /\ local[q].at \in Residents
      BY <1>4 DEF CleanupRow, IInv, TypeOK, HandlersOK, CleanupOK, Locals
    <3> QED BY <1>4, <3>1 DEF CleanupRow
  <2>2. local[q].todo \in SUBSET Residents
    BY DEF IInv, TypeOK, Locals
  <2> QED BY <1>1, <1>4, <2>1, <2>2 DEF CleanupRow
<1> QED BY <1>2, <1>3, <1>4

\* A handler that holds a token's row, or is about to, was there before or has
\* just got there.
LEMMA TokenStepStarts ==
    ASSUME IInv, [Next]_vars, NEW q \in Requests, pc'[q] \in TokenSteps
    PROVE  \/ pc'[q] = pc[q] /\ local'[q] = local[q]
           \/ RegisterToken(q) /\ pc'[q] = "register_commit" /\ local'[q] = local[q]
           \/ CleanupBegin(q)
           \/ CleanupTokens(q) \/ CleanupRow(q)
<1> DEFINE Still == pc'[q] = pc[q] /\ local'[q] = local[q]
<1> USE DEF IInv, TypeOK, TokenSteps, PurgeSteps
<1>1. CASE UNCHANGED <<pc, local>>
  BY <1>1
<1>2. ASSUME NEW p \in Requests, Fail(p) \/ UnitServiceNext(p) PROVE Still
  BY <1>2 DEF Fail, Rollback, UnitServiceNext, CreateInsert, CreateCommit, CapacityLoad,
     CapacityCount, CapacityFlush, CapacityCommit, DeleteLoad, DeleteCount, DeleteFlush, DeleteCommit,
     Start, Step, Close
<1>3. ASSUME NEW p \in Requests, ResidentServiceNext(p), ~RegisterToken(p) PROVE Still
  BY <1>3 DEF ResidentServiceNext, ProvisionLoadUnit, ProvisionCount, ProvisionBlocked,
     ProvisionOwner, ProvisionInsert, ProvisionCommit, RegisterLoadToken, RegisterLoadResident,
     RegisterFlush, RegisterCommit, RevokeLoad, RevokeFlush, RevokeCommit, ContactLoad, ContactFlush, ContactCommit,
     Rollback, Start, Step, Close
<1>4. ASSUME NEW p \in Requests, RegisterToken(p)
      PROVE  Still \/ (p = q /\ pc'[q] = "register_commit" /\ local'[q] = local[q])
  BY <1>4 DEF RegisterToken, Rollback, Step, Close
<1>5. ASSUME NEW p \in Requests, CleanupServiceNext(p),
             ~(p = q /\ (CleanupBegin(q) \/ CleanupTokens(q) \/ CleanupRow(q)))
      PROVE  Still
  <2>1. CASE CleanupBegin(p) \/ CleanupCommit(p)
    BY <1>5, <2>1 DEF CleanupBegin, CleanupCommit, Start, Close
  <2>2. CASE CleanupTokens(p) \/ CleanupRow(p)
    <3>1. p # q
      BY <1>5, <2>2
    <3> QED BY <2>2, <3>1, ScanStep
  <2> QED BY <1>5, <2>1, <2>2 DEF CleanupServiceNext
<1>6. \/ UNCHANGED <<pc, local>>
      \/ \E p \in Requests : Fail(p) \/ UnitServiceNext(p) \/ CleanupServiceNext(p) \/ ResidentServiceNext(p)
  BY DEF Next, Handler, Tick, vars
<1> QED BY <1>1, <1>2, <1>3, <1>4, <1>5, <1>6

\* A token that nobody can use any more, or that is gone.
Doomed(r) == ResidentExists(r) /\ (tokens[r] # NULL => ~TokenAccepted(r))

\* What the lock on a token's row keeps: a registration about to commit still has
\* its token and no purge has it; a purge neither has deleted nor will come to a
\* token that could still be accepted.
TokenHeld ==
    /\ \A p \in Requests : pc[p] = "register_commit" =>
          /\ tokens[local[p].resident] # NULL
          /\ \A q \in Requests : pc[q] \in PurgeSteps => local[p].resident \notin local[q].purged
    /\ \A q \in Requests : pc[q] \in PurgeSteps => \A r \in local[q].purged : Doomed(r)
    /\ \A q \in Requests : pc[q] = "cleanup_rows" =>
          Doomed(local[q].at) /\ \A r \in local[q].todo : Doomed(r)
    /\ \A q \in Requests : pc[q] = "cleanup_tokens" => local[q].began <= clock

\* What a step does to one token: a new one is only given to a new resident, and
\* a token that is not accepted stays so.
LEMMA TokenStep ==
    ASSUME IInv, [Next]_vars, NEW r \in Residents
    PROVE  /\ ResidentExists(r) => ResidentExists(r)'
           /\ tokens'[r] # NULL /\ ResidentExists(r) =>
                 tokens[r] # NULL /\ (~TokenAccepted(r) => ~TokenAccepted(r)')
           /\ tokens[r] # NULL => \/ tokens'[r] # NULL
                                  \/ \E p \in Requests : /\ CleanupCommit(p) /\ r \in local[p].purged
<1> USE DEF IInv, TypeOK, TokenAccepted, Expired
<1>1. clock \in Nat /\ clock' \in Nat /\ clock <= clock'
  BY ClockAdvances
<1>3. ASSUME NEW p \in Requests, ProvisionCommit(p)
      PROVE  /\ ResidentExists(r) => residents'[r] = residents[r] /\ tokens'[r] = tokens[r]
             /\ tokens[r] # NULL => tokens'[r] = tokens[r]
             /\ clock' = clock
  <2>1. local[p].resident \in Residents /\ ~ResidentExists(local[p].resident)
    BY <1>3 DEF ProvisionCommit, HandlersOK, ProvisionOK
  <2>2. tokens[r] # NULL => ResidentExists(r)
    BY DEF ReferentialIntegrity
  <2> QED BY <1>3, <2>1, <2>2 DEF ProvisionCommit, Close
<1>4. ASSUME NEW p \in Requests, RegisterCommit(p)
      PROVE  /\ ResidentExists(r) => ResidentExists(r)'
             /\ tokens'[r] # NULL <=> tokens[r] # NULL
             /\ tokens'[r] # NULL => tokens'[r] = tokens[r] \/ tokens'[r].used
             /\ clock' = clock
  <2>1. local[p].resident \in Residents /\ residents[local[p].resident] \in ResidentRow
    BY <1>4 DEF RegisterCommit, HandlersOK, RegisterOK, ResidentExists
  <2>2. ResidentExists(r) => ResidentExists(r)'
    <3> DEFINE row == [residents[local[p].resident] EXCEPT !.status = "active", !.public_key = local[p].key]
    <3>1. row \in ResidentRow
      BY <1>4, <2>1 DEF RegisterCommit, HandlersOK, RegisterOK, ResidentRow, Statuses
    <3>2. residents' = [residents EXCEPT ![local[p].resident] = row]
      BY <1>4, <2>1 DEF RegisterCommit
    <3> HIDE DEF row
    <3> QED BY <2>1, <3>1, <3>2, RowAssumption DEF ResidentExists
  <2>3. CASE r = local[p].resident
    <3>1. tokens'[r] = Used(tokens[r])
      BY <1>4, <2>3 DEF RegisterCommit
    <3>2. tokens[r] # NULL => Used(tokens[r]) \in TokenRow /\ Used(tokens[r]).used = TRUE
      <4>1. ASSUME NEW t \in TokenRow PROVE [t EXCEPT !.used = TRUE] \in TokenRow
        BY DEF TokenRow
      <4>2. ASSUME NEW t \in TokenRow PROVE [t EXCEPT !.used = TRUE].used = TRUE
        BY DEF TokenRow
      <4> QED BY <4>1, <4>2 DEF Used
    <3>3. Used(NULL) = NULL
      BY DEF Used
    <3> QED BY <1>4, <2>2, <3>1, <3>2, <3>3, RowAssumption DEF RegisterCommit, Close
  <2>4. CASE r # local[p].resident
    BY <1>4, <2>2, <2>4 DEF RegisterCommit, Close
  <2> QED BY <2>3, <2>4
<1>5. ASSUME NEW p \in Requests, RevokeCommit(p) \/ ContactCommit(p)
      PROVE  /\ ResidentExists(r) => ResidentExists(r)'
             /\ UNCHANGED <<tokens, clock>>
  BY <1>5, RevokeRow, RowAssumption DEF ResidentExists, RevokeCommit, ContactCommit, Close
<1>6. ASSUME NEW p \in Requests, CleanupCommit(p)
      PROVE  /\ ResidentExists(r)' = ResidentExists(r) /\ clock' = clock
             /\ tokens'[r] = IF r \in local[p].purged THEN NULL ELSE tokens[r]
  BY <1>6 DEF CleanupCommit, ResidentExists, Close
<1>7. /\ ResidentExists(r) => ResidentExists(r)'
      /\ tokens'[r] # NULL /\ ResidentExists(r) =>
            tokens[r] # NULL /\ (tokens'[r] = tokens[r] \/ tokens'[r].used)
      /\ tokens[r] # NULL => \/ tokens'[r] # NULL
                             \/ \E p \in Requests : /\ CleanupCommit(p) /\ r \in local[p].purged
  <2>1. CASE UNCHANGED <<residents, tokens>>
    BY <2>1 DEF ResidentExists
  <2>2. ASSUME NEW p \in Requests, ProvisionCommit(p) PROVE <1>7
    BY <1>3, <2>2 DEF ResidentExists
  <2>3. ASSUME NEW p \in Requests, RegisterCommit(p) PROVE <1>7
    BY <1>4, <2>3
  <2>4. ASSUME NEW p \in Requests, RevokeCommit(p) \/ ContactCommit(p) PROVE <1>7
    BY <1>5, <2>4
  <2>5. ASSUME NEW p \in Requests, CleanupCommit(p) PROVE <1>7
    BY <1>6, <2>5
  <2> QED BY <2>1, <2>2, <2>3, <2>4, <2>5, RowsChangeAtCommit
<1>8. ASSUME tokens'[r] # NULL, tokens[r] # NULL, ~TokenAccepted(r),
             tokens'[r] = tokens[r] \/ tokens'[r].used
      PROVE  ~TokenAccepted(r)'
  <2>1. CASE tokens'[r].used
    BY <2>1
  <2>2. CASE tokens'[r] = tokens[r]
    <3>1. tokens[r].expires_at \in Nat
      BY <1>8 DEF TokenRow
    <3>2. tokens[r].expires_at < clock => tokens[r].expires_at < clock'
      BY <1>1, <3>1
    <3> QED BY <1>8, <2>2, <3>2
  <2> QED BY <1>8, <2>1, <2>2
<1> QED BY <1>7, <1>8

\* What the DELETE selects cannot be accepted, its clock being behind.
LEMMA PurgeableDoomed ==
    ASSUME IInv, TokenHeld, NEW q \in Requests, pc[q] = "cleanup_tokens", NEW r \in Purgeable(q)
    PROVE  r \in Residents /\ Doomed(r)
<1>1. local[q].began <= clock /\ local[q].began \in Nat /\ clock \in Nat
  BY TimeAssumption DEF TokenHeld, IInv, TypeOK, Locals
<1>2. r \in Residents /\ tokens[r] # NULL /\ tokens[r].expires_at \in Nat /\ ResidentExists(r)
  BY DEF Purgeable, IInv, TypeOK, TokenRow, ReferentialIntegrity
<1>3. tokens[r].used \/ tokens[r].expires_at < clock
  BY <1>1, <1>2 DEF Purgeable
<1> QED BY <1>2, <1>3 DEF Doomed, TokenAccepted, Expired

\* The lock's guarantee is inductive.
LEMMA TokenHeldStep == IInv /\ IInv' /\ TokenHeld /\ [Next]_vars => TokenHeld'
<1> SUFFICES ASSUME IInv, IInv', TokenHeld, [Next]_vars PROVE TokenHeld'
  OBVIOUS
<1> USE DEF TokenSteps, PurgeSteps
<1>1. ASSUME NEW q \in Requests, pc'[q] = "cleanup_tokens" PROVE local'[q].began <= clock'
  <2>1. CASE pc'[q] = pc[q] /\ local'[q] = local[q]
    <3>1. local[q].began \in Nat /\ local[q].began <= clock
      BY <1>1, <2>1 DEF TokenHeld, IInv, TypeOK, Locals
    <3> QED BY <2>1, <3>1, ClockAdvances
  <2>2. CASE CleanupBegin(q)
    BY <2>2, ClockAdvances DEF CleanupBegin, Start, IInv, TypeOK, NoLocals
  <2>3. ~(CleanupTokens(q) \/ CleanupRow(q))
    BY <1>1, ScanStep
  <2> QED BY <1>1, <2>1, <2>2, <2>3, TokenStepStarts
<1>2. ASSUME NEW r \in Residents, Doomed(r) PROVE Doomed(r)'
  BY <1>2, TokenStep DEF Doomed
<1>3. ASSUME NEW q \in Requests, pc'[q] \in PurgeSteps PROVE ~CleanupBegin(q)
  BY <1>3 DEF CleanupBegin, Start, IInv, TypeOK
<1>4. ASSUME NEW q \in Requests, pc'[q] = "cleanup_rows", NEW r \in local'[q].todo \cup {local'[q].at}
      PROVE  Doomed(r)'
  <2>1. r \in Residents
    BY <1>4 DEF IInv, HandlersOK, CleanupOK, TypeOK, Locals
  <2>2. CASE pc'[q] = pc[q] /\ local'[q] = local[q]
    BY <1>2, <1>4, <2>1, <2>2 DEF TokenHeld
  <2>3. CASE CleanupTokens(q)
    <3>1. r \in Purgeable(q) /\ pc[q] = "cleanup_tokens"
      BY <1>4, <2>3, ScanStep
    <3> QED BY <1>2, <3>1, PurgeableDoomed
  <2>4. CASE CleanupRow(q)
    <3>1. r \in local[q].todo /\ pc[q] = "cleanup_rows"
      BY <1>4, <2>4, ScanStep
    <3> QED BY <1>2, <2>1, <3>1 DEF TokenHeld
  <2> QED BY <1>3, <1>4, <2>2, <2>3, <2>4, TokenStepStarts
<1>5. ASSUME NEW q \in Requests, pc'[q] \in PurgeSteps, NEW r \in local'[q].purged
      PROVE  Doomed(r)'
  <2>1. r \in Residents
    BY <1>5 DEF IInv, TypeOK, Locals
  <2>2. CASE pc'[q] = pc[q] /\ local'[q] = local[q]
    BY <1>2, <1>5, <2>1, <2>2 DEF TokenHeld
  <2>3. ~CleanupTokens(q)
    BY <1>5, ScanStep
  <2>4. CASE CleanupRow(q)
    <3>1. r \in local[q].purged \cup {local[q].at} /\ pc[q] = "cleanup_rows"
      BY <1>5, <2>4, ScanStep
    <3> QED BY <1>2, <2>1, <3>1 DEF TokenHeld
  <2> QED BY <1>3, <1>5, <2>2, <2>3, <2>4, TokenStepStarts
<1>6. ASSUME NEW p \in Requests, pc'[p] = "register_commit"
      PROVE  /\ tokens'[local'[p].resident] # NULL
             /\ \A q \in Requests : pc'[q] \in PurgeSteps => local'[p].resident \notin local'[q].purged
  <2> DEFINE r == local[p].resident
  <2>1. /\ local'[p] = local[p] /\ r \in Residents
        /\ pc[p] = "register_commit" \/ RegisterToken(p)
    <3>1. ~CleanupBegin(p) /\ ~CleanupTokens(p) /\ ~CleanupRow(p)
      BY <1>6, ScanStep DEF CleanupBegin, Start, IInv, TypeOK
    <3> QED BY <1>6, <3>1, TokenStepStarts DEF IInv, HandlersOK, RegisterOK, RegisterToken
  <2>2. /\ tokens[r] # NULL
        /\ \A q \in Requests \ {p} : pc[q] \in PurgeSteps => r \notin local[q].purged
    <3>1. CASE pc[p] = "register_commit"
      BY <3>1 DEF TokenHeld
    <3>2. CASE RegisterToken(p)
      BY <1>6, <3>2 DEF RegisterToken, TokenLocked, HoldsToken, Rollback, Close, IInv, TypeOK
    <3> QED BY <2>1, <3>1, <3>2
  <2>3. tokens'[r] # NULL
    <3>1. ASSUME NEW q \in Requests, CleanupCommit(q), r \in local[q].purged PROVE FALSE
      <4>1. q # p
        BY <1>6, <3>1 DEF CleanupCommit, Close, IInv, TypeOK
      <4> QED BY <2>2, <3>1, <4>1 DEF CleanupCommit
    <3> QED BY <2>1, <2>2, <3>1, TokenStep
  <2>4. ASSUME NEW q \in Requests, pc'[q] \in PurgeSteps PROVE r \notin local'[q].purged
    <3>0. q # p
      BY <1>6, <2>4
    <3>1. CASE pc'[q] = pc[q] /\ local'[q] = local[q]
      BY <2>2, <2>4, <3>0, <3>1
    <3>2. CASE CleanupTokens(q)
      BY <3>2, ScanStep
    <3>3. CASE CleanupRow(q)
      <4>1. pc[p] = "register_commit"
        BY <1>6, <3>0, <3>3, ScanStep
      <4>2. r # local[q].at
        BY <3>0, <3>3, <4>1, ScanStep DEF TokenLocked, HoldsToken
      <4> QED BY <2>2, <3>0, <3>3, <4>2, ScanStep
    <3> QED BY <1>3, <2>4, <3>1, <3>2, <3>3, TokenStepStarts
  <2> QED BY <2>1, <2>3, <2>4
<1> QED BY <1>1, <1>4, <1>5, <1>6 DEF TokenHeld

\* It holds of every behaviour.
LEMMA TokensHeld == Spec => []TokenHeld
<1>1. Init => TokenHeld
  BY DEF Init, TokenHeld, PurgeSteps
<1> QED BY <1>1, TokenHeldStep, Invariance, PTL DEF Spec

\* No purge takes a token with which a device could still be activated, however
\* long it waits for the rows of overlapping registrations.
THEOREM ValidTokensSurvive == Spec => ValidTokenSurvives
<1>1. ASSUME IInv, TokenHeld, [Next]_vars, NEW r \in Residents, tokens[r] # NULL, TokenAccepted(r)
      PROVE  tokens'[r] # NULL
  BY <1>1, TokenStep DEF TokenHeld, Doomed, PurgeSteps, CleanupCommit
<1>2. IInv /\ TokenHeld /\ [Next]_vars =>
         [\A r \in Residents : tokens[r] # NULL /\ TokenAccepted(r) => tokens'[r] # NULL]_vars
  BY <1>1
<1> QED BY <1>2, TokensHeld, Invariance, PTL DEF Spec, ValidTokenSurvives

\* A pending resident whose token was purged is never activated, not even by a
\* registration that had read the token before.
THEOREM PurgedTokensDead == Spec => PurgedTokenNeverActivates
<1> DEFINE Dead(r) == ResidentExists(r) /\ residents[r].status = "pending" /\ tokens[r] = NULL
<1>1. ASSUME IInv, TokenHeld, [Next]_vars, NEW r \in Residents, Dead(r)
      PROVE  tokens'[r] = NULL /\ residents'[r].status \in {"pending", "revoked"}
  <2>1. tokens'[r] = NULL
    BY <1>1, TokenStep
  <2>2. ASSUME NEW p \in Requests, ProvisionCommit(p) \/ RegisterCommit(p) PROVE residents'[r] = residents[r]
    <3>1. local[p].resident # r
      BY <1>1, <2>2 DEF ProvisionCommit, RegisterCommit, IInv, HandlersOK, ProvisionOK, ResidentExists, TokenHeld
    <3> QED BY <1>1, <2>2, <3>1 DEF ProvisionCommit, RegisterCommit, IInv, TypeOK
  <2>3. ASSUME NEW p \in Requests, RevokeCommit(p) \/ ContactCommit(p)
        PROVE  residents'[r].status \in {"pending", "revoked"}
    BY <1>1, <2>3, RevokeRow DEF IInv, TypeOK
  <2>4. ASSUME NEW p \in Requests, CleanupCommit(p) PROVE residents'[r] = residents[r]
    BY <2>4 DEF CleanupCommit
  <2> QED BY <1>1, <2>1, <2>2, <2>3, <2>4, RowsChangeAtCommit
<1>2. IInv /\ TokenHeld /\ [Next]_vars =>
         [\A r \in Residents : Dead(r) => /\ tokens'[r] = NULL
                                          /\ residents'[r].status \in {"pending", "revoked"}]_vars
  BY <1>1
<1> QED BY <1>2, TokensHeld, Invariance, PTL DEF Spec, PurgedTokenNeverActivates

-----------------------------------------------------------------------------
(* The order in which handlers lock rows. *)

\* Only register_token and the scan of a purge hold a row while they wait for
\* another, and a registration that waits holds a resident, which neither of the
\* two waits for.
LEMMA LockOrder == OnlyPurgesDeadlock
<1> SUFFICES ASSUME NEW S \in SUBSET Requests, Deadlock(S), NEW p \in S
             PROVE  pc[p] = "cleanup_rows"
  BY DEF OnlyPurgesDeadlock
<1>1. ASSUME NEW q \in S PROVE pc[q] \in {"register_token", "cleanup_rows"}
  <2>1. PICK o \in S : WaitsFor(q, o)
    BY DEF Deadlock
  <2>2. pc[q] \in {"register_flush", "revoke_flush", "contact_flush", "register_token", "cleanup_rows",
                   "provision_insert", "capacity_flush", "delete_flush"}
    BY <2>1 DEF WaitsFor
  <2>3. PICK w \in S : WaitsFor(w, q)
    BY DEF Deadlock
  <2>4. pc[q] \in {"register_token", "register_commit", "revoke_commit", "contact_commit",
                   "cleanup_rows", "cleanup_audit", "provision_commit", "capacity_commit",
                   "delete_commit"}
    BY <2>3 DEF WaitsFor, HoldsResident, HoldsToken, HoldsUnit, Deletes, SharesKey
  <2> QED BY <2>2, <2>4
<1>2. PICK w \in S : WaitsFor(w, p)
  BY DEF Deadlock
<1>3. pc[w] \in {"register_token", "cleanup_rows"}
  BY <1>1
<1>4. \E r : HoldsToken(p, r)
  BY <1>2, <1>3 DEF WaitsFor
<1>5. pc[p] # "register_token"
  BY <1>4 DEF HoldsToken
<1> QED BY <1>1, <1>5

\* Whatever overlaps, requests come to wait for each other only when two rounds
\* of the cleanup meet the same tokens in different orders.
THEOREM OnlyPurgesCycle == Spec => []OnlyPurgesDeadlock
BY LockOrder, PTL

-----------------------------------------------------------------------------
(* A binding is undone by revocation only. *)

\* No handler comes to overwrite the row of a resident who is not pending.
LEMMA NoActivationStarts ==
    ASSUME IInv, [Next]_vars, NEW r \in Residents, residents[r].status # "pending",
           ~ActivationInFlight(r)
    PROVE  ~ActivationInFlight(r)'
<1> SUFFICES ASSUME NEW q \in Requests,
                    pc'[q] \in {"register_flush", "register_token", "register_commit"},
                    local'[q].resident = r
             PROVE  FALSE
  BY DEF ActivationInFlight
<1> QED BY ActivationStarts DEF ActivationInFlight

\* A revocation or a correction of contacts keeps the key or clears it, and who
\* loses the key or the status is revoked.
LEMMA KeyAfterRevoke ==
    ASSUME IInv, NEW p \in Requests, RevokeCommit(p) \/ ContactCommit(p), NEW r \in Residents
    PROVE  /\ residents'[r].public_key \in {residents[r].public_key, NULL}
           /\ \/ residents'[r].revoked
              \/ /\ residents'[r].status = residents[r].status
                 /\ residents'[r].public_key = residents[r].public_key
<1> DEFINE o == local[p].resident
<1>1. /\ o \in Residents /\ residents[o] # NULL /\ residents[o] \in ResidentRow
  BY DEF RevokeCommit, ContactCommit, IInv, TypeOK, HandlersOK, RevokeOK, ResidentExists
<1>2. CASE r # o
  BY <1>1, <1>2 DEF RevokeCommit, ContactCommit, IInv, TypeOK
<1>3. CASE r = o /\ RevokeCommit(p)
  <2>1. residents'[o] = Revoked(local[p].seen_row, residents[o])
    BY <1>1, <1>3 DEF RevokeCommit, IInv, TypeOK
  <2>2. /\ Revoked(local[p].seen_row, residents[o]).revoked
        /\ Revoked(local[p].seen_row, residents[o]).public_key \in {residents[o].public_key, NULL}
    BY <1>1 DEF Revoked, ResidentRow
  <2> QED BY <1>3, <2>1, <2>2
<1>4. CASE r = o /\ ContactCommit(p)
  <2>1. PICK c : residents' = [residents EXCEPT ![o].contact = c]
    BY <1>4 DEF ContactCommit
  <2>2. residents'[o] = [residents[o] EXCEPT !.contact = c]
    BY <1>1, <2>1 DEF IInv, TypeOK
  <2> QED BY <1>1, <1>4, <2>2 DEF ResidentRow
<1> QED BY <1>2, <1>3, <1>4

\* Once a device is bound and no registration is past its checks, no other key
\* takes its place, and only a revocation undoes the binding.
THEOREM BindingFinal == Spec => BindingIsFinal
<1>1. ASSUME IInv, [Next]_vars, NEW r \in Residents, NEW k \in Keys, SettledActive(r, k)
      PROVE  /\ residents'[r].public_key \in {k, NULL}
             /\ SettledActive(r, k)' \/ residents'[r].revoked
  <2>1. ResidentExists(r)' /\ ~ActivationInFlight(r)'
    BY <1>1, TokenStep, NoActivationStarts DEF SettledActive
  <2>2. ASSUME NEW p \in Requests, ProvisionCommit(p) \/ RegisterCommit(p) PROVE residents'[r] = residents[r]
    <3>1. local[p].resident # r
      BY <1>1, <2>2 DEF ProvisionCommit, RegisterCommit, IInv, HandlersOK, ProvisionOK, ResidentExists,
                        SettledActive, ActivationInFlight
    <3> QED BY <1>1, <2>2, <3>1 DEF ProvisionCommit, RegisterCommit, IInv, TypeOK
  <2>3. CASE residents'[r] = residents[r]
    BY <1>1, <2>1, <2>3 DEF SettledActive
  <2>4. ASSUME NEW p \in Requests, RevokeCommit(p) \/ ContactCommit(p)
        PROVE  /\ residents'[r].public_key \in {k, NULL}
               /\ SettledActive(r, k)' \/ residents'[r].revoked
    BY <1>1, <2>1, <2>4, KeyAfterRevoke DEF SettledActive
  <2>5. ASSUME NEW p \in Requests, CleanupCommit(p) PROVE residents'[r] = residents[r]
    BY <2>5 DEF CleanupCommit
  <2> QED BY <1>1, <2>2, <2>3, <2>4, <2>5, RowsChangeAtCommit
<1>2. IInv /\ [Next]_vars =>
         [\A r \in Residents, k \in Keys : SettledActive(r, k) =>
             /\ residents'[r].public_key \in {k, NULL}
             /\ SettledActive(r, k)' \/ residents'[r].revoked]_vars
  BY <1>1
<1> QED BY <1>2, Invariance, PTL DEF Spec, BindingIsFinal

-----------------------------------------------------------------------------
(* A full unit stays full. *)

\* A provision past the capacity check of u, or judging it by a capacity that u
\* no longer has, did so before.
LEMMA NoAdmission ==
    ASSUME IInv, [Next]_vars, NEW u \in Units, SettledFull(u), units'[u] = units[u]
    PROVE  ~Admitted(u)'
<1> DEFINE Entering(s) == s \in {"provision_count", "provision_owner", "provision_insert", "provision_commit"}
<1> USE DEF IInv, TypeOK
<1> SUFFICES ASSUME NEW q \in Requests, local'[q].unit = u,
                    \/ pc'[q] \in {"provision_owner", "provision_insert", "provision_commit"}
                    \/ pc'[q] = "provision_count" /\ local'[q].seen_max # units[u]
             PROVE  FALSE
  BY DEF Admitted
<1>1. CASE pc'[q] = pc[q] /\ local'[q] = local[q]
  BY <1>1 DEF SettledFull, Admitted
<1>2. ASSUME NEW p \in Requests, Fail(p) \/ UnitServiceNext(p) \/ CleanupServiceNext(p),
             ~(pc'[q] = pc[q] /\ local'[q] = local[q])
      PROVE  ~Entering(pc'[q])
  BY <1>2 DEF Fail, Rollback, UnitServiceNext, CreateInsert, CreateCommit, CapacityLoad,
     CapacityCount, CapacityFlush, CapacityCommit, DeleteLoad, DeleteCount, DeleteFlush, DeleteCommit,
     CleanupServiceNext, CleanupBegin, CleanupTokens, CleanupRow, ScanOn, CleanupCommit, Start, Step, Close
<1>3. ASSUME NEW p \in Requests, RegisterLoadResident(p) \/ RegisterFlush(p) \/ RegisterToken(p)
                \/ RegisterCommit(p) \/ RevokeFlush(p) \/ RevokeCommit(p) \/ ContactFlush(p) \/ ContactCommit(p)
                \/ ProvisionBlocked(p) \/ ProvisionCommit(p)
                \/ (\E r \in Residents, k \in Keys : RegisterLoadToken(p, r, k))
                \/ (\E r \in Residents : RevokeLoad(p, r))
                \/ (\E r \in Residents, c \in Contacts : ContactLoad(p, r, c)),
             ~(pc'[q] = pc[q] /\ local'[q] = local[q])
      PROVE  ~Entering(pc'[q])
  BY <1>3 DEF RegisterLoadToken, RegisterLoadResident, RegisterFlush, RegisterToken, RegisterCommit, RevokeLoad,
     RevokeFlush, RevokeCommit, ContactLoad, ContactFlush, ContactCommit, ProvisionBlocked,
     ProvisionCommit, Rollback, Start, Step, Close
<1>4. ASSUME NEW p \in Requests, NEW o \in Units, NEW c \in Contacts \cup {NULL, PARTIAL},
             NEW r \in Residents, ProvisionLoadUnit(p, o, c, r)
      PROVE  FALSE
  <2>1. CASE p = q
    <3>1. /\ pc'[q] = "provision_count" /\ local'[q].unit = o /\ local'[q].seen_max = units[o]
      BY <1>4, <2>1 DEF ProvisionLoadUnit, Start, NoLocals
    <3> QED BY <3>1
  <2>2. CASE p # q
    BY <1>1, <1>4, <2>2 DEF ProvisionLoadUnit, Start
  <2> QED BY <2>1, <2>2
<1>5. ASSUME NEW p \in Requests, ProvisionCount(p) PROVE FALSE
  <2>1. CASE p = q
    <3>1. pc[q] = "provision_count" /\ local'[q] = local[q] /\ ~AtCapacity(q)
      BY <1>5, <2>1 DEF ProvisionCount, Step
    <3>2. local[q].seen_max = units[u]
      BY <3>1 DEF SettledFull, Admitted
    <3> QED BY <3>1, <3>2 DEF AtCapacity, SettledFull
  <2>2. CASE p # q
    BY <1>1, <1>5, <2>2 DEF ProvisionCount, Step
  <2> QED BY <2>1, <2>2
<1>6. ASSUME NEW p \in Requests, ProvisionOwner(p) \/ ProvisionInsert(p) PROVE FALSE
  <2>1. CASE p = q
    <3>1. pc[q] \in {"provision_owner", "provision_insert"} /\ local'[q].unit = local[q].unit
      BY <1>6, <2>1 DEF ProvisionOwner, ProvisionInsert, Rollback, Close, Step, Locals
    <3> QED BY <3>1 DEF SettledFull, Admitted
  <2>2. CASE p # q
    BY <1>1, <1>6, <2>2 DEF ProvisionOwner, ProvisionInsert, Rollback, Close, Step
  <2> QED BY <2>1, <2>2
<1>7. CASE UNCHANGED <<pc, local>>
  BY <1>1, <1>7
<1>8. \/ UNCHANGED <<pc, local>>
      \/ \E p \in Requests : Fail(p) \/ UnitServiceNext(p) \/ CleanupServiceNext(p) \/ ResidentServiceNext(p)
  BY DEF Next, Handler, Tick, vars
<1>9. CASE \E p \in Requests : ResidentServiceNext(p)
  BY <1>1, <1>3, <1>4, <1>5, <1>6, <1>9 DEF ResidentServiceNext
<1> QED BY <1>1, <1>2, <1>7, <1>8, <1>9

\* A resident who comes to be revoked was an occupant, and the only one to go.
LEMMA RevokedLeaves ==
    ASSUME IInv, [Next]_vars, NEW u \in Units, NEW r \in Residents,
           r \in ResidentsOf(u)', r \notin Occupants(u)',
           ~(r \in ResidentsOf(u) /\ r \notin Occupants(u))
    PROVE  r \in Occupants(u) /\ Occupants(u)' = Occupants(u) \ {r}
<1> USE DEF IInv, TypeOK
<1>1. residents'[r] # NULL /\ residents'[r].unit_id = u /\ residents'[r].status = "revoked"
  BY DEF ResidentsOf, Occupants, ResidentExists
<1>2. residents'[r] # residents[r]
  BY <1>1 DEF ResidentsOf, Occupants, ResidentExists
<1>3. ASSUME NEW p \in Requests, ProvisionCommit(p) PROVE residents'[r] = residents[r] \/ residents'[r].status = "pending"
  BY <1>3 DEF ProvisionCommit, HandlersOK, ProvisionOK
<1>4. ASSUME NEW p \in Requests, RegisterCommit(p) PROVE residents'[r] = residents[r] \/ residents'[r].status = "active"
  <2>1. local[p].resident \in Residents /\ residents[local[p].resident] \in ResidentRow
    BY <1>4 DEF RegisterCommit, HandlersOK, RegisterOK, ResidentExists
  <2> QED BY <1>4, <2>1 DEF RegisterCommit, ResidentRow
<1>5. PICK p \in Requests : RevokeCommit(p) \/ ContactCommit(p)
  BY <1>1, <1>2, <1>3, <1>4, RowsChangeAtCommit DEF CleanupCommit
<1>6. PICK row \in ResidentRow :
         /\ residents' = [residents EXCEPT ![local[p].resident] = row]
         /\ row.unit_id = residents[local[p].resident].unit_id
         /\ row.status \in {residents[local[p].resident].status, "revoked"}
  BY <1>5, RevokeRow
<1>7. r = local[p].resident /\ residents[r] # NULL /\ residents[r].unit_id = u
  BY <1>1, <1>2, <1>5, <1>6, RevokeRow, RowAssumption
<1>8. r \in Occupants(u)
  BY <1>7 DEF ResidentsOf, Occupants, ResidentExists
<1>9. \A o \in Residents \ {r} : residents'[o] = residents[o]
  BY <1>6, <1>7
<1>10. \A o \in Residents \ {r} : o \in Occupants(u)' <=> o \in Occupants(u)
  BY <1>9 DEF Occupants, ResidentsOf, ResidentExists
<1>11. Occupants(u) \subseteq Residents /\ Occupants(u)' \subseteq Residents
  BY DEF Occupants, ResidentsOf
<1> QED BY <1>8, <1>10, <1>11

\* With however many requests in flight: a full unit lets nobody in but those who
\* had been admitted when it filled up, until somebody is revoked or its capacity
\* is changed.
THEOREM FullUnitsAdmitNobody ==
    ASSUME IsFiniteSet(Residents)
    PROVE  Spec => FullUnitAdmitsNobody
<1>1. ASSUME IInv, [Next]_vars, NEW u \in Units, SettledFull(u),
             units'[u] = units[u], ~(ActiveResidentCount(u)' < ActiveResidentCount(u))
      PROVE  SettledFull(u)'
  <2>1. /\ Occupants(u) \in SUBSET Residents /\ Occupants(u)' \in SUBSET Residents
        /\ IsFiniteSet(Occupants(u)) /\ IsFiniteSet(Occupants(u)')
    BY FS_Subset DEF Occupants, ResidentsOf
  <2>2. ActiveResidentCount(u) \in Nat /\ ActiveResidentCount(u)' \in Nat /\ units[u] \in Nat
    BY <1>1, <2>1, FS_CardinalityType, CapacityAssumption DEF ActiveResidentCount, SettledFull, UnitExists
  <2>3. UnitExists(u)' /\ ActiveResidentCount(u)' >= units'[u]
    BY <1>1, <2>2 DEF SettledFull, UnitExists
  <2>4. ASSUME NEW r \in ResidentsOf(u)' \ Occupants(u)' PROVE ~ActivationInFlight(r)'
    <3>1. r \in Residents
      BY DEF ResidentsOf
    <3>2. CASE r \in ResidentsOf(u) /\ r \notin Occupants(u)
      <4>1. residents[r].status # "pending"
        BY <3>2 DEF Occupants
      <4> QED BY <1>1, <3>1, <3>2, <4>1, NoActivationStarts DEF SettledFull
    <3>3. CASE ~(r \in ResidentsOf(u) /\ r \notin Occupants(u))
      <4>1. r \in Occupants(u) /\ Occupants(u)' = Occupants(u) \ {r}
        BY <1>1, <3>1, <3>3, RevokedLeaves
      <4>2. Cardinality(Occupants(u)') = Cardinality(Occupants(u)) - 1
        BY <2>1, <4>1, FS_RemoveElement
      <4> QED BY <1>1, <2>2, <4>2 DEF ActiveResidentCount
    <3> QED BY <3>2, <3>3
  <2> QED BY <1>1, <2>3, <2>4, NoAdmission DEF SettledFull
<1>2. IInv /\ [Next]_vars =>
         [\A u \in Units : SettledFull(u) =>
             \/ SettledFull(u)'
             \/ ActiveResidentCount(u)' < ActiveResidentCount(u)
             \/ units'[u] # units[u]]_vars
  BY <1>1
<1> QED BY <1>2, Invariance, PTL DEF Spec, FullUnitAdmitsNobody
=============================================================================
